------------------------ MODULE VerificationCall_proofs ------------------------
(***************************************************************************)
(* Theorems about the calls on the sidecar, for any number of threads,     *)
(* connections and requests and any size of the pool.                      *)
(***************************************************************************)
EXTENDS VerificationCall, FiniteSetTheorems, TLAPS

USE SidecarAssumption, CallAssumption

(* A step of the sidecar for one connection, a step of one thread.         *)
LEMMA NextCases ==
    ASSUME [Next]_vars
    PROVE  \/ Load /\ UNCHANGED callVars
           \/ Listen /\ UNCHANGED callVars
           \/ Kill /\ UNCHANGED callVars
           \/ \E c \in Sockets : Serve(c) /\ UNCHANGED callVars
           \/ \E w \in Threads, r \in Requests : VerifyPresentation(w, r)
           \/ \E w \in Threads :
                  \/ LeasePooled(w) \/ LeaseNew(w) \/ LeaseFails(w)
                  \/ Read(w) \/ CallFails(w) \/ Return(w)
           \/ UNCHANGED vars
BY DEF Next, SidecarNext, Proceed, Lease

-------------------------------------------------------------------------------
(* Type correctness.  A thread that waits has a connection of its own, an  *)
(* open one that is not in the pool; what the pool holds is quiet; what is *)
(* served is a request.                                                    *)
Leased ==
    /\ \A w \in Threads :
           /\ call[w] = "waiting" <=> socket[w] # NoSocket
           /\ call[w] # "idle" => asked[w] \in Requests
           /\ call[w] = "idle" => asked[w] = NoRequest
           /\ socket[w] # NoSocket => socket[w] \in open \ pool
    /\ \A v, w \in Threads :
           v # w /\ socket[v] # NoSocket => socket[v] # socket[w]

Quiet ==
    \A c \in Sockets :
        /\ c \notin open \/ c \in pool => wire[c] = NoAnswer
        /\ c \in pool \/ wire[c] # NoAnswer => task[c] \in {"none", "gone"}

Served ==
    \A c \in Sockets :
        /\ task[c] \in {"received", "checking"} => request[c] \in Requests
        /\ task[c] = "checking" => request[c].kind = "presentation"

CallInv == TypeOK /\ Leased /\ Quiet /\ Served

LEMMA InitCallInv == Init => CallInv
BY DEF Init, SidecarInit, CallInv, TypeOK, SidecarTypeOK, Leased, Quiet, Served

LEMMA AnswersTyped ==
    /\ \A kind \in {"unreachable", "error"} : Flagless(kind) \in SidecarAnswers
    /\ \A d \in SUBSET Flags : Result(d) \in SidecarAnswers
BY DEF Flagless, Result, SidecarAnswers, Answer

(* The server goes on with a request, or answers it.                       *)
LEMMA ServeEffect ==
    ASSUME CallInv, NEW c \in Sockets, Serve(c)
    PROVE  /\ task[c] \in {"received", "checking"}
           /\ Verify(c) \/ \E a \in SidecarAnswers : Reply(c, a)
<1>. USE DEF CallInv, TypeOK, SidecarTypeOK
<1>1. CASE Unparsable(c) \/ Health(c) \/ VerifyProofless(c)
    BY <1>1, AnswersTyped DEF Unparsable, Health, VerifyProofless, Received
<1>2. CASE Verify(c)
    BY <1>2 DEF Verify, Received
<1>3. CASE VerifyEnds(c)
    <2>1. request[c].defects \in SUBSET Flags
        BY <1>3 DEF VerifyEnds, Served, Request
    <2>. QED BY <1>3, <2>1, AnswersTyped DEF VerifyEnds
<1>. QED BY <1>1, <1>2, <1>3 DEF Serve

LEMMA SidecarCallInv ==
    ASSUME CallInv, UNCHANGED callVars,
           Load \/ Listen \/ Kill \/ \E c \in Sockets : Serve(c)
    PROVE  CallInv'
<1>. USE DEF CallInv, TypeOK, SidecarTypeOK, callVars
<1>1. CASE Load
    BY <1>1 DEF Load, Leased, Quiet, Served
<1>2. CASE Listen
    BY <1>2 DEF Listen, Leased, Quiet, Served
<1>3. CASE Kill
    BY <1>3 DEF Kill, Die, Leased, Quiet, Served
<1>4. ASSUME NEW c \in Sockets, Verify(c)
      PROVE  CallInv'
    BY <1>4 DEF Verify, Received, Leased, Quiet, Served
<1>5. ASSUME NEW c \in Sockets, NEW a \in SidecarAnswers, Reply(c, a),
             task[c] \in {"received", "checking"}
      PROVE  CallInv'
    BY <1>5 DEF Reply, Leased, Quiet, Served
<1>. QED BY <1>1, <1>2, <1>3, <1>4, <1>5, ServeEffect

LEMMA SendCallInv ==
    ASSUME CallInv, NEW w \in Threads, LeasePooled(w) \/ LeaseNew(w)
    PROVE  CallInv'
<1>. USE DEF CallInv, TypeOK, SidecarTypeOK
<1>1. PICK c \in Sockets :
          /\ Send(w, c)
          /\ c \in pool \/ (c \notin open /\ task[c] = "none")
          /\ pool' = pool \ {c} /\ open' = open \cup {c}
    <2>1. CASE LeasePooled(w)
        BY <2>1 DEF LeasePooled
    <2>2. CASE LeaseNew(w)
        BY <2>2 DEF LeaseNew, Free
    <2>. QED BY <2>1, <2>2
<1>2. /\ wire[c] = NoAnswer
      /\ \A v \in Threads : socket[v] # c
      /\ task' \in [Sockets -> {"none", "received", "checking", "gone"}]
      /\ request' \in [Sockets -> Requests \cup {NoRequest}]
      /\ UNCHANGED <<process, wire, asked>>
      /\ asked[w] \in Requests
    BY <1>1 DEF Send, Quiet, Leased
<1>3. TypeOK'
    BY <1>1, <1>2 DEF Send, Goto
<1>4. Leased'
    BY <1>1, <1>2 DEF Send, Goto, Leased
<1>5. Quiet' /\ Served'
    BY <1>1, <1>2 DEF Send, Quiet, Served
<1>. QED BY <1>3, <1>4, <1>5

LEMMA ReadCallInv ==
    ASSUME CallInv, NEW w \in Threads, Read(w) \/ CallFails(w)
    PROVE  CallInv'
<1>. USE DEF CallInv, TypeOK, SidecarTypeOK
<1>. DEFINE c == socket[w]
<1>1. /\ c \in open \ pool /\ c \in Sockets
      /\ \A v \in Threads : v # w => socket[v] # c
    BY DEF Read, Answered, CallFails, Leased
<1>. HIDE DEF c
<1>2. CASE Read(w)
    <2>1. /\ task[c] \in {"none", "gone"}
          /\ pool' = pool \cup {c} /\ wire' = [wire EXCEPT ![c] = NoAnswer]
          /\ socket' = [socket EXCEPT ![w] = NoSocket]
          /\ \E verdict \in Verdicts : call' = [call EXCEPT ![w] = verdict]
          /\ UNCHANGED <<process, open, task, request, asked>>
          /\ call[w] = "waiting"
        BY <1>1, <1>2 DEF Read, Answered, Goto, Verdicts, Quiet, c
    <2>. QED BY <1>1, <2>1 DEF Verdicts, Leased, Quiet, Served
<1>3. CASE CallFails(w)
    <2>1. /\ open' = open \ {c} /\ wire' = [wire EXCEPT ![c] = NoAnswer]
          /\ task' \in {task, [task EXCEPT ![c] = "none"]}
          /\ socket' = [socket EXCEPT ![w] = NoSocket]
          /\ call' = [call EXCEPT ![w] = "rejected"]
          /\ UNCHANGED <<process, pool, request, asked>>
          /\ call[w] = "waiting"
        BY <1>1, <1>3 DEF CallFails, Goto, c
    <2>. QED BY <1>1, <2>1 DEF Verdicts, Leased, Quiet, Served
<1>. QED BY <1>2, <1>3

LEMMA NextCallInv == CallInv /\ [Next]_vars => CallInv'
<1>. SUFFICES ASSUME CallInv, [Next]_vars
              PROVE  CallInv'
    OBVIOUS
<1>1. ASSUME NEW w \in Threads, NEW r \in Requests, VerifyPresentation(w, r)
      PROVE  CallInv'
    BY <1>1 DEF VerifyPresentation, Goto, sidecarVars, CallInv, TypeOK, SidecarTypeOK,
                Leased, Quiet, Served
<1>2. ASSUME NEW w \in Threads, LeaseFails(w) \/ Return(w)
      PROVE  CallInv'
    BY <1>2 DEF LeaseFails, Return, Goto, Verdicts, sidecarVars, CallInv, TypeOK,
                SidecarTypeOK, Leased, Quiet, Served
<1>3. CASE UNCHANGED vars
    BY <1>3 DEF vars, sidecarVars, callVars, CallInv, TypeOK, SidecarTypeOK,
                Leased, Quiet, Served
<1>. QED BY <1>1, <1>2, <1>3, NextCases, SidecarCallInv, SendCallInv, ReadCallInv

(* Every variable of the sidecar and of the calls stays in its range; in   *)
(* particular the plugin reads no answer but those of SidecarAnswers.      *)
THEOREM TypeCorrect == Spec => []TypeOK
<1>1. Spec => []CallInv
    BY InitCallInv, NextCallInv, PTL DEF Spec
<1>. QED BY <1>1, PTL DEF CallInv

-------------------------------------------------------------------------------
(* A verdict of true is about the thread's own presentation.  What the     *)
(* server holds for a leased connection is the request of the thread that  *)
(* leased it, and an answer on its way is an answer to that request.       *)
Own ==
    \A w \in Threads :
        call[w] = "waiting" =>
            /\ task[socket[w]] \in {"received", "checking"}
                   => request[socket[w]] = asked[w]
            /\ wire[socket[w]] # NoAnswer /\ Verified(wire[socket[w]])
                   => Genuine(asked[w])

SoundInv == Own /\ VerdictSound

LEMMA InitSound == Init => SoundInv
BY DEF Init, SoundInv, Own, VerdictSound

(* An answer that passes is the result of the check of a genuine request.  *)
LEMMA ServeSound ==
    ASSUME CallInv, NEW c \in Sockets, Serve(c),
           NEW a \in SidecarAnswers, Reply(c, a), Verified(a), wire' # wire
    PROVE  Genuine(request[c])
<1>. USE DEF CallInv, TypeOK, SidecarTypeOK
<1>1. a # NoAnswer /\ wire' = [wire EXCEPT ![c] = a] /\ wire'[c] = a
    BY DEF Reply, SidecarAnswers
<1>2. ASSUME NEW kind, Reply(c, Flagless(kind)), kind # "result"
      PROVE  FALSE
    BY <1>1, <1>2 DEF Reply, Flagless, Verified
<1>3. VerifyEnds(c) /\ Reply(c, Result(request[c].defects))
    BY <1>2 DEF Serve, Unparsable, Health, VerifyProofless, VerifyEnds, Verify, Reply
<1>4. request[c].kind = "presentation"
    BY <1>3 DEF VerifyEnds, Served
<1>. QED BY <1>1, <1>3, <1>4 DEF Reply, Result, Verified, Genuine

LEMMA NextSound == CallInv /\ SoundInv /\ [Next]_vars => SoundInv'
<1>. SUFFICES ASSUME CallInv, SoundInv, [Next]_vars
              PROVE  SoundInv'
    OBVIOUS
<1>. USE DEF CallInv, TypeOK, SidecarTypeOK, SoundInv
<1>1. CASE (Load \/ Listen \/ Kill) /\ UNCHANGED callVars
    BY <1>1 DEF Load, Listen, Kill, Die, callVars, Own, VerdictSound, Leased
<1>2. ASSUME NEW c \in Sockets, Serve(c), UNCHANGED callVars
      PROVE  SoundInv'
    <2>1. VerdictSound'
        BY <1>2 DEF callVars, VerdictSound
    <2>2. CASE Verify(c)
        BY <1>2, <2>2 DEF Verify, Received, callVars, Own, VerdictSound, Leased
    <2>3. ASSUME NEW a \in SidecarAnswers, Reply(c, a)
          PROVE  Own'
        <3>. SUFFICES ASSUME NEW w \in Threads, call'[w] = "waiting",
                             wire'[socket'[w]] # NoAnswer,
                             Verified(wire'[socket'[w]]),
                             socket[w] = c, wire' # wire
                      PROVE  Genuine(asked'[w])
            BY <1>2, <2>3 DEF Reply, callVars, Own, Leased
        <3>1. wire' = [wire EXCEPT ![c] = a] /\ UNCHANGED <<socket, asked, call>>
            BY <1>2, <2>3 DEF Reply, callVars
        <3>2. task[c] \in {"received", "checking"} /\ request[c] = asked[w]
            BY <1>2, <3>1, ServeEffect DEF Own
        <3>3. Verified(a)
            BY <3>1
        <3>. QED BY <1>2, <2>3, <3>1, <3>2, <3>3, ServeSound
    <2>. QED BY <1>2, <2>1, <2>2, <2>3, ServeEffect
<1>3. ASSUME NEW w \in Threads,
             LeaseFails(w) \/ Return(w) \/ \E r \in Requests : VerifyPresentation(w, r)
      PROVE  SoundInv'
    BY <1>3 DEF LeaseFails, Return, VerifyPresentation, Goto, Verdicts, sidecarVars,
                Own, VerdictSound
<1>4. ASSUME NEW w \in Threads, LeasePooled(w) \/ LeaseNew(w)
      PROVE  SoundInv'
    <2>1. PICK c \in Sockets : Send(w, c) /\ (c \in pool \/ c \notin open)
        BY <1>4 DEF LeasePooled, LeaseNew, Free
    <2>2. wire[c] = NoAnswer /\ \A v \in Threads : socket[v] # c
        BY <2>1 DEF Quiet, Leased, Send
    <2>. QED BY <2>1, <2>2 DEF Send, Goto, Own, VerdictSound, Leased
<1>5. ASSUME NEW w \in Threads, Read(w) \/ CallFails(w)
      PROVE  SoundInv'
    <2>1. /\ call[w] = "waiting"
          /\ \A v \in Threads : v # w /\ call[v] = "waiting" => socket[v] # socket[w]
          /\ socket[w] \in Sockets
          /\ \A v \in Threads : v # w => call'[v] = call[v] /\ socket'[v] = socket[v]
          /\ \A c \in Sockets : c # socket[w] => task'[c] = task[c] /\ wire'[c] = wire[c]
          /\ UNCHANGED <<request, asked>>
          /\ call'[w] = "verified" => wire[socket[w]] # NoAnswer /\ Verified(wire[socket[w]])
          /\ call'[w] # "waiting"
        BY <1>5 DEF Read, Answered, CallFails, Goto, Leased
    <2>2. \A v \in Threads : call[v] = "waiting" => socket[v] \in Sockets
        BY DEF Leased
    <2>. QED BY <2>1, <2>2 DEF Own, VerdictSound
<1>6. CASE UNCHANGED vars
    BY <1>6 DEF vars, sidecarVars, callVars, Own, VerdictSound
<1>. QED BY <1>1, <1>2, <1>3, <1>4, <1>5, <1>6, NextCases

(* verifyPresentation returns true only for a presentation that the        *)
(* library found nothing wrong with, whatever is in flight, times out, is  *)
(* killed or started again.                                                *)
THEOREM VerdictAlwaysSound == Spec => []VerdictSound
<1>1. Spec => [](CallInv /\ SoundInv)
    BY InitCallInv, NextCallInv, InitSound, NextSound, PTL DEF Spec
<1>. QED BY <1>1, PTL DEF SoundInv

-------------------------------------------------------------------------------
(* Only its own start and whoever kills it end the sidecar.                *)
THEOREM AlwaysStaysUp == Spec => StaysUp
<1>1. ASSUME CallInv, [Next]_vars, process = "listening"
      PROVE  process' # "exited"
    <2>1. ASSUME NEW c \in Sockets, Serve(c)
          PROVE  UNCHANGED process
        BY <1>1, <2>1, ServeEffect DEF Verify, Reply
    <2>2. ASSUME NEW w \in Threads,
                 \/ LeasePooled(w) \/ LeaseNew(w) \/ LeaseFails(w) \/ Read(w)
                 \/ CallFails(w) \/ Return(w)
                 \/ \E r \in Requests : VerifyPresentation(w, r)
          PROVE  UNCHANGED process
        BY <2>2 DEF LeasePooled, LeaseNew, Send, LeaseFails, Read, CallFails, Return,
                    VerifyPresentation, sidecarVars
    <2>. QED BY <1>1, <2>1, <2>2, NextCases DEF Load, Listen, Kill, Die, vars, sidecarVars
<1>2. CallInv /\ [Next]_vars => [process = "listening" => process' # "exited"]_vars
    BY <1>1
<1>. QED BY <1>2, InitCallInv, NextCallInv, PTL DEF Spec, StaysUp
-------------------------------------------------------------------------------
(* The connections.  That those of the pool and those of the waiting       *)
(* threads are open and distinct is in CallInv; here, that there are no    *)
(* others, and how many there are.                                         *)
Accounted == \A c \in open : c \in pool \/ \E w \in Threads : socket[w] = c

PoolInv == Accounted /\ IsFiniteSet(open) /\ Cardinality(open) <= PoolSize

LEMMA NextPool == CallInv /\ PoolInv /\ [Next]_vars => PoolInv'
<1>. SUFFICES ASSUME CallInv, PoolInv, [Next]_vars
              PROVE  PoolInv'
    OBVIOUS
<1>. USE DEF CallInv, TypeOK, SidecarTypeOK
<1>0. Cardinality(open) \in Nat
    BY FS_CardinalityType DEF PoolInv
<1>1. ASSUME UNCHANGED <<open, pool, socket>>
      PROVE  PoolInv'
    BY <1>1 DEF PoolInv, Accounted
<1>2. ASSUME Load \/ Listen \/ Kill \/ \E c \in Sockets : Serve(c), UNCHANGED callVars
      PROVE  PoolInv'
    <2>1. UNCHANGED open
        BY <1>2, ServeEffect DEF Load, Listen, Kill, Verify, Reply
    <2>. QED BY <1>1, <1>2, <2>1 DEF callVars
<1>3. ASSUME NEW w \in Threads,
             LeaseFails(w) \/ Return(w) \/ \E r \in Requests : VerifyPresentation(w, r)
      PROVE  PoolInv'
    BY <1>1, <1>3 DEF LeaseFails, Return, VerifyPresentation, sidecarVars
<1>4. ASSUME NEW w \in Threads, LeasePooled(w)
      PROVE  PoolInv'
    <2>1. PICK c \in pool : Send(w, c) /\ pool' = pool \ {c} /\ UNCHANGED open
        BY <1>4 DEF LeasePooled
    <2>2. \A v \in Threads : socket[v] # NoSocket => socket'[v] = socket[v]
        BY <2>1 DEF Send, Leased
    <2>3. socket'[w] = c
        BY <2>1 DEF Send
    <2>4. Accounted'
        BY <2>1, <2>2, <2>3 DEF PoolInv, Accounted
    <2>. QED BY <2>1, <2>4 DEF PoolInv
<1>5. ASSUME NEW w \in Threads, LeaseNew(w)
      PROVE  PoolInv'
    <2>1. PICK c \in Free : Send(w, c) /\ open' = open \cup {c} /\ UNCHANGED pool
        BY <1>5 DEF LeaseNew
    <2>2. \A v \in Threads : socket[v] # NoSocket => socket'[v] = socket[v]
        BY <2>1 DEF Send, Leased
    <2>3. socket'[w] = c /\ c \notin open
        BY <2>1 DEF Send, Free
    <2>4. Accounted'
        BY <2>1, <2>2, <2>3 DEF PoolInv, Accounted
    <2>5. IsFiniteSet(open') /\ Cardinality(open') = Cardinality(open) + 1
        BY <2>1, <2>3, FS_AddElement DEF PoolInv
    <2>. QED BY <1>0, <1>5, <2>4, <2>5 DEF PoolInv, LeaseNew
<1>6. ASSUME NEW w \in Threads, Read(w)
      PROVE  PoolInv'
    <2>1. Accounted'
        BY <1>6 DEF Read, PoolInv, Accounted
    <2>. QED BY <1>6, <2>1 DEF Read, PoolInv
<1>7. ASSUME NEW w \in Threads, CallFails(w)
      PROVE  PoolInv'
    <2>1. /\ open' = open \ {socket[w]} /\ UNCHANGED pool
          /\ socket' = [socket EXCEPT ![w] = NoSocket]
          /\ socket[w] \in open
        BY <1>7 DEF CallFails, Leased
    <2>2. Accounted'
        BY <2>1 DEF PoolInv, Accounted
    <2>3. IsFiniteSet(open') /\ Cardinality(open') = Cardinality(open) - 1
        BY <2>1, FS_RemoveElement DEF PoolInv
    <2>. QED BY <1>0, <2>2, <2>3 DEF PoolInv
<1>8. CASE UNCHANGED vars
    BY <1>1, <1>8 DEF vars, sidecarVars, callVars
<1>. QED BY <1>2, <1>3, <1>4, <1>5, <1>6, <1>7, <1>8, NextCases

LEMMA PoolAlways == Spec => [](CallInv /\ PoolInv)
<1>1. Init => PoolInv
    BY FS_EmptySet DEF Init, SidecarInit, PoolInv, Accounted
<1>. QED BY <1>1, InitCallInv, NextCallInv, NextPool, PTL DEF Spec

(* verifyPresentation leaks no connection and shares none, for any number  *)
(* of threads and connections and any size of the pool.                    *)
THEOREM PoolAlwaysAccounted == Spec => []PoolAccounted
<1>1. CallInv /\ PoolInv => PoolAccounted
  <2>. SUFFICES ASSUME CallInv, PoolInv
                PROVE  PoolAccounted
      OBVIOUS
  <2>1. open = pool \cup {socket[w] : w \in Waiting}
    <3>1. \A w \in Waiting : socket[w] \in open
        BY DEF CallInv, Leased, Waiting
    <3>2. \A c \in open : c \in pool \/ \E w \in Waiting : socket[w] = c
        BY DEF CallInv, TypeOK, SidecarTypeOK, Leased, PoolInv, Accounted, Waiting
    <3>3. pool \subseteq open
        BY DEF CallInv, TypeOK
    <3>. QED BY <3>1, <3>2, <3>3
  <2>. QED BY <2>1 DEF CallInv, Leased, PoolInv, PoolAccounted, Waiting
<1>. QED BY <1>1, PoolAlways, PTL

(* Nobody waits for nobody: a thread that can neither lease a connection   *)
(* nor be refused one waits for a thread that waits for an answer, and     *)
(* that one can always go on, if only with the socket timeout              *)
(* (verifyPresentation, called by many threads with one client).           *)
Blocked(w) == call[w] = "leasing" /\ pool = {} /\ Cardinality(open) >= PoolSize

THEOREM BlockedByAnother == Spec => [](\A w \in Threads : Blocked(w) => Waiting # {})
<1>1. PoolAccounted => \A w \in Threads : Blocked(w) => Waiting # {}
  <2>. SUFFICES ASSUME PoolAccounted, pool = {}, Cardinality(open) >= PoolSize, Waiting = {}
                PROVE  FALSE
      BY DEF Blocked
  <2>1. open = {}
      BY DEF PoolAccounted
  <2>. QED BY <2>1, FS_EmptySet
<1>. QED BY <1>1, PoolAlwaysAccounted, PTL

-------------------------------------------------------------------------------
(* The contract with the caller.                                           *)
Verdict == [w \in Threads |-> IF call[w] \in Verdicts THEN call[w] ELSE "none"]

(* A thread that goes on without a verdict shows its caller nothing.       *)
LEMMA Silent ==
    ASSUME UNCHANGED asked, NEW w \in Threads, call[w] \notin Verdicts,
           CallInv, NEW step, step \notin Verdicts, Goto(w, step)
    PROVE  UNCHANGED <<asked, Verdict>>
BY DEF CallInv, TypeOK, Goto, Verdict, Verdicts

(* A thread that comes to a verdict decides; that it may say "verified" is *)
(* the invariant behind VerdictSound.                                      *)
LEMMA Decides ==
    ASSUME CallInv, UNCHANGED asked, NEW w \in Threads, call[w] \in {"leasing", "waiting"},
           NEW v \in Verdicts, Goto(w, v), v = "verified" => Genuine(asked[w])
    PROVE  Contract!Decide(w, v)
<1>1. asked[w] \in Requests /\ asked[w] # NoRequest
    BY DEF CallInv, Leased
<1>2. Verdict' = [Verdict EXCEPT ![w] = v] /\ Verdict[w] = "none"
    BY DEF CallInv, TypeOK, Goto, Verdict, Verdicts
<1>. QED BY <1>1, <1>2 DEF Contract!Decide, Verdict

LEMMA ContractStep ==
    ASSUME CallInv, SoundInv, SoundInv', [Next]_vars
    PROVE  [Contract!Next]_<<asked, Verdict>>
<1>. USE DEF Contract!Next
<1>1. ASSUME UNCHANGED callVars
      PROVE  UNCHANGED <<asked, Verdict>>
    BY <1>1 DEF callVars, Verdict
<1>2. ASSUME NEW w \in Threads, NEW r \in Requests, VerifyPresentation(w, r)
      PROVE  Contract!Next
    <2>1. asked[w] = NoRequest /\ UNCHANGED Verdict
        BY <1>2 DEF VerifyPresentation, Goto, CallInv, TypeOK, Leased, Verdict, Verdicts
    <2>2. Contract!Ask(w, r)
        BY <1>2, <2>1 DEF VerifyPresentation, Contract!Ask, Verdict
    <2>. QED BY <2>2
<1>3. ASSUME NEW w \in Threads, LeasePooled(w) \/ LeaseNew(w)
      PROVE  UNCHANGED <<asked, Verdict>>
    <2>1. call[w] = "leasing" /\ UNCHANGED asked /\ Goto(w, "waiting")
        BY <1>3 DEF LeasePooled, LeaseNew, Send
    <2>. QED BY <2>1, Silent DEF Verdicts
<1>4. ASSUME NEW w \in Threads, LeaseFails(w) \/ CallFails(w)
      PROVE  Contract!Next
    <2>1. Contract!Decide(w, "rejected")
        BY <1>4, Decides DEF LeaseFails, CallFails, Verdicts
    <2>. QED BY <2>1
<1>5. ASSUME NEW w \in Threads, Read(w)
      PROVE  Contract!Next
    <2>1. PICK v \in Verdicts : Goto(w, v)
        BY <1>5 DEF Read, Verdicts
    <2>2. call'[w] = v /\ UNCHANGED asked /\ call[w] = "waiting"
        BY <1>5, <2>1 DEF Read, Answered, Goto, CallInv, TypeOK
    <2>3. v = "verified" => Genuine(asked[w])
        BY <2>2 DEF SoundInv, VerdictSound
    <2>4. Contract!Decide(w, v)
        BY <2>1, <2>2, <2>3, Decides
    <2>. QED BY <2>4 DEF Verdicts
<1>6. ASSUME NEW w \in Threads, Return(w)
      PROVE  Contract!Next
    <2>1. Verdict[w] # "none" /\ Verdict' = [Verdict EXCEPT ![w] = "none"]
        BY <1>6 DEF Return, Goto, CallInv, TypeOK, Verdict, Verdicts
    <2>2. Contract!Return(w)
        BY <1>6, <2>1 DEF Return, Contract!Return, Verdict
    <2>. QED BY <2>2
<1>. QED BY <1>1, <1>2, <1>3, <1>4, <1>5, <1>6, NextCases DEF vars

(* The implementation theorem: the client, the connections and the sidecar *)
(* amount to one verdict per call, sound and for the right request.        *)
THEOREM AlwaysKeepsContract == Spec => KeepsContract
<1>1. Init => Contract!Init
    BY DEF Init, Verdicts, Contract!Init
<1>2. CallInv /\ SoundInv /\ SoundInv' /\ [Next]_vars
          => [Contract!Next]_<<asked, [w \in Threads |->
                                  IF call[w] \in Verdicts THEN call[w] ELSE "none"]>>
    BY ContractStep DEF Verdict
<1>. QED BY <1>1, <1>2, InitCallInv, NextCallInv, InitSound, NextSound, PTL
         DEF Spec, KeepsContract, Contract!Spec
===============================================================================
