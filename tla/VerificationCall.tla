---------------------------- MODULE VerificationCall ----------------------------
(***************************************************************************)
(* verifyPresentation of PresentationVerificationService: threads of       *)
(* Keycloak call the sidecar through the HTTP client of Keycloak, which    *)
(* keeps connections in a pool.  This is what DidLogin takes for one step  *)
(* with any answer (PostVerify).  A call begins at line 37, after the log  *)
(* statement of line 36, whose exception PostVerify has: a presentation    *)
(* that raises there asks the sidecar nothing.                             *)
(*                                                                         *)
(* A health probe, or a request made by hand, is a call like any other.    *)
(* The HTTP client is outside the repository: a connection is leased,      *)
(* given back when the entity of the answer has been read to its end       *)
(* (EntityUtils.toString), and closed after an exception.                  *)
(***************************************************************************)
EXTENDS Sidecar

CONSTANTS Threads,
          PoolSize,   \* the connections of the client's pool for one route
          NoSocket

ASSUME CallAssumption == PoolSize \in Nat \ {0} /\ NoSocket \notin Sockets

VARIABLES call,    \* per thread: the step of verifyPresentation, or its verdict
          asked,   \* per thread: the request it is about
          socket,  \* per thread: the connection it has leased
          pool     \* connections that are open and not leased

callVars == <<call, asked, socket, pool>>
vars == <<sidecarVars, callVars>>

Verdicts == {"verified", "rejected"}

(* Type invariant. *)
TypeOK ==
    /\ SidecarTypeOK
    /\ call \in [Threads -> {"idle", "leasing", "waiting"} \cup Verdicts]
    /\ asked \in [Threads -> Requests \cup {NoRequest}]
    /\ socket \in [Threads -> Sockets \cup {NoSocket}]
    /\ pool \subseteq open

Init ==
    /\ SidecarInit
    /\ call = [w \in Threads |-> "idle"]
    /\ asked = [w \in Threads |-> NoRequest]
    /\ socket = [w \in Threads |-> NoSocket]
    /\ pool = {}

-------------------------------------------------------------------------------
Goto(w, step) == call' = [call EXCEPT ![w] = step]

VerifyPresentation(w, r) ==
    /\ call[w] = "idle"
    /\ Goto(w, "leasing")
    /\ asked' = [asked EXCEPT ![w] = r]
    /\ UNCHANGED <<sidecarVars, socket, pool>>

Free == {c \in Sockets \ open : task[c] = "none"}

(* The request is sent on c.  It gets lost if the server's end is closed.  *)
Send(w, c) ==
    /\ call[w] = "leasing"
    /\ Goto(w, "waiting")
    /\ socket' = [socket EXCEPT ![w] = c]
    /\ IF task[c] = "gone"
       THEN UNCHANGED <<task, request>>
       ELSE /\ task' = [task EXCEPT ![c] = "received"]
            /\ request' = [request EXCEPT ![c] = asked[w]]
    /\ UNCHANGED <<process, wire, asked>>

LeasePooled(w) ==
    \E c \in pool : Send(w, c) /\ pool' = pool \ {c} /\ UNCHANGED open

LeaseNew(w) ==
    /\ Cardinality(open) < PoolSize /\ process = "listening"
    /\ \E c \in Free : Send(w, c) /\ open' = open \cup {c}
    /\ UNCHANGED pool

(* Connection refused: nobody listens, or no socket is left.               *)
LeaseFails(w) ==
    /\ call[w] = "leasing"
    /\ Cardinality(open) < PoolSize
    /\ process # "listening" \/ Free = {}
    /\ Goto(w, "rejected")
    /\ UNCHANGED <<sidecarVars, asked, socket, pool>>

Lease(w) == LeasePooled(w) \/ LeaseNew(w) \/ LeaseFails(w)

Answered(w) == call[w] = "waiting" /\ wire[socket[w]] # NoAnswer

(* Mutation: the entity is read only if the status is 200.                 *)
ReadLeaking(w) ==
    /\ Answered(w)
    /\ LET a == wire[socket[w]]
       IN /\ Goto(w, IF Verified(a) THEN "verified" ELSE "rejected")
          /\ pool' = IF a.kind = "result" THEN pool \cup {socket[w]} ELSE pool
    /\ wire' = [wire EXCEPT ![socket[w]] = NoAnswer]
    /\ socket' = [socket EXCEPT ![w] = NoSocket]
    /\ UNCHANGED <<process, open, task, request, asked>>

(* The answer has been read whatever its status, then it is looked at.     *)
Read(w) ==
    /\ Answered(w)
    /\ Goto(w, IF Verified(wire[socket[w]]) THEN "verified" ELSE "rejected")
    /\ pool' = pool \cup {socket[w]}
    /\ wire' = [wire EXCEPT ![socket[w]] = NoAnswer]
    /\ socket' = [socket EXCEPT ![w] = NoSocket]
    /\ UNCHANGED <<process, open, task, request, asked>>

(* An exception of execute or toString, also after the socket timeout: the *)
(* connection is closed and the verdict is false.  The check goes on.      *)
CallFails(w) ==
    /\ call[w] = "waiting"
    /\ Goto(w, "rejected")
    /\ open' = open \ {socket[w]}
    /\ task' = IF task[socket[w]] = "gone"
               THEN [task EXCEPT ![socket[w]] = "none"] ELSE task
    /\ wire' = [wire EXCEPT ![socket[w]] = NoAnswer]
    /\ socket' = [socket EXCEPT ![w] = NoSocket]
    /\ UNCHANGED <<process, request, asked, pool>>

(* verifyPresentation returns.                                             *)
Return(w) ==
    /\ call[w] \in Verdicts
    /\ Goto(w, "idle")
    /\ asked' = [asked EXCEPT ![w] = NoRequest]
    /\ UNCHANGED <<sidecarVars, socket, pool>>

-------------------------------------------------------------------------------
Proceed(w) == Lease(w) \/ Read(w) \/ CallFails(w) \/ Return(w)

Next ==
    \/ SidecarNext /\ UNCHANGED callVars
    \/ \E w \in Threads : Proceed(w) \/ \E r \in Requests : VerifyPresentation(w, r)

(* The client times out, and a connection that is given back again and     *)
(* again is in the end given to each thread that waits for one.  Nothing   *)
(* is assumed of the sidecar.                                              *)
Fairness == \A w \in Threads : WF_vars(Proceed(w)) /\ SF_vars(Lease(w))

Spec == Init /\ [][Next]_vars
FairSpec == Spec /\ Fairness

-------------------------------------------------------------------------------
(***************************************************************************)
(* Properties.                                                             *)
(***************************************************************************)

Genuine(r) == r.kind = "presentation" /\ r.defects = {}

(* verifyPresentation returns true only for a presentation in which the    *)
(* library finds nothing wrong: no answer to another request, in flight on *)
(* the same process or late on the same connection, is taken for its own   *)
(* (POST /verify, verifyPresentation).                                     *)
VerdictSound ==
    \A w \in Threads :
        call[w] = "verified" => Genuine(asked[w])

(* For its caller, a call on the sidecar is one verdict on what it asked,  *)
(* though connections, a pool and a process that others use, that is       *)
(* killed and that answers late, are in between (verifyPresentation).      *)
Contract == INSTANCE VerificationContract
                WITH GenuineRequests <- {r \in Requests : Genuine(r)},
                     verdict <- [w \in Threads |->
                                    IF call[w] \in Verdicts THEN call[w] ELSE "none"]

KeepsContract == Contract!Spec

(* No connection leaks and none is used twice: each open one is in the     *)
(* pool or belongs to exactly one thread that waits for its answer, also   *)
(* after exceptions, late answers and answers with an error.  So a thread  *)
(* that finds the pool used up waits for another call, which comes back    *)
(* (EntityUtils.toString in verifyPresentation).                           *)
Waiting == {w \in Threads : call[w] = "waiting"}

PoolAccounted ==
    /\ open = pool \cup {socket[w] : w \in Waiting}
    /\ \A w \in Waiting : socket[w] \notin pool
    /\ \A v, w \in Waiting : v # w => socket[v] # socket[w]
    /\ Cardinality(open) <= PoolSize

(* No request, whatever its body, ends the process for all the others:     *)
(* check never throws (identity.ts), and the process is not restarted.     *)
StaysUp ==
    [][process = "listening" => process' # "exited"]_vars

(* Every call comes back with a verdict, also when the sidecar is down, is *)
(* killed during the call, never answers or answers with an error, and     *)
(* when the pool is used up: no connection leaks (verifyPresentation).     *)
CallsEnd == \A w \in Threads : call[w] = "leasing" ~> call[w] \in Verdicts
===============================================================================
