----------------------- MODULE SessionManagementService -----------------------
(***************************************************************************)
(* SessionManagementService.java: the singleton in which request threads   *)
(* open a pending login, look its subject up, attach a subject to it and   *)
(* destroy it.                                                             *)
(*                                                                         *)
(* None of the methods is synchronized, so a thread runs one call on the   *)
(* map per step and the steps of different threads interleave.  A caller   *)
(* enters a method with one of the Call actions; at[w] is the next line    *)
(* the thread executes in the method, or how the method ended:             *)
(*   returned    it returned (createNewSessionForId: the id;               *)
(*               getSubjectBySessionId: val[w])                            *)
(*   refused     createNewSessionForId returned null                       *)
(*   not_exists  SessionNotExistsException was thrown                      *)
(* The environment is the most general one: any thread calls any method    *)
(* with any id that is there, and attaches any subject or null, as         *)
(* DidRealmResourceProviderTest.java:42 does.  DidLogin restricts it to    *)
(* what the handlers do, which attach subjects only.                       *)
(***************************************************************************)
EXTENDS PendingMap

CONSTANT MAX_SESSIONS   \* 99 in the source

ASSUME LimitAssumption == MAX_SESSIONS \in Nat

VARIABLES at,      \* per thread: its place in the service
          key,     \* per thread: the argument id / sessionId
          val,     \* per thread: the argument sub, or the subject found
          offered  \* history: every <<id, argument>> ever passed to attach

callVars == <<at, key, val>>
vars == <<pendingSessions, size, window, at, key, val, offered>>

CreateLines == {"create.size", "create.contains", "create.put"}
GetLines == {"get.contains", "get.get"}
AttachLines == {"attach.contains", "attach.put"}
Ended == {"returned", "refused", "not_exists"}
Places == {"idle", "destroy.remove"} \cup CreateLines \cup GetLines
              \cup AttachLines \cup Ended

(* Type invariant: every variable stays in its declared range, and a       *)
(* thread that is in a method has an id.                                   *)
TypeOK ==
    /\ MapTypeOK
    /\ at \in [Workers -> Places]
    /\ key \in [Workers -> Sessions \cup {NoSession}]
    /\ val \in [Workers -> Subjects \cup {NoSubject}]
    /\ offered \subseteq Sessions \X (Subjects \cup {NoSubject})
    /\ \A w \in Workers : at[w] # "idle" => key[w] \in Sessions

Init ==
    /\ MapInit
    /\ at = [w \in Workers |-> "idle"]
    /\ key = [w \in Workers |-> NoSession]
    /\ val = [w \in Workers |-> NoSubject]
    /\ offered = {}

-------------------------------------------------------------------------------
Goto(w, place) == at' = [at EXCEPT ![w] = place]

Enter(w, place, s, x) ==
    /\ at[w] = "idle"
    /\ Goto(w, place)
    /\ key' = [key EXCEPT ![w] = s]
    /\ val' = [val EXCEPT ![w] = x]
    /\ UNCHANGED <<pendingSessions, size>>

CallCreate(w, s) ==
    Enter(w, "create.size", s, NoSubject) /\ UNCHANGED <<window, offered>>

CallGet(w, s) ==
    Enter(w, "get.contains", s, NoSubject) /\ UNCHANGED <<window, offered>>

CallAttach(w, s, x) ==
    /\ Enter(w, "attach.contains", s, x)
    /\ offered' = offered \cup {<<s, x>>}
    /\ UNCHANGED window

CallDestroy(w, s) ==
    /\ Enter(w, "destroy.remove", s, NoSubject)
    /\ OpenWindow(w, "remove", s)
    /\ UNCHANGED offered

(* The caller takes the result (or the exception). *)
Return(w) ==
    /\ at[w] \in Ended
    /\ Goto(w, "idle")
    /\ key' = [key EXCEPT ![w] = NoSession]
    /\ val' = [val EXCEPT ![w] = NoSubject]
    /\ UNCHANGED <<pendingSessions, size, window, offered>>

-------------------------------------------------------------------------------
(* Mutation: no limit. *)
CreateUnlimited(w) ==
    /\ at[w] = "create.size"
    /\ Goto(w, "create.contains")
    /\ UNCHANGED <<pendingSessions, size, window, key, val, offered>>

(* createNewSessionForId *)
CreateSize(w) ==
    /\ at[w] = "create.size"
    /\ Goto(w, IF size <= MAX_SESSIONS THEN "create.contains" ELSE "refused")
    /\ UNCHANGED <<pendingSessions, size, window, key, val, offered>>

(* Mutation: put without asking whether the login is pending. *)
CreateAlways(w) ==
    /\ at[w] = "create.contains"
    /\ Goto(w, "create.put")
    /\ OpenWindow(w, "put", key[w])
    /\ UNCHANGED <<pendingSessions, size, key, val, offered>>

CreateContains(w) ==
    /\ at[w] = "create.contains"
    /\ \/ Finds(key[w]) /\ Goto(w, "returned") /\ UNCHANGED window
       \/ Misses(w, key[w]) /\ Goto(w, "create.put")
                            /\ OpenWindow(w, "put", key[w])
    /\ UNCHANGED <<pendingSessions, size, key, val, offered>>

CreatePut(w) ==
    /\ at[w] = "create.put"
    /\ Put(w, key[w], NoSubject)
    /\ CloseWindow(w)
    /\ Goto(w, "returned")
    /\ UNCHANGED <<key, val, offered>>

(* getSubjectBySessionId *)
GetContains(w) ==
    /\ at[w] = "get.contains"
    /\ \/ Finds(key[w]) /\ Goto(w, "get.get")
       \/ Misses(w, key[w]) /\ Goto(w, "not_exists")
    /\ UNCHANGED <<pendingSessions, size, window, key, val, offered>>

(* An entry that is gone is null, like one without a subject; val[w] is    *)
(* null since the call began.                                              *)
GetGet(w) ==
    /\ at[w] = "get.get"
    /\ \/ /\ Finds(key[w])
          /\ val' = [val EXCEPT ![w] = pendingSessions[key[w]]]
       \/ /\ Misses(w, key[w])
          /\ UNCHANGED val
    /\ Goto(w, "returned")
    /\ UNCHANGED <<pendingSessions, size, window, key, offered>>

(* Mutation: attach without asking whether the login is pending. *)
AttachAlways(w) ==
    /\ at[w] = "attach.contains"
    /\ Goto(w, "attach.put")
    /\ OpenWindow(w, "put", key[w])
    /\ UNCHANGED <<pendingSessions, size, key, val, offered>>

(* attachSubjectToSession *)
AttachContains(w) ==
    /\ at[w] = "attach.contains"
    /\ \/ Finds(key[w]) /\ Goto(w, "attach.put")
                        /\ OpenWindow(w, "put", key[w])
       \/ Misses(w, key[w]) /\ Goto(w, "not_exists") /\ UNCHANGED window
    /\ UNCHANGED <<pendingSessions, size, key, val, offered>>

(* Mutation: the argument is kept in a field of the singleton. *)
AttachShared(w) ==
    /\ at[w] = "attach.put"
    /\ \E v \in Workers :
           at[v] \in {"attach.contains", "attach.put"} /\ Put(w, key[w], val[v])
    /\ CloseWindow(w)
    /\ Goto(w, "returned")
    /\ UNCHANGED <<key, val, offered>>

AttachPut(w) ==
    /\ at[w] = "attach.put"
    /\ Put(w, key[w], val[w])
    /\ CloseWindow(w)
    /\ Goto(w, "returned")
    /\ UNCHANGED <<key, val, offered>>

(* destroySession *)
DestroyRemove(w) ==
    /\ at[w] = "destroy.remove"
    /\ Remove(w, key[w])
    /\ CloseWindow(w)
    /\ Goto(w, "returned")
    /\ UNCHANGED <<key, val, offered>>

(* The server stops and starts again: the map and the threads are gone. *)
Restart ==
    /\ MapRestart
    /\ at' = [w \in Workers |-> "idle"]
    /\ key' = [w \in Workers |-> NoSession]
    /\ val' = [w \in Workers |-> NoSubject]
    /\ UNCHANGED offered

-------------------------------------------------------------------------------
ServiceStep(w) ==
    \/ CreateSize(w) \/ CreateContains(w) \/ CreatePut(w)
    \/ GetContains(w) \/ GetGet(w)
    \/ AttachContains(w) \/ AttachPut(w)
    \/ DestroyRemove(w)

Call(w) ==
    \E s \in Sessions :
        \/ CallCreate(w, s) \/ CallGet(w, s) \/ CallDestroy(w, s)
        \/ \E x \in Subjects \cup {NoSubject} : CallAttach(w, s, x)

Next ==
    \/ \E w \in Workers : Call(w) \/ ServiceStep(w) \/ Return(w)
    \/ Restart

Spec == Init /\ [][Next]_vars

-------------------------------------------------------------------------------
(***************************************************************************)
(* Properties.                                                             *)
(***************************************************************************)

(* A subject is only ever found under the id it was attached to: whatever  *)
(* the interleaving, and whatever an unsynchronized map undoes or loses,   *)
(* the service never shows one login the data of another                   *)
(* (attachSubjectToSession, getSubjectBySessionId).                        *)
OnlyOffered ==
    /\ \A s \in Sessions :
           pendingSessions[s] \in Subjects => <<s, pendingSessions[s]>> \in offered
    /\ \A w \in Workers :
           val[w] \in Subjects => <<key[w], val[w]>> \in offered

(* The same for what the threads saw when they began a call: it may be     *)
(* written back.                                                           *)
SeenOffered ==
    \A w \in Workers, s \in Sessions :
        window[w].table[s] \in Subjects => <<s, window[w].table[s]>> \in offered

OfferedInv == OnlyOffered /\ SeenOffered

(* Over an atomic map the limit of createNewSessionForId, checked before   *)
(* the entry is put, is overshot by at most one login per thread, also     *)
(* when attachSubjectToSession puts back a login that destroySession has   *)
(* removed meanwhile.                                                      *)
CapacityBound ==
    Linearizable =>
        Cardinality(Linked(pendingSessions)) <= MAX_SESSIONS + Cardinality(Workers)

(* Why: a thread that passed the size check, and an id that a thread is    *)
(* about to put back, already count against the bound.                     *)
Creating == {w \in Workers : at[w] \in {"create.contains", "create.put"}}
Attaching == {w \in Workers : at[w] = "attach.put"}
PutBack == {s \in Sessions : \E w \in Attaching : key[w] = s}

CapacityInv ==
    Linearizable =>
        /\ size = Cardinality(Linked(pendingSessions))
        /\ Cardinality(Linked(pendingSessions) \cup PutBack) + Cardinality(Creating)
              <= MAX_SESSIONS + Cardinality(Workers)

(* Called by one thread, the service does what PendingSessions promises.   *)
Promise == INSTANCE PendingSessions
               WITH sessions <- pendingSessions, Capacity <- MAX_SESSIONS + 1

KeepsPromise == Promise!Spec

(* createNewSessionForId never takes an attached subject away, so a login  *)
(* loses its subject and stays pending only if a caller attached null to   *)
(* it: a subject is appended to a pending session and later retrieved      *)
(* (SessionManagementService.java:11-12).                                  *)
SubjectNotErased ==
    [][\A s \in Sessions :
          pendingSessions[s] \in Subjects /\ pendingSessions'[s] = NoSubject
              => <<s, NoSubject>> \in offered]_vars

===============================================================================
