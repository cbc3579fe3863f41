---------------------------- MODULE DidLogin_proofs ----------------------------
(***************************************************************************)
(* Theorems about the plugin, for any number of threads, sessions,         *)
(* usernames, DIDs, requests and profiles, any limit of the table, and a   *)
(* map with and without races.  What is proved of the service alone is     *)
(* carried over: every step of the plugin is a step of the service.        *)
(***************************************************************************)
EXTENDS DidLogin, TLAPS

(* The theorems about the service, at the instance that DidLogin uses.     *)
SP == INSTANCE SessionManagementService_proofs WITH Subjects <- Subject

(* The two instances, SP and Service, stand for the same formulas.         *)
LEMMA SameAssumptions ==
    /\ SP!MapAssumption <=> Service!MapAssumption
    /\ SP!LimitAssumption <=> Service!LimitAssumption
BY DEF SP!MapAssumption, Service!MapAssumption, SP!LimitAssumption, Service!LimitAssumption,
       SP!IsFiniteSet, Service!IsFiniteSet

(* Both instances are about the same service.                              *)
LEMMA SameTypeOK == SP!TypeOK <=> Service!TypeOK
BY DEF SP!TypeOK, Service!TypeOK, SP!MapTypeOK, Service!MapTypeOK, SP!Table, Service!Table,
       SP!Values, Service!Values, SP!Window, Service!Window, SP!Places, Service!Places,
       SP!CreateLines, Service!CreateLines, SP!GetLines, Service!GetLines,
       SP!AttachLines, Service!AttachLines, SP!Ended, Service!Ended

(* The names of the two instances stand for the same formulas.             *)
LEMMA SameOfferedInv == SP!OfferedInv <=> Service!OfferedInv
BY DEF SP!OfferedInv, Service!OfferedInv, SP!OnlyOffered, Service!OnlyOffered,
       SP!SeenOffered, Service!SeenOffered

(* The initial states of both are the same.                                *)
LEMMA SameInit == SP!Init <=> Service!Init
BY DEF SP!Init, Service!Init, SP!MapInit, Service!MapInit, SP!EmptyTable, Service!EmptyTable,
       SP!Closed, Service!Closed

(* So are the operations on the map.                                       *)
LEMMA SameRelink ==
    ASSUME NEW w, NEW k, NEW v, NEW delta
    PROVE  SP!Relink(w, k, v, delta) <=> Service!Relink(w, k, v, delta)
BY DEF SP!Relink, Service!Relink, SP!StaleKeys, Service!StaleKeys, SP!Linked, Service!Linked,
       SP!Cardinality, Service!Cardinality

(* The calls on the map as a whole.                                        *)
LEMMA SameMap ==
    ASSUME NEW w, NEW k
    PROVE  /\ SP!Misses(w, k) <=> Service!Misses(w, k)
           /\ SP!Finds(k) <=> Service!Finds(k)
           /\ \A op : SP!OpenWindow(w, op, k) <=> Service!OpenWindow(w, op, k)
           /\ SP!CloseWindow(w) <=> Service!CloseWindow(w)
           /\ \A v : SP!Put(w, k, v) <=> Service!Put(w, k, v)
           /\ SP!Remove(w, k) <=> Service!Remove(w, k)
BY SameRelink DEF SP!Misses, Service!Misses, SP!Finds, Service!Finds, SP!OpenWindow,
       Service!OpenWindow, SP!CloseWindow, Service!CloseWindow, SP!Put, Service!Put,
       SP!Remove, Service!Remove, SP!Growing, Service!Growing, SP!StaleKeys,
       Service!StaleKeys, SP!Closed, Service!Closed, SP!EmptyTable, Service!EmptyTable

(* The lines of the methods.                                               *)
LEMMA SameServiceStep ==
    ASSUME NEW w
    PROVE  SP!ServiceStep(w) <=> Service!ServiceStep(w)
BY SameMap DEF SP!ServiceStep, Service!ServiceStep, SP!CreateSize, Service!CreateSize,
       SP!CreateContains, Service!CreateContains, SP!CreatePut, Service!CreatePut,
       SP!GetContains, Service!GetContains, SP!GetGet, Service!GetGet,
       SP!AttachContains, Service!AttachContains, SP!AttachPut, Service!AttachPut,
       SP!DestroyRemove, Service!DestroyRemove, SP!Goto, Service!Goto

(* The calls of the methods.                                               *)
LEMMA SameCall ==
    ASSUME NEW w
    PROVE  SP!Call(w) <=> Service!Call(w)
BY SameMap DEF SP!Call, Service!Call, SP!CallCreate, Service!CallCreate, SP!CallGet,
       Service!CallGet, SP!CallAttach, Service!CallAttach, SP!CallDestroy,
       Service!CallDestroy, SP!Enter, Service!Enter, SP!Goto, Service!Goto

(* A step of the one is a step of the other.                               *)
LEMMA SameNext == [SP!Next]_SP!vars <=> [Service!Next]_serviceVars
BY SameServiceStep, SameCall DEF SP!Next, Service!Next, SP!Return, Service!Return, SP!Goto,
       Service!Goto, SP!Ended, Service!Ended, SP!Restart, Service!Restart, SP!MapRestart,
       Service!MapRestart, SP!EmptyTable, Service!EmptyTable, SP!Closed, Service!Closed,
       SP!vars, serviceVars

(* What the service guarantees, it guarantees to the plugin.               *)
LEMMA ServiceInit == Service!Init => Service!TypeOK /\ Service!OfferedInv
BY SP!InitTypeOK, SP!InitOffered, ServiceAssumption, SameAssumptions, SameInit, SameTypeOK,
   SameOfferedInv

(* Its two invariants are inductive for the plugin, too.                   *)
LEMMA ServiceNext ==
    Service!TypeOK /\ Service!OfferedInv /\ [Service!Next]_serviceVars
        => Service!TypeOK' /\ Service!OfferedInv'
<1>1. SP!TypeOK /\ SP!OfferedInv /\ [SP!Next]_SP!vars => SP!TypeOK' /\ SP!OfferedInv'
    BY SP!NextTypeOK, SP!NextOffered, ServiceAssumption, SameAssumptions
<1>. QED BY <1>1, SameTypeOK, SameOfferedInv, SameNext, PTL

-------------------------------------------------------------------------------
(* Type correctness.  Inductive with what a thread holds at each place of  *)
(* its handler: the session, the request, the subject.                     *)
Holding ==
    \A w \in Workers :
        /\ handler[w] # "idle" => sid[w] \in Sessions
        /\ handler[w] \in PostSteps => req[w] \in Requests
        /\ handler[w] \in (SignInSteps \ {"action.get"}) \cup {"success"}
               => sub[w] \in Subject

LocalTypeOK ==
    /\ handler \in [Workers -> HandlerSteps]
    /\ sid \in [Workers -> Sessions \cup {NoSession}]
    /\ req \in [Workers -> Requests \cup {NoRequest}]
    /\ sub \in [Workers -> Subject \cup {NoSubject}]
    /\ inserted \subseteq Workers
    /\ users \in [Usernames -> UserRecord]
    /\ presented \subseteq Sessions
    /\ profile \in Profiles

(* mapClaims makes a subject out of every request that it can read.        *)
LEMMA MappedSubject ==
    ASSUME NEW r \in Requests, Mappable(r), NEW x \in SubjectsOf(r)
    PROVE  x \in Subject
<1>1. /\ r.claims \in Claims /\ r.did \in Dids /\ r.removal \in BOOLEAN
      /\ Readable(r.claims)
    BY LoginAssumption DEF Mappable, Request
<1>2. UsernamesFor(r.claims) \subseteq Usernames
  <2>. DEFINE c == r.claims
  <2>1. /\ c.username # IllTyped /\ c.firstName # IllTyped /\ c.lastName # IllTyped
    BY <1>1 DEF Readable, Claims
  <2>2. /\ c.username \in Usernames \cup {Missing}
        /\ c.firstName \in ClaimedName /\ c.lastName \in ClaimedName
    BY <1>1, <2>1 DEF Claims
  <2>3. ASSUME ~(c.firstName = Missing /\ c.lastName = Missing)
        PROVE  Joined[<<c.firstName, c.lastName>>] \in Usernames
    <3>1. <<c.firstName, c.lastName>>
              \in (ClaimedName \X ClaimedName) \ {<<Missing, Missing>>}
      BY <2>2, <2>3
    <3>. QED BY <3>1, MapperAssumption
  <2>. QED BY <2>2, <2>3 DEF UsernamesFor
<1>. QED BY <1>1, <1>2 DEF SubjectsOf, Subject

(* The initial values of what the handlers keep.                           *)
LEMMA InitLocal == Init => LocalTypeOK /\ Holding
BY LoginAssumption DEF Init, LocalTypeOK, Holding, HandlerSteps, PostSteps, SignInSteps

(* Every step of a handler keeps its variables in range, and takes from    *)
(* the service only what it may hold.                                      *)
LEMMA NextLocal ==
    ASSUME Service!TypeOK, LocalTypeOK, Holding, [Next]_vars
    PROVE  LocalTypeOK' /\ Holding'
<1>. USE DEF LocalTypeOK, Holding, Goto, HandlerSteps, AuthenticateSteps, PostSteps,
             SignInSteps, Outcomes
<1>1. ASSUME NEW w \in Workers, Start(w)
      PROVE  LocalTypeOK' /\ Holding'
    BY <1>1 DEF Start, Authenticate, Action, Post,
                PostUnreadable, Begin
<1>2. ASSUME NEW w \in Workers, InService(w)
      PROVE  LocalTypeOK' /\ Holding'
    BY <1>2 DEF InService, localVars
<1>3. ASSUME NEW w \in Workers, Respond(w)
      PROVE  LocalTypeOK' /\ Holding'
    BY <1>3 DEF Respond
<1>4. ASSUME NEW w \in Workers, AuthenticateChallenge(w)
      PROVE  LocalTypeOK' /\ Holding'
    BY <1>4 DEF AuthenticateChallenge
<1>5. ASSUME NEW w \in Workers,
             \/ PostGot(w) \/ PostNoSession(w) \/ PostMapRaises(w) \/ PostAttached(w)
      PROVE  LocalTypeOK' /\ Holding'
    BY <1>5 DEF PostGot, PostNoSession, PostMapRaises, PostAttached
<1>6. ASSUME NEW w \in Workers, PostVerify(w)
      PROVE  LocalTypeOK' /\ Holding'
  <2>1. \E h \in {"post.map", "raised", "failed"} : Goto(w, h)
    BY <1>6 DEF PostVerify
  <2>. QED BY <1>6, <2>1 DEF PostVerify
<1>7. ASSUME NEW w \in Workers, PostMap(w)
      PROVE  LocalTypeOK' /\ Holding'
  <2>1. PICK x \in SubjectsOf(req[w]) : sub' = [sub EXCEPT ![w] = x]
    BY <1>7 DEF PostMap
  <2>2. x \in Subject
    BY <1>7, <2>1, MappedSubject DEF PostMap
  <2>. QED BY <1>7, <2>1, <2>2 DEF PostMap
<1>8. ASSUME NEW w \in Workers,
             \/ ActionNoSession(w) \/ ActionNotValidated(w) \/ ActionLookup(w)
             \/ ActionConflict(w) \/ ActionUserWithoutDid(w) \/ ActionDestroyed(w)
             \/ CommitFails(w)
      PROVE  LocalTypeOK' /\ Holding'
    BY <1>8 DEF ActionNoSession, ActionNotValidated, ActionLookup, ActionConflict,
                ActionUserWithoutDid, ActionDestroyed, CommitFails
<1>9. ASSUME NEW w \in Workers, ActionGot(w)
      PROVE  LocalTypeOK' /\ Holding'
  <2>1. val[w] \in Subject
    BY <1>9 DEF ActionGot, Service!TypeOK
  <2>. QED BY <1>9, <2>1 DEF ActionGot
<1>10. ASSUME NEW w \in Workers, UpsertLookup(w) \/ UpsertAdd(w)
       PROVE  LocalTypeOK' /\ Holding'
    BY <1>10 DEF UpsertLookup, UpsertAdd
<1>11. ASSUME NEW w \in Workers, UpsertSet(w)
       PROVE  LocalTypeOK' /\ Holding'
    BY <1>11 DEF UpsertSet
<1>12. ASSUME NEW w \in Workers, Commit(w)
       PROVE  LocalTypeOK' /\ Holding'
  <2>1. sub[w].did \in UserRecord
    BY <1>12 DEF Commit, Subject, UserRecord
  <2>. QED BY <1>12, <2>1 DEF Commit
<1>13. CASE Restart
    BY <1>13 DEF Restart
<1>14. CASE UNCHANGED vars
    BY <1>14 DEF vars, localVars
<1>. QED BY <1>1, <1>2, <1>3, <1>4, <1>5, <1>6, <1>7, <1>8, <1>9, <1>10, <1>11, <1>12,
            <1>13, <1>14 DEF Next, Proceed

(* Whatever the handlers do with the service is a step of the service.     *)
LEMMA ServiceSteps ==
    ASSUME LocalTypeOK, Holding, [Next]_vars
    PROVE  [Service!Next]_serviceVars
<1>. USE DEF Service!Next, Service!Call
<1>1. ASSUME NEW w \in Workers, Start(w)
      PROVE  [Service!Next]_serviceVars
    BY <1>1 DEF Start, Authenticate, Action, Post, PostUnreadable
<1>2. ASSUME NEW w \in Workers, InService(w)
      PROVE  Service!Next
    BY <1>2 DEF InService
<1>3. ASSUME NEW w \in Workers,
             \/ AuthenticateChallenge(w)
             \/ PostGot(w) \/ PostNoSession(w) \/ PostAttached(w)
             \/ ActionNoSession(w) \/ ActionNotValidated(w) \/ ActionGot(w)
             \/ ActionDestroyed(w)
      PROVE  Service!Next
    BY <1>3 DEF AuthenticateChallenge, PostGot, PostNoSession, PostAttached,
                ActionNoSession, ActionNotValidated, ActionGot, ActionDestroyed, Took
<1>4. ASSUME NEW w \in Workers, PostMap(w)
      PROVE  Service!Next
  <2>1. req[w] \in Requests /\ Mappable(req[w]) /\ sid[w] \in Sessions
    BY <1>4 DEF PostMap, Holding, PostSteps
  <2>2. PICK x \in SubjectsOf(req[w]) : Service!CallAttach(w, sid[w], x)
    BY <1>4 DEF PostMap
  <2>. QED BY <2>1, <2>2, MappedSubject
<1>5. ASSUME NEW w \in Workers, UpsertSet(w)
      PROVE  [Service!Next]_serviceVars
  <2>1. sid[w] \in Sessions
    BY <1>5 DEF UpsertSet, Holding
  <2>. QED BY <1>5, <2>1 DEF UpsertSet
<1>6. ASSUME NEW w \in Workers,
             \/ PostVerify(w) \/ PostMapRaises(w) \/ ActionLookup(w)
             \/ ActionConflict(w) \/ ActionUserWithoutDid(w) \/ UpsertLookup(w)
             \/ UpsertAdd(w) \/ Commit(w) \/ CommitFails(w) \/ Respond(w)
      PROVE  UNCHANGED serviceVars
    BY <1>6 DEF PostVerify, PostMapRaises, ActionLookup, ActionConflict,
                ActionUserWithoutDid, UpsertLookup, UpsertAdd, Commit, CommitFails, Respond
<1>7. CASE Restart
    BY <1>7 DEF Restart
<1>8. CASE UNCHANGED vars
    BY <1>8 DEF vars
<1>. QED BY <1>1, <1>2, <1>3, <1>4, <1>5, <1>6, <1>7, <1>8 DEF Next, Proceed

(* The types, and what the service guarantees.                             *)
BaseInv == Service!TypeOK /\ Service!OfferedInv /\ LocalTypeOK /\ Holding

(* The conjunction is inductive.                                           *)
LEMMA InitBase == Init => BaseInv
BY ServiceInit, InitLocal DEF Init, BaseInv

(* A step keeps them.                                                      *)
LEMMA NextBase == BaseInv /\ [Next]_vars => BaseInv'
BY ServiceNext, NextLocal, ServiceSteps DEF BaseInv

(* They hold of the plugin.                                                *)
LEMMA BaseAlways == Spec => []BaseInv
BY InitBase, NextBase, PTL DEF Spec

(* Every variable of the handlers and of the service stays in its range: a *)
(* thread that posts or signs in has a session, a request, a subject to do *)
(* it with (all three handlers).                                           *)
THEOREM TypeCorrect == Spec => []TypeOK
<1>1. BaseInv => TypeOK
    BY DEF BaseInv, LocalTypeOK, TypeOK
<1>. QED BY <1>1, BaseAlways, PTL

-------------------------------------------------------------------------------
(* Where a thread is in the service while its handler waits for a call:    *)
(* the result that the handler takes is the one of the call it made, for   *)
(* the session of its request.                                             *)
Calling == {"authenticate.create", "post.get", "post.attach", "action.get", "action.destroy"}

CallInv ==
    \A w \in Workers :
        /\ at[w] # "idle" => key[w] = sid[w]
        /\ handler[w] \notin Calling => at[w] = "idle"
        /\ handler[w] = "authenticate.create"
               => at[w] \in Service!CreateLines \cup {"returned", "refused"}
        /\ handler[w] \in {"post.get", "action.get"}
               => at[w] \in Service!GetLines \cup {"returned", "not_exists"}
        /\ handler[w] = "post.attach"
               => at[w] \in Service!AttachLines \cup {"returned", "not_exists"}
        /\ handler[w] = "action.destroy" => at[w] \in {"destroy.remove", "returned"}

(* Nobody has called the service.                                          *)
LEMMA InitCall == Init => CallInv
BY DEF Init, Service!Init, CallInv, Calling

(* A handler that takes a result leaves the service.                       *)
LEMMA TookLeaves ==
    ASSUME BaseInv, CallInv, NEW w \in Workers, NEW result, Took(w, result),
           NEW h \in HandlerSteps \ Calling, Goto(w, h), UNCHANGED sid
    PROVE  CallInv'
BY DEF BaseInv, LocalTypeOK, Service!TypeOK, CallInv, Calling, Took, Goto, Service!Return,
       Service!Goto

(* A handler that goes from one step of its own to another stays outside.  *)
LEMMA OwnStep ==
    ASSUME BaseInv, CallInv, NEW w \in Workers, UNCHANGED <<serviceVars, sid>>,
           handler[w] \notin Calling, NEW h \in HandlerSteps \ Calling, Goto(w, h)
    PROVE  CallInv'
BY DEF BaseInv, LocalTypeOK, CallInv, Calling, Goto, serviceVars

(* One case per step of a handler.                                         *)
LEMMA NextCall == BaseInv /\ CallInv /\ [Next]_vars => CallInv'
<1>. SUFFICES ASSUME BaseInv, CallInv, [Next]_vars
              PROVE  CallInv'
    OBVIOUS
<1>. USE DEF HandlerSteps, AuthenticateSteps, PostSteps, SignInSteps, Outcomes, Calling
<1>1. ASSUME NEW w \in Workers, Start(w)
      PROVE  CallInv'
    BY <1>1 DEF Start, Authenticate, Action, Post, PostUnreadable,
                Begin, Goto, Service!CallCreate, Service!CallGet, Service!Enter,
                Service!Goto, Service!CreateLines, Service!GetLines, CallInv, BaseInv,
                LocalTypeOK, Service!TypeOK, serviceVars
<1>2. ASSUME NEW w \in Workers, InService(w)
      PROVE  CallInv'
  <2>1. UNCHANGED <<handler, sid, key>>
    BY <1>2 DEF InService, localVars, Service!ServiceStep, Service!CreateSize,
                Service!CreateContains, Service!CreatePut, Service!GetContains,
                Service!GetGet, Service!AttachContains, Service!AttachPut,
                Service!DestroyRemove
  <2>2. PICK p : at' = [at EXCEPT ![w] = p]
                 /\ \/ at[w] \in Service!CreateLines
                          /\ p \in Service!CreateLines \cup {"returned", "refused"}
                    \/ at[w] \in Service!GetLines
                          /\ p \in Service!GetLines \cup {"returned", "not_exists"}
                    \/ at[w] \in Service!AttachLines
                          /\ p \in Service!AttachLines \cup {"returned", "not_exists"}
                    \/ at[w] = "destroy.remove" /\ p = "returned"
    BY <1>2 DEF InService, Service!ServiceStep, Service!CreateSize,
                Service!CreateContains, Service!CreatePut, Service!GetContains,
                Service!GetGet, Service!AttachContains, Service!AttachPut,
                Service!DestroyRemove, Service!Goto, Service!CreateLines,
                Service!GetLines, Service!AttachLines
  <2>. QED BY <2>1, <2>2 DEF CallInv, BaseInv, Service!TypeOK, Service!CreateLines,
                             Service!GetLines, Service!AttachLines
<1>3. ASSUME NEW w \in Workers,
             \/ AuthenticateChallenge(w)
             \/ PostGot(w) \/ PostNoSession(w) \/ PostAttached(w)
             \/ ActionNoSession(w) \/ ActionNotValidated(w) \/ ActionGot(w)
             \/ ActionDestroyed(w)
      PROVE  CallInv'
  <2>1. UNCHANGED sid /\ \E result : Took(w, result)
    BY <1>3 DEF AuthenticateChallenge, PostGot, PostNoSession, PostAttached,
                ActionNoSession, ActionNotValidated, ActionGot, ActionDestroyed
  <2>2. \E h \in HandlerSteps \ Calling : Goto(w, h)
    BY <1>3 DEF AuthenticateChallenge, PostGot, PostNoSession, PostAttached,
                ActionNoSession, ActionNotValidated, ActionGot, ActionDestroyed
  <2>. QED BY <2>1, <2>2, TookLeaves
<1>4. ASSUME NEW w \in Workers, PostMap(w)
      PROVE  CallInv'
    BY <1>4 DEF PostMap, Goto, Service!CallAttach, Service!Enter, Service!Goto,
                Service!AttachLines, CallInv, BaseInv, LocalTypeOK, Service!TypeOK
<1>5. ASSUME NEW w \in Workers,
             \/ PostVerify(w) \/ PostMapRaises(w) \/ ActionLookup(w)
             \/ ActionConflict(w) \/ ActionUserWithoutDid(w) \/ UpsertLookup(w)
             \/ UpsertAdd(w) \/ Commit(w) \/ CommitFails(w)
      PROVE  CallInv'
  <2>1. UNCHANGED <<serviceVars, sid>> /\ handler[w] \notin Calling
    BY <1>5 DEF PostVerify, PostMapRaises, ActionLookup, ActionConflict,
                ActionUserWithoutDid, UpsertLookup, UpsertAdd, Commit, CommitFails
  <2>2. \E h \in HandlerSteps \ Calling : Goto(w, h)
    BY <1>5 DEF PostVerify, PostMapRaises, ActionLookup, ActionConflict,
                ActionUserWithoutDid, UpsertLookup, UpsertAdd, Commit, CommitFails
  <2>. QED BY <2>1, <2>2, OwnStep
<1>6. ASSUME NEW w \in Workers, UpsertSet(w)
      PROVE  CallInv'
  <2>1. CASE Goto(w, "action.destroy") /\ Service!CallDestroy(w, sid[w])
    BY <1>6, <2>1 DEF UpsertSet, Goto, Service!CallDestroy, Service!Enter, Service!Goto,
                      CallInv, BaseInv, LocalTypeOK, Service!TypeOK
  <2>2. CASE Goto(w, "raised") /\ UNCHANGED serviceVars
    BY <1>6, <2>2, OwnStep DEF UpsertSet
  <2>. QED BY <1>6, <2>1, <2>2 DEF UpsertSet
<1>7. ASSUME NEW w \in Workers, Respond(w)
      PROVE  CallInv'
    BY <1>7 DEF Respond, Goto, CallInv, BaseInv, LocalTypeOK, serviceVars
<1>8. CASE Restart
    BY <1>8 DEF Restart, Service!Restart, CallInv
<1>9. CASE UNCHANGED vars
    BY <1>9 DEF vars, localVars, serviceVars, CallInv
<1>. QED BY <1>1, <1>2, <1>3, <1>4, <1>5, <1>6, <1>7, <1>8, <1>9 DEF Next, Proceed

(* The handlers and the service agree at every moment.                     *)
LEMMA CallAlways == Spec => []CallInv
BY BaseAlways, InitCall, NextCall, PTL DEF Spec

-------------------------------------------------------------------------------
(* Only PostMap offers a subject to a login.                               *)
LEMMA OfferedStep ==
    ASSUME BaseInv, [Next]_vars
    PROVE  \/ UNCHANGED offered
           \/ \E w \in Workers, x \in Subject :
                  PostMap(w) /\ offered' = offered \cup {<<sid[w], x>>}
<1>1. ASSUME NEW w \in Workers, Start(w)
      PROVE  UNCHANGED offered
    BY <1>1 DEF Start, Authenticate, Action, Post, PostUnreadable,
                Service!CallCreate, Service!CallGet, serviceVars
<1>2. ASSUME NEW w \in Workers, InService(w)
      PROVE  UNCHANGED offered
    BY <1>2 DEF InService, Service!ServiceStep, Service!CreateSize, Service!CreateContains,
                Service!CreatePut, Service!GetContains, Service!GetGet,
                Service!AttachContains, Service!AttachPut, Service!DestroyRemove
<1>3. ASSUME NEW w \in Workers, PostMap(w)
      PROVE  \E x \in Subject : offered' = offered \cup {<<sid[w], x>>}
  <2>1. req[w] \in Requests /\ Mappable(req[w])
    BY <1>3 DEF PostMap, BaseInv, Holding, PostSteps
  <2>2. PICK x \in SubjectsOf(req[w]) : Service!CallAttach(w, sid[w], x)
    BY <1>3 DEF PostMap
  <2>. QED BY <2>1, <2>2, MappedSubject DEF Service!CallAttach
<1>4. ASSUME NEW w \in Workers, Proceed(w), ~InService(w), ~PostMap(w)
      PROVE  UNCHANGED offered
    BY <1>4 DEF Proceed, AuthenticateChallenge, PostGot, PostNoSession, PostVerify,
                PostMapRaises, PostAttached, ActionNoSession, ActionNotValidated, ActionGot,
                ActionLookup, ActionConflict, ActionUserWithoutDid, UpsertLookup, UpsertAdd,
                UpsertSet, ActionDestroyed, Commit, CommitFails, Respond, Took,
                Service!Return, Service!CallDestroy, serviceVars
<1>5. CASE Restart \/ UNCHANGED vars
    BY <1>5 DEF Restart, Service!Restart, vars, serviceVars
<1>. QED BY <1>1, <1>2, <1>3, <1>4, <1>5 DEF Next

(* What was offered stays offered.                                         *)
LEMMA OfferedGrows ==
    ASSUME BaseInv, [Next]_vars
    PROVE  offered \subseteq offered'
BY OfferedStep

(* What a sign-in works with was posted for its session.                   *)
LEMMA InitSignIn == Init => SignInBacked
BY DEF Init, SignInBacked, SignInSteps

(* ActionGot takes the subject from the service, which found it under the  *)
(* key of the call; the other steps keep session and subject.              *)
LEMMA NextSignIn == BaseInv /\ CallInv /\ SignInBacked /\ [Next]_vars => SignInBacked'
<1>. SUFFICES ASSUME BaseInv, CallInv, SignInBacked, [Next]_vars
              PROVE  SignInBacked'
    OBVIOUS
<1>. USE OfferedGrows DEF SignInBacked, SignInSteps, Goto, BaseInv, LocalTypeOK
<1>1. ASSUME NEW w \in Workers, Start(w)
      PROVE  SignInBacked'
    BY <1>1 DEF Start, Authenticate, Action, Post, PostUnreadable,
                Begin
<1>2. ASSUME NEW w \in Workers, InService(w)
      PROVE  SignInBacked'
    BY <1>2 DEF InService, localVars
<1>3. ASSUME NEW w \in Workers,
             \/ AuthenticateChallenge(w)
             \/ PostGot(w) \/ PostNoSession(w) \/ PostMapRaises(w) \/ PostAttached(w)
             \/ ActionNoSession(w) \/ ActionNotValidated(w)
             \/ ActionConflict(w) \/ ActionUserWithoutDid(w) \/ CommitFails(w)
      PROVE  SignInBacked'
    BY <1>3 DEF AuthenticateChallenge, PostGot, PostNoSession, PostMapRaises, PostAttached,
                ActionNoSession, ActionNotValidated, ActionConflict, ActionUserWithoutDid,
                CommitFails
<1>4. ASSUME NEW w \in Workers, PostVerify(w)
      PROVE  SignInBacked'
  <2>1. \E h \in {"post.map", "raised", "failed"} : Goto(w, h)
    BY <1>4 DEF PostVerify
  <2>. QED BY <1>4, <2>1 DEF PostVerify
<1>5. ASSUME NEW w \in Workers, PostMap(w)
      PROVE  SignInBacked'
  <2>1. PICK x : sub' = [sub EXCEPT ![w] = x]
    BY <1>5 DEF PostMap
  <2>. QED BY <1>5, <2>1 DEF PostMap
<1>6. ASSUME NEW w \in Workers, ActionGot(w)
      PROVE  SignInBacked'
  <2>1. val[w] \in Subject /\ key[w] = sid[w]
    BY <1>6 DEF ActionGot, Took, CallInv, Service!TypeOK
  <2>2. <<sid[w], val[w]>> \in offered
    BY <2>1 DEF Service!OfferedInv, Service!OnlyOffered
  <2>. QED BY <1>6, <2>2 DEF ActionGot
<1>7. ASSUME NEW w \in Workers,
             \/ ActionLookup(w) \/ UpsertLookup(w) \/ UpsertAdd(w) \/ UpsertSet(w)
             \/ ActionDestroyed(w) \/ Commit(w)
      PROVE  SignInBacked'
  <2>1. handler[w] \in SignInSteps \ {"action.get"} /\ UNCHANGED <<sid, sub>>
    BY <1>7 DEF ActionLookup, UpsertLookup, UpsertAdd, UpsertSet, ActionDestroyed, Commit
  <2>2. \A v \in Workers \ {w} : handler'[v] = handler[v]
    BY <1>7 DEF ActionLookup, UpsertLookup, UpsertAdd, UpsertSet, ActionDestroyed, Commit
  <2>. QED BY <2>1, <2>2
<1>8. ASSUME NEW w \in Workers, Respond(w)
      PROVE  SignInBacked'
    BY <1>8 DEF Respond
<1>9. CASE Restart
    BY <1>9 DEF Restart
<1>10. CASE UNCHANGED vars
    BY <1>10 DEF vars, localVars, serviceVars
<1>. QED BY <1>1, <1>2, <1>3, <1>4, <1>5, <1>6, <1>7, <1>8, <1>9, <1>10 DEF Next, Proceed

(* action() signs in with data that was posted for its own session only,   *)
(* for any number of threads and over the unsynchronized map.              *)
THEOREM SignInAlwaysBacked == Spec => []SignInBacked
BY BaseAlways, CallAlways, InitSignIn, NextSignIn, PTL DEF Spec

(* The users: only Commit writes one, with the subject of its sign-in.     *)
LEMMA UsersWritten ==
    ASSUME BaseInv, [Next]_vars
    PROVE  \/ UNCHANGED users
           \/ \E w \in Workers :
                  /\ Commit(w)
                  /\ sub[w] \in Subject
                  /\ users' = [users EXCEPT ![sub[w].username] = sub[w].did]
<1>1. ASSUME NEW w \in Workers, Start(w)
      PROVE  UNCHANGED users
    BY <1>1 DEF Start, Authenticate, Action, Post, PostUnreadable,
                Begin
<1>2. ASSUME NEW w \in Workers, Proceed(w), ~Commit(w)
      PROVE  UNCHANGED users
    BY <1>2 DEF Proceed, InService, AuthenticateChallenge, PostGot, PostNoSession,
                PostVerify, PostMap, PostMapRaises, PostAttached, ActionNoSession,
                ActionNotValidated, ActionGot, ActionLookup, ActionConflict,
                ActionUserWithoutDid, UpsertLookup, UpsertAdd, UpsertSet, ActionDestroyed,
                CommitFails, Respond
<1>3. ASSUME NEW w \in Workers, Commit(w)
      PROVE  /\ sub[w] \in Subject
             /\ users' = [users EXCEPT ![sub[w].username] = sub[w].did]
    BY <1>3 DEF Commit, BaseInv, Holding, SignInSteps
<1>4. CASE Restart \/ UNCHANGED vars
    BY <1>4 DEF Restart, vars
<1>. QED BY <1>1, <1>2, <1>3, <1>4 DEF Next

(* Only Commit can disturb the property.                                   *)
LEMMA NextUsers == BaseInv /\ SignInBacked /\ UsersBacked /\ [Next]_vars => UsersBacked'
<1>. SUFFICES ASSUME BaseInv, SignInBacked, UsersBacked, [Next]_vars
              PROVE  UsersBacked'
    OBVIOUS
<1>1. offered \subseteq offered'
    BY OfferedGrows
<1>2. CASE UNCHANGED users
    BY <1>1, <1>2 DEF UsersBacked
<1>3. ASSUME NEW w \in Workers, Commit(w), sub[w] \in Subject,
             users' = [users EXCEPT ![sub[w].username] = sub[w].did]
      PROVE  UsersBacked'
  <2>1. <<sid[w], sub[w]>> \in offered /\ sid[w] \in Sessions
    BY <1>3 DEF Commit, SignInBacked, SignInSteps, BaseInv, Holding
  <2>2. users'[sub[w].username] = sub[w].did
    BY <1>3 DEF BaseInv, LocalTypeOK, Subject
  <2>3. \A u \in Usernames : u # sub[w].username => users'[u] = users[u]
    BY <1>3 DEF BaseInv, LocalTypeOK
  <2>4. \E s \in Sessions, x \in Subject :
            <<s, x>> \in offered' /\ x.username = sub[w].username /\ x.did = sub[w].did
    BY <1>1, <1>3, <2>1
  <2>5. ASSUME NEW u \in Usernames
        PROVE  \/ users'[u] = ImportedUsers[u]
               \/ \E s \in Sessions, x \in Subject :
                      <<s, x>> \in offered' /\ x.username = u /\ x.did = users'[u]
    <3>1. CASE u = sub[w].username
      BY <2>2, <2>4, <3>1
    <3>2. CASE u # sub[w].username
      BY <1>1, <2>3, <3>2 DEF UsersBacked
    <3>. QED BY <3>1, <3>2
  <2>. QED BY <2>5 DEF UsersBacked
<1>. QED BY <1>2, <1>3, UsersWritten

(* A stored username and DID were imported or presented together, whatever *)
(* overlaps, raises, fails to commit or restarts (upsertUser).             *)
THEOREM UsersAlwaysBacked == Spec => []UsersBacked
<1>1. Init => UsersBacked
    BY DEF Init, UsersBacked
<1>. QED BY <1>1, BaseAlways, SignInAlwaysBacked, NextUsers, PTL DEF Spec
-------------------------------------------------------------------------------
(* With verification on, a post whose holder is no string gets as far as   *)
(* the mapping, one whose holder is a string does not.                     *)
Unmappable ==
    ~IsSkipVerification(profile) =>
        \A w \in Workers : handler[w] = "post.map" => req[w].holder # "string"

(* The profile is read once.                                               *)
LEMMA ProfileFixed ==
    ASSUME [Next]_vars
    PROVE  profile' = profile
<1>1. ASSUME NEW w \in Workers, Start(w)
      PROVE  profile' = profile
  BY <1>1 DEF Start, Authenticate, Action, Post, PostUnreadable,
              Begin
<1>2. ASSUME NEW w \in Workers, Proceed(w)
      PROVE  profile' = profile
  BY <1>2 DEF Proceed, InService, AuthenticateChallenge, PostGot, PostNoSession,
              PostVerify, PostMap, PostMapRaises, PostAttached, ActionNoSession,
              ActionNotValidated, ActionGot, ActionLookup, ActionConflict,
              ActionUserWithoutDid, UpsertLookup, UpsertAdd, UpsertSet, ActionDestroyed,
              Commit, CommitFails, Respond
<1>3. CASE Restart \/ UNCHANGED vars
  BY <1>3 DEF Restart, vars
<1>. QED BY <1>1, <1>2, <1>3 DEF Next

(* PostVerify lets no holder through that PostMap can read.                *)
LEMMA NextProduction ==
    BaseInv /\ Unmappable /\ ProductionAttachesNothing /\ [Next]_vars
        => Unmappable' /\ ProductionAttachesNothing'
<1>. SUFFICES ASSUME BaseInv, Unmappable, ProductionAttachesNothing, [Next]_vars
              PROVE  Unmappable' /\ ProductionAttachesNothing'
    OBVIOUS
<1>0. profile' = profile
    BY ProfileFixed
<1>. SUFFICES ASSUME ~IsSkipVerification(profile)
              PROVE  /\ \A w \in Workers : handler'[w] = "post.map" => req'[w].holder # "string"
                     /\ offered' = {}
    BY <1>0 DEF Unmappable, ProductionAttachesNothing, IsSkipVerification
<1>. USE DEF BaseInv, LocalTypeOK, Goto, Unmappable, ProductionAttachesNothing
<1>1. ASSUME NEW w \in Workers, PostMap(w)
      PROVE  FALSE
    BY <1>1 DEF PostMap, Mappable
<1>2. offered' = {}
    BY <1>1, OfferedStep
<1>3. ASSUME NEW w \in Workers, PostVerify(w)
      PROVE  \A v \in Workers : handler'[v] = "post.map" => req'[v].holder # "string"
  <2>1. CASE req[w].holder = "string"
    BY <1>3, <2>1 DEF PostVerify
  <2>2. CASE req[w].holder # "string"
    <3>1. PICK h : Goto(w, h)
      BY <1>3, <2>2 DEF PostVerify
    <3>. QED BY <1>3, <2>2, <3>1 DEF PostVerify
  <2>. QED BY <2>1, <2>2
<1>4. ASSUME NEW w \in Workers, Start(w) \/ (Proceed(w) /\ ~PostVerify(w))
      PROVE  \A v \in Workers : handler'[v] = "post.map" =>
                 handler[v] = "post.map" /\ req'[v] = req[v]
  <2>1. CASE Start(w)
    BY <2>1 DEF Start, Authenticate, Action, Post, PostUnreadable,
                Begin
  <2>2. CASE InService(w)
    BY <2>2 DEF InService, localVars
  <2>3. CASE /\ Proceed(w) /\ ~PostVerify(w) /\ ~InService(w)
    BY <1>1, <2>3 DEF Proceed, AuthenticateChallenge, PostGot, PostNoSession,
                PostMapRaises, PostAttached, ActionNoSession, ActionNotValidated, ActionGot,
                ActionLookup, ActionConflict, ActionUserWithoutDid, UpsertLookup, UpsertAdd,
                UpsertSet, ActionDestroyed, Commit, CommitFails, Respond
  <2>. QED BY <1>4, <2>1, <2>2, <2>3
<1>5. CASE Restart
    BY <1>2, <1>5 DEF Restart
<1>6. CASE UNCHANGED vars
    BY <1>2, <1>6 DEF vars, localVars
<1>. QED BY <1>2, <1>3, <1>4, <1>5, <1>6 DEF Next

(* With verification on the endpoint attaches no subject, for any requests *)
(* and answers of the sidecar (authenticateWithVerifiablePresentation).    *)
THEOREM ProductionNeverAttaches == Spec => []ProductionAttachesNothing
<1>1. Init => Unmappable /\ ProductionAttachesNothing
    BY DEF Init, Service!Init, Unmappable, ProductionAttachesNothing
<1>. QED BY <1>1, BaseAlways, NextProduction, PTL DEF Spec
-------------------------------------------------------------------------------
(* Only started logins are pending.  Inductive with every other place that *)
(* remembers an id that was found: what the threads saw when they began a  *)
(* call, and the threads that are about to use an entry they have found.   *)
Started == presented \cup Starting

StartedInv ==
    /\ \A s \in Sessions : pendingSessions[s] # Absent => s \in Started
    /\ \A w \in Workers, s \in Sessions : window[w].table[s] # Absent => s \in Started
    /\ \A w \in Workers : at[w] \in {"get.get", "attach.put"} => sid[w] \in Started
    /\ \A w \in Workers :
           \/ handler[w] = "post.get" /\ at[w] = "returned"
           \/ handler[w] \in {"post.verify", "post.map", "post.attach"}
           => sid[w] \in Started

(* The only steps of a thread that change which logins are started.        *)
LEMMA StartedStep ==
    ASSUME BaseInv, [Next]_vars
    PROVE  \/ Restart
           \/ UNCHANGED <<presented, Starting>>
           \/ \E w \in Workers, s \in Sessions :
                  Authenticate(w, s) /\ UNCHANGED presented /\ Starting' = Starting \cup {s}
           \/ \E w \in Workers : AuthenticateChallenge(w) /\ Started' = Started
<1>. USE DEF BaseInv, LocalTypeOK, Goto, Starting
<1>1. ASSUME NEW w \in Workers, NEW s \in Sessions, Authenticate(w, s)
      PROVE  UNCHANGED presented /\ Starting' = Starting \cup {s}
    BY <1>1 DEF Authenticate, Begin
<1>2. ASSUME NEW w \in Workers, Start(w),
             \A s \in Sessions : ~Authenticate(w, s)
      PROVE  UNCHANGED <<presented, Starting>>
    BY <1>2 DEF Start, Action, Post, PostUnreadable, Begin
<1>3. ASSUME NEW w \in Workers, AuthenticateChallenge(w)
      PROVE  Started' = Started
  <2>1. handler[w] = "authenticate.create" /\ sid[w] \in Sessions
    BY <1>3 DEF AuthenticateChallenge, Holding
  <2>2. sid[w] \in Starting
    BY <2>1
  <2>3. Starting \subseteq Starting' \cup {sid[w]} /\ Starting' \subseteq Starting
    BY <1>3 DEF AuthenticateChallenge
  <2>4. presented' = presented \cup {sid[w]}
    BY <1>3 DEF AuthenticateChallenge
  <2>. QED BY <2>2, <2>3, <2>4 DEF Started
<1>4. ASSUME NEW w \in Workers, PostVerify(w)
      PROVE  UNCHANGED <<presented, Starting>>
  <2>1. \E h \in {"post.map", "raised", "failed"} : Goto(w, h)
    BY <1>4 DEF PostVerify
  <2>. QED BY <1>4, <2>1 DEF PostVerify
<1>5. ASSUME NEW w \in Workers, Respond(w)
      PROVE  UNCHANGED <<presented, Starting>>
    BY <1>5 DEF Respond, Outcomes
<1>6. ASSUME NEW w \in Workers, InService(w)
      PROVE  UNCHANGED <<presented, Starting>>
    BY <1>6 DEF InService, localVars
<1>7. ASSUME NEW w \in Workers, PostGot(w) \/ PostNoSession(w)
      PROVE  UNCHANGED <<presented, Starting>>
    BY <1>7 DEF PostGot, PostNoSession
<1>8. ASSUME NEW w \in Workers, Proceed(w), ~InService(w), ~AuthenticateChallenge(w),
             ~PostGot(w), ~PostNoSession(w), ~PostVerify(w), ~Respond(w)
      PROVE  UNCHANGED <<presented, Starting>>
  <2>1. /\ UNCHANGED <<presented, sid>>
        /\ handler[w] # "authenticate.create"
        /\ \E h \in HandlerSteps \ {"authenticate.create"} : Goto(w, h)
    BY <1>8 DEF Proceed, PostMap, PostMapRaises, PostAttached, ActionNoSession,
                ActionNotValidated, ActionGot, ActionLookup, ActionConflict,
                ActionUserWithoutDid, UpsertLookup, UpsertAdd, UpsertSet, ActionDestroyed,
                Commit, CommitFails, HandlerSteps, PostSteps, SignInSteps, Outcomes
  <2>. QED BY <2>1
<1>9. CASE UNCHANGED vars
    BY <1>9 DEF vars, localVars
<1>. QED BY <1>1, <1>2, <1>3, <1>4, <1>5, <1>6, <1>7, <1>8, <1>9 DEF Next, Start, Proceed

(* Without a restart no login stops being started.                         *)
LEMMA StartedGrows ==
    ASSUME BaseInv, [Next]_vars, ~Restart
    PROVE  Started \subseteq Started'
BY StartedStep DEF Started

(* What a call on the map may leave in it, at the instance of DidLogin.    *)
LEMMA PutLeaves ==
    ASSUME Service!TypeOK, NEW w \in Workers, NEW k \in Sessions,
           NEW v \in Subject \cup {NoSubject}, Service!Put(w, k, v)
    PROVE  \A s \in Sessions :
               \/ pendingSessions'[s] = pendingSessions[s]
               \/ s = k /\ pendingSessions'[s] = v
               \/ pendingSessions'[s] = window[w].table[s]
<1>1. SP!TypeOK /\ SP!Put(w, k, v)
    BY SameTypeOK, SameMap
<1>2. SP!MapTypeOK /\ v \in SP!Values
    BY <1>1 DEF SP!TypeOK, SP!Values
<1>. QED BY <1>1, <1>2, SP!PutValues, ServiceAssumption, SameAssumptions

(* The same for remove.                                                    *)
LEMMA RemoveLeaves ==
    ASSUME Service!TypeOK, NEW w \in Workers, NEW k \in Sessions, Service!Remove(w, k)
    PROVE  \A s \in Sessions :
               \/ pendingSessions'[s] = pendingSessions[s]
               \/ s = k /\ pendingSessions'[s] = Absent
               \/ pendingSessions'[s] = window[w].table[s]
<1>1. SP!TypeOK /\ SP!Remove(w, k)
    BY SameTypeOK, SameMap
<1>2. SP!MapTypeOK
    BY <1>1 DEF SP!TypeOK
<1>. QED BY <1>1, <1>2, SP!RemoveValues, ServiceAssumption, SameAssumptions

(* A call on the map leaves started logins in it.                          *)
LEMMA TableStarted ==
    ASSUME BaseInv, CallInv, StartedInv, UNCHANGED <<localVars, presented>>,
           NEW w \in Workers, sid[w] \in Started,
           \A s \in Sessions :
               \/ pendingSessions'[s] = pendingSessions[s]
               \/ s = sid[w] \/ pendingSessions'[s] = Absent
               \/ pendingSessions'[s] = window[w].table[s],
           Service!CloseWindow(w), NEW p \in Service!Ended, Service!Goto(w, p)
    PROVE  StartedInv'
<1>. USE DEF StartedInv, localVars
<1>1. Started' = Started
    BY DEF Started, Starting
<1>2. \A s \in Sessions : pendingSessions'[s] # Absent => s \in Started'
    BY <1>1
<1>3. \A v \in Workers : window'[v] = window[v] \/ window'[v] = Service!Closed
    BY DEF Service!CloseWindow, BaseInv, Service!TypeOK, Service!MapTypeOK
<1>4. \A v \in Workers, s \in Sessions : window'[v].table[s] # Absent => s \in Started'
    BY <1>1, <1>3 DEF Service!Closed, Service!EmptyTable
<1>5. \A v \in Workers : at'[v] = at[v] \/ (v = w /\ at'[v] = p)
    BY DEF Service!Goto, BaseInv, Service!TypeOK
<1>. QED BY <1>1, <1>2, <1>4, <1>5 DEF Service!Ended

(* A thread opens a window on started logins, or leaves the windows alone. *)
LEMMA WindowStarted ==
    ASSUME BaseInv, StartedInv, UNCHANGED pendingSessions, Started \subseteq Started',
           NEW w \in Workers, NEW op, NEW k,
           Service!OpenWindow(w, op, k) \/ UNCHANGED window
    PROVE  \A v \in Workers, s \in Sessions : window'[v].table[s] # Absent => s \in Started'
<1>1. \A v \in Workers : window'[v] = window[v] \/ window'[v].table = pendingSessions
    BY DEF Service!OpenWindow, BaseInv, Service!TypeOK, Service!MapTypeOK
<1>. QED BY <1>1 DEF StartedInv

(* A line of the service keeps the invariant.                              *)
LEMMA ServiceStarted ==
    ASSUME BaseInv, CallInv, StartedInv, NEW w \in Workers, InService(w)
    PROVE  StartedInv'
<1>. USE DEF InService
<1>1. /\ Started' = Started
      /\ at[w] # "idle" => key[w] = sid[w] /\ sid[w] \in Sessions
    BY DEF Started, Starting, localVars, CallInv, BaseInv, Service!TypeOK
<1>2. CASE \/ Service!CreateSize(w) \/ Service!CreateContains(w)
           \/ Service!GetContains(w) \/ Service!GetGet(w) \/ Service!AttachContains(w)
  <2>. USE <1>2 DEF Service!CreateSize, Service!CreateContains, Service!GetContains,
                    Service!GetGet, Service!AttachContains
  <2>1. /\ UNCHANGED pendingSessions
        /\ \E op, k : Service!OpenWindow(w, op, k) \/ UNCHANGED window
    OBVIOUS
  <2>2. \A v \in Workers, s \in Sessions : window'[v].table[s] # Absent => s \in Started'
    BY <1>1, <2>1, WindowStarted
  <2>3. PICK p : /\ Service!Goto(w, p)
                 /\ p \in {"get.get", "attach.put"} => pendingSessions[key[w]] # Absent
                 /\ p = "returned" => at[w] # "get.contains" /\ at[w] # "attach.contains"
    BY DEF Service!Finds
  <2>4. p \in {"get.get", "attach.put"} => sid[w] \in Started
    BY <1>1, <2>3 DEF StartedInv
  <2>5. handler[w] = "post.get" /\ p = "returned" => sid[w] \in Started
    BY <2>3 DEF StartedInv, CallInv, Service!GetLines
  <2>6. \A v \in Workers : at'[v] = IF v = w THEN p ELSE at[v]
    BY <2>3 DEF Service!Goto, BaseInv, Service!TypeOK
  <2>. HIDE <1>2
  <2>. QED BY <1>1, <2>1, <2>2, <2>4, <2>5, <2>6 DEF StartedInv, localVars
<1>3. CASE Service!CreatePut(w)
  <2>1. sid[w] \in Starting
    BY <1>1, <1>3 DEF Service!CreatePut, CallInv, Calling, Service!CreateLines,
                      Service!GetLines, Service!AttachLines, Starting
  <2>2. Service!Put(w, sid[w], NoSubject) /\ sid[w] \in Sessions
    BY <1>1, <1>3 DEF Service!CreatePut
  <2>. QED BY <1>3, <2>1, <2>2, PutLeaves, TableStarted
           DEF Service!CreatePut, Service!Ended, Started, BaseInv
<1>4. CASE Service!AttachPut(w)
  <2>1. sid[w] \in Started /\ val[w] \in Subject \cup {NoSubject}
    BY <1>4 DEF Service!AttachPut, StartedInv, BaseInv, Service!TypeOK
  <2>2. Service!Put(w, sid[w], val[w]) /\ sid[w] \in Sessions
    BY <1>1, <1>4 DEF Service!AttachPut
  <2>. QED BY <1>4, <2>1, <2>2, PutLeaves, TableStarted
           DEF Service!AttachPut, Service!Ended, BaseInv
<1>5. CASE Service!DestroyRemove(w)
  <2>1. Service!Remove(w, sid[w]) /\ sid[w] \in Sessions
    BY <1>1, <1>5 DEF Service!DestroyRemove
  <2>2. \A s \in Sessions : pendingSessions'[s] # Absent => s \in Started'
    BY <1>1, <2>1, RemoveLeaves DEF BaseInv, StartedInv
  <2>3. \A v \in Workers : window'[v] = window[v] \/ window'[v] = Service!Closed
    BY <1>5 DEF Service!DestroyRemove, Service!CloseWindow, BaseInv, Service!TypeOK,
                Service!MapTypeOK
  <2>4. handler[w] = "action.destroy"
    BY <1>5 DEF Service!DestroyRemove, CallInv, Calling, Service!CreateLines,
                Service!GetLines, Service!AttachLines
  <2>5. \A v \in Workers : at'[v] = at[v] \/ (v = w /\ at'[v] = "returned")
    BY <1>5 DEF Service!DestroyRemove, Service!Goto, BaseInv, Service!TypeOK
  <2>6. \A v \in Workers, s \in Sessions : window'[v].table[s] # Absent => s \in Started'
    BY <1>1, <2>3 DEF StartedInv, Service!Closed, Service!EmptyTable
  <2>. QED BY <1>1, <2>2, <2>4, <2>5, <2>6 DEF StartedInv, localVars
<1>. QED BY <1>2, <1>3, <1>4, <1>5 DEF Service!ServiceStep

(* A handler that is elsewhere than in a post, before and after.           *)
LEMMA ElsewhereStarted ==
    ASSUME BaseInv, StartedInv, Started \subseteq Started', NEW w \in Workers,
           UNCHANGED <<pendingSessions, window>>, NEW p \in {"idle", "create.size", "get.contains"},
           at' = at \/ at' = [at EXCEPT ![w] = p],
           \A v \in Workers \ {w} : handler'[v] = handler[v] /\ sid'[v] = sid[v],
           at'[w] \in {"idle", "create.size", "get.contains"},
           handler'[w] \notin {"post.verify", "post.map", "post.attach"}
    PROVE  StartedInv'
BY DEF BaseInv, Service!TypeOK, StartedInv

(* So does a step of a handler.                                            *)
LEMMA NextStarted ==
    BaseInv /\ CallInv /\ StartedInv /\ [Next]_vars => StartedInv'
<1>. SUFFICES ASSUME BaseInv, CallInv, StartedInv, [Next]_vars
              PROVE  StartedInv'
    OBVIOUS
<1>0. ~Restart => Started \subseteq Started'
    BY StartedGrows
<1>1. ASSUME NEW w \in Workers, InService(w)
      PROVE  StartedInv'
    BY <1>1, ServiceStarted
<1>2. ASSUME NEW w \in Workers, Start(w), ~Restart
      PROVE  StartedInv'
  <2>1. /\ UNCHANGED <<pendingSessions, window>>
        /\ \E p \in {"idle", "create.size", "get.contains"} :
               (at' = at \/ at' = [at EXCEPT ![w] = p])
        /\ at'[w] \in {"idle", "create.size", "get.contains"}
    BY <1>2 DEF Start, Authenticate, Action, Post, PostUnreadable,
                Begin, Service!CallCreate, Service!CallGet, Service!Enter, Service!Goto,
                serviceVars, BaseInv, Service!TypeOK, CallInv, Calling
  <2>2. /\ \A v \in Workers \ {w} : handler'[v] = handler[v] /\ sid'[v] = sid[v]
        /\ handler'[w] \notin {"post.verify", "post.map", "post.attach"}
    BY <1>2 DEF Start, Authenticate, Action, Post, PostUnreadable,
                Begin, Goto, BaseInv, LocalTypeOK
  <2>. QED BY <1>0, <1>2, <2>1, <2>2, ElsewhereStarted
<1>3. ASSUME NEW w \in Workers, ~Restart,
             \/ AuthenticateChallenge(w) \/ PostNoSession(w) \/ PostAttached(w)
             \/ ActionNoSession(w) \/ ActionNotValidated(w) \/ ActionGot(w)
             \/ ActionDestroyed(w)
      PROVE  StartedInv'
  <2>1. UNCHANGED sid /\ \E result : Took(w, result)
    BY <1>3 DEF AuthenticateChallenge, PostNoSession, PostAttached, ActionNoSession,
                ActionNotValidated, ActionGot, ActionDestroyed
  <2>2. \E h \in HandlerSteps \ {"post.verify", "post.map", "post.attach"} : Goto(w, h)
    BY <1>3 DEF AuthenticateChallenge, PostNoSession, PostAttached, ActionNoSession,
                ActionNotValidated, ActionGot, ActionDestroyed, HandlerSteps, Outcomes,
                SignInSteps
  <2>. QED BY <1>0, <1>3, <2>1, <2>2, ElsewhereStarted
           DEF Took, Service!Return, Service!Goto, Goto, BaseInv, LocalTypeOK, Service!TypeOK
<1>4. ASSUME NEW w \in Workers, ~Restart, PostGot(w)
      PROVE  StartedInv'
  <2>1. sid[w] \in Started
    BY <1>4 DEF PostGot, Took, StartedInv
  <2>2. /\ UNCHANGED <<pendingSessions, window, sid>> /\ at' = [at EXCEPT ![w] = "idle"]
        /\ \E h : Goto(w, h)
    BY <1>4 DEF PostGot, Took, Service!Return, Service!Goto
  <2>. QED BY <1>0, <1>4, <2>1, <2>2 DEF StartedInv, Goto, BaseInv, LocalTypeOK, Service!TypeOK
<1>5. ASSUME NEW w \in Workers, ~Restart, PostVerify(w) \/ PostMapRaises(w)
      PROVE  StartedInv'
  <2>1. /\ UNCHANGED <<pendingSessions, window, sid, at>> /\ sid[w] \in Started
        /\ at[w] = "idle" /\ \E h : Goto(w, h)
    BY <1>5 DEF PostVerify, PostMapRaises, StartedInv, serviceVars, CallInv, Calling
  <2>. QED BY <1>0, <1>5, <2>1 DEF StartedInv, Goto, BaseInv, LocalTypeOK, Service!TypeOK
<1>6. ASSUME NEW w \in Workers, ~Restart, PostMap(w)
      PROVE  StartedInv'
  <2>1. /\ UNCHANGED <<pendingSessions, window, sid>> /\ sid[w] \in Started
        /\ at' = [at EXCEPT ![w] = "attach.contains"] /\ Goto(w, "post.attach")
    BY <1>6 DEF PostMap, StartedInv, Service!CallAttach, Service!Enter, Service!Goto
  <2>. QED BY <1>0, <1>6, <2>1 DEF StartedInv, Goto, BaseInv, LocalTypeOK, Service!TypeOK
<1>7. ASSUME NEW w \in Workers, ~Restart, UpsertSet(w)
      PROVE  StartedInv'
  <2>1. CASE Service!CallDestroy(w, sid[w]) /\ Goto(w, "action.destroy")
    <3>1. \A v \in Workers, s \in Sessions : window'[v].table[s] # Absent => s \in Started'
      BY <1>0, <1>7, <2>1, WindowStarted DEF Service!CallDestroy, Service!Enter
    <3>. QED BY <1>0, <1>7, <2>1, <3>1
             DEF UpsertSet, Service!CallDestroy, Service!Enter, Service!Goto, StartedInv,
                 Goto, BaseInv, LocalTypeOK, Service!TypeOK
  <2>2. CASE Goto(w, "raised") /\ UNCHANGED serviceVars
    BY <1>0, <1>7, <2>2, ElsewhereStarted
       DEF UpsertSet, serviceVars, CallInv, Calling, Goto, BaseInv, LocalTypeOK
  <2>. QED BY <1>7, <2>1, <2>2 DEF UpsertSet
<1>8. ASSUME NEW w \in Workers, ~Restart,
             \/ ActionLookup(w) \/ ActionConflict(w) \/ ActionUserWithoutDid(w)
             \/ UpsertLookup(w) \/ UpsertAdd(w) \/ Commit(w) \/ CommitFails(w)
             \/ Respond(w)
      PROVE  StartedInv'
  <2>1. UNCHANGED <<pendingSessions, window, at>> /\ at[w] = "idle"
    BY <1>8 DEF ActionLookup, ActionConflict, ActionUserWithoutDid, UpsertLookup, UpsertAdd,
                Commit, CommitFails, Respond, serviceVars, CallInv, Calling, Outcomes
  <2>2. /\ \A v \in Workers \ {w} : handler'[v] = handler[v] /\ sid'[v] = sid[v]
        /\ handler'[w] \notin {"post.verify", "post.map", "post.attach"}
    BY <1>8 DEF ActionLookup, ActionConflict, ActionUserWithoutDid, UpsertLookup, UpsertAdd,
                Commit, CommitFails, Respond, Goto, BaseInv, LocalTypeOK
  <2>. QED BY <1>0, <1>8, <2>1, <2>2, ElsewhereStarted
<1>9. CASE Restart
    BY <1>9 DEF Restart, Service!Restart, Service!MapRestart, Service!EmptyTable,
                Service!Closed, StartedInv
<1>10. CASE UNCHANGED vars
    BY <1>10 DEF vars, localVars, serviceVars, StartedInv, Started, Starting
<1>. QED BY <1>1, <1>2, <1>3, <1>4, <1>5, <1>6, <1>7, <1>8, <1>9, <1>10 DEF Next, Proceed

(* The invariant holds of the plugin.                                      *)
LEMMA StartedAlways == Spec => []StartedInv
<1>1. Init => StartedInv
    BY DEF Init, Service!Init, Service!MapInit, Service!EmptyTable, Service!Closed, StartedInv
<1>. QED BY <1>1, BaseAlways, CallAlways, NextStarted, PTL DEF Spec

(* The table holds no login that Keycloak has not started                  *)
(* (createNewSessionForId, attachSubjectToSession), over the               *)
(* unsynchronized map as well.                                             *)
THEOREM PendingAlwaysStarted == Spec => []PendingWasStarted
<1>1. StartedInv => PendingWasStarted
    BY DEF StartedInv, Started, Starting, PendingWasStarted
<1>. QED BY <1>1, StartedAlways, PTL
-------------------------------------------------------------------------------
(* What a step does to a sign-in that is under way after it: the sign-in   *)
(* has begun for a login whose page was shown, or keeps its login; past    *)
(* the comparison of the DIDs it keeps its subject, too.                   *)
GoesOn(v) ==
    /\ handler'[v] \in SignInSteps =>
           \/ handler'[v] = "action.get" /\ sid'[v] \in presented
           \/ handler[v] \in SignInSteps /\ sid'[v] = sid[v]
    /\ handler'[v] \in Compared =>
           /\ sub'[v] = sub[v]
           /\ \/ handler[v] \in Compared
              \/ handler[v] = "action.lookup" /\ Stored(v) \in {NoUser, sub[v].did}

(* A step of a thread that is not in a sign-in after it.                   *)
LEMMA OthersGoOn ==
    ASSUME NEW w \in Workers, handler'[w] \notin SignInSteps,
           \A v \in Workers \ {w} :
               handler'[v] = handler[v] /\ sid'[v] = sid[v] /\ sub'[v] = sub[v]
    PROVE  \A v \in Workers : GoesOn(v)
BY DEF GoesOn, SignInSteps, Compared

(* Every step but a restart.                                               *)
LEMMA SignInsGoOn ==
    ASSUME BaseInv, [Next]_vars, ~Restart
    PROVE  presented \subseteq presented' /\ \A v \in Workers : GoesOn(v)
<1>. USE DEF Goto, BaseInv, LocalTypeOK
<1>1. ASSUME NEW w \in Workers, NEW s \in Sessions, Action(w, s)
      PROVE  presented \subseteq presented' /\ \A v \in Workers : GoesOn(v)
    BY <1>1 DEF Action, Begin, GoesOn, SignInSteps, Compared
<1>2. ASSUME NEW w \in Workers, Start(w), \A s \in Sessions : ~Action(w, s)
      PROVE  presented \subseteq presented' /\ \A v \in Workers : GoesOn(v)
    BY <1>2, OthersGoOn DEF Start, Authenticate, Post, PostUnreadable, Begin, SignInSteps
<1>3. ASSUME NEW w \in Workers, InService(w)
      PROVE  presented \subseteq presented' /\ \A v \in Workers : GoesOn(v)
    BY <1>3 DEF InService, localVars, GoesOn, Compared, SignInSteps
<1>4. ASSUME NEW w \in Workers,
             \/ AuthenticateChallenge(w)
             \/ PostGot(w) \/ PostNoSession(w) \/ PostMapRaises(w) \/ PostAttached(w)
             \/ ActionNoSession(w) \/ ActionNotValidated(w) \/ ActionConflict(w)
             \/ ActionUserWithoutDid(w) \/ Commit(w) \/ CommitFails(w) \/ Respond(w)
      PROVE  presented \subseteq presented' /\ \A v \in Workers : GoesOn(v)
    BY <1>4, OthersGoOn
       DEF AuthenticateChallenge, PostGot, PostNoSession, PostMapRaises, PostAttached,
           ActionNoSession, ActionNotValidated, ActionConflict, ActionUserWithoutDid,
           Commit, CommitFails, Respond, SignInSteps
<1>5. ASSUME NEW w \in Workers, PostVerify(w)
      PROVE  presented \subseteq presented' /\ \A v \in Workers : GoesOn(v)
  <2>1. \E h \in {"post.map", "raised", "failed"} : Goto(w, h)
    BY <1>5 DEF PostVerify
  <2>. QED BY <1>5, <2>1, OthersGoOn DEF PostVerify, SignInSteps
<1>6. ASSUME NEW w \in Workers, PostMap(w)
      PROVE  presented \subseteq presented' /\ \A v \in Workers : GoesOn(v)
  <2>1. PICK x : sub' = [sub EXCEPT ![w] = x]
    BY <1>6 DEF PostMap
  <2>. QED BY <1>6, <2>1, OthersGoOn DEF PostMap, SignInSteps
<1>7. ASSUME NEW w \in Workers, ActionGot(w)
      PROVE  presented \subseteq presented' /\ \A v \in Workers : GoesOn(v)
    BY <1>7 DEF ActionGot, GoesOn, SignInSteps, Compared
<1>8. ASSUME NEW w \in Workers,
             \/ ActionLookup(w) \/ UpsertLookup(w) \/ UpsertAdd(w) \/ UpsertSet(w)
             \/ ActionDestroyed(w)
      PROVE  presented \subseteq presented' /\ \A v \in Workers : GoesOn(v)
  <2>1. handler[w] \in SignInSteps /\ UNCHANGED <<sid, sub, presented>>
    BY <1>8 DEF ActionLookup, UpsertLookup, UpsertAdd, UpsertSet, ActionDestroyed, SignInSteps
  <2>2. \/ handler[w] \in Compared
        \/ handler[w] = "action.lookup" /\ Stored(w) \in {NoUser, sub[w].did}
    BY <1>8 DEF ActionLookup, UpsertLookup, UpsertAdd, UpsertSet, ActionDestroyed, Compared
  <2>3. \A v \in Workers \ {w} : handler'[v] = handler[v]
    BY <1>8 DEF ActionLookup, UpsertLookup, UpsertAdd, UpsertSet, ActionDestroyed
  <2>. QED BY <2>1, <2>2, <2>3 DEF GoesOn, Compared, SignInSteps
<1>9. CASE UNCHANGED vars
    BY <1>9 DEF vars, localVars, GoesOn, SignInSteps, Compared
<1>. QED BY <1>1, <1>2, <1>3, <1>4, <1>5, <1>6, <1>7, <1>8, <1>9 DEF Next, Proceed

(* A sign-in is for a login whose page was shown.                          *)
SignInStarted ==
    \A w \in Workers : handler[w] \in SignInSteps => sid[w] \in presented

LEMMA StartedSignIns == Spec => []SignInStarted
<1>1. Init => SignInStarted
    BY DEF Init, SignInStarted, SignInSteps
<1>2. BaseInv /\ SignInStarted /\ [Next]_vars => SignInStarted'
  <2>1. CASE Restart
    BY <2>1 DEF Restart, SignInStarted, SignInSteps
  <2>2. ASSUME BaseInv, SignInStarted, [Next]_vars, ~Restart
        PROVE  SignInStarted'
    BY <2>2, SignInsGoOn DEF GoesOn, SignInStarted
  <2>. QED BY <2>1, <2>2
<1>. QED BY <1>1, <1>2, BaseAlways, PTL DEF Spec

-------------------------------------------------------------------------------
(* A settled user.  No invariant is needed for the step: a sign-in that is *)
(* compared anew finds the user, and the others have its DID already.      *)
LEMMA NextSettled ==
    ASSUME BaseInv, [Next]_vars, NEW u \in Usernames, Settled(u)
    PROVE  Settled(u)' /\ users'[u] = users[u]
<1>1. users'[u] = users[u]
  <2>1. ASSUME NEW w \in Workers, Commit(w), sub[w] \in Subject,
               users' = [users EXCEPT ![sub[w].username] = sub[w].did]
        PROVE  users'[u] = users[u]
    BY <2>1 DEF Commit, Settled, Compared, BaseInv, LocalTypeOK
  <2>. QED BY <2>1, UsersWritten
<1>2. ASSUME NEW w \in Workers, handler'[w] \in Compared, sub'[w].username = u
      PROVE  sub'[w].did = users[u]
  <2>1. ~Restart
    BY <1>2 DEF Restart, Compared
  <2>2. GoesOn(w)
    BY <2>1, SignInsGoOn
  <2>. QED BY <1>2, <2>2 DEF GoesOn, Settled, Stored
<1>. QED BY <1>1, <1>2 DEF Settled

(* Once the sign-ins under way agree with the store, a user keeps its DID  *)
(* for good, for any number of threads and whatever overlaps afterwards    *)
(* (action and upsertUser, which do not run in one transaction).           *)
THEOREM SettledAlwaysKept == Spec => SettledKept
<1>1. BaseInv /\ [Next]_vars
          => [\A u \in Usernames : Settled(u) => Settled(u)' /\ users'[u] = users[u]]_vars
    BY NextSettled
<1>. QED BY <1>1, BaseAlways, PTL DEF Spec, SettledKept

(* The users of the import are settled from the start.                     *)
ImportedInv ==
    \A u \in Usernames :
        ImportedUsers[u] # NoUser => Settled(u) /\ users[u] = ImportedUsers[u]

LEMMA ImportedAlways == Spec => []ImportedInv
<1>1. Init => ImportedInv
    BY DEF Init, ImportedInv, Settled, Compared
<1>2. BaseInv /\ ImportedInv /\ [Next]_vars => ImportedInv'
  <2>. SUFFICES ASSUME BaseInv, ImportedInv, [Next]_vars, NEW u \in Usernames,
                       ImportedUsers[u] # NoUser
                PROVE  Settled(u)' /\ users'[u] = ImportedUsers[u]
      BY DEF ImportedInv
  <2>. QED BY NextSettled DEF ImportedInv
<1>. QED BY <1>1, <1>2, BaseAlways, PTL DEF Spec

(* No sign-in, overlapping or not, changes the DID of a user of the        *)
(* import, or gives one to a user that has none (action, upsertUser).      *)
THEOREM ImportedAlwaysKept == Spec => []ImportedKept
<1>1. ImportedInv => ImportedKept
    BY DEF ImportedInv, ImportedKept
<1>. QED BY <1>1, ImportedAlways, PTL

-------------------------------------------------------------------------------
(* Sign-ins that do not overlap.  Between its comparison of the DIDs and   *)
(* its commit, the one sign-in that runs is the only thread that could     *)
(* change what is stored under its username.                               *)
SerialInv ==
    /\ \A v, w \in Workers :
           handler[v] \in SignInSteps /\ handler[w] \in SignInSteps => v = w
    /\ \A w \in Workers : handler[w] \in Compared => Stored(w) \in {NoUser, sub[w].did}

(* A thread that signs in goes on, and changes nothing but its place.      *)
LEMMA SignInGoesOn ==
    ASSUME BaseInv, SerialInv, UNCHANGED <<sub, users>>, NEW w \in Workers,
           handler[w] \in SignInSteps, NEW h \in HandlerSteps, Goto(w, h),
           h \in Compared => handler[w] \in Compared \/ Stored(w) \in {NoUser, sub[w].did}
    PROVE  SerialInv'
BY DEF BaseInv, LocalTypeOK, SerialInv, Stored, Goto

(* A thread that does not sign in leaves those that do alone.              *)
LEMMA NotSigningIn ==
    ASSUME BaseInv, SerialInv, UNCHANGED users,
           NEW w \in Workers, handler'[w] \notin SignInSteps,
           \A v \in Workers \ {w} : handler'[v] = handler[v] /\ sub'[v] = sub[v]
    PROVE  SerialInv'
BY DEF BaseInv, LocalTypeOK, SerialInv, Stored, Compared, SignInSteps

(* One case per step; Commit leaves no sign-in under way.                  *)
LEMMA NextSerial ==
    ASSUME SerialSignIns, BaseInv, SerialInv, [Next]_vars
    PROVE  SerialInv'
<1>. USE DEF SignInSteps, Goto, BaseInv, LocalTypeOK
<1>1. ASSUME NEW w \in Workers, NEW s \in Sessions, Action(w, s)
      PROVE  SerialInv'
    BY <1>1 DEF Action, Begin, SerialInv, Stored, Compared
<1>2. ASSUME NEW w \in Workers, Start(w), \A s \in Sessions : ~Action(w, s)
      PROVE  SerialInv'
    BY <1>2, NotSigningIn DEF Start, Authenticate, Post,
                              PostUnreadable, Begin
<1>3. ASSUME NEW w \in Workers, InService(w)
      PROVE  SerialInv'
    BY <1>3 DEF InService, localVars, SerialInv, Stored, Compared
<1>4. ASSUME NEW w \in Workers,
             \/ AuthenticateChallenge(w)
             \/ PostGot(w) \/ PostNoSession(w) \/ PostMapRaises(w) \/ PostAttached(w)
             \/ ActionNoSession(w) \/ ActionNotValidated(w) \/ ActionConflict(w)
             \/ ActionUserWithoutDid(w) \/ CommitFails(w) \/ Respond(w)
      PROVE  SerialInv'
    BY <1>4, NotSigningIn
       DEF AuthenticateChallenge, PostGot, PostNoSession, PostMapRaises, PostAttached,
           ActionNoSession, ActionNotValidated, ActionConflict, ActionUserWithoutDid,
           CommitFails, Respond
<1>5. ASSUME NEW w \in Workers, PostVerify(w)
      PROVE  SerialInv'
  <2>1. \E h \in {"post.map", "raised", "failed"} : Goto(w, h)
    BY <1>5 DEF PostVerify
  <2>. QED BY <1>5, <2>1, NotSigningIn DEF PostVerify
<1>6. ASSUME NEW w \in Workers, PostMap(w)
      PROVE  SerialInv'
  <2>1. PICK x : sub' = [sub EXCEPT ![w] = x]
    BY <1>6 DEF PostMap
  <2>. QED BY <1>6, <2>1, NotSigningIn DEF PostMap
<1>7. ASSUME NEW w \in Workers, ActionGot(w)
      PROVE  SerialInv'
    BY <1>7 DEF ActionGot, SerialInv, Stored, Compared
<1>8. ASSUME NEW w \in Workers,
             \/ ActionLookup(w) \/ UpsertLookup(w) \/ UpsertAdd(w) \/ UpsertSet(w)
             \/ ActionDestroyed(w)
      PROVE  SerialInv'
  <2>1. handler[w] \in SignInSteps /\ UNCHANGED <<sub, users>>
    BY <1>8 DEF ActionLookup, UpsertLookup, UpsertAdd, UpsertSet, ActionDestroyed
  <2>2. \E h \in HandlerSteps : Goto(w, h)
    BY <1>8 DEF ActionLookup, UpsertLookup, UpsertAdd, UpsertSet, ActionDestroyed,
                HandlerSteps, Outcomes
  <2>3. handler[w] \in Compared \/ Stored(w) \in {NoUser, sub[w].did}
    BY <1>8 DEF ActionLookup, UpsertLookup, UpsertAdd, UpsertSet, ActionDestroyed, Compared
  <2>. QED BY <2>1, <2>2, <2>3, SignInGoesOn
<1>9. ASSUME NEW w \in Workers, Commit(w)
      PROVE  SerialInv'
  <2>1. \A v \in Workers : handler'[v] \notin SignInSteps
    BY <1>9 DEF Commit, SerialInv
  <2>. QED BY <2>1 DEF SerialInv, Compared
<1>10. CASE Restart
    BY <1>10 DEF Restart, SerialInv, Compared
<1>11. CASE UNCHANGED vars
    BY <1>11 DEF vars, localVars, SerialInv, Stored
<1>. QED BY <1>1, <1>2, <1>3, <1>4, <1>5, <1>6, <1>7, <1>8, <1>9, <1>10, <1>11
         DEF Next, Proceed

(* It holds of a plugin whose sign-ins Keycloak runs one at a time.        *)
ExclusiveInv == SerialSignIns => SerialInv

LEMMA ExclusiveAlways == Spec => []ExclusiveInv
<1>1. Init => ExclusiveInv
    BY DEF Init, SerialInv, SignInSteps, Compared, ExclusiveInv
<1>2. BaseInv /\ ExclusiveInv /\ [Next]_vars => ExclusiveInv'
    BY NextSerial DEF ExclusiveInv
<1>. QED BY <1>1, <1>2, BaseAlways, PTL DEF Spec

(* If form submissions do not overlap, upsertUser never changes the DID of *)
(* a user, over the unsynchronized map as well.                            *)
THEOREM SerialDidKept ==
    ASSUME SerialSignIns
    PROVE  Spec => DidKept
<1>1. BaseInv /\ ExclusiveInv /\ [Next]_vars
          => [\A u \in Usernames : users[u] # NoUser => users'[u] = users[u]]_vars
  <2>. SUFFICES ASSUME BaseInv, SerialInv, [Next]_vars, NEW u \in Usernames,
                       users[u] # NoUser
                PROVE  users'[u] = users[u]
      BY DEF ExclusiveInv
  <2>1. ASSUME NEW w \in Workers, Commit(w), sub[w] \in Subject,
               users' = [users EXCEPT ![sub[w].username] = sub[w].did]
        PROVE  users'[u] = users[u]
    BY <2>1 DEF Commit, SerialInv, Compared, Stored, BaseInv, LocalTypeOK
  <2>. QED BY <2>1, UsersWritten
<1>. QED BY <1>1, BaseAlways, ExclusiveAlways, PTL DEF Spec, DidKept

(* Every step of the plugin is a step of LoginContract, or none.           *)
LEMMA ContractStep ==
    ASSUME BaseInv, StartedInv, SignInBacked, SignInStarted, ImportedInv, ExclusiveInv,
           [Next]_vars
    PROVE  [Contract!Next]_<<presented \cup Starting, offered, users>>
<1>. USE DEF Contract!Next
<1>1. ASSUME NEW w \in Workers, PostMap(w)
      PROVE  Contract!Next
  <2>1. UNCHANGED <<presented, Starting, users>>
    BY <1>1 DEF PostMap, Starting, Goto, BaseInv, LocalTypeOK
  <2>2. sid[w] \in Sessions /\ sid[w] \in Started
    BY <1>1 DEF PostMap, StartedInv, BaseInv, Holding
  <2>3. PICK x \in Subject : offered' = offered \cup {<<sid[w], x>>}
    <3>1. req[w] \in Requests /\ Mappable(req[w])
      BY <1>1 DEF PostMap, BaseInv, Holding, PostSteps
    <3>2. PICK x \in SubjectsOf(req[w]) : Service!CallAttach(w, sid[w], x)
      BY <1>1 DEF PostMap
    <3>. QED BY <3>1, <3>2, MappedSubject DEF Service!CallAttach
  <2>4. Contract!Deliver(sid[w], x)
    BY <2>1, <2>2, <2>3 DEF Contract!Deliver, Started
  <2>. QED BY <2>2, <2>4
<1>2. ASSUME NEW w \in Workers, Commit(w)
      PROVE  Contract!Next
  <2>1. UNCHANGED <<presented, Starting, offered>>
    BY <1>2 DEF Commit, Starting, Goto, BaseInv, LocalTypeOK, serviceVars
  <2>2. sid[w] \in Sessions /\ sub[w] \in Subject /\ sid[w] \in presented
    BY <1>2 DEF Commit, BaseInv, Holding, SignInStarted, SignInSteps
  <2>3. <<sid[w], sub[w]>> \in offered
    BY <1>2 DEF Commit, SignInBacked, SignInSteps
  <2>4. ImportedUsers[sub[w].username] \in {NoUser, sub[w].did}
    BY <1>2, <2>2 DEF Commit, ImportedInv, Settled, Compared, Subject
  <2>5. SerialSignIns => users[sub[w].username] \in {NoUser, sub[w].did}
    BY <1>2 DEF Commit, ExclusiveInv, SerialInv, Compared, Stored
  <2>6. Contract!SignIn(sid[w], sub[w])
    BY <1>2, <2>1, <2>2, <2>3, <2>4, <2>5 DEF Commit, Contract!SignIn
  <2>. QED BY <2>2, <2>6
<1>3. ASSUME NEW w \in Workers, NEW s \in Sessions, Authenticate(w, s),
             UNCHANGED presented, Starting' = Starting \cup {s}
      PROVE  Contract!Next
  <2>1. UNCHANGED <<offered, users>>
    BY <1>3 DEF Authenticate, Begin, Service!CallCreate
  <2>2. Contract!Start(s)
    BY <1>3, <2>1 DEF Contract!Start
  <2>. QED BY <2>2
<1>4. CASE Restart
  <2>1. Contract!Forget
    BY <1>4 DEF Restart, Service!Restart, Starting, Contract!Forget, BaseInv, LocalTypeOK
  <2>. QED BY <2>1
<1>5. ASSUME ~Restart, \A w \in Workers : ~PostMap(w) /\ ~Commit(w),
             \A w \in Workers, s \in Sessions :
                 ~(Authenticate(w, s) /\ UNCHANGED presented /\ Starting' = Starting \cup {s})
      PROVE  UNCHANGED <<presented \cup Starting, offered, users>>
  <2>1. UNCHANGED <<offered, users>>
    BY <1>5, OfferedStep, UsersWritten
  <2>2. Started' = Started
    BY <1>5, StartedStep DEF Started
  <2>. QED BY <2>1, <2>2 DEF Started
<1>. QED BY <1>1, <1>2, <1>3, <1>4, <1>5

(* The implementation theorem: the three handlers, the table, the user     *)
(* store and the restarts implement LoginContract, and the exclusive one   *)
(* when sign-ins do not overlap.                                           *)
THEOREM AlwaysKeepsContract == Spec => KeepsContract
<1>1. Init => Contract!Init
    BY DEF Init, Service!Init, Starting, Contract!Init
<1>2. BaseInv /\ StartedInv /\ SignInBacked /\ SignInStarted /\ ImportedInv /\ ExclusiveInv
          /\ [Next]_vars
          => [Contract!Next]_<<presented \cup Starting, offered, users>>
    BY ContractStep
<1>. QED BY <1>1, <1>2, BaseAlways, StartedAlways, SignInAlwaysBacked, StartedSignIns,
            ImportedAlways, ExclusiveAlways, PTL
         DEF Spec, KeepsContract, Contract!Spec

-------------------------------------------------------------------------------
(* What frees a place in the table.  A sign-in past its upsert has a user: *)
(* one that it inserts, or one that is stored, and users are never removed.*)
HasUser ==
    \A w \in Workers :
        handler[w] \in {"action.set", "action.destroy", "action.commit"}
            => w \in inserted \/ Stored(w) # NoUser

(* No user is ever removed.                                                *)
LEMMA UsersStay ==
    ASSUME BaseInv, [Next]_vars, NEW u \in Usernames, users[u] # NoUser
    PROVE  users'[u] # NoUser
<1>1. ASSUME NEW w \in Workers, sub[w] \in Subject,
             users' = [users EXCEPT ![sub[w].username] = sub[w].did]
      PROVE  users'[u] # NoUser
    BY <1>1, LoginAssumption DEF Subject, BaseInv, LocalTypeOK
<1>. QED BY <1>1, UsersWritten

(* A step that leaves the other threads as they are, and this one with a   *)
(* user if it needs one.                                                   *)
LEMMA UserKept ==
    ASSUME BaseInv, HasUser, [Next]_vars, NEW w \in Workers,
           \A v \in Workers \ {w} :
               handler'[v] = handler[v] /\ sub'[v] = sub[v] /\ (v \in inserted => v \in inserted'),
           handler'[w] \in {"action.set", "action.destroy", "action.commit"}
               => /\ sub'[w] = sub[w] /\ sub[w] \in Subject
                  /\ w \in inserted' \/ Stored(w) # NoUser
    PROVE  HasUser'
<1>1. ASSUME NEW v \in Workers \ {w},
             handler'[v] \in {"action.set", "action.destroy", "action.commit"}
      PROVE  v \in inserted' \/ users'[sub'[v].username] # NoUser
  <2>1. sub[v] \in Subject /\ sub[v].username \in Usernames
    BY <1>1 DEF BaseInv, Holding, SignInSteps, Subject
  <2>. QED BY <1>1, <2>1, UsersStay DEF HasUser, Stored
<1>2. ASSUME handler'[w] \in {"action.set", "action.destroy", "action.commit"}
      PROVE  w \in inserted' \/ users'[sub'[w].username] # NoUser
  <2>1. sub[w].username \in Usernames
    BY <1>2 DEF Subject
  <2>. QED BY <1>2, <2>1, UsersStay DEF Stored
<1>. QED BY <1>1, <1>2 DEF HasUser, Stored

(* One case per step.                                                      *)
LEMMA NextHasUser == BaseInv /\ HasUser /\ [Next]_vars => HasUser'
<1>. SUFFICES ASSUME BaseInv, HasUser, [Next]_vars
              PROVE  HasUser'
    OBVIOUS
<1>. USE DEF Goto, BaseInv, LocalTypeOK
<1>1. ASSUME NEW w \in Workers, Start(w)
      PROVE  HasUser'
    BY <1>1, UserKept DEF Start, Authenticate, Action, Post,
                          PostUnreadable, Begin
<1>2. ASSUME NEW w \in Workers, InService(w)
      PROVE  HasUser'
    BY <1>2 DEF InService, localVars, HasUser, Stored
<1>3. ASSUME NEW w \in Workers,
             \/ AuthenticateChallenge(w)
             \/ PostGot(w) \/ PostNoSession(w) \/ PostMapRaises(w) \/ PostAttached(w)
             \/ ActionNoSession(w) \/ ActionNotValidated(w) \/ ActionGot(w)
             \/ ActionLookup(w) \/ ActionConflict(w) \/ ActionUserWithoutDid(w)
             \/ Respond(w)
      PROVE  HasUser'
    BY <1>3, UserKept
       DEF AuthenticateChallenge, PostGot, PostNoSession, PostMapRaises, PostAttached,
           ActionNoSession, ActionNotValidated, ActionGot, ActionLookup, ActionConflict,
           ActionUserWithoutDid, Respond
<1>4. ASSUME NEW w \in Workers, PostVerify(w)
      PROVE  HasUser'
  <2>1. \E h \in {"post.map", "raised", "failed"} : Goto(w, h)
    BY <1>4 DEF PostVerify
  <2>. QED BY <1>4, <2>1, UserKept DEF PostVerify
<1>5. ASSUME NEW w \in Workers, PostMap(w)
      PROVE  HasUser'
  <2>1. PICK x : sub' = [sub EXCEPT ![w] = x]
    BY <1>5 DEF PostMap
  <2>. QED BY <1>5, <2>1, UserKept DEF PostMap
<1>6. ASSUME NEW w \in Workers,
             UpsertLookup(w) \/ UpsertAdd(w) \/ UpsertSet(w) \/ ActionDestroyed(w)
      PROVE  HasUser'
  <2>1. sub[w] \in Subject
    BY <1>6 DEF UpsertLookup, UpsertAdd, UpsertSet, ActionDestroyed, Holding, SignInSteps
  <2>2. /\ \A v \in Workers \ {w} : /\ handler'[v] = handler[v] /\ sub'[v] = sub[v]
                                    /\ v \in inserted => v \in inserted'
        /\ sub' = sub
    BY <1>6 DEF UpsertLookup, UpsertAdd, UpsertSet, ActionDestroyed
  <2>3. handler'[w] \in {"action.set", "action.destroy", "action.commit"}
            => w \in inserted' \/ Stored(w) # NoUser
    BY <1>6 DEF UpsertLookup, UpsertAdd, UpsertSet, ActionDestroyed, HasUser
  <2>. QED BY <2>1, <2>2, <2>3, UserKept
<1>7. ASSUME NEW w \in Workers, Commit(w) \/ CommitFails(w)
      PROVE  HasUser'
    BY <1>7, UserKept DEF Commit, CommitFails
<1>8. CASE Restart
    BY <1>8 DEF Restart, HasUser
<1>9. CASE UNCHANGED vars
    BY <1>9 DEF vars, localVars, HasUser, Stored
<1>. QED BY <1>1, <1>2, <1>3, <1>4, <1>5, <1>6, <1>7, <1>8, <1>9 DEF Next, Proceed

(* Over an atomic map only destroySession unlinks a key.                   *)
LEMMA AtomicFrees ==
    ASSUME Linearizable, Service!TypeOK, NEW w \in Workers, Service!ServiceStep(w),
           NEW s \in Sessions, pendingSessions[s] # Absent, pendingSessions'[s] = Absent
    PROVE  Service!DestroyRemove(w) /\ key[w] = s
<1>1. Service!StaleKeys(w) = {}
    BY DEF Service!StaleKeys
<1>2. ASSUME NEW v, v # Absent, Service!Put(w, key[w], v)
      PROVE  FALSE
    BY <1>1, <1>2 DEF Service!Put, Service!Relink, Service!TypeOK, Service!MapTypeOK,
                      Service!Table
<1>3. ~Service!CreatePut(w) /\ ~Service!AttachPut(w)
    BY <1>2, ServiceAssumption
       DEF Service!CreatePut, Service!AttachPut, Service!MapAssumption, Service!TypeOK,
           Service!AttachLines
<1>4. Service!DestroyRemove(w)
    BY <1>3 DEF Service!ServiceStep, Service!CreateSize, Service!CreateContains,
                Service!GetContains, Service!GetGet, Service!AttachContains
<1>5. key[w] = s
    BY <1>1, <1>4 DEF Service!DestroyRemove, Service!Remove, Service!Relink
<1>. QED BY <1>4, <1>5

(* A step that frees a place is destroySession in a sign-in.               *)
LEMMA FreedStep ==
    ASSUME BaseInv, CallInv, SignInBacked, HasUser, [Next]_vars, Linearizable, ~Restart,
           NEW s \in Sessions, pendingSessions[s] # Absent, pendingSessions'[s] = Absent
    PROVE  \E w \in Workers :
               /\ handler[w] = "action.destroy"
               /\ sid[w] = s
               /\ <<s, sub[w]>> \in offered
               /\ w \in inserted \/ Stored(w) # NoUser
<1>1. PICK w \in Workers : InService(w)
  <2>1. ASSUME NEW w \in Workers, Start(w)
        PROVE  UNCHANGED pendingSessions
    BY <2>1 DEF Start, Authenticate, Action, Post, PostUnreadable,
                Service!CallCreate, Service!CallGet, Service!Enter, serviceVars
  <2>2. ASSUME NEW w \in Workers, Proceed(w), ~InService(w)
        PROVE  UNCHANGED pendingSessions
    BY <2>2 DEF Proceed, AuthenticateChallenge, PostGot, PostNoSession, PostVerify,
                PostMap, PostMapRaises, PostAttached, ActionNoSession, ActionNotValidated,
                ActionGot, ActionLookup, ActionConflict, ActionUserWithoutDid,
                UpsertLookup, UpsertAdd, UpsertSet, ActionDestroyed, Commit, CommitFails,
                Respond, Took, Service!Return, Service!CallAttach, Service!CallDestroy,
                Service!Enter, serviceVars
  <2>. QED BY <2>1, <2>2 DEF Next, vars, serviceVars
<1>2. Service!DestroyRemove(w) /\ key[w] = s
    BY <1>1, AtomicFrees DEF InService, BaseInv
<1>3. handler[w] = "action.destroy" /\ sid[w] = s
    BY <1>2 DEF Service!DestroyRemove, CallInv, Calling, Service!CreateLines,
                Service!GetLines, Service!AttachLines
<1>. QED BY <1>3 DEF SignInBacked, SignInSteps, HasUser

(* Over an atomic map nothing but a sign-in with a user, or the end of the *)
(* server, frees a place in the table (destroySession in action).          *)
THEOREM FreedOnlyBySignIns == Spec => FreedOnlyBySignIn
<1>1. Init => HasUser
    BY DEF Init, HasUser
<1>2. BaseInv /\ CallInv /\ SignInBacked /\ HasUser /\ [Next]_vars
          => [Linearizable =>
                 \/ Restart
                 \/ \A s \in Sessions :
                        pendingSessions[s] # Absent /\ pendingSessions'[s] = Absent =>
                            \E w \in Workers :
                                /\ handler[w] = "action.destroy"
                                /\ sid[w] = s
                                /\ <<s, sub[w]>> \in offered
                                /\ w \in inserted \/ Stored(w) # NoUser]_vars
    BY FreedStep
<1>. QED BY <1>1, <1>2, BaseAlways, CallAlways, SignInAlwaysBacked, NextHasUser, PTL
         DEF Spec, FreedOnlyBySignIn
-------------------------------------------------------------------------------
(* How much of a request is left.  The values of the measure:              *)
LEMMA StepsLeftValues ==
    /\ StepsLeft("idle") = 0
    /\ \A h \in Outcomes : StepsLeft(h) = 1
    /\ \A h \in {"authenticate.create", "post.attach", "action.commit"} : StepsLeft(h) = 2
    /\ \A h \in {"post.map", "action.destroy"} : StepsLeft(h) = 3
    /\ \A h \in {"post.verify", "action.set"} : StepsLeft(h) = 4
    /\ \A h \in {"post.get", "action.add"} : StepsLeft(h) = 5
    /\ StepsLeft("action.upsert") = 6
    /\ StepsLeft("action.lookup") = 7
    /\ StepsLeft("action.get") = 8
BY DEF StepsLeft, Outcomes

LEMMA LinesLeftValues ==
    /\ LinesLeft("create.size") = 3
    /\ \A p \in {"create.contains", "get.contains", "attach.contains"} : LinesLeft(p) = 2
    /\ \A p \in {"create.put", "get.get", "attach.put", "destroy.remove"} : LinesLeft(p) = 1
    /\ \A p \in {"idle"} \cup Service!Ended : LinesLeft(p) = 0
BY DEF LinesLeft, Service!Ended

(* Both count.                                                             *)
LEMMA LeftTypes ==
    /\ \A h \in HandlerSteps : StepsLeft(h) \in Nat
    /\ \A p \in Service!Places : LinesLeft(p) \in 0..3
BY StepsLeftValues, LinesLeftValues
   DEF HandlerSteps, AuthenticateSteps, PostSteps, SignInSteps, Service!Places,
       Service!CreateLines, Service!GetLines, Service!AttachLines

(* A step of the handler outweighs the lines of the call that it begins.   *)
LEMMA StepLowers ==
    ASSUME BaseInv, BaseInv', NEW w \in Workers,
           StepsLeft(handler'[w]) < StepsLeft(handler[w])
    PROVE  Left(w)' < Left(w)
<1>1. /\ handler[w] \in HandlerSteps /\ handler'[w] \in HandlerSteps
      /\ at[w] \in Service!Places /\ at'[w] \in Service!Places
    BY DEF BaseInv, LocalTypeOK, Service!TypeOK
<1>. DEFINE h == StepsLeft(handler[w])   hNext == StepsLeft(handler'[w])
            l == LinesLeft(at[w])        lNext == LinesLeft(at'[w])
<1>2. h \in Nat /\ hNext \in Nat /\ l \in 0..3 /\ lNext \in 0..3 /\ hNext < h
    BY <1>1, LeftTypes
<1>. HIDE DEF h, hNext, l, lNext
<1>3. 4 * hNext + lNext < 4 * h + l
    BY <1>2
<1>. QED BY <1>3 DEF Left, h, hNext, l, lNext

(* A line of the service is one line less.                                 *)
LEMMA LineLowers ==
    ASSUME BaseInv, NEW w \in Workers, InService(w)
    PROVE  Left(w)' < Left(w)
<1>1. /\ handler' = handler /\ StepsLeft(handler[w]) \in Nat
      /\ at[w] \in Service!Places
    BY LeftTypes DEF InService, localVars, BaseInv, LocalTypeOK, Service!TypeOK
<1>2. PICK p : /\ at' = [at EXCEPT ![w] = p]
               /\ \/ at[w] = "create.size" /\ p \in {"create.contains", "refused"}
                  \/ at[w] = "create.contains" /\ p \in {"create.put", "returned"}
                  \/ at[w] \in {"get.contains", "attach.contains"}
                         /\ p \in {"get.get", "attach.put", "not_exists"}
                  \/ at[w] \in {"create.put", "get.get", "attach.put", "destroy.remove"}
                         /\ p \in {"returned", "not_exists"}
    BY DEF InService, Service!ServiceStep, Service!CreateSize, Service!CreateContains,
           Service!CreatePut, Service!GetContains, Service!GetGet, Service!AttachContains,
           Service!AttachPut, Service!DestroyRemove, Service!Goto
<1>3. at'[w] = p
    BY <1>2 DEF BaseInv, Service!TypeOK
<1>4. LinesLeft(at[w]) \in 0..3 /\ LinesLeft(p) \in 0..3 /\ LinesLeft(p) < LinesLeft(at[w])
    BY <1>2, LinesLeftValues DEF Service!Ended
<1>5. 4 * StepsLeft(handler[w]) + LinesLeft(p) < 4 * StepsLeft(handler[w]) + LinesLeft(at[w])
    BY <1>1, <1>4
<1>. QED BY <1>1, <1>3, <1>5 DEF Left

(* Each step of a handler leads to one with less left.                     *)
LEMMA HandlerLowers ==
    ASSUME BaseInv, NEW w \in Workers, Proceed(w), ~InService(w)
    PROVE  \E h : Goto(w, h) /\ StepsLeft(h) < StepsLeft(handler[w])
<1>. USE StepsLeftValues DEF Outcomes
<1>1. CASE \/ AuthenticateChallenge(w)
           \/ PostGot(w) \/ PostNoSession(w) \/ PostMap(w) \/ PostMapRaises(w)
           \/ PostAttached(w)
    BY <1>1 DEF AuthenticateChallenge, PostGot, PostNoSession, PostMap, PostMapRaises,
                PostAttached
<1>2. CASE PostVerify(w)
  <2>1. handler[w] = "post.verify" /\ \E h \in {"post.map", "raised", "failed"} : Goto(w, h)
    BY <1>2 DEF PostVerify
  <2>. QED BY <2>1
<1>3. CASE \/ ActionNoSession(w) \/ ActionNotValidated(w) \/ ActionGot(w)
           \/ ActionLookup(w) \/ ActionConflict(w) \/ ActionUserWithoutDid(w)
    BY <1>3 DEF ActionNoSession, ActionNotValidated, ActionGot, ActionLookup,
                ActionConflict, ActionUserWithoutDid
<1>4. CASE \/ UpsertLookup(w) \/ UpsertAdd(w) \/ UpsertSet(w)
           \/ ActionDestroyed(w) \/ Commit(w) \/ CommitFails(w)
    BY <1>4 DEF UpsertLookup, UpsertAdd, UpsertSet, ActionDestroyed, Commit, CommitFails
<1>5. CASE Respond(w)
    BY <1>5 DEF Respond
<1>. QED BY <1>1, <1>2, <1>3, <1>4, <1>5 DEF Proceed

(* A thread changes its own place in the service only.                     *)
LEMMA OwnPlace ==
    ASSUME BaseInv, NEW w \in Workers, Start(w) \/ Proceed(w),
           NEW v \in Workers \ {w}
    PROVE  UNCHANGED <<handler[v], at[v]>>
<1>. USE DEF BaseInv, LocalTypeOK, Service!TypeOK, Goto, Service!Goto
<1>1. CASE Start(w)
    BY <1>1 DEF Start, Authenticate, Action, Post, PostUnreadable, Begin, serviceVars,
                Service!CallCreate, Service!CallGet, Service!Enter
<1>2. CASE InService(w)
    BY <1>2 DEF InService, localVars, Service!ServiceStep, Service!CreateSize,
                Service!CreateContains, Service!CreatePut, Service!GetContains,
                Service!GetGet, Service!AttachContains, Service!AttachPut,
                Service!DestroyRemove
<1>3. ASSUME Proceed(w), ~InService(w)
      PROVE  handler'[v] = handler[v]
  <2>1. \E h : Goto(w, h)
    BY <1>3, HandlerLowers
  <2>. QED BY <2>1
<1>4. ASSUME Proceed(w), ~InService(w)
      PROVE  at'[v] = at[v]
    BY <1>4 DEF Proceed, AuthenticateChallenge, PostGot, PostNoSession, PostVerify,
                PostMap, PostMapRaises, PostAttached, ActionNoSession, ActionNotValidated,
                ActionGot, ActionLookup, ActionConflict, ActionUserWithoutDid,
                UpsertLookup, UpsertAdd, UpsertSet, ActionDestroyed, Commit, CommitFails,
                Respond, Took, Service!Return, Service!CallAttach, Service!CallDestroy,
                Service!Enter, serviceVars
<1>. QED BY <1>1, <1>2, <1>3, <1>4

(* A step of the plugin brings a request nearer to its end or leaves it    *)
(* where it is.                                                            *)
LEMMA AdvanceStep ==
    ASSUME BaseInv, [Next]_vars, ~Restart, NEW v \in Workers, handler[v] # "idle"
    PROVE  Left(v)' < Left(v) \/ UNCHANGED <<handler[v], at[v]>>
<1>1. ASSUME NEW w \in Workers, Start(w)
      PROVE  UNCHANGED <<handler[v], at[v]>>
  <2>1. handler[w] = "idle"
    BY <1>1 DEF Start, Authenticate, Action, Post, PostUnreadable, Begin
  <2>. QED BY <1>1, <2>1, OwnPlace
<1>2. ASSUME NEW w \in Workers, Proceed(w), v # w
      PROVE  UNCHANGED <<handler[v], at[v]>>
    BY <1>2, OwnPlace
<1>3. CASE InService(v)
    BY <1>3, LineLowers
<1>4. ASSUME Proceed(v), ~InService(v)
      PROVE  Left(v)' < Left(v)
  <2>1. PICK h : Goto(v, h) /\ StepsLeft(h) < StepsLeft(handler[v])
    BY <1>4, HandlerLowers
  <2>2. handler'[v] = h
    BY <2>1 DEF Goto, BaseInv, LocalTypeOK
  <2>. QED BY <2>1, <2>2, NextBase, StepLowers
<1>5. CASE UNCHANGED vars
    BY <1>5 DEF vars, localVars, serviceVars
<1>. QED BY <1>1, <1>2, <1>3, <1>4, <1>5 DEF Next

(* No handler retries or loops, and no request sets another one back: each *)
(* is over after a bounded number of its own steps (all three handlers).   *)
THEOREM RequestsAlwaysAdvance == Spec => RequestsAdvance
<1>1. BaseInv /\ [Next]_vars
          => [Restart \/ \A w \in Workers : handler[w] # "idle" =>
                  Left(w)' < Left(w) \/ UNCHANGED <<handler[w], at[w]>>]_vars
    BY AdvanceStep
<1>. QED BY <1>1, BaseAlways, PTL DEF Spec, RequestsAdvance
-------------------------------------------------------------------------------
(* Answers without an exception.  A sign-in has no posted request, so that *)
(* what raises in it is not about a post.                                  *)
PostsApart ==
    \A w \in Workers : handler[w] \in SignInSteps => req[w] = NoRequest

(* A step of one thread that raises only if the request is not well-formed.*)
LEMMA AnswerKept ==
    ASSUME PostsApart, LocalPostAnswered, UNCHANGED profile, NEW w \in Workers,
           \A v \in Workers \ {w} : handler'[v] = handler[v] /\ req'[v] = req[v],
           handler'[w] \in SignInSteps => req'[w] = NoRequest,
           IsSkipVerification(profile) /\ handler'[w] = "raised"
               => req'[w] = NoRequest \/ ~WellFormed(req'[w])
    PROVE  PostsApart' /\ LocalPostAnswered'
BY DEF PostsApart, LocalPostAnswered, WalletPostAnswered

(* One case per way to go on; the catch clause of the post covers the      *)
(* look-up and the attachment.                                             *)
LEMMA NextAnswered ==
    BaseInv /\ PostsApart /\ LocalPostAnswered /\ [Next]_vars
        => PostsApart' /\ LocalPostAnswered'
<1>. SUFFICES ASSUME BaseInv, PostsApart, LocalPostAnswered, [Next]_vars
              PROVE  PostsApart' /\ LocalPostAnswered'
    OBVIOUS
<1>0. UNCHANGED profile
    BY ProfileFixed
<1>. USE DEF Goto, BaseInv, LocalTypeOK
<1>1. ASSUME NEW w \in Workers, Start(w)
      PROVE  PostsApart' /\ LocalPostAnswered'
  <2>1. /\ \A v \in Workers \ {w} : handler'[v] = handler[v] /\ req'[v] = req[v]
        /\ handler'[w] \in SignInSteps => req'[w] = NoRequest
        /\ handler'[w] = "raised" => req'[w].lacks = "proof"
    BY <1>1 DEF Start, Authenticate, Action, Post, PostUnreadable, Begin, SignInSteps
  <2>. QED BY <1>0, <2>1, AnswerKept DEF WellFormed
<1>2. ASSUME NEW w \in Workers, InService(w)
      PROVE  PostsApart' /\ LocalPostAnswered'
    BY <1>0, <1>2 DEF InService, localVars, PostsApart, LocalPostAnswered, WalletPostAnswered
<1>3. ASSUME NEW w \in Workers,
             \/ AuthenticateChallenge(w) \/ PostNoSession(w) \/ PostMap(w)
             \/ PostAttached(w) \/ ActionNoSession(w) \/ ActionNotValidated(w)
             \/ ActionConflict(w) \/ Commit(w) \/ Respond(w)
      PROVE  PostsApart' /\ LocalPostAnswered'
  <2>1. /\ \A v \in Workers \ {w} : handler'[v] = handler[v] /\ req'[v] = req[v]
        /\ handler'[w] \notin SignInSteps /\ handler'[w] # "raised"
    BY <1>3 DEF AuthenticateChallenge, PostNoSession, PostMap, PostAttached,
                ActionNoSession, ActionNotValidated, ActionConflict, Commit, Respond,
                SignInSteps
  <2>. QED BY <1>0, <2>1, AnswerKept
<1>4. ASSUME NEW w \in Workers, PostGot(w) \/ PostMapRaises(w)
      PROVE  PostsApart' /\ LocalPostAnswered'
  <2>1. /\ \A v \in Workers \ {w} : handler'[v] = handler[v]
        /\ UNCHANGED req /\ handler'[w] \notin SignInSteps
        /\ handler'[w] = "raised" => req[w].lacks = "meta" \/ ~Mappable(req[w])
    BY <1>4 DEF PostGot, PostMapRaises, SignInSteps
  <2>. QED BY <1>0, <2>1, AnswerKept DEF WellFormed
<1>5. ASSUME NEW w \in Workers, PostVerify(w)
      PROVE  PostsApart' /\ LocalPostAnswered'
  <2>1. /\ \E h \in {"post.map", "raised", "failed"} : Goto(w, h)
        /\ IsSkipVerification(profile) => Goto(w, "post.map")
        /\ UNCHANGED req
    BY <1>5 DEF PostVerify
  <2>. QED BY <1>0, <2>1, AnswerKept DEF SignInSteps
<1>6. ASSUME NEW w \in Workers,
             \/ ActionGot(w) \/ ActionLookup(w) \/ ActionUserWithoutDid(w)
             \/ UpsertLookup(w) \/ UpsertAdd(w) \/ UpsertSet(w)
             \/ ActionDestroyed(w) \/ CommitFails(w)
      PROVE  PostsApart' /\ LocalPostAnswered'
  <2>1. /\ \A v \in Workers \ {w} : handler'[v] = handler[v]
        /\ UNCHANGED req /\ handler[w] \in SignInSteps
    BY <1>6 DEF ActionGot, ActionLookup, ActionUserWithoutDid, UpsertLookup, UpsertAdd,
                UpsertSet, ActionDestroyed, CommitFails, SignInSteps
  <2>. QED BY <1>0, <2>1, AnswerKept DEF PostsApart
<1>7. CASE Restart
    BY <1>7 DEF Restart, PostsApart, LocalPostAnswered, WalletPostAnswered, SignInSteps
<1>8. CASE UNCHANGED vars
    BY <1>8 DEF vars, localVars, PostsApart, LocalPostAnswered, WalletPostAnswered
<1>. QED BY <1>1, <1>2, <1>3, <1>4, <1>5, <1>6, <1>7, <1>8 DEF Next, Proceed

(* Without verification the endpoint answers every well-formed post, for   *)
(* any claims and whatever happens to its login meanwhile                  *)
(* (authenticateWithVerifiablePresentation).                               *)
THEOREM LocalAlwaysAnswered == Spec => []LocalPostAnswered
<1>1. Init => PostsApart /\ LocalPostAnswered
    BY DEF Init, PostsApart, LocalPostAnswered, WalletPostAnswered, SignInSteps
<1>. QED BY <1>1, BaseAlways, NextAnswered, PTL DEF Spec
-------------------------------------------------------------------------------
(* The limit of the table is in force in the plugin, too: its counted      *)
(* threads are those of the service.                                       *)
LEMMA SameCapacityBound == SP!CapacityBound <=> Service!CapacityBound
BY DEF SP!CapacityBound, Service!CapacityBound, SP!Linked, Service!Linked,
       SP!Cardinality, Service!Cardinality

(* The handlers of all three kinds together overshoot the limit by at most *)
(* one login per thread (createNewSessionForId, called by authenticate).   *)
THEOREM LoginsBounded == Spec => []Service!CapacityBound
<1>1. Init => SP!CapacityInv
    BY SP!InitCapacity, ServiceAssumption, SameAssumptions, SameInit DEF Init
<1>2. BaseInv /\ SP!CapacityInv /\ [Next]_vars => SP!CapacityInv'
    BY SP!NextCapacity, ServiceAssumption, SameAssumptions, SameTypeOK, SameNext,
       ServiceSteps DEF BaseInv
<1>3. BaseInv /\ SP!CapacityInv => Service!CapacityBound
    BY SP!CapacityInvBound, ServiceAssumption, SameAssumptions, SameTypeOK,
       SameCapacityBound DEF BaseInv
<1>. QED BY <1>1, <1>2, <1>3, BaseAlways, PTL DEF Spec

(* The handlers call the service as it may be called, one method at a time *)
(* per thread and with arguments of its types: the plugin implements the   *)
(* specification of the service that module SessionManagementService gives *)
(* to callers of any kind.                                                 *)
THEOREM ServiceImplemented == Spec => Service!Spec
<1>1. Init => Service!Init
    BY DEF Init
<1>2. BaseInv /\ [Next]_vars => [Service!Next]_Service!vars
    BY ServiceSteps DEF BaseInv, Service!vars, serviceVars
<1>. QED BY <1>1, <1>2, BaseAlways, PTL DEF Spec, Service!Spec
===============================================================================
