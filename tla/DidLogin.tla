------------------------------- MODULE DidLogin -------------------------------
(***************************************************************************)
(* A login with a verifiable presentation, from the three request handlers *)
(* of the plugin:                                                          *)
(*   authenticate  DidAuthenticator.authenticate: Keycloak shows the QR    *)
(*                 code of a parent authentication session                 *)
(*   post          DidRealmResourceProvider.authenticateWith...: the       *)
(*                 wallet posts its presentation, whose challenge names    *)
(*                 that session                                            *)
(*   action        DidAuthenticator.action: the user presses Continue and  *)
(*                 is signed in with the subject that was attached         *)
(*                                                                         *)
(* Each request runs on a thread w of the server.  Threads share the       *)
(* SessionManagementService (module of that name, instantiated below) and  *)
(* the user store of Keycloak.  handler[w] is the next thing the handler   *)
(* does, or the outcome of the request it has just finished.               *)
(***************************************************************************)
EXTENDS Integers, FiniteSets, PresentationVerification, ApplicationProfileLoader,
        CredentialSubjectMapper

CONSTANTS Workers, Sessions, NoSession, NoSubject, Absent,
          MAX_SESSIONS, Linearizable, MaxDrift,
          Dids,
          NoUser,         \* the user store has no such user
          NoDid,          \* a user without the attribute "did"
          NoRequest,
          Requests,       \* the presentations that wallets post
          ImportedUsers,  \* the users of the realm when the server starts
          Profiles,       \* the profiles the server may be started with
          SerialSignIns   \* TRUE: Keycloak runs one form submission at a time

(* model.Subject: the e-mail address and names play no part in any         *)
(* decision; removal is whether requestRemovalAt is set.                   *)
Subject == [username : Usernames, did : Dids, removal : BOOLEAN]

(* AuthenticationRequest: the part of the JSON that is missing, the type   *)
(* of the member "holder", the claims (all of them missing if the          *)
(* credential has no subject), meta.requestForDeletion given.              *)
Request == [lacks : {"nothing", "proof", "meta", "credential"},
            holder : {"string", "object", "missing"},
            claims : Claims,
            did : Dids,
            removal : BOOLEAN]

(* A stored user is told apart by its DID only: its e-mail address and its *)
(* names are set with it, in one step, and decide nothing afterwards.      *)
UserRecord == Dids \cup {NoDid, NoUser}

ASSUME LoginAssumption ==
    /\ Requests \subseteq Request
    /\ ImportedUsers \in [Usernames -> UserRecord]
    /\ NoRequest \notin Requests
    /\ NoUser \notin Dids /\ NoDid \notin Dids /\ NoUser # NoDid
    /\ Profiles \subseteq KnownProfiles
    /\ SerialSignIns \in BOOLEAN

VARIABLES pendingSessions, size, window, at, key, val, offered,
          handler,    \* per thread: next step of the handler, or outcome
          sid,        \* per thread: the session id the request is about
          req,        \* per thread: the posted request
          sub,        \* per thread: the subject mapped (post) or read (action)
          inserted,   \* threads whose open transaction holds an inserted user
          users,      \* the committed users of the realm
          presented,  \* sessions whose QR code page Keycloak has shown
          profile     \* -Dprofile; it never changes

serviceVars == <<pendingSessions, size, window, at, key, val, offered>>
localVars == <<handler, sid, req, sub>>
vars == <<serviceVars, localVars, inserted, users, presented, profile>>

Service == INSTANCE SessionManagementService WITH Subjects <- Subject

ASSUME ServiceAssumption == Service!MapAssumption /\ Service!LimitAssumption

AuthenticateSteps == {"authenticate.create"}
PostSteps == {"post.get", "post.verify", "post.map", "post.attach"}
SignInSteps == {"action.get", "action.lookup", "action.upsert", "action.add",
                "action.set", "action.destroy", "action.commit"}
Outcomes == {"challenge",                     \* authenticate: the QR code page
             "ok", "failed", "no_session",    \* post: 200, 400, 400
             "success", "unknown_user",       \* action: success, challenges
             "user_conflict",
             "silent",                        \* action: returned, no outcome set
             "raised"}                        \* an exception left the handler
HandlerSteps == {"idle"} \cup AuthenticateSteps \cup PostSteps \cup SignInSteps
                    \cup Outcomes

(* Type invariant. *)
TypeOK ==
    /\ Service!TypeOK
    /\ handler \in [Workers -> HandlerSteps]
    /\ sid \in [Workers -> Sessions \cup {NoSession}]
    /\ req \in [Workers -> Requests \cup {NoRequest}]
    /\ sub \in [Workers -> Subject \cup {NoSubject}]
    /\ inserted \subseteq Workers
    /\ users \in [Usernames -> UserRecord]
    /\ presented \subseteq Sessions
    /\ profile \in Profiles

Init ==
    /\ Service!Init
    /\ handler = [w \in Workers |-> "idle"]
    /\ sid = [w \in Workers |-> NoSession]
    /\ req = [w \in Workers |-> NoRequest]
    /\ sub = [w \in Workers |-> NoSubject]
    /\ inserted = {}
    /\ users = ImportedUsers
    /\ presented = {}
    /\ profile \in Profiles

-------------------------------------------------------------------------------
Goto(w, step) == handler' = [handler EXCEPT ![w] = step]

(* A request that concerns session s starts on an idle thread. *)
Begin(w, step, s, r) ==
    /\ handler[w] = "idle"
    /\ Goto(w, step)
    /\ sid' = [sid EXCEPT ![w] = s]
    /\ req' = [req EXCEPT ![w] = r]
    /\ UNCHANGED <<sub, inserted, users, presented, profile>>

(* The call on the service that the handler made has ended with result. *)
Took(w, result) == at[w] = result /\ Service!Return(w)

(* The response is sent and the thread is free. *)
Respond(w) ==
    /\ handler[w] \in Outcomes
    /\ Goto(w, "idle")
    /\ sid' = [sid EXCEPT ![w] = NoSession]
    /\ req' = [req EXCEPT ![w] = NoRequest]
    /\ sub' = [sub EXCEPT ![w] = NoSubject]
    /\ UNCHANGED <<serviceVars, inserted, users, presented, profile>>

-------------------------------------------------------------------------------
(* DidAuthenticator.authenticate *)
Authenticate(w, s) ==
    /\ Begin(w, "authenticate.create", s, NoRequest)
    /\ Service!CallCreate(w, s)

(* The page is shown whatever createNewSessionForId returned: its result   *)
(* is assigned to a variable that is not used.                             *)
AuthenticateChallenge(w) ==
    /\ handler[w] = "authenticate.create"
    /\ Took(w, "returned") \/ Took(w, "refused")
    /\ presented' = presented \cup {sid[w]}
    /\ Goto(w, "challenge")
    /\ UNCHANGED <<sid, req, sub, inserted, users, profile>>

-------------------------------------------------------------------------------
(* DidRealmResourceProvider.authenticateWithVerifiablePresentation *)

(* A presentation without a proof has no challenge to take an id from. *)
PostUnreadable(w, s, r) ==
    /\ r.lacks = "proof"
    /\ Begin(w, "raised", s, r)
    /\ UNCHANGED serviceVars

(* Mutation: the endpoint opens the login that it does not find. *)
PostOpening(w, s, r) ==
    /\ r.lacks # "proof"
    /\ Begin(w, "post.get", s, r)
    /\ Service!CallCreate(w, s)

(* Mutation: the login is not looked up before the verification. *)
PostUnlooked(w, s, r) ==
    /\ r.lacks # "proof"
    /\ Begin(w, "post.verify", s, r)
    /\ UNCHANGED serviceVars

Post(w, s, r) ==
    /\ r.lacks # "proof"
    /\ Begin(w, "post.get", s, r)
    /\ Service!CallGet(w, s)

(* The subject found is not used; meta is dereferenced without a check. *)
PostGot(w) ==
    /\ handler[w] = "post.get"
    /\ Took(w, "returned")
    /\ Goto(w, IF req[w].lacks = "meta" THEN "raised" ELSE "post.verify")
    /\ UNCHANGED <<sid, req, sub, inserted, users, presented, profile>>

(* Mutation: only the look-up is inside the try block. *)
PostNoSessionUncaught(w) ==
    /\ handler[w] \in {"post.get", "post.attach"}
    /\ Took(w, "not_exists")
    /\ Goto(w, IF handler[w] = "post.get" THEN "no_session" ELSE "raised")
    /\ UNCHANGED <<sid, req, sub, inserted, users, presented, profile>>

(* The catch clause: the look-up or the attachment found no login. *)
PostNoSession(w) ==
    /\ handler[w] \in {"post.get", "post.attach"}
    /\ Took(w, "not_exists")
    /\ Goto(w, "no_session")
    /\ UNCHANGED <<sid, req, sub, inserted, users, presented, profile>>

(* verifyPresentation logs getJsonObject("holder") before its try block:   *)
(* a holder that is a JSON string is a ClassCastException.                 *)
PostVerify(w) ==
    /\ handler[w] = "post.verify"
    /\ \/ IsSkipVerification(profile) /\ Goto(w, "post.map")
       \/ /\ ~IsSkipVerification(profile)
          /\ req[w].holder = "string"
          /\ Goto(w, "raised")
       \/ /\ ~IsSkipVerification(profile)
          /\ req[w].holder # "string"
          /\ \E a \in SidecarAnswers :
                 Goto(w, IF Verified(a) THEN "post.map" ELSE "failed")
    /\ UNCHANGED <<serviceVars, sid, req, sub, inserted, users, presented, profile>>

(* Mutation: no username is made up when the claims hold none. *)
NamelessSubjectsOf(r) ==
    {[username |-> r.claims.username, did |-> r.did, removal |-> r.removal]}

(* CredentialSubjectMapper.mapClaims, setDid, setRequestRemovalAt.         *)
SubjectsOf(r) ==
    {[username |-> u, did |-> r.did, removal |-> r.removal] :
        u \in UsernamesFor(r.claims)}

(* Mutation: "holder" is read as an object here, too. *)
MappableObject(r) ==
    r.lacks # "credential" /\ r.holder = "object" /\ Readable(r.claims)

(* getString("holder") raises for anything but a JSON string. *)
Mappable(r) ==
    r.lacks # "credential" /\ r.holder = "string" /\ Readable(r.claims)

PostMap(w) ==
    /\ handler[w] = "post.map"
    /\ Mappable(req[w])
    /\ \E x \in SubjectsOf(req[w]) :
           /\ sub' = [sub EXCEPT ![w] = x]
           /\ Service!CallAttach(w, sid[w], x)
    /\ Goto(w, "post.attach")
    /\ UNCHANGED <<sid, req, inserted, users, presented, profile>>

PostMapRaises(w) ==
    /\ handler[w] = "post.map"
    /\ ~Mappable(req[w])
    /\ Goto(w, "raised")
    /\ UNCHANGED <<serviceVars, sid, req, sub, inserted, users, presented, profile>>

PostAttached(w) ==
    /\ handler[w] = "post.attach"
    /\ Took(w, "returned")
    /\ Goto(w, "ok")
    /\ UNCHANGED <<sid, req, sub, inserted, users, presented, profile>>

-------------------------------------------------------------------------------
(* Mutation: the subject is taken out of the table when it is read. *)
ActionTaking(w, s) ==
    /\ s \in presented
    /\ SerialSignIns => \A v \in Workers : handler[v] \notin SignInSteps
    /\ Begin(w, "action.get", s, NoRequest)
    /\ Service!CallDestroy(w, s)

(* DidAuthenticator.action.  Keycloak calls it for a session whose page it *)
(* has shown; several tabs of a browser share the parent session.          *)
Action(w, s) ==
    /\ s \in presented
    /\ SerialSignIns => \A v \in Workers : handler[v] \notin SignInSteps
    /\ Begin(w, "action.get", s, NoRequest)
    /\ Service!CallGet(w, s)

(* The catch clause only logs: the handler ends without success() and      *)
(* without a challenge.                                                    *)
ActionNoSession(w) ==
    /\ handler[w] = "action.get"
    /\ Took(w, "not_exists")
    /\ Goto(w, "silent")
    /\ UNCHANGED <<sid, req, sub, inserted, users, presented, profile>>

ActionNotValidated(w) ==
    /\ handler[w] = "action.get"
    /\ val[w] = NoSubject /\ Took(w, "returned")
    /\ Goto(w, "unknown_user")
    /\ UNCHANGED <<sid, req, sub, inserted, users, presented, profile>>

(* Mutation: the subject is kept in a field of the authenticator, which is *)
(* one object for all threads.                                             *)
ActionGotShared(w) ==
    /\ handler[w] = "action.get"
    /\ val[w] # NoSubject /\ Took(w, "returned")
    /\ sub' = [v \in Workers |->
                  IF v = w \/ handler[v] \in SignInSteps THEN val[w] ELSE sub[v]]
    /\ Goto(w, "action.lookup")
    /\ UNCHANGED <<sid, req, inserted, users, presented, profile>>

ActionGot(w) ==
    /\ handler[w] = "action.get"
    /\ val[w] # NoSubject /\ Took(w, "returned")
    /\ sub' = [sub EXCEPT ![w] = val[w]]
    /\ Goto(w, "action.lookup")
    /\ UNCHANGED <<sid, req, inserted, users, presented, profile>>

(* The user store holds at most one user under a name; a thread sees what  *)
(* other transactions have committed.                                      *)
Stored(w) == users[sub[w].username]

(* Mutation: the stored DID is not compared. *)
LookupAnyDid(w) ==
    /\ handler[w] = "action.lookup"
    /\ Goto(w, "action.upsert")
    /\ UNCHANGED <<serviceVars, sid, req, sub, inserted, users, presented, profile>>

ActionLookup(w) ==
    /\ handler[w] = "action.lookup"
    /\ Stored(w) \in {NoUser, sub[w].did}
    /\ Goto(w, "action.upsert")
    /\ UNCHANGED <<serviceVars, sid, req, sub, inserted, users, presented, profile>>

ActionConflict(w) ==
    /\ handler[w] = "action.lookup"
    /\ Stored(w) \in Dids \ {sub[w].did}
    /\ Goto(w, "user_conflict")
    /\ UNCHANGED <<serviceVars, sid, req, sub, inserted, users, presented, profile>>

(* The list of the attribute "did" is dereferenced without a check. *)
ActionUserWithoutDid(w) ==
    /\ handler[w] = "action.lookup"
    /\ Stored(w) = NoDid
    /\ Goto(w, "raised")
    /\ UNCHANGED <<serviceVars, sid, req, sub, inserted, users, presented, profile>>

(* upsertUser looks the user up again. *)
UpsertLookup(w) ==
    /\ handler[w] = "action.upsert"
    /\ Goto(w, IF Stored(w) = NoUser THEN "action.add" ELSE "action.set")
    /\ UNCHANGED <<serviceVars, sid, req, sub, inserted, users, presented, profile>>

(* Mutation: the new user is committed before the setters have run. *)
AddCommitted(w) ==
    /\ handler[w] = "action.add"
    /\ IF Stored(w) = NoUser
       THEN /\ users' = [users EXCEPT ![sub[w].username] = NoDid]
            /\ Goto(w, "action.set")
       ELSE Goto(w, "raised") /\ UNCHANGED users
    /\ UNCHANGED <<serviceVars, sid, req, sub, inserted, presented, profile>>

(* Mutation: the user is looked up again after an insertion that raised. *)
AddRetrying(w) ==
    /\ handler[w] = "action.add"
    /\ IF Stored(w) = NoUser /\ \A v \in inserted : sub[v].username # sub[w].username
       THEN inserted' = inserted \cup {w} /\ Goto(w, "action.set")
       ELSE UNCHANGED inserted /\ Goto(w, "action.upsert")
    /\ UNCHANGED <<serviceVars, sid, req, sub, users, presented, profile>>

(* Mutation: the insertion waits for as long as it takes. *)
AddWaiting(w) ==
    /\ handler[w] = "action.add"
    /\ Stored(w) = NoUser
    /\ \A v \in inserted : sub[v].username # sub[w].username
    /\ inserted' = inserted \cup {w}
    /\ Goto(w, "action.set")
    /\ UNCHANGED <<serviceVars, sid, req, sub, users, presented, profile>>

(* addUser: usernames are unique in the store, so the insertion waits for  *)
(* an open transaction that has inserted the same name.  It raises if the  *)
(* name has been committed meanwhile, or if the wait exceeds the lock      *)
(* timeout of the database.                                                *)
UpsertAdd(w) ==
    /\ handler[w] = "action.add"
    /\ LET rivals == {v \in inserted : sub[v].username = sub[w].username}
       IN \/ /\ Stored(w) = NoUser /\ rivals = {}
             /\ inserted' = inserted \cup {w}
             /\ Goto(w, "action.set")
          \/ /\ Stored(w) # NoUser \/ rivals # {}
             /\ Goto(w, "raised")
             /\ UNCHANGED inserted
    /\ UNCHANGED <<serviceVars, sid, req, sub, users, presented, profile>>

(* The setters: the last one dereferences requestRemovalAt.  An exception  *)
(* rolls the transaction back.                                             *)
UpsertSet(w) ==
    /\ handler[w] = "action.set"
    /\ \/ /\ sub[w].removal
          /\ Service!CallDestroy(w, sid[w])
          /\ Goto(w, "action.destroy")
          /\ UNCHANGED inserted
       \/ /\ ~sub[w].removal
          /\ Goto(w, "raised")
          /\ inserted' = inserted \ {w}
          /\ UNCHANGED serviceVars
    /\ UNCHANGED <<sid, req, sub, users, presented, profile>>

ActionDestroyed(w) ==
    /\ handler[w] = "action.destroy"
    /\ Took(w, "returned")
    /\ Goto(w, "action.commit")
    /\ UNCHANGED <<sid, req, sub, inserted, users, presented, profile>>

(* context.success() has been called; Keycloak commits the transaction of  *)
(* the request after the handler, and that may fail (the realm does not    *)
(* allow two users with one e-mail address).                               *)
Commit(w) ==
    /\ handler[w] = "action.commit"
    /\ users' = [users EXCEPT ![sub[w].username] = sub[w].did]
    /\ inserted' = inserted \ {w}
    /\ Goto(w, "success")
    /\ UNCHANGED <<serviceVars, sid, req, sub, presented, profile>>

CommitFails(w) ==
    /\ handler[w] = "action.commit"
    /\ inserted' = inserted \ {w}
    /\ Goto(w, "raised")
    /\ UNCHANGED <<serviceVars, sid, req, sub, users, presented, profile>>

-------------------------------------------------------------------------------
(* The server stops and starts again.  Users are in the database;          *)
(* Keycloak's own sessions may survive on another node of its cluster.     *)
Restart ==
    /\ Service!Restart
    /\ handler' = [w \in Workers |-> "idle"]
    /\ sid' = [w \in Workers |-> NoSession]
    /\ req' = [w \in Workers |-> NoRequest]
    /\ sub' = [w \in Workers |-> NoSubject]
    /\ inserted' = {}
    /\ presented' \in {presented, {}}
    /\ UNCHANGED <<users, profile>>

(* When Keycloak loads the plugin, a static field of the factory makes the *)
(* authenticator, whose static field reads the profile: if that raises     *)
(* there is no plugin to serve a request.                                  *)
Loaded == Loadable(profile)

Start(w) ==
    /\ Loaded
    /\ \E s \in Sessions :
           \/ Authenticate(w, s) \/ Action(w, s)
           \/ \E r \in Requests : Post(w, s, r) \/ PostUnreadable(w, s, r)

InService(w) ==
    Service!ServiceStep(w) /\ UNCHANGED <<localVars, inserted, users, presented, profile>>

(* What thread w does by itself once a request has started. *)
Proceed(w) ==
    \/ InService(w)
    \/ AuthenticateChallenge(w)
    \/ PostGot(w) \/ PostNoSession(w)
    \/ PostVerify(w) \/ PostMap(w) \/ PostMapRaises(w) \/ PostAttached(w)
    \/ ActionNoSession(w) \/ ActionNotValidated(w) \/ ActionGot(w)
    \/ ActionLookup(w) \/ ActionConflict(w) \/ ActionUserWithoutDid(w)
    \/ UpsertLookup(w) \/ UpsertAdd(w) \/ UpsertSet(w)
    \/ ActionDestroyed(w) \/ Commit(w) \/ CommitFails(w)
    \/ Respond(w)

Next ==
    \/ \E w \in Workers : Start(w) \/ Proceed(w)
    \/ Restart

(* A request that has started is run to its end by the container; its      *)
(* calls return (the HTTP client of Keycloak times out).  Nobody has to    *)
(* send a request.                                                         *)
Fairness == \A w \in Workers : WF_vars(Proceed(w))

Spec == Init /\ [][Next]_vars
FairSpec == Spec /\ Fairness

-------------------------------------------------------------------------------
(***************************************************************************)
(* Properties.                                                             *)
(***************************************************************************)

(* Nobody is signed in with data that was not attached to this very        *)
(* session: between the moment action() has read the subject and its       *)
(* success, the subject is one that a post with this challenge got past    *)
(* the verification, although posts, other tabs and the map's own races    *)
(* go on changing the table (DidAuthenticator.action).                     *)
SignInBacked ==
    \A w \in Workers :
        handler[w] \in (SignInSteps \ {"action.get"}) \cup {"success"}
            => <<sid[w], sub[w]>> \in offered

(* The user store holds what the realm was imported with, or a username    *)
(* and a DID that came together in one accepted presentation: also an      *)
(* insertion that waits or raises, setters that raise and a commit that    *)
(* fails never leave a new user without a DID, or with one that was not    *)
(* presented under this name (upsertUser; the other attributes that it     *)
(* sets are not recorded).                                                 *)
UsersBacked ==
    \A u \in Usernames :
        \/ users[u] = ImportedUsers[u]
        \/ \E s \in Sessions, x \in Subject :
               <<s, x>> \in offered /\ x.username = u /\ x.did = users[u]

(* A login is pending only if Keycloak has started it: a post for a        *)
(* session that no page was shown for opens nothing, not even when it      *)
(* races with a sign-in (attachSubjectToSession, createNewSessionForId).   *)
PendingWasStarted ==
    \A s \in Sessions :
        pendingSessions[s] # Absent =>
            \/ s \in presented
            \/ \E w \in Workers : handler[w] = "authenticate.create" /\ sid[w] = s

(* Over an atomic map a pending login leaves the table only when a sign-in *)
(* that has read its subject and has a user for it, stored or about to be  *)
(* committed, destroys it, or with the whole server: a                     *)
(* challenge, a conflict, an exception in the setters or a second post     *)
(* never costs the user the login (and nothing else ever frees a place:    *)
(* abandoned logins stay).                                                 *)
FreedOnlyBySignIn ==
    [][Linearizable =>
          \/ Restart
          \/ \A s \in Sessions :
                 pendingSessions[s] # Absent /\ pendingSessions'[s] = Absent =>
                     \E w \in Workers :
                         /\ handler[w] = "action.destroy"
                         /\ sid[w] = s
                         /\ <<s, sub[w]>> \in offered
                         /\ w \in inserted \/ Stored(w) # NoUser]_vars

(* A username stays with the DID that it was stored with (the check in     *)
(* action() that ends in USER_CONFLICT).                                   *)
DidKept ==
    [][\A u \in Usernames : users[u] # NoUser => users'[u] = users[u]]_vars

(* A stored user can lose its DID only to a sign-in that has compared the  *)
(* DIDs and not yet committed.  Once each sign-in under way that is past   *)
(* its comparison has the stored DID, the user keeps it for good, however  *)
(* sign-ins overlap afterwards (action and upsertUser).                    *)
Compared == {"action.upsert", "action.add", "action.set", "action.destroy", "action.commit"}

Settled(u) ==
    /\ users[u] # NoUser
    /\ \A w \in Workers :
           handler[w] \in Compared /\ sub[w].username = u => sub[w].did = users[u]

SettledKept ==
    [][\A u \in Usernames : Settled(u) => Settled(u)' /\ users'[u] = users[u]]_vars

(* So the users that were there when the server started are never written  *)
(* with another DID, nor given one, not even by overlapping sign-ins.      *)
ImportedKept ==
    \A u \in Usernames : ImportedUsers[u] # NoUser => users[u] = ImportedUsers[u]

(* With verification on, no subject is ever attached, whatever the sidecar *)
(* answers: the log statement of verifyPresentation and the getString in   *)
(* the handler want "holder" to be of two different JSON types.            *)
ProductionAttachesNothing == ~IsSkipVerification(profile) => offered = {}

(* The handlers, the table, the second look-up and the transaction amount  *)
(* to LoginContract: data is delivered to started logins only, and a user  *)
(* is signed in with data that was delivered to that login, never with a   *)
(* DID that an imported user does not have.  With sign-ins that do not     *)
(* overlap (SerialSignIns) the DID is or becomes the user's own            *)
(* (authenticateWithVerifiablePresentation, action, upsertUser).           *)
Starting == {s \in Sessions : \E w \in Workers :
                 handler[w] = "authenticate.create" /\ sid[w] = s}

Contract == INSTANCE LoginContract
                WITH Subjects <- Subject, Imported <- ImportedUsers,
                     Exclusive <- SerialSignIns,
                     started <- presented \cup Starting,
                     delivered <- offered, accounts <- users

KeepsContract == Contract!Spec

(* Every request that has started is answered, also when its sign-in waits *)
(* in the user store for another one, when the map misses an entry that a  *)
(* handler looks for, or when the sidecar is not reachable.                *)
RequestsEnd == \A w \in Workers : handler[w] # "idle" ~> handler[w] = "idle"

(* What a step of a request leaves to be done, at most: the steps of its   *)
(* handler, and the lines of the service in between.                       *)
StepsLeft(h) ==
    CASE h = "idle" -> 0
      [] h \in Outcomes -> 1
      [] h \in {"authenticate.create", "post.attach", "action.commit"} -> 2
      [] h \in {"post.map", "action.destroy"} -> 3
      [] h \in {"post.verify", "action.set"} -> 4
      [] h \in {"post.get", "action.add"} -> 5
      [] h = "action.upsert" -> 6
      [] h = "action.lookup" -> 7
      [] h = "action.get" -> 8

LinesLeft(place) ==
    CASE place = "create.size" -> 3
      [] place \in {"create.contains", "get.contains", "attach.contains"} -> 2
      [] place \in {"create.put", "get.get", "attach.put", "destroy.remove"} -> 1
      [] OTHER -> 0

Left(w) == 4 * StepsLeft(handler[w]) + LinesLeft(at[w])

(* The part of RequestsEnd that needs no fairness: a request is over after *)
(* a bounded number of its own steps, since nothing in the handlers starts *)
(* over (no retry, no loop), and no step of another request, nor anything  *)
(* in the table or the user store, sets it back.                           *)
RequestsAdvance ==
    [][Restart \/ \A w \in Workers : handler[w] # "idle" =>
           Left(w)' < Left(w) \/ UNCHANGED <<handler[w], at[w]>>]_vars

(* A presentation as a wallet builds it is answered with one of the three  *)
(* responses of the endpoint, not with an exception: it is verified by the *)
(* sidecar and its claims are mapped (docs/diagram.puml:20-21).            *)
WellFormed(r) == r.lacks = "nothing" /\ Mappable(r)

WalletPostAnswered ==
    \A w \in Workers :
        handler[w] = "raised" /\ req[w] # NoRequest => ~WellFormed(req[w])

(* Only with verification on: a server that skips it answers every well-   *)
(* formed post, also one whose login a sign-in or a restart takes away     *)
(* before the subject is attached (the catch clause of                     *)
(* authenticateWithVerifiablePresentation).                                *)
LocalPostAnswered == IsSkipVerification(profile) => WalletPostAnswered

(* A subject whose post was answered with "verification successful" can be *)
(* written to the user store: the example request has no removal date      *)
(* (docs/example-request.http:6-9).                                        *)
SubjectStorable ==
    [][\A w \in Workers : handler[w] = "action.set" => handler'[w] # "raised"]_vars
===============================================================================
