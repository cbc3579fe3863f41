# Verification of the IOTA Identity Provider

This directory holds TLA+ models of the Keycloak plugin in this repository, the
TLC configurations that check them, and TLAPS proofs about them. Module,
variable and action names follow the Java names. `PROJECT.json` maps every
definition to the lines it models.

In the text, `SessionManagementService.java:31` and the like are files below
`src/main/java/dev/cambriota/identityprovider/`.

## 1. The system

A user logs in to a web shop through Keycloak. Keycloak shows a page with a QR
code (a *challenge*: the id of the parent authentication session). A wallet
scans it and posts a signed presentation with that challenge to the plugin's
REST endpoint. The endpoint has the presentation verified by the *sidecar* and
attaches the claims in it, a *subject*, to the pending login. The user then
presses *Continue* on the page; the plugin reads the subject, creates or updates
the Keycloak user and signs the user in.

| component | state | operations | model |
|---|---|---|---|
| pending sessions (`SessionManagementService`) | a `HashMap` from id to subject or null, at most `MAX_SESSIONS` + 1 entries; one object for all threads, no lock | create, get, attach, destroy, exists | `PendingMap`, `SessionManagementService`, `PendingSessions` |
| authenticator (`DidAuthenticator`) | none of its own; the user store through Keycloak's transaction | `authenticate`, `action`, `upsertUser` | `DidLogin`, `LoginContract` |
| REST endpoint (`DidRealmResourceProvider`, `AuthenticationRequest`) | none | POST, OPTIONS | `DidLogin` (POST) |
| verification (`PresentationVerificationService`) | a connection pool, in Keycloak's HTTP client | `verifyPresentation` | `PresentationVerification`, `VerificationCall`, `VerificationContract` |
| sidecar process (`sidecar/src`, `docker-compose.yml`) | up or down; the checks in flight | start, `POST /verify`, `GET /health` | `Sidecar`, `VerificationCall` |
| claims mapper (`CredentialSubjectMapper`, `Subject`) | none | `mapClaims` | `CredentialSubjectMapper` |
| profile loader (`ApplicationProfileLoader`) | none (system property, two files) | `isSkipVerification`, endpoint, URL | `ApplicationProfileLoader` |
| user store of Keycloak, imported realm (`realm-iota.json`) | users with the attribute `did` | look-up, insert, update, commit | external, in `DidLogin` |
| QR code, factories, theme, scripts, build | none | | not modelled: no state, no decision |

How they interact: the two handlers of the authenticator and the handler of the
endpoint run on threads of the server and share two things, the table of pending
logins and the user store. They share the table by direct calls, with no lock
anywhere, and the user store through transactions that Keycloak commits after
the handler. All tabs of a browser share one parent session, hence one entry. The
endpoint calls the sidecar over HTTP and waits for the answer; the sidecar is one
Node.js process, which serves many requests by turns.

### What makes it hard

1. Every method of `SessionManagementService` that decides something does so in
   two calls on the map (size/containsKey, then put or get), with other threads
   in between.
2. The map is a `java.util.HashMap`: overlapping calls on it lose entries, bring
   removed ones back, miss entries while the table grows, and corrupt `size`,
   which the limit is computed from.
3. `action()` looks the user up, compares the DID, and then `upsertUser` looks
   the user up again; another sign-in may commit in between.
4. The login is destroyed before the transaction with its user is committed, and
   exceptions can leave the handlers at several dereferences.
5. Only a sign-in frees a place in the table. There is no expiry.
6. The table is lost with the process; pages and wallets survive it.
7. The sidecar awaits the library in the middle of a request, has other checks in
   flight meanwhile, may be killed at any time and is not started again; its clients
   share pooled connections and give up after a timeout.

`PROJECT.json` lists these as hazards, each at its line, with the properties that
are about it.

### What correctness means, per component

- Pending sessions: a subject is found only under the id it was attached to; the
  limit holds up to a known overshoot; opening a login does not disturb an open
  one; a login that does not exist cannot be attached to.
- Authenticator: the data a user is signed in with was posted for this session; a
  stored username and DID were presented together; a username keeps its DID, at the latest once the
  sign-ins under way agree on it; every request ends.
- Endpoint: only logins that Keycloak started are pending; a well-formed
  presentation gets an answer.
- Verification and sidecar: a verdict of true is about this presentation; every
  call comes back; no connection leaks; no request ends the process.

## 2. The modules

| module | what it is |
|---|---|
| `PendingSessions` | the abstract promise: open, attach, close as single steps; the promises are guards |
| `PendingMap` | external: what calls on one `HashMap` can do when they overlap |
| `SessionManagementService` | the service: one action per call on the map, any thread calling any method |
| `SessionManagementService_proofs` | its theorems |
| `PresentationVerification` | the verdict as a function of the sidecar's answer |
| `Sidecar` | the Node.js process: start, kill, the body parser, both routes, checks in flight |
| `VerificationCall` | threads that call the sidecar through the connection pool (extends `Sidecar`) |
| `VerificationContract` | the abstract promise of `verifyPresentation`: one sound verdict per call |
| `VerificationCall_proofs` | its theorems |
| `ApplicationProfileLoader` | which profiles can be loaded, and which one skips the verification |
| `CredentialSubjectMapper` | which username the claims stand for |
| `LoginContract` | the abstract promise of a login: started, delivered, signed in; imported accounts keep their DID, and all of them if `Exclusive` |
| `DidLogin` | the three request handlers, composed with the service (`INSTANCE`) and the user store |
| `DidLogin_proofs` | its theorems, on top of those of the service |
| `MCSessionManagementService`, `MCDidLogin`, `MCVerificationCall` | instances for TLC: symmetry, requests, imported users |

**State.** `pendingSessions` is a total function with the value `Absent` for a key
that is not in the map; `NoSubject` is Java's null. `at[w]` is the next line that
thread `w` executes in a service method, `key[w]` and `val[w]` its arguments or
result. `handler[w]` is the next step of the thread's request handler or the
outcome of the request; `sid`, `req`, `sub` are the handler's locals. `users` is
what the database has committed, `inserted` the threads whose open transaction
holds an inserted user, `presented` the sessions whose page has been shown.
`offered` is a history variable: every pair passed to `attachSubjectToSession`. A
user is recorded by its DID only: `upsertUser` sets e-mail and names in the same step
(`UpsertSet`), so a mixture of those cannot be expressed.

**Null as a subject.** `attachSubjectToSession(id, null)` is a call that only a test
makes (`DidRealmResourceProviderTest.java:42`). The service is modelled with it; the
handlers of `DidLogin` attach what `mapClaims` returns, which is never null.

**The map.** `window[w]` is what a thread saw when its `put` or `remove` began.
When the call takes effect it may write back what it saw for keys that others
changed meanwhile (`Relink`), its own entry may be lost, and `size` may be
computed from the old value. A look-up may miss an entry while another thread
inserts a new key. With the constant `Linearizable = TRUE` every call is atomic,
as with a synchronized map: this separates the races of the service's code,
which remain, from those of the map. `MaxDrift` bounds how far `size` may drift.
The model leaves out an endless walk through a corrupted bucket and exceptions
from inside the map.

**The user store.** Usernames are unique. A thread sees what other transactions
have committed (the database's read-committed isolation). An insertion waits for
an open transaction that inserted the same name; it raises when that name is
committed or the wait exceeds the lock timeout of the database (the deployment
uses Keycloak's embedded one). `Commit` may fail: the realm does not allow two
users with one e-mail address (`realm-iota.json:37`). E-mail addresses themselves
are not modelled, so any commit may fail. `SerialSignIns = TRUE` models a container
that runs one form submission at a time.

**Requests.** A posted request is abstracted to the member that is missing, the
JSON type of `holder`, the claims, the DID, and whether `meta.requestForDeletion` is
given. That JSON becomes an `AuthenticationRequest` is the framework's work and taken
as done (its `MetaData` is an inner class, which a JSON binder may need help with).
`UUID.fromString` of a malformed challenge raises like a missing proof.

**Claims and profile.** A claim is there, missing, or no JSON string. A missing claim
is null (`getProperty`), one that is no string is a `ClassCastException` that nobody
catches (`Readable`). Without a username it is made of the names that are there, by
the constant function `Joined`, which may make one username of different names;
without any name it is random, hence any username (`UsernamesFor`). The profile is
chosen when the server starts: with one that has no properties file the factory's
static field cannot be initialized, and there is no plugin to serve a request
(`Loaded`).

**The sidecar.** `task[c]` is what the server does for connection `c`, `wire[c]` an answer
that the client has not read. Node runs one callback at a time, so a handler is one
step up to its `await` and one step after it. The script fails when the library's
client cannot be made, without `PORT`, or with one that is no number; binding the port
may fail later. `Kill` is the operating system or the container runtime, at any time;
`Load` starts the process again, as an operator would. `GET /health` answers `UP`
whatever the checks do, since it asks neither the library nor the Tangle (`Health`).
The library's check of the signatures is a set of failing flags that belongs to the
request, or an exception.

**The HTTP client** is Keycloak's, outside the repository: at most `PoolSize`
connections, leased one per call, given back when the body of the answer has been
read to its end, closed by an exception or a timeout (`CallFails`). An answer for a
closed connection is lost (`Reply`). A pooled connection may be to a process that has
ended (`task = "gone"`). In `DidLogin` the whole of this is one step with any answer
(`PostVerify`). The log statement at line 36 is part of `PostVerify`, too: a call of
`VerificationCall` begins after it, so what is said of calls (`CallsEnd`,
`KeepsContract`) is said of those that get past it. One step is justified by `KeepsContract` of `VerificationCall`: whatever goes
on below, its caller sees one verdict on what it asked (`VerificationContract`). That
there is one in the end is `CallsEnd`.

**Restart** empties the table and the threads; users stay; the pages already
shown may still be good (Keycloak's own sessions can live on another node) or not.

**Not reachable and left out.** `getInstance()` is not synchronized, but the static
field of `DidAuthenticator` (line 24), forced by its factory's static field when
Keycloak starts, makes the object before any request runs.

**Mutations.** Definitions whose comment starts with "Mutation:" are plausible
bugs in the definition that follows them. No specification uses them. Each shows,
under the configuration of a run, that the property named with it in
`PROJECT.json` can fail.

## 3. What the runs show

`tlc -config X.cfg M`. Runs that must pass:

| run | instance | properties |
|---|---|---|
| `sms_capacity` | 3 threads, 4 ids, null as the only subject, `MAX_SESSIONS` 0, atomic map | `CapacityBound`: at most one login per thread above `MAX_SESSIONS`. `CapacityInv`: why |
| `sms_races` | 2 threads, 2 ids, 2 subjects and null, racy map | `OfferedInv`: a subject is found only under its id |
| `sms_serial` | 1 thread, 3 ids, limit 2, racy map | `KeepsPromise`: implements `PendingSessions`: opening disturbs no open login, only what was offered is appended |
| `login_races` | 2 threads, 2 sessions, 2 wallets claiming one new username, racy map | `SignInBacked`, `PendingWasStarted`; `SettledKept`: a user whose DID no sign-in under way disputes keeps it for good; `KeepsContract`: implements `LoginContract`, with overlapping sign-ins |
| `login_mixed` | 2 threads, 1 session, the three profiles, every kind of request (no proof, no meta, no claims, holder or claim of the wrong type, no date, no name) and every kind of stored user (none, with a DID, without) | `TypeOK`, `UsersBacked`, `ImportedKept`: imported users keep their DID, `LocalPostAnswered`: without verification a well-formed post is answered, `FreedOnlyBySignIn`, `ProductionAttachesNothing` |
| `login_serial` | as `login_races`, atomic map, room for both, serial form submissions | `DidKept`; `KeepsContract`: implements `LoginContract` with `Exclusive` |
| `login_live` | 2 threads, 1 session, racy map, verification on and off, 2 wallets claiming one new username and one whose holder is an object (the sidecar is asked about it), fairness | `RequestsEnd`; `RequestsAdvance`: each step of a request lowers what is left of it, no other step raises it |
| `sidecar` | 2 threads, 2 sockets, a pool of 1, every kind of request, fairness of the client | `TypeOK`, `VerdictSound`, `StaysUp`, `CallsEnd`; `PoolAccounted`: open connections are pooled or leased by one thread; `KeepsContract`: implements `VerificationContract` |

Runs in which TLC finds a behaviour against what the repository says (the
findings in `PROJECT.json` quote the lines):

| run | property | what the code does |
|---|---|---|
| `sms_erased` | `SubjectNotErased` | create's put(null) overwrites a subject attached after its containsKey |
| `login_wallet` | `WalletPostAnswered` | with verification on, a `holder` that is a string is a `ClassCastException` |
| `login_overwrite` | `DidKept` | overlapping sign-ins: `upsertUser` overwrites a DID that was never compared |
| `login_undated` | `SubjectStorable` | no `requestForDeletion`: accepted, then `NullPointerException` at Continue |

`login_serial` and `login_overwrite` belong together: the comparison of DIDs is
right for sign-ins one after the other, and skipped by overlapping ones. How far the
damage goes is `SettledKept` and `ImportedKept`: only a username that is being created
is at risk, and only from sign-ins that looked it up before it was there.
`login_wallet` and `ProductionAttachesNothing` too: as long as line 36 of
`PresentationVerificationService.java` stands, only `-Dprofile=local` (verification
skipped, `scripts/run-local.sh`) can sign anybody in, which is why the other login
runs use that profile.

**Bounds.** Two threads are enough for every race of the code: each method checks
once and acts once, so a race needs the checking thread and one other. A third
thread matters only for counting, and `sms_capacity` has it; the bound is reached
exactly there (with `MAX_SESSIONS` 0 and three threads, three logins). `MAX_SESSIONS`
0 or 1 stands for 99: the table is full after one or two logins, so refusals and
overshoots happen early. Two ids, two subjects, two DIDs suffice to confuse one
with another. In `sms_capacity` null is the only value that is attached: the limit is
about entries, and an entry with null is linked, counted and put back like any other. `MaxDrift` 1 lets `size` be wrong in both directions in `sms_races`, the
run over every interleaving of the service; `login_races` has the same lost and undone
entries but only steps after which `size` is right again (`MaxDrift` 0), which keeps two
wallets in the instance. In `login_mixed` a `holder` of the wrong type stands for a
missing one, too: neither raises in `verifyPresentation`, both do in the `getString` of the
endpoint. `login_live` has one session: that
is enough for a look-up to miss a pending login, while the other thread inserts it once
more. In `sidecar` a pool
of one connection makes the threads wait for each other and use the connection again;
the second socket is there because the check of a call that was given up goes on
while the next call is served, so two checks are in flight. The proofs have none of
these bounds. Symmetry is used in safety runs only, over threads and ids, over
subjects, and over DIDs where the requests treat them alike.

**Fairness.** `RequestsEnd` assumes weak fairness of each thread that is in a
request (`Proceed`): the container runs a request it has accepted, calls on the map
return, and the HTTP client used for the sidecar times out. It is not assumed that
anybody sends a request, presses Continue or posts a presentation. The wait in
`addUser` ends by the other transaction or by the lock timeout. `CallsEnd` assumes weak
fairness of each thread in `verifyPresentation` (the socket timeout of the client makes
`CallFails` happen when no answer comes) and strong fairness of its lease: the pool
serves waiting threads in their order, so one that waits while connections come
back again and again gets one. Nothing is assumed of the sidecar.

Three more consequences of the same races are steps of the models without a run of
their own: with `MAX_SESSIONS` + 1 logins pending a second overlapping create still
opens one (`CapacityBound` says how many at most); attach puts back a login that was
destroyed after its check (counted by `CapacityInv`); a drifting `size` refuses logins
with room left (`CapacityBound` is therefore about an atomic map). And a login that is
not in the table, because it was refused, ends `action()` in its catch clause with no
outcome for the flow (`ActionNoSession`, outcome `silent`).

Deadlock is checked in every run.

## 4. What is proved

`SessionManagementService_proofs`, for all sets of threads and ids (finite), all
subjects, every limit, from `MapAssumption` and `LimitAssumption`:

- `TypeCorrect`: `Spec => []TypeOK`. `TypeOK` is inductive; it carries that a thread
  in a method has an id. (`login_mixed` checks it, as a part of `DidLogin`'s.)
- `OfferedAlways`: `Spec => []OfferedInv`, for the racy and the atomic map. What a
  thread saw when it began (`window`) may be written back, so "subjects are found only
  under their id" is inductive only together with the same statement about the
  windows (`SeenOffered`). The lemmas `RelinkValues`, `PutValues` and `RemoveValues` say
  that the map never invents a value.
- `CapacityBounded`: `Spec => []CapacityBound`. The bound alone is not inductive: a
  thread past the size check will still add a login, and a thread past the check of
  attach may put one back. `CapacityInv` counts both: |open or about to be put
  back| + |threads creating| <= `MAX_SESSIONS` + |threads|, and, over an atomic map,
  `size` is the number of entries. The crucial step is `CreateSize`: creating and
  attaching threads are disjoint, and each attaching thread puts back one id at most
  (`PutBackCount`, by a surjection).
- `SerialKeepsPromise`: with one thread (`Serial`) `Spec => KeepsPromise`, the refinement
  of `PendingSessions`, over the racy map as well. `SerialInv`: what a method has checked
  still holds when it puts, and nothing has changed since its call on the map began
  (`Undisturbed`), so the call finds what is there and writes nothing stale back
  (`NothingStale`); what attach puts has been offered.

`VerificationCall_proofs`, for any threads, sockets, requests and pool, from
`SidecarAssumption` and `CallAssumption`:

- `TypeCorrect`: `Spec => []TypeOK`, with `CallInv`: a waiting thread has a socket of its
  own, open and not in the pool, and a pooled socket carries no request and no answer.
- `VerdictAlwaysSound`: `Spec => []VerdictSound`. `SoundInv` follows the request from the
  thread over the socket to the answer: what is served or on the wire for an open
  connection is about the request of the thread that leased it.
- `AlwaysStaysUp`: `Spec => StaysUp`.
- `PoolAlwaysAccounted`: `Spec => []PoolAccounted`. `CallInv` has that pooled and leased
  connections are open and distinct; `PoolInv` adds that there are no others and that
  their number stays within the pool. Its corollary `BlockedByAnother` is the safety half
  of `CallsEnd`: a thread that can neither lease a connection nor be refused one waits for
  a thread that waits for an answer, and that one can go on by itself (`CallFails`).
- `AlwaysKeepsContract`: `Spec => KeepsContract`, the refinement of `VerificationContract`.
  Leasing, sending and everything in the sidecar are stutters (`Silent`); `Read`,
  `CallFails` and `LeaseFails` decide (`Decides`), soundly by `SoundInv`.

`DidLogin_proofs`, for any threads, sessions, usernames, requests and profiles, over
the racy and the atomic map, from `ServiceAssumption` (the two above),
`MapperAssumption` and `LoginAssumption`:

- Every step of a handler is a step of the service or leaves it alone (`ServiceSteps`),
  so the service's own inductive invariants hold of the plugin (`ServiceNext`, which
  cites the lemmas of `SessionManagementService_proofs` at their instance).
- `TypeCorrect`, with `Holding`: what a thread has at each place of its handler.
- `SignInAlwaysBacked` needs `CallInv`: the result that a handler takes is that of the
  call it made, for the session of its request. Then `OfferedInv` says where the
  subject comes from.
- `UsersAlwaysBacked`: only `Commit` writes a user (`UsersWritten`), with a backed sign-in.
- `ProductionNeverAttaches`, with `Unmappable`: what passes the log statement has a
  holder that the mapping cannot read.
- `PendingAlwaysStarted`: a pending login was started. Inductive together with every
  place that remembers an id: the windows of the map, a thread between its check and
  its put, a post between its look-up and its attachment (`StartedInv`).
- `SettledAlwaysKept` needs no invariant but the types: a step leaves a sign-in past its
  comparison with its subject, and lets a new one pass only if the store has no user or
  the same DID (`SignInsGoOn`); a settled user is there, so the second case agrees, too.
  `ImportedAlwaysKept` follows, since imported users are settled at the start
  (`ImportedInv`); it is about all users, with a DID or without, and needs no
  `SerialSignIns`.
- `SerialDidKept`, for `SerialSignIns`: `SerialInv` says that one sign-in at most runs, and
  that after the comparison the store still has no user or the compared DID.
- `AlwaysKeepsContract`: `Spec => KeepsContract`, the refinement of `LoginContract`, without
  a hypothesis: the guards of `Deliver` and `SignIn` come from `StartedInv`, `SignInStarted`
  (a sign-in is for a login whose page was shown), `SignInBacked` and `ImportedInv`; the
  guard that `Exclusive` adds from `ExclusiveInv` (`SerialInv` if `SerialSignIns`).
- `RequestsAlwaysAdvance`: `Left(w)` counts what is left of a request, the steps of its
  handler four times, plus the lines of the service (`StepLowers`, `LineLowers`), and
  `HandlerLowers` has one case per action. It is a natural number, so a request that
  keeps taking steps ends; that it does keep taking them is the fairness of `RequestsEnd`.
- `LocalAlwaysAnswered`, with `PostsApart`: a thread that signs in has no posted request,
  so the exceptions of a sign-in are not about a post. The run has an atomic map; the
  theorem covers a login that the map's own races lose as well.
- `FreedOnlyBySignIns`, with `HasUser`: a sign-in past its upsert has a user.
- `LoginsBounded` carries `CapacityBound` over to the plugin, and `ServiceImplemented` says
  why that works for all of the service's theorems: `Spec => Service!Spec`.

Only model-checked: the violations, and the liveness properties `RequestsEnd` and
`CallsEnd`: liveness under fairness is out of reach of the proof system. What of them is
safety is proved (`RequestsAdvance`, `BlockedByAnother`).

## 5. Not modelled

- QR codes, pages and their styles, log output, build files, start scripts, the OPTIONS
  answer, the test configuration: no state, or constants.
- Keycloak's flows, tokens and sessions; the IOTA library's check of signatures; e-mail
  addresses and names of a subject, which are stored as they are and decide nothing.
- The removal of users: `requestRemovalAt` is stored and never read by any code (the
  repository's README has the removal task as a TODO).
- Several server nodes: the repository deploys one, and nothing in it shares the table
  or forwards a request to another node. With several, a wallet's post may reach a
  node without the login.
- What a user may rely on when the login was refused or the commit failed after
  `destroySession`: the models take these paths, the repository promises nothing.
- A bound on `size` over the racy map: it drifts without limit, `MaxDrift` cuts that off.

## 6. Plan

Done: all modules of section 2, their runs and their theorems. What could follow, if the
code changes: a removal task (with the module for it), a table with an expiry (its
timeouts racing posts and sign-ins), several nodes with a shared table.
