--------------------------- MODULE PendingSessions ---------------------------
(***************************************************************************)
(* What SessionManagementService promises, with every call as one step.    *)
(*                                                                         *)
(* The service keeps the logins that wait for data.  A login is opened     *)
(* empty, a verified subject is appended to it, and it is closed when the  *)
(* subject has been used (class comment and log lines of                   *)
(* SessionManagementService.java).  The promises are in the guards:        *)
(*   - never more than Capacity logins are open at once;                   *)
(*   - opening a login does not disturb one that is already open;          *)
(*   - only what a caller has offered is appended, and only to a login     *)
(*     that is open.  Null may be offered, too: it takes the subject away. *)
(* SessionManagementService is shown to implement this module when its     *)
(* calls do not overlap.                                                   *)
(***************************************************************************)
EXTENDS Naturals, FiniteSets

CONSTANTS Sessions,   \* ids of parent authentication sessions (UUIDs)
          Subjects,   \* verified subjects
          NoSubject,  \* an open login without a subject: the map's null value
          Absent,     \* no login is open under this id
          Capacity    \* how many logins may be open at once

VARIABLES sessions,
          offered  \* every <<id, argument>> that a caller asked to append

OpenLogins == {s \in Sessions : sessions[s] # Absent}

Init ==
    /\ sessions = [s \in Sessions |-> Absent]
    /\ offered = {}

Offer(s, x) ==
    /\ offered' = offered \cup {<<s, x>>}
    /\ UNCHANGED sessions

Open(s) ==
    /\ sessions[s] = Absent
    /\ Cardinality(OpenLogins) < Capacity
    /\ sessions' = [sessions EXCEPT ![s] = NoSubject]
    /\ UNCHANGED offered

Attach(s, x) ==
    /\ sessions[s] # Absent
    /\ <<s, x>> \in offered
    /\ sessions' = [sessions EXCEPT ![s] = x]
    /\ UNCHANGED offered

Close(s) ==
    /\ sessions' = [sessions EXCEPT ![s] = Absent]
    /\ UNCHANGED offered

\* The table lives in the server's memory: a restart empties it.
Forget ==
    /\ sessions' = [s \in Sessions |-> Absent]
    /\ UNCHANGED offered

Next ==
    \/ \E s \in Sessions : Open(s) \/ Close(s)
    \/ \E s \in Sessions, x \in Subjects \cup {NoSubject} : Offer(s, x) \/ Attach(s, x)
    \/ Forget

Spec == Init /\ [][Next]_<<sessions, offered>>
==============================================================================
