----------------------------- MODULE LoginContract -----------------------------
(***************************************************************************)
(* What a login with a presentation promises, without threads, tables,     *)
(* look-ups and transactions: a login that Keycloak has started receives   *)
(* the data of presentations, and it signs a user in, or creates one, with *)
(* data it has received.  An account that was there at the beginning stays *)
(* with its DID; so do the others if Exclusive is TRUE.                    *)
(* DidLogin implements it, and the exclusive one when the sign-ins do not  *)
(* overlap.                                                                *)
(***************************************************************************)
CONSTANTS Sessions, Subjects, NoUser,
          Imported,  \* the accounts at the beginning
          Exclusive  \* TRUE: a username belongs to one DID

VARIABLES started,    \* logins that Keycloak has begun
          delivered,  \* <<login, subject>>: the data a login has received
          accounts    \* per username: the DID it belongs to, or NoUser

Init ==
    /\ started = {}
    /\ delivered = {}
    /\ accounts = Imported

Start(s) ==
    /\ started' = started \cup {s}
    /\ UNCHANGED <<delivered, accounts>>

Deliver(s, x) ==
    /\ s \in started
    /\ delivered' = delivered \cup {<<s, x>>}
    /\ UNCHANGED <<started, accounts>>

SignIn(s, x) ==
    /\ s \in started
    /\ <<s, x>> \in delivered
    /\ Imported[x.username] \in {NoUser, x.did}
    /\ Exclusive => accounts[x.username] \in {NoUser, x.did}
    /\ accounts' = [accounts EXCEPT ![x.username] = x.did]
    /\ UNCHANGED <<started, delivered>>

(* The server stops; logins may be lost, accounts are not.                 *)
Forget ==
    /\ started' \subseteq started
    /\ UNCHANGED <<delivered, accounts>>

Next ==
    \/ Forget
    \/ \E s \in Sessions :
           Start(s) \/ \E x \in Subjects : Deliver(s, x) \/ SignIn(s, x)

Spec == Init /\ [][Next]_<<started, delivered, accounts>>
===============================================================================
