------------------------------ MODULE MCDidLogin ------------------------------
(***************************************************************************)
(* Instances of DidLogin for TLC.  u1 is a new user, u2 a user of the      *)
(* imported realm that has a DID, u3 one that has none.                    *)
(***************************************************************************)
EXTENDS DidLogin, TLC

CONSTANTS u1, u2, u3, d1, d2, n1

(* u1 is also the username that the name n1 makes. *)
JoinedName == [names \in (ClaimedName \X ClaimedName) \ {<<Missing, Missing>>} |-> u1]

Named(username) ==
    [username |-> username, firstName |-> Missing, lastName |-> Missing]

Post1(lacks, holder, claims, did, removal) ==
    [lacks |-> lacks, holder |-> holder, claims |-> claims,
     did |-> did, removal |-> removal]

(* Two wallets claim the new username. *)
RivalRequests == {Post1("nothing", "string", Named(u1), d, TRUE) : d \in {d1, d2}}

(* One wallet for each kind of stored user, and two without a username. *)
NamedRequests ==
    {Post1("nothing", "string", [Named(Missing) EXCEPT !.lastName = n1], d1, TRUE),
     Post1("nothing", "string", Named(u2), d2, TRUE),
     Post1("nothing", "string", Named(u3), d1, TRUE),
     Post1("nothing", "string", Named(Missing), d1, TRUE)}

(* Requests that some line of the handlers cannot deal with. *)
BrokenRequests ==
    {Post1(l, "string", Named(u1), d1, TRUE) : l \in {"proof", "meta", "credential"}}
        \cup {Post1("nothing", "object", Named(u1), d1, TRUE),
              Post1("nothing", "string", Named(u1), d1, FALSE),
              Post1("nothing", "string", [Named(u1) EXCEPT !.firstName = IllTyped], d1, TRUE)}

MixedRequests == NamedRequests \cup BrokenRequests

(* One that the sidecar is asked about, too: its holder is an object. *)
LiveRequests ==
    RivalRequests \cup {Post1("nothing", "object", Named(u1), d1, TRUE)}

OneRequest == {Post1("nothing", "string", Named(u1), d1, TRUE)}
UndatedRequest == {Post1("nothing", "string", Named(u1), d1, FALSE)}

NewUser == (u1 :> NoUser)
NewAndKept == (u1 :> NoUser) @@ (u2 :> d2)
AllKinds == (u1 :> NoUser) @@ (u2 :> d1) @@ (u3 :> NoDid)

Symmetry == Permutations(Workers) \cup Permutations(Sessions)

(* The DIDs are interchangeable where only RivalRequests are posted. *)
RivalSymmetry == Symmetry \cup Permutations(Dids)
===============================================================================
