------------------------ MODULE CredentialSubjectMapper ------------------------
(***************************************************************************)
(* CredentialSubjectMapper.java: the username that the claims of a         *)
(* credential stand for.  Usernames and names are compared in lower case,  *)
(* as constructUsername and the user store of Keycloak do.                 *)
(***************************************************************************)
CONSTANTS Usernames,
          Names,     \* first and last names
          Missing,   \* the claim is not there
          IllTyped,  \* the claim is there and is not a JSON string
          Joined     \* the username made of a first and a last name

ClaimedName == Names \cup {Missing}

ASSUME MapperAssumption ==
    /\ Missing \notin Usernames \cup Names
    /\ IllTyped \notin Usernames \cup Names \cup {Missing}
    /\ Joined \in [(ClaimedName \X ClaimedName) \ {<<Missing, Missing>>} -> Usernames]

Claims == [username : Usernames \cup {Missing, IllTyped},
           firstName : ClaimedName \cup {IllTyped},
           lastName : ClaimedName \cup {IllTyped}]

(* getProperty turns the NullPointerException for a missing claim into     *)
(* null; the ClassCastException for one that is no string it lets through. *)
Readable(claims) == \A name \in DOMAIN claims : claims[name] # IllTyped

(* mapClaims, constructUsername: without any name the username is random.  *)
UsernamesFor(claims) ==
    IF claims.username # Missing THEN {claims.username}
    ELSE IF claims.firstName = Missing /\ claims.lastName = Missing THEN Usernames
    ELSE {Joined[<<claims.firstName, claims.lastName>>]}
===============================================================================
