--------------------------- MODULE MCVerificationCall ---------------------------
(***************************************************************************)
(* Instances of VerificationCall for TLC: a genuine presentation, one that *)
(* another DID has signed, and every other kind of request.                *)
(***************************************************************************)
EXTENDS VerificationCall

AllRequests ==
    {[kind |-> "presentation", defects |-> d] : d \in {{}, {"holder", "total"}}}
        \cup {[kind |-> k, defects |-> {}] : k \in {"proofless", "unparsable", "health"}}
===============================================================================
