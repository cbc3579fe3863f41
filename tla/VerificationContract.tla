-------------------------- MODULE VerificationContract --------------------------
(***************************************************************************)
(* What verifyPresentation promises to each thread that calls it, without  *)
(* a sidecar, connections and answers: one verdict on the request it asked *)
(* about, which is "verified" only if that request is genuine.             *)
(***************************************************************************)
CONSTANTS Threads, Requests, NoRequest,
          GenuineRequests  \* those in which the library finds nothing wrong

VARIABLES asked,   \* per thread: the request it has asked about
          verdict  \* per thread: the verdict it has not taken yet, or "none"

Init ==
    /\ asked = [w \in Threads |-> NoRequest]
    /\ verdict = [w \in Threads |-> "none"]

Ask(w, r) ==
    /\ asked[w] = NoRequest
    /\ asked' = [asked EXCEPT ![w] = r]
    /\ UNCHANGED verdict

Decide(w, v) ==
    /\ asked[w] # NoRequest /\ verdict[w] = "none"
    /\ v = "verified" => asked[w] \in GenuineRequests
    /\ verdict' = [verdict EXCEPT ![w] = v]
    /\ UNCHANGED asked

Return(w) ==
    /\ verdict[w] # "none"
    /\ asked' = [asked EXCEPT ![w] = NoRequest]
    /\ verdict' = [verdict EXCEPT ![w] = "none"]

Next == \E w \in Threads :
            \/ \E r \in Requests : Ask(w, r)
            \/ \E v \in {"verified", "rejected"} : Decide(w, v)
            \/ Return(w)

Spec == Init /\ [][Next]_<<asked, verdict>>
===============================================================================
