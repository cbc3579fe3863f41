----------------------- MODULE PresentationVerification -----------------------
(***************************************************************************)
(* The verdict on a presentation: what PresentationVerificationService     *)
(* makes of an answer of the sidecar.  Module Sidecar says when such an    *)
(* answer is given, VerificationCall how it reaches the plugin.            *)
(*                                                                         *)
(* An answer is abstracted to what the plugin reads of it:                 *)
(*   unreachable  nothing readable: refused, timed out, not JSON           *)
(*   error        a JSON object without the flags, as the body {error};    *)
(*                the status 400 that comes with it is not looked at       *)
(*   result       a verification result, with the set of the four          *)
(*                "verified" flags that are false                          *)
(***************************************************************************)

(* The flags, in the order they are read: holder, credentials[0].issuer,   *)
(* credentials[0], and the presentation as a whole.                        *)
Flags == {"holder", "issuer", "credential", "total"}

Answer == [kind : {"unreachable", "error", "result"}, failing : SUBSET Flags]

(* What the sidecar sends: a set of failing flags makes sense only in a    *)
(* result.                                                                 *)
SidecarAnswers == {a \in Answer : a.kind # "result" => a.failing = {}}

Flagless(kind) == [kind |-> kind, failing |-> {}]
Result(failing) == [kind |-> "result", failing |-> failing]

(* Mutation: the flags of the presentation itself are not read.            *)
VerifiedCredentials(a) ==
    a.kind = "result" /\ {"issuer", "credential"} \cap a.failing = {}

(* verifyPresentation after the request: an exception of any kind, also    *)
(* the one for a field that {error} does not have, is a verdict of false.  *)
Verified(a) == a.kind = "result" /\ a.failing = {}
===============================================================================
