----------------------- MODULE MCSessionManagementService -----------------------
(***************************************************************************)
(* Instances of SessionManagementService for TLC.                          *)
(***************************************************************************)
EXTENDS SessionManagementService, TLC

Symmetry == Permutations(Workers) \cup Permutations(Sessions)
                \cup Permutations(Subjects)
=================================================================================
