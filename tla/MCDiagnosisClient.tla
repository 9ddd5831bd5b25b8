-------------------------- MODULE MCDiagnosisClient --------------------------
(* The constants are given in MCDiagnosisClient_*.cfg. *)
EXTENDS DiagnosisClient, TLC

(* Sound for the safety runs: items differ in nothing but their name. *)
Symmetry == Permutations(Items)
=============================================================================
