---------------------------- MODULE MCLifecycle -----------------------------
(***************************************************************************)
(* Instances of Lifecycle for TLC.                                         *)
(***************************************************************************)
EXTENDS Lifecycle, TLC

\* Servers and assessments are interchangeable. Only for runs without liveness.
Symmetry == Permutations(Servers) \cup Permutations(Assessments)
=============================================================================
