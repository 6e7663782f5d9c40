----------------------------- MODULE MCAttempts -----------------------------
(***************************************************************************)
(* Instances of Attempts for TLC.                                          *)
(***************************************************************************)
EXTENDS Attempts, TLC

\* Students and requests are interchangeable (attempt ids are not: StartInsert
\* chooses one). Used only in runs without liveness properties.
Symmetry == Permutations(Students) \cup Permutations(Requests)
=============================================================================
