---------------------------- MODULE MCPasscodes -----------------------------
(***************************************************************************)
(* Instances of Passcodes for TLC.                                         *)
(***************************************************************************)
EXTENDS Passcodes, TLC

\* Passcodes, students and requests are interchangeable.
Symmetry == Permutations(Codes) \cup Permutations(Students) \cup Permutations(Requests)
=============================================================================
