----------------------------- MODULE MCWashOrder -----------------------------
(***************************************************************************)
(* Instances of WashOrder for TLC.                                         *)
(***************************************************************************)
EXTENDS WashOrder, TLC

CONSTANTS o1, o2, a1, a2, c1, s1, s2

\* Administrators are interchangeable, and so are sources.
Symmetry == Permutations(Admins) \cup Permutations(Sources)
=============================================================================
