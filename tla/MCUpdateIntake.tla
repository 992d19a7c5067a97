----------------------------- MODULE MCUpdateIntake -----------------------------
(***************************************************************************)
(* Small instances of UpdateIntake for TLC.                                *)
(***************************************************************************)
EXTENDS UpdateIntake

CONSTANT alice

\* Two updates of one user, the second of whom can be refused.
AllOfAlice == [u \in Updates |-> alice]
=================================================================================
