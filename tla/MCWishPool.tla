------------------------------ MODULE MCWishPool ------------------------------
(***************************************************************************)
(* Instances of WishPool for TLC.                                          *)
(***************************************************************************)
EXTENDS WishPool, TLC

CONSTANTS u1, u2, c1, c2, m1

\* All contents are searched in the same minute, so that one claims several.
OneMinute == [c \in Contents |-> m1]

\* Users are interchangeable, and so are contents of one minute.
Symmetry == Permutations(Users) \cup Permutations(Contents)
=============================================================================
