--------------------------- MODULE MCRequestLedger ---------------------------
(***************************************************************************)
(* Instances of RequestLedger for TLC.                                     *)
(***************************************************************************)
EXTENDS RequestLedger, TLC

CONSTANTS r1, r2, r3, u1, u2, t1, t2, m1

\* t1 and t2 are seasons of TV shows (3 units each), m1 is a movie (1 unit).
MCMediaType == [c \in Contents |-> IF c = m1 THEN "movie" ELSE "tv"]

\* Request identifiers are interchangeable, and so are users.
Symmetry == Permutations(Requests) \cup Permutations(Users)
=============================================================================
