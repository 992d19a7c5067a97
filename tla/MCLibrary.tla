------------------------------ MODULE MCLibrary ------------------------------
(***************************************************************************)
(* Model checking of Library: one series of a few seasons, one request for *)
(* its first season.                                                       *)
(***************************************************************************)
EXTENDS Library

CONSTANTS r1, u1, u2

MCSeasonOf == [r \in Requests |-> 1]
=============================================================================
