----------------------------- MODULE MCBackground -----------------------------
(***************************************************************************)
(* Background on a small instance: the bounds of each part.                *)
(***************************************************************************)
EXTENDS Background

MCFaults   == [p \in Parts |-> IF p \in {"radar", "client", "reminders"} THEN 2 ELSE 1]
MCRestarts == [p \in Parts |-> 1]
MCMaxDays  == [summary |-> 3, schedules |-> 8, reminders |-> 5]
=============================================================================
