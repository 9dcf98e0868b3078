------------------------------ MODULE MC_Scheduler ------------------------------
(* Four tasks of three periods, in the order and the ratios of tasks[], on a   *)
(* counter that wraps after three of the longest periods.                      *)
EXTENDS Scheduler

Periods == <<5, 2, 2, 4>>
=================================================================================
