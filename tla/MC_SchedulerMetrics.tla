--------------------------- MODULE MC_SchedulerMetrics ---------------------------
(* Two monitored tasks and one that is not, for a few of the longer periods.      *)
EXTENDS SchedulerMetrics

Periods == <<4, 2, 2>>
=================================================================================
