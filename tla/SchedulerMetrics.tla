---------------------------- MODULE SchedulerMetrics ----------------------------
(***************************************************************************)
(* The timing experiment (scheduler_metrics.c) hooked into the scheduler:  *)
(* every run of a monitored task is recorded, and the first pass at or     *)
(* after the end of the experiment prints the report.                      *)
(*                                                                         *)
(* Horizon bounds the ticks explored, below the wrap of the counters.      *)
(***************************************************************************)
EXTENDS Scheduler

CONSTANTS Monitored,    \* tasks with an index in task_to_metrics
          DURATION,     \* METRICS_DURATION_TICKS
          Horizon       \* last tick explored

ASSUME MetricsAssumption ==
    /\ Monitored \subseteq Tasks
    /\ DURATION \in Nat \ {0}
    /\ Horizon \in DURATION .. UINT32 - 1

VARIABLES metrics,              \* the record of each monitored task
          metrics_inited,       \* static flag of scheduler_run
          experiment_complete   \* the report has been printed

metricsVars == <<metrics, metrics_inited, experiment_complete>>
allVars == <<vars, metricsVars>>

Counters == 0 .. UINT32 - 1

MetricsTypeOK ==
    /\ metrics \in [Monitored -> [initialized : BOOLEAN, prev_tick : Counters,
                                  sample_count : Counters, total_interval : Counters,
                                  max_jitter : Counters, deadline_misses : Counters]]
    /\ metrics_inited \in BOOLEAN
    /\ experiment_complete \in BOOLEAN

NoRecord == [initialized |-> FALSE, prev_tick |-> 0, sample_count |-> 0,
             total_interval |-> 0, max_jitter |-> 0, deadline_misses |-> 0]

MetricsInit ==
    /\ Init
    /\ metrics = [t \in Monitored |-> NoRecord]
    /\ metrics_inited = FALSE
    /\ experiment_complete = FALSE

(* scheduler_metrics_init, on the first pass only. *)
scheduler_metrics_init ==
    /\ scheduler_run
    /\ ~metrics_inited
    /\ metrics_inited' = TRUE
    /\ metrics' = [t \in Monitored |-> NoRecord]
    /\ experiment_complete' = FALSE

later_pass ==
    /\ scheduler_run
    /\ metrics_inited
    /\ UNCHANGED metricsVars

Interval(m) == Minus(now, m.prev_tick)

Jitter(m, period) == IF Interval(m) >= period THEN Interval(m) - period
                                              ELSE period - Interval(m)

(* Mutant: one tick more is forgiven. *)
Missed_Lax(m, period) == Interval(m) > period + 2

Missed(m, period) == Interval(m) > period + 1

Sampled(m, period) ==
    [m EXCEPT !.sample_count = Increment(@),
              !.total_interval = (@ + Interval(m)) % UINT32,
              !.max_jitter = IF Jitter(m, period) > @ THEN Jitter(m, period) ELSE @,
              !.deadline_misses = IF Missed(m, period) THEN Increment(@) ELSE @]

(* Mutants: the clock is left where the first run started it; the first run  *)
(* counts as a sample.                                                       *)
Recorded_ClockKept(m, period) ==
    IF m.initialized THEN Sampled(m, period)
                     ELSE [m EXCEPT !.initialized = TRUE, !.prev_tick = now]
Recorded_FirstCounted(m, period) ==
    [Sampled(m, period) EXCEPT !.initialized = TRUE, !.prev_tick = now]

(* The record after a run; the first run only starts the clock. *)
Recorded(m, period) ==
    [IF m.initialized THEN Sampled(m, period) ELSE m
        EXCEPT !.initialized = TRUE, !.prev_tick = now]

scheduler_metrics_record(t) ==
    /\ run_task(t)
    /\ t \in Monitored
    /\ metrics' = [metrics EXCEPT ![t] = Recorded(@, period_ms[t])]
    /\ UNCHANGED <<metrics_inited, experiment_complete>>

unmonitored_task(t) ==
    /\ run_task(t)
    /\ t \notin Monitored
    /\ UNCHANGED metricsVars

(* Mutants: the duration must be passed, not reached; it must be hit exactly. *)
ReportDue_Passed == ~experiment_complete /\ now > DURATION
ReportDue_Exact == ~experiment_complete /\ now = DURATION

ReportDue == ~experiment_complete /\ now >= DURATION

scheduler_metrics_report ==
    /\ pass_done
    /\ ReportDue
    /\ experiment_complete' = TRUE
    /\ UNCHANGED <<metrics, metrics_inited>>

no_report ==
    /\ pass_done
    /\ ~ReportDue
    /\ UNCHANGED metricsVars

Unmetered ==
    /\ \/ timer_isr /\ sys_tick < Horizon
       \/ booted
       \/ \E t \in Tasks : skip_task(t)
       \/ mavlink_rx_poll
    /\ UNCHANGED metricsVars

Metered ==
    \/ scheduler_metrics_init
    \/ later_pass
    \/ \E t \in Tasks : scheduler_metrics_record(t) \/ unmonitored_task(t)
    \/ scheduler_metrics_report
    \/ no_report

MetricsNext == Unmetered \/ Metered

MetricsSpec == MetricsInit /\ [][MetricsNext]_allVars

(* The loop and the timer go on, as in Scheduler!FairSpec. *)
FairMetricsSpec == MetricsSpec /\ WF_allVars(MetricsNext)

---------------------------------------------------------------------------------
(* Properties *)

(* The report's miss count and its worst jitter tell one story: as long as  *)
(* no task ever ran early, a miss is counted exactly when some interval was *)
(* two ticks too long.                                                      *)
MissesAreJitter ==
    \A t \in Monitored :
        metrics[t].deadline_misses = 0 <=> metrics[t].max_jitter <= 1

(* The totals add up: the printed average lies between the period and the   *)
(* period plus the worst jitter, and the intervals leave no gap between the *)
(* first run recorded and the last.                                         *)
TotalsAddUp ==
    \A t \in Monitored : LET m == metrics[t] IN
        /\ m.sample_count * period_ms[t] <= m.total_interval
        /\ m.total_interval <= m.sample_count * (period_ms[t] + m.max_jitter)
        /\ m.initialized => m.total_interval <= m.prev_tick - period_ms[t]

(* The clock of a record is the task's own: between passes prev_tick is the *)
(* tick the scheduler last ran the task at.                                 *)
ClocksAgree ==
    pc # "tasks" => \A t \in Monitored :
        metrics[t].prev_tick = last_run[t]

(* The report is printed by the first pass that reads a tick at or past the *)
(* end of the experiment, and a report once printed stays printed.          *)
ReportedInTime ==
    pc # "tasks" => (experiment_complete <=> now >= DURATION)

(* The experiment ends. *)
Reported == <>experiment_complete
=================================================================================
