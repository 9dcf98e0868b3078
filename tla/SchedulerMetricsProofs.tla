------------------------- MODULE SchedulerMetricsProofs -------------------------
(***************************************************************************)
(* Proofs about SchedulerMetrics, for any task table, any set of monitored *)
(* tasks and any length of the experiment that the counters have room for. *)
(*                                                                         *)
(* Up to the horizon no counter wraps, so ticks compare as numbers         *)
(* (Straight).  A record then spans the time from the task's first run to  *)
(* its last (Spanned), which leaves its counters room and makes the        *)
(* interval of every sample at least a period.                             *)
(***************************************************************************)
EXTENDS SchedulerMetrics, SchedulerProofs

Straight ==
    /\ now <= sys_tick /\ sys_tick <= Horizon
    /\ \A t \in Tasks : last_run[t] <= now

NotStarted ==
    ~metrics_inited =>
        /\ pc \in {"boot", "sleep", "awake"}
        /\ ~experiment_complete
        /\ now = 0
        /\ metrics = [t \in Monitored |-> NoRecord]

ReportKept ==
    /\ experiment_complete => now >= DURATION
    /\ pc # "tasks" => (now >= DURATION => experiment_complete)

(* The record of a task of a period, last run at a tick. *)
Spanned(m, period, last) ==
    /\ m.prev_tick = last
    /\ ~m.initialized => m = NoRecord
    /\ m.sample_count * period <= m.total_interval
    /\ m.total_interval <= m.sample_count * (period + m.max_jitter)
    /\ m.initialized => m.total_interval <= last - period
    /\ m.deadline_misses <= m.sample_count
    /\ m.deadline_misses = 0 <=> m.max_jitter <= 1

Records == \A t \in Monitored : Spanned(metrics[t], period_ms[t], last_run[t])

MInv == MetricsTypeOK /\ Straight /\ NotStarted /\ ReportKept /\ Records

MetricsRecord == [initialized : BOOLEAN, prev_tick : Counters,
                  sample_count : Counters, total_interval : Counters,
                  max_jitter : Counters, deadline_misses : Counters]

---------------------------------------------------------------------------------
(* Arithmetic. *)
LEMMA TimesSuccessor ==
    ASSUME NEW a \in Nat, NEW b \in Nat
    PROVE  (a + 1) * b = a * b + b
OBVIOUS

LEMMA TimesGrows ==
    ASSUME NEW a \in Nat, NEW b \in Nat, NEW c \in Nat, b <= c
    PROVE  a * b <= a * c
<1>1. PICK d \in Nat : c = b + d
  <2>1. c - b \in Nat /\ c = b + (c - b)
    OBVIOUS
  <2> QED
    BY <2>1
<1>2. a * c = a * b + a * d /\ a * d \in Nat /\ a * b \in Nat
  BY <1>1
<1> QED
  BY <1>2

LEMMA TimesAtLeast ==
    ASSUME NEW a \in Nat, NEW b \in Nat \ {0}
    PROVE  a <= a * b
<1>1. a * 1 <= a * b
  BY TimesGrows
<1> QED
  BY <1>1

---------------------------------------------------------------------------------
(* The steps of the experiment are steps of the scheduler. *)
THEOREM MetricsImplementsScheduler == MetricsSpec => Spec
<1>1. MetricsInit => Init
  BY DEF MetricsInit
<1>2. [MetricsNext]_allVars => [Next]_vars
  BY DEF MetricsNext, Unmetered, Metered, scheduler_metrics_init, later_pass,
         scheduler_metrics_record, unmonitored_task, scheduler_metrics_report, no_report,
         Next, main_loop, allVars, vars
<1> QED
  BY <1>1, <1>2, PTL DEF MetricsSpec, Spec

---------------------------------------------------------------------------------
(* Recording a run, for a task that is due. *)
LEMMA RecordedFields ==
    ASSUME NEW m \in MetricsRecord, NEW period \in Nat, NEW r, r = Recorded(m, period)
    PROVE  /\ r.initialized = TRUE
           /\ r.prev_tick = now
           /\ ~m.initialized => /\ r.sample_count = m.sample_count
                                /\ r.total_interval = m.total_interval
                                /\ r.max_jitter = m.max_jitter
                                /\ r.deadline_misses = m.deadline_misses
           /\ m.initialized =>
                /\ r.sample_count = Increment(m.sample_count)
                /\ r.total_interval = (m.total_interval + Interval(m)) % UINT32
                /\ r.max_jitter = IF Jitter(m, period) > m.max_jitter
                                  THEN Jitter(m, period) ELSE m.max_jitter
                /\ r.deadline_misses = IF Missed(m, period)
                                       THEN Increment(m.deadline_misses)
                                       ELSE m.deadline_misses
BY DEF Recorded, Sampled, MetricsRecord

LEMMA RecordedType ==
    ASSUME NEW m \in MetricsRecord, NEW period \in Counters, TypeOK
    PROVE  Recorded(m, period) \in MetricsRecord
<1> USE TasksAssumption DEF Counters
<1>1. now \in Counters
  BY DEF TypeOK, TickValues
<1>2. Interval(m) \in Counters
  BY <1>1 DEF Interval, Minus, MetricsRecord
<1>3. Jitter(m, period) \in Counters
  BY <1>2 DEF Jitter
<1>4. Increment(m.sample_count) \in Counters /\ Increment(m.deadline_misses) \in Counters
  BY DEF Increment, MetricsRecord
<1>5. (m.total_interval + Interval(m)) % UINT32 \in Counters
  BY <1>2 DEF MetricsRecord
<1>6. Sampled(m, period) \in MetricsRecord
  BY <1>3, <1>4, <1>5 DEF Sampled, MetricsRecord
<1> QED
  BY <1>1, <1>6 DEF Recorded, MetricsRecord

(* A first run starts the clock of a record. *)
LEMMA FirstRunSpans ==
    ASSUME NEW m \in MetricsRecord, NEW period \in Nat \ {0}, ~m.initialized,
           NEW last \in Nat, Spanned(m, period, last), now \in Nat, period <= now
    PROVE  Spanned(Recorded(m, period), period, now)
<1> SUFFICES ASSUME NEW r, r = Recorded(m, period) PROVE Spanned(r, period, now)
  OBVIOUS
<1>1. m.sample_count = 0 /\ m.total_interval = 0 /\ m.max_jitter = 0 /\ m.deadline_misses = 0
  BY DEF Spanned, NoRecord
<1>2. r.initialized = TRUE /\ r.prev_tick = now /\ r.sample_count = 0
      /\ r.total_interval = 0 /\ r.max_jitter = 0 /\ r.deadline_misses = 0
  <2>1. /\ r.initialized = TRUE /\ r.prev_tick = now
        /\ r.sample_count = m.sample_count /\ r.total_interval = m.total_interval
        /\ r.max_jitter = m.max_jitter /\ r.deadline_misses = m.deadline_misses
    BY DEF Recorded, MetricsRecord
  <2> QED
    BY <1>1, <2>1
<1>3. 0 * period = 0 /\ 0 * (period + 0) = 0 /\ 0 <= now - period
  OBVIOUS
<1> QED
  BY <1>2, <1>3 DEF Spanned

(* A later run of a task that is due adds one interval. *)
LEMMA LaterRunSpans ==
    ASSUME NEW m \in MetricsRecord, NEW period \in Nat \ {0}, m.initialized,
           Spanned(m, period, m.prev_tick), TypeOK, now <= Horizon,
           m.prev_tick + period <= now
    PROVE  Spanned(Recorded(m, period), period, now)
<1> SUFFICES ASSUME NEW r, r = Recorded(m, period) PROVE Spanned(r, period, now)
  OBVIOUS
<1> DEFINE n == m.sample_count
           total == m.total_interval
           wait == now - m.prev_tick
           worst == m.max_jitter
           missed == m.deadline_misses
<1>1. /\ now \in Nat /\ now < UINT32 /\ UINT32 \in Nat /\ m.prev_tick \in Nat
      /\ n \in Nat /\ total \in Nat /\ worst \in Nat /\ missed \in Nat
  BY TasksAssumption, MetricsAssumption DEF TypeOK, TickValues, MetricsRecord, Counters
<1>2. /\ n * period <= total /\ total <= n * (period + worst)
      /\ total <= m.prev_tick - period /\ missed <= n /\ (missed = 0 <=> worst <= 1)
  BY DEF Spanned
<1>3. wait \in Nat /\ wait >= period /\ Interval(m) = wait
  BY <1>1 DEF Interval, Minus
<1>4. Jitter(m, period) = wait - period /\ (Missed(m, period) <=> wait > period + 1)
  BY <1>3 DEF Jitter, Missed
<1>5. n <= n * period /\ n * period \in Nat
  BY <1>1, TimesAtLeast
<1>6. n + 1 < UINT32 /\ missed + 1 < UINT32 /\ total + wait <= now - period
  BY <1>1, <1>2, <1>3, <1>5
<1>r. /\ r.initialized = TRUE /\ r.prev_tick = now
      /\ r.sample_count = Increment(n)
      /\ r.total_interval = (total + Interval(m)) % UINT32
      /\ r.max_jitter = IF Jitter(m, period) > worst THEN Jitter(m, period) ELSE worst
      /\ r.deadline_misses = IF Missed(m, period) THEN Increment(missed) ELSE missed
  BY RecordedFields
<1> HIDE DEF n, total, wait, worst, missed
<1>7. /\ r.sample_count = n + 1
      /\ r.deadline_misses = IF wait > period + 1 THEN missed + 1 ELSE missed
  BY <1>1, <1>4, <1>6, <1>r DEF Increment
<1>8. r.total_interval = total + wait
  <2>1. (total + wait) % UINT32 = total + wait
    BY <1>1, <1>3, <1>6
  <2> QED
    BY <1>3, <1>r, <2>1
<1>9. /\ r.max_jitter \in Nat /\ worst <= r.max_jitter /\ wait - period <= r.max_jitter
      /\ r.max_jitter = worst \/ r.max_jitter = wait - period
  BY <1>1, <1>3, <1>4, <1>r
<1>10. (n + 1) * period <= total + wait
  BY <1>1, <1>2, <1>3, TimesSuccessor
<1>11. total + wait <= (n + 1) * (period + r.max_jitter)
  <2>1. n * (period + worst) <= n * (period + r.max_jitter)
    BY <1>1, <1>9, TimesGrows
  <2>2. (n + 1) * (period + r.max_jitter) = n * (period + r.max_jitter) + (period + r.max_jitter)
    <3>1. period + r.max_jitter \in Nat
      BY <1>9
    <3> QED
      BY <1>1, <3>1, TimesSuccessor
  <2>3. n * (period + worst) \in Nat /\ n * (period + r.max_jitter) \in Nat
    BY <1>1, <1>9
  <2> QED
    BY <1>1, <1>2, <1>3, <1>9, <2>1, <2>2, <2>3
<1>12. r.deadline_misses <= n + 1 /\ (r.deadline_misses = 0 <=> r.max_jitter <= 1)
  BY <1>1, <1>2, <1>3, <1>7, <1>9
<1> QED
  BY <1>1, <1>6, <1>7, <1>8, <1>10, <1>11, <1>12, <1>r DEF Spanned

---------------------------------------------------------------------------------
LEMMA MetricsInitInvariant == MetricsInit => MInv
<1> SUFFICES ASSUME MetricsInit PROVE MInv
  OBVIOUS
<1> USE TasksAssumption, MetricsAssumption DEF MetricsInit, Init
<1>1. 0 \in Counters
  BY DEF Counters
<1>2. MetricsTypeOK
  BY <1>1 DEF MetricsTypeOK, NoRecord
<1>3. Straight /\ NotStarted /\ ReportKept
  BY DEF Straight, NotStarted, ReportKept
<1>4. Records
  <2> SUFFICES ASSUME NEW t \in Monitored
               PROVE  Spanned(NoRecord, period_ms[t], 0)
    BY DEF Records
  <2>1. period_ms[t] \in Nat /\ 0 * period_ms[t] = 0 /\ 0 * (period_ms[t] + 0) = 0
    OBVIOUS
  <2> QED
    BY <2>1 DEF Spanned, NoRecord
<1> QED
  BY <1>2, <1>3, <1>4 DEF MInv

LEMMA TicksAreNumbers ==
    ASSUME MInv, TypeOK
    PROVE  /\ now \in Nat /\ sys_tick \in Nat /\ UINT32 \in Nat /\ DURATION \in Nat \ {0}
           /\ now <= sys_tick /\ sys_tick <= Horizon /\ Horizon < UINT32 /\ Horizon \in Nat
           /\ \A t \in Tasks : last_run[t] \in Nat /\ last_run[t] <= now
           /\ Monitored \subseteq Tasks
BY TasksAssumption, MetricsAssumption DEF MInv, Straight, TypeOK, TickValues

(* The first pass clears the records, which no task has touched. *)
LEMMA MetricsInitStep ==
    ASSUME MInv, TypeOK, scheduler_metrics_init
    PROVE  MInv'
<1> USE TasksAssumption, MetricsAssumption DEF scheduler_metrics_init, scheduler_run
<1>1. MetricsTypeOK'
  <2>1. 0 \in Counters
    BY DEF Counters
  <2> QED
    BY <2>1 DEF MetricsTypeOK, NoRecord
<1>2. Straight'
  <2>1. now' = sys_tick /\ sys_tick' = sys_tick /\ last_run' = last_run
    OBVIOUS
  <2> QED
    BY <2>1, TicksAreNumbers DEF Straight
<1>3. NotStarted'
  BY DEF NotStarted
<1>4. ReportKept'
  BY DEF ReportKept
<1>5. metrics' = metrics /\ last_run' = last_run
  BY DEF MInv, NotStarted
<1>6. Records'
  BY <1>5 DEF MInv, Records
<1> QED
  BY <1>1, <1>2, <1>3, <1>4, <1>6 DEF MInv

(* A run of a monitored task is recorded at the tick the task is stamped with. *)
LEMMA MetricsRecordStep ==
    ASSUME MInv, TypeOK, NEW t \in Tasks, scheduler_metrics_record(t)
    PROVE  MInv'
<1>0. /\ pc = "tasks" /\ Due(t) /\ t \in Monitored
      /\ last_run' = [last_run EXCEPT ![t] = now]
      /\ metrics' = [metrics EXCEPT ![t] = Recorded(@, period_ms[t])]
      /\ UNCHANGED <<sys_tick, now, pc, metrics_inited, experiment_complete>>
  BY DEF scheduler_metrics_record, run_task
<1>1. metrics \in [Monitored -> MetricsRecord]
  BY DEF MInv, MetricsTypeOK, MetricsRecord
<1>2. period_ms[t] \in Nat \ {0} /\ period_ms[t] \in Counters
  BY TasksAssumption DEF Counters
<1>3. \A u \in Tasks : last_run'[u] = IF u = t THEN now ELSE last_run[u]
  BY <1>0 DEF TypeOK
<1>4. \A u \in Monitored : metrics'[u] = IF u = t THEN Recorded(metrics[t], period_ms[t])
                                               ELSE metrics[u]
  BY <1>0, <1>1
<1>5. MetricsTypeOK'
  <2>1. Recorded(metrics[t], period_ms[t]) \in MetricsRecord
    BY <1>0, <1>1, <1>2, RecordedType
  <2>2. metrics' \in [Monitored -> MetricsRecord]
    BY <1>0, <1>1, <2>1
  <2> QED
    BY <1>0, <2>2 DEF MInv, MetricsTypeOK, MetricsRecord
<1>6. Straight'
  BY <1>0, <1>3, TicksAreNumbers DEF Straight
<1>7. NotStarted' /\ ReportKept'
  BY <1>0 DEF MInv, NotStarted, ReportKept
<1>8. last_run[t] + period_ms[t] <= now
  BY <1>0, <1>2, TicksAreNumbers DEF Due, Minus
<1>9. Spanned(metrics[t], period_ms[t], last_run[t])
  BY <1>0 DEF MInv, Records
<1>10. Spanned(Recorded(metrics[t], period_ms[t]), period_ms[t], now)
  <2>1. metrics[t] \in MetricsRecord /\ metrics[t].prev_tick = last_run[t]
    BY <1>0, <1>1, <1>9 DEF Spanned
  <2>2. CASE metrics[t].initialized
    BY <1>2, <1>8, <1>9, <2>1, <2>2, LaterRunSpans, TicksAreNumbers
  <2>3. CASE ~metrics[t].initialized
    <3>1. period_ms[t] <= now /\ last_run[t] \in Nat /\ now \in Nat
      BY <1>2, <1>8, TicksAreNumbers
    <3> QED
      BY <1>2, <1>9, <2>1, <2>3, <3>1, FirstRunSpans
  <2> QED
    BY <2>2, <2>3
<1>11. Records'
  <2> SUFFICES ASSUME NEW u \in Monitored
               PROVE  Spanned(metrics'[u], period_ms[u], last_run'[u])
    BY DEF Records
  <2>1. u \in Tasks
    BY MetricsAssumption
  <2>2. CASE u = t
    BY <1>3, <1>4, <1>10, <2>1, <2>2
  <2>3. CASE u # t
    BY <1>3, <1>4, <2>1, <2>3 DEF MInv, Records
  <2> QED
    BY <2>2, <2>3
<1> QED
  BY <1>5, <1>6, <1>7, <1>11 DEF MInv

(* A run of a task that is not monitored touches no record. *)
LEMMA UnmonitoredStep ==
    ASSUME MInv, TypeOK, NEW t \in Tasks, unmonitored_task(t)
    PROVE  MInv'
<1>0. /\ pc = "tasks" /\ t \notin Monitored
      /\ last_run' = [last_run EXCEPT ![t] = now]
      /\ UNCHANGED <<sys_tick, now, pc, metrics, metrics_inited, experiment_complete>>
  BY DEF unmonitored_task, run_task, metricsVars
<1>1. \A u \in Tasks : last_run'[u] = IF u = t THEN now ELSE last_run[u]
  BY <1>0 DEF TypeOK
<1>2. MetricsTypeOK'
  BY <1>0 DEF MInv, MetricsTypeOK
<1>3. Straight'
  BY <1>0, <1>1, TicksAreNumbers DEF Straight
<1>4. NotStarted' /\ ReportKept'
  BY <1>0 DEF MInv, NotStarted, ReportKept
<1>5. Records'
  BY <1>0, <1>1, MetricsAssumption DEF MInv, Records
<1> QED
  BY <1>2, <1>3, <1>4, <1>5 DEF MInv

(* Every other step leaves the records and the stamps of the tasks alone. *)
LEMMA UnrecordedStep ==
    ASSUME MInv, TypeOK,
           \/ later_pass \/ scheduler_metrics_report \/ no_report
           \/ Unmetered \/ UNCHANGED allVars
    PROVE  MInv'
<1>1. UNCHANGED <<last_run, metrics, metrics_inited>>
  BY DEF later_pass, scheduler_run, scheduler_metrics_report, no_report, pass_done,
         Unmetered, timer_isr, booted, skip_task, mavlink_rx_poll, metricsVars, allVars, vars
<1>2. Records'
  BY <1>1 DEF MInv, Records
<1>3. MetricsTypeOK'
  BY <1>1 DEF MInv, MetricsTypeOK, later_pass, scheduler_metrics_report, no_report,
              Unmetered, metricsVars, allVars
<1>4. Straight'
  <2>1. /\ now' = now \/ now' = sys_tick
        /\ sys_tick' = sys_tick \/ (sys_tick' = Increment(sys_tick) /\ sys_tick < Horizon
                                    /\ now' = now)
    BY DEF later_pass, scheduler_run, scheduler_metrics_report, no_report, pass_done,
           Unmetered, timer_isr, booted, skip_task, mavlink_rx_poll, allVars, vars
  <2>2. sys_tick < Horizon => Increment(sys_tick) = sys_tick + 1
    BY TicksAreNumbers DEF Increment
  <2> QED
    BY <1>1, <2>1, <2>2, TicksAreNumbers DEF Straight
<1>5. NotStarted'
  <2> SUFFICES ASSUME ~metrics_inited PROVE NotStarted'
    BY <1>1 DEF NotStarted
  <2>1. pc \in {"boot", "sleep", "awake"} /\ ~experiment_complete /\ now = 0
    BY DEF MInv, NotStarted
  <2>2. ~later_pass /\ ~scheduler_metrics_report /\ ~no_report
    BY <2>1 DEF later_pass, scheduler_metrics_report, no_report, pass_done
  <2>3. now' = now /\ experiment_complete' = experiment_complete
        /\ pc' \in {"boot", "sleep", "awake"}
    BY <2>1, <2>2 DEF Unmetered, timer_isr, booted, skip_task, mavlink_rx_poll,
                      metricsVars, allVars, vars
  <2> QED
    BY <1>1, <2>1, <2>3 DEF MInv, NotStarted
<1>6. ReportKept'
  <2>1. CASE later_pass
    <3>1. now' = sys_tick /\ pc' = "tasks" /\ experiment_complete' = experiment_complete
      BY <2>1 DEF later_pass, scheduler_run, metricsVars
    <3> QED
      BY <3>1, TicksAreNumbers DEF MInv, ReportKept
  <2>2. CASE scheduler_metrics_report \/ no_report
    BY <2>2 DEF MInv, ReportKept, scheduler_metrics_report, no_report, pass_done,
                ReportDue, metricsVars
  <2>3. CASE Unmetered \/ UNCHANGED allVars
    <3>1. now' = now /\ experiment_complete' = experiment_complete
          /\ (pc' # "tasks" => pc # "tasks")
      BY <2>3 DEF Unmetered, timer_isr, booted, skip_task, mavlink_rx_poll,
                  metricsVars, allVars, vars
    <3> QED
      BY <3>1 DEF MInv, ReportKept
  <2> QED
    BY <2>1, <2>2, <2>3
<1> QED
  BY <1>2, <1>3, <1>4, <1>5, <1>6 DEF MInv

THEOREM MetricsInvariant == MetricsSpec => []MInv
<1>1. TypeOK /\ MInv /\ [MetricsNext]_allVars => MInv'
  BY MetricsInitStep, MetricsRecordStep, UnmonitoredStep, UnrecordedStep
     DEF MetricsNext, Metered
<1> QED
  BY <1>1, MetricsInitInvariant, MetricsImplementsScheduler, TypeCorrect, PTL
     DEF MetricsSpec

---------------------------------------------------------------------------------
(* Every record stays in its type: no counter of the report overflows. *)
THEOREM MetricsTypeCorrect == MetricsSpec => []MetricsTypeOK
<1>1. MInv => MetricsTypeOK
  BY DEF MInv
<1> QED
  BY <1>1, MetricsInvariant, PTL

(* The record's clock is the tick scheduler_run last stamped the task with. *)
THEOREM RecordsFollowTheTasks == MetricsSpec => []ClocksAgree
<1>1. MInv => ClocksAgree
  BY DEF MInv, Records, Spanned, ClocksAgree
<1> QED
  BY <1>1, MetricsInvariant, PTL

(* The printed average is between the period and the period plus the worst *)
(* jitter.                                                                 *)
THEOREM TotalsAreConsistent == MetricsSpec => []TotalsAddUp
<1>1. MInv => TotalsAddUp
  BY DEF MInv, Records, Spanned, TotalsAddUp
<1> QED
  BY <1>1, MetricsInvariant, PTL

(* A deadline miss is counted exactly when the worst jitter passes a tick. *)
THEOREM MissesMatchJitter == MetricsSpec => []MissesAreJitter
<1>1. MInv => MissesAreJitter
  BY DEF MInv, Records, Spanned, MissesAreJitter
<1> QED
  BY <1>1, MetricsInvariant, PTL

(* The report is printed by the first pass at or past the end. *)
THEOREM ReportIsInTime == MetricsSpec => []ReportedInTime
<1>1. MInv => ReportedInTime
  <2> SUFFICES ASSUME MInv, pc # "tasks" PROVE experiment_complete <=> now >= DURATION
    BY DEF ReportedInTime
  <2>1. experiment_complete => now >= DURATION
    BY DEF MInv, ReportKept
  <2>2. now >= DURATION => experiment_complete
    BY DEF MInv, ReportKept
  <2> QED
    BY <2>1, <2>2
<1> QED
  BY <1>1, MetricsInvariant, PTL
=================================================================================
