----------------------------- MODULE SchedulerProofs -----------------------------
(***************************************************************************)
(* Proofs about Scheduler for any task table, any width of the counter     *)
(* that the periods fit in, and any bound on how long the loop is busy.    *)
(*                                                                         *)
(* Two facts carry the timing: busy is exactly how far sys_tick has run    *)
(* ahead of now (Ahead), and between passes no task is due against now     *)
(* (Waiting).  The bounds follow because wrapping differences add up as    *)
(* long as the sum fits in the counter.                                    *)
(***************************************************************************)
EXTENDS Scheduler, TLAPS

Ahead ==
    /\ Minus(sys_tick, now) = busy
    /\ pc # "awake" => busy <= MaxBusy
    /\ pc = "awake" => next_task = NUM_TASKS + 1
    /\ pc # "tasks" => next_task = NUM_TASKS + 1

Pending(t) == pc = "tasks" /\ t >= next_task

Waiting ==
    \A t \in Tasks :
        /\ ~Pending(t) => Minus(now, last_run[t]) < period_ms[t]
        /\ Pending(t) => Minus(now, last_run[t]) <= period_ms[t] + MaxBusy

(* During a pass, a task already handled is where one of the same period   *)
(* that is still to come will be.                                          *)
Abreast ==
    \A t, u \in Tasks : period_ms[t] = period_ms[u] =>
        /\ (Pending(t) <=> Pending(u)) => last_run[t] = last_run[u]
        /\ ~Pending(t) /\ Pending(u) =>
              last_run[t] = IF Due(u) THEN now ELSE last_run[u]

IInv == TypeOK /\ Ahead /\ Waiting /\ Abreast

---------------------------------------------------------------------------------
(* Wrapping differences are values of the counter. *)
LEMMA MinusType ==
    ASSUME NEW a \in TickValues, NEW b \in TickValues
    PROVE  Minus(a, b) \in TickValues
BY TasksAssumption DEF Minus, TickValues

LEMMA Waited ==
    ASSUME TypeOK, NEW t \in Tasks
    PROVE  Minus(now, last_run[t]) \in Nat
<1>1. Minus(now, last_run[t]) \in TickValues
  BY MinusType DEF TypeOK
<1> QED
  BY <1>1 DEF TickValues

LEMMA IncrementType ==
    ASSUME NEW a \in TickValues
    PROVE  Increment(a) \in TickValues
BY TasksAssumption DEF Increment, TickValues

(* Wrapping differences add up when the sum fits. *)
LEMMA MinusAdds ==
    ASSUME NEW a \in TickValues, NEW b \in TickValues, NEW c \in TickValues,
           Minus(a, b) + Minus(b, c) < UINT32
    PROVE  Minus(a, c) = Minus(a, b) + Minus(b, c)
BY TasksAssumption DEF Minus, TickValues

(* A tick adds one to a difference that has room for it. *)
LEMMA MinusIncrement ==
    ASSUME NEW a \in TickValues, NEW b \in TickValues, Minus(a, b) + 1 < UINT32
    PROVE  Minus(Increment(a), b) = Minus(a, b) + 1
BY TasksAssumption DEF Minus, Increment, TickValues

LEMMA MinusSelf ==
    ASSUME NEW a \in TickValues
    PROVE  Minus(a, a) = 0
BY TasksAssumption DEF Minus, TickValues

(* The bounds that the counter has room for. *)
LEMMA Room ==
    ASSUME NEW t \in Tasks
    PROVE  /\ period_ms[t] \in Nat \ {0}
           /\ MaxBusy \in Nat /\ UINT32 \in Nat
           /\ period_ms[t] + 2 * MaxBusy + 1 < UINT32
BY TasksAssumption

LEMMA BusyFits == MaxBusy \in Nat /\ UINT32 \in Nat /\ MaxBusy + 2 < UINT32
<1>1. 1 \in Tasks
  BY TasksAssumption DEF Tasks
<1>2. period_ms[1] \in Nat \ {0} /\ period_ms[1] + 2 * MaxBusy + 1 < UINT32
  BY <1>1, TasksAssumption
<1> QED
  BY <1>2, TasksAssumption

---------------------------------------------------------------------------------
LEMMA InitInvariant == Init => IInv
<1> SUFFICES ASSUME Init PROVE IInv
  OBVIOUS
<1> USE TasksAssumption DEF Init
<1>1. 0 \in TickValues /\ Minus(0, 0) = 0
  BY BusyFits, MinusSelf DEF TickValues
<1>2. TypeOK
  BY <1>1 DEF TypeOK
<1>3. Ahead
  BY <1>1 DEF Ahead
<1>4. Waiting
  BY <1>1, Room DEF Waiting, Pending
<1>5. Abreast
  BY DEF Abreast, Pending
<1> QED
  BY <1>2, <1>3, <1>4, <1>5 DEF IInv

(* The timer interrupt moves sys_tick ahead of now by one. *)
LEMMA TickInvariant == IInv /\ timer_isr => IInv'
<1> SUFFICES ASSUME IInv, timer_isr PROVE IInv'
  OBVIOUS
<1> USE TasksAssumption DEF IInv, timer_isr
<1>1. busy \in 0 .. MaxBusy
  BY DEF Ahead, TypeOK
<1>2. TypeOK'
  BY <1>1, IncrementType DEF TypeOK
<1>3. Minus(sys_tick', now') = busy'
  BY <1>1, BusyFits, MinusIncrement DEF Ahead, TypeOK
<1>4. Ahead'
  BY <1>1, <1>3 DEF Ahead, TypeOK
<1>5. Waiting'
  BY DEF Waiting, Pending
<1>6. Abreast'
  BY DEF Abreast, Pending, Due
<1> QED
  BY <1>2, <1>4, <1>5, <1>6

(* Reading sys_tick makes tasks due, none of them by more than MaxBusy ticks. *)
LEMMA PassStartInvariant == IInv /\ scheduler_run => IInv'
<1> SUFFICES ASSUME IInv, scheduler_run PROVE IInv'
  OBVIOUS
<1> USE TasksAssumption DEF IInv, scheduler_run
<1>1. TypeOK'
  BY DEF TypeOK
<1>2. Ahead'
  BY MinusSelf DEF Ahead, TypeOK
<1>3. Waiting'
  <2> SUFFICES ASSUME NEW t \in Tasks
               PROVE  Minus(now', last_run[t]) <= period_ms[t] + MaxBusy /\ Pending(t)'
    BY DEF Waiting
  <2>1. Minus(sys_tick, now) = busy /\ busy \in 0 .. MaxBusy + 1
    BY DEF Ahead, TypeOK
  <2>2. Minus(now, last_run[t]) < period_ms[t] /\ Minus(now, last_run[t]) \in Nat
    BY MinusType DEF Waiting, Pending, TypeOK, TickValues
  <2>3. Minus(sys_tick, last_run[t]) = busy + Minus(now, last_run[t])
    BY <2>1, <2>2, Room, MinusAdds DEF TypeOK
  <2>4. Pending(t)'
    BY DEF Pending, Tasks
  <2> QED
    BY <2>1, <2>2, <2>3, <2>4, Room
<1>4. Abreast'
  BY DEF Abreast, Pending, Tasks
<1> QED
  BY <1>1, <1>2, <1>3, <1>4

(* Handling the next task of a pass, whether it is due or not. *)
LEMMA TaskInvariant ==
    ASSUME IInv, NEW k \in Tasks, run_task(k) \/ skip_task(k)
    PROVE  IInv'
<1>a. /\ pc = "tasks" /\ next_task = k /\ next_task' = k + 1
      /\ UNCHANGED <<sys_tick, now, pc, busy>>
  BY DEF run_task, skip_task
<1>b. last_run' = IF Due(k) THEN [last_run EXCEPT ![k] = now] ELSE last_run
  BY DEF run_task, skip_task
<1> USE TasksAssumption DEF IInv
<1>c. k \in Nat /\ k + 1 \in 1 .. NUM_TASKS + 1
  BY DEF Tasks
<1>1. TypeOK'
  <2>1. last_run' \in [Tasks -> TickValues]
    BY <1>b DEF TypeOK
  <2> QED
    BY <1>a, <1>c, <2>1 DEF TypeOK
<1>2. Ahead'
  BY <1>a DEF Ahead
<1>3. \A t \in Tasks : Pending(t)' <=> Pending(t) /\ t # k
  <2> SUFFICES ASSUME NEW t \in Tasks PROVE Pending(t)' <=> Pending(t) /\ t # k
    OBVIOUS
  <2>1. t \in Int /\ (t >= k + 1 <=> t >= k /\ t # k)
    BY <1>c DEF Tasks
  <2> QED
    BY <1>a, <2>1 DEF Pending
<1>4. Pending(k) /\ now' = now
  BY <1>a, <1>c DEF Pending
<1>5. \A t \in Tasks : last_run'[t] = IF t = k /\ Due(k) THEN now ELSE last_run[t]
  BY <1>b DEF TypeOK
<1>6. Waiting'
  <2> SUFFICES ASSUME NEW t \in Tasks
               PROVE  /\ ~Pending(t)' => Minus(now, last_run'[t]) < period_ms[t]
                      /\ Pending(t)' => Minus(now, last_run'[t]) <= period_ms[t] + MaxBusy
    BY <1>4 DEF Waiting
  <2>1. CASE t # k
    BY <1>3, <1>5, <2>1 DEF Waiting
  <2>2. CASE t = k /\ Due(k)
    <3>1. last_run'[t] = now /\ Minus(now, now) = 0
      BY <1>5, <2>2, MinusSelf DEF TypeOK
    <3> QED
      BY <1>3, <2>2, <3>1, Room
  <2>3. CASE t = k /\ ~Due(k)
    <3>1. Minus(now, last_run[k]) \in Nat
      BY Waited
    <3> QED
      BY <1>3, <1>5, <2>3, <3>1, Room DEF Due
  <2> QED
    BY <2>1, <2>2, <2>3
<1>7. Abreast'
  <2> SUFFICES ASSUME NEW t \in Tasks, NEW u \in Tasks, period_ms[t] = period_ms[u]
               PROVE  /\ (Pending(t)' <=> Pending(u)') => last_run'[t] = last_run'[u]
                      /\ ~Pending(t)' /\ Pending(u)' =>
                            last_run'[t] = IF Due(u)' THEN now ELSE last_run'[u]
    BY <1>4 DEF Abreast
  <2>1. u # k => (Due(u)' <=> Due(u))
    BY <1>4, <1>5 DEF Due
  <2>2. last_run[t] = last_run[u] => (Due(t) <=> Due(u))
    BY DEF Due
  <2>3. /\ (Pending(t) <=> Pending(u)) => last_run[t] = last_run[u]
        /\ ~Pending(t) /\ Pending(u) => last_run[t] = IF Due(u) THEN now ELSE last_run[u]
        /\ ~Pending(u) /\ Pending(t) => last_run[u] = IF Due(t) THEN now ELSE last_run[t]
    BY DEF Abreast
  <2> QED
    BY <1>3, <1>4, <1>5, <2>1, <2>2, <2>3
<1> QED
  BY <1>1, <1>2, <1>6, <1>7

LEMMA StepInvariant == IInv /\ [Next]_vars => IInv'
<1> SUFFICES ASSUME IInv, [Next]_vars PROVE IInv'
  OBVIOUS
<1>1. CASE booted \/ mavlink_rx_poll \/ pass_done \/ UNCHANGED vars
  <2> USE <1>1, TasksAssumption DEF IInv, booted, mavlink_rx_poll, pass_done, vars
  <2>1. TypeOK'
    BY DEF TypeOK
  <2>2. Ahead'
    BY DEF Ahead
  <2>3. \A t \in Tasks : Pending(t)' <=> Pending(t)
    BY DEF Pending, Tasks
  <2>4. UNCHANGED <<now, last_run>>
    OBVIOUS
  <2>5. Waiting'
    BY <2>3, <2>4 DEF Waiting
  <2>6. Abreast'
    BY <2>3, <2>4 DEF Abreast, Due
  <2> QED
    BY <2>1, <2>2, <2>5, <2>6
<1> QED
  BY <1>1, TickInvariant, PassStartInvariant, TaskInvariant DEF Next, main_loop

THEOREM Invariant == Spec => []IInv
BY InitInvariant, StepInvariant, PTL DEF Spec

---------------------------------------------------------------------------------
(* Every variable of the scheduler keeps its type, for any task table. *)
THEOREM TypeCorrect == Spec => []TypeOK
BY Invariant, PTL DEF IInv

(* Tasks of one period, such as mission_update and failsafe_check, run in   *)
(* the same passes of scheduler_run.                                        *)
THEOREM TasksInStep == Spec => []InStep
<1>1. IInv => InStep
  BY DEF IInv, Abreast, Pending, InStep
<1> QED
  BY <1>1, Invariant, PTL

(* No task of scheduler_run waits longer than its period and two busy spells. *)
THEOREM TasksNotOverdue == Spec => []NoTaskOverdue
<1>1. IInv => NoTaskOverdue
  <2> SUFFICES ASSUME IInv, NEW t \in Tasks
               PROVE  Minus(sys_tick, last_run[t]) <= period_ms[t] + 2 * MaxBusy
    BY DEF NoTaskOverdue
  <2> USE DEF IInv
  <2>1. Minus(sys_tick, now) = busy /\ busy \in 0 .. MaxBusy + 1
        /\ (pc # "awake" => busy <= MaxBusy)
    BY DEF Ahead, TypeOK
  <2>2. Minus(now, last_run[t]) \in Nat
    BY Waited
  <2>3. ~Pending(t) => Minus(now, last_run[t]) < period_ms[t]
    BY DEF Waiting
  <2>4. Pending(t) => Minus(now, last_run[t]) <= period_ms[t] + MaxBusy /\ pc # "awake"
    BY DEF Waiting, Pending
  <2>5. busy + Minus(now, last_run[t]) <= period_ms[t] + 2 * MaxBusy
    BY <2>1, <2>2, <2>3, <2>4, Room
  <2>6. Minus(sys_tick, now) + Minus(now, last_run[t]) < UINT32
    BY <2>1, <2>5, Room, <2>2
  <2> QED
    BY <2>1, <2>5, <2>6, MinusAdds DEF TypeOK
<1> QED
  BY <1>1, Invariant, PTL

(* scheduler_run runs a task no sooner than its period after the last run,   *)
(* across the wrap of sys_tick, and no later than MaxBusy ticks after that.  *)
THEOREM TasksOnTime == Spec => RunsOnTime
<1> DEFINE OnTime == \A t \in Tasks : last_run'[t] # last_run[t] =>
                        Minus(last_run'[t], last_run[t])
                           \in period_ms[t] .. period_ms[t] + MaxBusy
<1>1. IInv /\ [Next]_vars => [OnTime]_vars
  <2> SUFFICES ASSUME IInv, Next, NEW t \in Tasks, last_run'[t] # last_run[t]
               PROVE  Minus(last_run'[t], last_run[t])
                         \in period_ms[t] .. period_ms[t] + MaxBusy
    OBVIOUS
  <2>1. run_task(t)
    <3>1. PICK k \in Tasks : run_task(k)
      BY DEF Next, main_loop, timer_isr, booted, scheduler_run, skip_task, pass_done,
             mavlink_rx_poll
    <3>2. k = t
      BY <3>1 DEF run_task, IInv, TypeOK
    <3> QED
      BY <3>1, <3>2
  <2>2. last_run'[t] = now /\ Minus(now, last_run[t]) >= period_ms[t] /\ Pending(t)
    BY <2>1 DEF run_task, Due, IInv, TypeOK, Pending, Tasks
  <2>3. Minus(now, last_run[t]) <= period_ms[t] + MaxBusy
    BY <2>2 DEF IInv, Waiting
  <2>4. Minus(now, last_run[t]) \in Nat
    BY Waited DEF IInv
  <2> QED
    BY <2>2, <2>3, <2>4, Room
<1> QED
  BY <1>1, Invariant, PTL DEF Spec, RunsOnTime
==================================================================================
