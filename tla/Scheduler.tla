-------------------------------- MODULE Scheduler --------------------------------
(***************************************************************************)
(* The cooperative scheduler (scheduler.c) in the main loop (main.c): the  *)
(* loop sleeps until a timer tick, runs every task that is due against the *)
(* one reading of sys_tick it took, polls the UART, and sleeps again.  The *)
(* timer interrupt may come at any point of this.                          *)
(*                                                                         *)
(* sys_tick and last_run are unsigned and wrap.                            *)
(***************************************************************************)
EXTENDS Integers

CONSTANTS NUM_TASKS,    \* entries of tasks[]
          period_ms,    \* the period of each entry, in ticks
          UINT32,       \* number of values of a uint32_t
          MaxBusy       \* ticks that may pass from one wake-up to the next wfi

Tasks == 1 .. NUM_TASKS

ASSUME TasksAssumption ==
    /\ NUM_TASKS \in Nat \ {0}
    /\ MaxBusy \in Nat
    /\ UINT32 \in Nat
    /\ period_ms \in [Tasks -> Nat \ {0}]
    /\ \A t \in Tasks : period_ms[t] + 2 * MaxBusy + 1 < UINT32

VARIABLES sys_tick,     \* ticks since boot
          last_run,     \* the tick each task was last run at
          now,          \* scheduler_run's reading of sys_tick
          next_task,    \* loop index of scheduler_run
          pc,           \* where the main loop is
          busy          \* ticks since now was read (or since boot)

vars == <<sys_tick, last_run, now, next_task, pc, busy>>

TickValues == 0 .. UINT32 - 1

(* uint32_t arithmetic. *)
Increment(n) == IF n = UINT32 - 1 THEN 0 ELSE n + 1
Minus(a, b) == IF a >= b THEN a - b ELSE a - b + UINT32

TypeOK ==
    /\ sys_tick \in TickValues
    /\ last_run \in [Tasks -> TickValues]
    /\ now \in TickValues
    /\ next_task \in 1 .. NUM_TASKS + 1
    /\ pc \in {"boot", "sleep", "awake", "tasks", "poll"}
    /\ busy \in 0 .. MaxBusy + 1

Init ==
    /\ sys_tick = 0
    /\ last_run = [t \in Tasks |-> 0]
    /\ now = 0
    /\ next_task = NUM_TASKS + 1
    /\ pc = "boot"
    /\ busy = 0

(* The timer interrupt; it is what wfi waits for.  MaxBusy bounds how long  *)
(* the boot, the tasks and the poll keep the loop from sleeping, and the    *)
(* loop gets from wfi to the reading of sys_tick within a tick.             *)
timer_isr ==
    /\ pc # "awake"
    /\ busy < MaxBusy \/ pc = "sleep"
    /\ sys_tick' = Increment(sys_tick)
    /\ busy' = busy + 1
    /\ pc' = IF pc = "sleep" THEN "awake" ELSE pc
    /\ UNCHANGED <<last_run, now, next_task>>

(* main has restored the mission and announced itself. *)
booted ==
    /\ pc = "boot"
    /\ pc' = "sleep"
    /\ UNCHANGED <<sys_tick, last_run, now, next_task, busy>>

(* scheduler_run reads sys_tick once for the whole pass. *)
scheduler_run ==
    /\ pc = "awake"
    /\ now' = sys_tick
    /\ next_task' = 1
    /\ busy' = 0
    /\ pc' = "tasks"
    /\ UNCHANGED <<sys_tick, last_run>>

(* Mutants: the task is run a tick late; the deadline is compared as a point   *)
(* in time, which fails when the counter wraps.                               *)
Due_Late(t) == Minus(now, last_run[t]) > period_ms[t]
Due_Absolute(t) == now >= last_run[t] + period_ms[t]

Due(t) == Minus(now, last_run[t]) >= period_ms[t]

(* Mutant: the task is stamped with the tick it ends at. *)
run_task_StampedAtEnd(t) ==
    /\ pc = "tasks" /\ next_task = t /\ Due(t)
    /\ last_run' = [last_run EXCEPT ![t] = sys_tick]
    /\ next_task' = t + 1
    /\ UNCHANGED <<sys_tick, now, pc, busy>>

run_task(t) ==
    /\ pc = "tasks" /\ next_task = t /\ Due(t)
    /\ last_run' = [last_run EXCEPT ![t] = now]
    /\ next_task' = t + 1
    /\ UNCHANGED <<sys_tick, now, pc, busy>>

skip_task(t) ==
    /\ pc = "tasks" /\ next_task = t /\ ~Due(t)
    /\ next_task' = t + 1
    /\ UNCHANGED <<sys_tick, last_run, now, pc, busy>>

pass_done ==
    /\ pc = "tasks" /\ next_task = NUM_TASKS + 1
    /\ pc' = "poll"
    /\ UNCHANGED <<sys_tick, last_run, now, next_task, busy>>

(* The poll ends when the UART has no byte left. *)
mavlink_rx_poll ==
    /\ pc = "poll"
    /\ pc' = "sleep"
    /\ UNCHANGED <<sys_tick, last_run, now, next_task, busy>>

main_loop ==
    \/ booted
    \/ scheduler_run
    \/ \E t \in Tasks : run_task(t) \/ skip_task(t)
    \/ pass_done
    \/ mavlink_rx_poll

Next == timer_isr \/ main_loop

Spec == Init /\ [][Next]_vars

(* The processor makes progress, the timer keeps ticking, and no flood of   *)
(* received bytes holds the poll forever.                                   *)
FairSpec == Spec /\ WF_vars(main_loop) /\ WF_vars(timer_isr)

---------------------------------------------------------------------------------
(* Properties *)

(* Tasks of one period run in the same passes: attitude, mission_update,    *)
(* sim_battery_update and failsafe_check are never out of step, so a mode   *)
(* the failsafe chooses is seen by mission_update in the next pass, never   *)
(* sooner or later.                                                         *)
InStep ==
    pc # "tasks" => \A t, u \in Tasks :
        period_ms[t] = period_ms[u] => last_run[t] = last_run[u]

(* A task is never run early, also when sys_tick wraps, and late by no more *)
(* than the loop was busy.                                                  *)
RunsOnTime ==
    [][\A t \in Tasks : last_run'[t] # last_run[t] =>
          Minus(last_run'[t], last_run[t])
             \in period_ms[t] .. period_ms[t] + MaxBusy]_vars

(* Nor is a task left waiting longer than that while it is not run.         *)
NoTaskOverdue ==
    \A t \in Tasks : Minus(sys_tick, last_run[t]) <= period_ms[t] + 2 * MaxBusy

(* Every task runs again and again.                                         *)
EveryTaskRuns == \A t \in Tasks : []<><<last_run'[t] # last_run[t]>>_vars
==================================================================================
