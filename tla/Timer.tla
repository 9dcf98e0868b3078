--------------------------------- MODULE Timer ---------------------------------
(***************************************************************************)
(* Where the ticks of Scheduler come from: the 64-bit MTIME and MTIMECMP   *)
(* of the machine timer, which this 32-bit core can only read and write in *)
(* halves, and the two places that do MTIMECMP = MTIME + TICK_INTERVAL:    *)
(* timer_isr, and main before its loop (main.c).                           *)
(*                                                                         *)
(* The interrupt is enabled before main is called (start.s), so it may     *)
(* come between any two accesses of main; in timer_isr it is masked.  Time *)
(* goes on between accesses, and which half comes first is the compiler's  *)
(* choice.                                                                 *)
(*                                                                         *)
(* Horizon bounds the time explored.                                       *)
(***************************************************************************)
EXTENDS Integers

CONSTANTS WORD,             \* number of values of a half
          TICK_INTERVAL,
          MaxLag,           \* time that passes between two accesses, at most
          Horizon

ASSUME TimerAssumption ==
    /\ WORD \in Nat /\ TICK_INTERVAL \in Nat /\ MaxLag \in Nat /\ Horizon \in Nat
    /\ 9 * MaxLag < TICK_INTERVAL         \* main and one timer_isr, at boot
    /\ 9 * MaxLag + TICK_INTERVAL < WORD

VARIABLES mtime,            \* MTIME
          mtimecmp,         \* MTIMECMP, by halves: a record of lo and hi
          sys_tick,
          reg,              \* the value main and timer_isr have in registers, by halves
          stage,            \* what they are doing: "load", "store" or "done"
          todo,             \* the halves they still have to access
          lag               \* time since the last access

vars == <<mtime, mtimecmp, sys_tick, reg, stage, todo, lag>>

Contexts == {"main", "isr"}
Halves == {"lo", "hi"}

(* MTIMECMP is 0 at reset, or the largest value, as the implementation has it. *)
Init ==
    /\ mtime = 0
    /\ mtimecmp \in {[lo |-> 0, hi |-> 0], [lo |-> WORD - 1, hi |-> Horizon]}
    /\ sys_tick = 0
    /\ reg = [c \in Contexts |-> [lo |-> 0, hi |-> 0]]
    /\ stage = [main |-> "load", isr |-> "done"]
    /\ todo = [main |-> Halves, isr |-> {}]
    /\ lag = 0

---------------------------------------------------------------------------------
Value(d) == d.hi * WORD + d.lo
Double(n) == [lo |-> n % WORD, hi |-> n \div WORD]

InterruptPending == mtime >= Value(mtimecmp)

(* The processor runs timer_isr, or else main. *)
Running(c) == stage[c] # "done" /\ (c = "main" => stage["isr"] = "done")

Idle == ~InterruptPending /\ \A c \in Contexts : stage[c] = "done"

(* Time passes.  An access, or the entry of the interrupt, follows within   *)
(* MaxLag.                                                                  *)
clock ==
    /\ mtime < Horizon
    /\ mtime' = mtime + 1
    /\ IF Idle THEN UNCHANGED lag
               ELSE lag < MaxLag /\ lag' = lag + 1
    /\ UNCHANGED <<mtimecmp, sys_tick, reg, stage, todo>>

trap_handler ==
    /\ stage["isr"] = "done"
    /\ InterruptPending
    /\ stage' = [stage EXCEPT !["isr"] = "load"]
    /\ todo' = [todo EXCEPT !["isr"] = Halves]
    /\ lag' = 0
    /\ UNCHANGED <<mtime, mtimecmp, sys_tick, reg>>

(* Mutant: the carry of the sum is lost. *)
NextDeadline_NoCarry(d) == [d EXCEPT !.lo = (@ + TICK_INTERVAL) % WORD]

NextDeadline(d) == Double(Value(d) + TICK_INTERVAL)

(* Mutant: it is MTIMECMP that TICK_INTERVAL is added to. *)
Loaded_Deadline(half) == mtimecmp[half]

Loaded(half) == Double(mtime)[half]

(* One half of MTIME is read; after the second the sum is computed. *)
load(c, half) ==
    /\ Running(c) /\ stage[c] = "load" /\ half \in todo[c]
    /\ LET read == [reg[c] EXCEPT ![half] = Loaded(half)] IN
       IF todo[c] = {half}
       THEN /\ reg' = [reg EXCEPT ![c] = NextDeadline(read)]
            /\ stage' = [stage EXCEPT ![c] = "store"]
            /\ todo' = [todo EXCEPT ![c] = Halves]
       ELSE /\ reg' = [reg EXCEPT ![c] = read]
            /\ todo' = [todo EXCEPT ![c] = @ \ {half}]
            /\ UNCHANGED stage
    /\ lag' = 0
    /\ UNCHANGED <<mtime, mtimecmp, sys_tick>>

(* One half of MTIMECMP is written; timer_isr then counts the tick. *)
store(c, half) ==
    /\ Running(c) /\ stage[c] = "store" /\ half \in todo[c]
    /\ mtimecmp' = [mtimecmp EXCEPT ![half] = reg[c][half]]
    /\ todo' = [todo EXCEPT ![c] = @ \ {half}]
    /\ IF todo[c] = {half}
       THEN /\ stage' = [stage EXCEPT ![c] = "done"]
            /\ sys_tick' = IF c = "isr" THEN sys_tick + 1 ELSE sys_tick
       ELSE UNCHANGED <<stage, sys_tick>>
    /\ lag' = 0
    /\ UNCHANGED <<mtime, reg>>

Next ==
    \/ clock
    \/ trap_handler
    \/ \E c \in Contexts, half \in Halves : load(c, half) \/ store(c, half)

Spec == Init /\ [][Next]_vars

---------------------------------------------------------------------------------
(* Properties *)

Armed == stage["main"] = "done" /\ stage["isr"] = "done"

(* A read that a carry falls into may put the next tick off by one round of *)
(* the low half (seven minutes), and never by more; before the first carry  *)
(* the next tick is an interval away at most.                               *)
NextTickInSight ==
    Armed => Value(mtimecmp) <= mtime + TICK_INTERVAL + IF mtime < WORD THEN 0 ELSE WORD

(* The tick is never ahead of the time it stands for by more than one tick  *)
(* for every carry, and one at boot, where the interrupt comes before main    *)
(* has set MTIMECMP.                                                         *)
TicksInTime ==
    sys_tick * TICK_INTERVAL <= mtime + TICK_INTERVAL * (mtime \div WORD + 1)
=================================================================================
