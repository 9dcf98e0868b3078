-------------------------------- MODULE Failsafe --------------------------------
(***************************************************************************)
(* Arming, the simulated battery and GPS, and the failsafe that overrides  *)
(* the flight mode (mission.c, with the commands of mavlink_rx.c).         *)
(*                                                                         *)
(* mission_update, sim_battery_update and failsafe_check have one period   *)
(* and so run in the same passes, in this order (Scheduler!InStep);        *)
(* commands are handled between passes.  Of mission_update only its effect *)
(* on the mode is here: the verification gate may leave AUTO.              *)
(***************************************************************************)
EXTENDS Integers

CONSTANTS FULL_PCT,                \* 100
          BATTERY_CRITICAL_PCT,
          BATTERY_RECOVERY_PCT,
          BATTERY_DRAIN_IDLE_PCT,  \* lost per interval when armed
          BATTERY_DRAIN_MOVE_PCT,  \* and in a mode that moves the vehicle
          BATTERY_DRAIN_INTERVAL_TICKS,
          GPS_LOSS_TIMEOUT_TICKS,
          UINT16,                  \* number of values of gps_loss_counter
          AnyReceiver              \* whether the satellites are those of some other
                                   \* receiver, rather than the simulated one

ASSUME FailsafeAssumption ==
    /\ FULL_PCT \in Nat
    /\ BATTERY_RECOVERY_PCT \in 1 .. FULL_PCT
    /\ BATTERY_CRITICAL_PCT \in 0 .. BATTERY_RECOVERY_PCT - 1
    /\ BATTERY_DRAIN_IDLE_PCT \in Nat \ {0} /\ BATTERY_DRAIN_MOVE_PCT \in Nat \ {0}
    /\ BATTERY_DRAIN_INTERVAL_TICKS \in Nat \ {0}
    /\ GPS_LOSS_TIMEOUT_TICKS \in Nat \ {0}
    /\ UINT16 \in Nat /\ GPS_LOSS_TIMEOUT_TICKS < UINT16
    /\ AnyReceiver \in BOOLEAN

STABILIZE == 0
AUTO == 3
GUIDED == 4
LOITER == 5
RTL == 6
Modes == {STABILIZE, AUTO, GUIDED, LOITER, RTL}

VARIABLES custom_mode, armed_state,
          battery_remaining_pct, battery_tick_counter,
          gps_satellites,
          failsafe_battery, failsafe_gps, gps_loss_counter,
          turn     \* the task to run, or "poll" between passes

battery == <<battery_remaining_pct, battery_tick_counter>>
failsafe == <<failsafe_battery, failsafe_gps, gps_loss_counter>>
vars == <<custom_mode, armed_state, battery, gps_satellites, failsafe, turn>>

SatelliteCounts == 0 .. 8
gps_fix_type == IF gps_satellites >= 4 THEN 3 ELSE 2

TypeOK ==
    /\ custom_mode \in Modes
    /\ armed_state \in BOOLEAN
    /\ battery_remaining_pct \in 0 .. FULL_PCT
    /\ battery_tick_counter \in 0 .. BATTERY_DRAIN_INTERVAL_TICKS - 1
    /\ gps_satellites \in SatelliteCounts
    /\ failsafe_battery \in BOOLEAN
    /\ failsafe_gps \in BOOLEAN
    /\ gps_loss_counter \in 0 .. UINT16 - 1
    /\ turn \in {"mission_update", "sim_battery_update", "failsafe_check", "poll"}

Init ==
    /\ custom_mode = STABILIZE
    /\ armed_state = FALSE
    /\ battery_remaining_pct = FULL_PCT
    /\ battery_tick_counter = 0
    /\ gps_satellites = 8
    /\ failsafe_battery = FALSE /\ failsafe_gps = FALSE
    /\ gps_loss_counter = 0
    /\ turn = "poll"

---------------------------------------------------------------------------------
(* The tasks *)

(* Mutant: failsafe_check comes before sim_battery_update. *)
Following_FailsafeFirst(task) ==
    CASE task = "poll" -> "mission_update"
      [] task = "mission_update" -> "failsafe_check"
      [] task = "failsafe_check" -> "sim_battery_update"
      [] OTHER -> "poll"

(* The order of tasks[]. *)
Following(task) ==
    CASE task = "poll" -> "mission_update"
      [] task = "mission_update" -> "sim_battery_update"
      [] task = "sim_battery_update" -> "failsafe_check"
      [] OTHER -> "poll"

mission_update ==
    /\ turn = "mission_update"
    /\ \/ UNCHANGED custom_mode
       \/ custom_mode = AUTO /\ custom_mode' = STABILIZE
    /\ turn' = Following(turn)
    /\ UNCHANGED <<armed_state, battery, gps_satellites, failsafe>>

(* Mutant: the last drop is never drained. *)
Discharged_Stuck(pct, drain) == IF pct > drain THEN pct - drain ELSE pct

Discharged(pct, drain) == IF pct > drain THEN pct - drain ELSE 0

Charged(pct) == IF pct < FULL_PCT THEN pct + 1 ELSE pct

Drain == IF custom_mode \in {AUTO, GUIDED, RTL} THEN BATTERY_DRAIN_MOVE_PCT
                                                ELSE BATTERY_DRAIN_IDLE_PCT

BatteryUpdate ==
    IF battery_tick_counter + 1 >= BATTERY_DRAIN_INTERVAL_TICKS
    THEN /\ battery_tick_counter' = 0
         /\ battery_remaining_pct' =
               IF armed_state THEN Discharged(battery_remaining_pct, Drain)
                              ELSE Charged(battery_remaining_pct)
    ELSE /\ battery_tick_counter' = battery_tick_counter + 1
         /\ UNCHANGED battery_remaining_pct

(* The simulation loses or finds a satellite at some ticks: every 137th and  *)
(* every 251st.                                                              *)
SatellitesUpdate ==
    \/ UNCHANGED gps_satellites
    \/ gps_satellites > 6 /\ gps_satellites' = gps_satellites - 1
    \/ gps_satellites < 6 /\ gps_satellites' = gps_satellites + 1
    \/ AnyReceiver /\ gps_satellites' \in SatelliteCounts

sim_battery_update ==
    /\ turn = "sim_battery_update"
    /\ BatteryUpdate
    /\ SatellitesUpdate
    /\ turn' = Following(turn)
    /\ UNCHANGED <<custom_mode, armed_state, failsafe>>

BatteryCritical == armed_state /\ battery_remaining_pct <= BATTERY_CRITICAL_PCT
BatteryFails == BatteryCritical /\ ~failsafe_battery

(* Mutant: the recovery level is not looked at. *)
BatteryFailing_NoRecovery == BatteryCritical \/ failsafe_battery

(* failsafe_battery after the check. *)
BatteryFailing ==
    \/ BatteryCritical
    \/ failsafe_battery /\ battery_remaining_pct < BATTERY_RECOVERY_PCT

GpsLost == armed_state /\ gps_fix_type < 3
LossCount == IF GpsLost THEN (gps_loss_counter + 1) % UINT16 ELSE 0

(* The flag as the battery part of the check leaves it to the GPS part. *)
GpsStillFailing == failsafe_gps /\ ~BatteryFails

(* Mutant: the counter must pass the limit. *)
GpsFails_Late ==
    GpsLost /\ LossCount > GPS_LOSS_TIMEOUT_TICKS /\ ~GpsStillFailing

GpsFails == GpsLost /\ LossCount >= GPS_LOSS_TIMEOUT_TICKS /\ ~GpsStillFailing

(* Mutant: a lost GPS holds the vehicle whatever the battery says. *)
ModeAfterCheck_GpsFirst ==
    IF GpsFails THEN LOITER ELSE IF BatteryFails THEN RTL ELSE custom_mode

ModeAfterCheck ==
    IF GpsFails /\ ~BatteryFailing THEN LOITER
    ELSE IF BatteryFails THEN RTL ELSE custom_mode

GpsFailing == GpsFails \/ (GpsStillFailing /\ gps_fix_type < 3)

failsafe_check ==
    /\ turn = "failsafe_check"
    /\ failsafe_battery' = BatteryFailing
    /\ failsafe_gps' = GpsFailing
    /\ gps_loss_counter' = LossCount
    /\ custom_mode' = ModeAfterCheck
    /\ turn' = Following(turn)
    /\ UNCHANGED <<armed_state, battery, gps_satellites>>

---------------------------------------------------------------------------------
(* Commands, between passes *)

arm ==
    /\ turn = "poll"
    /\ armed_state' = TRUE
    /\ UNCHANGED <<custom_mode, battery, gps_satellites, failsafe, turn>>

disarm ==
    /\ turn = "poll"
    /\ armed_state' = FALSE
    /\ UNCHANGED <<custom_mode, battery, gps_satellites, failsafe, turn>>

set_flight_mode(mode) ==
    /\ turn = "poll"
    /\ custom_mode' = mode
    /\ UNCHANGED <<armed_state, battery, gps_satellites, failsafe, turn>>

pass ==
    /\ turn = "poll"
    /\ turn' = Following(turn)
    /\ UNCHANGED <<custom_mode, armed_state, battery, gps_satellites, failsafe>>

tasks == pass \/ mission_update \/ sim_battery_update \/ failsafe_check

commands == arm \/ disarm \/ \E mode \in Modes : set_flight_mode(mode)

Next == tasks \/ commands

Spec == Init /\ [][Next]_vars

(* The scheduler runs every task again and again (Scheduler!EveryTaskRuns). *)
FairSpec == Spec /\ WF_vars(tasks)

---------------------------------------------------------------------------------
(* Properties *)

(* Between passes failsafe_gps tells the truth: it is set for as long as the  *)
(* fix has been lost for the time allowed, and never once the fix is back,    *)
(* also when a battery failsafe cleared it in the same check.                 *)
GpsFlagIsTrue ==
    turn # "failsafe_check" =>
        /\ gps_loss_counter >= GPS_LOSS_TIMEOUT_TICKS => failsafe_gps
        /\ failsafe_gps => gps_fix_type < 3

(* The battery outranks the GPS: no check forces LOITER on a vehicle whose    *)
(* battery is critical, or has been and is not yet recovered.                 *)
BatteryOutranksGps ==
    [][turn = "failsafe_check" /\ custom_mode # LOITER /\ custom_mode' = LOITER
          => ~failsafe_battery /\ ~BatteryCritical]_vars

(* A battery failsafe lasts until the vehicle has been disarmed long enough   *)
(* to charge: it is never taken back in flight, although arming can follow    *)
(* a charge at once.                                                          *)
LastsWhileArmed ==
    [][failsafe_battery /\ ~failsafe_battery' => ~armed_state]_vars

(* Once the battery failsafe holds, nothing but a command takes the vehicle   *)
(* out of RTL.                                                                *)
OnlyPilotLeavesRtl ==
    [][failsafe_battery /\ custom_mode = RTL /\ custom_mode' # RTL => commands]_vars

(* A vehicle left disarmed charges to the full and its failsafe clears.       *)
Recharges ==
    <>[]~armed_state => <>[](battery_remaining_pct = FULL_PCT /\ ~failsafe_battery)

(* A vehicle left armed drains until the battery failsafe holds for good.     *)
DrainsToFailsafe == <>[]armed_state => <>[]failsafe_battery
=================================================================================
