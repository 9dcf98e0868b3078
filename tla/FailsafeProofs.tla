----------------------------- MODULE FailsafeProofs -----------------------------
(***************************************************************************)
(* Proofs about Failsafe for any battery levels, drain, timeout and width  *)
(* of the counter, and any GPS receiver.                                   *)
(*                                                                         *)
(* What the properties rest on is Latched: a battery failsafe that holds   *)
(* on a charged battery exists only between sim_battery_update and         *)
(* failsafe_check of one pass, and only on a disarmed vehicle.             *)
(*                                                                         *)
(* The second half is about Vehicle: it keeps to Failsafe, so that these   *)
(* theorems hold of a vehicle that moves and may be out of contact, and    *)
(* once the battery failsafe has sent it home nothing leads it away again. *)
(***************************************************************************)
EXTENDS Vehicle, TLAPS

Latched ==
    failsafe_battery =>
        \/ battery_remaining_pct < BATTERY_RECOVERY_PCT
        \/ turn = "failsafe_check" /\ ~armed_state

LossIsFlagged == gps_loss_counter >= GPS_LOSS_TIMEOUT_TICKS => failsafe_gps
FlagIsLoss == turn # "failsafe_check" /\ failsafe_gps => gps_fix_type < 3

IInv == TypeOK /\ Latched /\ LossIsFlagged /\ FlagIsLoss

---------------------------------------------------------------------------------
(* The battery arithmetic stays in the percentage's range, and only a        *)
(* disarmed vehicle charges.                                                 *)
LEMMA BatteryRange ==
    ASSUME NEW pct \in 0 .. FULL_PCT, NEW drain \in Nat
    PROVE  /\ Discharged(pct, drain) \in 0 .. FULL_PCT
           /\ Discharged(pct, drain) <= pct
           /\ Charged(pct) \in 0 .. FULL_PCT
BY FailsafeAssumption DEF Discharged, Charged

LEMMA BatteryStep ==
    ASSUME TypeOK, BatteryUpdate
    PROVE  /\ battery_remaining_pct' \in 0 .. FULL_PCT
           /\ battery_tick_counter' \in 0 .. BATTERY_DRAIN_INTERVAL_TICKS - 1
           /\ armed_state => battery_remaining_pct' <= battery_remaining_pct
<1>1. Drain \in Nat
  BY FailsafeAssumption DEF Drain
<1>2. battery_remaining_pct \in 0 .. FULL_PCT
      /\ battery_tick_counter \in 0 .. BATTERY_DRAIN_INTERVAL_TICKS - 1
  BY DEF TypeOK
<1>3. CASE battery_tick_counter + 1 >= BATTERY_DRAIN_INTERVAL_TICKS
  <2>1. /\ battery_tick_counter' = 0
        /\ battery_remaining_pct' = IF armed_state
                                    THEN Discharged(battery_remaining_pct, Drain)
                                    ELSE Charged(battery_remaining_pct)
    BY <1>3 DEF BatteryUpdate
  <2>2. Discharged(battery_remaining_pct, Drain) \in 0 .. FULL_PCT
        /\ Discharged(battery_remaining_pct, Drain) <= battery_remaining_pct
        /\ Charged(battery_remaining_pct) \in 0 .. FULL_PCT
    BY <1>1, <1>2, BatteryRange
  <2>3. 0 \in 0 .. BATTERY_DRAIN_INTERVAL_TICKS - 1
    BY FailsafeAssumption
  <2> QED
    BY <2>1, <2>2, <2>3
<1>4. CASE ~(battery_tick_counter + 1 >= BATTERY_DRAIN_INTERVAL_TICKS)
  BY <1>2, <1>4, FailsafeAssumption DEF BatteryUpdate
<1> QED
  BY <1>3, <1>4

LEMMA InitInvariant == Init => IInv
<1> SUFFICES ASSUME Init PROVE IInv
  OBVIOUS
<1>1. /\ FULL_PCT \in 0 .. FULL_PCT
      /\ 0 \in 0 .. BATTERY_DRAIN_INTERVAL_TICKS - 1
      /\ 0 \in 0 .. UINT16 - 1 /\ 8 \in SatelliteCounts
      /\ ~(0 >= GPS_LOSS_TIMEOUT_TICKS)
  BY FailsafeAssumption DEF SatelliteCounts
<1>2. TypeOK
  BY <1>1 DEF Init, TypeOK, Modes
<1>3. Latched /\ LossIsFlagged /\ FlagIsLoss
  BY <1>1 DEF Init, Latched, LossIsFlagged, FlagIsLoss
<1> QED
  BY <1>2, <1>3 DEF IInv

LEMMA BatteryInvariant == IInv /\ sim_battery_update => IInv'
<1> SUFFICES ASSUME IInv, sim_battery_update PROVE IInv'
  OBVIOUS
<1>1. /\ turn' = "failsafe_check"
      /\ UNCHANGED <<custom_mode, armed_state, failsafe_battery, failsafe_gps,
                     gps_loss_counter>>
  BY DEF sim_battery_update, Following, failsafe
<1>2. /\ battery_remaining_pct' \in 0 .. FULL_PCT
      /\ battery_tick_counter' \in 0 .. BATTERY_DRAIN_INTERVAL_TICKS - 1
      /\ armed_state => battery_remaining_pct' <= battery_remaining_pct
  BY BatteryStep DEF IInv, sim_battery_update
<1>3. gps_satellites' \in SatelliteCounts
  BY DEF sim_battery_update, SatellitesUpdate, IInv, TypeOK, SatelliteCounts
<1>4. TypeOK'
  BY <1>1, <1>2, <1>3 DEF IInv, TypeOK
<1>5. turn # "failsafe_check"
  BY DEF sim_battery_update
<1>6. armed_state /\ failsafe_battery => battery_remaining_pct' < BATTERY_RECOVERY_PCT
  BY <1>2, <1>5, FailsafeAssumption DEF IInv, TypeOK, Latched
<1>7. Latched'
  BY <1>1, <1>6 DEF Latched
<1>8. LossIsFlagged' /\ FlagIsLoss'
  BY <1>1 DEF IInv, LossIsFlagged, FlagIsLoss
<1> QED
  BY <1>4, <1>7, <1>8 DEF IInv

LEMMA CheckInvariant == IInv /\ failsafe_check => IInv'
<1> SUFFICES ASSUME IInv, failsafe_check PROVE IInv'
  OBVIOUS
<1>1. /\ turn = "failsafe_check" /\ turn' = "poll"
      /\ UNCHANGED <<armed_state, battery_remaining_pct, battery_tick_counter,
                     gps_satellites>>
      /\ failsafe_battery' = BatteryFailing /\ failsafe_gps' = GpsFailing
      /\ gps_loss_counter' = LossCount /\ custom_mode' = ModeAfterCheck
  BY DEF failsafe_check, Following, battery
<1>2. BatteryFailing \in BOOLEAN /\ GpsFailing \in BOOLEAN
  BY DEF BatteryFailing, BatteryCritical, GpsFailing, GpsFails, GpsLost, GpsStillFailing,
         IInv, TypeOK
<1>3. LossCount \in 0 .. UINT16 - 1
  BY FailsafeAssumption DEF LossCount, IInv, TypeOK
<1>4. ModeAfterCheck \in Modes
  BY DEF ModeAfterCheck, Modes, LOITER, RTL, IInv, TypeOK
<1>5. TypeOK'
  BY <1>1, <1>2, <1>3, <1>4 DEF IInv, TypeOK
<1>6. BatteryFailing => battery_remaining_pct < BATTERY_RECOVERY_PCT
  BY FailsafeAssumption DEF BatteryFailing, BatteryCritical, IInv, TypeOK
<1>7. Latched'
  BY <1>1, <1>6 DEF Latched
<1>8. LossIsFlagged'
  <2>1. LossCount >= GPS_LOSS_TIMEOUT_TICKS => GpsLost
    BY FailsafeAssumption DEF LossCount
  <2>2. LossCount >= GPS_LOSS_TIMEOUT_TICKS => GpsFailing
    BY <2>1 DEF GpsFailing, GpsFails, GpsLost
  <2> QED
    BY <1>1, <2>2 DEF LossIsFlagged
<1>9. FlagIsLoss'
  <2>1. GpsFailing => gps_fix_type < 3
    BY DEF GpsFailing, GpsFails, GpsLost
  <2>2. gps_fix_type' = gps_fix_type
    BY <1>1 DEF gps_fix_type
  <2> QED
    BY <1>1, <2>1, <2>2 DEF FlagIsLoss
<1> QED
  BY <1>5, <1>7, <1>8, <1>9 DEF IInv

LEMMA StepInvariant == IInv /\ [Next]_vars => IInv'
<1> SUFFICES ASSUME IInv, [Next]_vars PROVE IInv'
  OBVIOUS
<1>1. CASE pass \/ mission_update \/ commands \/ UNCHANGED vars
  <2>1. /\ UNCHANGED <<battery_remaining_pct, battery_tick_counter, gps_satellites,
                       failsafe_battery, failsafe_gps, gps_loss_counter>>
        /\ custom_mode' \in Modes /\ armed_state' \in BOOLEAN
        /\ turn' = turn \/ (turn # "failsafe_check" /\ turn' # "failsafe_check")
        /\ turn' \in {"mission_update", "sim_battery_update", "failsafe_check", "poll"}
    BY <1>1 DEF IInv, TypeOK, pass, mission_update, commands, arm, disarm, set_flight_mode,
                vars, battery, failsafe, Following, Modes, STABILIZE
  <2>2. turn = "failsafe_check" => UNCHANGED <<turn, armed_state>>
    BY <1>1 DEF pass, mission_update, commands, arm, disarm, set_flight_mode, vars
  <2>3. TypeOK'
    BY <2>1 DEF IInv, TypeOK
  <2>4. Latched'
    BY <2>1, <2>2 DEF IInv, Latched
  <2>5. LossIsFlagged' /\ FlagIsLoss'
    BY <2>1, <2>2 DEF IInv, LossIsFlagged, FlagIsLoss, gps_fix_type
  <2> QED
    BY <2>3, <2>4, <2>5 DEF IInv
<1> QED
  BY <1>1, BatteryInvariant, CheckInvariant DEF Next, tasks

THEOREM Invariant == Spec => []IInv
BY InitInvariant, StepInvariant, PTL DEF Spec

---------------------------------------------------------------------------------
(* Every variable of the failsafe keeps its type; the percentage stays        *)
(* between 0 and 100 for any drain.                                           *)
THEOREM TypeCorrect == Spec => []TypeOK
BY Invariant, PTL DEF IInv

(* failsafe_gps is set exactly while the loss of the fix has lasted too long. *)
THEOREM GpsFlagTrue == Spec => []GpsFlagIsTrue
<1>1. IInv => GpsFlagIsTrue
  BY DEF IInv, LossIsFlagged, FlagIsLoss, GpsFlagIsTrue
<1> QED
  BY <1>1, Invariant, PTL

(* failsafe_check takes a battery failsafe back only on a disarmed vehicle.   *)
THEOREM FailsafeLasts == Spec => LastsWhileArmed
<1>1. IInv /\ [Next]_vars
        => [failsafe_battery /\ ~failsafe_battery' => ~armed_state]_vars
  <2> SUFFICES ASSUME IInv, Next, failsafe_battery, ~failsafe_battery'
               PROVE  ~armed_state
    OBVIOUS
  <2>1. failsafe_check
    BY DEF Next, tasks, pass, mission_update, sim_battery_update, commands, arm, disarm,
           set_flight_mode, failsafe
  <2>2. turn = "failsafe_check" /\ ~(battery_remaining_pct < BATTERY_RECOVERY_PCT)
    BY <2>1 DEF failsafe_check, BatteryFailing
  <2> QED
    BY <2>2 DEF IInv, Latched
<1> QED
  BY <1>1, Invariant, PTL DEF Spec, LastsWhileArmed

(* failsafe_check forces LOITER for the GPS only on a vehicle whose battery   *)
(* is not failing.                                                            *)
THEOREM BatteryFirst == Spec => BatteryOutranksGps
<1>1. IInv /\ [Next]_vars
        => [turn = "failsafe_check" /\ custom_mode # LOITER /\ custom_mode' = LOITER
               => ~failsafe_battery /\ ~BatteryCritical]_vars
  <2> SUFFICES ASSUME IInv, Next, turn = "failsafe_check", custom_mode # LOITER,
                      custom_mode' = LOITER
               PROVE  ~failsafe_battery /\ ~BatteryCritical
    OBVIOUS
  <2>1. failsafe_check
    BY DEF Next, tasks, pass, mission_update, sim_battery_update, commands, arm, disarm,
           set_flight_mode
  <2>2. GpsFails /\ ~BatteryFailing
    BY <2>1 DEF failsafe_check, ModeAfterCheck, LOITER, RTL
  <2>3. armed_state
    BY <2>2 DEF GpsFails, GpsLost
  <2>4. failsafe_battery => battery_remaining_pct < BATTERY_RECOVERY_PCT
    BY <2>3 DEF IInv, Latched
  <2> QED
    BY <2>2, <2>4 DEF BatteryFailing
<1> QED
  BY <1>1, Invariant, PTL DEF Spec, BatteryOutranksGps

(* No task takes a vehicle with a failing battery out of RTL.                 *)
THEOREM RtlHolds == Spec => OnlyPilotLeavesRtl
<1>1. IInv /\ [Next]_vars
        => [failsafe_battery /\ custom_mode = RTL /\ custom_mode' # RTL => commands]_vars
  <2> SUFFICES ASSUME IInv, tasks, failsafe_battery, custom_mode = RTL, custom_mode' # RTL
               PROVE  FALSE
    BY DEF Next
  <2>1. failsafe_check
    BY DEF tasks, pass, mission_update, sim_battery_update, AUTO, RTL
  <2>2. GpsFails /\ ~BatteryFailing
    BY <2>1 DEF failsafe_check, ModeAfterCheck
  <2>3. armed_state /\ ~(battery_remaining_pct < BATTERY_RECOVERY_PCT)
    BY <2>2 DEF GpsFails, GpsLost, BatteryFailing
  <2> QED
    BY <2>3 DEF IInv, Latched
<1> QED
  BY <1>1, Invariant, PTL DEF Spec, OnlyPilotLeavesRtl

---------------------------------------------------------------------------------
(* What Recharges and DrainsToFailsafe rest on: how far the battery has come  *)
(* on its way, in percents and within an interval.                            *)
Further(better) ==
    \/ better
    \/ /\ battery_remaining_pct' = battery_remaining_pct
       /\ battery_tick_counter' > battery_tick_counter

(* An update of the battery takes an armed vehicle further down until it is   *)
(* empty, and a disarmed one further up until it is full.                     *)
LEMMA BatteryProgress ==
    ASSUME TypeOK, BatteryUpdate
    PROVE  /\ armed_state => \/ Further(battery_remaining_pct' < battery_remaining_pct)
                             \/ battery_remaining_pct = 0 /\ battery_remaining_pct' = 0
           /\ ~armed_state => \/ Further(battery_remaining_pct' > battery_remaining_pct)
                              \/ /\ battery_remaining_pct = FULL_PCT
                                 /\ battery_remaining_pct' = FULL_PCT
<1>1. battery_remaining_pct \in 0 .. FULL_PCT /\ FULL_PCT \in Nat
      /\ battery_tick_counter \in 0 .. BATTERY_DRAIN_INTERVAL_TICKS - 1
  BY FailsafeAssumption DEF TypeOK
<1>2. Drain \in Nat \ {0}
  BY FailsafeAssumption DEF Drain
<1>3. CASE battery_tick_counter + 1 >= BATTERY_DRAIN_INTERVAL_TICKS
  <2>1. battery_remaining_pct' = IF armed_state THEN Discharged(battery_remaining_pct, Drain)
                                                ELSE Charged(battery_remaining_pct)
    BY <1>3 DEF BatteryUpdate
  <2>2. CASE armed_state
    <3>1. battery_remaining_pct' = Discharged(battery_remaining_pct, Drain)
      BY <2>1, <2>2
    <3> QED
      BY <1>1, <1>2, <2>2, <3>1 DEF Discharged, Further
  <2>3. CASE ~armed_state
    <3>1. battery_remaining_pct' = Charged(battery_remaining_pct)
      BY <2>1, <2>3
    <3> QED
      BY <1>1, <2>3, <3>1 DEF Charged, Further
  <2> QED
    BY <2>2, <2>3
<1>4. CASE ~(battery_tick_counter + 1 >= BATTERY_DRAIN_INTERVAL_TICKS)
  BY <1>1, <1>4, FailsafeAssumption DEF BatteryUpdate, Further
<1> QED
  BY <1>3, <1>4

Drains ==
    /\ battery_remaining_pct' <= battery_remaining_pct
    /\ sim_battery_update => \/ Further(battery_remaining_pct' < battery_remaining_pct)
                             \/ battery_remaining_pct = 0
Charges ==
    /\ battery_remaining_pct' >= battery_remaining_pct
    /\ sim_battery_update => \/ Further(battery_remaining_pct' > battery_remaining_pct)
                             \/ battery_remaining_pct = FULL_PCT

(* While a vehicle stays armed its battery never gains, while it stays        *)
(* disarmed it never loses, whatever modes, commands and failsafes come in    *)
(* between, and sim_battery_update always takes it further, to an empty or to *)
(* a full battery.                                                            *)
THEOREM BatteryGoesOneWay ==
    Spec => [][(armed_state => Drains) /\ (~armed_state => Charges)]_vars
<1>1. TypeOK /\ [Next]_vars => [(armed_state => Drains) /\ (~armed_state => Charges)]_vars
  <2> SUFFICES ASSUME TypeOK, Next
               PROVE  (armed_state => Drains) /\ (~armed_state => Charges)
    OBVIOUS
  <2>1. battery_remaining_pct \in 0 .. FULL_PCT /\ FULL_PCT \in Nat
    BY FailsafeAssumption DEF TypeOK
  <2>2. CASE sim_battery_update
    <3>1. BatteryUpdate
      BY <2>2 DEF sim_battery_update
    <3>2. battery_remaining_pct' \in 0 .. FULL_PCT
      BY <3>1, BatteryStep
    <3>3. CASE armed_state
      BY <2>1, <3>1, <3>2, <3>3, BatteryProgress DEF Further, Drains
    <3>4. CASE ~armed_state
      BY <2>1, <3>1, <3>2, <3>4, BatteryProgress DEF Further, Charges
    <3> QED
      BY <3>3, <3>4
  <2>3. CASE ~sim_battery_update
    <3>1. battery_remaining_pct' = battery_remaining_pct
      BY <2>3 DEF Next, tasks, pass, mission_update, failsafe_check, commands, arm, disarm,
         set_flight_mode, battery
    <3> QED
      BY <2>1, <2>3, <3>1 DEF Drains, Charges
  <2> QED
    BY <2>2, <2>3
<1> QED
  BY <1>1, TypeCorrect, PTL DEF Spec

(* The battery failsafe never comes on without sending the vehicle home, also *)
(* in a check in which the GPS fails; and no check passes a critical battery. *)
(* With RtlHolds and NothingLeadsAway, what BatteryBringsHome needs beside    *)
(* fairness.                                                                  *)
THEOREM FailsafeForcesRtl ==
    Spec => [][/\ ~failsafe_battery /\ failsafe_battery' => BatteryCritical /\ custom_mode' = RTL
               /\ failsafe_check /\ BatteryCritical => failsafe_battery']_vars
<1>1. ASSUME Next, ~failsafe_battery, failsafe_battery'
      PROVE  BatteryCritical /\ custom_mode' = RTL
  <2>1. failsafe_check
    BY <1>1 DEF Next, tasks, pass, mission_update, sim_battery_update, commands, arm, disarm,
           set_flight_mode, failsafe
  <2>2. BatteryFailing /\ custom_mode' = ModeAfterCheck
    BY <1>1, <2>1 DEF failsafe_check
  <2>3. BatteryCritical /\ BatteryFails
    BY <1>1, <2>2 DEF BatteryFailing, BatteryFails
  <2> QED
    BY <2>2, <2>3 DEF ModeAfterCheck
<1>2. ASSUME failsafe_check, BatteryCritical PROVE failsafe_battery'
  BY <1>2 DEF failsafe_check, BatteryFailing
<1>3. [Next]_vars =>
        [/\ ~failsafe_battery /\ failsafe_battery' => BatteryCritical /\ custom_mode' = RTL
         /\ failsafe_check /\ BatteryCritical => failsafe_battery']_vars
  BY <1>1, <1>2
<1> QED
  BY <1>3, PTL DEF Spec

---------------------------------------------------------------------------------
(* Every step of the vehicle is a step of Failsafe or leaves it alone.       *)
LEMMA StepIsFailsafeStep ==
    ASSUME [VehicleNext]_vehicleVars
    PROVE  [Next]_vars
<1>1. CASE scheduler_run
  BY <1>1 DEF scheduler_run, mission_update_task, other_tasks, Next, tasks
<1>2. CASE mavlink_rx_poll
  BY <1>2 DEF mavlink_rx_poll, update_home_position, Next
<1>3. CASE ContactLost \/ UNCHANGED vehicleVars
  BY <1>3 DEF ContactLost, vehicleVars
<1> QED
  BY <1>1, <1>2, <1>3 DEF VehicleNext

(* The vehicle implements Failsafe: flying, moving home and losing contact   *)
(* add nothing to what happens to the battery, the GPS and the mode.         *)
THEOREM VehicleImplementsFailsafe == VehicleSpec => Spec
<1>1. VehicleInit => Init
  BY DEF VehicleInit
<1>2. [VehicleNext]_vehicleVars => [Next]_vars
  BY StepIsFailsafeStep
<1> QED
  BY <1>1, <1>2, PTL DEF VehicleSpec, Spec

(* What Failsafe promises holds of the vehicle.                              *)
COROLLARY VehicleKeepsFailsafe ==
    VehicleSpec => /\ []GpsFlagIsTrue
                   /\ BatteryOutranksGps
                   /\ LastsWhileArmed
                   /\ OnlyPilotLeavesRtl
BY VehicleImplementsFailsafe, GpsFlagTrue, BatteryFirst, FailsafeLasts, RtlHolds

---------------------------------------------------------------------------------
Located == distance \in Distances

LEMMA LocatedInvariant == VehicleSpec => []Located
<1>1. VehicleInit => Located
  BY FarAssumption DEF VehicleInit, Located, Distances
<1>2. Located /\ [VehicleNext]_vehicleVars => Located'
  BY FarAssumption
     DEF Located, Distances, VehicleNext, vehicleVars, scheduler_run, mission_update_task,
         Returns, FliesElsewhere, Holds, other_tasks, mavlink_rx_poll,
         update_home_position, ContactLost
<1> QED
  BY <1>1, <1>2, PTL DEF VehicleSpec

(* Failsafe's invariant holds of the vehicle.                                *)
LEMMA VehicleInvariant == VehicleSpec => [](IInv /\ Located)
BY VehicleImplementsFailsafe, Invariant, LocatedInvariant, PTL

(* A task that is not mission_update leaves a vehicle whose battery has      *)
(* failed in RTL; RtlHolds says so of all tasks.                             *)
LEMMA TasksKeepRtl ==
    ASSUME IInv, tasks, failsafe_battery, custom_mode = RTL
    PROVE  custom_mode' = RTL
<1>1. CASE pass \/ sim_battery_update
  BY <1>1 DEF pass, sim_battery_update
<1>2. CASE mission_update
  BY <1>2 DEF mission_update, RTL, AUTO
<1>3. CASE failsafe_check
  <2>1. ~BatteryFails
    BY DEF BatteryFails
  <2>2. GpsFails => BatteryFailing
    <3>1. turn = "failsafe_check"
      BY <1>3 DEF failsafe_check
    <3>2. CASE battery_remaining_pct < BATTERY_RECOVERY_PCT
      BY <3>2 DEF BatteryFailing
    <3>3. CASE ~armed_state
      BY <3>3 DEF GpsFails, GpsLost
    <3> QED
      BY <3>2, <3>3 DEF IInv, Latched
  <2> QED
    BY <1>3, <2>1, <2>2 DEF failsafe_check, ModeAfterCheck
<1> QED
  BY <1>1, <1>2, <1>3 DEF tasks

(* Out of contact, a vehicle the battery failsafe holds in RTL stays in RTL   *)
(* and comes no further away from home.                                       *)
THEOREM NothingLeadsAway == VehicleSpec => NoWayBack
<1>1. ASSUME IInv, Located, [VehicleNext]_vehicleVars,
             ~contact, failsafe_battery, custom_mode = RTL
      PROVE  custom_mode' = RTL /\ distance' <= distance
  <2>1. distance \in Nat
    BY <1>1, FarAssumption DEF Located, Distances
  <2>2. CASE mission_update_task
    <3>1. custom_mode' = RTL
      BY <1>1, <2>2, TasksKeepRtl DEF mission_update_task, tasks
    <3>2. Returns
      BY <1>1, <2>2 DEF mission_update_task, FliesElsewhere, Holds, RTL, AUTO, GUIDED
    <3>3. distance' <= distance
      BY <2>1, <3>2 DEF Returns
    <3> QED
      BY <3>1, <3>3
  <2>3. CASE other_tasks
    BY <1>1, <2>1, <2>3, TasksKeepRtl DEF other_tasks, tasks
  <2>4. CASE mavlink_rx_poll
    BY <1>1, <2>4 DEF mavlink_rx_poll
  <2>5. CASE ContactLost \/ UNCHANGED vehicleVars
    BY <1>1, <2>1, <2>5 DEF ContactLost, vehicleVars, vars
  <2> QED
    BY <1>1, <2>2, <2>3, <2>4, <2>5 DEF VehicleNext, scheduler_run
<1>2. IInv /\ Located /\ [VehicleNext]_vehicleVars
        => [~contact /\ failsafe_battery /\ custom_mode = RTL
               => custom_mode' = RTL /\ distance' <= distance]_vehicleVars
  BY <1>1
<1> QED
  BY <1>2, VehicleInvariant, PTL DEF VehicleSpec, NoWayBack
=================================================================================
