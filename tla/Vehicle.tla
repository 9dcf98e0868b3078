--------------------------------- MODULE Vehicle ---------------------------------
(***************************************************************************)
(* Failsafe on a vehicle that is somewhere: how far it is from home, what  *)
(* mission_update does about it in each mode (mission.c), and the commands *)
(* that move home.  Its question is what becomes of a vehicle that its     *)
(* ground station does not reach any more: the firmware has no failsafe    *)
(* for that, so it is the battery that has to bring it home.               *)
(*                                                                         *)
(* A place is as large as the acceptance radius.  That an update in RTL    *)
(* comes nearer to home is Navigation!ClosesIn.                            *)
(***************************************************************************)
EXTENDS Failsafe

CONSTANT Far                \* the largest distance from home

ASSUME FarAssumption == Far \in Nat \ {0}

VARIABLES distance,         \* from home
          contact           \* whether commands arrive

vehicleVars == <<vars, distance, contact>>

Distances == 0 .. Far

(* The vehicle starts below its home: 10 m high, and home_alt is 100 m. *)
VehicleInit == Init /\ distance \in Distances \ {0} /\ contact = TRUE

---------------------------------------------------------------------------------
(* Mutant: a step may pass home. *)
Returns_Overshoot ==
    /\ custom_mode = RTL
    /\ distance' \in IF distance = 0 THEN {0} ELSE Distances \ {distance}

(* RTL, from the place the vehicle is at, whatever rtl_active says. *)
Returns ==
    /\ custom_mode = RTL
    /\ distance' \in IF distance = 0 THEN {0} ELSE 0 .. distance - 1

(* A mission or a GUIDED target leads anywhere. *)
FliesElsewhere == custom_mode \in {AUTO, GUIDED} /\ distance' \in Distances

Holds == custom_mode \notin {AUTO, GUIDED, RTL} /\ UNCHANGED distance

mission_update_task ==
    /\ mission_update
    /\ Returns \/ FliesElsewhere \/ Holds

(* The rest of scheduler_run leaves the vehicle where it is. *)
other_tasks == (pass \/ sim_battery_update \/ failsafe_check) /\ UNCHANGED distance

scheduler_run == (mission_update_task \/ other_tasks) /\ UNCHANGED contact

(* DO_SET_HOME and SET_HOME_POSITION put home anywhere. *)
update_home_position ==
    /\ turn = "poll"
    /\ distance' \in Distances
    /\ UNCHANGED vars

mavlink_rx_poll ==
    /\ contact
    /\ \/ commands /\ UNCHANGED distance
       \/ update_home_position
    /\ UNCHANGED contact

ContactLost == contact' = FALSE /\ UNCHANGED <<vars, distance>>

VehicleNext == scheduler_run \/ mavlink_rx_poll \/ ContactLost

VehicleSpec == VehicleInit /\ [][VehicleNext]_vehicleVars

(* The scheduler runs every task again and again (Scheduler!EveryTaskRuns). *)
FairVehicleSpec == VehicleSpec /\ WF_vehicleVars(scheduler_run)

---------------------------------------------------------------------------------
(* Properties *)

(* A vehicle that is out of contact, armed, with a battery that has not      *)
(* failed yet, ends up at home in RTL and stays there, wherever its mission  *)
(* leads it and whatever the GPS failsafe does meanwhile.  (One whose pilot  *)
(* has already overruled the battery failsafe does not: it forces RTL once.) *)
BatteryBringsHome ==
    ~contact /\ armed_state /\ ~failsafe_battery ~> [](custom_mode = RTL /\ distance = 0)

(* Meanwhile nothing leads it away again: no other mode, no other home.      *)
NoWayBack ==
    [][~contact /\ failsafe_battery /\ custom_mode = RTL
          => custom_mode' = RTL /\ distance' <= distance]_vehicleVars
=================================================================================
