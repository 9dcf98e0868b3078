--------------------------------- MODULE Flight ---------------------------------
(***************************************************************************)
(* The vehicle in flight: MissionStore with the rest of mission_update     *)
(* (mission.c) and of the handlers that steer it (mavlink_rx.c).  Here the *)
(* vehicle is somewhere, returns to a home that can be moved, flies to     *)
(* targets set in GUIDED, and a waypoint is reached by flying to it.       *)
(*                                                                         *)
(* Space is a line of places, each as large as the acceptance radius.  An  *)
(* update that finds the vehicle away from its target brings it closer,    *)
(* to any nearer place: how far a step goes is left open.                  *)
(***************************************************************************)
EXTENDS MissionStore

CONSTANTS Far,          \* the last place of the line
          Base,         \* the place the vehicle starts at
          FirstHome,    \* where home is until it is set; the code has it 90 m higher
          Landmarks     \* places that home and GUIDED targets are put at

GUIDED == 4
Places == 0 .. Far
None == -1

ASSUME PlacesAssumption ==
    /\ Far \in Nat
    /\ Base \in Places /\ FirstHome \in Places
    /\ Landmarks \subseteq Places
    /\ Waypoints \subseteq Places
ASSUME GuidedAssumption == GUIDED \in OtherModes

VARIABLES
    position, home,
    rtl_active,                 \* 0 inactive, 1 in progress, 2 complete
    rtl_measurement_active,     \* an RTL is being timed
    guided_target               \* None unless guided_target_set

course == <<home, guided_target>>
return == <<rtl_active, rtl_measurement_active>>
steering == <<position, course, return>>
flightVars == <<vars, steering>>

PlacesOK ==
    position \in Places /\ home \in Places /\ guided_target \in Places \cup {None}

FlightTypeOK ==
    /\ PlacesOK
    /\ rtl_active \in 0 .. 2
    /\ rtl_measurement_active \in BOOLEAN

FlightInit ==
    /\ Init
    /\ position = Base /\ home = FirstHome /\ guided_target = None
    /\ rtl_active = 0 /\ rtl_measurement_active = FALSE

---------------------------------------------------------------------------------
(* mission_update *)

Distance(p, q) == IF p >= q THEN p - q ELSE q - p

(* Mutant: a step may pass the target. *)
MoveToward_Overshoot(target) == position' \in Places \ {position}

(* move_toward_2d and move_toward, away from the target. *)
MoveToward(target) ==
    position' \in {p \in Places : Distance(p, target) < Distance(position, target)}

(* Mutant: the timing is not started. *)
RtlStarts_Untimed ==
    /\ rtl_active = 0
    /\ RtlStart
    /\ \/ position = home /\ rtl_active' = 2 /\ UNCHANGED position
       \/ position # home /\ rtl_active' = 1 /\ MoveToward(home)
    /\ UNCHANGED <<course, rtl_measurement_active>>

(* The first update in RTL: the mission is given up, and an RTL away from home *)
(* starts to be timed.  (Started at home, it is complete at once, and prints   *)
(* the result of a timing that is still open.)                                 *)
RtlStarts ==
    /\ rtl_active = 0
    /\ RtlStart
    /\ \/ /\ position = home
          /\ rtl_active' = 2 /\ rtl_measurement_active' = FALSE
          /\ UNCHANGED position
       \/ /\ position # home
          /\ rtl_active' = 1 /\ rtl_measurement_active' = TRUE
          /\ MoveToward(home)
    /\ UNCHANGED course

RtlArrives ==
    /\ custom_mode = RTL
    /\ rtl_active # 0
    /\ position = home
    /\ rtl_active' = 2
    /\ rtl_measurement_active' = (rtl_measurement_active /\ rtl_active # 1)
    /\ UNCHANGED <<vars, position, course>>

RtlReturns ==
    /\ custom_mode = RTL
    /\ rtl_active # 0
    /\ position # home
    /\ MoveToward(home)
    /\ UNCHANGED <<vars, course, return>>

(* Mutant: it does not. *)
RtlLeft_Remembered == UNCHANGED return

(* Every mode but RTL first forgets the RTL before it. *)
RtlLeft == rtl_active' = 0 /\ UNCHANGED rtl_measurement_active

guided_target_set == guided_target # None
GuidedTo == custom_mode = GUIDED /\ guided_target_set

GuidedArrives ==
    /\ GuidedTo
    /\ position = guided_target
    /\ guided_target' = None
    /\ RtlLeft
    /\ UNCHANGED <<vars, position, home>>

GuidedFlies ==
    /\ GuidedTo
    /\ position # guided_target
    /\ MoveToward(guided_target)
    /\ RtlLeft
    /\ UNCHANGED <<vars, course>>

Hovers ==
    /\ custom_mode \notin {RTL, AUTO}
    /\ ~GuidedTo
    /\ RtlLeft
    /\ UNCHANGED <<vars, position, course>>

AutoStays ==
    /\ AutoIdle \/ AutoBlocked
    /\ RtlLeft
    /\ UNCHANGED <<position, course>>

(* The waypoint steered to; an index past the array reads other memory. *)
WaypointTargets ==
    IF current_waypoint_idx \in Slots THEN {mission[current_waypoint_idx]} ELSE Places

AutoFlies ==
    /\ AutoFly
    /\ \E target \in WaypointTargets : position # target /\ MoveToward(target)
    /\ RtlLeft
    /\ UNCHANGED course

(* Mutant: the finished mission is not saved. *)
AutoArrives_NotSaved ==
    /\ \/ WaypointReached
       \/ /\ CompletionDue
          /\ mission_active' = FALSE /\ current_waypoint_idx' = NextWp
          /\ UNCHANGED <<array, current, pending, upload, integrity, chal_resp_ok,
                         custom_mode, nvm>>
    /\ position \in WaypointTargets
    /\ RtlLeft
    /\ UNCHANGED <<position, course>>

AutoArrives ==
    /\ WaypointReached \/ MissionComplete
    /\ position \in WaypointTargets
    /\ RtlLeft
    /\ UNCHANGED <<position, course>>

mission_update_task ==
    \/ RtlStarts \/ RtlArrives \/ RtlReturns
    \/ GuidedArrives \/ GuidedFlies \/ Hovers
    \/ AutoStays \/ AutoFlies \/ AutoArrives

---------------------------------------------------------------------------------
(* Commands *)

(* DO_SET_HOME and SET_HOME_POSITION. *)
update_home_position(p) ==
    /\ home' = p
    /\ UNCHANGED <<vars, position, guided_target, return>>

handle_set_position_target_global_int(p) ==
    /\ custom_mode = GUIDED
    /\ guided_target' = p
    /\ UNCHANGED <<vars, position, home, return>>

(* mission_reset, called when an upload begins and when the mission is       *)
(* cleared, also resets rtl_active.                                          *)
UploadResets ==
    /\ UploadBegun
    /\ rtl_active' = 0
    /\ UNCHANGED <<position, course, rtl_measurement_active>>

ClearAll ==
    /\ handle_mission_clear_all
    /\ rtl_active' = 0
    /\ guided_target' = None
    /\ UNCHANGED <<position, home, rtl_measurement_active>>

(* A mode command, or the failsafe, and the rest of an upload. *)
OtherHandlers == (UploadGoesOn \/ ModeChosen) /\ UNCHANGED steering

commands ==
    \/ \E p \in Landmarks : update_home_position(p)
                              \/ handle_set_position_target_global_int(p)
    \/ UploadResets \/ ClearAll \/ OtherHandlers

(* The power may go in a save once the last waypoint is reached. *)
SaveCutShort ==
    /\ LastItemDue \/ position \in WaypointTargets
    /\ PowerLossInSave

PowerUp ==
    /\ Reboot \/ SaveCutShort \/ NvmWorn
    /\ position' = Base /\ home' = FirstHome /\ guided_target' = None
    /\ rtl_active' = 0 /\ rtl_measurement_active' = FALSE

FlightNext == mission_update_task \/ commands \/ PowerUp

FlightSpec == FlightInit /\ [][FlightNext]_flightVars

(* The scheduler runs mission_update again and again (Scheduler!EveryTaskRuns). *)
FairFlightSpec == FlightSpec /\ WF_flightVars(mission_update_task)

---------------------------------------------------------------------------------
(* Properties *)

(* Once RTL is on its way the mission is over: whatever mode is commanded    *)
(* next, AUTO starts the mission anew, behind the digest check.  RtlStarts   *)
(* clears mission_active only when rtl_active is clear, and a mode change    *)
(* leaves rtl_active set until the next update.                              *)
RtlEndsMission == rtl_active # 0 => ~mission_active

(* An RTL in progress is always being timed, so its arrival prints a result. *)
ReturnIsTimed == rtl_active = 1 => rtl_measurement_active

(* The flight code keeps to MissionStore, where a waypoint is reached at any *)
(* time and RTL clears mission_active at every update.                       *)
StoreSpec == Spec

(* A vehicle left in RTL with its home where it is comes home and stays.     *)
ComesHome ==
    \A p \in Landmarks :
        <>[](custom_mode = RTL /\ home = p) => <>[](position = p)

(* A vehicle left in AUTO with an active mission does not hang at a          *)
(* waypoint of the array, unless its waypoints keep being edited.            *)
MissionGoesOn ==
    \A i \in Slots :
        <>[](custom_mode = AUTO /\ mission_active /\ current_waypoint_idx = i)
            => []<><<mission' # mission>>_flightVars
=================================================================================
