------------------------------ MODULE FlightProofs ------------------------------
(***************************************************************************)
(* Flight implements MissionStore, so that what MissionStoreProofs shows   *)
(* of the stored mission holds of the vehicle in flight, and the bookkeep- *)
(* ing of RTL is right, for every line of places and size of the store.    *)
(*                                                                         *)
(* The second half is about measures: how far it is home and to the next   *)
(* waypoint, and that no interleaving of updates and messages adds to it.  *)
(***************************************************************************)
EXTENDS Flight, MissionStoreProofs

(* A step of mission_update is one of MissionStore's or leaves the store alone. *)
LEMMA UpdateKeepsToStore ==
    ASSUME mission_update_task PROVE mission_update \/ UNCHANGED vars
<1>1. CASE RtlStarts
  BY <1>1 DEF RtlStarts, mission_update
<1>2. CASE RtlArrives \/ RtlReturns
  BY <1>2 DEF RtlArrives, RtlReturns
<1>3. CASE GuidedArrives \/ GuidedFlies \/ Hovers
  BY <1>3 DEF GuidedArrives, GuidedFlies, Hovers
<1>4. CASE AutoStays
  BY <1>4 DEF AutoStays, mission_update
<1>5. CASE AutoFlies
  BY <1>5 DEF AutoFlies, mission_update
<1>6. CASE AutoArrives
  BY <1>6 DEF AutoArrives, mission_update
<1> QED
  BY <1>1, <1>2, <1>3, <1>4, <1>5, <1>6 DEF mission_update_task

(* So is a command. *)
LEMMA CommandKeepsToStore ==
    ASSUME commands PROVE Handlers \/ UNCHANGED vars
<1>1. CASE \E p \in Landmarks : update_home_position(p)
                                  \/ handle_set_position_target_global_int(p)
  BY <1>1 DEF update_home_position, handle_set_position_target_global_int
<1>2. CASE UploadResets
  BY <1>2 DEF UploadResets, Handlers
<1>3. CASE ClearAll
  BY <1>3 DEF ClearAll, Handlers
<1>4. CASE OtherHandlers
  BY <1>4 DEF OtherHandlers, Handlers
<1> QED
  BY <1>1, <1>2, <1>3, <1>4 DEF commands

(* So is a loss of power. *)
LEMMA PowerUpKeepsToStore ==
    ASSUME PowerUp PROVE PowerCycle
<1>1. CASE SaveCutShort
  BY <1>1 DEF SaveCutShort, PowerCycle
<1>2. CASE Reboot \/ NvmWorn
  BY <1>2 DEF PowerCycle
<1> QED
  BY <1>1, <1>2 DEF PowerUp

(* The flight code keeps to MissionStore: it changes the stored mission, its  *)
(* flags and its progress only the way MissionStore does.                     *)
THEOREM FlightImplementsStore == FlightSpec => StoreSpec
<1>1. FlightInit => Init
  BY DEF FlightInit
<1>2. ASSUME [FlightNext]_flightVars PROVE [Next]_vars
  <2>1. CASE FlightNext
    BY <2>1, UpdateKeepsToStore, CommandKeepsToStore, PowerUpKeepsToStore
       DEF FlightNext, Next
  <2>2. CASE UNCHANGED flightVars
    BY <2>2 DEF flightVars
  <2> QED
    BY <1>2, <2>1, <2>2
<1> QED
  BY <1>1, <1>2, PTL DEF FlightSpec, StoreSpec, Spec

(* The promise of DurableMission holds of the vehicle in flight: every save   *)
(* that finishes, at the end of an upload or of a mission, keeps what can be  *)
(* flown; nothing else that mission_update or a handler does touches what is  *)
(* kept; and a power cycle brings it back, unless it cuts a save short or the *)
(* NVM wore out, after which there is one whole mission or none.              *)
THEOREM FlownMissionIsDurable == FlightSpec => DurableSpec
BY FlightImplementsStore, MissionIsDurable, PTL DEF StoreSpec

(* No step leaves the line of places. *)
LEMMA StaysInPlaces == ASSUME PlacesOK, [FlightNext]_flightVars PROVE PlacesOK'
<1> USE DEF PlacesOK, course
<1>1. CASE RtlStarts \/ RtlArrives \/ RtlReturns
  BY <1>1 DEF RtlStarts, RtlArrives, RtlReturns, MoveToward
<1>2. CASE GuidedArrives \/ GuidedFlies \/ Hovers
  BY <1>2 DEF GuidedArrives, GuidedFlies, Hovers, MoveToward
<1>3. CASE AutoStays \/ AutoFlies \/ AutoArrives
  BY <1>3 DEF AutoStays, AutoFlies, AutoArrives, MoveToward
<1>4. CASE commands
  BY <1>4, PlacesAssumption DEF commands, update_home_position, UploadResets, ClearAll,
     handle_set_position_target_global_int, OtherHandlers, steering
<1>5. CASE PowerUp
  BY <1>5, PlacesAssumption DEF PowerUp, Places
<1>6. CASE UNCHANGED flightVars
  BY <1>6 DEF flightVars, steering
<1> QED
  BY <1>1, <1>2, <1>3, <1>4, <1>5, <1>6 DEF FlightNext, mission_update_task

(* Nor does rtl_active leave its three values. *)
LEMMA RtlKeepsType ==
    ASSUME rtl_active \in 0 .. 2, [FlightNext]_flightVars PROVE rtl_active' \in 0 .. 2
<1> USE DEF return
<1>1. CASE RtlStarts \/ RtlArrives \/ RtlReturns
  BY <1>1 DEF RtlStarts, RtlArrives, RtlReturns
<1>2. CASE RtlLeft
  BY <1>2 DEF RtlLeft
<1>3. CASE commands
  BY <1>3 DEF commands, update_home_position, UploadResets, ClearAll,
     handle_set_position_target_global_int, OtherHandlers, steering
<1>4. CASE PowerUp
  BY <1>4 DEF PowerUp
<1>5. CASE UNCHANGED flightVars
  BY <1>5 DEF flightVars, steering
<1> QED
  BY <1>1, <1>2, <1>3, <1>4, <1>5
     DEF FlightNext, mission_update_task, GuidedArrives, GuidedFlies, Hovers,
         AutoStays, AutoFlies, AutoArrives

(* rtl_measurement_active stays a flag. *)
LEMMA FlagKeepsType ==
    ASSUME rtl_measurement_active \in BOOLEAN, [FlightNext]_flightVars
    PROVE  rtl_measurement_active' \in BOOLEAN
<1> USE DEF return
<1>1. CASE mission_update_task
  BY <1>1, Zenon DEF mission_update_task, RtlStarts, RtlArrives, RtlReturns, RtlLeft,
     GuidedArrives, GuidedFlies, Hovers, AutoStays, AutoFlies, AutoArrives
<1>2. CASE commands
  BY <1>2, Zenon DEF commands, update_home_position, UploadResets, ClearAll,
     handle_set_position_target_global_int, OtherHandlers, steering
<1>3. CASE PowerUp
  BY <1>3, Zenon DEF PowerUp
<1>4. CASE UNCHANGED flightVars
  BY <1>4, Zenon DEF flightVars, steering
<1> QED
  BY <1>1, <1>2, <1>3, <1>4 DEF FlightNext

(* The flight variables keep their types; in particular the vehicle is always *)
(* somewhere between the ends of the line.                                    *)
THEOREM FlightTypeCorrect == FlightSpec => []FlightTypeOK
<1>1. FlightInit => FlightTypeOK
  <2>1. FlightInit => PlacesOK
    BY PlacesAssumption DEF FlightInit, PlacesOK, Places
  <2>2. FlightInit => rtl_active \in 0 .. 2
    BY DEF FlightInit
  <2>3. FlightInit => rtl_measurement_active \in BOOLEAN
    BY Zenon DEF FlightInit
  <2> QED
    BY <2>1, <2>2, <2>3 DEF FlightTypeOK
<1>2. FlightTypeOK /\ [FlightNext]_flightVars => FlightTypeOK'
  BY StaysInPlaces, RtlKeepsType, FlagKeepsType, Zenon DEF FlightTypeOK
<1> QED
  BY <1>1, <1>2, PTL DEF FlightSpec

(* The rest of an upload and a mode command leave mission_active alone. *)
LEMMA OtherHandlersKeepFlight ==
    ASSUME OtherHandlers PROVE UNCHANGED mission_active
BY DEF OtherHandlers, UploadGoesOn, ModeChosen, handle_param_set, ItemStored,
       UploadCompleted, set_flight_mode, flight

RtlInv == RtlEndsMission /\ ReturnIsTimed

(* The bookkeeping of RTL is inductive. *)
LEMMA RtlInvariant == FlightSpec => []RtlInv
<1>1. FlightInit => RtlInv
  BY DEF FlightInit, RtlInv, RtlEndsMission, ReturnIsTimed
<1>2. ASSUME RtlInv, [FlightNext]_flightVars PROVE RtlInv'
  <2> USE <1>2 DEF RtlInv, RtlEndsMission, ReturnIsTimed, return
  <2>1. CASE RtlStarts
    <3>1. mission_active' = FALSE
      BY <2>1 DEF RtlStarts, RtlStart
    <3>2. rtl_active' = 2 \/ rtl_measurement_active' = TRUE
      BY <2>1, Zenon DEF RtlStarts
    <3> QED
      BY <3>1, <3>2
  <2>2. CASE RtlArrives \/ RtlReturns
    BY <2>2 DEF RtlArrives, RtlReturns, vars, flight
  <2>3. CASE RtlLeft
    BY <2>3 DEF RtlLeft
  <2>4. CASE \E p \in Landmarks : update_home_position(p)
                                    \/ handle_set_position_target_global_int(p)
    BY <2>4 DEF update_home_position, handle_set_position_target_global_int, vars, flight
  <2>5. CASE UploadResets \/ ClearAll \/ PowerUp
    BY <2>5 DEF UploadResets, ClearAll, PowerUp
  <2>6. CASE OtherHandlers
    BY <2>6, OtherHandlersKeepFlight DEF OtherHandlers, steering
  <2>7. CASE UNCHANGED flightVars
    BY <2>7 DEF flightVars, steering, vars, flight
  <2> QED
    BY <2>1, <2>2, <2>3, <2>4, <2>5, <2>6, <2>7
       DEF FlightNext, mission_update_task, commands, GuidedArrives, GuidedFlies, Hovers,
           AutoStays, AutoFlies, AutoArrives
<1> QED
  BY <1>1, <1>2, PTL DEF FlightSpec

(* Once RTL is on its way no mission is active, whatever mode comes next.     *)
THEOREM RtlEnds == FlightSpec => []RtlEndsMission
BY RtlInvariant, PTL DEF RtlInv

(* An RTL in progress is always being timed.                                  *)
THEOREM ReturnTimed == FlightSpec => []ReturnIsTimed
BY RtlInvariant, PTL DEF RtlInv
---------------------------------------------------------------------------------
(* What ComesHome and MissionGoesOn rest on: a measure that every update of a *)
(* mode lowers, and that no handler raises.                                   *)

LEMMA DistanceType == ASSUME NEW p \in Places, NEW q \in Places
                      PROVE  Distance(p, q) \in 0 .. Far /\ (Distance(p, q) = 0 <=> p = q)
BY PlacesAssumption DEF Places, Distance

(* Nothing but an update moves the vehicle, and no handler or loss of power   *)
(* touches a mission that is active before and after it.                      *)
LEMMA OthersKeepCourse ==
    ASSUME [FlightNext]_flightVars, ~mission_update_task
    PROVE  /\ PowerUp \/ UNCHANGED position
           /\ mission_active' => UNCHANGED <<position, current_waypoint_idx>>
<1>1. CASE UploadResets \/ ClearAll
  BY <1>1 DEF UploadResets, ClearAll, UploadBegun, handle_mission_count,
     handle_mission_clear_all, mission_reset
<1>2. CASE OtherHandlers
  BY <1>2 DEF OtherHandlers, UploadGoesOn, ModeChosen, handle_param_set, ItemStored,
     UploadCompleted, set_flight_mode, flight, steering
<1>3. CASE \E p \in Landmarks : update_home_position(p)
                                  \/ handle_set_position_target_global_int(p)
  BY <1>3 DEF update_home_position, handle_set_position_target_global_int, vars, flight
<1>4. CASE PowerUp
  <2>1. mission_active' = FALSE
    BY <1>4 DEF PowerUp, Reboot, SaveCutShort, PowerLossInSave, NvmWorn, PowerLossWhileSaving,
             Boot
  <2> QED
    BY <1>4, <2>1
<1>5. CASE UNCHANGED flightVars
  BY <1>5 DEF flightVars, steering, vars, flight
<1> QED
  BY <1>1, <1>2, <1>3, <1>4, <1>5 DEF FlightNext, commands

LEMMA FlightTypes == FlightSpec => [](TypeOK /\ FlightTypeOK)
BY FlightImplementsStore, TypeCorrect, FlightTypeCorrect, PTL DEF StoreSpec

FromHome == Distance(position, home)

(* Vehicle's Returns, FliesElsewhere and Holds. *)
MovesByMode ==
    \/ custom_mode = RTL /\ FromHome' \in IF FromHome = 0 THEN {0} ELSE 0 .. FromHome - 1
    \/ custom_mode \in {AUTO, GUIDED} /\ FromHome' \in 0 .. Far
    \/ custom_mode \notin {AUTO, GUIDED, RTL} /\ UNCHANGED FromHome

(* What an update makes of the distance from home, in each mode.              *)
LEMMA UpdateMovesByMode ==
    ASSUME FlightTypeOK, FlightTypeOK', mission_update_task
    PROVE  home' = home /\ MovesByMode
<1> USE DEF MovesByMode
<1>1. /\ position \in Places /\ position' \in Places /\ home \in Places /\ home' \in Places
  BY DEF FlightTypeOK, PlacesOK
<1>2. home' = home
  BY DEF mission_update_task, RtlStarts, RtlArrives, RtlReturns, GuidedArrives, GuidedFlies,
     Hovers, AutoStays, AutoFlies, AutoArrives, course
<1>3. FromHome \in 0 .. Far /\ FromHome' \in 0 .. Far /\ (FromHome = 0 <=> position = home)
  <2>1. FromHome' = Distance(position', home)
    BY <1>2 DEF FromHome
  <2> QED
    BY <1>1, <2>1, DistanceType DEF FromHome
<1>4. CASE RtlStarts \/ RtlArrives \/ RtlReturns
  <2>1. custom_mode = RTL
    BY <1>4 DEF RtlStarts, RtlStart, RtlArrives, RtlReturns
  <2>2. \/ position = home /\ position' = position
        \/ position # home /\ MoveToward(home)
    BY <1>4 DEF RtlStarts, RtlArrives, RtlReturns
  <2>3. CASE position = home /\ position' = position
    <3>1. FromHome' = FromHome
      BY <1>2, <2>3 DEF FromHome
    <3> QED
      BY <1>2, <1>3, <2>1, <2>3, <3>1
  <2>4. CASE position # home /\ MoveToward(home)
    <3>1. FromHome' < FromHome
      BY <1>2, <2>4 DEF MoveToward, FromHome
    <3> QED
      BY <1>2, <1>3, <2>1, <2>4, <3>1, PlacesAssumption
  <2> QED
    BY <2>2, <2>3, <2>4
<1>5. CASE GuidedArrives \/ GuidedFlies
  BY <1>2, <1>3, <1>5 DEF GuidedArrives, GuidedFlies, GuidedTo
<1>6. CASE Hovers
  <2>1. custom_mode \notin {AUTO, RTL} /\ position' = position
    BY <1>6 DEF Hovers
  <2>2. FromHome' = FromHome
    BY <1>2, <2>1 DEF FromHome
  <2> QED
    BY <1>2, <1>3, <2>1, <2>2
<1>7. CASE AutoStays \/ AutoFlies \/ AutoArrives
  <2>1. custom_mode = AUTO
    BY <1>7 DEF AutoStays, AutoIdle, AutoBlocked, AutoFlies, AutoFly, AutoArrives,
       WaypointReached, MissionComplete, CompletionDue, Flying
  <2> QED
    BY <1>2, <1>3, <2>1
<1> QED
  BY <1>4, <1>5, <1>6, <1>7 DEF mission_update_task

(* Vehicle, which has no places, is right about the distance from home: it    *)
(* follows the mode as Returns, FliesElsewhere and Holds have it, and only an *)
(* update, a new home or a loss of power changes it.                          *)
THEOREM DistanceFollowsMode ==
    FlightSpec =>
        [][/\ mission_update_task => MovesByMode
           /\ ~mission_update_task =>
                UNCHANGED FromHome \/ home' # home \/ PowerUp]_flightVars
<1>1. ASSUME FlightTypeOK, FlightTypeOK', [FlightNext]_flightVars
      PROVE  /\ mission_update_task => MovesByMode
             /\ ~mission_update_task => UNCHANGED FromHome \/ home' # home \/ PowerUp
  <2>1. ASSUME ~mission_update_task, home' = home, ~PowerUp PROVE UNCHANGED FromHome
    BY <1>1, <2>1, OthersKeepCourse DEF FromHome
  <2> QED
    BY <1>1, <2>1, UpdateMovesByMode
<1>2. FlightTypeOK /\ FlightTypeOK' /\ [FlightNext]_flightVars =>
        [/\ mission_update_task => MovesByMode
         /\ ~mission_update_task =>
              UNCHANGED FromHome \/ home' # home \/ PowerUp]_flightVars
  BY <1>1
<1> QED
  BY <1>2, FlightTypes, PTL DEF FlightSpec

(* In RTL every update brings the vehicle nearer to a home that stays, and    *)
(* whatever is handled in between takes it no further: what ComesHome needs   *)
(* beside fairness.                                                           *)
THEOREM ReturnShortens ==
    FlightSpec =>
        [][custom_mode = RTL /\ custom_mode' = RTL /\ home' = home
             => /\ FromHome' <= FromHome
                /\ mission_update_task /\ FromHome # 0 => FromHome' < FromHome]_flightVars
<1>1. FlightTypeOK /\ FlightTypeOK' /\ [FlightNext]_flightVars =>
        [custom_mode = RTL /\ custom_mode' = RTL /\ home' = home
           => /\ FromHome' <= FromHome
              /\ mission_update_task /\ FromHome # 0 => FromHome' < FromHome]_flightVars
  <2> SUFFICES ASSUME FlightTypeOK, FlightTypeOK', [FlightNext]_flightVars,
                      custom_mode = RTL, custom_mode' = RTL, home' = home
               PROVE  /\ FromHome' <= FromHome
                      /\ mission_update_task /\ FromHome # 0 => FromHome' < FromHome
    OBVIOUS
  <2>1. FromHome \in 0 .. Far
    BY DistanceType DEF FlightTypeOK, PlacesOK, FromHome
  <2>2. CASE mission_update_task
    <3>1. FromHome' \in IF FromHome = 0 THEN {0} ELSE 0 .. FromHome - 1
      <4>1. custom_mode \notin {AUTO, GUIDED}
        BY DEF AUTO, RTL, GUIDED
      <4> QED
        BY <2>2, <4>1, UpdateMovesByMode DEF MovesByMode
    <3> QED
      BY <2>1, <3>1, PlacesAssumption
  <2>3. CASE ~mission_update_task
    <3>1. ~PowerUp
      BY DEF PowerUp, Reboot, SaveCutShort, PowerLossInSave, NvmWorn, PowerLossWhileSaving,
             Boot, RTL, STABILIZE
    <3>2. FromHome' = FromHome
      BY <2>3, <3>1, OthersKeepCourse DEF FromHome
    <3> QED
      BY <2>1, <2>3, <3>2, PlacesAssumption
  <2> QED
    BY <2>2, <2>3
<1> QED
  BY <1>1, FlightTypes, PTL DEF FlightSpec
---------------------------------------------------------------------------------
ToGo(p) == Distance(p, mission[current_waypoint_idx])

(* An active mission that stays active, in AUTO and in the same array.        *)
OnTheWay ==
    /\ mission_active /\ mission_active'
    /\ custom_mode = AUTO /\ custom_mode' = AUTO
    /\ mission' = mission
    /\ current_waypoint_idx \in Slots

WaypointTaken ==
    /\ position = mission[current_waypoint_idx]
    /\ current_waypoint_idx' = NextWp
    /\ position' = position

(* An update on the way comes nearer to the waypoint, or has reached it and   *)
(* takes the next.                                                            *)
LEMMA UpdateGoesOn ==
    ASSUME mission_update_task, OnTheWay
    PROVE  \/ WaypointTaken
           \/ current_waypoint_idx' = current_waypoint_idx /\ ToGo(position') < ToGo(position)
<1>1. WaypointTargets = {mission[current_waypoint_idx]}
  BY DEF OnTheWay, WaypointTargets
<1>2. CASE AutoFlies
  BY <1>1, <1>2 DEF AutoFlies, AutoFly, MoveToward, ToGo
<1>3. CASE AutoArrives
  BY <1>1, <1>3 DEF AutoArrives, WaypointReached, MissionComplete, OnTheWay, WaypointTaken
<1>4. CASE AutoStays
  BY <1>4 DEF AutoStays, AutoIdle, AutoBlocked, OnTheWay, AUTO, STABILIZE
<1>5. ~ (RtlStarts \/ RtlArrives \/ RtlReturns)
  BY DEF RtlStarts, RtlStart, RtlArrives, RtlReturns, OnTheWay, AUTO, RTL
<1>6. ~ (GuidedArrives \/ GuidedFlies \/ Hovers)
  BY DEF GuidedArrives, GuidedFlies, GuidedTo, Hovers, OnTheWay, AUTO, GUIDED
<1> QED
  BY <1>2, <1>3, <1>4, <1>5, <1>6 DEF mission_update_task

(* A mission under way goes through its waypoints in turn: whatever messages  *)
(* are handled between two updates, the next waypoint is taken only at the    *)
(* one before it, until then the way to it gets no longer, and every update   *)
(* shortens it.  (MissionGoesOn is this with fairness; mission_update and     *)
(* mission_reset of mission.c, and the handlers that call it.)                *)
THEOREM WaypointsInTurn ==
    FlightSpec =>
        [][OnTheWay
             => \/ WaypointTaken
                \/ /\ current_waypoint_idx' = current_waypoint_idx
                   /\ ToGo(position') <= ToGo(position)
                   /\ mission_update_task => ToGo(position') < ToGo(position)]_flightVars
<1>1. TypeOK /\ FlightTypeOK /\ FlightTypeOK' /\ [FlightNext]_flightVars =>
        [OnTheWay
           => \/ WaypointTaken
              \/ /\ current_waypoint_idx' = current_waypoint_idx
                 /\ ToGo(position') <= ToGo(position)
                 /\ mission_update_task => ToGo(position') < ToGo(position)]_flightVars
  <2> SUFFICES ASSUME TypeOK, FlightTypeOK, FlightTypeOK', [FlightNext]_flightVars, OnTheWay
               PROVE  \/ WaypointTaken
                      \/ /\ current_waypoint_idx' = current_waypoint_idx
                         /\ ToGo(position') <= ToGo(position)
                         /\ mission_update_task => ToGo(position') < ToGo(position)
    OBVIOUS
  <2>1. ToGo(position) \in 0 .. Far /\ ToGo(position') \in 0 .. Far
    <3>1. mission[current_waypoint_idx] \in Places
      BY PlacesAssumption DEF OnTheWay, TypeOK, DataOK
    <3>2. position \in Places /\ position' \in Places
      BY DEF FlightTypeOK, PlacesOK
    <3> QED
      BY <3>1, <3>2, DistanceType DEF ToGo
  <2>2. CASE mission_update_task
    BY <2>1, <2>2, UpdateGoesOn, PlacesAssumption
  <2>3. CASE ~mission_update_task
    <3>1. position' = position /\ current_waypoint_idx' = current_waypoint_idx
      BY <2>3, OthersKeepCourse DEF OnTheWay
    <3>2. ToGo(position') = ToGo(position)
      BY <3>1
    <3> QED
      BY <2>1, <2>3, <3>1, <3>2, PlacesAssumption
  <2> QED
    BY <2>2, <2>3
<1> QED
  BY <1>1, FlightTypes, PTL DEF FlightSpec
=================================================================================
