------------------------------ MODULE MissionClaims ------------------------------
(***************************************************************************)
(* What the documents say of the stored mission and MissionStore, which    *)
(* follows the code, does not bear out.  auto_entered remembers that AUTO  *)
(* was entered and mission_update has not run since; the program has no    *)
(* such variable.                                                          *)
(***************************************************************************)
EXTENDS MissionStore

VARIABLE auto_entered

ClaimInit == Init /\ auto_entered = FALSE

ClaimNext ==
    \/ mission_update /\ auto_entered' = FALSE
    \/ /\ Handlers \/ PowerCycle
       /\ auto_entered' = (custom_mode' = AUTO /\ (auto_entered \/ custom_mode # AUTO))

ClaimSpec == ClaimInit /\ [][ClaimNext]_<<vars, auto_entered>>

(* README.md:298 "Successfully navigates to each uploaded waypoint": while a  *)
(* mission is flown, the waypoint steered to is one of those uploaded.        *)
FliesUploadedWaypoints == mission_active => current_waypoint_idx < mission_count

(* mission.c:882 "verify mission integrity on every AUTO mode entry": the     *)
(* first mission_update after AUTO was entered blocks a mission whose digest  *)
(* differs.                                                                   *)
VerifiedOnEveryAutoEntry ==
    [][auto_entered /\ mission_update /\ custom_mode = AUTO /\ ~NoMission
          /\ ~verify_mission_hash
          => custom_mode' = STABILIZE]_<<vars, auto_entered>>
==================================================================================
