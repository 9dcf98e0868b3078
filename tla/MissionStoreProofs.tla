--------------------------- MODULE MissionStoreProofs ---------------------------
(***************************************************************************)
(* Proofs about MissionStore for every size of the array, every width of   *)
(* the counters and every set of waypoints.                                *)
(*                                                                         *)
(* IInv is the inductive invariant.  Beside the invariants the runs check  *)
(* it needs PendingIsNewer: the version is compared with the current one   *)
(* at MISSION_COUNT and becomes current only with the last item, so what   *)
(* was true at the comparison must be carried to the save.                 *)
(***************************************************************************)
EXTENDS MissionStore, TLAPS

(* A pending version of the current mission is a later one. *)
PendingIsNewer ==
    pending_mission_id # 0 /\ pending_mission_id = current_mission_id
        => pending_mission_ver > current_mission_ver

IInv == /\ TypeOK
        /\ LoadedIsStored
        /\ UploadGrounded
        /\ ActiveIsLoaded
        /\ PendingIsNewer

---------------------------------------------------------------------------------
(* The digest of the first count slots of an array is a mission. *)
LEMMA HashIsMission ==
    ASSUME NEW wps \in [Slots -> Waypoints], NEW count \in 1 .. MAX_WAYPOINTS
    PROVE  compute_mission_hash(wps, count) \in Missions
<1>1. compute_mission_hash(wps, count) \in [0 .. count - 1 -> Waypoints]
  BY SizesAssumption DEF compute_mission_hash, Slots
<1> QED
  BY <1>1 DEF Missions

(* What save_mission_to_nvm builds has the type of an image, would be        *)
(* accepted at boot, and carries the digest and the count of the array saved.*)
LEMMA SavedImageReadable ==
    ASSUME TypeOK, mission_count > 0,
           NEW wps \in [Slots -> Waypoints], NEW image \in SavedImages(wps)
    PROVE  /\ image \in NvmImages
           /\ Readable(image)
           /\ image.hash = compute_mission_hash(wps, mission_count)
           /\ ClampedCount(image) = mission_count
<1> USE SizesAssumption DEF TypeOK, NumbersOK, DataOK
<1>1. PICK junk \in [Slots -> Waypoints] :
        image = [signature |-> TRUE, count |-> mission_count,
                 waypoints |-> [i \in Slots |-> IF i < mission_count THEN wps[i] ELSE junk[i]],
                 hash |-> compute_mission_hash(wps, mission_count),
                 mission_id |-> current_mission_id, mission_ver |-> current_mission_ver]
  BY DEF SavedImages
<1>2. mission_count \in 1 .. MAX_WAYPOINTS
  OBVIOUS
<1>3. compute_mission_hash(wps, mission_count) \in Digests
  BY <1>2, HashIsMission DEF Digests
<1>4. image.waypoints \in [Slots -> Waypoints]
  BY <1>1
<1>5. image \in NvmImages
  BY <1>1, <1>2, <1>3, <1>4 DEF NvmImages
<1>6. ClampedCount(image) = mission_count
  BY <1>1, <1>2 DEF ClampedCount
<1>7. compute_mission_hash(image.waypoints, mission_count)
        = compute_mission_hash(wps, mission_count)
  <2>1. ASSUME NEW i \in 0 .. mission_count - 1
        PROVE  image.waypoints[i] = wps[i]
    <3>1. i \in Slots /\ i < mission_count
      BY <1>2 DEF Slots
    <3> QED
      BY <1>1, <3>1
  <2> QED
    BY <2>1 DEF compute_mission_hash
<1> QED
  BY <1>1, <1>2, <1>5, <1>6, <1>7 DEF Readable

(* The count taken from an image at boot fits the array. *)
LEMMA ClampedCountFits ==
    ASSUME NEW image \in NvmImages
    PROVE  ClampedCount(image) \in 0 .. MAX_WAYPOINTS
BY SizesAssumption DEF ClampedCount, NvmImages

(* Whatever part of an image was written, the NVM has the type of an image, and *)
(* its digest is the old one, the new one or none.                              *)
LEMMA TornImageType ==
    ASSUME NEW old \in NvmImages, NEW new \in NvmImages,
           NEW done \in 0 .. MAX_WAYPOINTS + 4, NEW image \in TornImages(old, new, done)
    PROVE  /\ image \in NvmImages
           /\ image.hash \in {old.hash, new.hash, NoDigest}
<1> USE SizesAssumption DEF NvmImages, Digests
<1> DEFINE whole == Written(old, new, done)
<1>1. whole \in NvmImages /\ whole.hash \in {old.hash, new.hash}
  BY DEF Written, Slots
<1>2. CASE done < 2
  BY <1>1, <1>2 DEF TornImages
<1>3. CASE done \in 2 .. MAX_WAYPOINTS + 1
  BY <1>1, <1>3 DEF TornImages
<1>4. CASE done = MAX_WAYPOINTS + 2
  BY <1>1, <1>4 DEF TornImages
<1>5. CASE done = MAX_WAYPOINTS + 3
  BY <1>1, <1>5 DEF TornImages
<1>6. CASE done = MAX_WAYPOINTS + 4
  BY <1>1, <1>6 DEF TornImages
<1> QED
  BY <1>2, <1>3, <1>4, <1>5, <1>6

(* Arrays that are saved have the type of the mission array. *)
LEMMA WithItemType ==
    ASSUME TypeOK, NEW seq, NEW wp \in Waypoints
    PROVE  WithItem(seq, wp) \in [Slots -> Waypoints]
BY DEF TypeOK, DataOK, WithItem

---------------------------------------------------------------------------------
(* Every power cycle that leaves the type of an image in the NVM boots into a *)
(* state of the invariant.                                                    *)
LEMMA BootInvariant ==
    ASSUME nvm' \in NvmImages, Boot(nvm')
    PROVE  IInv'
<1> USE SizesAssumption, BlankAssumption
<1>1. ClampedCount(nvm') \in 0 .. MAX_WAYPOINTS
  BY ClampedCountFits
<1>2. mission' \in [Slots -> Waypoints]
  BY DEF Boot, NvmImages
<1>3. Readable(nvm') \in BOOLEAN
  BY DEF Readable, NvmImages
<1>4. stored_mission_hash' \in Digests
  BY DEF Boot, NvmImages, Digests
<1>5. /\ current_mission_id' \in 0 .. MaxId
      /\ current_mission_ver' \in 0 .. MaxVer
  BY DEF Boot, NvmImages
<1>6. mission_count' \in 0 .. MAX_WAYPOINTS
  BY <1>1, SizesAssumption DEF Boot, BootCount
<1>7. FlagsOK'
  BY <1>3, Zenon DEF FlagsOK, Boot, Modes
<1>8. NumbersOK'
  BY <1>5, <1>6 DEF NumbersOK, Boot
<1>9. TypeOK'
  BY <1>2, <1>4, <1>7, <1>8 DEF TypeOK, DataOK
<1>10. LoadedIsStored'
  BY DEF LoadedIsStored, Boot, BootCount, Readable
<1> QED
  BY <1>9, <1>10 DEF IInv, UploadGrounded, ActiveIsLoaded, PendingIsNewer, Boot

(* The arrays a save may be writing have the type of the mission array. *)
LEMMA SavedArrayType ==
    ASSUME TypeOK, NEW wps \in ArraysBeingSaved
    PROVE  wps \in [Slots -> Waypoints]
BY WithItemType DEF ArraysBeingSaved, TypeOK, DataOK

(* A save cut short never leaves anything but an image in the NVM, and its     *)
(* digest is the old one, that of the array being saved, or none.              *)
LEMMA PowerLossImage ==
    ASSUME TypeOK, NEW wps \in [Slots -> Waypoints], PowerLossWhileSaving(wps)
    PROVE  /\ nvm' \in NvmImages
           /\ nvm'.hash \in {nvm.hash, compute_mission_hash(wps, mission_count), NoDigest}
<1>1. PICK done \in 0 .. MAX_WAYPOINTS + 4, image \in SavedImages(wps) :
        nvm' \in TornImages(nvm, image, done)
  BY DEF PowerLossWhileSaving
<1>2. mission_count > 0
  BY DEF PowerLossWhileSaving
<1>3. image \in NvmImages /\ image.hash = compute_mission_hash(wps, mission_count)
  BY <1>2, SavedImageReadable
<1>4. nvm \in NvmImages
  BY DEF TypeOK, DataOK
<1> QED
  BY <1>1, <1>3, <1>4, TornImageType

(* So does wear, and it puts no other digest there. *)
LEMMA WornImage ==
    ASSUME TypeOK, NvmWorn
    PROVE  nvm' \in NvmImages /\ nvm'.hash \in {nvm.hash, NoDigest}
<1> USE DEF NvmImages, Digests
<1>1. nvm \in NvmImages
  BY DEF TypeOK, NumbersOK, DataOK
<1>2. CASE nvm' = [nvm EXCEPT !.signature = FALSE]
  BY <1>1, <1>2
<1>3. CASE \E count \in 0 .. MAX_WAYPOINTS + 1 : nvm' = [nvm EXCEPT !.count = count]
  BY <1>1, <1>3
<1>4. CASE \E i \in Slots, wp \in Waypoints : nvm' = [nvm EXCEPT !.waypoints[i] = wp]
  BY <1>1, <1>4
<1>5. CASE nvm' = [nvm EXCEPT !.hash = NoDigest]
  BY <1>1, <1>5
<1> QED
  BY <1>2, <1>3, <1>4, <1>5 DEF NvmWorn

(* The save that completes an upload or a mission. *)
LEMMA SaveInvariant ==
    ASSUME TypeOK, mission_count > 0, NEW wps \in [Slots -> Waypoints], SavedState(wps)
    PROVE  /\ current_mission_id' \in 0 .. MaxId
           /\ current_mission_ver' \in 0 .. MaxVer
           /\ stored_mission_hash' \in Missions
           /\ nvm' \in NvmImages
           /\ Readable(nvm')
           /\ nvm'.hash = stored_mission_hash'
           /\ ClampedCount(nvm') = mission_count
<1>1. mission_count \in 1 .. MAX_WAYPOINTS
  BY SizesAssumption DEF TypeOK, NumbersOK, DataOK
<1>2. nvm' \in SavedImages(wps)
  BY DEF SavedState
<1> QED
  BY <1>1, <1>2, SavedImageReadable, HashIsMission DEF SavedState, TypeOK, NumbersOK

---------------------------------------------------------------------------------
(* The invariant holds initially. *)
LEMMA InitInvariant == Init => IInv
<1> SUFFICES ASSUME Init PROVE IInv
  OBVIOUS
<1> USE SizesAssumption, BlankAssumption
<1>1. nvm \in NvmImages
  BY DEF Init, NvmImages, Digests
<1>2. TypeOK
  <2>1. FlagsOK
    BY Zenon DEF Init, FlagsOK, Modes
  <2>2. NumbersOK /\ DataOK
    BY <1>1 DEF Init, NumbersOK, DataOK, Digests
  <2> QED
    BY <2>1, <2>2 DEF TypeOK
<1> QED
  BY <1>2 DEF Init, IInv, LoadedIsStored, UploadGrounded, ActiveIsLoaded, PendingIsNewer

(* The 16-bit counters keep their width. *)
LEMMA CountersFit ==
    ASSUME TypeOK
    PROVE  NextRx \in 0 .. UINT16 - 1 /\ NextWp \in 0 .. UINT16 - 1
BY SizesAssumption DEF TypeOK, NumbersOK, NextRx, NextWp

(* Saving at the end of an upload keeps the invariant. *)
LEMMA UploadCompletedInvariant ==
    ASSUME IInv, NEW seq \in 0 .. MAX_WAYPOINTS, NEW wp \in Waypoints,
           UploadCompleted(seq, wp)
    PROVE  IInv'
<1> USE SizesAssumption
<1>1. WithItem(seq, wp) \in [Slots -> Waypoints] /\ NextRx \in 0 .. UINT16 - 1
  BY WithItemType, CountersFit DEF IInv
<1>2. CASE mission_count > 0 /\ SavedState(WithItem(seq, wp))
  <2>1. /\ current_mission_id' \in 0 .. MaxId
        /\ current_mission_ver' \in 0 .. MaxVer
        /\ stored_mission_hash' \in Missions
        /\ nvm' \in NvmImages
        /\ Readable(nvm')
        /\ nvm'.hash = stored_mission_hash'
        /\ ClampedCount(nvm') = mission_count
    BY <1>1, <1>2, SaveInvariant DEF IInv
  <2>2. TypeOK'
    <3>1. FlagsOK'
      BY <1>2, Zenon DEF IInv, TypeOK, FlagsOK, UploadCompleted, SavedState, flight
    <3>2. NumbersOK' /\ DataOK'
      BY <1>1, <1>2, <2>1
         DEF IInv, TypeOK, NumbersOK, DataOK, UploadCompleted, SavedState, Digests, flight
    <3> QED
      BY <3>1, <3>2 DEF TypeOK
  <2>3. LoadedIsStored'
    BY <1>2, <2>1 DEF LoadedIsStored, UploadCompleted, SavedState
  <2> QED
    BY <1>2, <2>2, <2>3
       DEF IInv, UploadGrounded, ActiveIsLoaded, PendingIsNewer, UploadCompleted, SavedState
<1>3. CASE mission_count = 0 /\ UNCHANGED <<current, pending, mission_upload_pending, nvm,
                      mission_upload_authorized_flag, stored_mission_hash,
                      mission_hash_valid>>
  <2>1. TypeOK'
    <3>1. FlagsOK'
      BY <1>3, Zenon DEF IInv, TypeOK, FlagsOK, UploadCompleted, flight
    <3>2. NumbersOK' /\ DataOK'
      BY <1>1, <1>3
         DEF IInv, TypeOK, NumbersOK, DataOK, UploadCompleted, current, pending, flight
    <3> QED
      BY <3>1, <3>2 DEF TypeOK
  <2> QED
    BY <1>3, <2>1
       DEF IInv, TypeOK, NumbersOK, LoadedIsStored, UploadGrounded, ActiveIsLoaded, PendingIsNewer,
           UploadCompleted, current, pending, flight
<1> QED
  BY <1>2, <1>3 DEF UploadCompleted, save_mission_to_nvm

(* Saving at the end of a mission keeps the invariant. *)
LEMMA MissionCompleteInvariant ==
    ASSUME IInv, MissionComplete
    PROVE  IInv'
<1> USE SizesAssumption
<1>1. mission_count > 0 /\ SavedState(mission)
  BY DEF MissionComplete, CompletionDue, Flying, NoMission, save_mission_to_nvm,
         IInv, TypeOK, NumbersOK
<1>2. /\ current_mission_id' \in 0 .. MaxId
      /\ current_mission_ver' \in 0 .. MaxVer
      /\ stored_mission_hash' \in Missions
      /\ nvm' \in NvmImages
      /\ Readable(nvm')
      /\ nvm'.hash = stored_mission_hash'
      /\ ClampedCount(nvm') = mission_count
  BY <1>1, SaveInvariant DEF IInv, TypeOK, DataOK
<1>3. TypeOK'
  <2>1. FlagsOK'
    BY <1>1, Zenon DEF IInv, TypeOK, FlagsOK, MissionComplete, SavedState
  <2>2. NumbersOK' /\ DataOK'
    BY <1>1, <1>2, CountersFit
       DEF IInv, TypeOK, NumbersOK, DataOK, MissionComplete, SavedState, Digests, array
  <2> QED
    BY <2>1, <2>2 DEF TypeOK
<1>4. LoadedIsStored'
  BY <1>1, <1>2 DEF LoadedIsStored, MissionComplete, SavedState, array
<1> QED
  BY <1>1, <1>3, <1>4
     DEF IInv, UploadGrounded, ActiveIsLoaded, PendingIsNewer, MissionComplete, SavedState

(* Every step keeps the invariant. *)
LEMMA StepInvariant == IInv /\ [Next]_vars => IInv'
<1> SUFFICES ASSUME IInv, [Next]_vars PROVE IInv'
  OBVIOUS
<1> USE SizesAssumption DEF IInv, TypeOK, NumbersOK, DataOK
<1>1. ASSUME NEW count \in 1 .. MAX_WAYPOINTS, NEW id \in 0 .. MaxId, NEW ver \in 0 .. MaxVer,
             handle_mission_count(count, id, ver)
      PROVE  IInv'
  <2> USE <1>1 DEF handle_mission_count, mission_reset
  <2>1. FlagsOK'
    BY Zenon DEF FlagsOK
  <2>2. NumbersOK' /\ DataOK'
    BY DEF current
  <2>3. PendingIsNewer'
    BY DEF PendingIsNewer, MetadataFresh, current
  <2> QED
    BY <2>1, <2>2, <2>3 DEF LoadedIsStored, UploadGrounded, ActiveIsLoaded
<1>2. ASSUME NEW right \in BOOLEAN, handle_param_set(right)
      PROVE  IInv'
  <2> USE <1>2 DEF handle_param_set
  <2>1. FlagsOK'
    BY Zenon DEF FlagsOK, integrity, flight
  <2>2. NumbersOK' /\ DataOK'
    BY DEF array, current, pending, integrity, flight
  <2> QED
    BY <2>1, <2>2 DEF LoadedIsStored, UploadGrounded, ActiveIsLoaded, PendingIsNewer,
                      array, current, pending, integrity, flight
<1>3. ASSUME NEW seq \in 0 .. MAX_WAYPOINTS, NEW wp \in Waypoints, ItemStored(seq, wp)
      PROVE  IInv'
  <2> USE <1>3 DEF ItemStored
  <2>1. FlagsOK'
    BY Zenon DEF FlagsOK, integrity, flight
  <2>2. NumbersOK' /\ DataOK'
    BY CountersFit, WithItemType DEF current, pending, integrity, flight
  <2> QED
    BY <2>1, <2>2 DEF LoadedIsStored, UploadGrounded, ActiveIsLoaded, PendingIsNewer,
                      current, pending, integrity, flight
<1>4. ASSUME NEW seq \in 0 .. MAX_WAYPOINTS, NEW wp \in Waypoints, UploadCompleted(seq, wp)
      PROVE  IInv'
  BY <1>4, UploadCompletedInvariant
<1>5. CASE handle_mission_clear_all
  <2> USE <1>5 DEF handle_mission_clear_all, mission_reset
  <2>1. FlagsOK'
    BY Zenon DEF FlagsOK
  <2>2. NumbersOK' /\ DataOK'
    BY DEF current, pending
  <2> QED
    BY <2>1, <2>2 DEF LoadedIsStored, UploadGrounded, ActiveIsLoaded, PendingIsNewer,
                      current, pending
<1>6. ASSUME NEW mode \in Modes, set_flight_mode(mode)
      PROVE  IInv'
  <2> USE <1>6 DEF set_flight_mode
  <2>1. FlagsOK'
    BY Zenon DEF FlagsOK, upload, integrity, flight
  <2>2. NumbersOK' /\ DataOK'
    BY DEF array, current, pending, upload, integrity, flight
  <2> QED
    BY <2>1, <2>2 DEF LoadedIsStored, UploadGrounded, ActiveIsLoaded, PendingIsNewer,
                      array, current, pending, upload, integrity, flight
<1>7. CASE RtlStart \/ AutoIdle
  <2> USE <1>7 DEF RtlStart, AutoIdle
  <2>1. FlagsOK'
    BY Zenon DEF FlagsOK, upload, integrity
  <2>2. NumbersOK' /\ DataOK'
    BY DEF array, current, pending, upload, integrity
  <2> QED
    BY <2>1, <2>2 DEF LoadedIsStored, UploadGrounded, ActiveIsLoaded, PendingIsNewer,
                      array, current, pending, upload, integrity
<1>8. CASE AutoBlocked
  <2> USE <1>8 DEF AutoBlocked
  <2>1. FlagsOK'
    BY Zenon DEF FlagsOK, upload, integrity, flight, Modes
  <2>2. NumbersOK' /\ DataOK'
    BY DEF array, current, pending, upload, integrity, flight
  <2> QED
    BY <2>1, <2>2 DEF LoadedIsStored, UploadGrounded, ActiveIsLoaded, PendingIsNewer,
                      array, current, pending, upload, integrity, flight
<1>9. CASE AutoFly \/ WaypointReached
  <2> USE <1>9 DEF AutoFly, WaypointReached
  <2>1. FlagsOK'
    BY Zenon DEF FlagsOK, upload, integrity
  <2>2. NumbersOK' /\ DataOK'
    BY CountersFit DEF array, current, pending, upload, integrity
  <2>3. mission_loaded /\ mission_count > 0
    BY DEF Flying, NoMission
  <2>4. ~mission_upload_pending
    BY <2>3 DEF UploadGrounded
  <2>5. UploadGrounded' /\ ActiveIsLoaded'
    <3>1. /\ mission_upload_pending' = mission_upload_pending
          /\ mission_loaded' = mission_loaded
          /\ mission_count' = mission_count
      BY DEF array, upload, integrity
    <3> QED
      BY <2>3, <2>4, <3>1, Zenon DEF UploadGrounded, ActiveIsLoaded
  <2>6. LoadedIsStored' /\ PendingIsNewer'
    BY DEF LoadedIsStored, PendingIsNewer, array, current, pending, integrity
  <2> QED
    BY <2>1, <2>2, <2>5, <2>6
<1>10. CASE MissionComplete
  BY <1>10, MissionCompleteInvariant
<1>11. CASE Reboot
  <2>1. nvm' \in NvmImages /\ Boot(nvm')
    BY <1>11 DEF Reboot
  <2> QED
    BY <2>1, BootInvariant
<1>12. CASE PowerLossInSave
  <2>1. PICK wps \in ArraysBeingSaved : PowerLossWhileSaving(wps)
    BY <1>12 DEF PowerLossInSave
  <2>2. nvm' \in NvmImages /\ Boot(nvm')
    BY <2>1, SavedArrayType, PowerLossImage DEF PowerLossWhileSaving
  <2> QED
    BY <2>2, BootInvariant
<1>13. CASE NvmWorn
  BY <1>13, WornImage, BootInvariant DEF NvmWorn
<1>14. CASE UNCHANGED vars
  <2> USE <1>14 DEF vars, array, current, pending, upload, integrity, flight
  <2>1. FlagsOK'
    BY Zenon DEF FlagsOK
  <2>2. NumbersOK' /\ DataOK'
    OBVIOUS
  <2> QED
    BY <2>1, <2>2 DEF LoadedIsStored, UploadGrounded, ActiveIsLoaded, PendingIsNewer
<1> QED
  BY <1>1, <1>2, <1>3, <1>4, <1>5, <1>6, <1>7, <1>8, <1>9, <1>10, <1>11, <1>12, <1>13, <1>14
     DEF Next, Handlers, UploadBegun, UploadGoesOn, ModeChosen, PowerCycle, mission_update

(* The inductive invariant holds in every behaviour. *)
THEOREM Invariant == Spec => []IInv
BY InitInvariant, StepInvariant, PTL DEF Spec

(* Every variable keeps its type: mission_count stays within the array. *)
THEOREM TypeCorrect == Spec => []TypeOK
<1>1. IInv => TypeOK
  BY DEF IInv
<1> QED
  BY <1>1, Invariant, PTL

(* A loaded mission is the one in the NVM, under the digest in the NVM. *)
THEOREM LoadedMissionIsStored == Spec => []LoadedIsStored
<1>1. IInv => LoadedIsStored
  BY DEF IInv
<1> QED
  BY <1>1, Invariant, PTL

(* Nothing is flown between MISSION_COUNT and the last item. *)
THEOREM UploadIsGrounded == Spec => []UploadGrounded
<1>1. IInv => UploadGrounded
  BY DEF IInv
<1> QED
  BY <1>1, Invariant, PTL

(* No flight outlives its mission. *)
THEOREM ActiveMissionIsLoaded == Spec => []ActiveIsLoaded
<1>1. IInv => ActiveIsLoaded
  BY DEF IInv
<1> QED
  BY <1>1, Invariant, PTL

---------------------------------------------------------------------------------
(* A mission starts only in AUTO, on waypoints that hash to the stored digest:  *)
(* the gate of mission_update is skipped when mission_hash_valid is clear, and  *)
(* LoadedIsStored is what says that it never is.                                *)
THEOREM MissionStartsVerified == Spec => StartsVerified
<1>1. IInv /\ [Next]_vars
        => [~mission_active /\ mission_active' => custom_mode = AUTO /\ verify_mission_hash]_vars
  <2> SUFFICES ASSUME IInv, Next, ~mission_active, mission_active'
               PROVE  custom_mode = AUTO /\ verify_mission_hash
    OBVIOUS
  <2>1. AutoFly \/ WaypointReached
    BY DEF Next, Handlers, UploadBegun, UploadGoesOn, ModeChosen, PowerCycle, mission_update, handle_mission_count, handle_param_set, ItemStored,
           UploadCompleted, handle_mission_clear_all, set_flight_mode, RtlStart, AutoIdle,
           AutoBlocked, MissionComplete, Reboot, PowerLossInSave, PowerLossWhileSaving, NvmWorn, Boot,
           mission_reset, flight
  <2>2. custom_mode = AUTO /\ ~NoMission /\ ~GateCloses
    BY <2>1 DEF AutoFly, WaypointReached, Flying
  <2>3. mission_hash_valid
    BY <2>2, SizesAssumption
       DEF NoMission, IInv, TypeOK, NumbersOK, LoadedIsStored
  <2> QED
    BY <2>2, <2>3 DEF GateCloses
<1> QED
  BY <1>1, Invariant, PTL DEF Spec, StartsVerified

(* While the power stays on, the version of a mission that stays current only   *)
(* grows; PendingIsNewer carries the comparison made at MISSION_COUNT to the    *)
(* save.                                                                        *)
THEOREM VersionsOnlyGrow == Spec => VersionNeverRegresses
<1>1. IInv /\ [Next]_vars
        => [current_mission_id # 0 /\ current_mission_id' = current_mission_id
              => current_mission_ver' >= current_mission_ver \/ PowerCycle]_vars
  <2> SUFFICES ASSUME IInv, Next, ~PowerCycle, current_mission_id # 0,
                      current_mission_id' = current_mission_id
               PROVE  current_mission_ver' >= current_mission_ver
    OBVIOUS
  <2> USE SizesAssumption DEF IInv, TypeOK, NumbersOK
  <2>1. CASE UNCHANGED current
    BY <2>1 DEF current
  <2>2. CASE \E wps : SavedState(wps)
    BY <2>2 DEF SavedState, PendingIsNewer
  <2> QED
    BY <2>1, <2>2
       DEF Next, Handlers, UploadBegun, UploadGoesOn, ModeChosen, PowerCycle, mission_update, handle_mission_count, handle_param_set, ItemStored,
           UploadCompleted, handle_mission_clear_all, set_flight_mode, RtlStart, AutoIdle,
           AutoBlocked, AutoFly, WaypointReached, MissionComplete, save_mission_to_nvm, current
<1> QED
  BY <1>1, Invariant, PTL DEF Spec, VersionNeverRegresses

---------------------------------------------------------------------------------
(* The refinement.  An image that would be accepted at boot carries the digest  *)
(* of a mission, and what Boot leaves in the array is that mission.             *)
LEMMA ReadableIsMission ==
    ASSUME NEW image \in NvmImages, Readable(image)
    PROVE  image.hash \in Missions
<1>1. ClampedCount(image) \in 1 .. MAX_WAYPOINTS
  BY SizesAssumption DEF ClampedCount, Readable, NvmImages
<1>2. image.waypoints \in [Slots -> Waypoints]
  BY DEF NvmImages
<1> QED
  BY <1>1, <1>2, HashIsMission DEF Readable

(* A boot brings up the mission of a readable image and none otherwise. *)
LEMMA BootPowersUp ==
    ASSUME nvm' \in NvmImages, Boot(nvm')
    PROVE  Durable!PoweredUp
<1>1. CASE Readable(nvm')
  <2>1. mission_count' = ClampedCount(nvm') /\ ClampedCount(nvm') \in 1 .. MAX_WAYPOINTS
    BY <1>1, SizesAssumption DEF Boot, BootCount, Readable, ClampedCount, NvmImages
  <2>2. Content' = compute_mission_hash(nvm'.waypoints, ClampedCount(nvm'))
    <3>1. ASSUME NEW i \in 0 .. ClampedCount(nvm') - 1
          PROVE  mission'[i] = nvm'.waypoints[i]
      <4>1. i \in Slots /\ i < ClampedCount(nvm')
        BY <2>1, SizesAssumption DEF Slots
      <4> QED
        BY <1>1, <4>1 DEF Boot, Readable
    <3> QED
      BY <2>1, <3>1 DEF Content, compute_mission_hash
  <2>3. Content' = nvm'.hash /\ stored_mission_hash' = nvm'.hash
    BY <1>1, <2>2 DEF Boot, Readable
  <2>4. mission_loaded'
    BY <1>1, Zenon DEF Boot
  <2>5. mission_count' # 0
    BY <2>1
  <2>6. Live'
    BY <2>3, <2>4, <2>5 DEF Live, verify_mission_hash, Content
  <2> QED
    BY <1>1, <2>3, <2>6 DEF Durable!PoweredUp
<1>2. CASE ~Readable(nvm')
  <2>1. ~Live'
    BY <1>2, Zenon DEF Boot, Live
  <2> QED
    BY <1>2, <2>1 DEF Durable!PoweredUp
<1> QED
  BY <1>1, <1>2

(* Saving an array makes its first count slots the mission that is kept and *)
(* the mission that can be flown.                                           *)
LEMMA SaveCommits ==
    ASSUME IInv, mission_count > 0, NEW wps \in [Slots -> Waypoints], SavedState(wps),
           mission' = wps, mission_count' = mission_count, mission_loaded'
    PROVE  Durable!Commit(Content')
<1>1. /\ Readable(nvm')
      /\ nvm'.hash = stored_mission_hash'
  BY SaveInvariant DEF IInv
<1>2. Content' = stored_mission_hash'
  BY DEF SavedState, Content
<1>3. Live'
  BY <1>2 DEF Live, verify_mission_hash, Content, IInv, TypeOK, NumbersOK
<1> QED
  BY <1>1, <1>2, <1>3 DEF Durable!Commit

(* Both saves commit the array. *)
LEMMA FinishedSaveCommits ==
    ASSUME IInv, SaveFinished PROVE Durable!Commit(Content')
<1>1. mission_count > 0
  BY DEF SaveFinished
<1>2. ASSUME NEW seq \in 0 .. MAX_WAYPOINTS, NEW wp \in Waypoints, UploadCompleted(seq, wp)
      PROVE  Durable!Commit(Content')
  <2>1. WithItem(seq, wp) \in [Slots -> Waypoints]
    BY WithItemType DEF IInv
  <2>2. SavedState(WithItem(seq, wp))
    BY <1>1, <1>2, SizesAssumption DEF UploadCompleted, save_mission_to_nvm, IInv, TypeOK, NumbersOK
  <2> QED
    BY <1>1, <1>2, <2>1, <2>2, SaveCommits DEF UploadCompleted
<1>3. CASE MissionComplete
  <2>1. SavedState(mission) /\ UNCHANGED array /\ mission_loaded'
    BY <1>1, <1>3, SizesAssumption
       DEF MissionComplete, CompletionDue, Flying, NoMission, save_mission_to_nvm,
           IInv, TypeOK, NumbersOK
  <2>2. mission \in [Slots -> Waypoints]
    BY DEF IInv, TypeOK, DataOK
  <2> QED
    BY <1>1, <2>1, <2>2, SaveCommits DEF array
<1> QED
  BY <1>2, <1>3 DEF SaveFinished

(* A loaded mission whose digest still matches is the one in the NVM. *)
LEMMA LiveIsStored ==
    ASSUME IInv, Live
    PROVE  Readable(nvm) /\ Content = nvm.hash
BY SizesAssumption
   DEF IInv, TypeOK, NumbersOK, Live, LoadedIsStored, verify_mission_hash, Content

(* A step that leaves the NVM alone can make no other mission live than the *)
(* one in the NVM.                                                          *)
LEMMA UntouchedIsKept ==
    ASSUME IInv', UNCHANGED nvm PROVE Durable!Keep
<1>1. CASE ~Live'
  BY <1>1 DEF Durable!Keep
<1>2. CASE Live'
  <2>1. Readable(nvm) /\ Content' = nvm.hash
    BY <1>2, LiveIsStored DEF IInv, TypeOK, NumbersOK, Live, LoadedIsStored,
                              verify_mission_hash, Content
  <2> QED
    BY <1>2, <2>1 DEF Durable!Keep
<1> QED
  BY <1>1, <1>2

(* Only a save and a power cycle write the NVM. *)
LEMMA OthersKeep ==
    ASSUME IInv, IInv', Next PROVE Durable!Keep \/ SaveFinished \/ PowerCycle
<1>1. CASE UNCHANGED nvm
  BY <1>1, UntouchedIsKept
<1>2. ASSUME NEW seq \in 0 .. MAX_WAYPOINTS, NEW wp \in Waypoints,
             UploadCompleted(seq, wp), ~UNCHANGED nvm
      PROVE  SaveFinished
  BY <1>2 DEF UploadCompleted, save_mission_to_nvm, SaveFinished
<1>3. CASE MissionComplete /\ ~UNCHANGED nvm
  BY <1>3 DEF MissionComplete, save_mission_to_nvm, SaveFinished
<1> QED
  BY <1>1, <1>2, <1>3
     DEF Next, Handlers, UploadBegun, UploadGoesOn, ModeChosen, mission_update,
         handle_mission_count, handle_param_set, ItemStored, handle_mission_clear_all,
         set_flight_mode, RtlStart, AutoIdle, AutoBlocked, AutoFly, WaypointReached

(* A power cycle that keeps or loses the image brings up what is left of it. *)
LEMMA BootLeaves ==
    ASSUME NEW choice, nvm' \in NvmImages, Boot(nvm'), nvm'.hash \in choice \cup {NoDigest}
    PROVE  Durable!LeftWith(choice)
<1>1. Durable!PoweredUp
  BY BootPowersUp
<1>2. Readable(nvm') => nvm'.hash # NoDigest
  BY ReadableIsMission, DigestAssumption
<1> QED
  BY <1>1, <1>2 DEF Durable!LeftWith

(* Every step of the vehicle is, event by event, the step DurableMission has  *)
(* for it.                                                                    *)
LEMMA StepIsDurable == IInv /\ [Next]_vars => [DurableStep]_vars
<1> SUFFICES ASSUME IInv, IInv', Next PROVE DurableStep
  BY StepInvariant
<1> USE DEF IInv
<1>1. SaveFinished => Durable!Commit(Content')
  BY FinishedSaveCommits
<1>2. ASSUME Reboot PROVE Durable!Reboot
  <2>1. nvm' \in NvmImages /\ Boot(nvm') /\ UNCHANGED nvm
    BY <1>2 DEF Reboot, TypeOK, DataOK
  <2>2. Durable!PoweredUp
    BY <2>1, BootPowersUp
  <2> QED
    BY <2>1, <2>2 DEF Durable!Reboot
<1>3. ASSUME NvmWorn PROVE Durable!Worn
  <2>1. nvm' \in NvmImages /\ nvm'.hash \in {nvm.hash} \cup {NoDigest} /\ Boot(nvm')
    BY <1>3, WornImage DEF NvmWorn
  <2> QED
    BY <2>1, BootLeaves DEF Durable!Worn
<1>4. ASSUME NEW wps \in ArraysBeingSaved, PowerLossWhileSaving(wps)
      PROVE  Durable!Interrupted(compute_mission_hash(wps, mission_count))
  <2>1. wps \in [Slots -> Waypoints]
    BY SavedArrayType
  <2>2. PICK m : m = compute_mission_hash(wps, mission_count)
    OBVIOUS
  <2>3. nvm' \in NvmImages /\ nvm'.hash \in {nvm.hash, m} \cup {NoDigest} /\ Boot(nvm')
    BY <1>4, <2>1, <2>2, PowerLossImage DEF PowerLossWhileSaving
  <2> QED
    BY <2>2, <2>3, BootLeaves DEF Durable!Interrupted
<1>5. Durable!Keep \/ SaveFinished \/ PowerCycle
  BY OthersKeep
<1> QED
  BY <1>1, <1>2, <1>3, <1>4, <1>5 DEF DurableStep

(* The vehicle keeps its mission as DurableMission promises: a save that      *)
(* finishes commits the array, nothing else touches the mission kept while    *)
(* the power is on, a power cycle brings it up, and only one that cuts a save *)
(* short or wears the NVM may bring up another: the one being saved or none.  *)
THEOREM MissionIsDurable == Spec => DurableSpec
<1>1. Init => Durable!Init
  BY DEF Init, Durable!Init, Readable, Live
<1>2. IInv /\ [Next]_vars => [DurableStep]_vars
  BY StepIsDurable
<1> QED
  BY <1>1, <1>2, Invariant, PTL DEF Spec, DurableSpec
=================================================================================
