------------------------------ MODULE MissionStore ------------------------------
(***************************************************************************)
(* The mission held by the vehicle: the waypoint array, the upload state   *)
(* machine that fills it, the copy kept in NVM, the digest that ties the   *)
(* two together, and the part of mission_update that starts, flies and     *)
(* finishes it (mission.c, and the mission handlers of mavlink_rx.c).      *)
(*                                                                         *)
(* Each handler and each task runs to completion in the main loop, so each *)
(* is one action.  Only the power supply interrupts them: save_mission_to_ *)
(* nvm writes the NVM byte by byte and can be cut short.                   *)
(*                                                                         *)
(* Where the vehicle is and what it replies to the ground station are left *)
(* to other modules: here a waypoint is reached at any time.               *)
(***************************************************************************)
EXTENDS Integers

CONSTANTS MAX_WAYPOINTS,  \* slots of the waypoint array
          UINT16,         \* number of values of a uint16_t
          Waypoints,      \* contents a slot can have
          Blank,          \* the content of a slot nothing was stored in
          NoDigest,       \* a digest value no mission hashes to
          MaxId, MaxVer,  \* largest mission id and version in use; 0 is "none"
          OtherModes,     \* modes told apart beside STABILIZE, AUTO and RTL
          WornFields,     \* fields of the NVM that may change while the vehicle is off
          CutsSaves       \* whether the power may go in the middle of a save

ASSUME SizesAssumption ==
    /\ MAX_WAYPOINTS \in Nat \ {0}
    /\ UINT16 \in Nat /\ UINT16 > MAX_WAYPOINTS
    /\ MaxId \in Nat /\ MaxVer \in Nat
ASSUME BlankAssumption == Blank \in Waypoints
ASSUME PowerAssumption ==
    /\ WornFields \subseteq {"signature", "count", "waypoints", "hash"}
    /\ CutsSaves \in BOOLEAN

Slots == 0 .. MAX_WAYPOINTS - 1

(* SHA-256 is taken to be free of collisions, so the digest of a mission is *)
(* represented by the mission itself.                                       *)
Missions == UNION {[0 .. n - 1 -> Waypoints] : n \in 1 .. MAX_WAYPOINTS}
Digests == Missions \cup {NoDigest}

ASSUME DigestAssumption == NoDigest \notin Missions

(* custom_mode as far as the mission goes; STABILIZE stands for every mode  *)
(* other than AUTO, RTL and those of OtherModes.                            *)
STABILIZE == 0
AUTO == 3
RTL == 6
Modes == {STABILIZE, AUTO, RTL} \cup OtherModes

NvmImages == [signature : BOOLEAN, count : 0 .. MAX_WAYPOINTS + 1,
              waypoints : [Slots -> Waypoints], hash : Digests,
              mission_id : 0 .. MaxId, mission_ver : 0 .. MaxVer]

VARIABLES
    mission, mission_count,             \* the array and the slots in use
    mission_rx_idx,                     \* items counted in the current upload
    mission_loaded,                     \* a complete mission is in the array
    mission_hash_valid,                 \* stored_mission_hash may be relied on
    stored_mission_hash,
    current_mission_id, current_mission_ver,
    pending_mission_id, pending_mission_ver,
    mission_upload_pending, mission_upload_authorized_flag,
    chal_resp_ok,                       \* PARAM_MISSION_CHAL_RESP = the challenge
    custom_mode, mission_active, current_waypoint_idx,
    nvm

array == <<mission, mission_count>>
current == <<current_mission_id, current_mission_ver>>
pending == <<pending_mission_id, pending_mission_ver>>
upload == <<mission_rx_idx, mission_upload_pending, mission_upload_authorized_flag>>
integrity == <<mission_loaded, mission_hash_valid, stored_mission_hash>>
flight == <<mission_active, current_waypoint_idx>>

vars == <<array, current, pending, upload, integrity, flight,
          chal_resp_ok, custom_mode, nvm>>

(* The array's first count slots, which is also what SHA-256 is run over. *)
compute_mission_hash(wps, count) == [i \in 0 .. count - 1 |-> wps[i]]

verify_mission_hash ==
    /\ mission_count # 0
    /\ compute_mission_hash(mission, mission_count) = stored_mission_hash

FlagsOK ==
    /\ mission_loaded \in BOOLEAN
    /\ mission_hash_valid \in BOOLEAN
    /\ mission_upload_pending \in BOOLEAN
    /\ mission_upload_authorized_flag \in BOOLEAN
    /\ chal_resp_ok \in BOOLEAN
    /\ mission_active \in BOOLEAN
    /\ custom_mode \in Modes

NumbersOK ==
    /\ mission_count \in 0 .. MAX_WAYPOINTS
    /\ mission_rx_idx \in 0 .. UINT16 - 1
    /\ current_waypoint_idx \in 0 .. UINT16 - 1
    /\ current_mission_id \in 0 .. MaxId /\ current_mission_ver \in 0 .. MaxVer
    /\ pending_mission_id \in 0 .. MaxId /\ pending_mission_ver \in 0 .. MaxVer

DataOK ==
    /\ mission \in [Slots -> Waypoints]
    /\ stored_mission_hash \in Digests
    /\ nvm \in NvmImages

(* Every variable has its type; in particular mission_count never exceeds the *)
(* array, even when it was read from a worn NVM.                              *)
TypeOK == FlagsOK /\ NumbersOK /\ DataOK

---------------------------------------------------------------------------------
(* Boot with an NVM that was never written. *)
Init ==
    /\ mission = [i \in Slots |-> Blank]
    /\ mission_count = 0 /\ mission_rx_idx = 0
    /\ mission_loaded = FALSE /\ mission_hash_valid = FALSE
    /\ stored_mission_hash = NoDigest
    /\ current_mission_id = 0 /\ current_mission_ver = 0
    /\ pending_mission_id = 0 /\ pending_mission_ver = 0
    /\ mission_upload_pending = FALSE /\ mission_upload_authorized_flag = FALSE
    /\ chal_resp_ok = FALSE
    /\ custom_mode = STABILIZE
    /\ mission_active = FALSE /\ current_waypoint_idx = 0
    /\ nvm = [signature |-> FALSE, count |-> 0,
              waypoints |-> [i \in Slots |-> Blank], hash |-> NoDigest,
              mission_id |-> 0, mission_ver |-> 0]

(* Mutant: a flight in progress survives the reset. *)
mission_reset_ActiveKept(uploading, authorized) ==
    /\ current_waypoint_idx' = 0
    /\ mission_active' = mission_active
    /\ mission_loaded' = FALSE
    /\ mission_hash_valid' = FALSE
    /\ mission_upload_pending' = uploading
    /\ mission_upload_authorized_flag' = authorized

(* mission_reset; the two upload flags are those the caller leaves behind. *)
mission_reset(uploading, authorized) ==
    /\ current_waypoint_idx' = 0
    /\ mission_active' = FALSE
    /\ mission_loaded' = FALSE
    /\ mission_hash_valid' = FALSE
    /\ mission_upload_pending' = uploading
    /\ mission_upload_authorized_flag' = authorized

---------------------------------------------------------------------------------
(* Upload *)

(* Mutant: the version is not compared. *)
MetadataFresh_AnyVersion(id, ver) == id # 0 /\ ver # 0

(* load_pending_mission_metadata finds the id and version usable and new. *)
MetadataFresh(id, ver) ==
    /\ id # 0 /\ ver # 0
    /\ ~ (current_mission_id # 0 /\ id = current_mission_id
                                 /\ ver <= current_mission_ver)

(* Mutant: the item counter of the previous upload is kept. *)
handle_mission_count_RxKept(count, id, ver) ==
    /\ count \in 1 .. MAX_WAYPOINTS
    /\ MetadataFresh(id, ver)
    /\ pending_mission_id' = id /\ pending_mission_ver' = ver
    /\ mission_count' = count
    /\ mission_reset(TRUE, chal_resp_ok)
    /\ UNCHANGED <<mission, mission_rx_idx, stored_mission_hash, current, chal_resp_ok,
                   custom_mode, nvm>>

(* MISSION_COUNT from a ground station that may issue commands, with the    *)
(* parameters MISSION_ID and MISSION_VER set to id and ver.  A response     *)
(* that is already in its parameter authorizes the upload at once.          *)
handle_mission_count(count, id, ver) ==
    /\ count \in 1 .. MAX_WAYPOINTS
    /\ MetadataFresh(id, ver)
    /\ pending_mission_id' = id /\ pending_mission_ver' = ver
    /\ mission_rx_idx' = 0
    /\ mission_count' = count
    /\ mission_reset(TRUE, chal_resp_ok)
    /\ UNCHANGED <<mission, stored_mission_hash, current, chal_resp_ok,
                   custom_mode, nvm>>

(* PARAM_SET of MISSION_CHAL_RESP.  A wrong response takes nothing back, and *)
(* a right one is accepted whether or not an upload is under way.            *)
handle_param_set(right) ==
    /\ chal_resp_ok' = right
    /\ mission_upload_authorized_flag' = (right \/ mission_upload_authorized_flag)
    /\ UNCHANGED <<array, current, pending, mission_rx_idx, mission_upload_pending,
                   integrity, flight, custom_mode, nvm>>

(* The image save_mission_to_nvm builds on its stack for the waypoints wps:  *)
(* past count it holds whatever was on the stack, and it carries the id and  *)
(* version that are current before the pending ones replace them.            *)
SavedImages(wps) ==
    {[signature |-> TRUE, count |-> mission_count,
      waypoints |-> [i \in Slots |-> IF i < mission_count THEN wps[i] ELSE junk[i]],
      hash |-> compute_mission_hash(wps, mission_count),
      mission_id |-> current_mission_id, mission_ver |-> current_mission_ver]
        : junk \in [Slots -> Waypoints]}

(* Mutant: the digest is not marked as valid. *)
SavedState_FlagKept(wps) ==
    /\ current_mission_id' = pending_mission_id
    /\ current_mission_ver' = pending_mission_ver
    /\ pending_mission_id' = 0 /\ pending_mission_ver' = 0
    /\ mission_upload_pending' = FALSE
    /\ mission_upload_authorized_flag' = FALSE
    /\ stored_mission_hash' = compute_mission_hash(wps, mission_count)
    /\ mission_hash_valid' = mission_hash_valid
    /\ nvm' \in SavedImages(wps)

SavedState(wps) ==
    /\ current_mission_id' = pending_mission_id
    /\ current_mission_ver' = pending_mission_ver
    /\ pending_mission_id' = 0 /\ pending_mission_ver' = 0
    /\ mission_upload_pending' = FALSE
    /\ mission_upload_authorized_flag' = FALSE
    /\ stored_mission_hash' = compute_mission_hash(wps, mission_count)
    /\ mission_hash_valid' = TRUE
    /\ nvm' \in SavedImages(wps)

save_mission_to_nvm(wps) ==
    \/ mission_count > 0 /\ SavedState(wps)
    \/ /\ mission_count = 0
       /\ UNCHANGED <<current, pending, mission_upload_pending, nvm,
                      mission_upload_authorized_flag, stored_mission_hash,
                      mission_hash_valid>>

(* Slot seq after an item; a sequence number beyond the array stores nothing. *)
WithItem(seq, wp) == [i \in Slots |-> IF i = seq THEN wp ELSE mission[i]]

NextRx == (mission_rx_idx + 1) % UINT16

(* MISSION_ITEM and MISSION_ITEM_INT, once authorized: the item goes to the  *)
(* slot it names, but what is counted is that an item came.                  *)
ItemStored(seq, wp) ==
    /\ mission_upload_authorized_flag
    /\ NextRx < mission_count
    /\ mission' = WithItem(seq, wp)
    /\ mission_rx_idx' = NextRx
    /\ UNCHANGED <<mission_count, current, pending, mission_upload_pending,
                   mission_upload_authorized_flag, integrity, flight,
                   chal_resp_ok, custom_mode, nvm>>

LastItemDue == mission_upload_authorized_flag /\ NextRx >= mission_count

UploadCompleted(seq, wp) ==
    /\ LastItemDue
    /\ mission' = WithItem(seq, wp)
    /\ mission_rx_idx' = NextRx
    /\ mission_loaded' = TRUE
    /\ save_mission_to_nvm(WithItem(seq, wp))
    /\ UNCHANGED <<mission_count, flight, chal_resp_ok, custom_mode>>

handle_mission_clear_all ==
    /\ mission_reset(FALSE, FALSE)
    /\ mission_count' = 0
    /\ UNCHANGED <<mission, mission_rx_idx, stored_mission_hash, current, pending,
                   chal_resp_ok, custom_mode, nvm>>

---------------------------------------------------------------------------------
(* Flight *)

(* A mode command, or the failsafe choosing the mode. *)
set_flight_mode(mode) ==
    /\ custom_mode' = mode
    /\ UNCHANGED <<array, current, pending, upload, integrity, flight,
                   chal_resp_ok, nvm>>

(* mission_update clears mission_active when RTL starts; while rtl_active is *)
(* set the flag is clear already, because only AUTO sets it.                 *)
RtlStart ==
    /\ custom_mode = RTL
    /\ mission_active' = FALSE
    /\ UNCHANGED <<array, current, pending, upload, integrity, chal_resp_ok,
                   custom_mode, current_waypoint_idx, nvm>>

NoMission == mission_count = 0 \/ ~mission_loaded

AutoIdle ==
    /\ custom_mode = AUTO
    /\ NoMission
    /\ mission_active' = FALSE
    /\ UNCHANGED <<array, current, pending, upload, integrity, chal_resp_ok,
                   custom_mode, current_waypoint_idx, nvm>>

(* Mutant: the gate of common issue 9 in README.md, skipped once a mission was saved. *)
GateCloses_SkippedWhenValid == ~mission_hash_valid /\ ~mission_active /\ ~verify_mission_hash

(* The verification gate: the digest is checked only when a mission starts. *)
GateCloses == mission_hash_valid /\ ~mission_active /\ ~verify_mission_hash

AutoBlocked ==
    /\ custom_mode = AUTO
    /\ ~NoMission
    /\ GateCloses
    /\ custom_mode' = STABILIZE
    /\ UNCHANGED <<array, current, pending, upload, integrity, flight,
                   chal_resp_ok, nvm>>

Flying == custom_mode = AUTO /\ ~NoMission /\ ~GateCloses
NextWp == (current_waypoint_idx + 1) % UINT16

AutoFly ==
    /\ Flying
    /\ mission_active' = TRUE
    /\ UNCHANGED <<array, current, pending, upload, integrity, chal_resp_ok,
                   custom_mode, current_waypoint_idx, nvm>>

(* Mutant: the waypoint stays the one to go to. *)
WaypointReached_Again ==
    /\ Flying
    /\ NextWp < mission_count
    /\ mission_active' = TRUE
    /\ UNCHANGED <<array, current, pending, upload, integrity, chal_resp_ok,
                   custom_mode, current_waypoint_idx, nvm>>

WaypointReached ==
    /\ Flying
    /\ NextWp < mission_count
    /\ mission_active' = TRUE
    /\ current_waypoint_idx' = NextWp
    /\ UNCHANGED <<array, current, pending, upload, integrity, chal_resp_ok,
                   custom_mode, nvm>>

CompletionDue == Flying /\ NextWp >= mission_count

MissionComplete ==
    /\ CompletionDue
    /\ mission_active' = FALSE
    /\ current_waypoint_idx' = NextWp
    /\ save_mission_to_nvm(mission)
    /\ UNCHANGED <<array, mission_rx_idx, mission_loaded, chal_resp_ok, custom_mode>>

mission_update ==
    RtlStart \/ AutoIdle \/ AutoBlocked \/ AutoFly \/ WaypointReached \/ MissionComplete

---------------------------------------------------------------------------------
(* Power *)

ClampedCount(image) ==
    IF image.count > MAX_WAYPOINTS THEN MAX_WAYPOINTS ELSE image.count

(* Mutant: the count of a worn image is taken as it is. *)
BootCount_Unclamped(image) == IF image.signature THEN image.count ELSE 0

BootCount(image) == IF image.signature THEN ClampedCount(image) ELSE 0

(* Mutant: the digest is not checked at boot. *)
Readable_BySignature(image) == image.signature /\ image.count # 0

(* load_mission_from_nvm returns 1 for this image. *)
Readable(image) ==
    /\ image.signature
    /\ image.count # 0
    /\ compute_mission_hash(image.waypoints, ClampedCount(image)) = image.hash

(* RAM starts afresh and main loads the NVM.  An image with the signature    *)
(* leaves its count, waypoints, digest and identity behind even when its     *)
(* digest is wrong and main goes on to reset the mission.                    *)
Boot(image) ==
    /\ mission_count' = BootCount(image)
    /\ mission' = [i \in Slots |->
                     IF image.signature /\ i < ClampedCount(image)
                     THEN image.waypoints[i] ELSE Blank]
    /\ stored_mission_hash' = IF image.signature THEN image.hash ELSE NoDigest
    /\ current_mission_id' = IF image.signature THEN image.mission_id ELSE 0
    /\ current_mission_ver' = IF image.signature THEN image.mission_ver ELSE 0
    /\ mission_loaded' = Readable(image)
    /\ mission_hash_valid' = Readable(image)
    /\ pending_mission_id' = 0 /\ pending_mission_ver' = 0
    /\ mission_rx_idx' = 0
    /\ mission_upload_pending' = FALSE /\ mission_upload_authorized_flag' = FALSE
    /\ chal_resp_ok' = FALSE
    /\ custom_mode' = STABILIZE
    /\ mission_active' = FALSE /\ current_waypoint_idx' = 0

(* Mutant: main formats the NVM. *)
Reboot_Erased == nvm' = [nvm EXCEPT !.signature = FALSE] /\ Boot(nvm')

Reboot == Boot(nvm) /\ UNCHANGED nvm

(* What nvm_write leaves when the power goes after `done` whole fields of     *)
(* new (signature, count, each waypoint, digest, id, version) and perhaps a   *)
(* part of the next.  A half-written signature is no signature, a half-       *)
(* written digest is the digest of no mission, and every count fits in the    *)
(* first byte written of it.                                                  *)
Written(old, new, done) ==
    [signature |-> old.signature \/ done >= 1,
     count |-> IF done >= 2 THEN new.count ELSE old.count,
     waypoints |-> [i \in Slots |-> IF done >= i + 3 THEN new.waypoints[i]
                                                     ELSE old.waypoints[i]],
     hash |-> IF done >= MAX_WAYPOINTS + 3 THEN new.hash ELSE old.hash,
     mission_id |-> IF done >= MAX_WAYPOINTS + 4 THEN new.mission_id ELSE old.mission_id,
     mission_ver |-> old.mission_ver]

TornImages(old, new, done) ==
    LET whole == Written(old, new, done)
    IN  CASE done < 2 -> {whole}
          [] done \in 2 .. MAX_WAYPOINTS + 1 ->
                {[whole EXCEPT !.waypoints[done - 2] = wp] : wp \in Waypoints}
          [] done = MAX_WAYPOINTS + 2 ->
                {[whole EXCEPT !.hash = hash] :
                    hash \in {old.hash, IF old.hash = new.hash THEN old.hash ELSE NoDigest}}
          [] done = MAX_WAYPOINTS + 3 ->
                {[whole EXCEPT !.mission_id = id] : id \in 0 .. MaxId}
          [] OTHER -> {[whole EXCEPT !.mission_ver = ver] : ver \in 0 .. MaxVer}

PowerLossWhileSaving(wps) ==
    /\ mission_count > 0
    /\ \E done \in 0 .. MAX_WAYPOINTS + 4, image \in SavedImages(wps) :
          nvm' \in TornImages(nvm, image, done)
    /\ Boot(nvm')

(* The arrays a save in progress may be writing: that of an upload whose last *)
(* item came, or that of a mission whose last waypoint was reached.           *)
ArraysBeingSaved ==
    {wps \in {WithItem(seq, wp) : seq \in 0 .. MAX_WAYPOINTS, wp \in Waypoints} : LastItemDue}
        \cup {wps \in {mission} : CompletionDue}

PowerLossInSave ==
    CutsSaves /\ \E wps \in ArraysBeingSaved : PowerLossWhileSaving(wps)

(* One field of the NVM changes while the vehicle is off. *)
NvmWorn ==
    /\ \/ "signature" \in WornFields /\ nvm' = [nvm EXCEPT !.signature = FALSE]
       \/ /\ "count" \in WornFields
          /\ \E count \in 0 .. MAX_WAYPOINTS + 1 : nvm' = [nvm EXCEPT !.count = count]
       \/ /\ "waypoints" \in WornFields
          /\ \E i \in Slots, wp \in Waypoints : nvm' = [nvm EXCEPT !.waypoints[i] = wp]
       \/ "hash" \in WornFields /\ nvm' = [nvm EXCEPT !.hash = NoDigest]
    /\ Boot(nvm')

---------------------------------------------------------------------------------
UploadBegun ==
    \E count \in 1 .. MAX_WAYPOINTS, id \in 0 .. MaxId, ver \in 0 .. MaxVer :
        handle_mission_count(count, id, ver)

UploadGoesOn ==
    \/ \E right \in BOOLEAN : handle_param_set(right)
    \/ \E seq \in 0 .. MAX_WAYPOINTS, wp \in Waypoints :
          ItemStored(seq, wp) \/ UploadCompleted(seq, wp)

ModeChosen == \E mode \in Modes : set_flight_mode(mode)

Handlers == UploadBegun \/ UploadGoesOn \/ handle_mission_clear_all \/ ModeChosen

PowerCycle == Reboot \/ PowerLossInSave \/ NvmWorn

Next == Handlers \/ mission_update \/ PowerCycle

Spec == Init /\ [][Next]_vars

---------------------------------------------------------------------------------
(* Properties *)

(* A mission that is loaded is the one in the NVM: the digest in memory may   *)
(* be relied on, it is the digest in the NVM, and the image would be accepted *)
(* at boot with the same number of waypoints.  mission_update checks the      *)
(* digest only if mission_hash_valid is set, save_mission_to_nvm and          *)
(* load_mission_from_nvm are the only writers, and five handlers reset flags. *)
LoadedIsStored ==
    mission_loaded /\ mission_count > 0 =>
        /\ mission_hash_valid
        /\ Readable(nvm)
        /\ nvm.hash = stored_mission_hash
        /\ ClampedCount(nvm) = mission_count

(* Between MISSION_COUNT and the item that completes the upload, nothing can  *)
(* be flown: no mission is loaded or active, and items are still due.         *)
UploadGrounded ==
    mission_upload_pending =>
        /\ ~mission_loaded /\ ~mission_active
        /\ mission_rx_idx < mission_count

(* mission_active never outlives the mission: clearing it or starting a new   *)
(* upload in mid-flight stops the flight before the next mission_update.      *)
ActiveIsLoaded == mission_active => mission_loaded /\ mission_count > 0

(* A mission is started only in AUTO and only if the waypoints in the array   *)
(* hash to the stored digest, however they came to be there.                  *)
StartsVerified ==
    [][~mission_active /\ mission_active' =>
          custom_mode = AUTO /\ verify_mission_hash]_vars

(* While the power stays on, a mission id that stays current never goes back  *)
(* to an earlier version, whatever happens between MISSION_COUNT, where the   *)
(* version is compared, and the last item, where it becomes the current one.  *)
VersionNeverRegresses ==
    [][current_mission_id # 0 /\ current_mission_id' = current_mission_id
          => current_mission_ver' >= current_mission_ver \/ PowerCycle]_vars

(* The vehicle keeps its mission the way DurableMission promises.  A save     *)
(* that finishes commits the array; nothing else that is handled while the    *)
(* power is on touches the mission kept; a power cycle brings up the mission  *)
(* kept, and only one that cuts a save short or wears the NVM may bring up    *)
(* another: the one being saved or none, never a mix.  The image is written   *)
(* byte by byte over the one before it, signature first.                      *)
Content == compute_mission_hash(mission, mission_count)
Live == mission_loaded /\ verify_mission_hash

Durable == INSTANCE DurableMission
    WITH None <- NoDigest,
         saved <- nvm.hash,
         readable <- Readable(nvm),
         live <- IF Live THEN Content ELSE NoDigest

SaveFinished ==
    /\ mission_count > 0
    /\ \/ MissionComplete
       \/ \E seq \in 0 .. MAX_WAYPOINTS, wp \in Waypoints : UploadCompleted(seq, wp)

DurableStep ==
    /\ SaveFinished => Durable!Commit(Content')
    /\ Durable!Keep \/ SaveFinished \/ PowerCycle
    /\ Reboot => Durable!Reboot
    /\ NvmWorn => Durable!Worn
    /\ Boot(nvm') => \A wps \in ArraysBeingSaved :
          \/ Durable!Interrupted(compute_mission_hash(wps, mission_count))
          \/ ~PowerLossWhileSaving(wps)

DurableSpec == Durable!Init /\ [][DurableStep]_vars
=================================================================================
