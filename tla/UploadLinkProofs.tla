---------------------------- MODULE UploadLinkProofs ----------------------------
(***************************************************************************)
(* Proofs about UploadLink for every list of plans and every number of     *)
(* losses, retries and power failures.                                     *)
(*                                                                         *)
(* The vehicle changes its store the way MissionStore allows, because no   *)
(* message carries anything it could not (ExchangeOK); so all of           *)
(* MissionStoreProofs holds of it.  What an upload is worth depends on the *)
(* ground station: one that answers the challenge at once gets its uploads *)
(* accepted one waypoint short.  For one that answers it at leisure LInv   *)
(* holds: items are counted and not recorded, and the count is right only  *)
(* because no more than one request or answer is ever under way, and       *)
(* because an item under way is the one that is due or will be refused.    *)
(***************************************************************************)
EXTENDS UploadLink, MissionStoreProofs

LinkTypeOK ==
    /\ gcs_upload \in 0 .. Len(Plans)
    /\ gcs_state \in {"idle", "offered", "accepted", "failed", "listing", "reading", "read"}
    /\ gcs_state # "idle" => gcs_upload >= 1
    /\ gcs_read \in [count : 0 .. MAX_WAYPOINTS, items : Seq(Waypoints)]
    /\ outage \in BOOLEAN

(* The upload the ground station is at has come as far as item seq. *)
Expecting(seq) ==
    /\ mission_upload_pending
    /\ mission_count = Items(Plan)
    /\ mission_rx_idx = seq
    /\ \A i \in 0 .. seq - 1 : mission[i] = Plan[i]

(* The upload is complete, and the mission would be verified. *)
Arrived == Live /\ Content = Plan

Due(seq) == mission_upload_authorized_flag => Expecting(seq)

(* What message m, on its way to the vehicle, says of either side. *)
SentToVehicle(m) ==
    \/ m = COUNT(gcs_upload) /\ Uploading
    \/ m = CHAL_RESP /\ ~Uploading /\ ~Reading
    \/ Uploading /\ \E seq \in DOMAIN Plan : m = ITEM(seq, Plan[seq]) /\ Due(seq)
    \/ m = REQUEST_LIST /\ gcs_state = "listing"
    \/ m = REQUEST(Len(gcs_read.items)) /\ gcs_state = "reading"

(* The same for a message on its way to the ground station. *)
SentToGcs(m) ==
    \/ m = CHALLENGE
    \/ /\ ~Reading
       /\ \E seq \in 0 .. UINT16 - 1 : m = REQUEST(seq) /\ (Uploading => Due(seq))
    \/ m = ACK("DENIED") /\ Uploading
    \/ m = ACK("ACCEPTED") /\ Uploading /\ (outage \/ Arrived)
    \/ /\ gcs_state = "listing"
       /\ \E count \in 0 .. MAX_WAYPOINTS :
             m = COUNTED(count) /\ (outage \/ count = Items(Plan))
    \/ /\ gcs_state = "reading"
       /\ \E seq \in Slots, wp \in Waypoints :
             m = ITEM(seq, wp) /\ (outage \/ (seq \in DOMAIN Plan /\ wp = Plan[seq]))

(* What an accepted MISSION_COUNT is answered with, as the ground station    *)
(* hears or loses it.                                                        *)
FirstRequests ==
    {<<REQUEST(0)>>, <<CHALLENGE, REQUEST(0)>>, <<CHALLENGE, CHALLENGE, REQUEST(0)>>}

(* At most one message is under way, not counting the challenge. *)
OneUnderWay ==
    \/ toVehicle = <<>> /\ toGcs = <<>>
    \/ toVehicle # <<>> /\ toVehicle = <<Head(toVehicle)>> /\ toGcs = <<>>
    \/ toVehicle = <<>> /\ toGcs # <<>> /\ toGcs = <<Head(toGcs)>>
    \/ toVehicle = <<>> /\ toGcs \in FirstRequests

UnderWay ==
    /\ OneUnderWay
    /\ toVehicle # <<>> => SentToVehicle(Head(toVehicle))
    /\ toGcs # <<>> => SentToGcs(toGcs[Len(toGcs)])

(* The NVM never holds the digest of anything but a plan. *)
PlansOffered == {Plans[number] : number \in 1 .. gcs_upload}
StoredIsAPlan == nvm.hash \in PlansOffered \cup {NoDigest}

Acknowledgment == Acknowledged => outage \/ Arrived

ReadSoFar ==
    gcs_state \in {"reading", "read"} /\ ~outage =>
        /\ gcs_read.count = Items(Plan)
        /\ \A i \in 1 .. Len(gcs_read.items) :
              i <= Items(Plan) /\ gcs_read.items[i] = Plan[i - 1]
        /\ gcs_state = "read" => Len(gcs_read.items) >= Items(Plan)

LInv ==
    /\ LinkTypeOK
    /\ UnderWay
    /\ StoredIsAPlan
    /\ LoadedIsAPlan
    /\ Acknowledgment
    /\ ReadSoFar

---------------------------------------------------------------------------------
(* A mission is a function on 0 .. n - 1, and Items is that n. *)
LEMMA ItemsOfMission ==
    ASSUME NEW plan \in Missions
    PROVE  /\ Items(plan) \in 1 .. MAX_WAYPOINTS
           /\ DOMAIN plan = 0 .. Items(plan) - 1
           /\ plan \in [0 .. Items(plan) - 1 -> Waypoints]
<1>1. PICK n \in 1 .. MAX_WAYPOINTS : plan \in [0 .. n - 1 -> Waypoints]
  BY DEF Missions
<1>2. DOMAIN plan = 0 .. n - 1
  BY <1>1
<1>3. Items(plan) \in 1 .. MAX_WAYPOINTS /\ DOMAIN plan = 0 .. Items(plan) - 1
  BY <1>2 DEF Items
<1> QED
  BY <1>1, <1>2, <1>3

LEMMA PlanIsMission ==
    ASSUME LinkTypeOK, gcs_upload >= 1
    PROVE  /\ Plan \in Missions
           /\ Plan \in PlansOffered
BY LinkAssumption DEF LinkTypeOK, Plan, PlansOffered

(* The number of a plan, its count and its items are arguments MissionStore takes. *)
LEMMA SlotsOfPlan ==
    ASSUME LinkTypeOK, gcs_upload >= 1, NEW seq \in DOMAIN Plan
    PROVE  seq \in Slots /\ Plan[seq] \in Waypoints
BY PlanIsMission, ItemsOfMission, SizesAssumption DEF Slots

---------------------------------------------------------------------------------
(* The queues that occur. *)
LEMMA ShortQueues ==
    ASSUME NEW m, NEW n
    PROVE  /\ <<m>> # <<>> /\ <<m, n>> # <<>>
           /\ Head(<<m>>) = m /\ Head(<<m, n>>) = m
           /\ Tail(<<m>>) = <<>> /\ Tail(<<m, n>>) = <<n>>
           /\ <<m>>[Len(<<m>>)] = m /\ <<m, n>>[Len(<<m, n>>)] = n
           /\ <<>> \o <<>> = <<>>
           /\ <<>> \o <<m>> = <<m>> /\ <<>> \o <<m, n>> = <<m, n>>
           /\ Append(<<>>, m) = <<m>>
OBVIOUS

LEMMA LongQueues ==
    ASSUME NEW m, NEW n
    PROVE  /\ <<m, n>> # <<m>> /\ <<m, m, n>> # <<m>> /\ <<m, m, n>> # <<>>
           /\ Head(<<m, m, n>>) = m /\ Tail(<<m, m, n>>) = <<m, n>>
           /\ <<m, m, n>>[Len(<<m, m, n>>)] = n
           /\ <<>> \o <<m, m, n>> = <<m, m, n>>
OBVIOUS

(* What is known of the message a handler of the vehicle takes, and of the     *)
(* queues then.                                                                *)
LEMMA Received ==
    ASSUME UnderWay, NEW type, Receive(type)
    PROVE  /\ Head(toVehicle).type = type
           /\ SentToVehicle(Head(toVehicle))
           /\ toVehicle' = <<>> /\ toGcs = <<>>
<1>1. toVehicle = <<Head(toVehicle)>> /\ toGcs = <<>>
  BY DEF UnderWay, OneUnderWay, Receive
<1>2. toVehicle' = <<>>
  BY <1>1, ShortQueues DEF Receive
<1> QED
  BY <1>1, <1>2 DEF UnderWay, Receive

LEMMA MessageTypes ==
    /\ \A n : COUNT(n).type = "MISSION_COUNT" /\ COUNT(n).number = n
    /\ \A seq, wp : /\ ITEM(seq, wp).type = "MISSION_ITEM_INT"
                    /\ ITEM(seq, wp).seq = seq /\ ITEM(seq, wp).wp = wp
    /\ CHAL_RESP.type = "MISSION_CHAL_RESP"
    /\ REQUEST_LIST.type = "MISSION_REQUEST_LIST"
    /\ \A n : COUNTED(n).type = "MISSION_COUNT" /\ COUNTED(n).count = n
    /\ \A seq : REQUEST(seq).type = "MISSION_REQUEST_INT" /\ REQUEST(seq).seq = seq
    /\ CHALLENGE.type = "MISSION_CHALLENGE"
    /\ \A r : ACK(r).type = "MISSION_ACK" /\ ACK(r).result = r
BY DEF COUNT, ITEM, CHAL_RESP, REQUEST_LIST, COUNTED, REQUEST, CHALLENGE, ACK

(* By its type, then, each handler knows what it was sent. *)
LEMMA CountReceived ==
    ASSUME UnderWay, Receive("MISSION_COUNT")
    PROVE  Head(toVehicle).number = gcs_upload /\ Uploading
BY Received, MessageTypes DEF SentToVehicle

LEMMA ResponseReceivedWhen ==
    ASSUME UnderWay, Receive("MISSION_CHAL_RESP")
    PROVE  ~Uploading /\ ~Reading
BY Received, MessageTypes DEF SentToVehicle

ItemAtHead == toVehicle # <<>> /\ Head(toVehicle).type = "MISSION_ITEM_INT"

LEMMA ItemReceived ==
    ASSUME UnderWay, ItemAtHead
    PROVE  /\ Uploading
           /\ Head(toVehicle).seq \in DOMAIN Plan
           /\ Head(toVehicle).wp = Plan[Head(toVehicle).seq]
           /\ Due(Head(toVehicle).seq)
<1>1. PICK seq \in DOMAIN Plan :
        Uploading /\ Head(toVehicle) = ITEM(seq, Plan[seq]) /\ Due(seq)
  BY MessageTypes DEF SentToVehicle, UnderWay, ItemAtHead
<1> QED
  BY <1>1, MessageTypes

LEMMA ListRequestedWhen ==
    ASSUME UnderWay, Receive("MISSION_REQUEST_LIST")
    PROVE  gcs_state = "listing"
BY Received, MessageTypes DEF SentToVehicle

LEMMA ItemRequestedWhen ==
    ASSUME UnderWay, Receive("MISSION_REQUEST_INT")
    PROVE  gcs_state = "reading" /\ Head(toVehicle).seq = Len(gcs_read.items)
BY Received, MessageTypes DEF SentToVehicle

(* The challenges come off the queue before the request. *)
LEMMA FirstRequestsShorten ==
    ASSUME NEW q \in FirstRequests
    PROVE  /\ q # <<>> /\ q[Len(q)] = REQUEST(0)
           /\ \/ q = <<REQUEST(0)>> /\ q = <<Head(q)>> /\ Tail(q) = <<>>
              \/ /\ q # <<Head(q)>> /\ Head(q) = CHALLENGE
                 /\ Tail(q) \in FirstRequests
<1>1. CASE q = <<REQUEST(0)>>
  BY <1>1, ShortQueues
<1>2. CASE q = <<CHALLENGE, REQUEST(0)>>
  BY <1>2, ShortQueues, LongQueues DEF FirstRequests
<1>3. CASE q = <<CHALLENGE, CHALLENGE, REQUEST(0)>>
  BY <1>3, ShortQueues, LongQueues DEF FirstRequests
<1> QED
  BY <1>1, <1>2, <1>3 DEF FirstRequests

(* What is known of the message the ground station hears. *)
LEMMA HeardLast ==
    ASSUME UnderWay, NEW type, Heard(type)
    PROVE  /\ toVehicle = <<>>
           /\ Head(toGcs).type = type
           /\ \/ /\ type = "MISSION_CHALLENGE"
                 /\ toGcs' \in FirstRequests /\ SentToGcs(REQUEST(0))
              \/ toGcs' = <<>> /\ SentToGcs(Head(toGcs))
<1>1. CASE toVehicle = <<>> /\ toGcs # <<>> /\ toGcs = <<Head(toGcs)>>
  <2>1. toGcs' = <<>> /\ toGcs[Len(toGcs)] = Head(toGcs)
    BY <1>1, ShortQueues DEF Heard
  <2> QED
    BY <1>1, <2>1 DEF Heard, UnderWay
<1>2. CASE toVehicle = <<>> /\ toGcs \in FirstRequests /\ toGcs # <<Head(toGcs)>>
  <2>1. /\ toGcs # <<>> /\ Head(toGcs) = CHALLENGE
        /\ Tail(toGcs) \in FirstRequests /\ toGcs[Len(toGcs)] = REQUEST(0)
    BY <1>2, FirstRequestsShorten
  <2>2. toGcs' = Tail(toGcs) /\ Head(toGcs).type = type
    BY DEF Heard
  <2> QED
    BY <1>2, <2>1, <2>2, MessageTypes DEF UnderWay
<1> QED
  BY <1>1, <1>2 DEF UnderWay, OneUnderWay, Heard

(* The queues after a step, and the invariant of them again. *)
LEMMA NothingSent ==
    ASSUME toVehicle' = <<>>, toGcs' = <<>>
    PROVE  UnderWay'
BY DEF UnderWay, OneUnderWay

LEMMA SentOneToVehicle ==
    ASSUME NEW m, toVehicle' = <<m>>, toGcs' = <<>>, SentToVehicle(m)'
    PROVE  UnderWay'
BY ShortQueues DEF UnderWay, OneUnderWay

LEMMA SentOneToGcs ==
    ASSUME NEW m, toGcs' = <<m>>, toVehicle' = <<>>, SentToGcs(m)'
    PROVE  UnderWay'
BY ShortQueues DEF UnderWay, OneUnderWay

LEMMA FirstRequestSent ==
    ASSUME NEW q \in FirstRequests, toGcs' = q, toVehicle' = <<>>,
           ~Reading', Uploading' => Due(0)'
    PROVE  UnderWay'
<1>1. PICK m : m = REQUEST(0)
  OBVIOUS
<1>2. 0 \in 0 .. UINT16 - 1
  BY SizesAssumption
<1>3. SentToGcs(m)'
  BY <1>1, <1>2 DEF SentToGcs
<1>4. q # <<>> /\ q[Len(q)] = m
  BY <1>1, FirstRequestsShorten
<1> QED
  BY <1>3, <1>4 DEF UnderWay, OneUnderWay

---------------------------------------------------------------------------------
(* What a step that leaves the mission and the number of the upload alone keeps. *)
LEMMA ContentUntouched ==
    ASSUME LInv, UNCHANGED <<array, integrity, nvm, gcs_upload>>
    PROVE  /\ StoredIsAPlan' /\ LoadedIsAPlan'
           /\ Plan' = Plan
           /\ Arrived' = Arrived
<1>1. UNCHANGED <<mission, mission_count, mission_loaded, stored_mission_hash, nvm>>
  BY DEF array, integrity
<1>2. Plan' = Plan /\ PlansOffered' = PlansOffered /\ Content' = Content
  BY <1>1 DEF Plan, PlansOffered, Content
<1>3. StoredIsAPlan' /\ LoadedIsAPlan'
  BY <1>1, <1>2 DEF StoredIsAPlan, LoadedIsAPlan, LInv
<1>4. Arrived' = Arrived
  BY <1>1, <1>2 DEF Arrived, Live, verify_mission_hash
<1> QED
  BY <1>2, <1>3, <1>4

(* If the whole store is left alone, the item that is due stays so. *)
LEMMA StoreUntouched ==
    ASSUME LInv, UNCHANGED store, UNCHANGED gcs_upload
    PROVE  /\ StoredIsAPlan' /\ LoadedIsAPlan'
           /\ Plan' = Plan
           /\ Arrived' = Arrived
           /\ \A seq : Due(seq)' = Due(seq)
<1>1. UNCHANGED <<array, integrity, nvm, upload>>
  BY DEF store, vars
<1>2. \A seq : Due(seq)' = Due(seq)
  BY <1>1 DEF Due, Expecting, array, upload, Plan
<1> QED
  BY <1>1, <1>2, ContentUntouched

LEMMA GcsUntouched ==
    ASSUME LInv, UNCHANGED <<gcs, outage>>, Acknowledged /\ ~outage => Arrived'
    PROVE  LinkTypeOK' /\ Acknowledgment' /\ ReadSoFar'
BY DEF LInv, LinkTypeOK, Acknowledgment, Acknowledged, ReadSoFar, gcs, Plan

(* The handlers, one by one.  MISSION_COUNT begins the upload. *)
LEMMA CountAcceptedKeeps ==
    ASSUME LInv, CountAccepted
    PROVE  LInv'
<1>1. /\ Receive("MISSION_COUNT") /\ Uploading
      /\ handle_mission_count(Items(Plan), 1, gcs_upload)
      /\ toVehicle' = <<>> /\ toGcs' \in FirstRequests
  <2>1. Receive("MISSION_COUNT") /\ UnderWay
    BY DEF CountAccepted, LInv
  <2>2. Uploading /\ Head(toVehicle).number = gcs_upload
    BY <2>1, CountReceived
  <2>3. toVehicle' = <<>> /\ toGcs = <<>>
    BY <2>1, Received
  <2>4. toGcs' = <<>> \o <<CHALLENGE, CHALLENGE, REQUEST(0)>>
    BY <2>3 DEF CountAccepted, Reply
  <2>5. handle_mission_count(Items(Plan), 1, gcs_upload)
    BY <2>2 DEF CountAccepted, Plan
  <2> QED
    BY <2>1, <2>2, <2>3, <2>4, <2>5, LongQueues DEF FirstRequests
<1>2. UNCHANGED <<gcs, outage>> /\ ~Acknowledged
  BY <1>1 DEF Receive, budget, Uploading, Acknowledged
<1>3. Plan' = Plan /\ PlansOffered' = PlansOffered /\ Uploading' = Uploading
  BY <1>2 DEF gcs, Plan, PlansOffered, Uploading
<1>4. /\ mission_upload_pending' /\ mission_count' = Items(Plan)
      /\ mission_rx_idx' = 0 /\ ~mission_loaded' /\ nvm' = nvm
  BY <1>1 DEF handle_mission_count, mission_reset
<1>5. Due(0)'
  BY <1>3, <1>4 DEF Due, Expecting
<1>6. ~Reading'
  BY <1>1, <1>3 DEF Uploading, Reading
<1>7. UnderWay'
  BY <1>1, <1>5, <1>6, FirstRequestSent
<1>8. StoredIsAPlan' /\ LoadedIsAPlan'
  BY <1>3, <1>4 DEF LInv, StoredIsAPlan, LoadedIsAPlan
<1> QED
  BY <1>2, <1>7, <1>8, GcsUntouched DEF LInv

(* A handler that leaves the store alone and answers with one message. *)
LEMMA AnswerKeeps ==
    ASSUME LInv, NEW m, NEW type, Receive(type), Reply(<<m>>), UNCHANGED store,
           SentToGcs(m)'
    PROVE  LInv'
<1>1. toVehicle' = <<>> /\ toGcs' = <<m>> /\ UNCHANGED <<gcs, outage>>
  BY Received, ShortQueues DEF LInv, Reply, Receive, budget
<1>2. gcs_upload' = gcs_upload
  BY <1>1 DEF gcs
<1>3. StoredIsAPlan' /\ LoadedIsAPlan' /\ Arrived' = Arrived
  BY <1>2, StoreUntouched
<1>4. LinkTypeOK' /\ Acknowledgment' /\ ReadSoFar'
  BY <1>1, <1>3, GcsUntouched DEF LInv, Acknowledgment
<1> QED
  BY <1>1, <1>3, <1>4, SentOneToGcs DEF LInv

LEMMA DenialKeeps ==
    ASSUME LInv, CountDenied \/ ItemDenied
    PROVE  LInv'
<1>1. PICK type : /\ Receive(type) /\ type \in {"MISSION_COUNT", "MISSION_ITEM_INT"}
                  /\ Reply(<<ACK("DENIED")>>) /\ UNCHANGED store
  BY DEF CountDenied, ItemDenied
<1>2. Uploading /\ gcs_state' = gcs_state
  BY <1>1, CountReceived, ItemReceived DEF LInv, Receive, ItemAtHead, gcs
<1>3. PICK m : m = ACK("DENIED")
  OBVIOUS
<1>4. SentToGcs(m)'
  BY <1>2, <1>3 DEF SentToGcs, Uploading
<1> QED
  BY <1>1, <1>3, <1>4, AnswerKeeps

(* The response may authorize an upload, but no request of it is under way: the *)
(* one it causes is ignored.                                                    *)
LEMMA ResponseReceivedKeeps ==
    ASSUME LInv, TypeOK, ResponseReceived
    PROVE  LInv'
<1>1. /\ Receive("MISSION_CHAL_RESP") /\ ~Uploading /\ ~Reading
      /\ handle_param_set(TRUE)
  BY ResponseReceivedWhen DEF ResponseReceived, LInv
<1>2. /\ toVehicle' = <<>> /\ toGcs' = <<REQUEST(mission_rx_idx)>>
      /\ UNCHANGED <<gcs, outage>>
  BY <1>1, Received, ShortQueues DEF LInv, ResponseReceived, Reply, Receive, budget
<1>3. ~Uploading' /\ ~Reading' /\ Plan' = Plan /\ PlansOffered' = PlansOffered
  BY <1>1, <1>2 DEF gcs, Uploading, Reading, Plan, PlansOffered
<1>4. PICK m : m = REQUEST(mission_rx_idx)
  OBVIOUS
<1>5. SentToGcs(m)'
  <2>1. mission_rx_idx \in 0 .. UINT16 - 1
    BY DEF TypeOK, NumbersOK
  <2> QED
    BY <1>1, <1>3, <1>4, <2>1 DEF SentToGcs
<1>6. StoredIsAPlan' /\ LoadedIsAPlan' /\ Arrived' = Arrived
  BY <1>1, <1>2, ContentUntouched DEF handle_param_set, gcs
<1>7. LinkTypeOK' /\ Acknowledgment' /\ ReadSoFar'
  BY <1>2, <1>6, GcsUntouched DEF LInv, Acknowledgment
<1> QED
  BY <1>2, <1>4, <1>5, <1>6, <1>7, SentOneToGcs DEF LInv

---------------------------------------------------------------------------------
(* An item that is not refused is the one that is due, and goes to its slot. *)
LEMMA ItemIsDue ==
    ASSUME LInv, IInv, ItemAtHead, mission_upload_authorized_flag,
           NEW seq, NEW wp, seq = Head(toVehicle).seq, wp = Head(toVehicle).wp
    PROVE  /\ Uploading /\ ~mission_loaded
           /\ mission_count = Items(Plan) /\ mission_count \in 1 .. MAX_WAYPOINTS
           /\ mission_rx_idx = seq /\ seq \in 0 .. mission_count - 1
           /\ NextRx = seq + 1
           /\ WithItem(seq, wp) \in [Slots -> Waypoints]
           /\ \A i \in 0 .. seq : WithItem(seq, wp)[i] = Plan[i]
<1>1. /\ Uploading /\ seq \in DOMAIN Plan /\ wp = Plan[seq] /\ Expecting(seq)
  BY ItemReceived DEF LInv, Due
<1>2. gcs_upload >= 1 /\ LinkTypeOK
  BY <1>1 DEF LInv, LinkTypeOK, Uploading
<1>3. Plan \in Missions
  BY <1>2, PlanIsMission
<1>4. /\ mission_count = Items(Plan) /\ mission_count \in 1 .. MAX_WAYPOINTS
      /\ mission_rx_idx = seq /\ seq \in 0 .. mission_count - 1
  BY <1>1, <1>3, ItemsOfMission DEF Expecting
<1>5. ~mission_loaded
  BY <1>1 DEF Expecting, IInv, UploadGrounded
<1>6. NextRx = seq + 1
  BY <1>4, SizesAssumption DEF NextRx
<1>7. seq \in Slots /\ wp \in Waypoints
  BY <1>1, <1>2, SlotsOfPlan
<1>8. WithItem(seq, wp) \in [Slots -> Waypoints]
  BY <1>7, WithItemType DEF IInv
<1>9. ASSUME NEW i \in 0 .. seq
      PROVE  WithItem(seq, wp)[i] = Plan[i]
  <2>1. i \in Slots
    BY <1>7, SizesAssumption DEF Slots
  <2>2. i # seq => mission[i] = Plan[i]
    BY <1>1, <1>7 DEF Expecting, Slots
  <2> QED
    BY <1>1, <2>1, <2>2 DEF WithItem
<1> QED
  BY <1>1, <1>4, <1>5, <1>6, <1>8, <1>9

LEMMA ItemAcceptedKeeps ==
    ASSUME LInv, IInv, ItemAccepted
    PROVE  LInv'
<1>1. PICK seq, wp : seq = Head(toVehicle).seq /\ wp = Head(toVehicle).wp
  OBVIOUS
<1>2. Receive("MISSION_ITEM_INT") /\ ItemStored(seq, wp)
  BY <1>1 DEF ItemAccepted
<1>3. /\ Uploading /\ ~mission_loaded
      /\ mission_count = Items(Plan) /\ mission_count \in 1 .. MAX_WAYPOINTS
      /\ mission_rx_idx = seq /\ seq \in 0 .. mission_count - 1
      /\ NextRx = seq + 1
      /\ \A i \in 0 .. seq : WithItem(seq, wp)[i] = Plan[i]
  BY <1>1, <1>2, ItemIsDue DEF ItemStored, Receive, ItemAtHead
<1>4. /\ toVehicle' = <<>> /\ toGcs' = <<REQUEST(seq + 1)>>
      /\ UNCHANGED <<gcs, outage>>
  BY <1>2, <1>3, Received, ShortQueues DEF LInv, ItemAccepted, ItemReply, Reply, Receive, budget
<1>5. Uploading' /\ ~Reading' /\ Plan' = Plan /\ PlansOffered' = PlansOffered
  BY <1>3, <1>4 DEF gcs, Uploading, Reading, Plan, PlansOffered
<1>6. /\ mission' = WithItem(seq, wp) /\ mission_rx_idx' = seq + 1
      /\ mission_count' = mission_count /\ ~mission_loaded' /\ nvm' = nvm
      /\ mission_upload_pending' = mission_upload_pending
  BY <1>2, <1>3 DEF ItemStored, integrity
<1>7. Due(seq + 1)'
  <2>1. mission_upload_pending
    BY <1>1, <1>2, ItemReceived DEF LInv, Due, Expecting, ItemStored, Receive, ItemAtHead
  <2>2. \A i \in 0 .. (seq + 1) - 1 : mission'[i] = Plan'[i]
    BY <1>3, <1>5, <1>6
  <2> QED
    BY <1>3, <1>5, <1>6, <2>1, <2>2 DEF Due, Expecting
<1>8. PICK m : m = REQUEST(seq + 1)
  OBVIOUS
<1>9. SentToGcs(m)'
  <2>1. seq + 1 \in 0 .. UINT16 - 1
    BY <1>3, SizesAssumption
  <2> QED
    BY <1>5, <1>7, <1>8, <2>1 DEF SentToGcs
<1>10. UnderWay'
  BY <1>4, <1>8, <1>9, SentOneToGcs
<1>11. StoredIsAPlan' /\ LoadedIsAPlan'
  BY <1>5, <1>6 DEF LInv, StoredIsAPlan, LoadedIsAPlan
<1>12. LinkTypeOK' /\ Acknowledgment' /\ ReadSoFar'
  BY <1>3, <1>4, GcsUntouched DEF Uploading, Acknowledged
<1> QED
  BY <1>10, <1>11, <1>12 DEF LInv

(* The array an upload is completed with is the plan. *)
LEMMA LastItemCompletes ==
    ASSUME LInv, IInv, ItemAtHead, LastItemDue,
           NEW seq, NEW wp, seq = Head(toVehicle).seq, wp = Head(toVehicle).wp
    PROVE  compute_mission_hash(WithItem(seq, wp), mission_count) = Plan
<1>1. /\ Uploading /\ mission_count = Items(Plan) /\ mission_count \in 1 .. MAX_WAYPOINTS
      /\ mission_rx_idx = seq /\ seq \in 0 .. mission_count - 1
      /\ NextRx = seq + 1
      /\ \A i \in 0 .. seq : WithItem(seq, wp)[i] = Plan[i]
  BY ItemIsDue DEF LastItemDue
<1>2. Plan \in [0 .. mission_count - 1 -> Waypoints]
  BY <1>1, PlanIsMission, ItemsOfMission DEF LInv, LinkTypeOK, Uploading
<1>3. seq = mission_count - 1
  BY <1>1 DEF LastItemDue
<1>4. \A i \in 0 .. mission_count - 1 : WithItem(seq, wp)[i] = Plan[i]
  BY <1>1, <1>3
<1> QED
  BY <1>2, <1>4 DEF compute_mission_hash

LEMMA LastItemAcceptedKeeps ==
    ASSUME LInv, IInv, LastItemAccepted
    PROVE  LInv'
<1>1. PICK seq, wp : seq = Head(toVehicle).seq /\ wp = Head(toVehicle).wp
  OBVIOUS
<1>2. /\ Receive("MISSION_ITEM_INT") /\ ItemAtHead
      /\ UploadCompleted(seq, wp) /\ LastItemDue /\ mission_upload_authorized_flag
  BY <1>1 DEF LastItemAccepted, UploadCompleted, LastItemDue, Receive, ItemAtHead
<1>3. /\ Uploading /\ mission_count \in 1 .. MAX_WAYPOINTS
      /\ WithItem(seq, wp) \in [Slots -> Waypoints]
  BY <1>1, <1>2, ItemIsDue
<1>4. compute_mission_hash(WithItem(seq, wp), mission_count) = Plan
  BY <1>1, <1>2, LastItemCompletes
<1>5. /\ toVehicle' = <<>> /\ toGcs' = <<ACK("ACCEPTED")>> /\ UNCHANGED <<gcs, outage>>
  BY <1>2, Received, ShortQueues DEF LInv, LastItemAccepted, Reply, Receive, budget
<1>6. Uploading' /\ Plan' = Plan /\ PlansOffered' = PlansOffered /\ ~Acknowledged
  BY <1>3, <1>5 DEF gcs, Uploading, Plan, PlansOffered, Acknowledged
<1>7. SavedState(WithItem(seq, wp))
  <2>1. mission_count # 0
    BY <1>3, SizesAssumption
  <2> QED
    BY <1>2, <2>1, Zenon DEF UploadCompleted, save_mission_to_nvm
<1>8. /\ mission' = WithItem(seq, wp) /\ mission_count' = mission_count /\ mission_loaded'
      /\ stored_mission_hash' = Plan
      /\ nvm'.hash = stored_mission_hash'
  <2>1. mission_count > 0 /\ TypeOK
    BY <1>3, SizesAssumption DEF IInv
  <2> QED
    BY <1>2, <1>3, <1>4, <1>7, <2>1, SaveInvariant DEF UploadCompleted, SavedState
<1>9. Content' = Plan
  BY <1>4, <1>8 DEF Content
<1>10. Arrived'
  BY <1>3, <1>6, <1>8, <1>9 DEF Arrived, Live, verify_mission_hash, Content
<1>11. Plan \in PlansOffered
  BY <1>3, PlanIsMission DEF LInv, LinkTypeOK, Uploading
<1>12. StoredIsAPlan' /\ LoadedIsAPlan'
  BY <1>6, <1>8, <1>9, <1>11 DEF StoredIsAPlan, LoadedIsAPlan, PlansOffered
<1>13. PICK m : m = ACK("ACCEPTED")
  OBVIOUS
<1>14. SentToGcs(m)'
  BY <1>6, <1>10, <1>13 DEF SentToGcs
<1>15. LinkTypeOK' /\ Acknowledgment' /\ ReadSoFar'
  BY <1>5, <1>6, GcsUntouched
<1> QED
  BY <1>5, <1>12, <1>13, <1>14, <1>15, SentOneToGcs DEF LInv

(* Download: while no power was lost, what is read is the plan. *)
LEMMA ArrivedArray ==
    ASSUME LInv, TypeOK, Arrived, gcs_upload >= 1
    PROVE  /\ mission_count = Items(Plan)
           /\ DOMAIN Plan = 0 .. mission_count - 1
           /\ \A i \in DOMAIN Plan : mission[i] = Plan[i]
<1>1. Plan = [i \in 0 .. mission_count - 1 |-> mission[i]]
  BY DEF Arrived, Content, compute_mission_hash
<1>2. DOMAIN Plan = 0 .. Items(Plan) - 1 /\ Items(Plan) \in 1 .. MAX_WAYPOINTS
  BY PlanIsMission, ItemsOfMission DEF LInv
<1>3. mission_count \in 1 .. MAX_WAYPOINTS
  BY SizesAssumption DEF Arrived, Live, verify_mission_hash, TypeOK, NumbersOK
<1>4. mission_count = Items(Plan)
  <2>1. 0 .. mission_count - 1 = 0 .. Items(Plan) - 1
    BY <1>1, <1>2
  <2>2. mission_count - 1 \in 0 .. Items(Plan) - 1 /\ Items(Plan) - 1 \in 0 .. mission_count - 1
    BY <1>2, <1>3, <2>1, SizesAssumption
  <2> QED
    BY <1>2, <1>3, <2>2, SizesAssumption
<1> QED
  BY <1>1, <1>2, <1>4

LEMMA ListRequestedKeeps ==
    ASSUME LInv, TypeOK, ListRequested
    PROVE  LInv'
<1>1. /\ Receive("MISSION_REQUEST_LIST") /\ Reply(<<COUNTED(mission_count)>>)
      /\ UNCHANGED store /\ gcs_state = "listing" /\ UNCHANGED <<gcs, outage>>
  BY ListRequestedWhen DEF ListRequested, LInv, Receive, budget
<1>2. gcs_upload >= 1 /\ Acknowledged
  BY <1>1 DEF LInv, LinkTypeOK, Acknowledged
<1>3. outage \/ mission_count = Items(Plan)
  BY <1>2, ArrivedArray DEF LInv, Acknowledgment
<1>4. Plan' = Plan
  BY <1>1 DEF gcs, Plan
<1>5. PICK m : m = COUNTED(mission_count)
  OBVIOUS
<1>6. SentToGcs(m)'
  <2>1. mission_count \in 0 .. MAX_WAYPOINTS
    BY DEF TypeOK, NumbersOK
  <2>2. gcs_state' = "listing" /\ outage' = outage
    BY <1>1 DEF gcs
  <2> QED
    BY <1>3, <1>4, <1>5, <2>1, <2>2 DEF SentToGcs
<1> QED
  BY <1>1, <1>5, <1>6, AnswerKeeps

LEMMA ItemRequestedKeeps ==
    ASSUME LInv, TypeOK, ItemRequested
    PROVE  LInv'
<1>1. PICK seq : seq = Head(toVehicle).seq
  OBVIOUS
<1>2. /\ Receive("MISSION_REQUEST_INT") /\ Reply(ItemSent(seq))
      /\ UNCHANGED store /\ gcs_state = "reading" /\ UNCHANGED <<gcs, outage>>
      /\ seq = Len(gcs_read.items)
  BY <1>1, ItemRequestedWhen DEF ItemRequested, LInv, Receive, budget
<1>3. gcs_upload >= 1 /\ Acknowledged /\ seq \in Nat
  BY <1>2 DEF LInv, LinkTypeOK, Acknowledged
<1>4. CASE seq >= mission_count
  <2>1. toVehicle' = <<>> /\ toGcs' = <<>>
    BY <1>2, <1>4, Received, ShortQueues DEF LInv, ItemSent, Reply
  <2>2. gcs_upload' = gcs_upload
    BY <1>2 DEF gcs
  <2>3. StoredIsAPlan' /\ LoadedIsAPlan' /\ Arrived' = Arrived
    BY <1>2, <2>2, StoreUntouched
  <2>4. LinkTypeOK' /\ Acknowledgment' /\ ReadSoFar'
    BY <1>2, <2>3, GcsUntouched DEF LInv, Acknowledgment
  <2> QED
    BY <2>1, <2>3, <2>4, NothingSent DEF LInv
<1>5. CASE ~(seq >= mission_count)
  <2>1. Reply(<<ITEM(seq, mission[seq])>>)
    BY <1>2, <1>5 DEF ItemSent
  <2>2. seq \in Slots /\ seq \in 0 .. mission_count - 1
    BY <1>3, <1>5, SizesAssumption DEF TypeOK, NumbersOK, Slots
  <2>3. PICK wp \in Waypoints : wp = mission[seq]
    BY <2>2 DEF TypeOK, DataOK
  <2>4. outage \/ (seq \in DOMAIN Plan /\ wp = Plan[seq])
    BY <1>3, <2>2, <2>3, ArrivedArray DEF LInv, Acknowledgment
  <2>5. PICK m : m = ITEM(seq, wp)
    OBVIOUS
  <2>6. Plan' = Plan /\ gcs_state' = "reading" /\ outage' = outage
    BY <1>2 DEF gcs, Plan
  <2>7. SentToGcs(m)'
    BY <2>2, <2>4, <2>5, <2>6 DEF SentToGcs
  <2> QED
    BY <1>2, <2>1, <2>3, <2>5, <2>7, AnswerKeeps
<1> QED
  BY <1>4, <1>5

---------------------------------------------------------------------------------
(* The ground station.  What it sends when the link is quiet. *)
LEMMA TransmitKeeps ==
    ASSUME LInv, NEW m, Quiet, Transmit(m), UNCHANGED <<store, toGcs>>, SentToVehicle(m)'
    PROVE  UnderWay'
BY ShortQueues, SentOneToVehicle DEF Quiet, Transmit

LEMMA RespondKeeps ==
    ASSUME LInv, Respond
    PROVE  LInv'
<1>1. UNCHANGED <<gcs, outage, gcs_upload, gcs_state>> /\ ~Uploading /\ ~Reading
  BY DEF Respond, gcs, budget
<1>2. StoredIsAPlan' /\ LoadedIsAPlan' /\ Arrived' = Arrived
  BY <1>1, StoreUntouched DEF Respond
<1>3. LinkTypeOK' /\ Acknowledgment' /\ ReadSoFar'
  BY <1>1, <1>2, GcsUntouched DEF LInv, Acknowledgment
<1>4. PICK m : m = CHAL_RESP
  OBVIOUS
<1>5. SentToVehicle(m)'
  BY <1>1, <1>4 DEF SentToVehicle, Uploading, Reading
<1> QED
  BY <1>2, <1>3, <1>4, <1>5, TransmitKeeps DEF LInv, Respond

LEMMA StartUploadKeeps ==
    ASSUME LInv, StartUpload
    PROVE  LInv'
<1>1. /\ gcs_upload \in Nat /\ gcs_upload' = gcs_upload + 1 /\ gcs_upload + 1 <= Len(Plans)
      /\ gcs_state' = "offered" /\ gcs_read' = NothingRead /\ outage' = FALSE
      /\ UNCHANGED store
  BY LinkAssumption DEF StartUpload, LInv, LinkTypeOK
<1>2. LinkTypeOK'
  <2>1. NothingRead \in [count : 0 .. MAX_WAYPOINTS, items : Seq(Waypoints)]
    BY SizesAssumption DEF NothingRead
  <2>2. gcs_upload' \in 0 .. Len(Plans) /\ gcs_upload' >= 1
    BY <1>1, LinkAssumption
  <2> QED
    BY <1>1, <2>1, <2>2 DEF LinkTypeOK
<1>3. StoredIsAPlan' /\ LoadedIsAPlan'
  <2>1. /\ mission' = mission /\ mission_count' = mission_count
        /\ mission_loaded' = mission_loaded /\ nvm' = nvm
    BY <1>1 DEF store, vars, array, integrity
  <2>2. \A number \in 1 .. gcs_upload : number \in 1 .. gcs_upload'
    BY <1>1
  <2>3. Content' = Content
    BY <2>1 DEF Content
  <2> QED
    BY <2>1, <2>2, <2>3 DEF LInv, StoredIsAPlan, LoadedIsAPlan, PlansOffered
<1>4. Acknowledgment' /\ ReadSoFar'
  BY <1>1 DEF Acknowledgment, Acknowledged, ReadSoFar
<1>5. PICK m : m = COUNT(gcs_upload + 1)
  OBVIOUS
<1>6. SentToVehicle(m)'
  BY <1>1, <1>5 DEF SentToVehicle, Uploading
<1> QED
  BY <1>2, <1>3, <1>4, <1>5, <1>6, TransmitKeeps DEF LInv, StartUpload

LEMMA StartReadingKeeps ==
    ASSUME LInv, StartReading
    PROVE  LInv'
<1>1. /\ gcs_state = "accepted" /\ gcs_state' = "listing"
      /\ UNCHANGED <<store, gcs_upload, gcs_read, outage>>
  BY DEF StartReading, budget
<1>2. StoredIsAPlan' /\ LoadedIsAPlan' /\ Arrived' = Arrived
  BY <1>1, StoreUntouched
<1>3. LinkTypeOK' /\ Acknowledgment' /\ ReadSoFar'
  BY <1>1, <1>2 DEF LInv, LinkTypeOK, Acknowledgment, Acknowledged, ReadSoFar
<1>4. PICK m : m = REQUEST_LIST
  OBVIOUS
<1>5. SentToVehicle(m)'
  BY <1>1, <1>4 DEF SentToVehicle
<1> QED
  BY <1>1, <1>2, <1>3, <1>4, <1>5, TransmitKeeps DEF LInv, StartReading

(* A timeout repeats what is outstanding, or gives up. *)
LEMMA TimeoutKeeps ==
    ASSUME LInv, Timeout
    PROVE  LInv'
<1>1. /\ Uploading \/ Reading
      /\ UNCHANGED <<store, toGcs, gcs_upload, gcs_read, outage>> /\ Quiet
  BY DEF Timeout, budget
<1>2. StoredIsAPlan' /\ LoadedIsAPlan' /\ Arrived' = Arrived /\ Plan' = Plan
  BY <1>1, StoreUntouched
<1>3. CASE Transmit(Outstanding) /\ UNCHANGED gcs_state
  <2>1. LinkTypeOK' /\ Acknowledgment' /\ ReadSoFar'
    BY <1>1, <1>2, <1>3 DEF LInv, LinkTypeOK, Acknowledgment, Acknowledged, ReadSoFar
  <2>2. PICK m : m = Outstanding
    OBVIOUS
  <2>3. SentToVehicle(m)'
    BY <1>1, <1>3, <2>2 DEF SentToVehicle, Outstanding, Uploading, Reading
  <2> QED
    BY <1>1, <1>2, <1>3, <2>1, <2>2, <2>3, TransmitKeeps DEF LInv
<1>4. CASE gcs_state' = "failed" /\ UNCHANGED toVehicle
  <2>1. LinkTypeOK' /\ Acknowledgment' /\ ReadSoFar'
    BY <1>1, <1>4
       DEF LInv, LinkTypeOK, Acknowledgment, Acknowledged, ReadSoFar, Uploading, Reading
  <2>2. toVehicle' = <<>> /\ toGcs' = <<>>
    BY <1>1, <1>4 DEF Quiet
  <2> QED
    BY <1>2, <2>1, <2>2, NothingSent DEF LInv
<1> QED
  BY <1>3, <1>4 DEF Timeout

(* What the ground station hears it answers with one message or with none. *)
LEMMA HearingLeaves ==
    ASSUME LInv, NEW type, Heard(type)
    PROVE  /\ UNCHANGED <<store, gcs_upload, outage>>
           /\ StoredIsAPlan' /\ LoadedIsAPlan' /\ Plan' = Plan /\ Arrived' = Arrived
           /\ \A seq : Due(seq)' = Due(seq)
<1>1. UNCHANGED <<store, gcs_upload, outage>>
  BY DEF Heard, budget
<1> QED
  BY <1>1, StoreUntouched

LEMMA AnswerRequestKeeps ==
    ASSUME LInv, AnswerRequest
    PROVE  LInv'
<1>1. PICK seq : seq = Head(toGcs).seq
  OBVIOUS
<1>2. /\ Heard("MISSION_REQUEST_INT") /\ UNCHANGED <<gcs, outage, gcs_state>>
      /\ IF Uploading /\ seq < Items(Plan)
         THEN Transmit(ITEM(seq, Plan[seq]))
         ELSE UNCHANGED toVehicle
  BY <1>1 DEF AnswerRequest, Heard, gcs, budget
<1>3. /\ toVehicle = <<>> /\ toGcs' = <<>>
      /\ SentToGcs(Head(toGcs)) /\ Head(toGcs).type = "MISSION_REQUEST_INT"
  BY <1>2, HeardLast DEF LInv
<1>4. StoredIsAPlan' /\ LoadedIsAPlan' /\ LinkTypeOK' /\ Acknowledgment' /\ ReadSoFar'
  BY <1>2, HearingLeaves, GcsUntouched DEF LInv, Acknowledgment
<1>5. CASE Uploading /\ seq < Items(Plan)
  <2>1. seq \in 0 .. UINT16 - 1 /\ Due(seq)
    BY <1>1, <1>3, <1>5, MessageTypes DEF SentToGcs
  <2>2. seq \in DOMAIN Plan
    BY <1>5, <2>1, SizesAssumption, PlanIsMission, ItemsOfMission DEF LInv, LinkTypeOK, Uploading
  <2>3. PICK m : m = ITEM(seq, Plan[seq])
    OBVIOUS
  <2>4. Due(seq)' /\ Plan' = Plan /\ Uploading'
    BY <1>2, <1>5, <2>1, HearingLeaves DEF Uploading
  <2>5. SentToVehicle(m)'
    BY <2>2, <2>3, <2>4 DEF SentToVehicle
  <2>6. toVehicle' = <<m>>
    BY <1>2, <1>3, <1>5, <2>3, ShortQueues DEF Transmit
  <2> QED
    BY <1>3, <1>4, <2>5, <2>6, SentOneToVehicle DEF LInv
<1>6. CASE ~(Uploading /\ seq < Items(Plan))
  BY <1>2, <1>3, <1>4, <1>6, NothingSent DEF LInv
<1> QED
  BY <1>5, <1>6

(* The challenge is followed by a request, and this station lets it pass. *)
LEMMA AnswerChallengeKeeps ==
    ASSUME LInv, ~AnswersChallenge, AnswerChallenge
    PROVE  LInv'
<1>1. /\ Heard("MISSION_CHALLENGE") /\ UNCHANGED <<gcs, outage, gcs_state, toVehicle>>
  BY DEF AnswerChallenge, Heard, gcs, budget
<1>2. StoredIsAPlan' /\ LoadedIsAPlan' /\ LinkTypeOK' /\ Acknowledgment' /\ ReadSoFar'
  BY <1>1, HearingLeaves, GcsUntouched DEF LInv, Acknowledgment
<1>3. CASE toGcs' = <<>>
  <2>1. toVehicle' = <<>>
    BY <1>1, HeardLast DEF LInv
  <2> QED
    BY <1>2, <1>3, <2>1, NothingSent DEF LInv
<1>4. CASE toGcs' \in FirstRequests /\ SentToGcs(REQUEST(0)) /\ toVehicle = <<>>
  <2>1. ~Reading /\ (Uploading => Due(0))
    BY <1>4, MessageTypes DEF SentToGcs
  <2>2. ~Reading' /\ (Uploading' => Due(0)')
    BY <1>1, <2>1, HearingLeaves DEF Reading, Uploading
  <2> QED
    BY <1>1, <1>2, <1>4, <2>2, FirstRequestSent DEF LInv
<1> QED
  BY <1>1, <1>3, <1>4, HeardLast DEF LInv

LEMMA HearAckKeeps ==
    ASSUME LInv, HearAck
    PROVE  LInv'
<1>1. /\ Heard("MISSION_ACK") /\ UNCHANGED <<gcs_upload, gcs_read, outage, toVehicle>>
  BY DEF HearAck, Heard, budget
<1>2. /\ toVehicle' = <<>> /\ toGcs' = <<>>
      /\ SentToGcs(Head(toGcs)) /\ Head(toGcs).type = "MISSION_ACK"
  BY <1>1, HeardLast DEF LInv
<1>3. StoredIsAPlan' /\ LoadedIsAPlan' /\ Plan' = Plan /\ Arrived' = Arrived
  BY <1>1, HearingLeaves
<1>4. \/ Head(toGcs) = ACK("DENIED") /\ Uploading
      \/ Head(toGcs) = ACK("ACCEPTED") /\ Uploading /\ (outage \/ Arrived)
  BY <1>2, MessageTypes DEF SentToGcs
<1>5. \/ gcs_state' = "failed" /\ Uploading
      \/ gcs_state' = "accepted" /\ Uploading /\ (outage \/ Arrived)
  BY <1>4, MessageTypes DEF HearAck
<1>6. LinkTypeOK' /\ Acknowledgment' /\ ReadSoFar'
  BY <1>1, <1>3, <1>5
     DEF LInv, LinkTypeOK, Uploading, Acknowledgment, Acknowledged, ReadSoFar
<1> QED
  BY <1>2, <1>3, <1>6, NothingSent DEF LInv

(* Reading on: what has been read so far is right, and the next item is asked *)
(* for.                                                                       *)
LEMMA ReadOnKeeps ==
    ASSUME LInv, Reading, NEW type, Heard(type), toVehicle = <<>>, toGcs' = <<>>,
           NEW read \in [count : 0 .. MAX_WAYPOINTS, items : Seq(Waypoints)], ReadOn(read),
           outage \/ (/\ read.count = Items(Plan)
                     /\ \A i \in 1 .. Len(read.items) :
                           i <= Items(Plan) /\ read.items[i] = Plan[i - 1])
    PROVE  LInv'
<1>1. /\ UNCHANGED <<gcs_upload, outage>>
      /\ StoredIsAPlan' /\ LoadedIsAPlan' /\ Plan' = Plan /\ Arrived' = Arrived
  BY HearingLeaves
<1>2. gcs_read' = read /\ gcs_state' \in {"reading", "read"} /\ gcs_upload >= 1
  BY DEF ReadOn, LInv, LinkTypeOK, Reading
<1>3. LinkTypeOK' /\ Acknowledgment'
  BY <1>1, <1>2 DEF LInv, LinkTypeOK, Acknowledgment, Acknowledged, Reading
<1>4. gcs_state' = "read" => Len(read.items) >= read.count
  BY DEF ReadOn
<1>5. ReadSoFar'
  BY <1>1, <1>2, <1>4 DEF ReadSoFar
<1>6. UnderWay'
  <2>1. CASE Len(read.items) < read.count
    <3>1. PICK m : m = REQUEST(Len(read.items))
      OBVIOUS
    <3>2. toVehicle' = <<m>> /\ gcs_state' = "reading"
      BY <2>1, <3>1, ShortQueues DEF ReadOn, Transmit
    <3>3. SentToVehicle(m)'
      BY <1>2, <3>1, <3>2 DEF SentToVehicle
    <3> QED
      BY <3>2, <3>3, SentOneToVehicle
  <2>2. CASE ~(Len(read.items) < read.count)
    BY <2>2, NothingSent DEF ReadOn
  <2> QED
    BY <2>1, <2>2
<1> QED
  BY <1>1, <1>3, <1>5, <1>6 DEF LInv

(* A message that is ignored. *)
LEMMA IgnoredKeeps ==
    ASSUME LInv, NEW type, Heard(type), toGcs' = <<>>, toVehicle = <<>>,
           UNCHANGED <<gcs_state, gcs_read, toVehicle>>
    PROVE  LInv'
<1>1. UNCHANGED <<gcs, outage>>
  BY DEF Heard, gcs, budget
<1>2. StoredIsAPlan' /\ LoadedIsAPlan' /\ LinkTypeOK' /\ Acknowledgment' /\ ReadSoFar'
  BY <1>1, HearingLeaves, GcsUntouched DEF LInv, Acknowledgment
<1> QED
  BY <1>2, NothingSent DEF LInv

LEMMA HearCountKeeps ==
    ASSUME LInv, HearCount
    PROVE  LInv'
<1>1. Heard("MISSION_COUNT")
  BY DEF HearCount
<1>2. /\ toVehicle = <<>> /\ toGcs' = <<>>
      /\ SentToGcs(Head(toGcs)) /\ Head(toGcs).type = "MISSION_COUNT"
  BY <1>1, HeardLast DEF LInv
<1>3. PICK count \in 0 .. MAX_WAYPOINTS :
        /\ Head(toGcs) = COUNTED(count) /\ (outage \/ count = Items(Plan))
        /\ gcs_state = "listing"
  BY <1>2, MessageTypes DEF SentToGcs
<1>4. PICK read : read = [count |-> count, items |-> <<>>]
  OBVIOUS
<1>5. read \in [count : 0 .. MAX_WAYPOINTS, items : Seq(Waypoints)] /\ Len(read.items) = 0
  BY <1>4
<1>6. ReadOn(read)
  BY <1>3, <1>4, MessageTypes DEF HearCount
<1>7. outage \/ (/\ read.count = Items(Plan)
                /\ \A i \in 1 .. Len(read.items) :
                      i <= Items(Plan) /\ read.items[i] = Plan[i - 1])
  BY <1>3, <1>4, <1>5
<1>8. Reading
  BY <1>3 DEF Reading
<1> QED
  BY <1>1, <1>2, <1>5, <1>6, <1>7, <1>8, ReadOnKeeps

LEMMA HearItemKeeps ==
    ASSUME LInv, HearItem
    PROVE  LInv'
<1>1. Heard("MISSION_ITEM_INT")
  BY DEF HearItem
<1>2. /\ toVehicle = <<>> /\ toGcs' = <<>>
      /\ SentToGcs(Head(toGcs)) /\ Head(toGcs).type = "MISSION_ITEM_INT"
  BY <1>1, HeardLast DEF LInv
<1>3. PICK seq \in Slots, wp \in Waypoints :
        /\ Head(toGcs) = ITEM(seq, wp)
        /\ outage \/ (seq \in DOMAIN Plan /\ wp = Plan[seq])
        /\ gcs_state = "reading"
  BY <1>2, MessageTypes DEF SentToGcs
<1>4. CASE seq = Len(gcs_read.items)
  <2>1. PICK read : read = [gcs_read EXCEPT !.items = Append(@, wp)]
    OBVIOUS
  <2>2. gcs_read \in [count : 0 .. MAX_WAYPOINTS, items : Seq(Waypoints)]
    BY DEF LInv, LinkTypeOK
  <2>3. /\ read.count = gcs_read.count /\ read.items = Append(gcs_read.items, wp)
        /\ read \in [count : 0 .. MAX_WAYPOINTS, items : Seq(Waypoints)]
    <3>1. Append(gcs_read.items, wp) \in Seq(Waypoints)
      BY <1>3, <2>2
    <3> QED
      BY <2>1, <2>2, <3>1
  <2>4. ReadOn(read)
    <3>1. Head(toGcs).seq = seq /\ Head(toGcs).wp = wp
      BY <1>3, MessageTypes
    <3>2. read = [gcs_read EXCEPT !.items = Append(@, Head(toGcs).wp)]
      BY <2>1, <3>1
    <3> QED
      BY <1>3, <1>4, <3>1, <3>2 DEF HearItem, ReadOn
  <2>5. ASSUME ~outage
        PROVE  /\ read.count = Items(Plan)
               /\ \A i \in 1 .. Len(read.items) :
                     i <= Items(Plan) /\ read.items[i] = Plan[i - 1]
    <3>1. /\ gcs_read.count = Items(Plan)
          /\ \A i \in 1 .. Len(gcs_read.items) :
                i <= Items(Plan) /\ gcs_read.items[i] = Plan[i - 1]
      BY <1>3, <2>5 DEF LInv, ReadSoFar
    <3>2. /\ Len(read.items) = seq + 1 /\ read.items[seq + 1] = Plan[seq]
          /\ \A i \in 1 .. seq : read.items[i] = gcs_read.items[i]
      BY <1>3, <1>4, <2>2, <2>3, <2>5
    <3>3. seq + 1 <= Items(Plan) /\ seq \in Nat
      <4>1. gcs_upload >= 1 /\ LinkTypeOK
        BY <1>3 DEF LInv, LinkTypeOK
      <4>2. DOMAIN Plan = 0 .. Items(Plan) - 1 /\ Items(Plan) \in 1 .. MAX_WAYPOINTS
        BY <4>1, PlanIsMission, ItemsOfMission
      <4> QED
        BY <1>3, <2>5, <4>2, SizesAssumption
    <3>4. ASSUME NEW i \in 1 .. Len(read.items)
          PROVE  i <= Items(Plan) /\ read.items[i] = Plan[i - 1]
      <4>1. CASE i = seq + 1
        BY <3>2, <3>3, <4>1
      <4>2. CASE i \in 1 .. seq
        BY <1>4, <3>1, <3>2, <4>2
      <4> QED
        BY <3>2, <3>3, <4>1, <4>2
    <3> QED
      BY <2>3, <3>1, <3>4
  <2>6. Reading
    BY <1>3 DEF Reading
  <2> QED
    BY <1>1, <1>2, <2>3, <2>4, <2>5, <2>6, ReadOnKeeps
<1>5. CASE seq # Len(gcs_read.items)
  BY <1>1, <1>2, <1>3, <1>5, MessageTypes, IgnoredKeeps DEF HearItem
<1> QED
  BY <1>4, <1>5

---------------------------------------------------------------------------------
(* The link loses the oldest message of either queue. *)
LEMMA LoseKeeps ==
    ASSUME LInv, Lose
    PROVE  LInv'
<1>1. UNCHANGED <<store, gcs, gcs_state, gcs_read, outage, gcs_upload>>
  BY DEF Lose, gcs
<1>2. /\ StoredIsAPlan' /\ LoadedIsAPlan' /\ Arrived' = Arrived
      /\ \A seq : Due(seq)' = Due(seq)
  BY <1>1, StoreUntouched
<1>3. LinkTypeOK' /\ Acknowledgment' /\ ReadSoFar'
  BY <1>1, <1>2, GcsUntouched DEF LInv, Acknowledgment
<1>4. UnderWay'
  <2>1. CASE toVehicle # <<>> /\ toVehicle = <<Head(toVehicle)>> /\ toGcs = <<>>
    <3>1. toVehicle' = <<>> /\ toGcs' = <<>>
      BY <2>1, ShortQueues DEF Lose
    <3> QED
      BY <3>1, NothingSent
  <2>2. CASE toVehicle = <<>> /\ toGcs # <<>> /\ toGcs = <<Head(toGcs)>>
    <3>1. toVehicle' = <<>> /\ toGcs' = <<>>
      BY <2>2, ShortQueues DEF Lose
    <3> QED
      BY <3>1, NothingSent
  <2>3. CASE toVehicle = <<>> /\ toGcs \in FirstRequests /\ toGcs # <<Head(toGcs)>>
    <3>1. toVehicle' = <<>> /\ toGcs' \in FirstRequests
      BY <2>3, FirstRequestsShorten DEF Lose
    <3>2. SentToGcs(REQUEST(0))
      BY <2>3, FirstRequestsShorten DEF LInv, UnderWay
    <3>3. ~Reading /\ (Uploading => Due(0))
      BY <3>2, MessageTypes DEF SentToGcs
    <3>4. ~Reading' /\ (Uploading' => Due(0)')
      BY <1>1, <1>2, <3>3 DEF Reading, Uploading
    <3> QED
      BY <3>1, <3>4, FirstRequestSent
  <2> QED
    BY <2>1, <2>2, <2>3 DEF LInv, UnderWay, OneUnderWay, Lose
<1> QED
  BY <1>2, <1>3, <1>4 DEF LInv

---------------------------------------------------------------------------------
(* A power failure.  What comes up is a plan, if the NVM held one. *)
LEMMA BootRestoresAPlan ==
    ASSUME nvm' \in NvmImages, Boot(nvm'), StoredIsAPlan'
    PROVE  LoadedIsAPlan'
<1>1. SUFFICES ASSUME mission_loaded'
               PROVE  \E number \in 1 .. gcs_upload' : Content' = Plans[number]
  BY DEF LoadedIsAPlan
<1>2. Readable(nvm')
  BY <1>1, Zenon DEF Boot
<1>3. nvm'.hash \in Missions
  BY <1>2, ReadableIsMission
<1>4. Content' = nvm'.hash
  BY <1>2, <1>3, BootPowersUp, DigestAssumption DEF Durable!PoweredUp
<1> QED
  BY <1>3, <1>4, DigestAssumption DEF StoredIsAPlan, PlansOffered

(* Afterwards nothing is authorized, so that whatever is still under way is   *)
(* refused, or known to be beside the point.                                  *)
LEMMA OutageKeepsMessages ==
    ASSUME UNCHANGED gcs, outage' = TRUE, mission_upload_authorized_flag' = FALSE, NEW m
    PROVE  /\ SentToVehicle(m) => SentToVehicle(m)'
           /\ SentToGcs(m) => SentToGcs(m)'
<1>1. /\ gcs_upload' = gcs_upload /\ gcs_state' = gcs_state /\ gcs_read' = gcs_read
      /\ Plan' = Plan
  BY DEF gcs, Plan
<1>2. \A seq : Due(seq)'
  BY DEF Due
<1>3. SentToVehicle(m) => SentToVehicle(m)'
  BY <1>1, <1>2 DEF SentToVehicle, Uploading, Reading
<1>4. SentToGcs(m) => SentToGcs(m)'
  BY <1>1, <1>2 DEF SentToGcs, Uploading, Reading
<1> QED
  BY <1>3, <1>4

LEMMA OutageKeepsGcs ==
    ASSUME LInv, UNCHANGED gcs, outage' = TRUE
    PROVE  LinkTypeOK' /\ Acknowledgment' /\ ReadSoFar'
BY DEF LInv, LinkTypeOK, Acknowledgment, Acknowledged, ReadSoFar, gcs

LEMMA SwitchedOffKeeps ==
    ASSUME LInv, TypeOK, SwitchedOff
    PROVE  LInv'
<1>1. /\ Boot(nvm') /\ nvm' = nvm /\ UNCHANGED gcs /\ outage' = TRUE
      /\ toVehicle' \in {toVehicle, <<>>} /\ toGcs' = toGcs
  BY DEF SwitchedOff, PowerLost, Reboot
<1>2. nvm' \in NvmImages
  BY <1>1 DEF TypeOK, DataOK
<1>3. mission_upload_authorized_flag' = FALSE
  BY <1>1 DEF Boot
<1>4. StoredIsAPlan'
  BY <1>1 DEF LInv, StoredIsAPlan, PlansOffered, gcs
<1>5. LoadedIsAPlan'
  BY <1>1, <1>2, <1>4, BootRestoresAPlan
<1>6. UnderWay'
  <2>1. OneUnderWay'
    BY <1>1 DEF LInv, UnderWay, OneUnderWay
  <2>2. toVehicle' # <<>> => SentToVehicle(Head(toVehicle))'
    <3>1. PICK m : m = Head(toVehicle)
      OBVIOUS
    <3>2. SentToVehicle(m) => SentToVehicle(m)'
      BY <1>1, <1>3, OutageKeepsMessages
    <3>3. CASE toVehicle' = <<>>
      BY <3>3
    <3>4. CASE toVehicle' = toVehicle /\ toVehicle # <<>>
      <4>1. SentToVehicle(m)'
        BY <3>1, <3>2, <3>4 DEF LInv, UnderWay
      <4>2. Head(toVehicle)' = m
        BY <3>1, <3>4
      <4> QED
        BY <4>1, <4>2 DEF SentToVehicle
    <3> QED
      BY <1>1, <3>3, <3>4
  <2>3. toGcs' # <<>> => SentToGcs(toGcs[Len(toGcs)])'
    <3>1. PICK m : m = toGcs[Len(toGcs)]
      OBVIOUS
    <3>2. SentToGcs(m) => SentToGcs(m)'
      BY <1>1, <1>3, OutageKeepsMessages
    <3>3. toGcs # <<>> => SentToGcs(m)'
      BY <3>1, <3>2 DEF LInv, UnderWay
    <3>4. toGcs[Len(toGcs)]' = m
      BY <1>1, <3>1
    <3> QED
      BY <1>1, <3>3, <3>4 DEF SentToGcs
  <2> QED
    BY <2>1, <2>2, <2>3 DEF UnderWay
<1> QED
  BY <1>1, <1>4, <1>5, <1>6, OutageKeepsGcs DEF LInv

(* The save of the last item, cut short: the NVM has the digest it had, that *)
(* of the plan, or none.                                                     *)
LEMMA SwitchedOffInSaveKeeps ==
    ASSUME LInv, IInv, SwitchedOffInSave
    PROVE  LInv'
<1>1. PICK seq, wp : seq = Head(toVehicle).seq /\ wp = Head(toVehicle).wp
  OBVIOUS
<1>2. /\ toVehicle # <<>> /\ Head(toVehicle).type = "MISSION_ITEM_INT"
      /\ LastItemDue /\ PowerLossWhileSaving(WithItem(seq, wp))
      /\ UNCHANGED gcs /\ outage' = TRUE
  BY <1>1 DEF SwitchedOffInSave, PowerLost
<1>3. toVehicle = <<Head(toVehicle)>> /\ toGcs = <<>>
  BY <1>2 DEF LInv, UnderWay, OneUnderWay
<1>4. toVehicle' = <<>> /\ toGcs' = <<ACK("ACCEPTED")>>
  BY <1>3, ShortQueues DEF SwitchedOffInSave, Reply
<1>5. /\ ItemAtHead /\ mission_upload_authorized_flag
  BY <1>2 DEF ItemAtHead, LastItemDue
<1>6. /\ Uploading /\ mission_count \in 1 .. MAX_WAYPOINTS
      /\ WithItem(seq, wp) \in [Slots -> Waypoints]
  BY <1>1, <1>5, ItemIsDue
<1>7. compute_mission_hash(WithItem(seq, wp), mission_count) = Plan
  BY <1>1, <1>2, <1>5, LastItemCompletes
<1>8. /\ gcs_upload' = gcs_upload /\ PlansOffered' = PlansOffered /\ Uploading'
      /\ Plan \in PlansOffered
  BY <1>2, <1>6, PlanIsMission DEF gcs, PlansOffered, Uploading, LInv, LinkTypeOK
<1>9. /\ nvm' \in NvmImages /\ nvm'.hash \in {nvm.hash, Plan, NoDigest} /\ Boot(nvm')
  <2>1. PICK done \in 0 .. MAX_WAYPOINTS + 4, image \in SavedImages(WithItem(seq, wp)) :
          nvm' \in TornImages(nvm, image, done)
    BY <1>2 DEF PowerLossWhileSaving
  <2>2. image \in NvmImages /\ image.hash = Plan
    BY <1>6, <1>7, SavedImageReadable, SizesAssumption DEF IInv
  <2>3. nvm \in NvmImages
    BY DEF IInv, TypeOK, DataOK
  <2>4. Boot(nvm')
    BY <1>2 DEF PowerLossWhileSaving
  <2> QED
    BY <2>1, <2>2, <2>3, <2>4, TornImageType
<1>10. StoredIsAPlan'
  BY <1>8, <1>9 DEF LInv, StoredIsAPlan
<1>11. LoadedIsAPlan'
  BY <1>9, <1>10, BootRestoresAPlan
<1>12. PICK m : m = ACK("ACCEPTED")
  OBVIOUS
<1>13. SentToGcs(m)'
  BY <1>2, <1>8, <1>12 DEF SentToGcs
<1> QED
  BY <1>2, <1>4, <1>10, <1>11, <1>12, <1>13, SentOneToGcs, OutageKeepsGcs DEF LInv

---------------------------------------------------------------------------------
(* Whatever either side, the link or the power supply does, the invariant holds *)
(* again.                                                                       *)
LEMMA VehicleKeeps ==
    ASSUME LInv, IInv, vehicle
    PROVE  LInv'
<1>1. TypeOK
  BY DEF IInv
<1> QED
  BY <1>1, CountAcceptedKeeps, DenialKeeps, ResponseReceivedKeeps, ItemAcceptedKeeps,
     LastItemAcceptedKeeps, ListRequestedKeeps, ItemRequestedKeeps DEF vehicle

LEMMA LinkUntouched ==
    ASSUME LInv, UNCHANGED linkVars
    PROVE  LInv'
<1>1. UNCHANGED <<store, toVehicle, toGcs, gcs, outage, gcs_upload, gcs_state, gcs_read>>
  BY DEF linkVars, budget, gcs
<1>2. /\ StoredIsAPlan' /\ LoadedIsAPlan' /\ Plan' = Plan /\ Arrived' = Arrived
      /\ \A seq : Due(seq)' = Due(seq)
  BY <1>1, StoreUntouched
<1>3. LinkTypeOK' /\ Acknowledgment' /\ ReadSoFar'
  BY <1>1, <1>2, GcsUntouched DEF LInv, Acknowledgment
<1>4. UnderWay'
  BY <1>1, <1>2 DEF LInv, UnderWay, OneUnderWay, SentToVehicle, SentToGcs, Uploading, Reading
<1> QED
  BY <1>2, <1>3, <1>4 DEF LInv

LEMMA LinkStepKeeps ==
    ASSUME ~AnswersChallenge, LInv, IInv, [LinkNext]_linkVars
    PROVE  LInv'
<1>1. CASE vehicle
  BY <1>1, VehicleKeeps
<1>2. CASE Respond \/ StartUpload \/ StartReading \/ Timeout
  BY <1>2, RespondKeeps, StartUploadKeeps, StartReadingKeeps, TimeoutKeeps
<1>3. CASE Hear
  BY <1>3, AnswerRequestKeeps, AnswerChallengeKeeps, HearAckKeeps, HearCountKeeps,
     HearItemKeeps DEF Hear
<1>4. CASE Lose
  BY <1>4, LoseKeeps
<1>5. CASE SwitchedOff \/ SwitchedOffInSave
  BY <1>5, SwitchedOffKeeps, SwitchedOffInSaveKeeps DEF IInv
<1>6. CASE UNCHANGED linkVars
  BY <1>6, LinkUntouched
<1> QED
  BY <1>1, <1>2, <1>3, <1>4, <1>5, <1>6 DEF LinkNext

LEMMA LinkInitInvariant == LinkInit => LInv
<1> SUFFICES ASSUME LinkInit PROVE LInv
  OBVIOUS
<1>1. LinkTypeOK
  <2>1. NothingRead \in [count : 0 .. MAX_WAYPOINTS, items : Seq(Waypoints)]
    BY SizesAssumption DEF NothingRead
  <2>2. 0 \in 0 .. Len(Plans)
    BY LinkAssumption
  <2> QED
    BY <2>1, <2>2 DEF LinkInit, LinkTypeOK
<1>2. UnderWay
  BY DEF LinkInit, UnderWay, OneUnderWay
<1> QED
  BY <1>1, <1>2
     DEF LInv, LinkInit, Init, StoredIsAPlan, LoadedIsAPlan, Acknowledgment, Acknowledged, ReadSoFar

---------------------------------------------------------------------------------
(* Whatever the ground station does with the challenge, what is under way is a *)
(* message of one of the kinds either side sends, with numbers it can hold.    *)
ToVehicle ==
    {COUNT(number) : number \in 1 .. Len(Plans)} \cup {CHAL_RESP, REQUEST_LIST}
        \cup {ITEM(seq, wp) : seq \in Slots, wp \in Waypoints}
        \cup {REQUEST(seq) : seq \in Nat}

ToGcs ==
    {CHALLENGE, ACK("ACCEPTED"), ACK("DENIED")}
        \cup {COUNTED(count) : count \in Nat}
        \cup {ITEM(seq, wp) : seq \in Slots, wp \in Waypoints}
        \cup {REQUEST(seq) : seq \in Nat}

ExchangeOK ==
    /\ toVehicle \in Seq(ToVehicle) /\ toGcs \in Seq(ToGcs)
    /\ gcs_upload \in 0 .. Len(Plans)
    /\ Uploading => gcs_upload >= 1
    /\ gcs_read \in [count : Nat, items : Seq(Waypoints)]

(* What the fields of a received message can be. *)
LEMMA FieldsToVehicle ==
    ASSUME NEW m \in ToVehicle
    PROVE  /\ m.type = "MISSION_COUNT" => m.number \in 1 .. Len(Plans)
           /\ m.type = "MISSION_ITEM_INT" => m.seq \in Slots /\ m.wp \in Waypoints
           /\ m.type = "MISSION_REQUEST_INT" => m.seq \in Nat
<1>1. CASE \E number \in 1 .. Len(Plans) : m = COUNT(number)
  BY <1>1, MessageTypes
<1>2. CASE m \in {CHAL_RESP, REQUEST_LIST}
  BY <1>2, MessageTypes
<1>3. CASE \E seq \in Slots, wp \in Waypoints : m = ITEM(seq, wp)
  BY <1>3, MessageTypes
<1>4. CASE \E seq \in Nat : m = REQUEST(seq)
  BY <1>4, MessageTypes
<1> QED
  BY <1>1, <1>2, <1>3, <1>4 DEF ToVehicle

LEMMA FieldsToGcs ==
    ASSUME NEW m \in ToGcs
    PROVE  /\ m.type = "MISSION_COUNT" => m.count \in Nat
           /\ m.type = "MISSION_ITEM_INT" => m.seq \in Slots /\ m.wp \in Waypoints
           /\ m.type = "MISSION_REQUEST_INT" => m.seq \in Nat
<1>1. CASE \E count \in Nat : m = COUNTED(count)
  BY <1>1, MessageTypes
<1>2. CASE m \in {CHALLENGE, ACK("ACCEPTED"), ACK("DENIED")}
  BY <1>2, MessageTypes
<1>3. CASE \E seq \in Slots, wp \in Waypoints : m = ITEM(seq, wp)
  BY <1>3, MessageTypes
<1>4. CASE \E seq \in Nat : m = REQUEST(seq)
  BY <1>4, MessageTypes
<1> QED
  BY <1>1, <1>2, <1>3, <1>4 DEF ToGcs

(* A queue of messages stays one. *)
LEMMA QueueSteps ==
    ASSUME NEW S, NEW q \in Seq(S), NEW m \in S
    PROVE  /\ Append(q, m) \in Seq(S)
           /\ q \o <<m>> \in Seq(S)
           /\ \A n \in S : q \o <<m, m, n>> \in Seq(S)
           /\ q \o <<>> = q
OBVIOUS

LEMMA QueueHead ==
    ASSUME NEW S, NEW q \in Seq(S), q # <<>>
    PROVE  Head(q) \in S /\ Tail(q) \in Seq(S)
OBVIOUS

---------------------------------------------------------------------------------
(* The vehicle's handlers change its store as MissionStore does. *)
LEMMA VehicleKeepsToStore ==
    ASSUME ExchangeOK, vehicle
    PROVE  Next \/ UNCHANGED vars
<1>1. CASE CountAccepted
  <2>1. PICK number \in 1 .. Len(Plans) : number = Head(toVehicle).number
    BY <1>1, FieldsToVehicle DEF CountAccepted, Receive, ExchangeOK
  <2>2. handle_mission_count(Items(Plans[number]), 1, number)
    BY <1>1, <2>1 DEF CountAccepted
  <2>3. Items(Plans[number]) \in 1 .. MAX_WAYPOINTS
    <3>1. Plans[number] \in Missions
      BY LinkAssumption
    <3> QED
      BY <3>1, ItemsOfMission
  <2>4. 1 \in 0 .. MaxId /\ number \in 0 .. MaxVer
    BY LinkAssumption, SizesAssumption
  <2> QED
    BY <2>2, <2>3, <2>4 DEF Next, Handlers, UploadBegun
<1>2. CASE ItemAccepted \/ LastItemAccepted
  <2>1. PICK seq, wp : seq = Head(toVehicle).seq /\ wp = Head(toVehicle).wp
    OBVIOUS
  <2>2. ItemAtHead /\ (ItemStored(seq, wp) \/ UploadCompleted(seq, wp))
    BY <1>2, <2>1 DEF ItemAccepted, LastItemAccepted, Receive, ItemAtHead
  <2>3. seq \in 0 .. MAX_WAYPOINTS /\ wp \in Waypoints
    BY <2>1, <2>2, FieldsToVehicle, SizesAssumption DEF ItemAtHead, ExchangeOK, Slots
  <2> QED
    BY <2>2, <2>3 DEF Next, Handlers, UploadGoesOn
<1>3. CASE ResponseReceived
  BY <1>3 DEF ResponseReceived, Next, Handlers, UploadGoesOn
<1>4. CASE CountDenied \/ ItemDenied \/ ListRequested \/ ItemRequested
  BY <1>4 DEF CountDenied, ItemDenied, ListRequested, ItemRequested, store
<1> QED
  BY <1>1, <1>2, <1>3, <1>4 DEF vehicle

(* And so does a loss of power in the save of the last item. *)
LEMMA OutageKeepsToStore ==
    ASSUME ExchangeOK, SwitchedOff \/ SwitchedOffInSave
    PROVE  Next
<1>1. CASE SwitchedOff
  BY <1>1 DEF SwitchedOff, Next, PowerCycle
<1>2. CASE SwitchedOffInSave
  <2>1. PICK seq, wp : seq = Head(toVehicle).seq /\ wp = Head(toVehicle).wp
    OBVIOUS
  <2>2. ItemAtHead /\ LastItemDue /\ CutsSaves /\ PowerLossWhileSaving(WithItem(seq, wp))
    BY <1>2, <2>1 DEF SwitchedOffInSave, ItemAtHead
  <2>3. seq \in 0 .. MAX_WAYPOINTS /\ wp \in Waypoints
    BY <2>1, <2>2, FieldsToVehicle, SizesAssumption DEF ItemAtHead, ExchangeOK, Slots
  <2>4. WithItem(seq, wp) \in ArraysBeingSaved
    BY <2>2, <2>3 DEF ArraysBeingSaved
  <2> QED
    BY <2>2, <2>4 DEF Next, PowerCycle, PowerLossInSave
<1> QED
  BY <1>1, <1>2

LEMMA LinkKeepsToStore ==
    ASSUME ExchangeOK, [LinkNext]_linkVars
    PROVE  [Next]_vars
<1>1. CASE vehicle
  BY <1>1, VehicleKeepsToStore
<1>2. CASE Respond \/ StartUpload \/ StartReading \/ Timeout
  BY <1>2 DEF Respond, StartUpload, StartReading, Timeout, store
<1>3. CASE Hear
  BY <1>3 DEF Hear, AnswerRequest, AnswerChallenge, HearAck, HearCount, HearItem, Heard, store
<1>4. CASE Lose
  BY <1>4 DEF Lose, store
<1>5. CASE SwitchedOff \/ SwitchedOffInSave
  BY <1>5, OutageKeepsToStore
<1>6. CASE UNCHANGED linkVars
  BY <1>6 DEF linkVars, store
<1> QED
  BY <1>1, <1>2, <1>3, <1>4, <1>5, <1>6 DEF LinkNext

---------------------------------------------------------------------------------
(* The messages there are. *)
LEMMA Messages ==
    /\ {CHALLENGE, ACK("ACCEPTED"), ACK("DENIED")} \subseteq ToGcs
    /\ {CHAL_RESP, REQUEST_LIST} \subseteq ToVehicle
    /\ \A seq \in Nat : REQUEST(seq) \in ToGcs /\ REQUEST(seq) \in ToVehicle
    /\ \A number \in 1 .. Len(Plans) : COUNT(number) \in ToVehicle
    /\ \A count \in Nat : COUNTED(count) \in ToGcs
    /\ \A seq \in Slots, wp \in Waypoints : ITEM(seq, wp) \in ToGcs /\ ITEM(seq, wp) \in ToVehicle
BY DEF ToGcs, ToVehicle

(* The vehicle's answers are messages. *)
LEMMA VehicleKeepsExchange ==
    ASSUME TypeOK, ExchangeOK, vehicle
    PROVE  ExchangeOK'
<1>1. toVehicle \in Seq(ToVehicle) /\ toGcs \in Seq(ToGcs)
  BY DEF ExchangeOK
<1>2. toVehicle # <<>> /\ toVehicle' = Tail(toVehicle) /\ UNCHANGED gcs
  BY DEF vehicle, CountAccepted, CountDenied, ResponseReceived, ItemDenied, ItemAccepted,
         LastItemAccepted, ListRequested, ItemRequested, Receive
<1>3. toVehicle' \in Seq(ToVehicle) /\ Head(toVehicle) \in ToVehicle
  BY <1>1, <1>2, QueueHead
<1>4. 0 \in Nat /\ mission_rx_idx \in Nat /\ NextRx \in Nat /\ mission_count \in Nat
  BY SizesAssumption DEF TypeOK, NumbersOK, NextRx
<1>5. toGcs' \in Seq(ToGcs)
  <2>1. CASE CountAccepted
    BY <1>1, <1>4, <2>1, Messages, QueueSteps DEF CountAccepted, Reply
  <2>2. CASE CountDenied \/ ItemDenied \/ LastItemAccepted
    BY <1>1, <2>2, Messages, QueueSteps DEF CountDenied, ItemDenied, LastItemAccepted, Reply
  <2>3. CASE ResponseReceived \/ ItemAccepted
    <3>1. \E seq \in Nat : toGcs' = toGcs \o <<REQUEST(seq)>>
      BY <1>4, <2>3 DEF ResponseReceived, ItemAccepted, ItemReply, Reply
    <3> QED
      BY <1>1, <3>1, Messages, QueueSteps
  <2>4. CASE ListRequested
    BY <1>1, <1>4, <2>4, Messages, QueueSteps DEF ListRequested, Reply
  <2>5. CASE ItemRequested
    <3>1. PICK seq \in Nat : seq = Head(toVehicle).seq
      BY <1>3, <2>5, FieldsToVehicle DEF ItemRequested, Receive
    <3>2. toGcs' = toGcs \o ItemSent(seq)
      BY <2>5, <3>1 DEF ItemRequested, Reply
    <3>3. CASE seq >= mission_count
      <4>1. toGcs' = toGcs \o <<>>
        BY <3>2, <3>3 DEF ItemSent
      <4> QED
        BY <1>1, <4>1, Messages, QueueSteps
    <3>4. CASE ~(seq >= mission_count)
      <4>1. seq \in Slots /\ mission[seq] \in Waypoints
        BY <3>4, SizesAssumption DEF TypeOK, NumbersOK, DataOK, Slots
      <4>2. toGcs' = toGcs \o <<ITEM(seq, mission[seq])>>
        BY <3>2, <3>4 DEF ItemSent
      <4> QED
        BY <1>1, <4>1, <4>2, Messages, QueueSteps
    <3> QED
      BY <3>3, <3>4
  <2> QED
    BY <2>1, <2>2, <2>3, <2>4, <2>5 DEF vehicle
<1> QED
  BY <1>2, <1>3, <1>5 DEF ExchangeOK, gcs, Uploading

(* So is what the ground station sends. *)
LEMMA StationKeepsExchange ==
    ASSUME ExchangeOK, Respond \/ StartUpload \/ StartReading \/ Timeout
    PROVE  ExchangeOK'
<1>1. toVehicle \in Seq(ToVehicle) /\ toGcs \in Seq(ToGcs) /\ toGcs' = toGcs
  BY DEF ExchangeOK, Respond, StartUpload, StartReading, Timeout
<1>2. CASE Respond
  <2>1. toVehicle' \in Seq(ToVehicle)
    BY <1>1, <1>2, Messages, QueueSteps DEF Respond, Transmit
  <2> QED
    BY <1>1, <1>2, <2>1 DEF ExchangeOK, Respond, gcs, Uploading
<1>3. CASE StartUpload
  <2>1. gcs_upload' = gcs_upload + 1 /\ gcs_upload' \in 1 .. Len(Plans)
    BY <1>3, LinkAssumption DEF ExchangeOK, StartUpload
  <2>2. toVehicle' \in Seq(ToVehicle)
    BY <1>1, <1>3, <2>1, Messages, QueueSteps DEF StartUpload, Transmit
  <2>3. gcs_read' \in [count : Nat, items : Seq(Waypoints)]
    BY <1>3 DEF StartUpload, NothingRead
  <2> QED
    BY <1>1, <2>1, <2>2, <2>3 DEF ExchangeOK
<1>4. CASE StartReading
  <2>1. toVehicle' \in Seq(ToVehicle)
    BY <1>1, <1>4, Messages, QueueSteps DEF StartReading, Transmit
  <2> QED
    BY <1>1, <1>4, <2>1 DEF ExchangeOK, StartReading, Uploading
<1>5. CASE Timeout
  <2>1. toVehicle' = toVehicle \/ toVehicle' = Append(toVehicle, Outstanding)
    BY <1>5 DEF Timeout, Transmit
  <2>2. Outstanding \in ToVehicle
    <3>1. CASE Uploading
      <4>1. Outstanding = COUNT(gcs_upload) /\ gcs_upload \in 1 .. Len(Plans)
        BY <3>1, LinkAssumption DEF Outstanding, Uploading, ExchangeOK
      <4> QED
        BY <4>1, Messages
    <3>2. CASE gcs_state = "listing"
      BY <3>2, Messages DEF Outstanding, Uploading
    <3>3. CASE gcs_state = "reading"
      <4>1. Len(gcs_read.items) \in Nat
        BY DEF ExchangeOK
      <4> QED
        BY <3>3, <4>1, Messages DEF Outstanding, Uploading
    <3> QED
      BY <1>5, <3>1, <3>2, <3>3 DEF Timeout, Reading
  <2>3. toVehicle' \in Seq(ToVehicle)
    BY <1>1, <2>1, <2>2, QueueSteps
  <2>4. UNCHANGED <<gcs_upload, gcs_read>> /\ (Uploading' => Uploading)
    BY <1>5 DEF Timeout, Uploading
  <2> QED
    BY <1>1, <2>3, <2>4 DEF ExchangeOK
<1> QED
  BY <1>2, <1>3, <1>4, <1>5

LEMMA HearingKeepsExchange ==
    ASSUME ExchangeOK, Hear
    PROVE  ExchangeOK'
<1>1. toVehicle \in Seq(ToVehicle) /\ toGcs \in Seq(ToGcs)
  BY DEF ExchangeOK
<1>2. toGcs # <<>> /\ toGcs' = Tail(toGcs) /\ gcs_upload' = gcs_upload
  BY DEF Hear, AnswerRequest, AnswerChallenge, HearAck, HearCount, HearItem, Heard
<1>3. toGcs' \in Seq(ToGcs) /\ Head(toGcs) \in ToGcs
  BY <1>1, <1>2, QueueHead
<1>4. Uploading' => Uploading
  BY DEF Hear, AnswerRequest, AnswerChallenge, HearAck, HearCount, HearItem, ReadOn, Uploading
<1>5. gcs_read.items \in Seq(Waypoints) /\ gcs_read.count \in Nat
  BY DEF ExchangeOK
<1>6. ASSUME NEW read \in [count : Nat, items : Seq(Waypoints)], ReadOn(read)
      PROVE  /\ toVehicle' \in Seq(ToVehicle)
             /\ gcs_read' \in [count : Nat, items : Seq(Waypoints)]
  <2>1. Len(read.items) \in Nat
    OBVIOUS
  <2>2. toVehicle' = toVehicle \/ toVehicle' = Append(toVehicle, REQUEST(Len(read.items)))
    BY <1>6 DEF ReadOn, Transmit
  <2>3. REQUEST(Len(read.items)) \in ToVehicle
    BY <2>1, Messages
  <2> QED
    BY <1>1, <1>6, <2>2, <2>3, QueueSteps DEF ReadOn
<1>7. /\ toVehicle' \in Seq(ToVehicle)
      /\ gcs_read' \in [count : Nat, items : Seq(Waypoints)]
  <2>1. CASE AnswerRequest
    <3>1. PICK seq \in Nat : seq = Head(toGcs).seq
      BY <1>3, <2>1, FieldsToGcs DEF AnswerRequest, Heard
    <3>2. \/ toVehicle' = toVehicle
          \/ /\ Uploading /\ seq < Items(Plan)
             /\ toVehicle' = Append(toVehicle, ITEM(seq, Plan[seq]))
      BY <2>1, <3>1 DEF AnswerRequest, Transmit
    <3>3. ASSUME Uploading, seq < Items(Plan)
          PROVE  ITEM(seq, Plan[seq]) \in ToVehicle
      <4>1. Plan \in Missions
        BY <3>3, LinkAssumption DEF ExchangeOK, Plan
      <4>2. seq \in 0 .. Items(Plan) - 1 /\ Items(Plan) \in 1 .. MAX_WAYPOINTS
        BY <3>3, <4>1, ItemsOfMission, SizesAssumption
      <4>3. seq \in Slots /\ Plan[seq] \in Waypoints
        BY <4>1, <4>2, ItemsOfMission, SizesAssumption DEF Slots
      <4> QED
        BY <4>3, Messages
    <3>4. toVehicle' \in Seq(ToVehicle)
      BY <1>1, <3>2, <3>3, QueueSteps
    <3> QED
      BY <2>1, <3>4 DEF AnswerRequest, ExchangeOK
  <2>2. CASE AnswerChallenge
    <3>1. toVehicle' = toVehicle \/ toVehicle' = Append(toVehicle, CHAL_RESP)
      BY <2>2 DEF AnswerChallenge, Transmit
    <3> QED
      BY <1>1, <2>2, <3>1, Messages, QueueSteps DEF AnswerChallenge, ExchangeOK
  <2>3. CASE HearAck
    BY <1>1, <2>3 DEF HearAck, ExchangeOK
  <2>4. CASE HearCount
    <3>1. CASE gcs_state = "listing"
      <4>1. PICK count \in Nat : count = Head(toGcs).count
        BY <1>3, <2>4, FieldsToGcs DEF HearCount, Heard
      <4>2. PICK read : read = [count |-> count, items |-> <<>>]
        OBVIOUS
      <4>3. read \in [count : Nat, items : Seq(Waypoints)]
        BY <4>2
      <4>4. ReadOn(read)
        BY <2>4, <3>1, <4>1, <4>2 DEF HearCount
      <4> QED
        BY <1>6, <4>3, <4>4
    <3>2. CASE gcs_state # "listing"
      BY <1>1, <2>4, <3>2 DEF HearCount, ExchangeOK
    <3> QED
      BY <3>1, <3>2
  <2>5. CASE HearItem
    <3>1. PICK wp \in Waypoints : wp = Head(toGcs).wp
      BY <1>3, <2>5, FieldsToGcs DEF HearItem, Heard
    <3>2. PICK read : read = [gcs_read EXCEPT !.items = Append(@, wp)]
      OBVIOUS
    <3>3. read \in [count : Nat, items : Seq(Waypoints)]
      <4>1. Append(gcs_read.items, wp) \in Seq(Waypoints)
        BY <1>5, QueueSteps
      <4> QED
        BY <3>2, <4>1 DEF ExchangeOK
    <3>4. ReadOn(read) \/ UNCHANGED <<gcs_read, toVehicle>>
      BY <2>5, <3>1, <3>2 DEF HearItem
    <3> QED
      BY <1>1, <1>6, <3>3, <3>4 DEF ExchangeOK
  <2> QED
    BY <2>1, <2>2, <2>3, <2>4, <2>5 DEF Hear
<1> QED
  BY <1>2, <1>3, <1>4, <1>7 DEF ExchangeOK

(* Losing messages leaves messages. *)
LEMMA LossKeepsExchange ==
    ASSUME ExchangeOK, Lose \/ SwitchedOff \/ SwitchedOffInSave
    PROVE  ExchangeOK'
<1>1. toVehicle \in Seq(ToVehicle) /\ toGcs \in Seq(ToGcs)
  BY DEF ExchangeOK
<1>2. UNCHANGED gcs
  BY DEF Lose, SwitchedOff, SwitchedOffInSave, PowerLost
<1>3. toVehicle' \in {toVehicle, <<>>} \/ (toVehicle # <<>> /\ toVehicle' = Tail(toVehicle))
  BY DEF Lose, SwitchedOff, SwitchedOffInSave
<1>4. \/ toGcs' = toGcs \/ (toGcs # <<>> /\ toGcs' = Tail(toGcs))
      \/ toGcs' = toGcs \o <<ACK("ACCEPTED")>>
  BY DEF Lose, SwitchedOff, SwitchedOffInSave, Reply
<1>5. toVehicle' \in Seq(ToVehicle)
  <2>1. <<>> \in Seq(ToVehicle)
    OBVIOUS
  <2>2. toVehicle # <<>> => Tail(toVehicle) \in Seq(ToVehicle)
    BY <1>1, QueueHead
  <2> QED
    BY <1>1, <1>3, <2>1, <2>2
<1>6. toGcs' \in Seq(ToGcs)
  <2>1. ACK("ACCEPTED") \in ToGcs
    BY Messages
  <2> QED
    BY <1>1, <1>4, <2>1, QueueHead, QueueSteps
<1> QED
  BY <1>2, <1>5, <1>6 DEF ExchangeOK, gcs, Uploading

LEMMA ExchangeStep ==
    ASSUME TypeOK, ExchangeOK, [LinkNext]_linkVars
    PROVE  ExchangeOK'
<1>1. CASE UNCHANGED linkVars
  BY <1>1 DEF linkVars, gcs, ExchangeOK, Uploading
<1> QED
  BY <1>1, VehicleKeepsExchange, StationKeepsExchange, HearingKeepsExchange,
     LossKeepsExchange DEF LinkNext

LEMMA ExchangeInit == LinkInit => ExchangeOK
<1>1. 0 \in 0 .. Len(Plans)
  BY LinkAssumption
<1> QED
  BY <1>1 DEF LinkInit, ExchangeOK, Uploading, NothingRead

(* The exchange stays well formed, and the store keeps its invariant. *)
LEMMA ExchangeInvariant == LinkSpec => [](ExchangeOK /\ IInv)
<1>1. LinkInit => ExchangeOK /\ IInv
  BY ExchangeInit, InitInvariant DEF LinkInit
<1>2. ExchangeOK /\ IInv /\ [LinkNext]_linkVars => (ExchangeOK /\ IInv)'
  BY ExchangeStep, LinkKeepsToStore, StepInvariant DEF IInv
<1> QED
  BY <1>1, <1>2, PTL DEF LinkSpec

(* The exchange of messages, losses and power failures included, changes the  *)
(* store only as MissionStore allows, whenever the challenge is answered.     *)
THEOREM LinkImplementsStore == LinkSpec => Spec
<1>1. LinkInit => Init
  BY DEF LinkInit
<1>2. ExchangeOK /\ [LinkNext]_linkVars => [Next]_vars
  BY LinkKeepsToStore
<1> QED
  BY <1>1, <1>2, ExchangeInvariant, PTL DEF LinkSpec, Spec

(* So what MissionStore promises of uploads holds of a vehicle that one       *)
(* ground station uploads to over a link that loses messages: the mission     *)
(* loaded is the one in the NVM, a half-done upload is not loaded, no version *)
(* goes back, and each message and each power failure does to the mission     *)
(* kept what DurableMission has for it.  (Nothing flies here: what            *)
(* MissionStore says of flights is Flight's.)                                 *)
COROLLARY LinkKeepsStore ==
    LinkSpec => /\ [](LoadedIsStored /\ UploadGrounded)
                /\ VersionNeverRegresses
                /\ DurableSpec
BY LinkImplementsStore, LoadedMissionIsStored, UploadIsGrounded, VersionsOnlyGrow,
   MissionIsDurable, PTL

---------------------------------------------------------------------------------
(* With a ground station that answers the challenge at leisure, only items    *)
(* that are due are taken.                                                    *)
THEOREM LinkInvariant ==
    ASSUME ~AnswersChallenge
    PROVE  LinkSpec => []LInv
<1>1. LinkInit => LInv
  BY LinkInitInvariant
<1>2. LInv /\ IInv /\ [LinkNext]_linkVars => LInv'
  BY LinkStepKeeps
<1> QED
  BY <1>1, <1>2, ExchangeInvariant, PTL DEF LinkSpec

(* What is loaded is always one of the plans, whole. *)
THEOREM LoadedMissionIsAPlan ==
    ASSUME ~AnswersChallenge
    PROVE  LinkSpec => []LoadedIsAPlan
<1>1. LInv => LoadedIsAPlan
  BY DEF LInv
<1> QED
  BY <1>1, LinkInvariant, PTL

(* An acknowledged upload is complete, loaded and would be verified, unless the *)
(* power was lost.                                                              *)
THEOREM AcknowledgedMissionIsLoaded ==
    ASSUME ~AnswersChallenge
    PROVE  LinkSpec => []AcknowledgedIsLoaded
<1>1. LInv => AcknowledgedIsLoaded
  BY DEF LInv, Acknowledgment, Arrived, AcknowledgedIsLoaded
<1> QED
  BY <1>1, LinkInvariant, PTL

(* What is read back is what was uploaded, unless the power was lost. *)
THEOREM MissionReadBackIsPlan ==
    ASSUME ~AnswersChallenge
    PROVE  LinkSpec => []ReadBackIsPlan
<1>1. LInv => ReadBackIsPlan
  <2> SUFFICES ASSUME LInv, gcs_state = "read", ~outage
               PROVE  /\ Len(gcs_read.items) = Items(Plan)
                      /\ \A seq \in DOMAIN Plan : gcs_read.items[seq + 1] = Plan[seq]
    BY DEF ReadBackIsPlan
  <2>1. /\ Len(gcs_read.items) \in Nat
        /\ DOMAIN Plan = 0 .. Items(Plan) - 1 /\ Items(Plan) \in 1 .. MAX_WAYPOINTS
    BY PlanIsMission, ItemsOfMission DEF LInv, LinkTypeOK
  <2>2. /\ \A i \in 1 .. Len(gcs_read.items) :
              i <= Items(Plan) /\ gcs_read.items[i] = Plan[i - 1]
        /\ Len(gcs_read.items) >= Items(Plan)
    BY DEF LInv, ReadSoFar
  <2>3. Len(gcs_read.items) = Items(Plan)
    BY <2>1, <2>2, SizesAssumption
  <2>4. ASSUME NEW seq \in DOMAIN Plan
        PROVE  gcs_read.items[seq + 1] = Plan[seq]
    <3>1. seq + 1 \in 1 .. Len(gcs_read.items) /\ (seq + 1) - 1 = seq
      BY <2>1, <2>3, SizesAssumption
    <3> QED
      BY <2>2, <3>1
  <2> QED
    BY <2>3, <2>4
<1> QED
  BY <1>1, LinkInvariant, PTL
=================================================================================
