------------------------------- MODULE UploadLink -------------------------------
(***************************************************************************)
(* A ground station uploads missions to the vehicle over a link that loses *)
(* messages, and reads back what it has uploaded; the vehicle may be       *)
(* switched off at any point.  The vehicle's half is the mission handlers  *)
(* of mavlink_rx.c: the effects are MissionStore's, the replies are here.  *)
(* The ground station is external: it does what the handlers and README.md *)
(* expect of one.                                                          *)
(*                                                                         *)
(* The vehicle never repeats a request: only the ground station times out. *)
(* It does so when the link is quiet, that is, its timeout is longer than  *)
(* the time a message and its answer need.                                 *)
(***************************************************************************)
EXTENDS MissionStore, Sequences

CONSTANTS Plans,            \* the missions to upload, one after the other
          AnswersChallenge, \* whether the response is sent when the challenge arrives,
                            \* or else at leisure before the upload
          MaxRetries,       \* times one MISSION_COUNT is sent again
          MaxLosses,        \* messages the link may lose
          MaxOutages        \* times the vehicle may lose power

ASSUME LinkAssumption ==
    /\ Plans \in Seq(Missions)
    /\ Len(Plans) <= MaxVer /\ MaxId >= 1
    /\ AnswersChallenge \in BOOLEAN
    /\ MaxRetries \in Nat /\ MaxLosses \in Nat /\ MaxOutages \in Nat

VARIABLES toVehicle, toGcs,   \* messages under way, oldest first
          gcs_upload,         \* number of uploads begun; the last one's version
          gcs_state,          \* where the upload stands for the ground station
          gcs_retries,
          gcs_read,           \* the count and the waypoints read back so far
          losses, outages,
          outage              \* power was lost since the upload began

store == vars
gcs == <<gcs_upload, gcs_state, gcs_retries, gcs_read>>
budget == <<losses, outages, outage>>
linkVars == <<store, toVehicle, toGcs, gcs, budget>>

(* The number of waypoints of a plan. *)
Items(plan) == CHOOSE n \in 1 .. MAX_WAYPOINTS : DOMAIN plan = 0 .. n - 1
Plan == Plans[gcs_upload]

COUNT(number) == [type |-> "MISSION_COUNT", number |-> number]
ITEM(seq, wp) == [type |-> "MISSION_ITEM_INT", seq |-> seq, wp |-> wp]
CHAL_RESP == [type |-> "MISSION_CHAL_RESP"]
REQUEST_LIST == [type |-> "MISSION_REQUEST_LIST"]
COUNTED(count) == [type |-> "MISSION_COUNT", count |-> count]
REQUEST(seq) == [type |-> "MISSION_REQUEST_INT", seq |-> seq]
CHALLENGE == [type |-> "MISSION_CHALLENGE"]
ACK(result) == [type |-> "MISSION_ACK", result |-> result]

NothingRead == [count |-> 0, items |-> <<>>]

LinkInit ==
    /\ Init
    /\ toVehicle = <<>> /\ toGcs = <<>>
    /\ gcs_upload = 0 /\ gcs_state = "idle" /\ gcs_retries = 0 /\ gcs_read = NothingRead
    /\ losses = 0 /\ outages = 0 /\ outage = FALSE

---------------------------------------------------------------------------------
(* The vehicle: one message per action, and the replies in the order sent. *)

Receive(type) ==
    /\ toVehicle # <<>>
    /\ Head(toVehicle).type = type
    /\ toVehicle' = Tail(toVehicle)
    /\ UNCHANGED <<gcs, budget>>

Reply(messages) == toGcs' = toGcs \o messages

(* The challenge is published by mission_reset and once more by              *)
(* mission_begin_upload; item 0 is asked for whether or not the response has *)
(* come.                                                                     *)
CountAccepted ==
    LET number == Head(toVehicle).number
    IN  /\ Receive("MISSION_COUNT")
        /\ handle_mission_count(Items(Plans[number]), 1, number)
        /\ Reply(<<CHALLENGE, CHALLENGE, REQUEST(0)>>)

CountDenied ==
    /\ Receive("MISSION_COUNT")
    /\ ~MetadataFresh(1, Head(toVehicle).number)
    /\ Reply(<<ACK("DENIED")>>)
    /\ UNCHANGED store

(* The right response asks for the item that is due, upload or not. *)
ResponseReceived ==
    /\ Receive("MISSION_CHAL_RESP")
    /\ handle_param_set(TRUE)
    /\ Reply(<<REQUEST(mission_rx_idx)>>)

ItemDenied ==
    /\ Receive("MISSION_ITEM_INT")
    /\ ~mission_upload_authorized_flag
    /\ Reply(<<ACK("DENIED")>>)
    /\ UNCHANGED store

(* Mutants: the item just received is asked for again; nothing is asked for. *)
ItemReply_SameAgain == <<REQUEST(mission_rx_idx)>>
ItemReply_None == <<>>

ItemReply == <<REQUEST(NextRx)>>

ItemAccepted ==
    LET item == Head(toVehicle)
    IN  /\ Receive("MISSION_ITEM_INT")
        /\ ItemStored(item.seq, item.wp)
        /\ Reply(ItemReply)

LastItemAccepted ==
    LET item == Head(toVehicle)
    IN  /\ Receive("MISSION_ITEM_INT")
        /\ UploadCompleted(item.seq, item.wp)
        /\ Reply(<<ACK("ACCEPTED")>>)

(* Download: the array is what is read, whether a mission is loaded or not. *)
ListRequested ==
    /\ Receive("MISSION_REQUEST_LIST")
    /\ Reply(<<COUNTED(mission_count)>>)
    /\ UNCHANGED store

(* Mutants: the last item is not sent; it is the slot the upload is at. *)
ItemSent_NotTheLast(seq) == IF seq >= mission_count - 1 THEN <<>>
                                                        ELSE <<ITEM(seq, mission[seq])>>
ItemSent_UploadSlot(seq) ==
    IF seq >= mission_count THEN <<>>
    ELSE <<ITEM(seq, mission[mission_rx_idx % MAX_WAYPOINTS])>>

(* A request for an item past the end is not answered. *)
ItemSent(seq) == IF seq >= mission_count THEN <<>> ELSE <<ITEM(seq, mission[seq])>>

ItemRequested ==
    /\ Receive("MISSION_REQUEST_INT")
    /\ Reply(ItemSent(Head(toVehicle).seq))
    /\ UNCHANGED store

vehicle ==
    CountAccepted \/ CountDenied \/ ResponseReceived \/ ItemDenied \/ ItemAccepted
        \/ LastItemAccepted \/ ListRequested \/ ItemRequested

---------------------------------------------------------------------------------
(* The ground station *)

Uploading == gcs_state = "offered"
Reading == gcs_state \in {"listing", "reading"}

Quiet == toVehicle = <<>> /\ toGcs = <<>>
Transmit(message) == toVehicle' = Append(toVehicle, message)

(* The operator answers the challenge, which has been on show since boot. *)
Respond ==
    /\ ~AnswersChallenge
    /\ ~Uploading /\ ~Reading
    /\ Quiet
    /\ Transmit(CHAL_RESP)
    /\ UNCHANGED <<store, toGcs, gcs, budget>>

StartUpload ==
    /\ ~Uploading /\ ~Reading /\ gcs_upload < Len(Plans)
    /\ Quiet
    /\ gcs_upload' = gcs_upload + 1
    /\ gcs_state' = "offered" /\ gcs_retries' = 0 /\ gcs_read' = NothingRead
    /\ outage' = FALSE
    /\ Transmit(COUNT(gcs_upload + 1))
    /\ UNCHANGED <<store, toGcs, losses, outages>>

(* What was accepted is read back: the count, then item after item. *)
StartReading ==
    /\ gcs_state = "accepted"
    /\ Quiet
    /\ gcs_state' = "listing" /\ gcs_retries' = 0
    /\ Transmit(REQUEST_LIST)
    /\ UNCHANGED <<store, toGcs, gcs_upload, gcs_read, budget>>

Outstanding ==
    CASE Uploading             -> COUNT(gcs_upload)
      [] gcs_state = "listing" -> REQUEST_LIST
      [] gcs_state = "reading" -> REQUEST(Len(gcs_read.items))

Timeout ==
    /\ Uploading \/ Reading
    /\ Quiet
    /\ \/ /\ gcs_retries < MaxRetries
          /\ gcs_retries' = gcs_retries + 1
          /\ Transmit(Outstanding)
          /\ UNCHANGED gcs_state
       \/ /\ gcs_retries = MaxRetries
          /\ gcs_state' = "failed"
          /\ UNCHANGED <<toVehicle, gcs_retries>>
    /\ UNCHANGED <<store, toGcs, gcs_upload, gcs_read, budget>>

Heard(type) ==
    /\ toGcs # <<>>
    /\ Head(toGcs).type = type
    /\ toGcs' = Tail(toGcs)
    /\ UNCHANGED <<store, gcs_upload, gcs_retries, budget>>

(* A request is answered while an upload is on, and ignored otherwise. *)
AnswerRequest ==
    /\ Heard("MISSION_REQUEST_INT")
    /\ LET seq == Head(toGcs).seq
       IN  IF Uploading /\ seq < Items(Plan)
           THEN Transmit(ITEM(seq, Plan[seq]))
           ELSE UNCHANGED toVehicle
    /\ UNCHANGED <<gcs_state, gcs_read>>

(* It comes twice; one answer is enough. *)
AnswerChallenge ==
    /\ Heard("MISSION_CHALLENGE")
    /\ IF AnswersChallenge
       THEN toVehicle' \in {toVehicle, Append(toVehicle, CHAL_RESP)}
       ELSE UNCHANGED toVehicle
    /\ UNCHANGED <<gcs_state, gcs_read>>

HearAck ==
    /\ Heard("MISSION_ACK")
    /\ gcs_state' = IF ~Uploading THEN gcs_state
                    ELSE IF Head(toGcs).result = "ACCEPTED" THEN "accepted" ELSE "failed"
    /\ UNCHANGED <<toVehicle, gcs_read>>

(* The count comes first, and then each item in its turn; the rest is ignored. *)
ReadOn(read) ==
    /\ gcs_read' = read
    /\ IF Len(read.items) < read.count
       THEN gcs_state' = "reading" /\ Transmit(REQUEST(Len(read.items)))
       ELSE gcs_state' = "read" /\ UNCHANGED toVehicle

HearCount ==
    /\ Heard("MISSION_COUNT")
    /\ IF gcs_state = "listing"
       THEN ReadOn([count |-> Head(toGcs).count, items |-> <<>>])
       ELSE UNCHANGED <<gcs_state, gcs_read, toVehicle>>

HearItem ==
    /\ Heard("MISSION_ITEM_INT")
    /\ LET item == Head(toGcs)
       IN  IF gcs_state = "reading" /\ item.seq = Len(gcs_read.items)
           THEN ReadOn([gcs_read EXCEPT !.items = Append(@, item.wp)])
           ELSE UNCHANGED <<gcs_state, gcs_read, toVehicle>>

Hear == AnswerRequest \/ AnswerChallenge \/ HearAck \/ HearCount \/ HearItem

---------------------------------------------------------------------------------
(* The link and the power supply *)

Lose ==
    /\ losses < MaxLosses
    /\ losses' = losses + 1
    /\ \/ toVehicle # <<>> /\ toVehicle' = Tail(toVehicle) /\ UNCHANGED toGcs
       \/ toGcs # <<>> /\ toGcs' = Tail(toGcs) /\ UNCHANGED toVehicle
    /\ UNCHANGED <<store, gcs, outages, outage>>

PowerLost ==
    /\ outages < MaxOutages
    /\ outages' = outages + 1
    /\ outage' = TRUE
    /\ UNCHANGED <<gcs, losses>>

(* What the UART had received may be lost with the power. *)
SwitchedOff ==
    /\ PowerLost
    /\ Reboot
    /\ toVehicle' \in {toVehicle, <<>>}
    /\ UNCHANGED toGcs

(* The last item is acknowledged before it is saved, and the power goes in *)
(* the middle of the save.                                                 *)
SwitchedOffInSave ==
    /\ CutsSaves
    /\ PowerLost
    /\ toVehicle # <<>>
    /\ LET item == Head(toVehicle)
       IN  /\ item.type = "MISSION_ITEM_INT"
           /\ LastItemDue
           /\ PowerLossWhileSaving(WithItem(item.seq, item.wp))
    /\ toVehicle' \in {Tail(toVehicle), <<>>}
    /\ Reply(<<ACK("ACCEPTED")>>)

LinkNext ==
    \/ vehicle
    \/ Respond \/ StartUpload \/ StartReading \/ Timeout \/ Hear
    \/ Lose \/ SwitchedOff \/ SwitchedOffInSave

LinkSpec == LinkInit /\ [][LinkNext]_linkVars

(* The main loop polls the UART, and the ground station hears what arrives  *)
(* and times out.  It need not ever start an upload, nor need anything be   *)
(* lost.                                                                    *)
FairLinkSpec ==
    LinkSpec /\ WF_linkVars(vehicle) /\ WF_linkVars(Hear) /\ WF_linkVars(Timeout)

---------------------------------------------------------------------------------
(* Properties *)

(* What is loaded is one of the plans, whole: never a mix of two uploads,   *)
(* though every upload writes into the array of the one before and items    *)
(* are counted, not recorded.                                               *)
LoadedIsAPlan ==
    mission_loaded => \E number \in 1 .. gcs_upload : Content = Plans[number]

(* A ground station that has its MISSION_ACK is right about the vehicle:    *)
(* unless the power was lost the plan is loaded and would be verified.      *)
Acknowledged == gcs_state \in {"accepted", "listing", "reading", "read"}

AcknowledgedIsLoaded == Acknowledged /\ ~outage => Live /\ Content = Plan

(* Reading the mission back gives the plan that was uploaded, unless the     *)
(* power was lost; a power loss in the middle may give a count of one        *)
(* mission and items of another.                                             *)
ReadBackIsPlan ==
    gcs_state = "read" /\ ~outage =>
        /\ Len(gcs_read.items) = Items(Plan)
        /\ \A seq \in DOMAIN Plan : gcs_read.items[seq + 1] = Plan[seq]

(* An upload whose version is new to the vehicle, by a ground station whose  *)
(* response was right, arrives however the messages are lost, as long as it  *)
(* is offered once more than the link loses: the vehicle itself never asks   *)
(* again for an item.                                                        *)
UploadArrives ==
    \A number \in 1 .. Len(Plans) :
        Uploading /\ gcs_upload = number
                /\ chal_resp_ok /\ MetadataFresh(1, number)
            ~> (mission_loaded /\ Content = Plans[number]) \/ outage

(* A mission that is being read back is read to its end, however the        *)
(* messages are lost.                                                       *)
ReadBackArrives == Reading ~> gcs_state = "read" \/ outage
=================================================================================
