----------------------------- MODULE DurableMission -----------------------------
(***************************************************************************)
(* What the vehicle promises about the mission it keeps, whatever happens  *)
(* on the link and whenever the power goes.  Nothing is said here of       *)
(* waypoint slots, digests or the layout of the NVM.                       *)
(*                                                                         *)
(* Each step below is what one kind of event may do to the mission kept    *)
(* and to the one that can be flown.  A module that implements the promise *)
(* says which of its own events is which, so that only a commit changes    *)
(* what is kept, and only a commit cut short or a worn store can lose it.  *)
(***************************************************************************)
CONSTANT None           \* no mission

VARIABLES saved,        \* the mission in the store
          readable,     \* whether the store can give it back
          live          \* the mission the vehicle is ready to fly

Init == saved = None /\ readable = FALSE /\ live = None

(* A commit that finishes: m is the mission kept and the mission flown. *)
Commit(m) == saved' = m /\ readable' = TRUE /\ live' = m

(* The vehicle at work between commits: what is kept is left alone, and the *)
(* mission in memory stays, is given up (cleared, replaced, edited in part) *)
(* or is again the one the store holds.                                     *)
Keep ==
    /\ UNCHANGED <<saved, readable>>
    /\ live' \in {live, None} \/ (readable /\ live' = saved)

PoweredUp == live' = IF readable' THEN saved' ELSE None

(* A power cycle between two commits loses nothing, and brings the kept     *)
(* mission back if it was given up in memory.                               *)
Reboot == UNCHANGED <<saved, readable>> /\ PoweredUp

(* What is left after a loss is one of the missions `choice` or no mission: *)
(* never a mix of two.                                                      *)
LeftWith(choice) ==
    /\ saved' \in choice \cup {None}
    /\ readable' => saved' # None
    /\ PoweredUp

(* A power cycle in the middle of the commit of m. *)
Interrupted(m) == LeftWith({saved, m})

(* A power cycle over which the store wore out. *)
Worn == LeftWith({saved})
=================================================================================
