----------------------------- MODULE MC_MissionStore -----------------------------
(* MissionStore with two slots, two contents for a slot and two versions of a   *)
(* mission.  UINT16 is small enough for both 16-bit counters to wrap.  Of   *)
(* the NVM only the waypoints wear; all of it does in MC_FlightPower.cfg.       *)
EXTENDS MissionStore
==================================================================================
