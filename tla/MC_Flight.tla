------------------------------- MODULE MC_Flight -------------------------------
(* Three places.  The vehicle starts at one end and its home is the other, at  *)
(* first; waypoints lie at both ends, so that a mission may go to and fro.     *)
EXTENDS Flight
================================================================================
