-------------------------------- MODULE MC_Vehicle --------------------------------
(* A battery of six steps, a GPS timeout of two checks and three places. *)
EXTENDS Vehicle
===================================================================================
