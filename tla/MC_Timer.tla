-------------------------------- MODULE MC_Timer --------------------------------
(* Halves of 24 values, two ticks and a bit to a round, two carries of MTIME within *)
(* the horizon, and no more than one unit of time between two accesses, so that     *)
(* a carry can fall between any two of them.                                        *)
EXTENDS Timer
=================================================================================
