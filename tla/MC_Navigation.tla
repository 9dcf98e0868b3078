----------------------------- MODULE MC_Navigation -----------------------------
(* Legs between three places, the longest of which overflow every product.      *)
EXTENDS Navigation

Corners == {[lat |-> 0, lon |-> 0, alt |-> 0],
            [lat |-> LatSpan, lon |-> 5, alt |-> AltSpan],
            [lat |-> 3, lon |-> LonSpan, alt |-> 2]}
================================================================================
