------------------------------ MODULE MC_UploadLink ------------------------------
(* Three plans of two lengths; putting the head of one before the tail of another *)
(* makes a mission that is no plan.                                               *)
EXTENDS UploadLink

CONSTANTS A, B

ThreePlans == <<[i \in 0 .. 2 |-> IF i = 1 THEN B ELSE A],
                [i \in 0 .. 1 |-> IF i = 0 THEN B ELSE A],
                [i \in 0 .. 2 |-> B]>>
=================================================================================
