---------------------------- MODULE MCLwm2mUpdate ----------------------------
(* The campaign sends one file, then the other, then the first again.       *)
EXTENDS Lwm2mUpdate
CONSTANTS f1, f2

MCFileOf == [t \in 1 .. NumTransfers |-> IF t = 2 THEN f2 ELSE f1]
=============================================================================
