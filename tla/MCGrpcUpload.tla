---------------------------- MODULE MCGrpcUpload ----------------------------
(* Two uploads of a file of two chunks, one of an empty file and one of a   *)
(* file of a single chunk: up to three handlers want the two workers.       *)
EXTENDS GrpcUpload, TLC
CONSTANTS u1, u2, u3, u4, f1, f2, f3

MCFileOf == (u1 :> f1) @@ (u2 :> f1) @@ (u3 :> f2) @@ (u4 :> f3)
MCNumChunks == (f1 :> 2) @@ (f2 :> 0) @@ (f3 :> 1)
=============================================================================
