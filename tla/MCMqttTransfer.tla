--------------------------- MODULE MCMqttTransfer ---------------------------
(* A file of two chunks, a file of one small chunk, and the first again.    *)
EXTENDS MqttTransfer, TLC
CONSTANTS f1, f2

MCFileOf == <<f1, f2, f1>>
MCFirstTwo == <<f1, f2>>
MCNumChunks == (f1 :> 2) @@ (f2 :> 1)
=============================================================================
