--------------------------- MODULE MCAmqpTransfer ---------------------------
(* Three transfers: a file of two chunks, a file of one small chunk, and    *)
(* the first file again, under three kinds of campaign.                     *)
EXTENDS AmqpTransfer, TLC
CONSTANTS f1, f2

MCFileOf == <<f1, f2, f1>>
MCNumChunks == (f1 :> 2) @@ (f2 :> 1)

Campaign(prefetch, overlap, kinds) ==
    [prefetch |-> prefetch, overlap |-> overlap, faults |-> kinds]

MCCampaigns == {
    Campaign(1, FALSE, {"nack", "connection"}),         \* each client waits
    Campaign(5, TRUE, {"nack", "connection"}),          \* all in the window
    Campaign(2, TRUE, {"nack", "connection", "crash"})} \* anything goes
=============================================================================
