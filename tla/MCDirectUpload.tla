--------------------------- MODULE MCDirectUpload ---------------------------
(* Two transfers of one file of three blocks: the second attempt of a CoAP  *)
(* transfer uses a message ID again, and two HTTP handlers may overlap.     *)
EXTENDS DirectUpload, TLC
CONSTANT f1

MCFileOf == [t \in Transfers |-> f1]
MCBlocks == f1 :> 3
=============================================================================
