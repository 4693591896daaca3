--------------------------- MODULE MCMessageCycle ---------------------------
(* Small instance of MessageCycle for TLC.                                 *)
EXTENDS MessageCycle
=============================================================================
