------------------------- MODULE MCTelegramInbound -------------------------
(* Small instances of TelegramInbound for TLC.  Every message starts at most *)
(* one worker, so this many workers are never too few.                       *)
EXTENDS TelegramInbound, FiniteSets

WorkersNeeded == MaxMessages * Cardinality(Conversations)
============================================================================
