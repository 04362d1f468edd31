-------------------------- MODULE MCTelegramTurns --------------------------
(* Small instances of TelegramTurns for TLC. *)
EXTENDS TelegramTurns
============================================================================
