---------------------------- MODULE MCBotPolling ----------------------------
(* A small instance of BotPolling for TLC.                                 *)
EXTENDS BotPolling
=============================================================================
