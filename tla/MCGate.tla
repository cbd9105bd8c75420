------------------------------- MODULE MCGate -------------------------------
(* A small instance of Gate for TLC.                                       *)
EXTENDS Gate
=============================================================================
