------------------------------ MODULE MCPeriods -----------------------------
(* A small instance of Periods for TLC: days of three units, WIB one unit  *)
(* ahead, weeks of three days, months that begin on days 0 and 2.          *)
EXTENDS Periods
=============================================================================
