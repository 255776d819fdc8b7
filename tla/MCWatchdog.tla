---------------------------- MODULE MCWatchdog ----------------------------
(***************************************************************************)
(* Instances of Watchdog for TLC.                                          *)
(***************************************************************************)
EXTENDS Watchdog

CONSTANTS p1, p2, p3, p4, p5, p6
=============================================================================
