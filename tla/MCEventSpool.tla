---------------------------- MODULE MCEventSpool ----------------------------
(***************************************************************************)
(* Instances of EventSpool for TLC.                                        *)
(***************************************************************************)
EXTENDS EventSpool

CONSTANTS k1, k2
=============================================================================
