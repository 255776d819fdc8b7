--------------------------- MODULE MCEventTriage ---------------------------
(***************************************************************************)
(* Instances of EventTriage for TLC.                                       *)
(***************************************************************************)
EXTENDS EventTriage

CONSTANTS k1, k2, k3
=============================================================================
