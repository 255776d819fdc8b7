--------------------------- MODULE MCSelfUpdate ---------------------------
(***************************************************************************)
(* Instances of SelfUpdate for TLC.                                        *)
(***************************************************************************)
EXTENDS SelfUpdate

CONSTANTS loop, cmd, client, main
=============================================================================
