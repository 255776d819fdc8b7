------------------------- MODULE MCOfflineVerdicts -------------------------
(***************************************************************************)
(* Instances of OfflineVerdicts for TLC.                                   *)
(***************************************************************************)
EXTENDS OfflineVerdicts

CONSTANTS f1, f2, other

\* The keys of hand-overs and one of other telemetry.
MCKeys == SyncKeys \cup {other}
=============================================================================
