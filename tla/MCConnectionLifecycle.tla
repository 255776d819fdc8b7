----------------------- MODULE MCConnectionLifecycle -----------------------
(***************************************************************************)
(* Instances of ConnectionLifecycle for TLC.                               *)
(***************************************************************************)
EXTENDS ConnectionLifecycle
=============================================================================
