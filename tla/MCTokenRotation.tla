-------------------------- MODULE MCTokenRotation --------------------------
(***************************************************************************)
(* Instances of TokenRotation for TLC.                                     *)
(***************************************************************************)
EXTENDS TokenRotation
=============================================================================
