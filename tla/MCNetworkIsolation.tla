------------------------- MODULE MCNetworkIsolation -------------------------
(***************************************************************************)
(* Instances of NetworkIsolation for TLC: the text of the address a is     *)
(* part of the server's (10.0.0.1 and 10.0.0.10).                          *)
(***************************************************************************)
EXTENDS NetworkIsolation

CONSTANTS a, server, world, k1, k2

MCMentions == [ip \in {a, server} |-> IF ip = a THEN {a, server} ELSE {server}]
=============================================================================
