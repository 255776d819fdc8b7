------------------------ MODULE MCTelemetryDelivery ------------------------
(***************************************************************************)
(* Instances of TelemetryDelivery for TLC.                                 *)
(***************************************************************************)
EXTENDS TelemetryDelivery, TLC

CONSTANTS p1, p2, f1, f2, s1, s2, s3, s4

\* Tasks of one kind, and sequence numbers, are interchangeable.
Symmetry == Permutations(Producers) \cup Permutations(Flushers) \cup Permutations(Seqs)

\* Without ACK tracking no step reads what the server took, what was shed, or
\* more of an ACK than that it is there.
CompatView == <<connVars, pending, queue, rows, tail, outgoing, inFlight,
                [i \in DOMAIN acks |-> acks[i].seq], scan, senderVars, phase, restarts>>
=============================================================================
