---------------------------- MODULE EventQueue ----------------------------
(***************************************************************************)
(* The order of a VecDeque<TelemetryEvent>, as LocalEventQueue uses it     *)
(* (transport/mod.rs).  A queue, and a batch cut from one, is a finite set *)
(* of entries: the event and the position it was pushed at.  Positions     *)
(* only grow, so "older" is "smaller position".                            *)
(***************************************************************************)
EXTENDS Naturals, FiniteSets

\* Entries of events Ev; one event may be queued twice, at two positions.
Entry(Ev) == [n : Nat, e : Ev]

\* Queues and batches: finite, though positions are not bounded.
Batches(Ev) == {B \in SUBSET Entry(Ev) : IsFiniteSet(B)}

\* The event ids held by a set of entries.
Ids(S) == {q.e : q \in S}

Lesser(a, b) == IF a < b THEN a ELSE b

\* The k entries at the front of S: one set if k <= Len, none otherwise.
Fronts(S, k) ==
    {P \in SUBSET S : /\ Cardinality(P) = k
                      /\ \A p \in P, q \in S \ P : p.n < q.n}

\* iter().take(k): at most k entries from the front.
Take(S, k) == Fronts(S, Lesser(k, Cardinality(S)))

\* Batch B pushed behind everything older than position `base`, in B's order.
Repositioned(B, base) ==
    {[n |-> base + Cardinality({r \in B : r.n < q.n}), e |-> q.e] : q \in B}

\* Events in timestamp order, as collectors hand them over and as
\* "ORDER BY timestamp_ms" reads them back.  Event e has timestamp e.
InTimeOrder(Ev) == {[n |-> e, e |-> e] : e \in Ev}
=============================================================================
