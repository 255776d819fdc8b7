----------------------- MODULE TelemetryDeliveryProofs -----------------------
(***************************************************************************)
(* Theorems about TelemetryDelivery, for every number of events, producers *)
(* and flush tasks and every value of the limits.                          *)
(***************************************************************************)
EXTENDS TelemetryDelivery, FiniteSetTheorems, TLAPS

-----------------------------------------------------------------------------
(* Queue entries.                                                          *)

\* The image of a finite set under a function is finite and no larger.
LEMMA ImageBound ==
  ASSUME NEW S, IsFiniteSet(S), NEW f, f = [x \in S |-> f[x]]
  PROVE  /\ IsFiniteSet({f[x] : x \in S})
         /\ Cardinality({f[x] : x \in S}) <= Cardinality(S)
<1> DEFINE T == {f[x] : x \in S}
<1>1. f \in Surjection(S, T)
  BY DEF Surjection
<1> QED BY <1>1, FS_Surjection

\* Cutting from the front takes entries of the queue.
LEMMA FrontsInside ==
  ASSUME NEW S, NEW k, NEW P \in Fronts(S, k)
  PROVE  P \subseteq S
BY DEF Fronts

\* The first k entries are determined by the queue and k: two fronts of the
\* same length are the same, so an ACK count names the events it confirms.
LEMMA FrontsUnique ==
  ASSUME NEW Ev, NEW S \in Batches(Ev), NEW k,
         NEW P \in Fronts(S, k), NEW Q \in Fronts(S, k)
  PROVE  P = Q
<1>1. /\ P \subseteq S /\ Q \subseteq S /\ IsFiniteSet(S)
      /\ Cardinality(P) = Cardinality(Q)
  BY DEF Fronts, Batches
<1>2. IsFiniteSet(P) /\ IsFiniteSet(Q)
  BY <1>1, FS_Subset
<1>3. \A x \in S : x.n \in Nat
  BY DEF Batches, Entry
<1>4. CASE P \subseteq Q
  BY <1>1, <1>2, <1>4, FS_Subset
<1>5. CASE Q \subseteq P
  BY <1>1, <1>2, <1>5, FS_Subset
<1>6. CASE ~(P \subseteq Q) /\ ~(Q \subseteq P)
  <2>1. PICK p \in P : p \notin Q
    BY <1>6
  <2>2. PICK q \in Q : q \notin P
    BY <1>6
  <2>3. p.n < q.n /\ q.n < p.n
    BY <1>1, <2>1, <2>2 DEF Fronts
  <2> QED BY <1>1, <1>3, <2>3
<1> QED BY <1>4, <1>5, <1>6

\* Removing entries leaves a queue; joining two queues gives a queue.
LEMMA BatchesClosed ==
  ASSUME NEW Ev, NEW A \in Batches(Ev), NEW B \in Batches(Ev), NEW C
  PROVE  A \ C \in Batches(Ev) /\ A \cup B \in Batches(Ev)
<1>1. IsFiniteSet(A \ C)
  BY FS_Difference, FS_Subset DEF Batches
<1>2. IsFiniteSet(A \cup B)
  BY FS_Union DEF Batches
<1> QED BY <1>1, <1>2 DEF Batches

\* push_back of a batch keeps its events and its size.
LEMMA RepositionedFacts ==
  ASSUME NEW Ev, NEW B \in Batches(Ev), NEW base \in Nat
  PROVE  /\ Repositioned(B, base) \in Batches(Ev)
         /\ Ids(Repositioned(B, base)) = Ids(B)
         /\ Cardinality(Repositioned(B, base)) <= Cardinality(B)
<1> DEFINE pos(q) == base + Cardinality({r \in B : r.n < q.n})
           f == [q \in B |-> [n |-> pos(q), e |-> q.e]]
<1>1. IsFiniteSet(B) /\ B \subseteq Entry(Ev)
  BY DEF Batches
<1>2. Repositioned(B, base) = {f[q] : q \in B}
  BY DEF Repositioned
<1>3. IsFiniteSet({f[q] : q \in B}) /\ Cardinality({f[q] : q \in B}) <= Cardinality(B)
  <2> HIDE DEF pos
  <2>1. f = [q \in B |-> f[q]]
    OBVIOUS
  <2> HIDE DEF f
  <2> QED BY <1>1, <2>1, ImageBound
<1>4. \A q \in B : pos(q) \in Nat
  <2> TAKE q \in B
  <2>1. {r \in B : r.n < q.n} \in SUBSET B
    OBVIOUS
  <2>2. Cardinality({r \in B : r.n < q.n}) \in Nat
    BY <1>1, <2>1, FS_Subset, FS_CardinalityType
  <2> QED BY <2>2
<1>5. Repositioned(B, base) \subseteq Entry(Ev)
  <2> HIDE DEF pos
  <2> QED BY <1>1, <1>2, <1>4 DEF Entry
<1>6. Ids(Repositioned(B, base)) = Ids(B)
  <2> HIDE DEF pos
  <2>1. \A q \in B : f[q].e = q.e
    OBVIOUS
  <2> HIDE DEF f
  <2> QED BY <1>2, <2>1 DEF Ids
<1> HIDE DEF pos, f
<1> QED BY <1>2, <1>3, <1>5, <1>6 DEF Batches

\* Reading rows back, or taking a collector's events, makes a queue of them.
LEMMA InTimeOrderFacts ==
  ASSUME NEW Ev \in SUBSET Nat, NEW E \in SUBSET Ev, IsFiniteSet(E)
  PROVE  /\ InTimeOrder(E) \in Batches(Ev)
         /\ Ids(InTimeOrder(E)) = E
         /\ Cardinality(InTimeOrder(E)) <= Cardinality(E)
<1> DEFINE f == [x \in E |-> [n |-> x, e |-> x]]
<1>1. InTimeOrder(E) = {f[x] : x \in E}
  BY DEF InTimeOrder
<1>2. f = [x \in E |-> f[x]]
  OBVIOUS
<1>3. \A x \in E : f[x].e = x /\ f[x] \in Entry(Ev)
  BY DEF Entry
<1> HIDE DEF f
<1>4. IsFiniteSet({f[x] : x \in E}) /\ Cardinality({f[x] : x \in E}) <= Cardinality(E)
  BY <1>2, ImageBound
<1>5. Ids(InTimeOrder(E)) = E
  <2>1. \A x \in E : f[x] \in InTimeOrder(E)
    BY <1>1
  <2>2. E \subseteq Ids(InTimeOrder(E))
    BY <1>3, <2>1 DEF Ids
  <2>3. Ids(InTimeOrder(E)) \subseteq E
    BY <1>1, <1>3 DEF Ids
  <2> QED BY <2>2, <2>3
<1>6. InTimeOrder(E) \subseteq Entry(Ev)
  BY <1>1, <1>3
<1> QED BY <1>1, <1>4, <1>5, <1>6 DEF Batches

\* push_back of a batch puts it at the first free positions.
LEMMA RepositionedPlaces ==
  ASSUME NEW Ev, NEW B \in Batches(Ev), NEW base \in Nat
  PROVE  \A x \in Repositioned(B, base) :
           x.n \in Nat /\ x.n >= base /\ x.n < base + Cardinality(B)
<1> DEFINE before(q) == {r \in B : r.n < q.n}
<1>1. IsFiniteSet(B) /\ Cardinality(B) \in Nat
  BY FS_CardinalityType DEF Batches
<1>2. \A q \in B : q.n \in Nat
  BY DEF Batches, Entry
<1>3. ASSUME NEW q \in B
      PROVE  Cardinality(before(q)) \in Nat /\ Cardinality(before(q)) < Cardinality(B)
  <2>1. before(q) \in SUBSET B /\ before(q) # B
    BY <1>2, <1>3
  <2>2. IsFiniteSet(before(q)) /\ Cardinality(before(q)) <= Cardinality(B)
        /\ (Cardinality(before(q)) = Cardinality(B) => before(q) = B)
    BY <1>1, <2>1, FS_Subset
  <2>3. Cardinality(before(q)) \in Nat
    BY <2>2, FS_CardinalityType
  <2> QED BY <1>1, <2>1, <2>2, <2>3
<1>4. Repositioned(B, base) = {[n |-> base + Cardinality(before(q)), e |-> q.e] : q \in B}
  BY DEF Repositioned
<1> HIDE DEF before
<1> QED BY <1>1, <1>3, <1>4

\* An event queue holds at least as many entries as events.
LEMMA IdsBound ==
  ASSUME NEW Ev, NEW S \in Batches(Ev)
  PROVE  IsFiniteSet(Ids(S)) /\ Cardinality(Ids(S)) <= Cardinality(S)
<1> DEFINE f == [q \in S |-> q.e]
<1>1. Ids(S) = {f[q] : q \in S}
  BY DEF Ids
<1>2. f = [q \in S |-> f[q]]
  OBVIOUS
<1>3. IsFiniteSet(S)
  BY DEF Batches
<1> HIDE DEF f
<1> QED BY <1>1, <1>2, <1>3, ImageBound

-----------------------------------------------------------------------------
(* The types.                                                              *)

\* Events are finitely many naturals.
LEMMA EventsFinite ==
  /\ Events \in SUBSET Nat /\ IsFiniteSet(Events)
  /\ \A E \in SUBSET Events : IsFiniteSet(E)
<1>1. Events \in SUBSET Nat /\ IsFiniteSet(Events)
  BY DeliveryAssumption, FS_Interval DEF Events
<1> QED BY <1>1, FS_Subset

\* load_from_disk: the rows and the integrity events, no entry behind the tail.
LEMMA LoadedFacts ==
  ASSUME rows \in SUBSET Events, NEW al \in SUBSET Events
  PROVE  /\ Loaded(al) \in Batches(Events) /\ N + 1 + Cardinality(al) \in Nat
         /\ Ids(Loaded(al)) = rows \cup al
         /\ Cardinality(Loaded(al)) <= Cardinality(rows) + Cardinality(al)
         /\ \A x \in Loaded(al) : x.n \in Nat /\ x.n < N + 1 + Cardinality(al)
<1> DEFINE old == InTimeOrder(rows)
           B   == InTimeOrder(al)
           new == Repositioned(B, N + 1)
<1>1. /\ IsFiniteSet(rows) /\ IsFiniteSet(al) /\ N \in Nat /\ N + 1 \in Nat
      /\ Cardinality(rows) \in Nat /\ Cardinality(al) \in Nat /\ Events \in SUBSET Nat
  BY EventsFinite, FS_CardinalityType, DeliveryAssumption
<1>2. /\ old \in Batches(Events) /\ Ids(old) = rows /\ Cardinality(old) <= Cardinality(rows)
      /\ B \in Batches(Events) /\ Ids(B) = al /\ Cardinality(B) <= Cardinality(al)
  BY <1>1, InTimeOrderFacts
<1>3. \A x \in old : x.n \in Nat /\ x.n < N + 1
  BY <1>1 DEF InTimeOrder, Events
<1> HIDE DEF old, B
<1>4. new \in Batches(Events) /\ Ids(new) = al /\ Cardinality(new) <= Cardinality(B)
  BY <1>1, <1>2, RepositionedFacts
<1>5. \A x \in new : x.n \in Nat /\ x.n < N + 1 + Cardinality(B)
  BY <1>1, <1>2, RepositionedPlaces
<1> HIDE DEF new
<1>6. Loaded(al) = old \cup new
  BY DEF Loaded, old, B, new
<1>7. /\ IsFiniteSet(old) /\ IsFiniteSet(new) /\ Cardinality(old) \in Nat
      /\ Cardinality(new) \in Nat /\ Cardinality(B) \in Nat
  BY <1>2, <1>4, FS_CardinalityType DEF Batches
<1>8. Cardinality(old \cup new) <= Cardinality(old) + Cardinality(new)
  <2>1. IsFiniteSet(old \cap new) /\ Cardinality(old \cap new) \in Nat
    BY <1>7, FS_Intersection, FS_CardinalityType
  <2>2. Cardinality(old \cup new)
          = Cardinality(old) + Cardinality(new) - Cardinality(old \cap new)
    BY <1>7, FS_Union, Zenon
  <2> QED BY <1>7, <2>1, <2>2
<1>9. Cardinality(old \cup new) \in Nat
  BY <1>7, FS_Union, FS_CardinalityType
<1>10. Cardinality(Loaded(al)) <= Cardinality(rows) + Cardinality(al)
  BY <1>1, <1>2, <1>4, <1>6, <1>7, <1>8, <1>9
<1>11. Ids(Loaded(al)) = rows \cup al
  BY <1>2, <1>4, <1>6 DEF Ids
<1>12. Loaded(al) \in Batches(Events)
  BY <1>2, <1>4, <1>6, BatchesClosed
<1>13. \A x \in Loaded(al) : x.n \in Nat /\ x.n < N + 1 + Cardinality(al)
  BY <1>1, <1>2, <1>3, <1>5, <1>6, <1>7
<1> QED BY <1>1, <1>10, <1>11, <1>12, <1>13

\* send() on a channel keeps its type.
LEMMA AppendType ==
  ASSUME NEW S, NEW s \in Seq(S), NEW x \in S PROVE Append(s, x) \in Seq(S)
OBVIOUS

\* push_batch keeps queue, rows, tail and shed in their types.
LEMMA PushBatchType ==
  ASSUME TypeOK, NEW B \in Batches(Events), PushBatch(B)
  PROVE  /\ queue' \in Batches(Events) /\ rows' \subseteq Events
         /\ tail' \in Nat /\ shed' \subseteq Events
<1> DEFINE new  == Repositioned(B, tail)
           both == queue \cup new
<1>1. new \in Batches(Events)
  BY RepositionedFacts DEF TypeOK
<1>2. both \in Batches(Events)
  BY <1>1, BatchesClosed DEF TypeOK
<1>3. PICK gone \in SUBSET both :
         /\ queue' = both \ gone
         /\ rows' = (rows \ Ids(gone \cap queue)) \cup Ids(new \ gone)
         /\ tail' = tail + Cardinality(B)
         /\ shed' = shed \cup Ids(gone)
  BY DEF PushBatch, Fronts
<1> HIDE DEF new, both
<1>4. queue' \in Batches(Events)
  BY <1>2, <1>3, BatchesClosed
<1>5. \A S \in SUBSET Entry(Events) : Ids(S) \subseteq Events
  BY DEF Ids, Entry
<1>6. Ids(gone) \subseteq Events /\ Ids(new \ gone) \subseteq Events
  BY <1>1, <1>2, <1>5, <1>3 DEF Batches
<1>7. tail' \in Nat
  BY <1>3, FS_CardinalityType DEF TypeOK, Batches
<1> QED BY <1>3, <1>4, <1>6, <1>7 DEF TypeOK

\* A process starts well typed, whatever the spool holds.
LEMMA TypeInit == Init => TypeOK
<1> SUFFICES ASSUME Init PROVE TypeOK
  OBVIOUS
<1>1. rows \subseteq Events /\ IsFiniteSet(rows) /\ Events \in SUBSET Nat
  BY EventsFinite DEF Init
<1>2. queue \in Batches(Events) /\ tail \in Nat
  <2>1. PICK al \in Alarms(Events \ rows) :
           queue = Loaded(al) /\ tail = N + 1 + Cardinality(al)
    BY DEF Init
  <2>2. al \in SUBSET Events /\ rows \in SUBSET Events
    BY <1>1 DEF Alarms
  <2> QED BY <2>1, <2>2, LoadedFacts
<1>3. {} \in Batches(Events) /\ IsFiniteSet({})
  BY FS_EmptySet DEF Batches
<1> QED BY <1>1, <1>2, <1>3, DeliveryAssumption
        DEF Init, TypeOK, PlaceOfSender

\* A sender that is about to put a batch on the channel, or has, holds a number.
Numbered == \A s \in Senders : pc[s] \in {"wire", "sent"} => seqOf[s] \in Seqs

\* in_flight.insert adds one entry.
LEMMA InsertType ==
  ASSUME TypeOK, Numbered, NEW s \in Senders, pc[s] = "sent"
  PROVE  Insert(s) \subseteq InFlight /\ IsFiniteSet(Insert(s))
<1> DEFINE x == [seq |-> seqOf[s], batch |-> batch[s], retries |-> 0]
<1>1. x \in InFlight
  BY DeliveryAssumption DEF TypeOK, Numbered, InFlight
<1> HIDE DEF x
<1>2. Insert(s) = inFlight \cup {x}
  BY DEF Insert, x
<1> QED BY <1>1, <1>2, FS_AddElement DEF TypeOK

\* What Connect and ConnectionLost leave of the ACKs is a sequence of ACKs.
LEMMA AcksSurviveType ==
  ASSUME acks \in Seq(Ack), AcksSurvive PROVE acks' \in Seq(Ack)
BY DEF AcksSurvive

\* Every step of the delivery path keeps the types.
LEMMA TypeNext == TypeOK /\ Numbered /\ [Next]_vars => TypeOK'
<1> SUFFICES ASSUME TypeOK, Numbered, [Next]_vars PROVE TypeOK'
  OBVIOUS
<1>a. {} \in Batches(Events) /\ Senders = Producers \cup Flushers
  BY FS_EmptySet DEF Batches, Senders
<1>b. \A E \in SUBSET Events : InTimeOrder(E) \in Batches(Events)
  BY EventsFinite, InTimeOrderFacts
<1>c. \A C : queue \ C \in Batches(Events)
  BY BatchesClosed DEF TypeOK
<1> USE DEF TypeOK, PlaceOfSender, senderVars, queueVars, connVars
<1>1. ASSUME NEW p \in Producers, NEW ev \in SUBSET pending, Produce(p, ev) PROVE TypeOK'
  BY <1>1, <1>a DEF Produce
<1>2. ASSUME NEW p \in Producers, TriagedOut(p) PROVE TypeOK'
  BY <1>2, <1>a DEF TriagedOut
<1>3. ASSUME NEW s \in Senders, NEW b \in Batches(Events), NEW q \in Seqs, Number(s, b, q)
      PROVE  TypeOK'
  BY <1>3, DeliveryAssumption DEF Number
<1>4. ASSUME NEW s \in Senders, WireSend(s) PROVE TypeOK'
  BY <1>4 DEF WireSend, Message, Numbered
<1>5. ASSUME NEW s \in Senders, Register(s) PROVE TypeOK'
  <2>1. inFlight' \subseteq InFlight /\ IsFiniteSet(inFlight')
    BY <1>5, InsertType DEF Register
  <2> QED BY <1>5, <1>a, <2>1 DEF Register
<1>6. ASSUME NEW p \in Producers, NEW inserted \in BOOLEAN, SendTimeout(p, inserted) PROVE TypeOK'
  <2>1. inFlight' \subseteq InFlight /\ IsFiniteSet(inFlight')
    BY <1>6, <1>a, InsertType DEF SendTimeout
  <2> QED BY <1>6, <1>a, <2>1 DEF SendTimeout
<1>7. ASSUME NEW p \in Producers, QueueLocally(p) PROVE TypeOK'
  <2>1. InTimeOrder(all[p]) \in Batches(Events) /\ PushBatch(InTimeOrder(all[p]))
    BY <1>7, <1>a, <1>b DEF QueueLocally
  <2>2. /\ queue' \in Batches(Events) /\ rows' \subseteq Events
        /\ tail' \in Nat /\ shed' \subseteq Events
    BY <2>1, PushBatchType
  <2> QED BY <1>7, <1>a, <2>2 DEF QueueLocally
<1>8. ASSUME NEW f \in Flushers, SyncFlush(f) PROVE TypeOK'
  BY <1>8, <1>a DEF SyncFlush, FlusherStep
<1>9. ASSUME NEW f \in Flushers, NEW cutoff \in Events, FlushExpire(f, cutoff) PROVE TypeOK'
  BY <1>9, <1>a, <1>c DEF FlushExpire, FlusherStep, Ids, Batches, Entry
<1>10. ASSUME NEW f \in Flushers, FlushGate(f) PROVE TypeOK'
  BY <1>10, <1>a DEF FlushGate, FlusherStep
<1>11. ASSUME NEW f \in Flushers, FlushPeek(f) PROVE TypeOK'
  BY <1>11, <1>a, FS_Subset DEF FlushPeek, FlusherStep, Take, Fronts, Batches
<1>12. ASSUME NEW f \in Flushers, FlushConfirmSent(f) PROVE TypeOK'
  BY <1>12, <1>a, <1>c DEF FlushConfirmSent, FlusherStep, Confirm
<1>13. ASSUME NEW f \in Flushers, FlushContinue(f) PROVE TypeOK'
  BY <1>13, <1>a DEF FlushContinue, FlusherStep
<1>14. ASSUME NEW f \in Flushers, FlushFinish(f) PROVE TypeOK'
  BY <1>14, <1>a DEF FlushFinish, FlusherStep
<1>15. ASSUME NEW F \in SUBSET Flushers, Connect(F) PROVE TypeOK'
  BY <1>15, <1>a, AcksSurviveType DEF Connect
<1>16. ASSUME ConnectionLost PROVE TypeOK'
  BY <1>16, AcksSurviveType DEF ConnectionLost
<1>17. ASSUME NEW c \in 0..N, NEW answered \in BOOLEAN, Deliver(c, answered) PROVE TypeOK'
  <2> DEFINE m == Head(outgoing)
  <2>1. m \in Message /\ outgoing' \in Seq(Message)
    BY <1>17 DEF Deliver
  <2>2. PICK took \in Fronts(m.batch, c) : received' = received \cup Ids(took)
    BY <1>17 DEF Deliver
  <2>3. Ids(took) \subseteq Events
    BY <2>1, <2>2, FrontsInside DEF Message, Batches, Entry, Ids
  <2>4. [seq |-> m.seq, count |-> c, of |-> m.batch] \in Ack
    BY <2>1, DeliveryAssumption DEF Message, Ack
  <2>5. acks' \in Seq(Ack)
    <3> DEFINE a == [seq |-> m.seq, count |-> c, of |-> m.batch]
    <3>1. acks' = acks \/ acks' = Append(acks, a)
      BY <1>17 DEF Deliver
    <3>2. a \in Ack
      BY <2>4
    <3>3. acks \in Seq(Ack)
      OBVIOUS
    <3> HIDE DEF a, TypeOK
    <3> QED BY <3>1, <3>2, <3>3, AppendType
  <2> QED BY <1>17, <2>1, <2>2, <2>3, <2>5 DEF Deliver
<1>18. ASSUME LoseMessage PROVE TypeOK'
  BY <1>18 DEF LoseMessage
<1>19. ASSUME ProcessAck PROVE TypeOK'
  <2>1. acks' \in Seq(Ack)
    BY <1>19 DEF ProcessAck
  <2>2. inFlight' \subseteq inFlight /\ IsFiniteSet(inFlight')
    <3>1. inFlight' \in SUBSET inFlight
      BY <1>19 DEF ProcessAck
    <3> QED BY <3>1, FS_Subset
  <2>3. /\ queue' \in Batches(Events) /\ rows' \subseteq Events
        /\ tail' \in Nat /\ shed' \subseteq Events
    BY <1>19, <1>c DEF ProcessAck, Confirm
  <2> QED BY <1>19, <2>1, <2>2, <2>3 DEF ProcessAck
<1>20. ASSUME NEW late \in SUBSET inFlight, ScanStart(late) PROVE TypeOK'
  BY <1>20 DEF ScanStart
<1>21. ASSUME NEW f \in scan, ScanDrop(f) PROVE TypeOK'
  BY <1>21, FS_Subset DEF ScanDrop
<1>22. ASSUME NEW f \in scan, ScanResend(f) PROVE TypeOK'
  <2> DEFINE up == [g \in inFlight |->
                      IF g.seq = f.seq THEN [g EXCEPT !.retries = f.retries + 1] ELSE g]
  <2>1. f \in InFlight /\ f.retries + 1 \in 0..MaxRetries
    BY <1>22, DeliveryAssumption DEF ScanResend, InFlight
  <2>2. \A g \in inFlight : up[g] \in InFlight
    BY <2>1 DEF InFlight
  <2>3. inFlight' = {up[g] : g \in inFlight}
    BY <1>22 DEF ScanResend
  <2>4. up = [g \in inFlight |-> up[g]]
    OBVIOUS
  <2>5. [seq |-> f.seq, batch |-> f.batch] \in Message
    BY <2>1 DEF InFlight, Message
  <2>6. outgoing' \in Seq(Message)
    BY <1>22, <2>5 DEF ScanResend
  <2> HIDE DEF up
  <2>7. inFlight' \subseteq InFlight /\ IsFiniteSet(inFlight')
    BY <2>2, <2>3, <2>4, ImageBound
  <2> QED BY <1>22, <2>6, <2>7 DEF ScanResend
<1>23. ASSUME DisconnectBegin PROVE TypeOK'
  BY <1>23 DEF DisconnectBegin
<1>24. ASSUME NEW f \in inFlight, DisconnectRequeue(f) PROVE TypeOK'
  <2>1. f.batch \in Batches(Events) /\ PushBatch(f.batch)
    BY <1>24 DEF DisconnectRequeue, InFlight
  <2>2. /\ queue' \in Batches(Events) /\ rows' \subseteq Events
        /\ tail' \in Nat /\ shed' \subseteq Events
    BY <2>1, PushBatchType
  <2> QED BY <1>24, <2>2, FS_RemoveElement DEF DisconnectRequeue
<1>25. ASSUME DisconnectEnd PROVE TypeOK'
  BY <1>25 DEF DisconnectEnd
<1>26. ASSUME Restart PROVE TypeOK'
  <2>1. PICK al \in Alarms(pending) :
           /\ queue' = Loaded(al) /\ tail' = N + 1 + Cardinality(al)
           /\ pending' = pending \ al
    BY <1>26 DEF Restart
  <2>2. al \in SUBSET Events /\ rows \in SUBSET Events
    BY DEF Alarms
  <2>3. queue' \in Batches(Events) /\ tail' \in Nat
    BY <2>1, <2>2, LoadedFacts
  <2> QED BY <1>26, <1>a, <2>1, <2>3, FS_EmptySet, DeliveryAssumption DEF Restart
<1>27. CASE UNCHANGED vars
  BY <1>27 DEF vars
<1>28. ASSUME NEW p \in Producers, ProducerNext(p) PROVE TypeOK'
  <2>1. ASSUME NEW kept \in SUBSET all[p], NEW q \in Seqs, NumberKept(p, kept, q)
        PROVE  TypeOK'
    BY <1>3, <1>a, <1>b, <2>1 DEF NumberKept
  <2> QED BY <1>1, <1>2, <1>4, <1>5, <1>6, <1>7, <1>28, <1>a, <2>1 DEF ProducerNext
<1>29. ASSUME NEW f \in Flushers, FlusherNext(f) PROVE TypeOK'
  <2>1. ASSUME NEW q \in Seqs, NumberPeeked(f, q) PROVE TypeOK'
    BY <1>3, <1>a, <2>1 DEF NumberPeeked
  <2> QED BY <1>4, <1>5, <1>8, <1>9, <1>10, <1>11, <1>12, <1>13, <1>14, <1>29, <1>a, <2>1
          DEF FlusherNext
<1> HIDE DEF TypeOK
<1> QED BY <1>15, <1>16, <1>17, <1>18, <1>19, <1>20, <1>21, <1>22, <1>23, <1>24, <1>25,
           <1>26, <1>27, <1>28, <1>29
        DEF Next, ConnectionNext, AckProcessorNext, ProcessNext

-----------------------------------------------------------------------------
(* What the action property SpooledUntilAccepted needs of every state.     *)

\* Everything alive that carries a sequence number, with the batch it stands for.
Copies ==
    {<<m.seq, m.batch>> : m \in Elems(outgoing)}
      \cup {<<a.seq, a.of>> : a \in Elems(acks)}
      \cup {<<f.seq, f.batch>> : f \in inFlight \cup scan}
      \cup {<<seqOf[s], batch[s]>> : s \in {t \in Senders : pc[t] \in {"wire", "sent"}}}

\* A sequence number stands for one batch, wherever it is met.
Agreement == \A x, y \in Copies : x[1] = y[1] => x[2] = y[2]

\* The server has accepted what an ACK under way says it has.
AcksTruthful ==
    \A a \in Elems(acks) : \E took \in Fronts(a.of, a.count) : Ids(took) \subseteq received

\* confirm_sent is out of use while ACKs are tracked.
NoBlindConfirm == \A s \in Senders : pc[s] # "confirm"

\* What a channel holds after a send, after a receive, and when cut short.
LEMMA ElemsFacts ==
  ASSUME NEW S, NEW s \in Seq(S)
  PROVE  /\ \A x \in S : Elems(Append(s, x)) = Elems(s) \cup {x}
         /\ s # <<>> => Head(s) \in Elems(s) /\ Elems(Tail(s)) \subseteq Elems(s)
         /\ \A k \in 0..Len(s) : Elems(SubSeq(s, 1, k)) \subseteq Elems(s)
         /\ Elems(<<>>) = {}
         /\ Elems(s) \subseteq S
<1>1. ASSUME NEW x \in S PROVE Elems(Append(s, x)) = Elems(s) \cup {x}
  <2>1. DOMAIN Append(s, x) = 1..(Len(s) + 1) /\ DOMAIN s = 1..Len(s) /\ Len(s) \in Nat
    OBVIOUS
  <2>2. \A i \in 1..Len(s) : Append(s, x)[i] = s[i]
    OBVIOUS
  <2>3. Append(s, x)[Len(s) + 1] = x
    OBVIOUS
  <2>4. Elems(Append(s, x)) \subseteq Elems(s) \cup {x}
    BY <2>1, <2>2, <2>3 DEF Elems
  <2>5. Elems(s) \cup {x} \subseteq Elems(Append(s, x))
    BY <2>1, <2>2, <2>3 DEF Elems
  <2> QED BY <2>4, <2>5
<1>2. s # <<>> => Head(s) \in Elems(s) /\ Elems(Tail(s)) \subseteq Elems(s)
  BY DEF Elems
<1>3. \A k \in 0..Len(s) : Elems(SubSeq(s, 1, k)) \subseteq Elems(s)
  BY DEF Elems
<1>4. Elems(<<>>) = {} /\ Elems(s) \subseteq S
  BY DEF Elems
<1> QED BY <1>1, <1>2, <1>3, <1>4

\* Steps that only forget carriers of a number, or move a batch into `scan`.
LEMMA CopiesShrink ==
  ASSUME Elems(outgoing') \subseteq Elems(outgoing), Elems(acks') \subseteq Elems(acks),
         inFlight' \subseteq inFlight, scan' \subseteq scan \cup inFlight,
         \A s \in Senders : pc'[s] \in {"wire", "sent"} =>
            pc[s] \in {"wire", "sent"} /\ seqOf'[s] = seqOf[s] /\ batch'[s] = batch[s]
  PROVE  Copies' \subseteq Copies
<1>1. \A m \in Elems(outgoing') : <<m.seq, m.batch>> \in Copies
  BY DEF Copies
<1>2. \A a \in Elems(acks') : <<a.seq, a.of>> \in Copies
  BY DEF Copies
<1>3. \A f \in inFlight' \cup scan' : <<f.seq, f.batch>> \in Copies
  BY DEF Copies
<1>4. \A s \in Senders : pc'[s] \in {"wire", "sent"} => <<seqOf'[s], batch'[s]>> \in Copies
  BY DEF Copies
<1> QED BY <1>1, <1>2, <1>3, <1>4 DEF Copies

\* Numbers of carriers are in use.
LEMMA CopiesUsed == \A x \in Copies : x[1] \in Used
BY DEF Copies, Used

\* No step gives a number in use to a second batch.
LEMMA AgreementNext == TypeOK /\ Numbered /\ Agreement /\ [Next]_vars => Agreement'
<1> SUFFICES ASSUME TypeOK, Numbered, Agreement, [Next]_vars PROVE Agreement'
  OBVIOUS
<1>0. Copies' \subseteq Copies => Agreement'
  BY DEF Agreement
<1>a. Senders = Producers \cup Flushers
  BY DEF Senders
<1>b. outgoing \in Seq(Message) /\ acks \in Seq(Ack)
  BY DEF TypeOK
<1>c. /\ outgoing # <<>> => Head(outgoing) \in Elems(outgoing)
                             /\ Elems(Tail(outgoing)) \subseteq Elems(outgoing)
      /\ acks # <<>> => Elems(Tail(acks)) \subseteq Elems(acks)
      /\ \A k \in 0..Len(acks) : Elems(SubSeq(acks, 1, k)) \subseteq Elems(acks)
  BY <1>b, ElemsFacts
<1>d. pc \in [Senders -> PlaceOfSender] /\ seqOf \in [Senders -> Seqs \cup {NoSeq}]
      /\ batch \in [Senders -> Batches(Events)]
  BY DEF TypeOK
<1> USE DEF senderVars, queueVars, connVars
<1>1. ASSUME NEW p \in Producers, NEW ev \in SUBSET pending, Produce(p, ev)
      PROVE  Copies' \subseteq Copies
  BY <1>1, <1>a, <1>d, CopiesShrink DEF Produce
<1>2. ASSUME NEW p \in Producers, TriagedOut(p) PROVE Copies' \subseteq Copies
  BY <1>2, <1>a, <1>d, CopiesShrink DEF TriagedOut
<1>3. ASSUME NEW s \in Senders, NEW b \in Batches(Events), NEW q \in Seqs, Number(s, b, q)
      PROVE  Agreement'
  <2>1. Copies' \subseteq Copies \cup {<<q, b>>}
    BY <1>3, <1>d DEF Number, Copies
  <2>2. \A x \in Copies : x[1] # q
    BY <1>3, CopiesUsed DEF Number
  <2> QED BY <2>1, <2>2 DEF Agreement
<1>4. ASSUME NEW s \in Senders, WireSend(s) PROVE Copies' \subseteq Copies
  <2> DEFINE m == [seq |-> seqOf[s], batch |-> batch[s]]
  <2>1. m \in Message /\ <<seqOf[s], batch[s]>> \in Copies
    BY <1>4, <1>d DEF WireSend, Message, Numbered, Copies
  <2>2. Elems(outgoing') = Elems(outgoing) \cup {m}
    BY <1>4, <1>b, <2>1, ElemsFacts DEF WireSend
  <2> QED BY <1>4, <1>d, <2>1, <2>2 DEF WireSend, Copies
<1>5. ASSUME NEW s \in Senders, Register(s) PROVE Copies' \subseteq Copies
  <2>1. <<seqOf[s], batch[s]>> \in Copies
    BY <1>5 DEF Register, Copies
  <2> QED BY <1>5, <1>d, <2>1 DEF Register, Insert, Copies
<1>6. ASSUME NEW p \in Producers, NEW inserted \in BOOLEAN, SendTimeout(p, inserted)
      PROVE  Copies' \subseteq Copies
  <2>1. inserted => <<seqOf[p], batch[p]>> \in Copies
    BY <1>6, <1>a DEF SendTimeout, Copies
  <2> QED BY <1>6, <1>a, <1>d, <2>1 DEF SendTimeout, Insert, Copies
<1>7. ASSUME NEW p \in Producers, QueueLocally(p) PROVE Copies' \subseteq Copies
  BY <1>7, <1>a, <1>d, CopiesShrink DEF QueueLocally
<1>8. ASSUME NEW f \in Flushers, SyncFlush(f) PROVE Copies' \subseteq Copies
  BY <1>8, <1>a, <1>d, CopiesShrink DEF SyncFlush, FlusherStep
<1>9. ASSUME NEW f \in Flushers, NEW cutoff \in Events, FlushExpire(f, cutoff)
      PROVE  Copies' \subseteq Copies
  BY <1>9, <1>a, <1>d, CopiesShrink DEF FlushExpire, FlusherStep
<1>10. ASSUME NEW f \in Flushers, FlushGate(f) PROVE Copies' \subseteq Copies
  BY <1>10, <1>a, <1>d, CopiesShrink DEF FlushGate, FlusherStep
<1>11. ASSUME NEW f \in Flushers, FlushPeek(f) PROVE Copies' \subseteq Copies
  BY <1>11, <1>a, <1>d, CopiesShrink DEF FlushPeek, FlusherStep
<1>12. ASSUME NEW f \in Flushers, FlushConfirmSent(f) PROVE Copies' \subseteq Copies
  BY <1>12, <1>a, <1>d, CopiesShrink DEF FlushConfirmSent, FlusherStep
<1>13. ASSUME NEW f \in Flushers, FlushContinue(f) PROVE Copies' \subseteq Copies
  BY <1>13, <1>a, <1>d, CopiesShrink DEF FlushContinue, FlusherStep
<1>14. ASSUME NEW f \in Flushers, FlushFinish(f) PROVE Copies' \subseteq Copies
  BY <1>14, <1>a, <1>d, CopiesShrink DEF FlushFinish, FlusherStep
<1>15. ASSUME NEW F \in SUBSET Flushers, Connect(F) PROVE Copies' \subseteq Copies
  <2>1. Elems(acks') \subseteq Elems(acks)
    BY <1>15, <1>c DEF Connect, AcksSurvive
  <2> QED BY <1>15, <1>a, <1>d, <2>1, CopiesShrink DEF Connect
<1>16. ASSUME ConnectionLost PROVE Copies' \subseteq Copies
  BY <1>16, <1>c, CopiesShrink DEF ConnectionLost, AcksSurvive
<1>17. ASSUME NEW c \in 0..N, NEW answered \in BOOLEAN, Deliver(c, answered)
       PROVE  Copies' \subseteq Copies
  <2> DEFINE m == Head(outgoing)
             a == [seq |-> m.seq, count |-> c, of |-> m.batch]
  <2>1. m \in Message /\ m \in Elems(outgoing) /\ <<m.seq, m.batch>> \in Copies
    BY <1>17, <1>b, <1>c DEF Deliver, Copies
  <2>2. a \in Ack
    BY <2>1, DeliveryAssumption DEF Message, Ack
  <2>3. Elems(acks') \subseteq Elems(acks) \cup {a}
    <3>1. acks' = acks \/ acks' = Append(acks, a)
      BY <1>17 DEF Deliver
    <3> HIDE DEF a
    <3> QED BY ZenonT(60), <1>b, <2>2, <3>1, ElemsFacts
  <2>4. Elems(outgoing') \subseteq Elems(outgoing)
    BY <1>17, <1>c DEF Deliver
  <2>5. \A x \in Elems(acks') : <<x.seq, x.of>> \in Copies
    BY <2>1, <2>3 DEF Copies
  <2>6. UNCHANGED <<inFlight, scan, senderVars>>
    BY <1>17 DEF Deliver
  <2> QED BY <2>4, <2>5, <2>6 DEF Copies
<1>18. ASSUME LoseMessage PROVE Copies' \subseteq Copies
  BY <1>18, <1>c, CopiesShrink DEF LoseMessage
<1>19. ASSUME ProcessAck PROVE Copies' \subseteq Copies
  <2>1. inFlight' \subseteq inFlight /\ Elems(acks') \subseteq Elems(acks)
    BY <1>19, <1>c DEF ProcessAck
  <2> QED BY <1>19, <2>1, CopiesShrink DEF ProcessAck
<1>20. ASSUME NEW late \in SUBSET inFlight, ScanStart(late) PROVE Copies' \subseteq Copies
  BY <1>20, CopiesShrink DEF ScanStart
<1>21. ASSUME NEW f \in scan, ScanDrop(f) PROVE Copies' \subseteq Copies
  BY <1>21, CopiesShrink DEF ScanDrop
<1>22. ASSUME NEW f \in scan, ScanResend(f) PROVE Copies' \subseteq Copies
  <2> DEFINE m == [seq |-> f.seq, batch |-> f.batch]
  <2>1. m \in Message /\ <<f.seq, f.batch>> \in Copies
    BY DEF TypeOK, InFlight, Message, Copies
  <2>2. Elems(outgoing') = Elems(outgoing) \cup {m}
    BY <1>22, <1>b, <2>1, ElemsFacts DEF ScanResend
  <2>3. \A x \in Elems(outgoing') : <<x.seq, x.batch>> \in Copies
    BY <2>1, <2>2 DEF Copies
  <2>4. \A g \in inFlight' : \E h \in inFlight : g.seq = h.seq /\ g.batch = h.batch
    BY <1>22 DEF ScanResend, TypeOK, InFlight
  <2>5. \A g \in inFlight' \cup scan' : <<g.seq, g.batch>> \in Copies
    BY <1>22, <2>4 DEF ScanResend, Copies
  <2>6. UNCHANGED <<acks, senderVars>>
    BY <1>22 DEF ScanResend
  <2> QED BY <2>3, <2>5, <2>6 DEF Copies
<1>23. ASSUME DisconnectBegin PROVE Copies' \subseteq Copies
  BY <1>23, CopiesShrink DEF DisconnectBegin
<1>24. ASSUME NEW f \in inFlight, DisconnectRequeue(f) PROVE Copies' \subseteq Copies
  BY <1>24, CopiesShrink DEF DisconnectRequeue
<1>25. ASSUME DisconnectEnd PROVE Copies' \subseteq Copies
  BY <1>25, CopiesShrink DEF DisconnectEnd
<1>26. ASSUME Restart PROVE Copies' \subseteq Copies
  BY <1>26, CopiesShrink DEF Restart, Elems
<1>27. ASSUME UNCHANGED vars PROVE Copies' \subseteq Copies
  BY <1>27, CopiesShrink DEF vars
<1>28. ASSUME NEW p \in Producers, ProducerNext(p) PROVE Agreement'
  <2>1. ASSUME NEW kept \in SUBSET all[p], NEW q \in Seqs, NumberKept(p, kept, q)
        PROVE  Agreement'
    <3>1. InTimeOrder(kept) \in Batches(Events)
      BY <1>a, EventsFinite, InTimeOrderFacts DEF TypeOK
    <3> QED BY <1>3, <1>a, <2>1, <3>1 DEF NumberKept
  <2> QED BY <1>0, <1>1, <1>2, <1>4, <1>5, <1>6, <1>7, <1>28, <1>a, <2>1 DEF ProducerNext
<1>29. ASSUME NEW f \in Flushers, FlusherNext(f) PROVE Agreement'
  <2>1. ASSUME NEW q \in Seqs, NumberPeeked(f, q) PROVE Agreement'
    BY <1>3, <1>a, <1>d, <2>1 DEF NumberPeeked
  <2> QED BY <1>0, <1>4, <1>5, <1>8, <1>9, <1>10, <1>11, <1>12, <1>13, <1>14, <1>29, <1>a,
             <2>1 DEF FlusherNext
<1> QED BY <1>0, <1>15, <1>16, <1>17, <1>18, <1>19, <1>20, <1>21, <1>22, <1>23, <1>24,
           <1>25, <1>26, <1>27, <1>28, <1>29
        DEF Next, ConnectionNext, AckProcessorNext, ProcessNext

\* A sender takes a number before it reaches the channel, and never loses it
\* there; with ACK tracking no flush task ever reaches confirm_sent.
LEMMA PlacesNext ==
  ASSUME TypeOK, [Next]_vars
  PROVE  /\ Numbered => Numbered'
         /\ AckTracking /\ NoBlindConfirm => NoBlindConfirm'
<1>a. Senders = Producers \cup Flushers
  BY DEF Senders
<1>d. pc \in [Senders -> PlaceOfSender] /\ seqOf \in [Senders -> Seqs \cup {NoSeq}]
  BY DEF TypeOK
<1> DEFINE Goal == /\ Numbered => Numbered'
                   /\ AckTracking /\ NoBlindConfirm => NoBlindConfirm'
<1>0. UNCHANGED <<pc, seqOf>> => Goal
  BY DEF Numbered, NoBlindConfirm
<1>1. ASSUME NEW s \in Senders, NEW to,
             pc' = [pc EXCEPT ![s] = to], to \notin {"wire", "sent", "confirm"},
             \A t \in Senders \ {s} : seqOf'[t] = seqOf[t]
      PROVE  Goal
  BY <1>1, <1>d DEF Numbered, NoBlindConfirm
<1>2. ASSUME NEW s \in Senders, NEW b, NEW q \in Seqs, Number(s, b, q) PROVE Goal
  BY <1>2, <1>d DEF Number, Numbered, NoBlindConfirm
<1>3. ASSUME NEW s \in Senders, WireSend(s) PROVE Goal
  BY <1>3, <1>d DEF WireSend, Numbered, NoBlindConfirm
<1>4. ASSUME NEW s \in Senders, Register(s) PROVE Goal
  BY <1>4, <1>d DEF Register, Numbered, NoBlindConfirm
<1>5. ASSUME NEW F \in SUBSET Flushers, Connect(F) PROVE Goal
  BY <1>5, <1>d DEF Connect, Numbered, NoBlindConfirm
<1>6. ASSUME Restart PROVE Goal
  BY <1>6 DEF Restart, Numbered, NoBlindConfirm
<1>7. ASSUME NEW p \in Producers, ProducerNext(p) PROVE Goal
  <2>1. ASSUME NEW ev \in SUBSET pending, Produce(p, ev) PROVE Goal
    BY <1>a, <1>1, <2>1 DEF Produce
  <2>2. ASSUME TriagedOut(p) PROVE Goal
    BY <1>a, <1>1, <2>2 DEF TriagedOut
  <2>3. ASSUME NEW inserted \in BOOLEAN, SendTimeout(p, inserted) PROVE Goal
    BY <1>a, <1>d, <1>1, <2>3 DEF SendTimeout
  <2>4. ASSUME QueueLocally(p) PROVE Goal
    BY <1>a, <1>1, <2>4 DEF QueueLocally
  <2> HIDE DEF Goal
  <2> QED BY <1>2, <1>3, <1>4, <1>7, <1>a, <2>1, <2>2, <2>3, <2>4
          DEF ProducerNext, NumberKept
<1>8. ASSUME NEW f \in Flushers, FlusherNext(f) PROVE Goal
  <2>1. ASSUME SyncFlush(f) PROVE Goal
    BY <1>a, <1>1, <2>1 DEF SyncFlush, FlusherStep
  <2>2. ASSUME NEW cutoff \in Events, FlushExpire(f, cutoff) PROVE Goal
    BY <1>a, <1>1, <2>2 DEF FlushExpire, FlusherStep
  <2>3. ASSUME FlushGate(f) PROVE Goal
    BY <1>a, <1>1, <2>3 DEF FlushGate, FlusherStep
  <2>4. ASSUME FlushPeek(f) PROVE Goal
    BY <1>a, <1>1, <2>4 DEF FlushPeek, FlusherStep
  <2>5. ASSUME FlushConfirmSent(f) PROVE Goal
    BY <1>a, <1>1, <2>5 DEF FlushConfirmSent, FlusherStep
  <2>6. ASSUME FlushContinue(f) PROVE Goal
    BY <1>a, <1>1, <2>6 DEF FlushContinue, FlusherStep
  <2>7. ASSUME FlushFinish(f) PROVE Goal
    BY <1>a, <1>1, <2>7 DEF FlushFinish, FlusherStep
  <2> HIDE DEF Goal
  <2> QED BY <1>2, <1>3, <1>4, <1>8, <1>a, <2>1, <2>2, <2>3, <2>4, <2>5, <2>6, <2>7
          DEF FlusherNext, NumberPeeked
<1>9. ASSUME ConnectionNext PROVE Goal
  <2> HIDE DEF Goal
  <2> QED BY <1>0, <1>5, <1>9
          DEF ConnectionNext, ConnectionLost, Deliver, LoseMessage, senderVars
<1>10. ASSUME AckProcessorNext PROVE Goal
  <2> HIDE DEF Goal
  <2> QED BY <1>0, <1>10
          DEF AckProcessorNext, ProcessAck, ScanStart, ScanDrop, ScanResend, senderVars
<1>11. ASSUME ProcessNext PROVE Goal
  <2> HIDE DEF Goal
  <2> QED BY <1>0, <1>6, <1>11
          DEF ProcessNext, DisconnectBegin, DisconnectRequeue, DisconnectEnd, senderVars
<1>12. ASSUME UNCHANGED vars PROVE Goal
  BY <1>0, <1>12 DEF vars, senderVars
<1> HIDE DEF Goal
<1>13. Goal
  BY <1>7, <1>8, <1>9, <1>10, <1>11, <1>12 DEF Next
<1> QED BY <1>13 DEF Goal

\* Only these steps touch the queue, its spool or the record of what was shed;
\* the server never takes an acceptance back.
LEMMA QueueSteps ==
  ASSUME TypeOK, [Next]_vars
  PROVE  /\ \/ UNCHANGED <<queue, rows, shed>>
            \/ \E B \in Batches(Events) : PushBatch(B)
            \/ \E f \in Flushers, cutoff \in Events : FlushExpire(f, cutoff)
            \/ \E f \in Flushers : FlushConfirmSent(f)
            \/ \E f \in Flushers : FlushFinish(f)
            \/ ProcessAck
            \/ Restart
         /\ received \subseteq received'
<1> DEFINE Touch == \/ UNCHANGED <<queue, rows, shed>>
                    \/ \E B \in Batches(Events) : PushBatch(B)
                    \/ \E f \in Flushers, cutoff \in Events : FlushExpire(f, cutoff)
                    \/ \E f \in Flushers : FlushConfirmSent(f)
                    \/ \E f \in Flushers : FlushFinish(f)
                    \/ ProcessAck
                    \/ Restart
           Goal == Touch /\ received \subseteq received'
<1>a. Senders = Producers \cup Flushers
  BY DEF Senders
<1>0. UNCHANGED <<queueVars, received>> => Goal
  BY DEF queueVars
<1>1. ASSUME NEW p \in Producers, ProducerNext(p) PROVE Goal
  <2>1. ASSUME QueueLocally(p) PROVE Goal
    <3>1. InTimeOrder(all[p]) \in Batches(Events)
      BY <1>a, EventsFinite, InTimeOrderFacts DEF TypeOK
    <3> QED BY <2>1, <3>1 DEF QueueLocally
  <2> HIDE DEF Goal
  <2> QED BY <1>0, <1>1, <2>1
          DEF ProducerNext, Produce, TriagedOut, NumberKept, Number, WireSend, Register,
              SendTimeout
<1>2. ASSUME NEW f \in Flushers, FlusherNext(f) PROVE Goal
  <2>1. ASSUME NEW cutoff \in Events, FlushExpire(f, cutoff) PROVE Goal
    <3>1. UNCHANGED received
      BY <2>1 DEF FlushExpire
    <3> QED BY <2>1, <3>1
  <2>2. ASSUME FlushConfirmSent(f) PROVE Goal
    <3>1. UNCHANGED received
      BY <2>2 DEF FlushConfirmSent
    <3> QED BY <2>2, <3>1
  <2>3. ASSUME FlushFinish(f) PROVE Goal
    <3>1. UNCHANGED received
      BY <2>3 DEF FlushFinish
    <3> QED BY <2>3, <3>1
  <2> HIDE DEF Goal
  <2> QED BY <1>0, <1>2, <2>1, <2>2, <2>3
          DEF FlusherNext, SyncFlush, FlushGate, FlushPeek, NumberPeeked, Number, WireSend,
              Register, FlushContinue
<1>3. ASSUME ConnectionNext PROVE Goal
  BY <1>3 DEF ConnectionNext, Connect, ConnectionLost, Deliver, LoseMessage, queueVars
<1>4. ASSUME AckProcessorNext PROVE Goal
  <2>1. ASSUME ProcessAck PROVE Goal
    <3>1. UNCHANGED received
      BY <2>1 DEF ProcessAck
    <3> QED BY <2>1, <3>1
  <2> HIDE DEF Goal
  <2> QED BY <1>0, <1>4, <2>1 DEF AckProcessorNext, ScanStart, ScanDrop, ScanResend
<1>5. ASSUME ProcessNext PROVE Goal
  <2>1. ASSUME NEW f \in inFlight, DisconnectRequeue(f) PROVE Goal
    <3>1. f.batch \in Batches(Events) /\ UNCHANGED received
      BY <2>1 DEF DisconnectRequeue, TypeOK, InFlight
    <3> QED BY <2>1, <3>1 DEF DisconnectRequeue
  <2>2. ASSUME Restart PROVE Goal
    <3>1. UNCHANGED received
      BY <2>2 DEF Restart
    <3> QED BY <2>2, <3>1
  <2> HIDE DEF Goal
  <2> QED BY <1>0, <1>5, <2>1, <2>2 DEF ProcessNext, DisconnectBegin, DisconnectEnd
<1>6. ASSUME UNCHANGED vars PROVE Goal
  BY <1>0, <1>6 DEF vars
<1> HIDE DEF Goal
<1>7. Goal
  BY <1>1, <1>2, <1>3, <1>4, <1>5, <1>6 DEF Next
<1> QED BY <1>7 DEF Goal

\* push_batch keeps every row in memory, sheds only what it reports, and
\* leaves at most max_size entries, in memory and on disk.
LEMMA PushBatchFacts ==
  ASSUME TypeOK, RowsInQueue, NEW B \in Batches(Events), PushBatch(B)
  PROVE  /\ RowsInQueue'
         /\ \A e \in rows \ rows' : e \in shed'
         /\ QueueBound'
<1> DEFINE new  == Repositioned(B, tail)
           both == queue \cup new
           over == Cardinality(queue) + Cardinality(B)
           k    == IF over > MaxQueue THEN over - MaxQueue ELSE 0
<1>1. PICK gone \in Fronts(both, k) :
         /\ queue' = both \ gone
         /\ rows' = (rows \ Ids(gone \cap queue)) \cup Ids(new \ gone)
         /\ shed' = shed \cup Ids(gone)
  BY DEF PushBatch
<1>2. /\ new \in Batches(Events) /\ queue \in Batches(Events)
      /\ Cardinality(new) <= Cardinality(B)
  BY RepositionedFacts DEF TypeOK
<1>3. gone \subseteq both /\ Cardinality(gone) = k
  BY <1>1 DEF Fronts
<1> HIDE DEF new
<1>4. RowsInQueue'
  <2>1. Ids(new \ gone) \subseteq Ids(queue')
    BY <1>1 DEF Ids
  <2>2. rows \ Ids(gone \cap queue) \subseteq Ids(queue')
    BY <1>1 DEF Ids, RowsInQueue
  <2> QED BY <1>1, <2>1, <2>2 DEF RowsInQueue
<1>5. \A e \in rows \ rows' : e \in shed'
  BY <1>1 DEF Ids
<1>6. QueueBound'
  <2>1. IsFiniteSet(queue) /\ IsFiniteSet(new) /\ IsFiniteSet(B)
    BY <1>2 DEF Batches
  <2>2. /\ Cardinality(queue) \in Nat /\ Cardinality(new) \in Nat /\ Cardinality(B) \in Nat
    BY <2>1, FS_CardinalityType
  <2>3. IsFiniteSet(both) /\ Cardinality(both) <= Cardinality(queue) + Cardinality(new)
    <3>1. IsFiniteSet(queue \cap new) /\ Cardinality(queue \cap new) \in Nat
      BY <2>1, FS_Intersection, FS_CardinalityType
    <3>2. /\ IsFiniteSet(queue \cup new)
          /\ Cardinality(queue \cup new) =
                Cardinality(queue) + Cardinality(new) - Cardinality(queue \cap new)
      BY <2>1, FS_Union, Zenon
    <3> QED BY <2>2, <3>1, <3>2
  <2>4. IsFiniteSet(gone) /\ both \cap gone = gone
    BY <1>3, <2>3, FS_Subset
  <2>5. Cardinality(both \ gone) = Cardinality(both) - k
    <3> HIDE DEF both, k
    <3>1. Cardinality(both \ gone) = Cardinality(both) - Cardinality(both \cap gone)
      BY <2>3, FS_Difference, Zenon
    <3> QED BY <1>3, <2>4, <3>1
  <2>6. Cardinality(both) \in Nat
    BY <2>3, FS_CardinalityType
  <2>7. Cardinality(both) - k <= MaxQueue
    <3> HIDE DEF both
    <3> QED BY <1>2, <2>2, <2>3, <2>6, DeliveryAssumption
  <2>8. queue' = both \ gone /\ IsFiniteSet(queue') /\ Cardinality(queue') \in Nat
    <3>1. queue' = both \ gone
      BY <1>1
    <3> HIDE DEF both
    <3>2. queue' \in SUBSET both
      BY <3>1
    <3> QED BY <2>3, <3>1, <3>2, FS_Subset, FS_CardinalityType
  <2>9. Cardinality(queue') <= MaxQueue
    BY <2>5, <2>7, <2>8
  <2>10. queue' \in Batches(Events)
    <3>1. both \in Batches(Events)
      BY <1>2, BatchesClosed
    <3> HIDE DEF both
    <3> QED BY <2>8, <3>1, BatchesClosed
  <2>11. IsFiniteSet(Ids(queue')) /\ Cardinality(Ids(queue')) <= Cardinality(queue')
    BY <2>10, IdsBound
  <2>12. rows' \in SUBSET Ids(queue')
    BY <1>4 DEF RowsInQueue
  <2>13. IsFiniteSet(rows') /\ Cardinality(rows') <= Cardinality(Ids(queue'))
    BY <2>11, <2>12, FS_Subset
  <2>14. /\ Cardinality(rows') \in Nat /\ Cardinality(Ids(queue')) \in Nat
         /\ MaxQueue \in Nat /\ LoadAlarms \in Nat
    BY <2>11, <2>13, FS_CardinalityType, DeliveryAssumption
  <2> HIDE DEF both, k, over
  <2>15. Cardinality(rows') <= MaxQueue /\ Cardinality(queue') <= MaxQueue + LoadAlarms
    BY <2>8, <2>9, <2>11, <2>13, <2>14
  <2> QED BY <2>15 DEF QueueBound
<1> QED BY <1>4, <1>5, <1>6

\* The queue's own invariants survive every step.
LEMMA QueueNext ==
  ASSUME TypeOK, RowsInQueue, QueueBound, [Next]_vars
  PROVE  RowsInQueue' /\ QueueBound'
<1>1. ASSUME UNCHANGED <<queue, rows, shed>> PROVE RowsInQueue' /\ QueueBound'
  BY <1>1 DEF RowsInQueue, QueueBound
<1>2. ASSUME NEW B \in Batches(Events), PushBatch(B) PROVE RowsInQueue' /\ QueueBound'
  BY <1>2, PushBatchFacts
<1>3. ASSUME queue' \subseteq queue, rows' \subseteq rows PROVE QueueBound'
  <2>1. /\ IsFiniteSet(queue) /\ Cardinality(queue) \in Nat
        /\ IsFiniteSet(rows) /\ Cardinality(rows) \in Nat
    BY EventsFinite, FS_CardinalityType DEF TypeOK, Batches
  <2>2. queue' \in SUBSET queue /\ rows' \in SUBSET rows
    BY <1>3
  <2>3. Cardinality(queue') <= Cardinality(queue) /\ Cardinality(queue') \in Nat
    BY <2>1, <2>2, FS_Subset, FS_CardinalityType
  <2>4. Cardinality(rows') <= Cardinality(rows) /\ Cardinality(rows') \in Nat
    BY <2>1, <2>2, FS_Subset, FS_CardinalityType
  <2> QED BY <2>1, <2>3, <2>4, DeliveryAssumption DEF QueueBound
<1>4. ASSUME NEW f \in Flushers, NEW cutoff \in Events, FlushExpire(f, cutoff)
      PROVE  RowsInQueue' /\ QueueBound'
  <2>1. queue' = queue \ {q \in queue : q.e < cutoff} /\ rows' \subseteq rows
        /\ (rows' = rows => {q \in queue : q.e < cutoff} = {} \/ \A e \in rows' : e >= cutoff)
        /\ (rows' # rows => \A e \in rows' : e >= cutoff)
    BY <1>4 DEF FlushExpire
  <2>2. \A q \in queue : q.e \in Nat /\ cutoff \in Nat
    BY EventsFinite DEF TypeOK, Batches, Entry
  <2>3. RowsInQueue'
    BY <2>1, <2>2 DEF RowsInQueue, Ids
  <2> QED BY <1>3, <2>1, <2>3
<1>5. ASSUME NEW done, Confirm(done) PROVE RowsInQueue' /\ QueueBound'
  BY <1>3, <1>5 DEF Confirm, RowsInQueue, Ids
<1>6. ASSUME NEW f \in Flushers, FlushConfirmSent(f) PROVE RowsInQueue' /\ QueueBound'
  BY <1>5, <1>6 DEF FlushConfirmSent
<1>7. ASSUME NEW f \in Flushers, FlushFinish(f) PROVE RowsInQueue' /\ QueueBound'
  BY <1>3, <1>7 DEF FlushFinish, RowsInQueue
<1>8. ASSUME ProcessAck PROVE RowsInQueue' /\ QueueBound'
  <2>1. UNCHANGED queueVars \/ \E done : Confirm(done)
    BY <1>8 DEF ProcessAck
  <2> QED BY <1>1, <1>5, <2>1 DEF queueVars
<1>9. ASSUME Restart PROVE RowsInQueue' /\ QueueBound'
  <2>1. PICK al \in Alarms(pending) : queue' = Loaded(al)
    BY <1>9 DEF Restart
  <2>2. al \in SUBSET Events /\ rows \in SUBSET Events /\ Cardinality(al) <= LoadAlarms
    BY DEF Alarms, TypeOK
  <2>3. /\ Ids(queue') = rows \cup al /\ IsFiniteSet(queue')
        /\ Cardinality(queue') <= Cardinality(rows) + Cardinality(al)
    BY <2>1, <2>2, LoadedFacts DEF Batches
  <2>4. /\ Cardinality(queue') \in Nat /\ Cardinality(rows) \in Nat /\ Cardinality(al) \in Nat
        /\ MaxQueue \in Nat /\ LoadAlarms \in Nat
    BY <2>2, <2>3, EventsFinite, FS_CardinalityType, DeliveryAssumption
  <2>5. rows' = rows
    BY <1>9 DEF Restart
  <2> QED BY <2>2, <2>3, <2>4, <2>5 DEF RowsInQueue, QueueBound
<1> QED BY QueueSteps, <1>1, <1>2, <1>4, <1>6, <1>7, <1>8, <1>9

\* The only ACK ever added tells what the server has just accepted.
LEMMA AcksTruthfulNext ==
  ASSUME TypeOK, AcksTruthful, [Next]_vars
  PROVE  AcksTruthful'
<1>a. acks \in Seq(Ack) /\ outgoing \in Seq(Message) /\ received \subseteq received'
  BY QueueSteps DEF TypeOK
<1>b. /\ acks # <<>> => Elems(Tail(acks)) \subseteq Elems(acks)
      /\ \A k \in 0..Len(acks) : Elems(SubSeq(acks, 1, k)) \subseteq Elems(acks)
  BY <1>a, ElemsFacts
<1>0. Elems(acks') \subseteq Elems(acks) => AcksTruthful'
  BY <1>a DEF AcksTruthful
<1>1. ASSUME NEW c \in 0..N, NEW answered \in BOOLEAN, Deliver(c, answered)
      PROVE  AcksTruthful'
  <2> DEFINE m == Head(outgoing)
             a == [seq |-> m.seq, count |-> c, of |-> m.batch]
  <2>1. PICK took \in Fronts(m.batch, c) : received' = received \cup Ids(took)
    BY <1>1 DEF Deliver
  <2>2. acks' = acks \/ acks' = Append(acks, a)
    BY <1>1 DEF Deliver
  <2>3. a \in Ack
    <3>1. m \in Message
      BY <1>1, <1>a DEF Deliver
    <3> QED BY <3>1, DeliveryAssumption DEF Message, Ack
  <2>4. took \in Fronts(a.of, a.count) /\ Ids(took) \subseteq received'
    BY <2>1
  <2> HIDE DEF a
  <2>5. Elems(acks') \subseteq Elems(acks) \cup {a}
    BY ZenonT(60), <1>a, <2>2, <2>3, ElemsFacts
  <2> QED BY <1>a, <2>4, <2>5 DEF AcksTruthful
<1>2. ASSUME ConnectionNext PROVE AcksTruthful'
  BY <1>0, <1>1, <1>2, <1>b
     DEF ConnectionNext, Connect, ConnectionLost, AcksSurvive, LoseMessage
<1>3. ASSUME AckProcessorNext PROVE AcksTruthful'
  BY <1>0, <1>3, <1>b DEF AckProcessorNext, ProcessAck, ScanStart, ScanDrop, ScanResend
<1>4. ASSUME ProcessNext PROVE AcksTruthful'
  <2>1. Restart => Elems(acks') = {}
    BY DEF Restart, Elems
  <2> QED BY <1>0, <1>4, <2>1
          DEF ProcessNext, DisconnectBegin, DisconnectRequeue, DisconnectEnd
<1>5. ASSUME NEW p \in Producers, ProducerNext(p) PROVE AcksTruthful'
  BY <1>0, <1>5
     DEF ProducerNext, Produce, TriagedOut, NumberKept, Number, WireSend, Register,
         SendTimeout, QueueLocally
<1>6. ASSUME NEW f \in Flushers, FlusherNext(f) PROVE AcksTruthful'
  BY <1>0, <1>6
     DEF FlusherNext, SyncFlush, FlushExpire, FlushGate, FlushPeek, NumberPeeked, Number,
         WireSend, Register, FlushConfirmSent, FlushContinue, FlushFinish
<1>7. ASSUME UNCHANGED vars PROVE AcksTruthful'
  BY <1>0, <1>7 DEF vars
<1> QED BY <1>2, <1>3, <1>4, <1>5, <1>6, <1>7 DEF Next

\* What an ACK makes process_ack confirm is what the server accepted.
LEMMA ConfirmedIsReceived ==
  ASSUME TypeOK, Agreement, AcksTruthful, acks # <<>>,
         NEW f \in inFlight, f.seq = Head(acks).seq,
         NEW done \in Take(f.batch, Head(acks).count)
  PROVE  Ids(done) \subseteq received
<1> DEFINE a == Head(acks)
<1>1. a \in Elems(acks) /\ a \in Ack
  BY ElemsFacts DEF TypeOK
<1>2. a.of = f.batch
  <2>1. <<a.seq, a.of>> \in Copies /\ <<f.seq, f.batch>> \in Copies
    BY <1>1 DEF Copies
  <2> QED BY <2>1 DEF Agreement
<1>3. PICK took \in Fronts(f.batch, a.count) : Ids(took) \subseteq received
  BY <1>1, <1>2 DEF AcksTruthful
<1>4. f.batch \in Batches(Events) /\ IsFiniteSet(f.batch)
  BY DEF TypeOK, InFlight, Batches
<1>5. a.count <= Cardinality(f.batch) /\ a.count \in Nat /\ Cardinality(f.batch) \in Nat
  <2>1. took \in SUBSET f.batch /\ Cardinality(took) = a.count
    BY <1>3 DEF Fronts
  <2> QED BY <1>1, <1>4, <2>1, FS_Subset, FS_CardinalityType DEF Ack
<1>6. done \in Fronts(f.batch, a.count)
  BY <1>5 DEF Take, Lesser
<1> QED BY <1>3, <1>4, <1>6, FrontsUnique

-----------------------------------------------------------------------------
(* The inductive invariant and the theorems.                               *)

\* What every reachable state satisfies and every step preserves.
IInv ==
    /\ TypeOK /\ Numbered /\ Agreement /\ AcksTruthful
    /\ RowsInQueue /\ QueueBound
    /\ AckTracking => NoBlindConfirm

\* It holds at start-up.
LEMMA IInvInit == Init => IInv
<1> SUFFICES ASSUME Init PROVE IInv
  OBVIOUS
<1>1. TypeOK
  BY TypeInit
<1>2. Numbered /\ NoBlindConfirm
  BY DEF Init, Numbered, NoBlindConfirm
<1>3. Agreement /\ AcksTruthful
  BY DEF Init, Agreement, Copies, AcksTruthful, Elems
<1>4. RowsInQueue /\ QueueBound
  <2>1. rows \in SUBSET Events /\ Cardinality(rows) <= MaxQueue
    BY DEF Init
  <2>2. PICK al \in Alarms(Events \ rows) : queue = Loaded(al)
    BY DEF Init
  <2>3. al \in SUBSET Events /\ Cardinality(al) <= LoadAlarms
    BY DEF Alarms
  <2>4. /\ Ids(queue) = rows \cup al /\ IsFiniteSet(queue)
        /\ Cardinality(queue) <= Cardinality(rows) + Cardinality(al)
    BY <2>1, <2>2, <2>3, LoadedFacts DEF Batches
  <2>5. /\ Cardinality(queue) \in Nat /\ Cardinality(rows) \in Nat /\ Cardinality(al) \in Nat
        /\ MaxQueue \in Nat /\ LoadAlarms \in Nat
    BY <2>1, <2>3, <2>4, EventsFinite, FS_CardinalityType, DeliveryAssumption
  <2> QED BY <2>1, <2>3, <2>4, <2>5 DEF RowsInQueue, QueueBound
<1> QED BY <1>1, <1>2, <1>3, <1>4 DEF IInv

\* Every step preserves it.
LEMMA IInvNext == IInv /\ [Next]_vars => IInv'
BY TypeNext, AgreementNext, PlacesNext, AcksTruthfulNext, QueueNext DEF IInv

\* So it holds for ever.
THEOREM Invariance == Spec => []IInv
BY IInvInit, IInvNext, PTL DEF Spec

\* Every reachable state of the delivery path is well typed, for any number of
\* producers, flush tasks and events and any limits.
THEOREM TypeCorrect == Spec => []TypeOK
<1>1. IInv => TypeOK
  BY DEF IInv
<1> QED BY Invariance, <1>1, PTL

\* The spool holds no row that the queue in memory has forgotten, so
\* clear_persisted_file and the merge after a reconnect are harmless.
THEOREM SpoolMirrored == Spec => []RowsInQueue
<1>1. IInv => RowsInQueue
  BY DEF IInv
<1> QED BY Invariance, <1>1, PTL

\* The spool never holds more than max_size rows, requeueing at shutdown
\* included, and memory no more than max_size entries besides the integrity
\* events that one load_from_disk appended.
THEOREM QueueBounded == Spec => []QueueBound
<1>1. IInv => QueueBound
  BY DEF IInv
<1> QED BY Invariance, <1>1, PTL

\* No step deletes a spooled event that the server has not accepted and the
\* queue has not shed.
LEMMA SpooledStep ==
  ASSUME AckTracking, IInv, [Next]_vars
  PROVE  \A e \in rows \ rows' : e \in received' \cup shed'
<1> USE DEF IInv
<1>1. ASSUME UNCHANGED <<queue, rows, shed>>
      PROVE  \A e \in rows \ rows' : e \in received' \cup shed'
  BY <1>1
<1>2. ASSUME NEW B \in Batches(Events), PushBatch(B)
      PROVE  \A e \in rows \ rows' : e \in received' \cup shed'
  BY <1>2, PushBatchFacts
<1>3. ASSUME NEW f \in Flushers, NEW cutoff \in Events, FlushExpire(f, cutoff)
      PROVE  \A e \in rows \ rows' : e \in received' \cup shed'
  <2>1. \A e \in rows : e \in Nat /\ cutoff \in Nat
    BY EventsFinite DEF TypeOK
  <2>2. \A e \in rows \ rows' : \E q \in queue : q.e = e /\ q.e < cutoff
    BY <1>3, <2>1 DEF FlushExpire, RowsInQueue, Ids
  <2> QED BY <1>3, <2>2 DEF FlushExpire, Ids
<1>4. ASSUME NEW f \in Flushers, FlushConfirmSent(f) PROVE FALSE
  BY <1>4 DEF FlushConfirmSent, FlusherStep, NoBlindConfirm, Senders
<1>5. ASSUME NEW f \in Flushers, FlushFinish(f)
      PROVE  \A e \in rows \ rows' : e \in received' \cup shed'
  BY <1>5 DEF FlushFinish, RowsInQueue, Ids
<1>6. ASSUME ProcessAck
      PROVE  \A e \in rows \ rows' : e \in received' \cup shed'
  <2>1. CASE UNCHANGED queueVars
    BY <2>1 DEF queueVars
  <2>2. CASE ~UNCHANGED queueVars
    <3>1. PICK f \in inFlight : /\ f.seq = Head(acks).seq
                                /\ \E done \in Take(f.batch, Head(acks).count) :
                                      Confirm({q \in queue : q.e \in Ids(done)})
      BY <1>6, <2>2 DEF ProcessAck
    <3>2. PICK done \in Take(f.batch, Head(acks).count) :
             Confirm({q \in queue : q.e \in Ids(done)})
      BY <3>1
    <3>3. Ids(done) \subseteq received
      BY <1>6, <3>1, <3>2, ConfirmedIsReceived DEF ProcessAck
    <3>4. rows \ rows' \subseteq Ids(done)
      BY <3>2 DEF Confirm, Ids
    <3> QED BY <3>3, <3>4, QueueSteps
  <2> QED BY <2>1, <2>2
<1>7. ASSUME Restart PROVE \A e \in rows \ rows' : e \in received' \cup shed'
  BY <1>7 DEF Restart
<1> HIDE DEF IInv
<1>8. TypeOK
  BY DEF IInv
<1> QED BY <1>8, QueueSteps, <1>1, <1>2, <1>3, <1>4, <1>5, <1>6, <1>7

\* With ACK tracking, an event leaves the spool only once the server has it or
\* the queue shed it, whatever the network, retries, crashes and restarts do.
THEOREM SpooledEventsSurvive ==
  ASSUME AckTracking PROVE Spec => SpooledUntilAccepted
<1>1. IInv /\ [Next]_vars => (\A e \in rows \ rows' : e \in received' \cup shed')
  BY SpooledStep
<1> QED BY Invariance, <1>1, PTL DEF Spec, SpooledUntilAccepted

-----------------------------------------------------------------------------
(* The contract of SpooledDelivery.                                        *)

\* The spool is one of those the contract has room for.
RowsFit == rows \in {r \in SUBSET Events : Cardinality(r) <= MaxQueue}

\* The spool stays within max_size.
LEMMA RowsBounded == IInv => RowsFit
BY DEF IInv, TypeOK, QueueBound, RowsFit

\* A step that changes the spool or the record of what was shed is not one in
\* which the server accepts something.
LEMMA AcceptedApart ==
  ASSUME [Next]_vars
  PROVE  UNCHANGED <<rows, shed>> \/ UNCHANGED received
<1> DEFINE Goal == UNCHANGED <<rows, shed>> \/ UNCHANGED received
<1>1. ASSUME NEW p \in Producers, ProducerNext(p) PROVE Goal
  BY <1>1 DEF ProducerNext, Produce, TriagedOut, NumberKept, Number, WireSend, Register,
              SendTimeout, QueueLocally
<1>2. ASSUME NEW f \in Flushers, FlusherNext(f) PROVE Goal
  BY <1>2 DEF FlusherNext, SyncFlush, FlushExpire, FlushGate, FlushPeek, NumberPeeked,
              Number, WireSend, Register, FlushConfirmSent, FlushContinue, FlushFinish
<1>3. ASSUME ConnectionNext PROVE Goal
  BY <1>3 DEF ConnectionNext, Connect, ConnectionLost, Deliver, LoseMessage, queueVars
<1>4. ASSUME AckProcessorNext PROVE Goal
  BY <1>4 DEF AckProcessorNext, ProcessAck, ScanStart, ScanDrop, ScanResend
<1>5. ASSUME ProcessNext PROVE Goal
  BY <1>5 DEF ProcessNext, DisconnectBegin, DisconnectRequeue, DisconnectEnd, Restart
<1>6. ASSUME UNCHANGED vars PROVE Goal
  BY <1>6 DEF vars
<1> QED BY <1>1, <1>2, <1>3, <1>4, <1>5, <1>6 DEF Next

\* What push_batch and an expiry delete they record as shed.
LEMMA ShedIsRecorded ==
  ASSUME IInv,
         \/ \E B \in Batches(Events) : PushBatch(B)
         \/ \E f \in Flushers, cutoff \in Events : FlushExpire(f, cutoff)
  PROVE  rows \ rows' \subseteq shed' /\ shed \subseteq shed'
<1> USE DEF IInv
<1>1. ASSUME NEW B \in Batches(Events), PushBatch(B)
      PROVE  rows \ rows' \subseteq shed' /\ shed \subseteq shed'
  <2>1. shed \subseteq shed'
    BY <1>1 DEF PushBatch
  <2> QED BY <1>1, <2>1, PushBatchFacts
<1>2. ASSUME NEW f \in Flushers, NEW cutoff \in Events, FlushExpire(f, cutoff)
      PROVE  rows \ rows' \subseteq shed' /\ shed \subseteq shed'
  <2>1. \A e \in rows : e \in Nat /\ cutoff \in Nat
    BY EventsFinite DEF TypeOK
  <2>2. \A e \in rows \ rows' : \E q \in queue : q.e = e /\ q.e < cutoff
    BY <1>2, <2>1 DEF FlushExpire, RowsInQueue, Ids
  <2> QED BY <1>2, <2>2 DEF FlushExpire, Ids
<1> QED BY <1>1, <1>2

\* Each step of the delivery path is a step of the contract or none.
LEMMA ContractStep ==
  ASSUME AckTracking, IInv, IInv', [Next]_vars
  PROVE  [Contract!Next]_(Contract!vars)
<1> DEFINE Goal == Contract!Next \/ UNCHANGED <<rows, received, shed>>
<1>a. /\ rows' \in SUBSET Events /\ received' \in SUBSET Events /\ shed' \in SUBSET Events
      /\ rows \in SUBSET Events
  BY DEF IInv, TypeOK
<1>d. RowsFit'
  BY RowsBounded, PTL
<1>b. TypeOK /\ RowsInQueue
  BY DEF IInv
<1>c. received \subseteq received'
  BY <1>b, QueueSteps
<1>0. CASE UNCHANGED <<rows, shed>>
  <2>1. received' = received \cup received'
    BY <1>c
  <2>2. Contract!Accept(received')
    BY <1>0, <2>1 DEF Contract!Accept
  <2> QED BY <1>a, <2>2 DEF Contract!Next
<1>1. CASE ~UNCHANGED <<rows, shed>>
  <2>0. UNCHANGED received
    BY <1>1, AcceptedApart
  <2>1. ASSUME \/ \E B \in Batches(Events) : PushBatch(B)
               \/ \E f \in Flushers, cutoff \in Events : FlushExpire(f, cutoff)
        PROVE  Goal
    <3>1. rows \ rows' \subseteq shed' /\ shed \subseteq shed'
      BY <2>1, ShedIsRecorded
    <3>2. rows' = (rows \ shed') \cup rows' /\ shed' = shed \cup shed'
      BY <3>1
    <3>3. Contract!Store(rows', shed')
      BY <1>d, <2>0, <3>2 DEF RowsFit, Contract!Store
    <3> QED BY <1>a, <3>3 DEF Contract!Next
  <2>2. ASSUME NEW f \in Flushers, FlushConfirmSent(f) PROVE FALSE
    BY <2>2 DEF FlushConfirmSent, FlusherStep, NoBlindConfirm, Senders, IInv
  <2>3. ASSUME NEW f \in Flushers, FlushFinish(f) PROVE FALSE
    <3>1. shed' = shed /\ (queue # {} => rows' = rows) /\ (queue = {} => rows' = {})
      BY <2>3 DEF FlushFinish
    <3>2. queue = {} => rows = {}
      BY <1>b DEF RowsInQueue, Ids
    <3> QED BY <1>1, <3>1, <3>2
  <2>4. ASSUME ProcessAck PROVE Goal
    <3>1. PICK f \in inFlight : /\ f.seq = Head(acks).seq
                                /\ \E done \in Take(f.batch, Head(acks).count) :
                                      Confirm({q \in queue : q.e \in Ids(done)})
      BY <1>1, <2>4 DEF ProcessAck, queueVars
    <3>2. PICK done \in Take(f.batch, Head(acks).count) :
             Confirm({q \in queue : q.e \in Ids(done)})
      BY <3>1
    <3>3. Ids(done) \subseteq received
      BY <2>4, <3>1, <3>2, ConfirmedIsReceived DEF ProcessAck, IInv
    <3>4. rows \ rows' \subseteq Ids(done) /\ rows' \subseteq rows /\ shed' = shed
      BY <3>2 DEF Confirm, Ids
    <3>5. rows' = rows \ (rows \ rows') /\ rows \ rows' \subseteq received
      BY <3>3, <3>4
    <3>6. Contract!Release(rows \ rows')
      BY <2>0, <3>4, <3>5 DEF Contract!Release
    <3>7. rows \ rows' \in SUBSET Events
      BY <1>a
    <3> QED BY <3>6, <3>7 DEF Contract!Next
  <2>5. ASSUME Restart PROVE FALSE
    BY <1>1, <2>5 DEF Restart
  <2> HIDE DEF Goal
  <2>6. Goal
    BY <1>1, <1>b, <2>1, <2>2, <2>3, <2>4, <2>5, QueueSteps
  <2> QED BY <2>6 DEF Goal, Contract!vars
<1> QED BY <1>0, <1>1

\* With ACK tracking the delivery path implements the contract of
\* SpooledDelivery, for any number of tasks, events and restarts and any limits.
THEOREM ImplementsContract ==
  ASSUME AckTracking PROVE Spec => KeepsContract
<1>1. Init => Contract!Init
  BY DEF Init, Contract!Init
<1>2. IInv /\ IInv' /\ [Next]_vars => [Contract!Next]_(Contract!vars)
  BY ContractStep
<1> QED BY Invariance, <1>1, <1>2, PTL DEF Spec, KeepsContract, Contract!Spec

-----------------------------------------------------------------------------
(* The in-flight table.                                                    *)

\* Senders that saw room in in_flight and have not used it yet.
Promised == {s \in Senders : track[s]}

\* Entries and promises together: a promise is made only while fewer than
\* MAX_IN_FLIGHT_BATCHES entries exist, and a sender holds at most one.
RoomKept ==
    Cardinality(inFlight) + Cardinality(Promised) <= MaxInFlight - 1 + Cardinality(Senders)

\* The sets counted are finite.
LEMMA Counted ==
  ASSUME TypeOK
  PROVE  /\ IsFiniteSet(Senders) /\ Cardinality(Senders) \in Nat
         /\ IsFiniteSet(Promised) /\ Cardinality(Promised) \in Nat
         /\ Cardinality(Promised) <= Cardinality(Senders)
         /\ IsFiniteSet(inFlight) /\ Cardinality(inFlight) \in Nat
<1>1. IsFiniteSet(Senders)
  BY DeliveryAssumption, FS_Union DEF Senders
<1>2. Promised \in SUBSET Senders
  BY DEF Promised
<1> QED BY <1>1, <1>2, FS_Subset, FS_CardinalityType DEF TypeOK

\* Every step keeps the room promised.
LEMMA RoomNext ==
  ASSUME TypeOK, TypeOK', RoomKept, [Next]_vars
  PROVE  RoomKept'
<1>a. Senders = Producers \cup Flushers
  BY DEF Senders
<1>b. /\ Cardinality(Senders) \in Nat /\ IsFiniteSet(Senders)
      /\ Cardinality(Promised) \in Nat /\ IsFiniteSet(Promised)
      /\ Cardinality(inFlight) \in Nat /\ IsFiniteSet(inFlight)
  BY Counted
<1>c. /\ Cardinality(inFlight') \in Nat /\ IsFiniteSet(inFlight')
      /\ Cardinality(Promised') \in Nat /\ IsFiniteSet(Promised')
      /\ Cardinality(Promised') <= Cardinality(Senders)
  <2>1. Promised' \in SUBSET Senders
    BY DEF Promised
  <2>2. IsFiniteSet(inFlight')
    BY DEF TypeOK
  <2> QED BY <1>b, <2>1, <2>2, FS_Subset, FS_CardinalityType
<1>d. track \in [Senders -> BOOLEAN]
  BY DEF TypeOK
<1>e. MaxInFlight \in Nat \ {0}
  BY DeliveryAssumption
<1>0. ASSUME inFlight' \subseteq inFlight, Promised' \subseteq Promised PROVE RoomKept'
  <2>1. inFlight' \in SUBSET inFlight /\ Promised' \in SUBSET Promised
    BY <1>0
  <2>2. /\ Cardinality(inFlight') <= Cardinality(inFlight)
        /\ Cardinality(Promised') <= Cardinality(Promised)
    BY <1>b, <2>1, FS_Subset
  <2> QED BY <1>b, <1>c, <1>e, <2>2 DEF RoomKept
<1>1. ASSUME UNCHANGED <<inFlight, track>> PROVE RoomKept'
  BY <1>0, <1>1 DEF Promised
<1>2. ASSUME NEW s \in Senders, NEW b, NEW q, Number(s, b, q) PROVE RoomKept'
  <2>1. inFlight' = inFlight
        /\ track' = [track EXCEPT ![s] = AckTracking /\ Cardinality(inFlight) < MaxInFlight]
    BY <1>2 DEF Number
  <2>2. CASE Cardinality(inFlight) < MaxInFlight
    BY <1>b, <1>c, <1>e, <2>1, <2>2 DEF RoomKept
  <2>3. CASE ~(Cardinality(inFlight) < MaxInFlight)
    <3>1. Promised' \subseteq Promised
      BY <1>d, <2>1, <2>3 DEF Promised
    <3> QED BY <1>0, <2>1, <3>1
  <2> QED BY <2>2, <2>3
<1>3. ASSUME NEW s \in Senders, track' = [track EXCEPT ![s] = FALSE],
             inFlight' = inFlight \/ (track[s] /\ inFlight' = Insert(s))
      PROVE  RoomKept'
  <2>1. Promised' = Promised \ {s}
    BY <1>3, <1>d DEF Promised
  <2>2. CASE inFlight' = inFlight
    BY <1>0, <2>1, <2>2
  <2>3. CASE track[s] /\ inFlight' = Insert(s)
    <3>1. Cardinality(Promised') = Cardinality(Promised) - 1
      <4>1. s \in Promised
        BY <2>3 DEF Promised
      <4> QED BY <1>b, <2>1, <4>1, FS_RemoveElement
    <3>2. Cardinality(inFlight') <= Cardinality(inFlight) + 1
      <4> DEFINE x == [seq |-> seqOf[s], batch |-> batch[s], retries |-> 0]
      <4>1. inFlight' = inFlight \cup {x}
        BY <2>3 DEF Insert
      <4> HIDE DEF x
      <4>2. Cardinality(inFlight \cup {x}) =
              IF x \in inFlight THEN Cardinality(inFlight) ELSE Cardinality(inFlight) + 1
        BY <1>b, FS_AddElement
      <4> QED BY <1>b, <4>1, <4>2
    <3> QED BY <1>b, <1>c, <1>e, <3>1, <3>2 DEF RoomKept
  <2> QED BY <1>3, <2>2, <2>3
<1>4. ASSUME NEW p \in Producers, ProducerNext(p) PROVE RoomKept'
  <2>1. Register(p) => RoomKept'
    BY <1>3, <1>a DEF Register
  <2>2. ASSUME NEW inserted \in BOOLEAN, SendTimeout(p, inserted) PROVE RoomKept'
    BY <1>3, <1>a, <2>2 DEF SendTimeout
  <2> QED BY <1>1, <1>2, <1>4, <1>a, <2>1, <2>2
          DEF ProducerNext, Produce, TriagedOut, NumberKept, WireSend, QueueLocally
<1>5. ASSUME NEW f \in Flushers, FlusherNext(f) PROVE RoomKept'
  <2>1. Register(f) => RoomKept'
    BY <1>3, <1>a DEF Register
  <2> QED BY <1>1, <1>2, <1>5, <1>a, <2>1
          DEF FlusherNext, SyncFlush, FlushExpire, FlushGate, FlushPeek, NumberPeeked,
              WireSend, FlushConfirmSent, FlushContinue, FlushFinish
<1>6. ASSUME ConnectionNext PROVE RoomKept'
  BY <1>1, <1>6 DEF ConnectionNext, Connect, ConnectionLost, Deliver, LoseMessage, senderVars
<1>7. ASSUME NEW f \in scan, ScanResend(f) PROVE RoomKept'
  <2> DEFINE up == [g \in inFlight |->
                      IF g.seq = f.seq THEN [g EXCEPT !.retries = f.retries + 1] ELSE g]
  <2>1. inFlight' = {up[g] : g \in inFlight} /\ up = [g \in inFlight |-> up[g]]
    BY <1>7 DEF ScanResend
  <2>2. track' = track
    BY <1>7 DEF ScanResend, senderVars
  <2> HIDE DEF up
  <2>3. Cardinality(inFlight') <= Cardinality(inFlight)
    BY <1>b, <2>1, ImageBound
  <2>4. Promised' = Promised
    BY <2>2 DEF Promised
  <2> QED BY <1>b, <1>c, <1>e, <2>3, <2>4 DEF RoomKept
<1>8. ASSUME AckProcessorNext PROVE RoomKept'
  <2>1. ASSUME ProcessAck PROVE RoomKept'
    BY <1>0, <2>1 DEF ProcessAck, senderVars, Promised
  <2>2. ASSUME NEW f \in scan, ScanDrop(f) PROVE RoomKept'
    BY <1>0, <2>2 DEF ScanDrop, senderVars, Promised
  <2> QED BY <1>1, <1>7, <1>8, <2>1, <2>2 DEF AckProcessorNext, ScanStart, senderVars
<1>9. ASSUME ProcessNext PROVE RoomKept'
  <2>1. ASSUME Restart PROVE RoomKept'
    BY <1>0, <2>1 DEF Restart, Promised
  <2>2. ASSUME NEW f \in inFlight, DisconnectRequeue(f) PROVE RoomKept'
    BY <1>0, <2>2 DEF DisconnectRequeue, senderVars, Promised
  <2> QED BY <1>1, <1>9, <2>1, <2>2
          DEF ProcessNext, DisconnectBegin, DisconnectEnd, senderVars
<1>10. ASSUME UNCHANGED vars PROVE RoomKept'
  BY <1>1, <1>10 DEF vars, senderVars
<1> QED BY <1>4, <1>5, <1>6, <1>8, <1>9, <1>10 DEF Next

\* in_flight outgrows MAX_IN_FLIGHT_BATCHES by less than the number of tasks
\* that send, whatever the order in which they check and insert.
THEOREM InFlightBounded == Spec => []InFlightBound
<1>1. Init => RoomKept
  <2> SUFFICES ASSUME Init PROVE RoomKept
    OBVIOUS
  <2>1. inFlight = {} /\ Promised = {}
    BY DEF Init, Promised
  <2>2. Cardinality({}) = 0 /\ Cardinality(Senders) \in Nat
    BY TypeInit, Counted, FS_EmptySet
  <2> QED BY <2>1, <2>2, DeliveryAssumption DEF RoomKept
<1>2. IInv /\ IInv' /\ RoomKept /\ [Next]_vars => RoomKept'
  BY RoomNext DEF IInv
<1>3. IInv /\ RoomKept => InFlightBound
  <2> SUFFICES ASSUME TypeOK, RoomKept PROVE InFlightBound
    BY DEF IInv
  <2> QED BY Counted, DeliveryAssumption DEF RoomKept, InFlightBound
<1> QED BY Invariance, <1>1, <1>2, <1>3, PTL DEF Spec

-----------------------------------------------------------------------------
(* Compatibility mode: confirm_sent goes by a count.                       *)

\* The end of the queue is behind every entry, queued or peeked; and what a
\* flush task has peeked is older than everything else that is queued.
Placed ==
    /\ \A x \in queue : x.n < tail
    /\ \A f \in Flushers : \A x \in batch[f] : x.n < tail
    /\ \A f \in Flushers : \A x \in batch[f], y \in queue \ batch[f] : x.n < y.n

\* push_batch appends behind all entries and takes away from the front.
LEMMA PushedBehind ==
  ASSUME TypeOK, NEW B \in Batches(Events), PushBatch(B)
  PROVE  /\ tail' \in Nat /\ tail' >= tail
         /\ \A y \in queue' : y \in queue \/ (y.n \in Nat /\ y.n >= tail /\ y.n < tail')
<1> DEFINE new == Repositioned(B, tail)
<1>1. queue' \subseteq queue \cup new /\ tail' = tail + Cardinality(B)
  BY DEF PushBatch
<1>2. tail \in Nat /\ Cardinality(B) \in Nat
  BY FS_CardinalityType DEF TypeOK, Batches
<1>3. \A x \in new : x.n \in Nat /\ x.n >= tail /\ x.n < tail + Cardinality(B)
  BY <1>2, RepositionedPlaces
<1> HIDE DEF new
<1> QED BY <1>1, <1>2, <1>3

\* Every step keeps what was peeked in front, whatever leaves the queue.
LEMMA PlacedNext ==
  ASSUME TypeOK, Placed, [Next]_vars
  PROVE  Placed'
<1>a. /\ Senders = Producers \cup Flushers /\ Producers \cap Flushers = {}
      /\ batch \in [Senders -> Batches(Events)]
      /\ tail \in Nat /\ queue \in Batches(Events)
  BY DeliveryAssumption DEF TypeOK, Senders
<1>b. /\ \A x \in queue : x.n \in Nat
      /\ \A f \in Flushers : \A x \in batch[f] : x.n \in Nat
  BY <1>a DEF Batches, Entry
<1>0. ASSUME queue' \subseteq queue, tail' = tail,
             \A f \in Flushers : batch'[f] = batch[f] \/ batch'[f] = {}
      PROVE  Placed'
  BY <1>0 DEF Placed
<1>1. ASSUME NEW p \in Producers, queue' = queue, tail' = tail,
             batch' = batch \/ \E b : batch' = [batch EXCEPT ![p] = b]
      PROVE  Placed'
  <2>1. \A f \in Flushers : batch'[f] = batch[f]
    BY <1>1, <1>a
  <2> QED BY <1>0, <1>1, <2>1
<1>2. ASSUME NEW B \in Batches(Events), PushBatch(B), batch' = batch PROVE Placed'
  <2>1. /\ tail' \in Nat /\ tail' >= tail
        /\ \A y \in queue' : y \in queue \/ (y.n \in Nat /\ y.n >= tail /\ y.n < tail')
    BY <1>2, PushedBehind
  <2>2. \A x \in queue' : x.n < tail'
    BY <1>a, <1>b, <2>1 DEF Placed
  <2>3. \A f \in Flushers : \A x \in batch[f] : x.n < tail'
    BY <1>a, <1>b, <2>1 DEF Placed
  <2>4. \A f \in Flushers : \A x \in batch[f], y \in queue' \ batch[f] : x.n < y.n
    BY <1>a, <1>b, <2>1 DEF Placed
  <2> QED BY <1>2, <2>2, <2>3, <2>4 DEF Placed
<1>3. ASSUME NEW p \in Producers, ProducerNext(p) PROVE Placed'
  <2>1. ASSUME NEW ev, Produce(p, ev) PROVE Placed'
    BY <1>1, <2>1 DEF Produce, queueVars
  <2>2. TriagedOut(p) => Placed'
    BY <1>1 DEF TriagedOut, queueVars
  <2>3. ASSUME NEW b, NEW q, Number(p, b, q) PROVE Placed'
    BY <1>1, <2>3 DEF Number, queueVars
  <2>4. WireSend(p) => Placed'
    BY <1>1 DEF WireSend, queueVars
  <2>5. Register(p) => Placed'
    BY <1>1 DEF Register, queueVars
  <2>6. ASSUME NEW inserted, SendTimeout(p, inserted) PROVE Placed'
    BY <1>1, <2>6 DEF SendTimeout, queueVars
  <2>7. ASSUME QueueLocally(p) PROVE Placed'
    <3>1. InTimeOrder(all[p]) \in Batches(Events)
      BY <1>a, EventsFinite, InTimeOrderFacts DEF TypeOK
    <3> QED BY <1>2, <2>7, <3>1 DEF QueueLocally
  <2> QED BY <1>3, <2>1, <2>2, <2>3, <2>4, <2>5, <2>6, <2>7 DEF ProducerNext, NumberKept
<1>4. ASSUME NEW f \in Flushers, FlusherNext(f) PROVE Placed'
  <2>1. f \in Senders
    BY <1>a
  <2>2. SyncFlush(f) \/ FlushGate(f) \/ FlushContinue(f) \/ FlushFinish(f) => Placed'
    BY <1>0 DEF SyncFlush, FlushGate, FlushContinue, FlushFinish, queueVars
  <2>3. ASSUME NEW cutoff, FlushExpire(f, cutoff) PROVE Placed'
    BY <1>0, <2>3 DEF FlushExpire
  <2>4. ASSUME FlushPeek(f) PROVE Placed'
    <3>1. PICK b \in Take(queue, BatchMax) : batch' = [batch EXCEPT ![f] = b]
      BY <2>4 DEF FlushPeek
    <3>2. b \subseteq queue /\ \A x \in b, y \in queue \ b : x.n < y.n
      BY <3>1 DEF Take, Fronts
    <3>3. /\ queue' = queue /\ tail' = tail /\ batch'[f] = b
          /\ \A g \in Flushers : g # f => batch'[g] = batch[g]
      BY <1>a, <2>1, <2>4, <3>1 DEF FlushPeek, queueVars
    <3> QED BY <3>2, <3>3 DEF Placed
  <2>5. ASSUME NEW q, NumberPeeked(f, q) PROVE Placed'
    <3>1. queue' = queue /\ tail' = tail /\ \A g \in Flushers : batch'[g] = batch[g]
      BY <1>a, <2>1, <2>5 DEF NumberPeeked, Number, queueVars
    <3> QED BY <1>0, <3>1
  <2>6. ASSUME WireSend(f) \/ Register(f) \/ FlushConfirmSent(f) PROVE Placed'
    <3>1. queue' \subseteq queue /\ tail' = tail
      BY <2>6 DEF WireSend, Register, FlushConfirmSent, Confirm, queueVars
    <3>2. \A g \in Flushers : batch'[g] = batch[g] \/ batch'[g] = {}
      BY <1>a, <2>1, <2>6 DEF WireSend, Register, FlushConfirmSent
    <3> QED BY <1>0, <3>1, <3>2
  <2> QED BY <1>4, <2>2, <2>3, <2>4, <2>5, <2>6 DEF FlusherNext
<1>5. ASSUME ConnectionNext PROVE Placed'
  BY <1>0, <1>5
     DEF ConnectionNext, Connect, ConnectionLost, Deliver, LoseMessage, queueVars, senderVars
<1>6. ASSUME AckProcessorNext PROVE Placed'
  <2>1. ASSUME ProcessAck PROVE Placed'
    <3>1. queue' \subseteq queue /\ tail' = tail /\ batch' = batch
      BY <2>1 DEF ProcessAck, Confirm, queueVars, senderVars
    <3> QED BY <1>0, <3>1
  <2> QED BY <1>0, <1>6, <2>1
          DEF AckProcessorNext, ScanStart, ScanDrop, ScanResend, queueVars, senderVars
<1>7. ASSUME ProcessNext PROVE Placed'
  <2>1. ASSUME Restart PROVE Placed'
    <3>1. PICK al \in Alarms(pending) : queue' = Loaded(al) /\ tail' = N + 1 + Cardinality(al)
      BY <2>1 DEF Restart
    <3>2. al \in SUBSET Events /\ rows \in SUBSET Events
      BY DEF Alarms, TypeOK
    <3>3. \A x \in queue' : x.n < tail'
      BY <3>1, <3>2, LoadedFacts
    <3>4. \A f \in Flushers : batch'[f] = {}
      BY <1>a, <2>1 DEF Restart
    <3> QED BY <3>3, <3>4 DEF Placed
  <2>2. ASSUME NEW f \in inFlight, DisconnectRequeue(f) PROVE Placed'
    <3>1. f.batch \in Batches(Events)
      BY DEF TypeOK, InFlight
    <3> QED BY <1>2, <2>2, <3>1 DEF DisconnectRequeue, senderVars
  <2> QED BY <1>0, <1>7, <2>1, <2>2
          DEF ProcessNext, DisconnectBegin, DisconnectEnd, queueVars, senderVars
<1>8. ASSUME UNCHANGED vars PROVE Placed'
  BY <1>0, <1>8 DEF vars, queueVars, senderVars
<1> QED BY <1>3, <1>4, <1>5, <1>6, <1>7, <1>8 DEF Next

\* confirm_sent removes as many unsent entries as sent ones are missing.
LEMMA ConfirmsInPlace ==
  ASSUME TypeOK, Placed, NEW f \in Flushers, FlushConfirmSent(f)
  PROVE  Cardinality((queue \ queue') \ batch[f]) <= Cardinality(batch[f] \ queue)
<1> DEFINE b == batch[f]
<1>1. /\ queue \in Batches(Events) /\ b \in Batches(Events)
      /\ IsFiniteSet(queue) /\ IsFiniteSet(b)
  BY DEF TypeOK, Batches, Senders
<1>2. PICK done \in Take(queue, Cardinality(b)) : queue' = queue \ done
  BY DEF FlushConfirmSent, Confirm
<1>3. /\ done \in SUBSET queue
      /\ Cardinality(done) = Lesser(Cardinality(b), Cardinality(queue))
      /\ \A x \in done, y \in queue \ done : x.n < y.n
  BY <1>2 DEF Take, Fronts
<1>4. \A x \in b, y \in queue \ b : x.n < y.n
  BY DEF Placed
<1>5. \A x \in queue : x.n \in Nat
  BY <1>1 DEF Batches, Entry
<1> HIDE DEF b
<1>6. queue \ queue' = done
  BY <1>2, <1>3
<1>7. IsFiniteSet(done) /\ Cardinality(done) \in Nat /\ Cardinality(b) \in Nat
      /\ Cardinality(queue) \in Nat
  BY <1>1, <1>3, FS_Subset, FS_CardinalityType
<1>8. Cardinality(done) <= Cardinality(b)
  BY <1>3, <1>7 DEF Lesser
<1>9. CASE done \subseteq b
  <2>1. done \ b = {}
    BY <1>9
  <2>2. IsFiniteSet(b \ queue) /\ Cardinality(b \ queue) \in Nat
    BY <1>1, FS_Difference, FS_CardinalityType
  <2> QED BY <1>6, <2>1, <2>2, FS_EmptySet DEF b
<1>10. CASE ~(done \subseteq b)
  <2>1. PICK d \in done : d \notin b
    BY <1>10
  <2>2. \A x \in b \cap queue : x \in done
    BY <1>3, <1>4, <1>5, <2>1
  <2>3. done \cap b = b \cap queue
    BY <1>3, <2>2
  <2>4. Cardinality(done \ b) = Cardinality(done) - Cardinality(done \cap b)
    BY <1>7, FS_Difference, Zenon
  <2>5. Cardinality(b \ queue) = Cardinality(b) - Cardinality(b \cap queue)
    BY <1>1, FS_Difference, Zenon
  <2>6. Cardinality(b \cap queue) \in Nat
    BY <1>1, FS_Intersection, FS_CardinalityType
  <2>7. Cardinality(done \cap b) = Cardinality(b \cap queue)
    BY <2>3, Zenon
  <2>8. Cardinality(done \ b) <= Cardinality(b \ queue)
    BY <1>7, <1>8, <2>4, <2>5, <2>6, <2>7
  <2> QED BY <1>6, <2>8, Zenon DEF b
<1> QED BY <1>9, <1>10

\* flush_queue_batched without ACK tracking removes an unsent entry ("On
\* failure the unsent events remain in the queue") only in the place of a sent
\* one that left the queue since the peek: for any number of flush tasks,
\* producers and events, any limits, evictions, expiry, crashes and restarts.
THEOREM FlushRemovesInPlace == Spec => UnsentRemovedForGone
<1>1. Init => Placed
  <2> SUFFICES ASSUME Init PROVE Placed
    OBVIOUS
  <2>1. PICK al \in Alarms(Events \ rows) :
           queue = Loaded(al) /\ tail = N + 1 + Cardinality(al)
    BY DEF Init
  <2>2. al \in SUBSET Events /\ rows \in SUBSET Events
    BY DEF Alarms, Init
  <2>3. \A x \in queue : x.n < tail
    BY <2>1, <2>2, LoadedFacts
  <2>4. \A f \in Flushers : batch[f] = {}
    BY DEF Init, Senders
  <2> QED BY <2>3, <2>4 DEF Placed
<1>2. IInv /\ Placed /\ [Next]_vars => Placed'
  BY PlacedNext DEF IInv
<1>3. IInv /\ Placed /\ [Next]_vars
        => [\A f \in Flushers :
              FlushConfirmSent(f) =>
                Cardinality((queue \ queue') \ batch[f]) <= Cardinality(batch[f] \ queue)]_vars
  BY ConfirmsInPlace DEF IInv
<1> QED BY Invariance, <1>1, <1>2, <1>3, PTL DEF Spec, UnsentRemovedForGone
=============================================================================
