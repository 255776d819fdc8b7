------------------------- MODULE TelemetryDelivery -------------------------
(***************************************************************************)
(* Telemetry delivery in BackendClient (src/transport/mod.rs): concurrent  *)
(* send_telemetry callers, the queue-flush tasks, the ACK processor, the   *)
(* bounded outgoing channel, the offline queue mirrored on disk, shutdown, *)
(* crash and restart.  A step runs from one await to the next; what a lock *)
(* guard covers is one step.  The websocket is reduced to what delivery    *)
(* sees of it: is_connected(), and whether a sender task drains the        *)
(* channel.  Server behaviour is external and adversarially slow: it may   *)
(* accept any prefix of a batch, and any message or ACK may be lost.       *)
(***************************************************************************)
EXTENDS EventQueue, Sequences

CONSTANTS
    N,              \* events 1..N; event e carries timestamp e
    Producers,      \* tasks that call send_telemetry
    Flushers,       \* tasks that run flush_queue_batched
    Seqs,           \* bound: batch sequence numbers alive at a time (see Used)
    NoSeq,
    MaxQueue,       \* LocalEventQueue.max_size
    LoadAlarms,     \* integrity events one load appends (the code: at most 2)
    BatchMax,       \* MAX_WEBSOCKET_TELEMETRY_BATCH
    MaxInFlight,    \* MAX_IN_FLIGHT_BATCHES
    MaxRetries,     \* MAX_RETRIES
    ChanCap,        \* capacity of the outgoing channel
    AckCap,         \* bound: ACKs between the server and process_ack
    AckTracking,    \* telemetry_ack_tracking_enabled()
    MaxRestarts     \* bound: process restarts

ASSUME DeliveryAssumption ==
    /\ N \in Nat \ {0}
    /\ IsFiniteSet(Producers) /\ IsFiniteSet(Flushers)
    /\ Producers \cap Flushers = {}
    /\ NoSeq \notin Seqs
    /\ MaxQueue \in Nat \ {0} /\ BatchMax \in Nat \ {0} /\ LoadAlarms \in Nat
    /\ MaxInFlight \in Nat \ {0} /\ MaxRetries \in Nat
    /\ ChanCap \in Nat \ {0} /\ AckCap \in Nat \ {0}
    /\ AckTracking \in BOOLEAN /\ MaxRestarts \in Nat

Events == 1..N
Senders == Producers \cup Flushers

VARIABLES
    state,      \* ConnectionState, as is_connected() sees it
    live,       \* a connection's sender and reader tasks are running
    pending,    \* events no collector has handed over yet
    queue,      \* LocalEventQueue.events
    rows,       \* event ids in queued_events on disk
    tail,       \* next free queue position
    outgoing,   \* the outgoing channel
    inFlight,   \* in_flight: batches awaiting an ACK
    acks,       \* ACKs on the socket and in the ack channel
    scan,       \* timed-out batches the scanner has cloned and not handled
    pc, all, batch, seqOf, track,   \* per sender: place, locals
    phase,      \* "run", "draining" (disconnect holds both locks), "down"
    restarts

\* What the properties observe and no step of the program reads.
VARIABLES
    received,   \* events the server has accepted
    shed        \* events evicted from the full queue or expired

senderVars == <<pc, all, batch, seqOf, track>>
queueVars  == <<queue, rows, tail, shed>>
connVars   == <<state, live>>
vars == <<connVars, pending, queueVars, outgoing, inFlight, acks, scan,
          senderVars, phase, restarts, received>>

Message  == [seq : Seqs, batch : Batches(Events)]
\* `of` is the batch the server is answering; the agent never sees it.
Ack      == [seq : Seqs, count : Nat, of : Batches(Events)]
InFlight == [seq : Seqs, batch : Batches(Events), retries : 0..MaxRetries]

Elems(s) == {s[i] : i \in DOMAIN s}

\* batch_seq.fetch_add(1): a number that nothing still alive carries.
Used == {m.seq : m \in Elems(outgoing)} \cup {a.seq : a \in Elems(acks)}
          \cup {f.seq : f \in inFlight} \cup {f.seq : f \in scan}
          \cup {seqOf[s] : s \in Senders}

\* disconnect() holds in_flight and local_queue until both are drained.
Unlocked == phase # "draining"

\* load_from_disk: the rows in timestamp order, and behind them, in memory
\* only and whatever max_size is, the integrity events of this load.
Loaded(al) == InTimeOrder(rows) \cup Repositioned(InTimeOrder(al), N + 1)

\* The integrity events of a load are events nobody has seen before.
Alarms(new) == {al \in SUBSET new : Cardinality(al) <= LoadAlarms}

\* A process starts with what an earlier one left in the spool.  connect()
\* makes its first attempt before any other task runs.
Init ==
    /\ state \in {"Connected", "Disconnected"} /\ live = (state = "Connected")
    /\ rows \in {r \in SUBSET Events : Cardinality(r) <= MaxQueue}
    /\ \E al \in Alarms(Events \ rows) :
          /\ queue = Loaded(al) /\ tail = N + 1 + Cardinality(al)
          /\ pending = (Events \ rows) \ al
    /\ outgoing = <<>> /\ inFlight = {} /\ acks = <<>> /\ scan = {}
    /\ pc = [s \in Senders |-> "idle"]
    /\ all = [s \in Senders |-> {}]
    /\ batch = [s \in Senders |-> {}]
    /\ seqOf = [s \in Senders |-> NoSeq]
    /\ track = [s \in Senders |-> FALSE]
    /\ phase = "run" /\ restarts = 0
    /\ received = {} /\ shed = {}

-----------------------------------------------------------------------------
(* The offline queue.                                                      *)

\* Mutant: evicts only once the queue is past its limit (> for >=).
PushBatchLate(B) ==
    LET new  == Repositioned(B, tail)
        both == queue \cup new
        over == Cardinality(queue) + Cardinality(B) IN
    \E gone \in Fronts(both, IF over > MaxQueue + 1 THEN over - MaxQueue - 1 ELSE 0) :
        /\ queue' = both \ gone
        /\ rows' = (rows \ Ids(gone \cap queue)) \cup Ids(new \ gone)
        /\ tail' = tail + Cardinality(B)
        /\ shed' = shed \cup Ids(gone)

\* push_batch(B): make room from the front, existing events first, then the
\* oldest of the batch; then spool and append what is left of it.
PushBatch(B) ==
    LET new  == Repositioned(B, tail)
        both == queue \cup new
        over == Cardinality(queue) + Cardinality(B) IN
    \E gone \in Fronts(both, IF over > MaxQueue THEN over - MaxQueue ELSE 0) :
        /\ queue' = both \ gone
        /\ rows' = (rows \ Ids(gone \cap queue)) \cup Ids(new \ gone)
        /\ tail' = tail + Cardinality(B)
        /\ shed' = shed \cup Ids(gone)

\* Mutant: confirmed events are not deleted from disk.
ConfirmMemoryOnly(done) ==
    /\ queue' = queue \ done
    /\ UNCHANGED <<rows, tail, shed>>

\* confirm_event_ids / confirm_sent: the entries leave memory, their ids disk.
Confirm(done) ==
    /\ queue' = queue \ done
    /\ rows' = rows \ Ids(done)
    /\ UNCHANGED <<tail, shed>>

-----------------------------------------------------------------------------
(* send_telemetry and send_telemetry_without_triage.                       *)

\* is_connected() decides between the direct path and the local queue.
Produce(p, ev) ==
    /\ pc[p] = "idle" /\ ev # {} /\ ev \subseteq pending
    /\ pending' = pending \ ev
    /\ all' = [all EXCEPT ![p] = ev]
    /\ pc' = [pc EXCEPT ![p] = IF state = "Connected" THEN "direct" ELSE "queueing"]
    /\ UNCHANGED <<connVars, queueVars, outgoing, inFlight, acks, scan, batch,
                   seqOf, track, phase, restarts, received>>

\* Triage keeps nothing: send_telemetry_direct returns Ok without sending.
TriagedOut(p) ==
    /\ pc[p] = "direct"
    /\ pc' = [pc EXCEPT ![p] = "idle"]
    /\ all' = [all EXCEPT ![p] = {}]
    /\ UNCHANGED <<connVars, pending, queueVars, outgoing, inFlight, acks, scan,
                   batch, seqOf, track, phase, restarts, received>>

\* Mutant: ACK tracking without looking at the room left in in_flight.
NumberUnchecked(s, b, q) ==
    /\ pc[s] = "direct" /\ (AckTracking => Unlocked)
    /\ q \in Seqs \ Used
    /\ batch' = [batch EXCEPT ![s] = b]
    /\ seqOf' = [seqOf EXCEPT ![s] = q]
    /\ track' = [track EXCEPT ![s] = AckTracking]
    /\ pc' = [pc EXCEPT ![s] = "wire"]
    /\ UNCHANGED <<connVars, pending, queueVars, outgoing, inFlight, acks, scan,
                   all, phase, restarts, received>>

\* send_telemetry_direct_inner up to the channel: number the batch, then look
\* at in_flight.  The answer is used only after the batch is on the channel.
Number(s, b, q) ==
    /\ pc[s] = "direct" /\ (AckTracking => Unlocked)
    /\ q \in Seqs \ Used
    /\ batch' = [batch EXCEPT ![s] = b]
    /\ seqOf' = [seqOf EXCEPT ![s] = q]
    /\ track' = [track EXCEPT ![s] = AckTracking /\ Cardinality(inFlight) < MaxInFlight]
    /\ pc' = [pc EXCEPT ![s] = "wire"]
    /\ UNCHANGED <<connVars, pending, queueVars, outgoing, inFlight, acks, scan,
                   all, phase, restarts, received>>

\* A producer sends what triage keeps of its events, a flusher what it peeked.
NumberKept(p, kept, q) ==
    kept # {} /\ kept \subseteq all[p] /\ Number(p, InTimeOrder(kept), q)

NumberPeeked(f, q) == Number(f, batch[f], q)

\* outgoing_tx.send(): waits while the channel is full.
WireSend(s) ==
    /\ pc[s] = "wire" /\ Len(outgoing) < ChanCap
    /\ outgoing' = Append(outgoing, [seq |-> seqOf[s], batch |-> batch[s]])
    /\ pc' = [pc EXCEPT ![s] = "sent"]
    /\ UNCHANGED <<connVars, pending, queueVars, inFlight, acks, scan, all, batch,
                   seqOf, track, phase, restarts, received>>

\* in_flight.insert(seq, ..): only now can an ACK for the batch be matched.
Insert(s) == inFlight \cup {[seq |-> seqOf[s], batch |-> batch[s], retries |-> 0]}

Register(s) ==
    /\ pc[s] = "sent" /\ (track[s] => Unlocked)
    /\ inFlight' = IF track[s] THEN Insert(s) ELSE inFlight
    /\ pc' = [pc EXCEPT ![s] = IF s \in Producers THEN "idle"
                               ELSE IF AckTracking THEN "finish" ELSE "confirm"]
    /\ seqOf' = [seqOf EXCEPT ![s] = NoSeq]
    /\ track' = [track EXCEPT ![s] = FALSE]
    /\ all' = [all EXCEPT ![s] = {}]
    /\ batch' = IF s \in Flushers /\ ~AckTracking THEN batch ELSE [batch EXCEPT ![s] = {}]
    /\ UNCHANGED <<connVars, pending, queueVars, outgoing, acks, scan, phase,
                   restarts, received>>

\* The 5s timeout of send_telemetry may strike at any await of the direct
\* path: after the batch went onto the channel, or even after in_flight has
\* it (`inserted`), while the statistics are locked.  It marks the connection
\* lost whatever its state is by now.
SendTimeout(p, inserted) ==
    /\ pc[p] \in {"direct", "wire", "sent"}
    /\ inserted => pc[p] = "sent" /\ track[p] /\ Unlocked
    /\ inFlight' = IF inserted THEN Insert(p) ELSE inFlight
    /\ state' = "Disconnected"
    /\ pc' = [pc EXCEPT ![p] = "queueing"]
    /\ batch' = [batch EXCEPT ![p] = {}]
    /\ seqOf' = [seqOf EXCEPT ![p] = NoSeq]
    /\ track' = [track EXCEPT ![p] = FALSE]
    /\ UNCHANGED <<live, pending, queueVars, outgoing, acks, scan, all, phase,
                   restarts, received>>

\* queue_events_locally: all the caller's events, triage or not.
QueueLocally(p) ==
    /\ pc[p] = "queueing" /\ Unlocked
    /\ PushBatch(InTimeOrder(all[p]))
    /\ pc' = [pc EXCEPT ![p] = "idle"]
    /\ all' = [all EXCEPT ![p] = {}]
    /\ UNCHANGED <<connVars, pending, outgoing, inFlight, acks, scan, batch, seqOf,
                   track, phase, restarts, received>>

-----------------------------------------------------------------------------
(* flush_queue_batched, from the periodic sync or after a reconnect.       *)

FlusherStep(f, from, to) ==
    pc[f] = from /\ pc' = [pc EXCEPT ![f] = to]

\* spawn_queue_sync: every 30s while connected, if the queue is not empty.
SyncFlush(f) ==
    /\ FlusherStep(f, "idle", "gate")
    /\ phase = "run" /\ state = "Connected" /\ queue # {}
    /\ UNCHANGED <<connVars, pending, queueVars, outgoing, inFlight, acks, scan, all,
                   batch, seqOf, track, phase, restarts, received>>

\* spawn_reconnection_flush: drop what is older than `cutoff` (24h ago), then
\* flush.  Its merge of the persisted rows adds nothing: see RowsInQueue.
FlushExpire(f, cutoff) ==
    LET old == {q \in queue : q.e < cutoff} IN
    /\ FlusherStep(f, "expire", "gate") /\ Unlocked
    /\ queue' = queue \ old
    /\ rows' = IF old = {} THEN rows ELSE {e \in rows : e >= cutoff}
    /\ shed' = shed \cup Ids(old)
    /\ UNCHANGED <<connVars, pending, tail, outgoing, inFlight, acks, scan, all,
                   batch, seqOf, track, phase, restarts, received>>

\* Loop head: with ACK tracking, replay only when nothing is in flight.
FlushGate(f) ==
    /\ Unlocked
    /\ FlusherStep(f, "gate", IF AckTracking /\ inFlight # {} THEN "finish" ELSE "peek")
    /\ UNCHANGED <<connVars, pending, queueVars, outgoing, inFlight, acks, scan, all,
                   batch, seqOf, track, phase, restarts, received>>

\* peek_batch: the front of the queue, which stays queued.
FlushPeek(f) ==
    /\ Unlocked
    /\ FlusherStep(f, "peek", IF queue = {} THEN "finish" ELSE "direct")
    /\ \E b \in Take(queue, BatchMax) : batch' = [batch EXCEPT ![f] = b]
    /\ UNCHANGED <<connVars, pending, queueVars, outgoing, inFlight, acks, scan, all,
                   seqOf, track, phase, restarts, received>>

\* Mutant: confirms a full batch whatever the length of the one sent.
FlushConfirmFull(f) ==
    /\ FlusherStep(f, "confirm", "pause") /\ Unlocked
    /\ \E done \in Take(queue, BatchMax) : Confirm(done)
    /\ batch' = [batch EXCEPT ![f] = {}]
    /\ UNCHANGED <<connVars, pending, outgoing, inFlight, acks, scan, all, seqOf,
                   track, phase, restarts, received>>

\* confirm_sent(batch_len), compatibility mode: removes as many entries as
\* were sent from what is now the front.
FlushConfirmSent(f) ==
    /\ FlusherStep(f, "confirm", "pause") /\ Unlocked
    /\ \E done \in Take(queue, Cardinality(batch[f])) : Confirm(done)
    /\ batch' = [batch EXCEPT ![f] = {}]
    /\ UNCHANGED <<connVars, pending, outgoing, inFlight, acks, scan, all, seqOf,
                   track, phase, restarts, received>>

\* After the 100ms pause: go on only if the connection is still there.
FlushContinue(f) ==
    /\ FlusherStep(f, "pause", IF state = "Connected" THEN "gate" ELSE "finish")
    /\ UNCHANGED <<connVars, pending, queueVars, outgoing, inFlight, acks, scan, all,
                   batch, seqOf, track, phase, restarts, received>>

\* Mutant: the spool is cleared although entries are left.
FlushFinishAnyway(f) ==
    /\ FlusherStep(f, "finish", "idle") /\ Unlocked
    /\ rows' = {}
    /\ UNCHANGED <<connVars, pending, queue, tail, shed, outgoing, inFlight, acks,
                   scan, all, batch, seqOf, track, phase, restarts, received>>

\* clear_persisted_file once the queue in memory is empty.
FlushFinish(f) ==
    /\ FlusherStep(f, "finish", "idle") /\ Unlocked
    /\ rows' = IF queue = {} THEN {} ELSE rows
    /\ UNCHANGED <<connVars, pending, queue, tail, shed, outgoing, inFlight, acks,
                   scan, all, batch, seqOf, track, phase, restarts, received>>

-----------------------------------------------------------------------------
(* The connection, and the server behind it (external).                    *)

\* What the reader had not yet moved to the ack channel is lost with it.
AcksSurvive == \E k \in 0..Len(acks) : acks' = SubSeq(acks, 1, k)

\* connect_once by the monitor: aborts the old tasks, starts new ones and
\* spawns a reconnection flush (at most |Flushers| flush tasks at a time).
Connect(F) ==
    LET idle == {f \in Flushers : pc[f] = "idle"} IN
    /\ phase = "run" /\ state = "Disconnected"
    /\ F \subseteq idle /\ Cardinality(F) = IF idle = {} THEN 0 ELSE 1
    /\ state' = "Connected" /\ live' = TRUE
    /\ IF live THEN AcksSurvive ELSE UNCHANGED acks
    /\ pc' = [s \in Senders |-> IF s \in F THEN "expire" ELSE pc[s]]
    /\ UNCHANGED <<pending, queueVars, outgoing, inFlight, scan, all, batch, seqOf,
                   track, phase, restarts, received>>

\* Mutant: the tasks of a dead connection leave the state as it was.
ConnectionLostUnnoticed ==
    /\ live /\ live' = FALSE /\ AcksSurvive
    /\ UNCHANGED <<state, pending, queueVars, outgoing, inFlight, scan, senderVars,
                   phase, restarts, received>>

\* Reader end, sender failure, stale guard: the tasks stop, state follows.
ConnectionLost ==
    /\ live /\ live' = FALSE /\ state' = "Disconnected" /\ AcksSurvive
    /\ UNCHANGED <<pending, queueVars, outgoing, inFlight, scan, senderVars, phase,
                   restarts, received>>

\* The sender task pops a message and the server accepts its first c events.
\* The ACK carries c; it may get lost, or not be sent at all.
Deliver(c, answered) ==
    /\ live /\ outgoing # <<>>
    /\ outgoing' = Tail(outgoing)
    /\ LET m == Head(outgoing) IN
       /\ c \in 0..Cardinality(m.batch)
       /\ \E took \in Fronts(m.batch, c) : received' = received \cup Ids(took)
       /\ IF answered
          THEN /\ Len(acks) < AckCap
               /\ acks' = Append(acks, [seq |-> m.seq, count |-> c, of |-> m.batch])
          ELSE UNCHANGED acks
    /\ UNCHANGED <<connVars, pending, queueVars, inFlight, scan, senderVars, phase,
                   restarts>>

\* A popped message is not put back when the socket write fails.
LoseMessage ==
    /\ live /\ outgoing # <<>>
    /\ outgoing' = Tail(outgoing)
    /\ UNCHANGED <<connVars, pending, queueVars, inFlight, acks, scan, senderVars,
                   phase, restarts, received>>

-----------------------------------------------------------------------------
(* The ACK processor task: one ACK, or one scan, at a time.                *)

Scanning == scan # {}

\* process_ack: forget the batch and confirm the accepted part of it.
ProcessAck ==
    /\ ~Scanning /\ Unlocked /\ acks # <<>>
    /\ acks' = Tail(acks)
    /\ LET a == Head(acks)
           hit == {f \in inFlight : f.seq = a.seq} IN
       /\ inFlight' = inFlight \ hit
       /\ IF hit = {} THEN UNCHANGED queueVars
          ELSE \E f \in hit : \E done \in Take(f.batch, a.count) :
                 Confirm({q \in queue : q.e \in Ids(done)})
    /\ UNCHANGED <<connVars, pending, outgoing, scan, senderVars, phase, restarts,
                   received>>

\* scan_in_flight_timeouts, phase 1: clone the batches past their deadline.
ScanStart(late) ==
    /\ ~Scanning /\ phase = "run"
    /\ late # {} /\ late \subseteq inFlight
    /\ scan' = late
    /\ UNCHANGED <<connVars, pending, queueVars, outgoing, inFlight, acks,
                   senderVars, phase, restarts, received>>

\* Phase 2, retries exhausted: the batch is dropped.
ScanDrop(f) ==
    /\ f \in scan /\ f.retries >= MaxRetries /\ Unlocked
    /\ inFlight' = {g \in inFlight : g.seq # f.seq}
    /\ scan' = scan \ {f}
    /\ UNCHANGED <<connVars, pending, queueVars, outgoing, acks, senderVars, phase,
                   restarts, received>>

\* Phase 2, retry: the batch goes onto the channel again under its number,
\* and the entry, if it is still there, is charged with the retry.
ScanResend(f) ==
    /\ f \in scan /\ f.retries < MaxRetries /\ Unlocked
    /\ Len(outgoing) < ChanCap
    /\ outgoing' = Append(outgoing, [seq |-> f.seq, batch |-> f.batch])
    /\ inFlight' = {IF g.seq = f.seq THEN [g EXCEPT !.retries = f.retries + 1] ELSE g :
                     g \in inFlight}
    /\ scan' = scan \ {f}
    /\ UNCHANGED <<connVars, pending, queueVars, acks, senderVars, phase, restarts,
                   received>>

-----------------------------------------------------------------------------
(* disconnect(), crash, restart.                                           *)

DisconnectBegin ==
    /\ phase = "run" /\ phase' = "draining"
    /\ UNCHANGED <<connVars, pending, queueVars, outgoing, inFlight, acks, scan,
                   senderVars, restarts, received>>

\* in_flight.drain(), in HashMap order: every batch is pushed back.
DisconnectRequeue(f) ==
    /\ phase = "draining" /\ f \in inFlight
    /\ inFlight' = inFlight \ {f}
    /\ PushBatch(f.batch)
    /\ UNCHANGED <<connVars, pending, outgoing, acks, scan, senderVars, phase,
                   restarts, received>>

DisconnectEnd ==
    /\ phase = "draining" /\ inFlight = {}
    /\ phase' = "down" /\ state' = "Disconnected"
    /\ UNCHANGED <<live, pending, queueVars, outgoing, inFlight, acks, scan,
                   senderVars, restarts, received>>

\* The process ends, cleanly or not, and starts again from the spool.
Restart ==
    /\ restarts < MaxRestarts /\ restarts' = restarts + 1
    /\ \E al \in Alarms(pending) :
          /\ queue' = Loaded(al) /\ tail' = N + 1 + Cardinality(al)
          /\ pending' = pending \ al
    /\ state' \in {"Connected", "Disconnected"} /\ live' = (state' = "Connected")
    /\ outgoing' = <<>> /\ inFlight' = {} /\ acks' = <<>> /\ scan' = {}
    /\ pc' = [s \in Senders |-> "idle"]
    /\ all' = [s \in Senders |-> {}]
    /\ batch' = [s \in Senders |-> {}]
    /\ seqOf' = [s \in Senders |-> NoSeq]
    /\ track' = [s \in Senders |-> FALSE]
    /\ phase' = "run"
    /\ UNCHANGED <<rows, shed, received>>

-----------------------------------------------------------------------------
ProducerNext(p) ==
    \/ \E ev \in SUBSET pending : Produce(p, ev)
    \/ TriagedOut(p)
    \/ \E kept \in SUBSET all[p], q \in Seqs : NumberKept(p, kept, q)
    \/ WireSend(p) \/ Register(p)
    \/ \E inserted \in BOOLEAN : SendTimeout(p, inserted)
    \/ QueueLocally(p)

FlusherNext(f) ==
    \/ SyncFlush(f)
    \/ \E cutoff \in Events : FlushExpire(f, cutoff)
    \/ FlushGate(f) \/ FlushPeek(f)
    \/ \E q \in Seqs : NumberPeeked(f, q)
    \/ WireSend(f) \/ Register(f)
    \/ FlushConfirmSent(f) \/ FlushContinue(f) \/ FlushFinish(f)

ConnectionNext ==
    \/ \E F \in SUBSET Flushers : Connect(F)
    \/ ConnectionLost
    \/ \E c \in 0..N, answered \in BOOLEAN : Deliver(c, answered)
    \/ LoseMessage

AckProcessorNext ==
    \/ ProcessAck
    \/ \E late \in SUBSET inFlight : ScanStart(late)
    \/ \E f \in scan : ScanDrop(f) \/ ScanResend(f)

ProcessNext ==
    \/ DisconnectBegin
    \/ \E f \in inFlight : DisconnectRequeue(f)
    \/ DisconnectEnd
    \/ Restart

Next ==
    \/ \E p \in Producers : ProducerNext(p)
    \/ \E f \in Flushers : FlusherNext(f)
    \/ ConnectionNext \/ AckProcessorNext \/ ProcessNext

Spec == Init /\ [][Next]_vars

\* Collectors never run out of events: what is nowhere any more comes back as
\* new events.  Queue positions, of which only the order counts, are renumbered
\* at once, so that an endless run has finitely many states.
Held == Ids(queue) \cup rows \cup pending
          \cup UNION {all[s] \cup Ids(batch[s]) : s \in Senders}
          \cup UNION {Ids(f.batch) : f \in inFlight \cup scan}
          \cup UNION {Ids(m.batch) : m \in Elems(outgoing)}
          \cup UNION {Ids(a.of) : a \in Elems(acks)}

Tidy == Held = Events /\ queue = Repositioned(queue, 1) /\ tail = Cardinality(queue) + 1

NewEvents ==
    /\ ~Tidy
    /\ pending' = pending \cup (Events \ Held)
    /\ received' = received \cap Held /\ shed' = shed \cap Held
    /\ queue' = Repositioned(queue, 1) /\ tail' = Cardinality(queue) + 1
    /\ UNCHANGED <<connVars, rows, outgoing, inFlight, acks, scan, senderVars,
                   phase, restarts>>

\* A running agent whose collectors never fall silent.
RunNext ==
    \/ NewEvents
    \/ /\ Tidy
       /\ \/ \E p \in Producers : ProducerNext(p)
          \/ \E f \in Flushers : FlusherNext(f)
          \/ ConnectionNext \/ AckProcessorNext

\* Every task that can run does and timers fire.  The environment is not
\* hostile for ever: again and again a connection lasts until a message has
\* left the channel, a replay is registered before its message has left, a
\* registered batch with the oldest queued event is accepted whole, and the ACK
\* for it is read; and in the end the ACK deadline is longer than the round
\* trip of a message that gets through.
Tracked == {f.seq : f \in inFlight}
Replay(b) == \E front \in Fronts(queue, 1) : Ids(front) \subseteq Ids(b)
RegisterInTime(f) == seqOf[f] \in {m.seq : m \in Elems(outgoing)} /\ Register(f)
AcceptWhole ==
    /\ outgoing # <<>> /\ Head(outgoing).seq \in Tracked /\ Replay(Head(outgoing).batch)
    /\ Deliver(Cardinality(Head(outgoing).batch), TRUE)
AckInTime ==
    /\ acks # <<>> /\ Head(acks).seq \in Tracked /\ Replay(Head(acks).of)
    /\ Head(acks).count = Cardinality(Head(acks).of)
    /\ ProcessAck
UnderWay == {f \in inFlight : f.seq \in {m.seq : m \in Elems(outgoing)}
                                      \cup {a.seq : a \in Elems(acks)}}

Fairness ==
    /\ <>[][\A late \in SUBSET inFlight : ScanStart(late) => late \cap UnderWay = {}]_vars
    /\ WF_vars(NewEvents)
    /\ \A p \in Producers : WF_vars(ProducerNext(p) /\ pc[p] # "idle")
    /\ \A f \in Flushers : SF_vars(FlusherNext(f)) /\ SF_vars(RegisterInTime(f))
    /\ SF_vars(\E F \in SUBSET Flushers : Connect(F))
    /\ SF_vars(AcceptWhole) /\ SF_vars(AckInTime)
    /\ WF_vars(AckProcessorNext) /\ SF_vars(ProcessAck)
    /\ SF_vars(LoseMessage \/ \E c \in 0..N, answered \in BOOLEAN : Deliver(c, answered))

LiveSpec == Init /\ [][RunNext]_vars /\ Fairness

-----------------------------------------------------------------------------
(* Properties.                                                             *)

PlaceOfSender == {"idle", "direct", "wire", "sent", "queueing", "expire", "gate",
                  "peek", "confirm", "pause", "finish"}

\* Every variable of BackendClient's delivery path has its type.
TypeOK ==
    /\ state \in {"Connected", "Disconnected"} /\ live \in BOOLEAN
    /\ pending \subseteq Events
    /\ queue \in Batches(Events)
    /\ rows \subseteq Events /\ tail \in Nat
    /\ outgoing \in Seq(Message)
    /\ inFlight \subseteq InFlight /\ IsFiniteSet(inFlight)
    /\ acks \in Seq(Ack) /\ scan \subseteq InFlight
    /\ pc \in [Senders -> PlaceOfSender]
    /\ all \in [Senders -> SUBSET Events]
    /\ batch \in [Senders -> Batches(Events)]
    /\ seqOf \in [Senders -> Seqs \cup {NoSeq}]
    /\ track \in [Senders -> BOOLEAN]
    /\ phase \in {"run", "draining", "down"} /\ restarts \in Nat
    /\ received \subseteq Events /\ shed \subseteq Events

\* An event leaves the spool on disk only when the server has accepted it or
\* the queue shed it (eviction, expiry): across retries, ACKs that answer an
\* earlier transmission, partial ACKs, reconnects, crash and restart
\* (DeliveryStats: "queued offline events removed only after server ACK").
SpooledUntilAccepted ==
    [][\A e \in rows \ rows' : e \in received' \cup shed']_vars

\* The spool never holds a row that memory has forgotten: the merge after a
\* reconnect brings nothing back, and clear_persisted_file deletes nothing.
RowsInQueue == rows \subseteq Ids(queue)

\* The in-flight table outgrows MAX_IN_FLIGHT_BATCHES by less than the number
\* of concurrent senders: the room is checked before the channel wait and
\* used after it.
InFlightBound == Cardinality(inFlight) <= MaxInFlight + Cardinality(Senders) - 1

\* flush_queue_batched gives up whenever a batch is in flight, and a replay that
\* finds in_flight full is not tracked.  Producers that track batches for ever
\* can keep every flush, from some time on, from tracking a replay.
StarvedByTraffic ==
    /\ []<>(\E p \in Producers : pc[p] = "sent" /\ track[p])
    /\ <>[][\A f \in Flushers, q \in Seqs :
               NumberPeeked(f, q) => Cardinality(inFlight) >= MaxInFlight]_vars

\* With ACK tracking, whatever sits in the offline queue of a running agent is
\* in the end accepted by the server or shed: no lost ACK, dropped batch,
\* stuck flush or lost connection leaves it there for ever unsent, while
\* producers send new events for ever; unless these starve every flush.
QueuedIsAccepted ==
    \/ \A e \in Events : e \in Ids(queue) ~> (e \in received \cup shed \/ phase # "run")
    \/ StarvedByTraffic

\* Without ACK tracking, flush_queue_batched removes an entry it has not sent
\* ("On failure the unsent events remain in the queue") only in the place of
\* one it sent and that has left the queue since the peek, evicted, expired or
\* confirmed by another flush task: never more of them than that, and none
\* while the batch is still queued.
UnsentRemovedForGone ==
    [][\A f \in Flushers :
          FlushConfirmSent(f) =>
            Cardinality((queue \ queue') \ batch[f]) <= Cardinality(batch[f] \ queue)]_vars

\* "Re-queue any in-flight batches ... so they are persisted to disk"
\* (disconnect): events that fit in the queue together are all on disk after.
RequeueKeepsEvents ==
    [][\A f \in inFlight :
          DisconnectRequeue(f) /\ Cardinality(Ids(queue) \cup Ids(f.batch)) <= MaxQueue
            => Ids(queue) \cup Ids(f.batch) \subseteq rows']_vars

\* The spool never holds more than max_size rows, requeueing at shutdown
\* included; memory exceeds max_size by no more than the integrity events that
\* one load appended.
QueueBound ==
    /\ Cardinality(rows) <= MaxQueue
    /\ Cardinality(queue) <= MaxQueue + LoadAlarms

\* The delivery path keeps the promise of SpooledDelivery: the spool is the rows
\* on disk, and each step of a task, the network or the server is one step of
\* the contract or none.  Without ACK tracking it does not: what has been
\* written to the channel is deleted.
Contract == INSTANCE SpooledDelivery
              WITH spooled <- rows, accepted <- received,
                   Spools <- {r \in SUBSET Events : Cardinality(r) <= MaxQueue}

KeepsContract == Contract!Spec
=============================================================================
