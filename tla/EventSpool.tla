----------------------------- MODULE EventSpool -----------------------------
(***************************************************************************)
(* LocalEventQueue's SQLite spool (src/transport/mod.rs), statement by     *)
(* statement.  Every operation runs under the local_queue lock, so         *)
(* operations do not overlap; but each SQL statement commits by itself,    *)
(* and the process may stop between any two.  An operation changes memory  *)
(* and leaves in `todo` the statements it executes before it returns.      *)
(* TelemetryDelivery takes each operation as one step.  Nobody but the     *)
(* agent writes the database here, and a process that cannot even open it  *)
(* (it would run without a spool) is left out.                             *)
(***************************************************************************)
EXTENDS EventQueue, Sequences

CONSTANTS
    N,              \* telemetry events 1..N; event e carries timestamp e
    A,              \* bound: integrity events N+1..N+A, stamped with the present
    MaxSize,        \* max_size
    Keys,           \* auth tokens: the integrity key is derived from one
    NoMeta,         \* queue_meta has no pending_count row
    Faults,         \* SQL statements may fail
    Rotates,        \* the token manager may replace the token on disk
    MaxStops,       \* bound: process stops
    MaxTail         \* bound: entries appended to the queue by one process

ASSUME SpoolAssumption ==
    /\ N \in Nat \ {0} /\ A \in Nat /\ MaxSize \in Nat \ {0} /\ MaxStops \in Nat
    /\ MaxTail \in Nat
    /\ Faults \in BOOLEAN /\ Rotates \in BOOLEAN
    /\ Keys # {} /\ NoMeta \notin [n : Nat, key : Keys]

Events == 1..N
Alarms == (N + 1)..(N + A)
AllIds == Events \cup Alarms

VARIABLES
    queue, tail,    \* LocalEventQueue.events, as in EventQueue
    rows,           \* queued_events: the event and the key of payload_hmac
    meta,           \* queue_meta.pending_count and the key of its HMAC
    todo,           \* statements the operation under way has still to execute
    next,           \* what it does after them
    key,            \* integrity_key of this process
    token,          \* auth_token in the config file, the next process's key
    alarms,         \* integrity_events
    stops

\* What the properties observe and no step of the program reads.
VARIABLES
    owed,           \* events spooled and neither confirmed, expired nor evicted
    blind,          \* a start failed to load the rows, or had another key
    failed          \* a statement has failed

vars == <<queue, tail, rows, meta, todo, next, key, token, alarms, stops, owed, blind, failed>>

Row == [e : AllIds, key : Keys]
Stored == {r.e : r \in rows}

-----------------------------------------------------------------------------
(* Statements.  `each` deletes row by row, each one a transaction; when a   *)
(* statement that `must` succeed fails, the operation returns its error.   *)

Stmt == [op : {"delete", "insert", "meta"}, ids : SUBSET AllIds,
         each : BOOLEAN, must : BOOLEAN]

Delete(ids)     == [op |-> "delete", ids |-> ids, each |-> FALSE, must |-> FALSE]
DeleteEach(ids) == [op |-> "delete", ids |-> ids, each |-> TRUE, must |-> FALSE]
DeleteAll       == [op |-> "delete", ids |-> AllIds, each |-> FALSE, must |-> TRUE]
Insert(ids)     == [op |-> "insert", ids |-> ids, each |-> FALSE, must |-> FALSE]
UpdateMeta      == [op |-> "meta", ids |-> {}, each |-> FALSE, must |-> FALSE]
RequireMeta     == [op |-> "meta", ids |-> {}, each |-> FALSE, must |-> TRUE]

When(cond, stmt) == IF cond THEN <<stmt>> ELSE <<>>

Idle == todo = <<>> /\ next = "none"

\* build_integrity_event: a fresh id.
Fresh(a) == a \in Alarms /\ a \notin alarms /\ a \notin Stored /\ a \notin Ids(queue)

\* record_integrity_event(a), if `cond`.
Record(cond, a) ==
    /\ cond => Fresh(a)
    /\ alarms' = IF cond THEN alarms \cup {a} ELSE alarms

\* LocalEventQueue::new and open_spool, up to ensure_pending_count_meta.
Init ==
    /\ queue = {} /\ tail = 0 /\ rows = {} /\ meta = NoMeta
    /\ todo = <<RequireMeta>> /\ next = "boot"
    /\ key \in Keys /\ token = key
    /\ alarms = {} /\ stops = 0
    /\ owed = {} /\ blind = FALSE /\ failed = FALSE

\* One statement commits.
Exec ==
    LET s == Head(todo) IN
    /\ todo # <<>>
    /\ \/ /\ s.op = "delete" /\ ~s.each
          /\ rows' = {r \in rows : r.e \notin s.ids}
          /\ todo' = Tail(todo)
          /\ UNCHANGED <<meta, owed>>
       \/ /\ s.op = "delete" /\ s.each
          /\ \E e \in s.ids :
                /\ rows' = {r \in rows : r.e # e}
                /\ todo' = When(s.ids # {e}, [s EXCEPT !.ids = @ \ {e}]) \o Tail(todo)
          /\ UNCHANGED <<meta, owed>>
       \/ /\ s.op = "insert"
          /\ rows' = {r \in rows : r.e \notin s.ids} \cup {[e |-> e, key |-> key] : e \in s.ids}
          /\ owed' = owed \cup s.ids
          /\ todo' = Tail(todo)
          /\ UNCHANGED meta
       \/ /\ s.op = "meta"
          /\ meta' = [n |-> Cardinality(rows), key |-> key]
          /\ todo' = Tail(todo)
          /\ UNCHANGED <<rows, owed>>
    /\ UNCHANGED <<queue, tail, next, key, token, alarms, stops, blind, failed>>

\* The operation returns its error; a start-up that gives up also records an
\* integrity event, and leaves memory without the rows.
GiveUp(a) ==
    /\ todo' = <<>> /\ next' = "none"
    /\ Record(next \in {"boot", "load"}, a)
    /\ blind' = (blind \/ next \in {"boot", "load"})

\* One statement fails, or a query of verify_spool_metadata or
\* load_verified_events_from_spool.  Most failures of writes are only logged;
\* a failed insert also records an integrity event.
Fail(a) ==
    LET s == Head(todo) IN
    /\ Faults /\ failed' = TRUE
    /\ \/ todo = <<>> /\ next # "none" /\ GiveUp(a)
       \/ todo # <<>> /\ s.must /\ GiveUp(a)
       \/ /\ todo # <<>> /\ ~s.must /\ s.each
          /\ \E e \in s.ids :
                todo' = When(s.ids # {e}, [s EXCEPT !.ids = @ \ {e}]) \o Tail(todo)
          /\ UNCHANGED <<next, alarms, blind>>
       \/ /\ todo # <<>> /\ ~s.must /\ ~s.each
          /\ todo' = Tail(todo)
          /\ Record(s.op = "insert", a)
          /\ UNCHANGED <<next, blind>>
    /\ UNCHANGED <<queue, tail, rows, meta, key, token, stops, owed>>

-----------------------------------------------------------------------------
(* Operations.                                                             *)

\* Mutant: evicted events stay on disk.
PushBatchKeepsRows(B) ==
    LET new  == Repositioned(InTimeOrder(B), tail)
        both == queue \cup new
        over == Cardinality(both) IN
    /\ Idle /\ B # {} /\ tail + Cardinality(B) <= MaxTail
    /\ \E gone \in Fronts(both, IF over > MaxSize THEN over - MaxSize ELSE 0) :
          /\ queue' = both \ gone
          /\ owed' = owed \ Ids(gone)
          /\ todo' = <<Insert(Ids(new \ gone)), UpdateMeta>>
    /\ tail' = tail + Cardinality(B)
    /\ UNCHANGED <<rows, meta, next, key, token, alarms, stops, blind, failed>>

\* Mutant: inserts the batch before it deletes what is evicted.
PushBatchInsertFirst(B) ==
    LET new  == Repositioned(InTimeOrder(B), tail)
        both == queue \cup new
        over == Cardinality(both) IN
    /\ Idle /\ B # {} /\ tail + Cardinality(B) <= MaxTail
    /\ \E gone \in Fronts(both, IF over > MaxSize THEN over - MaxSize ELSE 0) :
          LET evicted == Ids(gone \cap queue) IN
          /\ queue' = both \ gone
          /\ owed' = owed \ Ids(gone)
          /\ todo' = <<Insert(Ids(new \ gone))>>
                       \o When(evicted # {}, Delete(evicted)) \o <<UpdateMeta>>
    /\ tail' = tail + Cardinality(B)
    /\ UNCHANGED <<rows, meta, next, key, token, alarms, stops, blind, failed>>

\* push_batch(B): delete what is evicted, insert what is left of the batch,
\* push it into memory, count.
PushBatch(B) ==
    LET new  == Repositioned(InTimeOrder(B), tail)
        both == queue \cup new
        over == Cardinality(both) IN
    /\ Idle /\ B # {} /\ tail + Cardinality(B) <= MaxTail
    /\ \E gone \in Fronts(both, IF over > MaxSize THEN over - MaxSize ELSE 0) :
          LET evicted == Ids(gone \cap queue) IN
          /\ queue' = both \ gone
          /\ owed' = owed \ Ids(gone)
          /\ todo' = When(evicted # {}, Delete(evicted))
                       \o <<Insert(Ids(new \ gone)), UpdateMeta>>
    /\ tail' = tail + Cardinality(B)
    /\ UNCHANGED <<rows, meta, next, key, token, alarms, stops, blind, failed>>

\* Mutant: the count is not refreshed after rows were deleted.
RemoveUncounted(done) ==
    /\ Idle /\ done \subseteq queue
    /\ queue' = queue \ done
    /\ owed' = owed \ Ids(done)
    /\ todo' = When(done # {}, DeleteEach(Ids(done)))
    /\ UNCHANGED <<tail, rows, meta, next, key, token, alarms, stops, blind, failed>>

\* confirm_event_ids and confirm_sent, through delete_events_from_spool.
Remove(done) ==
    /\ Idle /\ done \subseteq queue
    /\ queue' = queue \ done
    /\ owed' = owed \ Ids(done)
    /\ todo' = When(done # {}, DeleteEach(Ids(done))) \o <<UpdateMeta>>
    /\ UNCHANGED <<tail, rows, meta, next, key, token, alarms, stops, blind, failed>>

\* confirm_event_ids(ids): every entry of these events.
ConfirmEventIds(ids) == ids # {} /\ Remove({q \in queue : q.e \in ids})

\* confirm_sent(count): the first `count` entries.
ConfirmSent(count) == \E done \in Take(queue, count) : Remove(done)

\* expire_old_events: nothing is written unless something in memory expired.
ExpireOldEvents(cutoff) ==
    LET old == {q \in queue : q.e < cutoff} IN
    /\ Idle
    /\ queue' = queue \ old
    /\ owed' = IF old = {} THEN owed ELSE {e \in owed : e >= cutoff}
    /\ todo' = IF old = {} THEN <<>>
               ELSE <<Delete({e \in AllIds : e < cutoff}), UpdateMeta>>
    /\ UNCHANGED <<tail, rows, meta, next, key, token, alarms, stops, blind, failed>>

\* clear_persisted_file, which flush_queue_batched calls on an empty queue.
ClearPersistedFile ==
    /\ Idle /\ queue = {}
    /\ todo' = <<DeleteAll, RequireMeta>>
    /\ UNCHANGED <<queue, tail, rows, meta, next, key, token, alarms, stops, owed, blind, failed>>

\* merge_persisted_events begins like a start-up: with the metadata.
MergeBegin ==
    /\ Idle /\ tail + Cardinality(rows) < MaxTail
    /\ next' = "merge"
    /\ UNCHANGED <<queue, tail, rows, meta, todo, key, token, alarms, stops, owed, blind, failed>>

\* verify_spool_metadata: a count, or an HMAC, that does not match is an
\* integrity event, and is overwritten.
VerifySpoolMetadata(a) ==
    LET matches == meta = [n |-> Cardinality(rows), key |-> key] IN
    /\ todo = <<>> /\ next \in {"boot", "merge"}
    /\ next' = IF next = "boot" THEN "load" ELSE "fold"
    /\ Record(~matches, a)
    /\ todo' = When(~matches, RequireMeta)
    /\ UNCHANGED <<queue, tail, rows, meta, key, token, stops, owed, blind, failed>>

\* Rows whose HMAC verifies under this process's key, and the others.
Verified == {r.e : r \in {x \in rows : x.key = key}}
Tampered == {r.e : r \in {x \in rows : x.key # key}}
ForgetTampered == IF Tampered = {} THEN <<>> ELSE <<DeleteEach(Tampered), UpdateMeta>>

\* load_from_disk: rows in timestamp order, then the integrity events so far,
\* which are not spooled.  Rows that do not verify are deleted.
LoadFromDisk(a) ==
    LET recorded == IF Tampered = {} THEN alarms ELSE alarms \cup {a} IN
    /\ todo = <<>> /\ next = "load" /\ next' = "none"
    /\ Tampered # {} => Fresh(a)
    /\ queue' = InTimeOrder(Verified) \cup Repositioned(InTimeOrder(recorded), N + A + 1)
    /\ tail' = N + A + 1 + Cardinality(recorded)
    /\ alarms' = {}
    /\ todo' = ForgetTampered
    /\ UNCHANGED <<rows, meta, key, token, stops, owed, blind, failed>>

\* The rest of merge_persisted_events: rows memory does not have are
\* appended, whatever max_size is; the integrity event goes through push.
MergeRows(a) ==
    LET merged == queue \cup Repositioned(InTimeOrder(Verified \ Ids(queue)), tail)
        end    == tail + Cardinality(Verified \ Ids(queue)) IN
    /\ todo = <<>> /\ next = "fold" /\ next' = "none"
    /\ \/ /\ Tampered = {}
          /\ queue' = merged /\ tail' = end /\ todo' = <<>>
          /\ UNCHANGED owed
       \/ /\ Tampered # {} /\ Fresh(a)
          /\ \E gone \in Fronts(merged, IF Cardinality(merged) >= MaxSize THEN 1 ELSE 0) :
               /\ queue' = (merged \ gone) \cup {[n |-> end, e |-> a]}
               /\ owed' = owed \ Ids(gone)
               /\ todo' = ForgetTampered \o When(gone # {}, Delete(Ids(gone)))
                            \o <<Insert({a}), UpdateMeta>>
          /\ tail' = end + 1
    /\ UNCHANGED <<rows, meta, key, token, alarms, stops, blind, failed>>

\* The token manager persists a new token while the process runs on.
RotateToken(t) ==
    /\ Rotates /\ t # token /\ token' = t
    /\ UNCHANGED <<queue, tail, rows, meta, todo, next, key, alarms, stops, owed, blind, failed>>

\* The process stops, cleanly or not, and another one opens the spool with
\* the key derived from the token it finds.
Stop ==
    /\ stops < MaxStops /\ stops' = stops + 1
    /\ queue' = {} /\ tail' = 0 /\ alarms' = {}
    /\ key' = token /\ blind' = (blind \/ token # key)
    /\ todo' = When(meta = NoMeta, RequireMeta) /\ next' = "boot"
    /\ UNCHANGED <<rows, meta, token, owed, failed>>

Next ==
    \/ Exec
    \/ \E a \in Alarms \cup {0} : Fail(a) \/ VerifySpoolMetadata(a)
                                    \/ LoadFromDisk(a) \/ MergeRows(a)
    \/ \E B \in SUBSET Events : PushBatch(B)
    \/ \E ids \in SUBSET AllIds : ConfirmEventIds(ids)
    \/ \E count \in 0..MaxSize : ConfirmSent(count)
    \/ \E cutoff \in Events : ExpireOldEvents(cutoff)
    \/ ClearPersistedFile
    \/ MergeBegin
    \/ \E t \in Keys : RotateToken(t)
    \/ Stop

Spec == Init /\ [][Next]_vars

-----------------------------------------------------------------------------
(* Properties.                                                             *)

\* Memory, both tables and the operation under way have their types.
TypeOK ==
    /\ queue \in Batches(AllIds) /\ tail \in Nat
    /\ rows \subseteq Row
    /\ meta \in [n : Nat, key : Keys] \cup {NoMeta}
    /\ todo \in Seq(Stmt)
    /\ next \in {"none", "boot", "load", "merge", "fold"}
    /\ key \in Keys /\ token \in Keys
    /\ alarms \subseteq Alarms /\ stops \in Nat
    /\ owed \subseteq AllIds /\ blind \in BOOLEAN
    /\ failed \in BOOLEAN

\* An event that was spooled is on disk until it is confirmed, expired or
\* evicted (DeliveryStats: "queued offline events removed only after server
\* ACK").
Durable == owed \subseteq Stored

\* Whatever statement the process stops at, whatever statements fail and
\* however the token rotates, there are two ways to lose a spooled event and
\* no third: a start that could not load the rows (the next flush clears
\* them), and a start under another key.
LossExplained == blind \/ Durable

\* While no statement has failed, no row is unknown to memory between
\* operations: a flush that empties the queue may clear the table.
RowsInMemory == Idle /\ ~failed => Stored \subseteq Ids(queue)

\* While no statement has failed, the pending count matches the table between
\* operations, so that the next verify_spool_metadata has nothing to report.
MetaMatches == Idle /\ ~failed => meta = [n |-> Cardinality(rows), key |-> key]
=============================================================================
