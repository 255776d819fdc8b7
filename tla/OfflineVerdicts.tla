-------------------------- MODULE OfflineVerdicts --------------------------
(***************************************************************************)
(* Verdicts of files analysed while the backend is unreachable             *)
(* (src/analyzers/offline_detection.rs, pipeline.rs) and their hand-over   *)
(* in the reconnect arm of the main loop (src/main.rs).  The hand-over is  *)
(* one telemetry event, so it goes through the triage filter: this module  *)
(* is EventTriage and the main loop around it.  The payload of a hand-over *)
(* begins with the number of verdicts and the hash and path of the first,  *)
(* which makes its dedup key (SyncKeys); the times of the analysis are     *)
(* beyond the bytes that the key covers, so a verdict is its file.         *)
(*                                                                         *)
(* The main task analyses and hands over, one after the other; the monitor *)
(* notifies it of a reconnection when it happens to listen.                *)
(***************************************************************************)
EXTENDS EventTriage, Sequences, SequencesExt

CONSTANTS
    Files,
    MaxVerdicts,    \* verdict_queue_max
    Limit           \* verdicts per hand-over (500)

SyncKeys == (1..Limit) \X Files

\* A hand-over is not an event of Low priority.
ASSUME VerdictAssumption ==
    /\ MaxVerdicts \in Nat /\ Limit \in Nat
    /\ SyncKeys \subseteq Keys \ LowKeys

VARIABLES
    queue,          \* verdict_queue
    reachable,      \* the backend's health endpoint answers
    available,      \* backend_available
    checked,        \* last_backend_check is within backend_check_interval
    connected,      \* the client's connection state
    main            \* the main task: listening for a reconnection, in another
                    \* arm, or handing over

\* What the properties observe.
VARIABLES
    told,           \* files of which the transport took a verdict
    lost,           \* files of which verdicts were acked and none was taken
    heard           \* the last step was a reconnection the main task heard

own == <<queue, reachable, available, checked, connected, main, told, lost, heard>>
filter == vars
all == <<own, filter>>

OfflineInit ==
    /\ queue = <<>> /\ reachable \in BOOLEAN /\ available = FALSE /\ checked = FALSE
    /\ connected \in BOOLEAN /\ main = "listening"
    /\ told = {} /\ lost = {} /\ heard = FALSE
    /\ Init

-----------------------------------------------------------------------------
\* Mutant: the newest verdict is dropped, one place late.
PushedLate(q, f) == IF Len(q) > MaxVerdicts THEN q ELSE Append(q, f)

\* enqueue_verdict: the oldest go when the queue is full.
Pushed(q, f) ==
    Append(IF Len(q) >= MaxVerdicts THEN SubSeq(q, Len(q) - MaxVerdicts + 2, Len(q)) ELSE q, f)

\* run_offline_detection: with the backend up, YARA alone, and no verdict.
Analyse(f) ==
    /\ main = "listening"
    /\ available' = IF checked THEN available ELSE reachable
    /\ checked' = TRUE
    /\ queue' = IF available' THEN queue ELSE Pushed(queue, f)
    /\ heard' = FALSE
    /\ UNCHANGED <<reachable, connected, main, told, lost, filter>>

\* Another arm of the main loop takes its time.
Busy ==
    /\ main = "listening" /\ main' = "busy" /\ heard' = FALSE
    /\ UNCHANGED <<queue, reachable, available, checked, connected, told, lost, filter>>

Back ==
    /\ main = "busy" /\ main' = "listening" /\ heard' = FALSE
    /\ UNCHANGED <<queue, reachable, available, checked, connected, told, lost, filter>>

\* Mutant: the filter's key is the number of verdicts only.
SyncKeyCount(batch) == <<Len(batch), CHOOSE f \in Files : TRUE>>

SyncKey(batch) == <<Len(batch), Head(batch)>>

\* send_telemetry says Ok whatever becomes of the event: merged by the
\* filter, or sent, or spooled.
Accept(batch) ==
    LET e == [key |-> SyncKey(batch), raised |-> FALSE] IN
    \/ /\ connected /\ Merge(e, TRUE)
       /\ UNCHANGED told
    \/ /\ connected /\ Admit(e, TRUE)
       /\ told' = told \cup ToSet(batch)
    \/ /\ ~connected /\ UNCHANGED filter
       /\ told' = told \cup ToSet(batch)

\* Mutant: nothing is acked.
Unacked(n) == queue

\* ack_verdicts.
Acked(n) == SubSeq(queue, n + 1, Len(queue))

\* The reconnect arm: peek_verdicts, send_telemetry, ack_verdicts.
HandOver ==
    LET n == IF Len(queue) < Limit THEN Len(queue) ELSE Limit
        batch == SubSeq(queue, 1, n) IN
    /\ main = "sync" /\ main' = "listening"
    /\ available' = TRUE /\ checked' = TRUE
    /\ IF n = 0
         THEN UNCHANGED <<queue, told, lost, filter>>
         ELSE /\ Accept(batch)
              /\ queue' = Acked(n)
              /\ lost' = (lost \cup ToSet(batch)) \ told'
    /\ heard' = FALSE
    /\ UNCHANGED <<reachable, connected>>

\* The monitor has reconnected: notify_waiters.
Reconnect ==
    /\ ~connected /\ connected' = TRUE
    /\ main' = IF main = "listening" THEN "sync" ELSE main
    /\ heard' = (main = "listening")
    /\ UNCHANGED <<queue, reachable, available, checked, told, lost, filter>>

Drop ==
    /\ connected /\ connected' = FALSE /\ heard' = FALSE
    /\ UNCHANGED <<queue, reachable, available, checked, main, told, lost, filter>>

Flip ==
    /\ reachable' = ~reachable /\ heard' = FALSE
    /\ UNCHANGED <<queue, available, checked, connected, main, told, lost, filter>>

\* Other telemetry of the connected agent.
Telemetry ==
    /\ connected
    /\ \E e \in Event, last \in BOOLEAN :
         /\ e.key \notin SyncKeys
         /\ Pass(e, last) \/ Merge(e, last) \/ Admit(e, last)
    /\ heard' = FALSE
    /\ UNCHANGED <<queue, reachable, available, checked, connected, main, told, lost>>

\* Time passes, for the filter and for the check's cache.
Pause ==
    /\ Tick /\ checked' = FALSE /\ heard' = FALSE
    /\ UNCHANGED <<queue, reachable, available, connected, main, told, lost>>

OfflineNext ==
    \/ \E f \in Files : Analyse(f)
    \/ Busy \/ Back \/ HandOver
    \/ Reconnect \/ Drop \/ Flip \/ Telemetry \/ Pause

OfflineSpec == OfflineInit /\ [][OfflineNext]_all
               /\ WF_all(HandOver) /\ WF_all(Back) /\ WF_all(Pause)

-----------------------------------------------------------------------------
(* Properties.                                                             *)

\* Every variable has its type, and the queue its limit; one of 0 holds one
\* verdict.
OfflineTypeOK ==
    /\ queue \in Seq(Files) /\ (Len(queue) <= MaxVerdicts \/ Len(queue) = 1)
    /\ {reachable, available, checked, connected, heard} \subseteq BOOLEAN
    /\ main \in {"listening", "busy", "sync"}
    /\ told \subseteq Files /\ lost \subseteq Files
    /\ TypeOK

\* "so reconnect churn cannot lose local ML/YARA evidence": of the first
\* verdict of every hand-over the transport has taken one, now or before.
\* Those behind it may be lost, when the filter merges the hand-over with
\* one of the same length and first verdict.
FirstTold ==
    [][queue' # queue /\ main = "sync" => Head(queue) \in told']_all

\* A file is lost only behind another one, in a hand-over that came within
\* the filter's window of one that was sent.
LostBehind ==
    [][\A f \in lost' \ lost :
         /\ f # Head(queue)
         /\ \E k \in SyncKeys : k[1] > 1 /\ k[2] = Head(queue) /\ sentAge[k] < Window]_all

\* Once the backend stays reachable, and as long as reconnections are heard,
\* the verdicts are all handed over, Limit at a time.
HandedOver == (<>[]reachable /\ []<>heard) => <>[](queue = <<>>)
=============================================================================
