------------------------ MODULE ConnectionLifecycle ------------------------
(***************************************************************************)
(* BackendClient's connection (src/transport/mod.rs): the initial connect  *)
(* and the monitor that reconnects, the three tasks of each connection     *)
(* (sender, stale guard, reader), the abort handles through which a        *)
(* reconnect stops them, telemetry callers that declare the connection     *)
(* dead, and disconnect.                                                   *)
(*                                                                         *)
(* abort() is not awaited.  It stops a task at an await; a task in the     *)
(* middle of a poll goes on, so one that is past its last wait may still   *)
(* do what it was about to do, or never do it (Reap).                      *)
(***************************************************************************)
EXTENDS Naturals, Sequences

CONSTANTS
    MaxGens         \* bound: connections start to fail only before this many

ASSUME LifecycleAssumption == MaxGens \in Nat \ {0}

Kinds == {"sender", "guard", "reader"}
Places == {"wait", "run", "sleep", "stale", "drain", "close", "mark", "done"}

VARIABLES
    state,          \* ConnectionState
    shutdown,       \* the flag, and whether disconnect has returned
    mon,            \* the task that connects: connect(), then the monitor
    first,          \* it is connect()'s attempt 0
    link,           \* the socket of each connection
    pc,             \* where the tasks of each connection are
    killed,         \* aborted tasks that have not ended
    handles,        \* connection_tasks
    fresh           \* last_heartbeat_at is within the stale limit

tasks == <<link, pc, killed, handles>>
vars == <<state, shutdown, mon, first, link, pc, killed, handles, fresh>>

Now    == Len(pc)
Gens   == 1..Now
Tasks  == Gens \X Kinds
Failing == Now < MaxGens

At(g, k, p) == pc[g][k] = p /\ <<g, k>> \notin killed
Goto(g, k, p) ==
    /\ pc' = [pc EXCEPT ![g][k] = p]
    /\ killed' = IF p = "done" THEN killed \ {<<g, k>>} ELSE killed

\* handles.drain(..) and abort().
Ended(t) == pc[t[1]][t[2]] = "done"
AbortAll ==
    /\ killed' = killed \cup {t \in handles : ~Ended(t)}
    /\ handles' = {}

LostIfConnected == state' = IF state = "Connected" THEN "Disconnected" ELSE state

Init ==
    /\ state = "Disconnected" /\ shutdown = "no"
    /\ mon = "abort" /\ first = TRUE
    /\ link = <<>> /\ pc = <<>> /\ killed = {} /\ handles = {}
    /\ fresh = FALSE

-----------------------------------------------------------------------------
(* connect_with_retry.                                                     *)

AbortOld ==
    /\ mon = "abort" /\ mon' = "begin"
    /\ AbortAll
    /\ UNCHANGED <<state, shutdown, first, link, pc, fresh>>

BeginConnect ==
    /\ mon = "begin" /\ mon' = "handshake"
    /\ state' = IF first THEN "Connecting" ELSE "Reconnecting"
    /\ UNCHANGED <<shutdown, first, tasks, fresh>>

\* TCP, TLS, the WebSocket upgrade and the channel join; of these only the
\* join has a timeout.
HandshakeOk ==
    /\ mon = "handshake" /\ mon' = "up"
    /\ UNCHANGED <<state, shutdown, first, tasks, fresh>>

HandshakeErr ==
    /\ mon = "handshake" /\ mon' = "failed"
    /\ UNCHANGED <<state, shutdown, first, tasks, fresh>>

HandshakeHangs ==
    /\ Failing
    /\ mon = "handshake" /\ mon' = "hung"
    /\ UNCHANGED <<state, shutdown, first, tasks, fresh>>

MarkConnected ==
    /\ mon = "up" /\ mon' = "seen"
    /\ state' = "Connected"
    /\ UNCHANGED <<shutdown, first, tasks, fresh>>

MarkSeen ==
    /\ mon = "seen" /\ mon' = "spawn"
    /\ fresh' = TRUE
    /\ UNCHANGED <<state, shutdown, first, tasks>>

Started == [k \in Kinds |-> CASE k = "sender" -> "wait"
                              [] k = "guard"  -> "sleep"
                              [] k = "reader" -> "run"]

SpawnTasks ==
    /\ mon = "spawn" /\ mon' = "store"
    /\ link' = Append(link, "open")
    /\ pc' = Append(pc, Started)
    /\ UNCHANGED <<state, shutdown, first, killed, handles, fresh>>

\* Mutant: the sender's handle is not kept.
StoreHandlesTwo ==
    /\ mon = "store" /\ mon' = IF first THEN "check" ELSE "notify"
    /\ handles' = handles \cup ({Now} \X {"guard", "reader"})
    /\ first' = FALSE
    /\ UNCHANGED <<state, shutdown, link, pc, killed, fresh>>

StoreHandles ==
    /\ mon = "store" /\ mon' = IF first THEN "check" ELSE "notify"
    /\ handles' = handles \cup ({Now} \X Kinds)
    /\ first' = FALSE
    /\ UNCHANGED <<state, shutdown, link, pc, killed, fresh>>

\* notify_waiters, which OfflineVerdicts is about; the rest of the monitor's
\* round.
NotifyReconnect ==
    /\ mon = "notify" /\ mon' = "sleep"
    /\ UNCHANGED <<state, shutdown, first, tasks, fresh>>

-----------------------------------------------------------------------------
(* connect and spawn_connection_monitor around it.                         *)

\* Mutant: the state is left as the attempt set it.
AttemptFailedSilently ==
    /\ mon = "failed" /\ mon' = IF first THEN "check" ELSE "sleep"
    /\ first' = FALSE
    /\ UNCHANGED <<state, shutdown, tasks, fresh>>

\* Back to Disconnected, whatever it is now; the monitor then backs off.
AttemptFailed ==
    /\ mon = "failed" /\ mon' = IF first THEN "check" ELSE "sleep"
    /\ state' = "Disconnected" /\ first' = FALSE
    /\ UNCHANGED <<shutdown, tasks, fresh>>

\* Mutant: does not look at the shutdown flag.
CheckAlways ==
    /\ mon = "check"
    /\ mon' = CASE state = "Connected"    -> IF fresh THEN "sleep" ELSE "stale"
                [] state = "Disconnected" -> "abort"
                [] OTHER                  -> "sleep"
    /\ UNCHANGED <<state, shutdown, first, tasks, fresh>>

\* One round of the monitor's loop.
Check ==
    /\ mon = "check"
    /\ mon' = CASE shutdown # "no"        -> "done"
                [] state = "Connected"    -> IF fresh THEN "sleep" ELSE "stale"
                [] state = "Disconnected" -> "abort"
                [] OTHER                  -> "sleep"
    /\ UNCHANGED <<state, shutdown, first, tasks, fresh>>

CheckMark ==
    /\ mon = "stale" /\ mon' = "drain"
    /\ state' = "Disconnected"
    /\ UNCHANGED <<shutdown, first, tasks, fresh>>

\* The round goes on with what it read: it was connected.
CheckDrain ==
    /\ mon = "drain" /\ mon' = "sleep"
    /\ AbortAll
    /\ UNCHANGED <<state, shutdown, first, link, pc, fresh>>

\* Five seconds later: an aborted task has ended by then.
MonitorWake ==
    /\ mon = "sleep" /\ mon' = "check" /\ killed = {}
    /\ UNCHANGED <<state, shutdown, first, tasks, fresh>>

Monitor ==
    \/ AbortOld \/ BeginConnect \/ MarkConnected \/ MarkSeen \/ SpawnTasks
    \/ StoreHandles \/ NotifyReconnect \/ AttemptFailed \/ Check \/ CheckMark
    \/ CheckDrain \/ MonitorWake

-----------------------------------------------------------------------------
(* The tasks of connection g.                                              *)

\* The receiver of the outgoing channel is locked until its holder ends.
Holds(g) == pc[g]["sender"] \in {"run", "mark"}

SenderLock(g) ==
    /\ At(g, "sender", "wait")
    /\ \A h \in Gens : ~Holds(h)
    /\ Goto(g, "sender", "run")
    /\ UNCHANGED <<state, shutdown, mon, first, link, handles, fresh>>

\* A write fails, or the reader has dropped the last sender of the internal
\* channel.
SenderBreak(g) ==
    /\ At(g, "sender", "run")
    /\ link[g] = "closed" \/ (pc[g]["reader"] = "done" /\ mon # "store")
    /\ Goto(g, "sender", "mark")
    /\ UNCHANGED <<state, shutdown, mon, first, link, handles, fresh>>

\* A peer that is gone may take writes for ever, or a write may time out.
SenderTimeout(g) ==
    /\ At(g, "sender", "run") /\ link[g] = "half"
    /\ Goto(g, "sender", "mark")
    /\ UNCHANGED <<state, shutdown, mon, first, link, handles, fresh>>

SenderMark(g) ==
    /\ pc[g]["sender"] = "mark" /\ Goto(g, "sender", "done")
    /\ LostIfConnected
    /\ UNCHANGED <<shutdown, mon, first, link, handles, fresh>>

\* The guard wakes every stale_guard_after.
GuardWake(g) ==
    /\ At(g, "guard", "sleep")
    /\ state # "Connected" \/ ~fresh
    /\ Goto(g, "guard", IF state # "Connected" THEN "done" ELSE "stale")
    /\ UNCHANGED <<state, shutdown, mon, first, link, handles, fresh>>

GuardMark(g) ==
    /\ pc[g]["guard"] = "stale" /\ Goto(g, "guard", "drain")
    /\ LostIfConnected
    /\ UNCHANGED <<shutdown, mon, first, link, handles, fresh>>

\* Aborts whatever connection_tasks holds by now, itself included.
GuardDrain(g) ==
    /\ pc[g]["guard"] = "drain"
    /\ pc' = [pc EXCEPT ![g]["guard"] = "done"]
    /\ killed' = (killed \cup {t \in handles : ~Ended(t)}) \ {<<g, "guard">>}
    /\ handles' = {}
    /\ UNCHANGED <<state, shutdown, mon, first, link, fresh>>

\* Any frame: it proves that the backend is there.
Receive(g) ==
    /\ At(g, "reader", "run") /\ link[g] = "open" /\ ~fresh
    /\ fresh' = TRUE
    /\ UNCHANGED <<state, shutdown, mon, first, tasks>>

\* A Close frame or an error leads to an unconditional write of the state,
\* the end of the stream does not.
ReaderBreak(g) ==
    /\ At(g, "reader", "run") /\ link[g] = "closed"
    /\ \/ Goto(g, "reader", "close")
       \/ Goto(g, "reader", "mark")
    /\ UNCHANGED <<state, shutdown, mon, first, link, handles, fresh>>

ReaderClose(g) ==
    /\ pc[g]["reader"] = "close" /\ Goto(g, "reader", "mark")
    /\ state' = "Disconnected"
    /\ UNCHANGED <<shutdown, mon, first, link, handles, fresh>>

ReaderMark(g) ==
    /\ pc[g]["reader"] = "mark" /\ Goto(g, "reader", "done")
    /\ LostIfConnected
    /\ UNCHANGED <<shutdown, mon, first, link, handles, fresh>>

\* An aborted task ends where it is, and releases what it holds.
Reap(g, k) ==
    /\ <<g, k>> \in killed /\ Goto(g, k, "done")
    /\ UNCHANGED <<state, shutdown, mon, first, link, handles, fresh>>

Task(g) ==
    \/ SenderLock(g) \/ SenderBreak(g) \/ SenderMark(g)
    \/ GuardWake(g) \/ GuardMark(g) \/ GuardDrain(g)
    \/ Receive(g) \/ ReaderBreak(g) \/ ReaderClose(g) \/ ReaderMark(g)
    \/ \E k \in Kinds : Reap(g, k)

-----------------------------------------------------------------------------
(* The network, telemetry callers, disconnect.                             *)

\* The connection closes, or the peer is gone without a word: writes may
\* go on, reads wait.
LinkFails ==
    /\ Now > 0 /\ link[Now] = "open" /\ Failing
    /\ \E l \in {"closed", "half"} : link' = [link EXCEPT ![Now] = l]
    /\ UNCHANGED <<state, shutdown, mon, first, pc, killed, handles, fresh>>

\* The sender runs, or is about to.
SenderUp(g) ==
    \/ At(g, "sender", "run")
    \/ At(g, "sender", "wait") /\ \A h \in Gens : ~Holds(h)

\* Mutant: what the agent sends counts as a sign of life.
HeardOnSend(g) == link[g] \in {"open", "half"} /\ SenderUp(g) /\ At(g, "reader", "run")

\* While heartbeats go out and the backend is there, its answers come within
\* the stale limit.
Heard(g) == link[g] = "open" /\ SenderUp(g) /\ At(g, "reader", "run")

\* The stale limit, 30s or more, passes without traffic from the backend; an
\* aborted task ends long before.
GoStale ==
    /\ fresh /\ fresh' = FALSE
    /\ ~(Now > 0 /\ Heard(Now)) /\ mon \notin {"spawn", "store"} /\ killed = {}
    /\ UNCHANGED <<state, shutdown, mon, first, tasks>>

\* A caller of send_telemetry that saw Connected times out, and writes
\* Disconnected whichever connection there is by then.
SendTimeout ==
    /\ Now > 0 /\ Failing
    /\ state' = "Disconnected"
    /\ UNCHANGED <<shutdown, mon, first, tasks, fresh>>

DisconnectBegin ==
    /\ shutdown = "no" /\ shutdown' = "set"
    /\ UNCHANGED <<state, mon, first, tasks, fresh>>

DisconnectEnd ==
    /\ shutdown = "set" /\ shutdown' = "over"
    /\ state' = "Disconnected"
    /\ UNCHANGED <<mon, first, tasks, fresh>>

Next ==
    \/ Monitor
    \/ HandshakeOk \/ HandshakeErr \/ HandshakeHangs
    \/ \E g \in Gens : Task(g) \/ SenderTimeout(g)
    \/ LinkFails \/ GoStale
    \/ SendTimeout
    \/ DisconnectBegin \/ DisconnectEnd

\* Tokio runs every task that is ready; timers fire; a backend that answers
\* attempts again and again in the end accepts one.  No behaviour has more
\* than MaxGens + 2 connections.
Fairness ==
    /\ WF_vars(Monitor)
    /\ WF_vars(HandshakeOk \/ HandshakeErr) /\ SF_vars(HandshakeOk)
    /\ WF_vars(GoStale)
    /\ \A g \in 1..(MaxGens + 2) : WF_vars(g \in Gens /\ Task(g))

Spec == Init /\ [][Next]_vars /\ Fairness

-----------------------------------------------------------------------------
(* Properties.                                                             *)

\* Every variable has its type.
TypeOK ==
    /\ state \in {"Disconnected", "Connecting", "Reconnecting", "Connected"}
    /\ shutdown \in {"no", "set", "over"} /\ first \in BOOLEAN /\ fresh \in BOOLEAN
    /\ mon \in {"abort", "begin", "handshake", "hung", "up", "seen", "spawn", "store",
                "notify", "failed", "check", "stale", "drain", "sleep", "done"}
    /\ link \in Seq({"open", "half", "closed"})
    /\ pc \in Seq([Kinds -> Places])
    /\ Len(link) = Len(pc)
    /\ killed \subseteq Tasks /\ handles \subseteq Tasks

\* "without this reset the condition would be false on the next iteration,
\* permanently blocking retries": no round of the monitor finds an attempt
\* that nobody is making.
NoWedge == mon \in {"check", "sleep"} => state \in {"Connected", "Disconnected"}

\* "Abort any existing connection-specific tasks to avoid deadlocks": once a
\* new attempt is under way, every task of an earlier connection has ended or
\* been told to, whoever else aborted tasks or ended meanwhile.
NoStrays ==
    \A g \in Gens : \A k \in Kinds :
        (g < Now \/ mon \in {"begin", "handshake", "up", "seen", "spawn"})
            => Ended(<<g, k>>) \/ <<g, k>> \in killed

\* The connection in use is open in both directions, and known to be.
Healthy ==
    /\ state = "Connected" /\ Now > 0 /\ link[Now] = "open"
    /\ At(Now, "sender", "run") /\ At(Now, "reader", "run")

\* Until shutdown the agent is connected again and again, whatever happened to
\* earlier connections: closed, gone silent, declared dead by a caller, their
\* tasks aborted in any order.  Only a handshake that never ends stops it.
Recovers == []<>(shutdown # "no" \/ Healthy \/ mon = "hung")

\* disconnect stops the monitor, whatever the tasks still write, unless it is
\* in a handshake that never ends.
MonitorStops == (shutdown # "no") ~> (mon \in {"done", "hung"})
=============================================================================
