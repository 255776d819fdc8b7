----------------------------- MODULE Watchdog -----------------------------
(***************************************************************************)
(* The external watchdog process (src/bin/watchdog.rs, unix build) and the *)
(* agents it sees only as process ids.  One round of watchdog_loop is      *)
(* monitor_agent, then check_heartbeat; each may call restart_agent, which *)
(* sleeps first when it backs off.  Agents also come and go without it:    *)
(* systemd restarts its unit, a self-update spawns its successor and       *)
(* exits, and any agent may crash.                                         *)
(*                                                                         *)
(* kill(pid, 0) succeeds for a zombie and for whatever process got the id  *)
(* later.  The watchdog never waits for a child it spawned.  Nothing in    *)
(* the agent writes the shared heartbeat, so last_heartbeat is the time of *)
(* the last direct start.                                                  *)
(***************************************************************************)
EXTENDS Naturals, FiniteSets

CONSTANTS
    Pids,           \* process ids
    None,           \* agent_pid = 0
    MaxRestarts,    \* MAX_RESTART_ATTEMPTS
    BaseDelay, MaxDelay,
    Width,          \* bits of the delay arithmetic (64)
    MaxCrashes      \* bound: ends of agents the watchdog did not cause

ASSUME WatchdogAssumption ==
    /\ IsFiniteSet(Pids) /\ None \notin Pids
    /\ MaxRestarts \in Nat /\ Width \in Nat /\ MaxCrashes \in Nat
    /\ BaseDelay \in Nat \ {0} /\ MaxDelay \in Nat /\ BaseDelay <= MaxDelay

VARIABLES
    proc,       \* what runs under a process id
    systemd,    \* the machine has systemd and the unit is installed
    unit,       \* main process of the systemd unit
    known,      \* agent_pid
    attempts,   \* restart_attempts
    delay,      \* what the restart at hand waits
    fresh,      \* last_heartbeat is within the timeout
    pc,         \* where the watchdog is in its round
    present,    \* agent_path exists and can be executed
    crashes,
    hidden      \* an agent was started whose id the watchdog was not told

vars == <<proc, systemd, unit, known, attempts, delay, fresh, pc, present, crashes, hidden>>

\* A child is an agent that the watchdog spawned.
Agents == {p \in Pids : proc[p] \in {"agent", "child"}}
\* Ids for new agents; that one gets the id being watched is left out.
Free == {p \in Pids \ {known} : proc[p] = "free"}

\* The counter saturates where the delay no longer changes.
MaxAttempts == MaxRestarts + Width

\* An agent runs before the watchdog starts, with or without --agent-pid.
Init ==
    \E p \in Pids :
        /\ proc = [q \in Pids |-> IF q = p THEN "agent" ELSE "free"]
        /\ systemd \in BOOLEAN /\ unit \in (IF systemd THEN {p, None} ELSE {None})
        /\ known \in {p, None} /\ hidden = (known = None)
        /\ attempts = 0 /\ delay = 0 /\ fresh = TRUE /\ pc = "monitor"
        /\ present = TRUE /\ crashes = 0

-----------------------------------------------------------------------------
\* is_process_running; kill(0, 0) asks the caller's own group.
IsRunning(p) == p = None \/ proc[p] # "free"

\* Mutant: the exponent starts anew.
DelayRestarted(n) == IF n < MaxRestarts THEN BaseDelay ELSE BaseDelay * 2 ^ (n % 2)

\* BASE * 2^exp in Width bits, at most MAX.
Delay(n) ==
    LET grown == (BaseDelay * 2 ^ (n - MaxRestarts)) % 2 ^ Width
    IN  IF n < MaxRestarts THEN BaseDelay
        ELSE IF grown < MaxDelay THEN grown ELSE MaxDelay

\* restart_agent up to its sleep.
Restart(then) ==
    /\ delay' = Delay(attempts)
    /\ attempts' = IF attempts < MaxAttempts THEN attempts + 1 ELSE attempts
    /\ pc' = then

\* Mutant: every round restarts.
MonitorAlways ==
    /\ pc = "monitor" /\ Restart("restart")
    /\ UNCHANGED <<proc, systemd, unit, known, fresh, present, crashes, hidden>>

\* Mutant: without an id there is nothing to monitor.
MonitorUnknown ==
    /\ pc = "monitor"
    /\ IF ~IsRunning(known)
         THEN Restart("restart")
         ELSE pc' = "heartbeat" /\ UNCHANGED <<attempts, delay>>
    /\ UNCHANGED <<proc, systemd, unit, known, fresh, present, crashes, hidden>>

\* monitor_agent.
Monitor ==
    /\ pc = "monitor"
    /\ IF known = None \/ ~IsRunning(known)
         THEN Restart("restart")
         ELSE pc' = "heartbeat" /\ UNCHANGED <<attempts, delay>>
    /\ UNCHANGED <<proc, systemd, unit, known, fresh, present, crashes, hidden>>

\* Mutant: an agent without heartbeat is restarted, running or not.
CheckHeartbeatForced ==
    /\ pc = "heartbeat"
    /\ IF ~fresh
         THEN Restart("again")
         ELSE pc' = "monitor" /\ UNCHANGED <<attempts, delay>>
    /\ UNCHANGED <<proc, systemd, unit, known, fresh, present, crashes, hidden>>

\* check_heartbeat and what follows it; a hung agent is only logged.
CheckHeartbeat ==
    /\ pc = "heartbeat"
    /\ IF ~fresh /\ ~IsRunning(known)
         THEN Restart("again")
         ELSE pc' = "monitor" /\ UNCHANGED <<attempts, delay>>
    /\ UNCHANGED <<proc, systemd, unit, known, fresh, present, crashes, hidden>>

Restarting == pc \in {"restart", "again"}
Done == pc' = IF pc = "restart" THEN "heartbeat" ELSE "monitor"

\* systemctl restart: the unit's process is replaced.  Its id is not learned.
ViaSystemd ==
    /\ Restarting /\ Done /\ systemd
    /\ \E p \in Free :
         /\ proc' = [q \in Pids |-> IF q = p THEN "agent"
                                    ELSE IF q = unit THEN "free" ELSE proc[q]]
         /\ unit' = p
    /\ hidden' = TRUE
    /\ UNCHANGED <<systemd, known, attempts, delay, fresh, present, crashes>>

\* Direct execution, when systemctl has failed.
SpawnDirect ==
    /\ Restarting /\ Done /\ present
    /\ \E p \in Free : proc' = [proc EXCEPT ![p] = "child"] /\ known' = p
    /\ attempts' = 0 /\ fresh' = TRUE
    /\ UNCHANGED <<systemd, unit, delay, present, crashes, hidden>>

\* There is nothing to execute: the error is logged.
NotFound ==
    /\ Restarting /\ Done /\ ~present
    /\ UNCHANGED <<proc, systemd, unit, known, attempts, delay, fresh, present, crashes, hidden>>

-----------------------------------------------------------------------------
(* The rest of the machine.                                                *)

\* A child of the watchdog stays as a zombie.
Ended(p) == IF proc[p] = "child" THEN "zombie" ELSE "free"
Gone(p) == unit' = IF unit = p THEN None ELSE unit

Trouble == crashes < MaxCrashes /\ crashes' = crashes + 1

Crash(p) ==
    /\ Trouble /\ p \in Agents
    /\ proc' = [proc EXCEPT ![p] = Ended(p)] /\ Gone(p)
    /\ UNCHANGED <<systemd, known, attempts, delay, fresh, pc, present, hidden>>

\* install_update: the successor is spawned and the agent exits.  (systemd
\* ends a unit's successor with the unit: then it is a Crash.)
SelfUpdate(p) ==
    /\ Trouble /\ p \in Agents \ {unit}
    /\ \E q \in Free : proc' = [proc EXCEPT ![p] = Ended(p), ![q] = "agent"]
    /\ hidden' = TRUE
    /\ UNCHANGED <<systemd, unit, known, attempts, delay, fresh, pc, present>>

\* Restart=always: systemd starts its unit again.
UnitRestart ==
    /\ systemd /\ unit = None
    /\ \E p \in Free : proc' = [proc EXCEPT ![p] = "agent"] /\ unit' = p
    /\ hidden' = TRUE
    /\ UNCHANGED <<systemd, known, attempts, delay, fresh, pc, present, crashes>>

\* Another program gets a process id that an agent had.
Reuse(p) ==
    /\ Trouble /\ p = known /\ proc[p] = "free"
    /\ proc' = [proc EXCEPT ![p] = "other"]
    /\ UNCHANGED <<systemd, unit, known, attempts, delay, fresh, pc, present, hidden>>

\* The updater's rename and copy.
Vanish ==
    /\ Trouble /\ present /\ present' = FALSE
    /\ UNCHANGED <<proc, systemd, unit, known, attempts, delay, fresh, pc, hidden>>

Appear ==
    /\ ~present /\ present' = TRUE
    /\ UNCHANGED <<proc, systemd, unit, known, attempts, delay, fresh, pc, crashes, hidden>>

\* The heartbeat timeout passes.
Tick ==
    /\ fresh /\ fresh' = FALSE
    /\ UNCHANGED <<proc, systemd, unit, known, attempts, delay, pc, present, crashes, hidden>>

Round == Monitor \/ CheckHeartbeat \/ ViaSystemd \/ SpawnDirect \/ NotFound
Machine ==
    \/ \E p \in Pids : Crash(p) \/ SelfUpdate(p) \/ Reuse(p)
    \/ UnitRestart \/ Vanish \/ Appear \/ Tick

Next == Round \/ Machine
Spec == Init /\ [][Next]_vars

\* The watchdog's thread runs, and an update that fails is put right.
LiveSpec == Spec /\ WF_vars(Round) /\ WF_vars(Appear)

-----------------------------------------------------------------------------
(* Properties.                                                             *)

\* Every variable has its type.
TypeOK ==
    /\ proc \in [Pids -> {"free", "agent", "child", "zombie", "other"}]
    /\ unit \in Pids \cup {None} /\ known \in Pids \cup {None}
    /\ attempts \in 0..MaxAttempts
    /\ pc \in {"monitor", "restart", "heartbeat", "again"}
    /\ {systemd, fresh, present, hidden} \subseteq BOOLEAN /\ crashes \in 0..MaxCrashes

\* "Restarts agent if process dies unexpectedly" never makes two of them, as
\* long as the watchdog was told the id of every agent that was started.
NoTwin == Cardinality(Agents) <= 1 \/ hidden

\* restart_agent never ends an agent that the watchdog watches.
SparesWatched == [][pc' # pc /\ known \in Agents => known \in Agents']_vars

\* Without a direct start in between, the delay never shrinks, as long as the
\* arithmetic does not wrap; it is at most MAX_RESTART_DELAY.
BacksOff ==
    [][/\ delay' < delay => attempts = 0 \/ attempts >= MaxRestarts + Width
       /\ delay' <= MaxDelay]_vars

Blind == known # None /\ proc[known] \in {"zombie", "other"}

\* "Watchdog respawns main agent on crash": when no agent is left one comes
\* back, unless the id the watchdog knows is that of a child it never waited
\* for or has been given to another program.
ComesBack == Agents = {} ~> (Agents # {} \/ Blind)
=============================================================================
