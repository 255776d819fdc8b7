-------------------------- MODULE WatchdogProofs --------------------------
(***************************************************************************)
(* The watchdog leaves alone what it watches, and makes no twins of what   *)
(* it was told of, for any number of process ids and crashes.              *)
(*                                                                         *)
(* Both rest on one fact: between the look at the process id and the end   *)
(* of restart_agent, a back-off of up to five minutes, the id the watchdog *)
(* knows stays that of no agent (Unwatched).                               *)
(***************************************************************************)
EXTENDS Watchdog, FiniteSetTheorems, TLAPS

Shape ==
    /\ proc \in [Pids -> {"free", "agent", "child", "zombie", "other"}]
    /\ known \in Pids \cup {None}
    /\ hidden \in BOOLEAN
    /\ pc \in {"monitor", "restart", "heartbeat", "again"}

\* A restart is under way only when the known id is of no agent.
Unwatched == Restarting => known \notin Agents

\* Every agent is the known one, until one was started behind its back.
Told == hidden \/ Agents \subseteq {known}

Inv == Shape /\ Unwatched /\ Told

LEMMA InitInv == Init => Inv
  BY WatchdogAssumption DEF Init, Inv, Shape, Unwatched, Restarting, Told, Agents

LEMMA RoundInv == ASSUME Inv, Round PROVE Inv'
<1>1. CASE Monitor
  BY <1>1, WatchdogAssumption
     DEF Monitor, Restart, IsRunning, Inv, Shape, Unwatched, Restarting, Told, Agents
<1>2. CASE CheckHeartbeat
  BY <1>2, WatchdogAssumption
     DEF CheckHeartbeat, Restart, IsRunning, Inv, Shape, Unwatched, Restarting, Told, Agents
<1>3. CASE ViaSystemd
  BY <1>3 DEF ViaSystemd, Done, Free, Inv, Shape, Unwatched, Restarting, Told, Agents
<1>4. CASE SpawnDirect
  <2>1. Shape' /\ ~Restarting'
    BY <1>4 DEF SpawnDirect, Done, Restarting, Free, Inv, Shape
  <2>2. Told'
    BY <1>4 DEF SpawnDirect, Free, Inv, Shape, Unwatched, Told, Agents
  <2>. QED BY <2>1, <2>2 DEF Inv, Unwatched
<1>5. CASE NotFound
  BY <1>5 DEF NotFound, Done, Inv, Shape, Unwatched, Restarting, Told, Agents
<1>. QED BY <1>1, <1>2, <1>3, <1>4, <1>5 DEF Round

LEMMA MachineInv == ASSUME Inv, Machine PROVE Inv'
<1>1. CASE \E p \in Pids : Crash(p)
  BY <1>1 DEF Crash, Ended, Inv, Shape, Unwatched, Restarting, Told, Agents
<1>2. CASE \E p \in Pids : SelfUpdate(p)
  BY <1>2 DEF SelfUpdate, Ended, Free, Inv, Shape, Unwatched, Restarting, Told, Agents
<1>3. CASE \E p \in Pids : Reuse(p)
  BY <1>3 DEF Reuse, Inv, Shape, Unwatched, Restarting, Told, Agents
<1>4. CASE UnitRestart
  BY <1>4 DEF UnitRestart, Free, Inv, Shape, Unwatched, Restarting, Told, Agents
<1>5. CASE Vanish \/ Appear \/ Tick
  BY <1>5 DEF Vanish, Appear, Tick, Inv, Shape, Unwatched, Restarting, Told, Agents
<1>. QED BY <1>1, <1>2, <1>3, <1>4, <1>5 DEF Machine

LEMMA NextInv == ASSUME Inv, [Next]_vars PROVE Inv'
<1>1. CASE UNCHANGED vars
  BY <1>1 DEF vars, Inv, Shape, Unwatched, Restarting, Told, Agents
<1>. QED BY <1>1, RoundInv, MachineInv DEF Next

THEOREM AlwaysInv == Spec => []Inv
  BY InitInv, NextInv, PTL DEF Spec

Rest ==
    /\ unit \in Pids \cup {None} /\ attempts \in 0..MaxAttempts /\ crashes \in 0..MaxCrashes
    /\ systemd \in BOOLEAN /\ fresh \in BOOLEAN /\ present \in BOOLEAN

LEMMA RestInit == Init => Rest
  BY WatchdogAssumption DEF Init, Rest, MaxAttempts

LEMMA RestNext == ASSUME Inv, Rest, [Next]_vars PROVE Rest'
<1>1. CASE UNCHANGED vars BY <1>1 DEF vars, Rest
<1>2. CASE Round
  <2>1. attempts' = attempts \/ attempts' = 0 \/ (attempts < MaxAttempts /\ attempts' = attempts + 1)
    BY <1>2 DEF Round, Monitor, CheckHeartbeat, ViaSystemd, SpawnDirect, NotFound, Restart
  <2>2. attempts' \in 0..MaxAttempts /\ UNCHANGED <<systemd, crashes, present>>
    BY <1>2, <2>1, WatchdogAssumption
       DEF Round, Monitor, CheckHeartbeat, ViaSystemd, SpawnDirect, NotFound, MaxAttempts, Rest
  <2>3. unit' \in Pids \cup {None}
    BY <1>2 DEF Round, Monitor, CheckHeartbeat, ViaSystemd, SpawnDirect, NotFound, Free, Rest
  <2>4. fresh' \in BOOLEAN
    BY <1>2 DEF Round, Monitor, CheckHeartbeat, ViaSystemd, SpawnDirect, NotFound, Rest
  <2>. QED BY <2>2, <2>3, <2>4 DEF Rest
<1>3. CASE Machine
  <2>1. crashes' = crashes \/ (crashes < MaxCrashes /\ crashes' = crashes + 1)
    BY <1>3 DEF Machine, Crash, SelfUpdate, Reuse, UnitRestart, Vanish, Appear, Tick, Trouble
  <2>2. crashes' \in 0..MaxCrashes
    BY <2>1, WatchdogAssumption DEF Rest
  <2>3. unit' \in Pids \cup {None}
    BY <1>3 DEF Machine, Crash, SelfUpdate, Reuse, UnitRestart, Vanish, Appear, Tick, Gone, Free, Rest
  <2>4. fresh' \in BOOLEAN /\ present' \in BOOLEAN /\ UNCHANGED <<systemd, attempts>>
    BY <1>3 DEF Machine, Crash, SelfUpdate, Reuse, UnitRestart, Vanish, Appear, Tick, Rest
  <2>. QED BY <2>2, <2>3, <2>4 DEF Rest
<1>. QED BY <1>1, <1>2, <1>3 DEF Next

\* The watchdog's counters stay within their limits and every variable has its
\* type.
THEOREM TypeCorrect == Spec => []TypeOK
<1>1. Inv /\ Rest => TypeOK
  BY DEF Inv, Shape, Rest, TypeOK
<1>. QED BY <1>1, AlwaysInv, RestInit, RestNext, PTL DEF Spec

\* restart_agent makes a second agent only when one was started whose id the
\* watchdog was not told.
THEOREM NoTwinsOfKnown == Spec => []NoTwin
<1>1. ASSUME Inv PROVE NoTwin
  <2>1. CASE hidden BY <2>1 DEF NoTwin
  <2>2. CASE ~hidden
    <3>1. Agents \subseteq {known}
      BY <1>1, <2>2 DEF Inv, Told
    <3>2. Cardinality({known}) = 1 /\ IsFiniteSet({known})
      BY FS_Singleton
    <3>3. Cardinality(Agents) <= Cardinality({known})
      BY <3>1, <3>2, FS_Subset
    <3>. QED BY <3>2, <3>3 DEF NoTwin
  <2>. QED BY <2>1, <2>2
<1>. QED BY <1>1, AlwaysInv, PTL

\* No step of the watchdog ends the agent it watches.
THEOREM WatchedIsSpared == Spec => SparesWatched
<1>1. ASSUME Inv, [Next]_vars
      PROVE  [pc' # pc /\ known \in Agents => known \in Agents']_vars
  <2>1. CASE UNCHANGED vars BY <2>1 DEF vars
  <2>2. CASE Round
    <3>1. CASE Monitor \/ CheckHeartbeat
      BY <3>1 DEF Monitor, CheckHeartbeat, Agents
    <3>2. CASE ViaSystemd \/ SpawnDirect \/ NotFound
      BY <1>1, <3>2 DEF ViaSystemd, SpawnDirect, NotFound, Inv, Unwatched
    <3>. QED BY <2>2, <3>1, <3>2 DEF Round
  <2>3. CASE Machine
    BY <2>3 DEF Machine, Crash, SelfUpdate, Reuse, UnitRestart, Vanish, Appear, Tick
  <2>. QED BY <1>1, <2>1, <2>2, <2>3 DEF Next
<1>. QED BY <1>1, AlwaysInv, PTL DEF Spec, SparesWatched
=============================================================================
