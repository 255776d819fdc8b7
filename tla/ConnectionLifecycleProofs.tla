--------------------- MODULE ConnectionLifecycleProofs ---------------------
(***************************************************************************)
(* Proofs about ConnectionLifecycle, for any number of connections.        *)
(*                                                                         *)
(* NoStrays is not inductive: that a reconnect aborts every old task rests *)
(* on connection_tasks naming every task that is neither ended nor already *)
(* told to end (Covered), except between spawn and store; on its naming    *)
(* tasks of the present connection only (HandlesCurrent); and on its being *)
(* empty from the abort until the new handles are stored (HandlesEmpty).   *)
(* NoWedge rests on the monitor being in an attempt whenever the state says*)
(* that one is under way (Attempted).                                      *)
(***************************************************************************)
EXTENDS ConnectionLifecycle, TLAPS

Down(t) == Ended(t) \/ t \in killed

Connecting == {"begin", "handshake", "hung", "failed", "up", "seen", "spawn", "store"}

Attempted == state \in {"Connecting", "Reconnecting"}
                => mon \in {"handshake", "hung", "failed", "up"}
HandlesCurrent == \A t \in handles : t[1] = Now
HandlesEmpty == mon \in Connecting => handles = {}
Covered == \A t \in Tasks : Down(t) \/ t \in handles \/ (mon = "store" /\ t[1] = Now)

Spawned == mon = "store" => Now > 0

IInv == TypeOK /\ Attempted /\ HandlesCurrent /\ HandlesEmpty /\ Covered /\ Spawned

-----------------------------------------------------------------------------
(* Steps of tasks.                                                         *)

\* Moving a task, but not out of its end, keeps the types, forgets no task that is
\* down, and adds or removes no connection.
LEMMA GotoKeeps ==
    ASSUME TypeOK, NEW g \in Gens, NEW k \in Kinds, NEW p \in Places,
           pc[g][k] # "done" \/ p = "done", Goto(g, k, p)
    PROVE  /\ pc' \in Seq([Kinds -> Places])
           /\ Now' = Now /\ Gens' = Gens /\ Tasks' = Tasks
           /\ killed' \subseteq Tasks
           /\ \A t \in Tasks : Down(t) => Down(t)'
  <1>1. pc \in Seq([Kinds -> Places]) /\ killed \subseteq Tasks
    BY DEF TypeOK
  <1>2. pc' = [pc EXCEPT ![g] = [pc[g] EXCEPT ![k] = p]]
    BY DEF Goto
  <1>3. g \in 1..Len(pc) /\ pc[g] \in [Kinds -> Places]
    BY <1>1 DEF Gens, Now
  <1>4. [pc[g] EXCEPT ![k] = p] \in [Kinds -> Places]
    BY <1>3
  <1>5. pc' \in Seq([Kinds -> Places]) /\ Len(pc') = Len(pc)
    BY <1>1, <1>2, <1>3, <1>4
  <1>6. Now' = Now /\ Gens' = Gens /\ Tasks' = Tasks
    BY <1>5 DEF Now, Gens, Tasks
  <1>7. killed' \subseteq Tasks
    BY <1>1 DEF Goto
  <1>8. ASSUME NEW t \in Tasks, Down(t) PROVE Down(t)'
    <2>1. PICK h \in Gens, j \in Kinds : t = <<h, j>>
      BY DEF Tasks
    <2>2. CASE h = g /\ j = k
      <3>1. CASE p = "done"
        BY <2>1, <2>2, <3>1, <1>2, <1>3, <1>1 DEF Down, Ended, Gens, Now
      <3>2. CASE p # "done"
        BY <1>8, <2>1, <2>2, <3>2 DEF Down, Ended, Goto
      <3> QED BY <3>1, <3>2
    <2>3. CASE ~(h = g /\ j = k)
      <3>1. pc'[h][j] = pc[h][j]
        BY <2>3, <1>1, <1>2, <1>3 DEF Gens, Now
      <3>2. t \in killed => t \in killed'
        BY <2>1, <2>3 DEF Goto
      <3> QED BY <1>8, <2>1, <3>1, <3>2 DEF Down, Ended
    <2> QED BY <2>2, <2>3
  <1> QED BY <1>5, <1>6, <1>7, <1>8

\* A step that moves one task, and may write a final state, keeps IInv.
LEMMA TaskMove ==
    ASSUME IInv, NEW g \in Gens, NEW k \in Kinds, NEW p \in Places,
           pc[g][k] # "done" \/ p = "done", Goto(g, k, p),
           state' \in {state, "Disconnected"},
           UNCHANGED <<shutdown, mon, first, link, handles, fresh>>
    PROVE  IInv'
  <1>0. TypeOK BY DEF IInv
  <1>1. /\ pc' \in Seq([Kinds -> Places])
        /\ Now' = Now /\ Gens' = Gens /\ Tasks' = Tasks
        /\ killed' \subseteq Tasks
        /\ \A t \in Tasks : Down(t) => Down(t)'
    BY <1>0, GotoKeeps
  <1>2. TypeOK'
    BY <1>0, <1>1 DEF TypeOK, Now
  <1>3. Attempted'
    BY DEF IInv, Attempted
  <1>4. HandlesCurrent' /\ HandlesEmpty'
    BY <1>1 DEF IInv, HandlesCurrent, HandlesEmpty
  <1>5. Covered' /\ Spawned'
    BY <1>1 DEF IInv, Covered, Spawned
  <1> QED BY <1>2, <1>3, <1>4, <1>5 DEF IInv

\* Telling every task in the list to end keeps what is known of them.
LEMMA AbortKeeps ==
    ASSUME IInv, AbortAll, UNCHANGED <<link, pc>>, mon # "store"
    PROVE  /\ killed' \subseteq Tasks' /\ handles' = {}
           /\ Now' = Now /\ Tasks' = Tasks
           /\ \A t \in Tasks : Down(t)'
  <1>1. Now' = Now /\ Tasks' = Tasks
    BY DEF Now, Tasks, Gens
  <1>2. killed' \subseteq Tasks
    BY DEF IInv, TypeOK, AbortAll
  <1>3. \A t \in Tasks : Down(t) \/ t \in handles
    BY DEF IInv, Covered
  <1>4. \A t \in Tasks : Down(t)'
    BY <1>3 DEF Down, AbortAll, Ended
  <1> QED BY <1>1, <1>2, <1>4 DEF AbortAll

\* A step that leaves the tasks alone keeps IInv if it keeps the rest.
LEMMA TasksAlone ==
    ASSUME IInv, UNCHANGED tasks,
           state' \in {"Disconnected", "Connecting", "Reconnecting", "Connected"},
           shutdown' \in {"no", "set", "over"},
           first' \in BOOLEAN, fresh' \in BOOLEAN,
           mon' \in {"abort", "begin", "handshake", "hung", "up", "seen", "spawn", "store",
                     "notify", "failed", "check", "stale", "drain", "sleep", "done"},
           mon' \in Connecting => mon \in Connecting,
           (mon' = "store") = (mon = "store"),
           Attempted'
    PROVE  IInv'
  <1>1. Now' = Now /\ Tasks' = Tasks
    BY DEF tasks, Now, Tasks, Gens
  <1>2. TypeOK'
    BY <1>1 DEF IInv, TypeOK, tasks, Now
  <1>3. HandlesCurrent' /\ HandlesEmpty'
    BY <1>1 DEF IInv, HandlesCurrent, HandlesEmpty, tasks
  <1>4. Covered' /\ Spawned'
    BY <1>1 DEF IInv, Covered, Down, Ended, Spawned, tasks
  <1> QED BY <1>2, <1>3, <1>4 DEF IInv

-----------------------------------------------------------------------------
(* The invariant.                                                          *)

LEMMA InitInvariant == Init => IInv
  <1> SUFFICES ASSUME Init PROVE IInv
    OBVIOUS
  <1>1. Now = 0 /\ Gens = {} /\ Tasks = {}
    BY DEF Init, Now, Gens, Tasks
  <1>2. pc = <<>> /\ pc \in Seq([Kinds -> Places])
    BY DEF Init
  <1>3. link = <<>> /\ link \in Seq({"open", "half", "closed"})
    BY DEF Init
  <1>4. killed \subseteq Tasks /\ handles \subseteq Tasks /\ Len(link) = Len(pc)
    BY <1>2, <1>3 DEF Init
  <1>5. TypeOK
    BY <1>2, <1>3, <1>4 DEF Init, TypeOK
  <1> QED
    BY <1>1, <1>5 DEF Init, IInv, Attempted, HandlesCurrent, HandlesEmpty, Covered, Spawned

LEMMA NextInvariant == IInv /\ [Next]_vars => IInv'
  <1> SUFFICES ASSUME IInv, [Next]_vars PROVE IInv'
    OBVIOUS
  <1> USE DEF Connecting
  <1>0. TypeOK BY DEF IInv
  <1>1. CASE AbortOld
    <2>1. /\ killed' \subseteq Tasks' /\ handles' = {}
          /\ Now' = Now /\ Tasks' = Tasks
          /\ \A t \in Tasks : Down(t)'
      BY <1>1, AbortKeeps DEF AbortOld
    <2>2. TypeOK'
      BY <1>0, <1>1, <2>1 DEF TypeOK, AbortOld, Now
    <2> QED BY <1>1, <2>1, <2>2
         DEF IInv, AbortOld, Attempted, HandlesCurrent, HandlesEmpty, Covered, Spawned
  <1>2. CASE CheckDrain
    <2>1. /\ killed' \subseteq Tasks' /\ handles' = {}
          /\ Now' = Now /\ Tasks' = Tasks
          /\ \A t \in Tasks : Down(t)'
      BY <1>2, AbortKeeps DEF CheckDrain
    <2>2. TypeOK'
      BY <1>0, <1>2, <2>1 DEF TypeOK, CheckDrain, Now
    <2> QED BY <1>2, <2>1, <2>2
         DEF IInv, CheckDrain, Attempted, HandlesCurrent, HandlesEmpty, Covered, Spawned
  <1>3. CASE SpawnTasks
    <2>1. /\ link \in Seq({"open", "half", "closed"}) /\ Len(link) = Len(pc)
          /\ pc \in Seq([Kinds -> Places]) /\ killed \subseteq Tasks
      BY <1>0 DEF TypeOK
    <2>2. Started \in [Kinds -> Places]
      BY DEF Started, Kinds, Places
    <2>3. /\ pc' \in Seq([Kinds -> Places]) /\ Now' = Now + 1
          /\ link' \in Seq({"open", "half", "closed"}) /\ Len(link') = Len(pc')
          /\ \A g \in Gens : pc'[g] = pc[g]
      BY <1>3, <2>1, <2>2 DEF SpawnTasks, Now, Gens
    <2>4. Now \in Nat
      BY <2>1 DEF Now
    <2>5. Tasks \subseteq Tasks' /\ (\A t \in Tasks' : t \in Tasks \/ t[1] = Now')
      BY <2>3, <2>4 DEF Tasks, Gens
    <2>6. TypeOK'
      BY <1>0, <1>3, <2>1, <2>3, <2>5 DEF TypeOK, SpawnTasks
    <2>7. handles = {} /\ handles' = {} /\ mon = "spawn" /\ mon' = "store"
      BY <1>3 DEF IInv, HandlesEmpty, SpawnTasks
    <2>8. Covered'
      <3>1. ASSUME NEW t \in Tasks PROVE Down(t)'
        <4>1. Down(t)
          BY <2>7, <3>1 DEF IInv, Covered
        <4>2. t[1] \in Gens
          BY <3>1 DEF Tasks
        <4> QED BY <4>1, <4>2, <2>3, <1>3 DEF Down, Ended, SpawnTasks
      <3> QED BY <3>1, <2>5, <2>7 DEF Covered
    <2>9. Attempted'
      BY <1>3, <2>7 DEF IInv, Attempted, SpawnTasks
    <2> QED BY <2>3, <2>4, <2>6, <2>7, <2>8, <2>9
         DEF IInv, HandlesCurrent, HandlesEmpty, Spawned
  <1>4. CASE StoreHandles
    <2>1. Now' = Now /\ Gens' = Gens /\ Tasks' = Tasks
      BY <1>4 DEF StoreHandles, Now, Gens, Tasks
    <2>2. handles = {} /\ mon = "store" /\ handles' = {Now} \X Kinds
      BY <1>4 DEF IInv, HandlesEmpty, StoreHandles
    <2>3. \A t \in Tasks : t[1] = Now => t \in handles'
      BY <2>2 DEF Tasks
    <2>4. Covered'
      BY <1>4, <2>1, <2>2, <2>3 DEF IInv, Covered, Down, Ended, StoreHandles
    <2>5. HandlesCurrent'
      BY <2>1, <2>2 DEF HandlesCurrent
    <2>6. Now > 0 /\ Now \in Nat
      BY <1>0, <2>2 DEF IInv, Spawned, TypeOK, Now
    <2>7. handles' \subseteq Tasks'
      BY <2>1, <2>2, <2>6 DEF Tasks, Gens
    <2>8. TypeOK'
      BY <1>0, <1>4, <2>1, <2>7 DEF TypeOK, StoreHandles, Now
    <2> QED BY <1>4, <2>4, <2>5, <2>8
         DEF IInv, StoreHandles, Attempted, HandlesEmpty, Spawned
  <1>5. CASE BeginConnect
    BY <1>0, <1>5, TasksAlone DEF BeginConnect, IInv, TypeOK, Attempted
  <1>6. CASE HandshakeOk
    BY <1>0, <1>6, TasksAlone DEF HandshakeOk, IInv, TypeOK, Attempted
  <1>7. CASE HandshakeErr
    BY <1>0, <1>7, TasksAlone DEF HandshakeErr, IInv, TypeOK, Attempted
  <1>8. CASE HandshakeHangs
    BY <1>0, <1>8, TasksAlone DEF HandshakeHangs, IInv, TypeOK, Attempted
  <1>9. CASE MarkConnected
    BY <1>0, <1>9, TasksAlone DEF MarkConnected, IInv, TypeOK, Attempted
  <1>10. CASE MarkSeen
    BY <1>0, <1>10, TasksAlone DEF MarkSeen, IInv, TypeOK, Attempted
  <1>11. CASE NotifyReconnect
    BY <1>0, <1>11, TasksAlone DEF NotifyReconnect, IInv, TypeOK, Attempted
  <1>12. CASE AttemptFailed
    BY <1>0, <1>12, TasksAlone DEF AttemptFailed, IInv, TypeOK, Attempted
  <1>13. CASE Check
    BY <1>0, <1>13, TasksAlone DEF Check, IInv, TypeOK, Attempted
  <1>14. CASE CheckMark
    BY <1>0, <1>14, TasksAlone DEF CheckMark, IInv, TypeOK, Attempted
  <1>15. CASE MonitorWake
    BY <1>0, <1>15, TasksAlone DEF MonitorWake, IInv, TypeOK, Attempted
  <1>16. CASE GoStale
    <2>1. fresh' \in BOOLEAN /\ UNCHANGED <<state, shutdown, mon, first, tasks>>
      BY <1>16, Zenon DEF GoStale
    <2> QED BY <1>0, <2>1, TasksAlone DEF IInv, TypeOK, Attempted
  <1>17. CASE SendTimeout
    BY <1>0, <1>17, TasksAlone DEF SendTimeout, IInv, TypeOK, Attempted
  <1>18. CASE DisconnectBegin
    BY <1>0, <1>18, TasksAlone DEF DisconnectBegin, IInv, TypeOK, Attempted
  <1>19. CASE DisconnectEnd
    BY <1>0, <1>19, TasksAlone DEF DisconnectEnd, IInv, TypeOK, Attempted
  <1>21. CASE LinkFails
    <2>1. Now' = Now /\ Tasks' = Tasks
      BY <1>21 DEF LinkFails, Now, Tasks, Gens
    <2>2. PICK l \in {"closed", "half"} : link' = [link EXCEPT ![Now] = l]
      BY <1>21 DEF LinkFails
    <2>3. link' \in Seq({"open", "half", "closed"}) /\ Len(link') = Len(link)
      BY <1>0, <1>21, <2>2 DEF TypeOK, LinkFails, Now
    <2>4. TypeOK'
      BY <1>0, <1>21, <2>1, <2>3 DEF TypeOK, LinkFails
    <2> QED BY <1>21, <2>1, <2>4
         DEF IInv, LinkFails, Attempted, HandlesCurrent, HandlesEmpty, Covered, Spawned, Down, Ended
  <1>22. ASSUME NEW g \in Gens, Task(g) \/ SenderTimeout(g) PROVE IInv'
    <2> USE DEF Kinds, Places, At
    <2>1. CASE SenderLock(g)
      BY <2>1, TaskMove DEF SenderLock, LostIfConnected
    <2>2. CASE SenderBreak(g)
      BY <2>2, TaskMove DEF SenderBreak, LostIfConnected
    <2>3. CASE SenderMark(g)
      BY <2>3, TaskMove DEF SenderMark, LostIfConnected
    <2>4. CASE SenderTimeout(g)
      BY <2>4, TaskMove DEF SenderTimeout, LostIfConnected
    <2>5. CASE GuardWake(g)
      BY <2>5, TaskMove DEF GuardWake, LostIfConnected
    <2>6. CASE GuardMark(g)
      BY <2>6, TaskMove DEF GuardMark, LostIfConnected
    <2>7. CASE ReaderBreak(g)
      BY <2>7, TaskMove DEF ReaderBreak, LostIfConnected
    <2>8. CASE ReaderClose(g)
      BY <2>8, TaskMove DEF ReaderClose, LostIfConnected
    <2>9. CASE ReaderMark(g)
      BY <2>9, TaskMove DEF ReaderMark, LostIfConnected
    <2>10. CASE Receive(g)
      BY <1>0, <2>10, TasksAlone DEF Receive, IInv, TypeOK, Attempted
    <2>11. ASSUME NEW k \in Kinds, Reap(g, k) PROVE IInv'
      BY <2>11, TaskMove DEF Reap
    <2>12. CASE GuardDrain(g)
      <3>1. /\ pc \in Seq([Kinds -> Places]) /\ killed \subseteq Tasks /\ g \in 1..Len(pc)
            /\ handles \subseteq Tasks
        BY <1>0 DEF TypeOK, Gens, Now
      <3>2. /\ pc' = [pc EXCEPT ![g] = [pc[g] EXCEPT !["guard"] = "done"]]
            /\ killed' = (killed \cup {t \in handles : ~Ended(t)}) \ {<<g, "guard">>}
            /\ handles' = {}
        BY <2>12 DEF GuardDrain
      <3>3. pc' \in Seq([Kinds -> Places]) /\ Len(pc') = Len(pc)
        BY <3>1, <3>2
      <3>4. Now' = Now /\ Gens' = Gens /\ Tasks' = Tasks
        BY <3>3 DEF Now, Gens, Tasks
      <3>5. ASSUME NEW t \in Tasks, Down(t) \/ t \in handles PROVE Down(t)'
        <4>1. PICK h \in Gens, j \in Kinds : t = <<h, j>>
          BY DEF Tasks
        <4>2. CASE h = g /\ j = "guard"
          BY <3>1, <3>2, <4>1, <4>2 DEF Down, Ended, Gens, Now
        <4>3. CASE ~(h = g /\ j = "guard")
          <5>1. pc'[h][j] = pc[h][j]
            BY <3>1, <3>2, <4>3 DEF Gens, Now
          <5> QED BY <3>2, <3>5, <4>1, <4>3, <5>1 DEF Down, Ended
        <4> QED BY <4>2, <4>3
      <3>6. killed' \subseteq Tasks'
        BY <3>1, <3>2, <3>4
      <3>7. TypeOK'
        BY <1>0, <2>12, <3>2, <3>3, <3>4, <3>6 DEF TypeOK, GuardDrain
      <3>8. Covered'
        BY <2>12, <3>4, <3>5 DEF IInv, Covered, GuardDrain
      <3> QED BY <2>12, <3>2, <3>4, <3>7, <3>8
           DEF IInv, GuardDrain, Attempted, HandlesCurrent, HandlesEmpty, Spawned
    <2> QED BY <2>1, <2>2, <2>3, <2>4, <2>5, <2>6, <2>7, <2>8, <2>9, <2>10, <2>11, <2>12, <1>22 DEF Task
  <1>23. CASE UNCHANGED vars
    BY <1>0, <1>23, TasksAlone DEF vars, tasks, IInv, TypeOK, Attempted
  <1> QED BY <1>1, <1>2, <1>3, <1>4, <1>5, <1>6, <1>7, <1>8, <1>9, <1>10, <1>11, <1>12, <1>13, <1>14, <1>15, <1>16, <1>17, <1>18, <1>19, <1>21, <1>22, <1>23 DEF Next, Monitor

-----------------------------------------------------------------------------
(* Theorems.                                                               *)

\* The inductive invariant holds in every reachable state.
THEOREM Invariance == Spec => []IInv
  <1>1. Init => IInv BY InitInvariant
  <1>2. IInv /\ [Next]_vars => IInv' BY NextInvariant
  <1> QED BY <1>1, <1>2, PTL DEF Spec

\* The client's state is well typed, for any number of connections.
THEOREM TypeCorrect == Spec => []TypeOK
  <1>1. IInv => TypeOK BY DEF IInv
  <1> QED BY <1>1, Invariance, PTL

\* No round of spawn_connection_monitor finds Connecting or Reconnecting, so
\* none skips a reconnection that is due.
THEOREM NeverWedged == Spec => []NoWedge
  <1>1. IInv => NoWedge BY DEF IInv, TypeOK, Attempted, NoWedge
  <1> QED BY <1>1, Invariance, PTL

\* connect_with_retry aborts every task of every earlier connection.
THEOREM OldTasksAborted == Spec => []NoStrays
  <1>1. IInv => NoStrays
    <2> SUFFICES ASSUME IInv, NEW g \in Gens, NEW k \in Kinds,
                        g < Now \/ mon \in {"begin", "handshake", "up", "seen", "spawn"}
                 PROVE  Down(<<g, k>>)
      BY DEF NoStrays, Down
    <2>1. <<g, k>> \in Tasks BY DEF Tasks
    <2>2. Down(<<g, k>>) \/ <<g, k>> \in handles \/ (mon = "store" /\ g = Now)
      BY <2>1 DEF IInv, Covered
    <2>3. <<g, k>> \in handles => g = Now
      BY DEF IInv, HandlesCurrent
    <2>4. mon \in {"begin", "handshake", "up", "seen", "spawn"} => handles = {}
      BY DEF IInv, HandlesEmpty, Connecting
    <2>5. Now \in Nat /\ g \in Nat
      BY DEF IInv, TypeOK, Now, Gens
    <2> QED BY <2>2, <2>3, <2>4, <2>5
  <1> QED BY <1>1, Invariance, PTL
=============================================================================
