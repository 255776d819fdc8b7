------------------------- MODULE SelfUpdateProofs -------------------------
(***************************************************************************)
(* Proofs about SelfUpdate, for any number of versions, updates, backups   *)
(* kept, tasks and ends of the process.                                    *)
(*                                                                         *)
(* Only the types are claimed once two tasks were in perform_update at the *)
(* same time; before that, Safe says what each place of the update and of  *)
(* the start-up check may rely on.                                         *)
(***************************************************************************)
EXTENDS SelfUpdate, SequenceTheorems, TLAPS

Places == {"idle", "ended", "run", "backup", "entry", "pend", "flag", "fetch", "verify",
           "install", "move", "place", "mark", "restart", "undo",
           "check", "aside", "restore", "clean", "clear", "confirm", "unflag", "retain",
           "legacy", "back", "swap", "wipe", "unmark", "tidy"}

Locals == [pc : Places, target : Versions \cup {None}, self : Paths \cup {None}]

Placed == {"place", "mark", "restart", "undo"}
Imaged == {"check", "aside", "confirm", "retain", "legacy", "back"}

\* perform_update knows its version, install_update its path, and both run
\* only when the start-up check is over, which knows the same.
Types ==
    /\ TypeOK /\ loc \in [Actors -> Locals]
    /\ \A t \in Tasks :
         /\ loc[t].pc \notin Resting => loc[t].target \in Versions /\ loc[Main].pc = "run"
         /\ loc[t].pc \in Placed => loc[t].self \in Paths
    /\ loc[Main].pc \in {"aside", "restore"} => loc[Main].target \in Versions
    /\ loc[Main].pc \in {"restore", "swap"} => loc[Main].self \in Paths
    /\ loc[Main].pc \in Imaged => img \in Paths

Odd(S) == odd \cap S # {}

\* One task updates, and only when the start-up check is over.
Alone ==
    /\ \A t, u \in Tasks : loc[t].pc \notin Resting /\ loc[u].pc \notin Resting => t = u
    /\ \A t \in Tasks : loc[t].pc \notin Resting => up /\ loc[Main].pc = "run"

\* The running image is the version that runs.
Image == up /\ img # None => file[img] = ver

\* A process whose image is gone has left a whole binary in place.
Gone == up /\ img = None => file["exe"] \in Versions \/ Odd({"again", "strayed"})

\* The .bak is a binary that ran.
Kin == file["bak"] \in Versions \cup {None}

\* install_update: the download is verified, the image is moved aside, and
\* what is put in its place is the download.
Installing(t) ==
    LET p == loc[t].pc IN
      /\ p \in {"install", "move", "place"} => temp[loc[t].target] = loc[t].target
      /\ p = "move" => /\ file["bak"] = None /\ img # "bak"
                       /\ loc[t].self = img \/ (loc[t].self = "bak" /\ img = None)
      /\ p \in {"place", "mark", "restart"} => img = "bak"
      /\ p \in {"place", "mark", "restart"} => loc[t].self # "bak"
      /\ p \in {"move", "place", "mark", "restart"} => loc[t].self = "exe" \/ Odd({"strayed"})
      /\ p = "mark" => file["exe"] = loc[t].target \/ Odd({"strayed"})
      /\ p = "undo" => loc[t].self = "bak" /\ file["bak"] = None

\* A backup is whole, or was pruned.
Good(v) == backup[v] = v \/ (backup[v] = None /\ "pruned" \in odd) \/ Odd({"again"})

\* create_backup and set_pending_rollback.
Backing(t) ==
    /\ loc[t].pc \in {"entry", "pend", "flag"} => Good(ver)
    /\ loc[t].pc = "flag" => Loaded.pending = ver

\* What a start would roll back to.
Promised == Pending # None => Good(Pending)

\* The path a process is started from: that of the binary, or .broken when a
\* process that ran from there has installed another.
Home(q) == q = "exe" \/ (q = "broken" /\ Odd({"strayed"}))

\* What the start-up check relies on from one step to the next.
Checking ==
    LET p == loc[Main].pc IN
      /\ p \in Imaged \cup {"tidy"} => Home(img)
      /\ p \in {"restore", "clean", "swap"} => img = "broken"
      /\ p = "wipe" => img = "broken" \/ (img = None /\ Odd({"strayed"}))
      /\ p \in {"restore", "swap"} => Home(loc[Main].self)
      /\ p = "clear" => img = None
      /\ p \in {"unflag", "unmark"} => img = None \/ Home(img)
      /\ p \in {"aside", "restore"} => backup[loc[Main].target] \in Versions \/ Odd({"again"})
      /\ p \in {"back", "swap"} => file["bak"] \in Versions
      /\ p \in {"clean", "wipe"} => file["exe"] \in Versions \/ Odd({"again", "strayed"})
      /\ p = "unflag" => Loaded.pending = None

\* The binary is away: install_update or a rollback has moved it.
Hole ==
    up /\ \/ \E t \in Tasks : loc[t].pc = "place" /\ loc[t].self = "exe"
          \/ loc[Main].pc \in {"restore", "swap"} /\ loc[Main].self = "exe"

InPlace == file["exe"] \in Versions \/ Hole \/ Odd({"gap", "again"})

Left == Copies \cap Versions # {} \/ Odd({"again", "strayed"})

Safe ==
    /\ Alone /\ Image /\ Gone /\ Kin /\ Promised /\ Checking /\ InPlace /\ Left
    /\ \A t \in Tasks : Installing(t) /\ Backing(t)

IInv == Types /\ ("overlap" \in odd \/ Safe)

-----------------------------------------------------------------------------
(* Steps of the tasks.                                                     *)

LEMMA ActorFacts ==
  Tasks \subseteq Actors /\ Main \in Actors /\ Main \notin Tasks
BY UpdateAssumption DEF Actors

LEMMA StepFacts ==
  ASSUME loc \in [Actors -> Locals], NEW a \in Actors, NEW l \in Locals, NEW p \in Places,
         Step(a, l, p)
  PROVE  /\ loc' \in [Actors -> Locals] /\ loc'[a].pc = p
         /\ p \notin Resting => loc'[a].target = l.target /\ loc'[a].self = l.self
         /\ \A b \in Actors : b # a => loc'[b] = loc[b]
<1>1. Local(p) \in Locals /\ Local(p).pc = p
  BY DEF Local, Locals
<1>2. [l EXCEPT !.pc = p] \in Locals /\ [l EXCEPT !.pc = p].pc = p
      /\ [l EXCEPT !.pc = p].target = l.target /\ [l EXCEPT !.pc = p].self = l.self
  BY DEF Locals
<1> DEFINE new == IF p \in Resting THEN Local(p) ELSE [l EXCEPT !.pc = p]
<1>3. new \in Locals /\ new.pc = p /\ (p \notin Resting => new.target = l.target /\ new.self = l.self)
  BY <1>1, <1>2
<1>4. loc' = [loc EXCEPT ![a] = new]
  BY DEF Step
<1> HIDE DEF new
<1> QED BY <1>3, <1>4

LEMMA GotoFacts ==
  ASSUME loc \in [Actors -> Locals], NEW a \in Actors, NEW p \in Places, Goto(a, p)
  PROVE  /\ loc' \in [Actors -> Locals] /\ loc'[a].pc = p
         /\ p \notin Resting => loc'[a].target = loc[a].target /\ loc'[a].self = loc[a].self
         /\ \A b \in Actors : b # a => loc'[b] = loc[b]
<1>1. loc[a] \in Locals
  OBVIOUS
<1> QED BY <1>1, StepFacts DEF Goto

\* While a task updates, the others rest and the start-up check is over.
LEMMA TaskFrame ==
  ASSUME Types, Alone, NEW t \in Tasks, loc[t].pc \notin Resting,
         loc' \in [Actors -> Locals], \A b \in Actors : b # t => loc'[b] = loc[b], up' = up
  PROVE  /\ up /\ loc[Main].pc = "run" /\ loc'[Main].pc = "run"
         /\ \A u \in Tasks : u # t => loc[u].pc \in Resting /\ loc'[u].pc \in Resting
         /\ Alone'
<1>1. up /\ loc[Main].pc = "run" /\ loc'[Main].pc = "run"
  BY ActorFacts DEF Alone
<1>2. \A u \in Tasks : u # t => loc[u].pc \in Resting /\ loc'[u].pc \in Resting
  BY ActorFacts DEF Alone
<1>3. Alone'
  BY <1>1, <1>2 DEF Alone
<1> QED BY <1>1, <1>2, <1>3

-----------------------------------------------------------------------------
(* The rollback state.                                                     *)

LEMMA LoadedFacts ==
  ASSUME Types
  PROVE  /\ Loaded \in State /\ Loaded.backups \in Seq(Versions)
         /\ Loaded.pending \in Versions \cup {None} /\ Pending \in Versions \cup {None}
<1>1. DefaultState \in State
  BY EmptySeq DEF DefaultState, State
<1>2. Loaded \in State
  BY <1>1 DEF Types, TypeOK, Loaded
<1> QED BY <1>2 DEF State, Pending

\* save_state, whole or torn.
LEMMA SaveFacts ==
  ASSUME Types, NEW a \in Actors, NEW s \in State, Len(s.backups) <= MaxBackups,
         NEW ok \in Places, NEW err \in Places, Save(a, s, ok, err)
  PROVE  /\ st' \in State \cup {Torn} /\ Len(Loaded'.backups) <= MaxBackups
         /\ \/ Goto(a, ok) /\ Loaded' = s
            \/ Goto(a, err) /\ Loaded' = DefaultState
<1>1. DefaultState \in State /\ Len(DefaultState.backups) = 0
  BY EmptySeq DEF DefaultState, State
<1>2. s # Torn /\ MaxBackups \in Nat
  BY UpdateAssumption
<1>3. CASE st' = s /\ Goto(a, ok)
  <2>1. Loaded' = s
    BY <1>2, <1>3 DEF Loaded
  <2> QED BY <1>3, <2>1
<1>4. CASE st' = Torn /\ Goto(a, err)
  <2>1. Loaded' = DefaultState
    BY <1>4 DEF Loaded
  <2> QED BY <1>1, <1>2, <1>4, <2>1
<1> QED BY <1>3, <1>4 DEF Save

\* Pruning keeps at least the newest entry, and at most MaxBackups.
LEMMA KeptFacts ==
  ASSUME NEW s \in Seq(Versions)
  PROVE  /\ Kept(s) \in Seq(Versions) /\ Len(Kept(s)) <= MaxBackups
         /\ s # <<>> => s[1] \in Listed(Kept(s))
<1> DEFINE m == IF Len(s) < MaxBackups THEN Len(s) ELSE MaxBackups
<1>1. m \in Nat /\ m <= MaxBackups /\ m <= Len(s) /\ (s # <<>> => m >= 1)
  BY UpdateAssumption, LenProperties, EmptySeq
<1> HIDE DEF m
<1> DEFINE k == SubSeq(s, 1, m)
<1>2. \A i \in 1..m : i \in 1..Len(s)
  BY <1>1, LenProperties
<1>3. k \in Seq(Versions) /\ Len(k) = m /\ \A i \in 1..m : k[i] = s[i]
  BY <1>1, <1>2, SubSeqProperties
<1>4. Kept(s) = k
  BY DEF Kept, k, m
<1> HIDE DEF k
<1>5. ASSUME s # <<>> PROVE s[1] \in Listed(k)
  <2>1. 1 \in 1..m /\ DOMAIN k = 1..m
    BY <1>1, <1>3, <1>5, LenProperties
  <2> QED BY <1>3, <2>1 DEF Listed
<1> QED BY <1>1, <1>3, <1>4, <1>5

\* The entry of a new backup.
LEMMA EntryFacts ==
  ASSUME Types
  PROVE  LET s == <<ver>> \o Loaded.backups
         IN s \in Seq(Versions) /\ s # <<>> /\ s[1] = ver
<1> DEFINE b == Loaded.backups
<1>1. <<ver>> \in Seq(Versions) /\ Len(<<ver>>) = 1 /\ <<ver>>[1] = ver
  BY DEF Types, TypeOK
<1>2. b \in Seq(Versions) /\ Len(b) \in Nat
  BY LoadedFacts, LenProperties
<1> HIDE DEF b
<1> DEFINE v == <<ver>>
           u == v \o b
<1>3. v \in Seq(Versions) /\ Len(v) = 1 /\ v[1] = ver
  BY <1>1
<1> HIDE DEF v
<1>4. u \in Seq(Versions) /\ Len(u) = 1 + Len(b)
      /\ \A i \in 1..(1 + Len(b)) : u[i] = IF i <= 1 THEN v[i] ELSE b[i - 1]
  BY SMTT(60), <1>2, <1>3, ConcatProperties
<1>5. u # <<>> /\ u[1] = ver
  <2>1. 1 \in 1..(1 + Len(b)) /\ Len(u) # 0
    BY <1>2, <1>4
  <2> HIDE DEF u
  <2> QED BY <1>3, <1>4, <2>1, EmptySeq
<1> QED BY <1>4, <1>5 DEF u, v, b

-----------------------------------------------------------------------------
(* Types.                                                                  *)

\* Only task t has moved, and knows its version and path.
Moved(t) ==
    /\ loc' \in [Actors -> Locals] /\ \A b \in Actors : b # t => loc'[b] = loc[b]
    /\ loc'[t].pc \notin Resting => loc'[t].target \in Versions
    /\ loc'[t].pc \in Placed => loc'[t].self \in Paths
    /\ loc[Main].pc = "run"

LEMMA MovedTypes ==
  ASSUME Types, NEW t \in Tasks, Moved(t), TypeOK' PROVE Types'
<1>1. loc'[Main] = loc[Main]
  BY ActorFacts DEF Moved
<1> QED BY <1>1, ActorFacts DEF Types, Moved, Imaged

\* Only the start-up check has moved.
MainMoved ==
    /\ loc' \in [Actors -> Locals] /\ \A t \in Tasks : loc'[t] = loc[t]
    /\ loc'[Main].pc \in {"aside", "restore"} => loc'[Main].target \in Versions
    /\ loc'[Main].pc \in {"restore", "swap"} => loc'[Main].self \in Paths
    /\ loc'[Main].pc \in Imaged => img' \in Paths
    /\ loc[Main].pc # "run"

LEMMA MainMovedTypes == ASSUME Types, MainMoved, TypeOK' PROVE Types'
BY DEF Types, MainMoved

\* A process begins.
LEMMA BeginTypes ==
  ASSUME Types, NEW p \in Paths, Begin(p), UNCHANGED <<disk, auto, count, odd>>
  PROVE  Types'
<1>1. loc' \in [Actors -> Locals] /\ \A a \in Actors : loc'[a].pc = (IF a = Main THEN "check" ELSE "idle")
  BY DEF Begin, Local, Locals, Places
<1>2. TypeOK'
  BY DEF Types, TypeOK, Begin, disk, Loaded
<1>3. img' \in Paths
  BY DEF Begin
<1> QED BY <1>1, <1>2, <1>3, ActorFacts DEF Types, Resting, Placed

LEMMA UpdateTypes ==
  ASSUME Types, NEW t \in Tasks, Update(t) PROVE Types'
<1> USE ActorFacts
<1>a. TypeOK /\ loc \in [Actors -> Locals] /\ loc[t] \in Locals
      /\ (loc[t].pc \notin Resting => loc[t].target \in Versions /\ loc[Main].pc = "run")
      /\ (loc[t].pc \in Placed => loc[t].self \in Paths)
      /\ loc[t].self \in Paths \cup {None}
  BY DEF Types, Locals
<1>b. st' = st => Loaded' = Loaded
  BY DEF Loaded
<1>1. CASE \E v \in Versions : PerformUpdate(t, v) \/ ApplyUpdate(t, v)
  <2>a. PICK v \in Versions, p \in {"backup", "fetch"} : Offer(t, v, p)
    BY <1>1 DEF PerformUpdate, ApplyUpdate
  <2>1. Moved(t)
    <3> DEFINE l == [loc[t] EXCEPT !.target = v]
    <3>1. l \in Locals /\ l.target = v
      BY <1>a DEF Locals
    <3>2. Step(t, l, p) /\ loc[Main].pc = "run"
      BY <2>a DEF Offer
    <3> HIDE DEF l
    <3> QED BY <1>a, <3>1, <3>2, StepFacts DEF Places, Resting, Placed, Moved
  <2>2. TypeOK'
    BY <1>a, <1>b, <2>a DEF Offer, TypeOK, Note, Oddities, disk, proc
  <2> QED BY <2>1, <2>2, MovedTypes
<1>2. CASE CreateBackup(t)
  <2>1. Moved(t)
    BY <1>a, <1>2, GotoFacts DEF CreateBackup, At, Places, Resting, Placed, Moved
  <2>2. TypeOK'
    BY <1>a, <1>b, <1>2 DEF CreateBackup, TypeOK, Note, Oddities, Content, proc
  <2> QED BY <2>1, <2>2, MovedTypes
<1>3. CASE Download(t)
  <2>1. Moved(t)
    BY <1>a, <1>3, GotoFacts DEF Download, At, Places, Resting, Placed, Moved
  <2>2. TypeOK'
    BY <1>a, <1>b, <1>3 DEF Download, TypeOK, Content, proc
  <2> QED BY <2>1, <2>2, MovedTypes
<1>4. CASE Verify(t)
  <2>1. Moved(t)
    BY <1>a, <1>4, GotoFacts DEF Verify, At, Places, Resting, Placed, Moved
  <2>2. TypeOK'
    BY <1>a, <1>b, <1>4 DEF Verify, TypeOK, disk, proc
  <2> QED BY <2>1, <2>2, MovedTypes
<1>5. CASE RemoveOld(t)
  <2>1. Moved(t)
    <3> DEFINE l == [loc[t] EXCEPT !.self = img]
    <3>1. l \in Locals /\ l.target = loc[t].target /\ img \in Paths \cup {None}
      BY <1>a DEF TypeOK, Locals
    <3>2. Step(t, l, "move") /\ loc[t].pc = "install"
      BY <1>5 DEF RemoveOld, At
    <3> HIDE DEF l
    <3> QED BY <1>a, <3>1, <3>2, StepFacts DEF Places, Resting, Placed, Moved
  <2>2. TypeOK'
    BY <1>a, <1>b, <1>5 DEF RemoveOld, TypeOK, Note, Oddities, Content, Paths
  <2> QED BY <2>1, <2>2, MovedTypes
<1>6. CASE MoveAside(t)
  <2>1. Moved(t)
    BY <1>a, <1>6, GotoFacts DEF MoveAside, At, Places, Resting, Placed, Moved
  <2>2. TypeOK'
    BY <1>a, <1>b, <1>6 DEF MoveAside, TypeOK, Renamed, Content, Paths, Ages
  <2> QED BY <2>1, <2>2, MovedTypes
<1>7. CASE Place(t)
  <2>1. Moved(t)
    BY <1>a, <1>7, GotoFacts DEF Place, At, Places, Resting, Placed, Moved
  <2>2. TypeOK'
    <3>1. loc[t].target \in Versions /\ temp[loc[t].target] \in Content /\ Torn \in Content
      BY <1>a, <1>7 DEF Place, At, Resting, TypeOK, Content
    <3>2. file' \in [Paths -> Content] /\ age' \in [Paths -> Ages] /\ odd' \subseteq Oddities
      <4>1. age' \in [Paths -> Ages] /\ odd' \subseteq Oddities
        BY <1>a, <1>7 DEF Place, TypeOK, Note, Oddities, Ages
      <4>2. file' \in [Paths -> Content]
        <5> DEFINE new == temp[loc[t].target]
                   p == loc[t].self
        <5>1. file' = [file EXCEPT ![p] = new] \/ file' = file \/ file' = [file EXCEPT ![p] = Torn]
          BY <1>a, <1>7 DEF Place, TypeOK
        <5>2. new \in Content
          BY <3>1
        <5> HIDE DEF new, p
        <5> QED BY <1>a, <3>1, <5>1, <5>2 DEF TypeOK
      <4> QED BY <4>1, <4>2
    <3> QED BY <1>a, <1>b, <1>7, <3>2 DEF Place, TypeOK, proc
  <2> QED BY <2>1, <2>2, MovedTypes
<1>8. CASE Mark(t)
  <2>1. Moved(t)
    BY <1>a, <1>8, GotoFacts DEF Mark, At, Places, Resting, Placed, Moved
  <2>2. TypeOK'
    <3>1. loc[t].target \in Versions
      BY <1>a, <1>8 DEF Mark, At, Resting
    <3>2. temp' \in [Versions -> Content] /\ marker' \in Content
      BY <1>a, <1>8, <3>1 DEF Mark, TypeOK, Content
    <3> QED BY <1>a, <1>b, <1>8, <3>2 DEF Mark, TypeOK, proc
  <2> QED BY <2>1, <2>2, MovedTypes
<1>9. CASE SpawnFails(t)
  <2>1. Moved(t)
    <3> DEFINE l == [loc[t] EXCEPT !.self = img]
    <3>1. l \in Locals /\ l.target = loc[t].target /\ l.self = img
      BY <1>a DEF TypeOK, Locals
    <3>2. loc[t].pc = "restart" /\ (Goto(t, "idle") \/ (img # None /\ Step(t, l, "undo")))
      BY <1>9 DEF SpawnFails, At
    <3>3. img \in Paths \cup {None}
      BY <1>a DEF TypeOK
    <3> HIDE DEF l
    <3>4. CASE Goto(t, "idle")
      BY <1>a, <3>2, <3>4, GotoFacts DEF Places, Resting, Placed, Moved
    <3>5. CASE img # None /\ Step(t, l, "undo")
      BY <1>a, <3>1, <3>2, <3>3, <3>5, StepFacts DEF Places, Resting, Placed, Moved
    <3> QED BY <3>2, <3>4, <3>5
  <2>2. TypeOK'
    BY <1>a, <1>b, <1>9 DEF SpawnFails, TypeOK, Renamed, Content, Paths
  <2> QED BY <2>1, <2>2, MovedTypes
<1>10. CASE Undo(t)
  <2>1. Moved(t)
    BY <1>a, <1>10, GotoFacts DEF Undo, At, Places, Resting, Placed, Moved
  <2>2. TypeOK'
    BY <1>a, <1>b, <1>10 DEF Undo, TypeOK, Renamed, Content, Paths, Ages
  <2> QED BY <2>1, <2>2, MovedTypes
<1>11. CASE NoRestart(t)
  <2>1. Moved(t)
    BY <1>a, <1>11, GotoFacts DEF NoRestart, At, Places, Resting, Placed, Moved
  <2>2. TypeOK'
    BY <1>a, <1>b, <1>11 DEF NoRestart, TypeOK, disk, proc
  <2> QED BY <2>1, <2>2, MovedTypes
<1>12. CASE WriteFlag(t)
  <2>1. Moved(t)
    BY <1>a, <1>12, GotoFacts DEF WriteFlag, At, Places, Resting, Placed, Moved
  <2>2. TypeOK'
    BY <1>a, <1>b, <1>12 DEF WriteFlag, TypeOK, Content, proc
  <2> QED BY <2>1, <2>2, MovedTypes
<1>13. CASE BackupEntry(t)
  <2> DEFINE s == <<ver>> \o Loaded.backups
             new == [backups |-> Kept(s), pending |-> Loaded.pending]
  <2>1. s \in Seq(Versions)
    BY EntryFacts
  <2> HIDE DEF s
  <2>2. new \in State /\ Len(new.backups) <= MaxBackups
    BY <2>1, LoadedFacts, KeptFacts DEF State
  <2>3. Save(t, new, "pend", "fetch") /\ Prune(s) /\ loc[t].pc = "entry"
    BY <1>13 DEF BackupEntry, At, s
  <2> HIDE DEF new
  <2>4. st' \in State \cup {Torn} /\ Len(Loaded'.backups) <= MaxBackups
        /\ (Goto(t, "pend") \/ Goto(t, "fetch"))
    BY ZenonT(60), <2>2, <2>3, SaveFacts DEF Places
  <2>5. Moved(t)
    BY <1>a, <2>3, <2>4, GotoFacts DEF Places, Resting, Placed, Moved
  <2>6. TypeOK'
    <3>1. backup' \in [Versions -> Content] /\ odd' \subseteq Oddities
      BY <1>a, <2>3 DEF Prune, Note, Oddities, TypeOK, Content
    <3> QED BY <1>a, <1>13, <2>4, <3>1 DEF BackupEntry, TypeOK, proc
  <2> QED BY <2>5, <2>6, MovedTypes
<1>14. CASE SetPending(t)
  <2> DEFINE new == [Loaded EXCEPT !.pending = ver]
  <2>1. new \in State /\ Len(new.backups) <= MaxBackups
    BY <1>a, LoadedFacts DEF State, TypeOK
  <2>2. Save(t, new, "flag", "fetch") /\ loc[t].pc = "pend"
    BY <1>14 DEF SetPending, At
  <2> HIDE DEF new
  <2>3. st' \in State \cup {Torn} /\ Len(Loaded'.backups) <= MaxBackups
        /\ (Goto(t, "flag") \/ Goto(t, "fetch"))
    BY <2>1, <2>2, SaveFacts DEF Places
  <2>4. Moved(t)
    BY <1>a, <2>2, <2>3, GotoFacts DEF Places, Resting, Placed, Moved
  <2>5. TypeOK'
    BY <1>a, <1>14, <2>3 DEF SetPending, TypeOK, proc
  <2> QED BY <2>4, <2>5, MovedTypes
<1>15. CASE Respawn(t)
  <2>1. loc[t].self \in Paths /\ Begin(loc[t].self) /\ UNCHANGED <<disk, auto, count, odd>>
    BY <1>a, <1>15 DEF Respawn, At, Placed
  <2> QED BY <2>1, BeginTypes
<1> QED BY <1>1, <1>2, <1>3, <1>4, <1>5, <1>6, <1>7, <1>8, <1>9, <1>10, <1>11, <1>12, <1>13, <1>14,
           <1>15 DEF Update

LEMMA CheckTypes == ASSUME Types, Check PROVE Types'
<1> USE ActorFacts
<1>a. /\ TypeOK /\ loc \in [Actors -> Locals] /\ loc[Main] \in Locals
      /\ (loc[Main].pc \in {"aside", "restore"} => loc[Main].target \in Versions)
      /\ (loc[Main].pc \in {"restore", "swap"} => loc[Main].self \in Paths)
      /\ (loc[Main].pc \in Imaged => img \in Paths)
  BY DEF Types
<1>b. st' = st => Loaded' = Loaded
  BY DEF Loaded
<1>1. CASE CheckPending
  <2> DEFINE l == [loc[Main] EXCEPT !.target = Pending]
  <2>1. l \in Locals /\ l.target = Pending /\ Pending \in Versions \cup {None}
    BY <1>a, LoadedFacts DEF Locals
  <2>2. PICK p \in {"legacy", "aside", "run", "confirm"} : Step(Main, l, p) /\ (p = "aside" => Pending # None)
    <3>1. age[img] \in Ages
      BY <1>a, <1>1 DEF TypeOK, CheckPending, At, Imaged
    <3> QED BY <1>1, <3>1 DEF CheckPending, Ages
  <2> HIDE DEF l
  <2>3. MainMoved
    <3>1. loc[Main].pc = "check" /\ img \in Paths /\ img' = img
      BY <1>a, <1>1 DEF CheckPending, At, proc, Imaged
    <3> QED BY <1>a, <2>1, <2>2, <3>1, StepFacts DEF Places, Resting, MainMoved
  <2>4. TypeOK'
    BY <1>a, <1>b, <1>1 DEF CheckPending, TypeOK, disk, proc
  <2> QED BY <2>3, <2>4, MainMovedTypes
<1>2. CASE RollbackAside \/ LegacyAside
  <2> DEFINE l == [loc[Main] EXCEPT !.self = img]
  <2>a. img \in Paths /\ loc[Main].pc \in {"aside", "back"}
    BY <1>a, <1>2 DEF RollbackAside, LegacyAside, At, Imaged
  <2>b. l \in Locals /\ l.target = loc[Main].target /\ l.self = img
    BY <1>a, <2>a DEF Locals
  <2>c. \/ loc[Main].pc = "aside" /\ Step(Main, l, "restore")
        \/ loc[Main].pc = "back" /\ Step(Main, l, "swap")
    BY <1>2 DEF RollbackAside, LegacyAside, At
  <2> HIDE DEF l
  <2>1. MainMoved
    BY <1>a, <2>a, <2>b, <2>c, StepFacts DEF Places, Resting, MainMoved, Imaged
  <2>2. TypeOK'
    BY <1>a, <1>b, <1>2, <2>a DEF RollbackAside, LegacyAside, TypeOK, Renamed, Content, Paths
  <2> QED BY <2>1, <2>2, MainMovedTypes
<1>3. CASE RollbackClean \/ LegacyWipe
  <2>1. MainMoved
    BY <1>a, <1>3, GotoFacts DEF RollbackClean, LegacyWipe, At, Places, Resting, MainMoved, Imaged
  <2>2. TypeOK'
    BY <1>a, <1>b, <1>3 DEF RollbackClean, LegacyWipe, TypeOK, Content, Paths
  <2> QED BY <2>1, <2>2, MainMovedTypes
<1>4. CASE Unflag \/ Unmark \/ Tidy
  <2>1. MainMoved
    <3>1. /\ img' = img
          /\ \/ loc[Main].pc = "unflag" /\ Goto(Main, IF img = None THEN "run" ELSE "retain")
             \/ loc[Main].pc = "unmark" /\ Goto(Main, IF img = None THEN "run" ELSE "tidy")
             \/ loc[Main].pc = "tidy" /\ Goto(Main, "run")
      BY <1>4 DEF Unflag, Unmark, Tidy, At, proc
    <3>2. img \in Paths \cup {None}
      BY <1>a DEF TypeOK
    <3> QED BY <1>a, <3>1, <3>2, GotoFacts DEF Places, Resting, MainMoved, Imaged
  <2>2. TypeOK'
    BY <1>a, <1>b, <1>4 DEF Unflag, Unmark, Tidy, TypeOK, Content, proc
  <2> QED BY <2>1, <2>2, MainMovedTypes
<1>5. CASE Legacy
  <2>1. MainMoved
    <3>1. age[img] \in Ages /\ img \in Paths /\ img' = img /\ loc[Main].pc = "legacy"
      BY <1>a, <1>5 DEF TypeOK, Legacy, At, proc, Imaged
    <3>2. PICK p \in {"run", "back", "unmark"} : Goto(Main, p)
      BY <1>5, <3>1 DEF Legacy, Ages
    <3> QED BY <1>a, <3>1, <3>2, GotoFacts DEF Places, MainMoved
  <2>2. TypeOK'
    BY <1>a, <1>b, <1>5 DEF Legacy, TypeOK, disk, proc
  <2> QED BY <2>1, <2>2, MainMovedTypes
<1>6. CASE LegacySwap
  <2>1. MainMoved
    BY <1>a, <1>6, GotoFacts DEF LegacySwap, At, Places, Resting, MainMoved, Imaged
  <2>2. TypeOK'
    <3>1. loc[Main].self \in Paths
      BY <1>a, <1>6 DEF LegacySwap, At
    <3> QED BY <1>a, <1>b, <1>6, <3>1 DEF LegacySwap, TypeOK, Renamed, Content, Paths
  <2> QED BY <2>1, <2>2, MainMovedTypes
<1>7. CASE RollbackCopy
  <2>1. MainMoved
    <3>1. loc[Main].pc = "restore" /\ (Goto(Main, "clean") \/ Goto(Main, "run"))
      BY <1>7 DEF RollbackCopy, At
    <3> QED BY <1>a, <3>1, GotoFacts DEF Places, Resting, MainMoved, Imaged
  <2>2. TypeOK'
    <3>1. loc[Main].target \in Versions /\ backup[loc[Main].target] \in Content /\ Torn \in Content
      BY <1>a, <1>7 DEF RollbackCopy, At, Types, TypeOK, Content
    <3>2. file' \in [Paths -> Content] /\ age' \in [Paths -> Ages] /\ odd' \subseteq Oddities
      <4> DEFINE p == loc[Main].self
                 new == backup[loc[Main].target]
      <4>1. \/ file' = [file EXCEPT ![p] = new] \/ file' = [file EXCEPT ![p] = Torn]
            \/ file' = [file EXCEPT ![p] = file[p]]
        BY <1>7 DEF RollbackCopy
      <4>2. new \in Content /\ p \in Paths
        BY <1>a, <1>7, <3>1 DEF RollbackCopy, At
      <4>3. age' \in [Paths -> Ages] /\ odd' \subseteq Oddities
        BY <1>a, <1>7, <4>2 DEF RollbackCopy, TypeOK, Note, Oddities, Ages
      <4> HIDE DEF p, new
      <4>4. file' \in [Paths -> Content]
        BY <1>a, <3>1, <4>1, <4>2 DEF TypeOK
      <4> QED BY <4>3, <4>4
    <3> QED BY <1>a, <1>b, <1>7, <3>2 DEF RollbackCopy, TypeOK, proc
  <2> QED BY <2>1, <2>2, MainMovedTypes
<1>8. CASE ClearPending
  <2> DEFINE new == [Loaded EXCEPT !.pending = None]
  <2>1. new \in State /\ Len(new.backups) <= MaxBackups
    BY <1>a, LoadedFacts DEF State, TypeOK
  <2>2. Save(Main, new, "unflag", "run") \/ Save(Main, new, "unflag", "legacy")
    BY <1>8 DEF ClearPending
  <2> HIDE DEF new
  <2>3. st' \in State \cup {Torn} /\ Len(Loaded'.backups) <= MaxBackups
        /\ (Goto(Main, "unflag") \/ Goto(Main, "run") \/ Goto(Main, "legacy"))
    BY <2>1, <2>2, SaveFacts DEF Places
  <2>4. MainMoved
    <3>1. /\ loc[Main].pc \in {"clear", "confirm"} /\ img' = img
          /\ loc[Main].pc = "clear" => Goto(Main, "unflag") \/ Goto(Main, "run")
      BY <1>8 DEF ClearPending, At, Save, proc
    <3> QED BY <1>a, <2>3, <3>1, GotoFacts DEF Places, Resting, MainMoved, Imaged
  <2>5. TypeOK'
    BY <1>a, <1>8, <2>3 DEF ClearPending, TypeOK, proc
  <2> QED BY <2>4, <2>5, MainMovedTypes
<1>9. CASE Retain
  <2> DEFINE new == [Loaded EXCEPT !.backups = Kept(Loaded.backups)]
  <2>1. new \in State /\ Len(new.backups) <= MaxBackups
    BY LoadedFacts, KeptFacts DEF State
  <2>2. Save(Main, new, "legacy", "legacy") /\ Prune(Loaded.backups)
    BY <1>9 DEF Retain
  <2> HIDE DEF new
  <2>3. st' \in State \cup {Torn} /\ Len(Loaded'.backups) <= MaxBackups /\ Goto(Main, "legacy")
    BY ZenonT(60), <2>1, <2>2, SaveFacts DEF Places
  <2>4. MainMoved
    <3>1. loc[Main].pc = "retain" /\ img' = img /\ img \in Paths
      BY <1>a, <1>9 DEF Retain, At, proc, Imaged
    <3> QED BY <1>a, <2>3, <3>1, GotoFacts DEF Places, Resting, MainMoved
  <2>5. TypeOK'
    <3>1. backup' \in [Versions -> Content] /\ odd' \subseteq Oddities
      BY <1>a, <2>2 DEF Prune, Note, Oddities, TypeOK, Content
    <3> QED BY <1>a, <1>9, <2>3, <3>1 DEF Retain, TypeOK, proc
  <2> QED BY <2>4, <2>5, MainMovedTypes
<1> QED BY <1>1, <1>2, <1>3, <1>4, <1>5, <1>6, <1>7, <1>8, <1>9 DEF Check

LEMMA NextTypes == ASSUME Types, [Next]_vars PROVE Types'
<1>1. CASE \E t \in Tasks : Update(t) BY <1>1, UpdateTypes
<1>2. CASE Check BY <1>2, CheckTypes
<1>3. CASE Stop
  <2>1. loc' \in [Actors -> Locals] /\ \A a \in Actors : loc'[a].pc = "idle"
    BY <1>3 DEF Stop, Local, Locals, Places
  <2>2. TypeOK'
    BY <1>3 DEF Stop, Types, TypeOK, Loaded, Note, Oddities, disk
  <2> QED BY <2>1, <2>2, ActorFacts DEF Types, Resting, Placed, Imaged
<1>4. CASE Start BY <1>4, BeginTypes DEF Start, Paths
<1>5. CASE Tick
  <2>1. age' \in [Paths -> Ages]
    BY <1>5 DEF Tick, Older, Types, TypeOK, Ages
  <2> QED BY <1>5, <2>1 DEF Tick, Types, TypeOK, Loaded, proc
<1>6. CASE UNCHANGED vars
  BY <1>6 DEF vars, disk, proc, count, Types, TypeOK, Loaded
<1> QED BY <1>1, <1>2, <1>3, <1>4, <1>5, <1>6 DEF Next

-----------------------------------------------------------------------------
(* Safety.                                                                 *)

\* A running process leaves a whole copy.
LEMMA Remains == ASSUME Types', Image', Gone', up' PROVE Left'
<1>1. CASE img' # None
  <2>1. file'[img'] = ver' /\ ver' \in Versions /\ img' \in Paths
    BY <1>1 DEF Image, Types, TypeOK
  <2>2. ver' \in Copies'
    BY <2>1 DEF Copies
  <2> QED BY <2>1, <2>2 DEF Left
<1>2. CASE img' = None
  BY <1>2 DEF Gone, Left, Copies, Paths
<1> QED BY <1>1, <1>2

\* Oddities are never forgotten.
LEMMA OddStays == ASSUME odd \subseteq odd', NEW S, Odd(S) PROVE Odd(S)'
BY DEF Odd

\* Tasks that rest promise nothing.
LEMMA RestingTask ==
  ASSUME NEW t \in Tasks, loc'[t].pc \in Resting PROVE Installing(t)' /\ Backing(t)'
BY DEF Resting, Installing, Backing

\* A step of the task that updates.
LEMMA TaskSafe ==
  ASSUME Types, Types', Safe, NEW t \in Tasks, loc[t].pc \notin Resting,
         \A b \in Actors : b # t => loc'[b] = loc[b], up' = up, Image', Gone', Kin', Promised', InPlace',
         Installing(t)', Backing(t)'
  PROVE  Safe'
<1>1. /\ up' /\ loc'[Main].pc = "run" /\ Alone'
      /\ \A u \in Tasks : u # t => loc'[u].pc \in Resting
  BY TaskFrame DEF Safe, Types
<1>2. \A u \in Tasks : Installing(u)' /\ Backing(u)'
  BY <1>1, RestingTask
<1>3. Checking'
  BY <1>1 DEF Checking, Imaged
<1>4. Left'
  BY <1>1, Remains
<1> QED BY <1>1, <1>2, <1>3, <1>4 DEF Safe

\* No binary is away while the task is somewhere else.
LEMMA NoHole ==
  ASSUME Types, Safe, NEW t \in Tasks, loc[t].pc \notin Resting, loc[t].pc # "place"
  PROVE  ~Hole /\ up /\ (file["exe"] \in Versions \/ Odd({"gap", "again"}))
<1>1. up /\ loc[Main].pc = "run" /\ \A u \in Tasks : u # t => loc[u].pc \in Resting
  BY DEF Safe, Alone
<1>2. ~Hole
  BY <1>1 DEF Hole, Resting
<1> QED BY <1>1, <1>2 DEF Safe, InPlace

\* A step that leaves binaries alone.
LEMMA FilesKept ==
  ASSUME Types, Safe, NEW t \in Tasks, loc[t].pc \notin Resting, loc[t].pc # "place",
         UNCHANGED <<file, img, ver, up>>, odd \subseteq odd'
  PROVE  Image' /\ Gone' /\ Kin' /\ InPlace'
<1>1. file["exe"] \in Versions \/ Odd({"gap", "again"})
  BY NoHole
<1>2. InPlace'
  BY <1>1, OddStays DEF InPlace
<1>3. Gone'
  BY OddStays DEF Safe, Gone
<1> QED BY <1>2, <1>3 DEF Safe, Image, Kin

\* The promise is kept by a step that leaves backups and rollback state alone.
LEMMA PromiseKept ==
  ASSUME Safe, UNCHANGED <<backup, st, flag>>, odd \subseteq odd'
  PROVE  Promised'
<1>1. Pending' = Pending
  BY DEF Pending, Loaded
<1>2. \A v : Good(v) => Good(v)'
  BY OddStays DEF Good
<1> QED BY <1>1, <1>2 DEF Safe, Promised

\* The steps of perform_update up to install_update.
LEMMA BackupSafe ==
  ASSUME Types, Types', Safe, NEW t \in Tasks,
         CreateBackup(t) \/ BackupEntry(t) \/ SetPending(t) \/ WriteFlag(t) \/ Download(t) \/ Verify(t)
  PROVE  Safe'
<1> USE ActorFacts
<1>a. /\ TypeOK /\ loc \in [Actors -> Locals] /\ loc[t] \in Locals
      /\ Loaded \in State /\ Loaded.pending \in Versions \cup {None}
      /\ Pending \in Versions \cup {None} /\ ver \in Versions
      /\ backup \in [Versions -> Content]
  BY LoadedFacts DEF Types, TypeOK
<1>b. \A v : backup' = backup /\ odd' = odd => (Good(v) => Good(v)')
  BY DEF Good, Odd
<1>1. CASE CreateBackup(t)
  <2>1. /\ loc[t].pc = "backup" /\ UNCHANGED <<file, img, ver, up, st, flag>>
        /\ odd \subseteq odd'
        /\ Pending = ver => "again" \in odd' \/ backup' = backup \/ backup'[ver] = ver
    <3>1. up /\ (img # None => file[img] = ver)
      BY <1>1 DEF CreateBackup, At, Safe, Image
    <3> QED BY <1>a, <1>1, <3>1 DEF CreateBackup, At, Note, proc
  <2>2. /\ loc'[t].pc \in {"entry", "fetch"}
        /\ \A b \in Actors : b # t => loc'[b] = loc[b]
    BY <1>a, <1>1, GotoFacts DEF CreateBackup, Places
  <2>3. /\ \A v \in Versions : v # ver => backup'[v] = backup[v]
        /\ loc'[t].pc = "entry" => backup'[ver] = ver
    <3>1. up /\ (img # None => file[img] = ver)
      BY <1>1 DEF CreateBackup, At, Safe, Image
    <3>2. CASE loc'[t].pc = "entry"
      <4>1. img # None /\ backup' = [backup EXCEPT ![ver] = file[img]]
        BY <1>a, <1>1, <3>2, GotoFacts DEF CreateBackup, Places
      <4> QED BY <1>a, <3>1, <4>1
    <3>3. CASE loc'[t].pc # "entry"
      BY <1>a, <1>1, <3>3 DEF CreateBackup
    <3> QED BY <3>2, <3>3
  <2>4. Promised'
    <3>1. Pending' = Pending
      BY <2>1 DEF Pending, Loaded
    <3>2. CASE Pending = ver
      BY <2>1, <3>1, <3>2 DEF Safe, Promised, Good, Odd
    <3>3. CASE Pending # ver
      BY <1>a, <2>1, <2>3, <3>1, <3>3 DEF Safe, Promised, Good, Odd
    <3> QED BY <3>2, <3>3
  <2>5. Installing(t)' /\ Backing(t)'
    BY <2>1, <2>2, <2>3 DEF Installing, Backing, Good
  <2>6. Image' /\ Gone' /\ Kin' /\ InPlace'
    BY <2>1, FilesKept DEF Resting
  <2> QED BY <2>1, <2>2, <2>4, <2>5, <2>6, TaskSafe DEF Resting
<1>2. CASE BackupEntry(t)
  <2> DEFINE s == <<ver>> \o Loaded.backups
             new == [backups |-> Kept(s), pending |-> Loaded.pending]
  <2>1. s \in Seq(Versions) /\ s # <<>> /\ s[1] = ver
    BY EntryFacts
  <2> HIDE DEF s
  <2>2. new \in State /\ Len(new.backups) <= MaxBackups /\ new.pending = Loaded.pending
        /\ ver \in Listed(Kept(s))
    BY <1>a, <2>1, KeptFacts DEF State
  <2>3. /\ Save(t, new, "pend", "fetch") /\ Prune(s) /\ loc[t].pc = "entry"
        /\ UNCHANGED <<file, img, ver, up, flag>>
    BY <1>2 DEF BackupEntry, At, s, proc
  <2> HIDE DEF new
  <2>4. (Goto(t, "pend") \/ Goto(t, "fetch")) /\ (Loaded' = new \/ Loaded' = DefaultState)
    BY ZenonT(60), <2>2, <2>3, SaveFacts DEF Places
  <2>5. loc'[t].pc \in {"pend", "fetch"} /\ \A b \in Actors : b # t => loc'[b] = loc[b]
    BY <1>a, <2>4, GotoFacts DEF Places
  <2>6. odd \subseteq odd' /\ \A v \in Versions :
          backup'[v] = backup[v] \/ (backup'[v] = None /\ (v \in {ver, Pending} => "pruned" \in odd'))
    BY <2>2, <2>3 DEF Prune, Note
  <2>7. \A v \in {ver, Pending} : v # None /\ Good(v) => Good(v)'
    BY <1>a, <2>6 DEF Good, Odd
  <2>8. Pending' \in {Pending, None}
    BY <2>2, <2>3, <2>4 DEF Pending, DefaultState
  <2>9. Promised'
    BY <2>7, <2>8 DEF Safe, Promised
  <2>10. Good(ver)'
    <3>1. Good(ver)
      BY <2>3 DEF Safe, Backing
    <3>2. ver # None /\ ver' = ver
      BY <1>a, <2>3, UpdateAssumption
    <3> QED BY <2>7, <3>1, <3>2 DEF Good
  <2>11. Installing(t)' /\ Backing(t)'
    BY <2>3, <2>5, <2>10 DEF Installing, Backing, Good
  <2>12. Image' /\ Gone' /\ Kin' /\ InPlace'
    BY <2>3, <2>6, FilesKept DEF Resting
  <2> QED BY <2>3, <2>5, <2>9, <2>11, <2>12, TaskSafe DEF Resting
<1>3. CASE SetPending(t)
  <2> DEFINE new == [Loaded EXCEPT !.pending = ver]
  <2>1. new \in State /\ Len(new.backups) <= MaxBackups /\ new.pending = ver
    BY <1>a DEF State, TypeOK
  <2>2. /\ Save(t, new, "flag", "fetch") /\ loc[t].pc = "pend"
        /\ UNCHANGED <<file, img, ver, up, flag, backup, odd>>
    BY <1>3 DEF SetPending, At, proc
  <2> HIDE DEF new
  <2>3. (Goto(t, "flag") /\ Loaded' = new) \/ (Goto(t, "fetch") /\ Loaded' = DefaultState)
    BY <2>1, <2>2, SaveFacts DEF Places
  <2>4. /\ loc'[t].pc \in {"flag", "fetch"} /\ \A b \in Actors : b # t => loc'[b] = loc[b]
        /\ loc'[t].pc = "flag" => Loaded'.pending = ver
    BY <1>a, <2>1, <2>3, GotoFacts DEF Places
  <2>5. Good(ver) /\ Good(ver)'
    BY <1>b, <2>2 DEF Safe, Backing
  <2>6. Pending' \in {Pending, None, ver}
    BY <2>1, <2>2, <2>3 DEF Pending, DefaultState
  <2>7. Promised'
    BY <1>b, <2>2, <2>5, <2>6 DEF Safe, Promised
  <2>8. Installing(t)' /\ Backing(t)'
    BY <2>2, <2>4, <2>5 DEF Installing, Backing, Good
  <2>9. Image' /\ Gone' /\ Kin' /\ InPlace'
    BY <2>2, FilesKept DEF Resting
  <2> QED BY <2>2, <2>4, <2>7, <2>8, <2>9, TaskSafe DEF Resting
<1>4. CASE WriteFlag(t)
  <2>1. /\ loc[t].pc = "flag" /\ flag' \in {ver, Torn}
        /\ UNCHANGED <<file, img, ver, up, st, backup, odd>>
    BY <1>4 DEF WriteFlag, At, proc
  <2>2. loc'[t].pc = "fetch" /\ \A b \in Actors : b # t => loc'[b] = loc[b]
    BY <1>a, <1>4, GotoFacts DEF WriteFlag, Places
  <2>3. Good(ver)' /\ Loaded.pending = ver /\ Loaded' = Loaded
    BY <1>b, <2>1 DEF Safe, Backing, Loaded
  <2>4. Pending' = ver
    BY <2>1, <2>3, UpdateAssumption DEF Pending
  <2>5. Promised' /\ Installing(t)' /\ Backing(t)'
    BY <2>1, <2>2, <2>3, <2>4 DEF Promised, Good, Installing, Backing
  <2>6. Image' /\ Gone' /\ Kin' /\ InPlace'
    BY <2>1, FilesKept DEF Resting
  <2> QED BY <2>1, <2>2, <2>5, <2>6, TaskSafe DEF Resting
<1>5. CASE Download(t) \/ Verify(t)
  <2>1. /\ loc[t].pc \in {"fetch", "verify"}
        /\ UNCHANGED <<file, img, ver, up, backup, st, flag, odd>>
    BY <1>5 DEF Download, Verify, At, proc, disk
  <2>2. /\ loc'[t].pc \in {"verify", "fetch", "idle", "install"}
        /\ \A b \in Actors : b # t => loc'[b] = loc[b]
        /\ loc'[t].pc = "install" => temp'[loc'[t].target] = loc'[t].target
    <3>1. CASE Download(t)
      BY <1>a, <3>1, GotoFacts DEF Download, Places
    <3>2. CASE Verify(t)
      BY <1>a, <3>2, GotoFacts DEF Verify, Places, Resting, disk
    <3> QED BY <1>5, <3>1, <3>2
  <2>3. Promised' /\ Image' /\ Gone' /\ Kin' /\ InPlace'
    BY <2>1, PromiseKept, FilesKept DEF Resting
  <2>4. Installing(t)' /\ Backing(t)'
    BY <2>2 DEF Installing, Backing
  <2> QED BY <2>1, <2>2, <2>3, <2>4, TaskSafe DEF Resting
<1> QED BY <1>1, <1>2, <1>3, <1>4, <1>5

\* install_update, and what follows it in a process that goes on.
LEMMA InstallSafe ==
  ASSUME Types, Types', Safe, NEW t \in Tasks,
         \/ RemoveOld(t) \/ MoveAside(t) \/ Place(t) \/ Mark(t)
         \/ SpawnFails(t) \/ Undo(t) \/ NoRestart(t)
  PROVE  Safe'
<1> USE ActorFacts
<1>a. /\ loc \in [Actors -> Locals] /\ loc[t] \in Locals
      /\ file \in [Paths -> Content] /\ img \in Paths \cup {None} /\ ver \in Versions
      /\ (loc[t].pc \notin Resting => loc[t].target \in Versions)
      /\ (loc[t].pc \in Placed => loc[t].self \in Paths)
      /\ Installing(t)
  BY DEF Types, TypeOK, Safe
<1>b. None \notin Paths /\ None \notin Versions /\ {"exe", "bak", "broken"} = Paths
  BY UpdateAssumption DEF Paths
<1>1. CASE RemoveOld(t)
  <2> DEFINE l == [loc[t] EXCEPT !.self = img]
  <2>1. l \in Locals /\ l.target = loc[t].target /\ l.self = img
    BY <1>a DEF Locals
  <2>2. /\ loc[t].pc = "install" /\ Step(t, l, "move")
        /\ odd \subseteq odd' /\ (img # "exe" => "strayed" \in odd')
        /\ file' = [file EXCEPT !["bak"] = None] /\ img' = IF img = "bak" THEN None ELSE img
        /\ UNCHANGED <<up, ver, temp, backup, st, flag>> /\ up
    BY <1>1 DEF RemoveOld, At, Note
  <2> HIDE DEF l
  <2>3. /\ loc'[t].pc = "move" /\ loc'[t].target = loc[t].target /\ loc'[t].self = img
        /\ \A b \in Actors : b # t => loc'[b] = loc[b]
    BY <1>a, <2>1, <2>2, StepFacts DEF Places, Resting
  <2>4. file'["bak"] = None /\ \A q \in Paths : q # "bak" => file'[q] = file[q]
    BY <1>a, <1>b, <2>2
  <2>5. Image' /\ Kin'
    BY <1>a, <1>b, <2>2, <2>4 DEF Safe, Image, Kin
  <2>6. Gone'
    BY <1>a, <1>b, <2>2, <2>4 DEF Safe, Gone, Odd
  <2>7. InPlace'
    <3>1. file["exe"] \in Versions \/ Odd({"gap", "again"})
      BY <2>2, NoHole DEF Resting
    <3> QED BY <1>b, <2>2, <2>4, <3>1, OddStays DEF InPlace
  <2>8. Installing(t)' /\ Backing(t)'
    BY <1>a, <1>b, <2>2, <2>3, <2>4 DEF Installing, Backing, Odd
  <2>9. Promised'
    BY <2>2, PromiseKept
  <2> QED BY <2>2, <2>3, <2>5, <2>6, <2>7, <2>8, <2>9, TaskSafe DEF Resting
<1>2. CASE MoveAside(t)
  <2> DEFINE p == loc[t].self
  <2>1. loc[t].pc = "move" /\ up /\ UNCHANGED <<up, ver, temp, backup, st, flag, odd>>
    BY <1>2 DEF MoveAside, At
  <2>2. file["bak"] = None /\ img # "bak" /\ (p = img \/ (p = "bak" /\ img = None))
        /\ (p = "exe" \/ Odd({"strayed"})) /\ temp[loc[t].target] = loc[t].target
    BY <1>a, <2>1 DEF Installing
  <2>3. Promised'
    BY <2>1, PromiseKept
  <2>4. file["exe"] \in Versions \/ Odd({"gap", "again"})
    BY <2>1, NoHole DEF Resting
  <2>5. CASE p # None /\ file[p] # None
    <3>1. p = img /\ p \in {"exe", "broken"} /\ file[p] = ver
      BY <1>a, <1>b, <2>1, <2>2, <2>5 DEF Safe, Image
    <3>2. Goto(t, "place") /\ Renamed(p, "bak")
      BY <1>2, <2>5 DEF MoveAside
    <3>3. /\ loc'[t].pc = "place" /\ loc'[t].target = loc[t].target /\ loc'[t].self = p
          /\ \A b \in Actors : b # t => loc'[b] = loc[b]
      BY <1>a, <3>2, GotoFacts DEF Places, Resting
    <3>4. img' = "bak" /\ file'["bak"] = ver /\ (p # "exe" => file'["exe"] = file["exe"])
      BY <1>a, <1>b, <3>1, <3>2 DEF Renamed
    <3>5. Image' /\ Gone' /\ Kin'
      BY <1>a, <1>b, <2>1, <3>4 DEF Image, Gone, Kin
    <3>6. InPlace'
      BY <2>1, <2>4, <3>3, <3>4 DEF InPlace, Hole, Odd
    <3>7. Installing(t)' /\ Backing(t)'
      BY <2>1, <2>2, <3>1, <3>3, <3>4 DEF Installing, Backing, Odd
    <3> QED BY <2>1, <2>3, <3>3, <3>5, <3>6, <3>7, TaskSafe DEF Resting
  <2>6. CASE ~(p # None /\ file[p] # None)
    <3>1. Goto(t, "idle") /\ UNCHANGED <<file, img>>
      BY <1>2, <2>6 DEF MoveAside
    <3>2. loc'[t].pc = "idle" /\ \A b \in Actors : b # t => loc'[b] = loc[b]
      BY <1>a, <3>1, GotoFacts DEF Places
    <3>3. Image' /\ Gone' /\ Kin' /\ InPlace'
      BY <2>1, <3>1, FilesKept DEF Resting
    <3>4. Installing(t)' /\ Backing(t)'
      BY <3>2, RestingTask DEF Resting
    <3> QED BY <2>1, <2>3, <3>2, <3>3, <3>4, TaskSafe DEF Resting
  <2> QED BY <2>5, <2>6
<1>3. CASE Place(t)
  <2> DEFINE p == loc[t].self
             new == temp[loc[t].target]
  <2>1. loc[t].pc = "place" /\ up /\ UNCHANGED <<img, up, ver, temp, backup, st, flag>>
        /\ odd \subseteq odd'
    BY <1>3 DEF Place, At, Note, proc
  <2>2. img = "bak" /\ p \in Paths /\ p # "bak" /\ new = loc[t].target /\ new \in Versions
        /\ (p = "exe" \/ Odd({"strayed"}))
    BY <1>a, <2>1 DEF Installing, Resting, Placed
  <2>3. Promised'
    BY <2>1, PromiseKept
  <2>4. \/ /\ Goto(t, "mark") /\ file' = [file EXCEPT ![p] = new]
        \/ /\ Goto(t, "idle") /\ file' = [file EXCEPT ![p] = Torn]
           /\ p = "exe" => "gap" \in odd'
    BY <1>b, <1>3, <2>2 DEF Place, Note
  <2>5. /\ loc'[t].pc \in {"mark", "idle"} /\ \A b \in Actors : b # t => loc'[b] = loc[b]
        /\ loc'[t].pc = "mark" => loc'[t].target = loc[t].target /\ loc'[t].self = p
        /\ loc'[t].pc = "mark" => file' = [file EXCEPT ![p] = new]
        /\ loc'[t].pc # "mark" /\ p = "exe" => "gap" \in odd'
        /\ \A q \in Paths : q # p => file'[q] = file[q]
    BY <1>a, <2>4, GotoFacts DEF Places, Resting
  <2>6. Image' /\ Gone' /\ Kin'
    BY <1>b, <2>1, <2>2, <2>5 DEF Safe, Image, Gone, Kin
  <2>7. InPlace'
    <3>1. CASE loc'[t].pc # "mark" /\ p = "exe"
      BY <2>5, <3>1 DEF InPlace, Odd
    <3>2. CASE loc'[t].pc = "mark" /\ p = "exe"
      BY <1>a, <1>b, <2>2, <2>5, <3>2 DEF InPlace
    <3>3. CASE p # "exe"
      <4>1. ~Hole
        BY <2>1, <3>3 DEF Safe, Alone, Hole, Resting
      <4> QED BY <1>b, <2>1, <2>5, <3>3, <4>1 DEF Safe, InPlace, Odd
    <3> QED BY <3>1, <3>2, <3>3
  <2>8. Installing(t)' /\ Backing(t)'
    BY <1>a, <1>b, <2>1, <2>2, <2>5 DEF Installing, Backing, Odd
  <2> QED BY <2>1, <2>3, <2>5, <2>6, <2>7, <2>8, TaskSafe DEF Resting
<1>4. CASE Mark(t) \/ NoRestart(t)
  <2>1. loc[t].pc \in {"mark", "restart"} /\ UNCHANGED <<file, img, up, ver, backup, st, flag, odd>>
    BY <1>4 DEF Mark, NoRestart, At, proc, disk
  <2>2. /\ loc'[t].pc \in {"restart", "idle", "ended"} /\ \A b \in Actors : b # t => loc'[b] = loc[b]
        /\ loc'[t].pc = "restart" => loc'[t].self = loc[t].self
    BY <1>a, <1>4, GotoFacts DEF Mark, NoRestart, Places, Resting
  <2>3. Promised' /\ Image' /\ Gone' /\ Kin' /\ InPlace'
    BY <2>1, PromiseKept, FilesKept DEF Resting
  <2>4. Installing(t)' /\ Backing(t)'
    BY <1>a, <2>1, <2>2 DEF Installing, Backing, Odd
  <2> QED BY <2>1, <2>2, <2>3, <2>4, TaskSafe DEF Resting
<1>5. CASE SpawnFails(t)
  <2>1. loc[t].pc = "restart" /\ up /\ UNCHANGED <<up, ver, backup, st, flag, odd>> /\ img = "bak"
    BY <1>a, <1>5 DEF SpawnFails, At, Installing
  <2>2. Promised'
    BY <2>1, PromiseKept
  <2>3. file["bak"] = ver
    BY <1>b, <2>1 DEF Safe, Image
  <2> DEFINE l == [loc[t] EXCEPT !.self = img]
  <2>4. l \in Locals /\ l.self = "bak"
    BY <1>a, <2>1 DEF Locals
  <2>5. Step(t, l, "undo") /\ Renamed("bak", "broken")
    BY <1>a, <1>b, <1>5, <2>1, <2>3 DEF SpawnFails
  <2> HIDE DEF l
  <2>6. /\ loc'[t].pc = "undo" /\ loc'[t].self = "bak"
        /\ \A b \in Actors : b # t => loc'[b] = loc[b]
    BY <1>a, <2>4, <2>5, StepFacts DEF Places, Resting
  <2>7. img' = "broken" /\ file'["broken"] = ver /\ file'["bak"] = None /\ file'["exe"] = file["exe"]
    BY <1>a, <1>b, <2>1, <2>3, <2>5 DEF Renamed
  <2>8. Image' /\ Gone' /\ Kin'
    BY <1>b, <2>1, <2>7 DEF Image, Gone, Kin
  <2>9. InPlace'
    <3>1. file["exe"] \in Versions \/ Odd({"gap", "again"})
      BY <2>1, NoHole DEF Resting
    <3> QED BY <2>1, <2>7, <3>1 DEF InPlace, Odd
  <2>10. Installing(t)' /\ Backing(t)'
    BY <2>6, <2>7 DEF Installing, Backing
  <2> QED BY <2>1, <2>2, <2>6, <2>8, <2>9, <2>10, TaskSafe DEF Resting
<1>6. CASE Undo(t)
  <2>1. loc[t].pc = "undo" /\ UNCHANGED <<up, ver, backup, st, flag, odd>>
    BY <1>6 DEF Undo, At
  <2>2. UNCHANGED <<file, img>>
    BY <1>a, <1>6, <2>1 DEF Undo, Installing
  <2>3. loc'[t].pc = "idle" /\ \A b \in Actors : b # t => loc'[b] = loc[b]
    BY <1>a, <1>6, GotoFacts DEF Undo, Places
  <2>4. Promised' /\ Image' /\ Gone' /\ Kin' /\ InPlace'
    BY <2>1, <2>2, PromiseKept, FilesKept DEF Resting
  <2>5. Installing(t)' /\ Backing(t)'
    BY <2>3, RestingTask DEF Resting
  <2> QED BY <2>1, <2>3, <2>4, <2>5, TaskSafe DEF Resting
<1> QED BY <1>1, <1>2, <1>3, <1>4, <1>5, <1>6

\* An update begins, with no other under way.
LEMMA OfferSafe ==
  ASSUME Types, Types', Safe, "overlap" \notin odd', NEW t \in Tasks, NEW v \in Versions,
         NEW p \in {"backup", "fetch"}, Offer(t, v, p)
  PROVE  Safe'
<1> USE ActorFacts
<1>1. /\ up /\ loc[t].pc = "idle" /\ loc[Main].pc = "run" /\ odd' = odd
      /\ \A u \in Tasks \ {t} : loc[u].pc \in Resting
      /\ UNCHANGED <<file, img, ver, up, temp, backup, st, flag>>
  BY DEF Offer, At, Note, disk, proc
<1>2. loc'[t].pc = p /\ \A b \in Actors : b # t => loc'[b] = loc[b]
  <2> DEFINE l == [loc[t] EXCEPT !.target = v]
  <2>1. loc \in [Actors -> Locals] /\ l \in Locals /\ Step(t, l, p)
    BY DEF Types, Locals, Offer
  <2> HIDE DEF l
  <2> QED BY <2>1, StepFacts DEF Places
<1>3. Alone' /\ Checking'
  BY <1>1, <1>2 DEF Alone, Checking, Imaged
<1>4. \A u \in Tasks : Installing(u)' /\ Backing(u)'
  <2>1. Installing(t)' /\ Backing(t)'
    BY <1>2 DEF Installing, Backing
  <2>2. \A u \in Tasks : u # t => loc'[u].pc \in Resting
    BY <1>1, <1>2
  <2> QED BY <2>1, <2>2, RestingTask
<1>5. Image' /\ Gone' /\ Kin' /\ Left'
  BY <1>1 DEF Safe, Image, Gone, Kin, Left, Copies, Odd
<1>6. InPlace'
  <2>1. ~Hole
    BY <1>1 DEF Hole, Resting
  <2> QED BY <1>1, <2>1 DEF Safe, InPlace, Odd
<1>7. Promised'
  BY <1>1, PromiseKept
<1> QED BY <1>3, <1>4, <1>5, <1>6, <1>7 DEF Safe

\* A process begins, with the start-up check.
LEMMA BeginSafe ==
  ASSUME Types, Types', Safe, NEW p, Home(p), Begin(p), UNCHANGED <<disk, auto, count, odd>>,
         file["exe"] \in Versions \/ Odd({"gap", "again"})
  PROVE  Safe'
<1>1. /\ loc'[Main].pc = "check" /\ \A t \in Tasks : loc'[t].pc = "idle"
      /\ up' /\ ver' = file[p] /\ img' = p /\ odd' = odd
      /\ UNCHANGED <<file, backup, st, flag>>
  BY ActorFacts DEF Begin, Local, disk
<1>2. Alone' /\ Checking'
  BY <1>1, UpdateAssumption DEF Alone, Checking, Resting, Imaged, Home, Odd
<1>3. \A t \in Tasks : Installing(t)' /\ Backing(t)'
  BY <1>1, RestingTask DEF Resting
<1>4. Image' /\ Gone' /\ Kin' /\ InPlace'
  <2>1. None # p
    BY UpdateAssumption DEF Paths, Home
  <2> QED BY <1>1, <2>1 DEF Safe, Image, Gone, Kin, InPlace, Odd
<1>5. Promised' /\ Left'
  BY <1>1, <1>4, PromiseKept, Remains
<1> QED BY <1>2, <1>3, <1>4, <1>5 DEF Safe

\* A step of the start-up check.
LEMMA MainSafe ==
  ASSUME Types, Types', Safe, up, up' = up, loc[Main].pc # "run",
         \A t \in Tasks : loc'[t] = loc[t],
         Image', Gone', Kin', Promised', Checking', InPlace'
  PROVE  Safe'
<1>1. \A t \in Tasks : loc[t].pc \in Resting /\ loc'[t].pc \in Resting
  BY DEF Safe, Alone
<1>2. Alone'
  BY <1>1 DEF Alone
<1>3. \A t \in Tasks : Installing(t)' /\ Backing(t)'
  BY <1>1, RestingTask
<1>4. Left'
  BY Remains
<1> QED BY <1>2, <1>3, <1>4 DEF Safe

LEMMA MainNoHole ==
  ASSUME Types, Safe, up, loc[Main].pc \notin {"run", "restore", "swap"}
  PROVE  file["exe"] \in Versions \/ Odd({"gap", "again"})
<1>1. ~Hole
  BY DEF Safe, Alone, Hole, Resting
<1> QED BY <1>1 DEF Safe, InPlace

LEMMA MainFilesKept ==
  ASSUME Types, Safe, up, loc[Main].pc \notin {"run", "restore", "swap"},
         UNCHANGED <<file, img, ver, up>>, odd \subseteq odd'
  PROVE  Image' /\ Gone' /\ Kin' /\ InPlace'
<1>1. InPlace'
  BY MainNoHole, OddStays DEF InPlace
<1>2. Gone'
  BY OddStays DEF Safe, Gone
<1> QED BY <1>1, <1>2 DEF Safe, Image, Kin

\* check_and_rollback_if_needed with a versioned backup.
LEMMA RollbackSafe ==
  ASSUME Types, Types', Safe,
         \/ CheckPending \/ RollbackAside \/ RollbackCopy \/ RollbackClean
         \/ ClearPending \/ Unflag \/ Retain
  PROVE  Safe'
<1> USE ActorFacts
<1>a. /\ TypeOK /\ loc \in [Actors -> Locals] /\ loc[Main] \in Locals
      /\ file \in [Paths -> Content] /\ img \in Paths \cup {None} /\ ver \in Versions
      /\ Loaded \in State /\ Loaded.backups \in Seq(Versions)
      /\ Pending \in Versions \cup {None} /\ Checking /\ Promised
      /\ backup \in [Versions -> Content] /\ age \in [Paths -> Ages]
      /\ (loc[Main].pc \in Imaged => img \in Paths)
  BY LoadedFacts DEF Types, TypeOK, Safe
<1>b. None \notin Paths /\ None \notin Versions /\ {"exe", "bak", "broken"} = Paths
  BY UpdateAssumption DEF Paths
<1>1. CASE CheckPending
  <2> DEFINE l == [loc[Main] EXCEPT !.target = Pending]
  <2>1. l \in Locals /\ l.target = Pending
    BY <1>a DEF Locals
  <2>2. PICK p \in {"legacy", "aside", "run", "confirm"} :
          Step(Main, l, p) /\ (p = "aside" => Pending # None /\ backup[Pending] # None)
    <3>1. age[img] \in Ages
      BY <1>a, <1>1 DEF CheckPending, At, Imaged
    <3> QED BY <1>1, <3>1 DEF CheckPending, Ages
  <2>3. /\ up /\ loc[Main].pc = "check"
        /\ UNCHANGED <<file, img, ver, up, backup, st, flag, odd>>
    BY <1>1 DEF CheckPending, At, disk, proc
  <2> HIDE DEF l
  <2>4. loc'[Main].pc = p /\ (p = "aside" => loc'[Main].target = Pending) /\ \A t \in Tasks : loc'[t] = loc[t]
    BY <1>a, <2>1, <2>2, StepFacts DEF Places, Resting
  <2>5. p = "aside" => backup[Pending] \in Versions \/ Odd({"again"})
    BY <1>a, <2>2 DEF Promised, Good
  <2>6. Checking'
    BY <1>a, <2>2, <2>3, <2>4, <2>5 DEF Checking, Imaged, Home, Odd
  <2>7. Promised' /\ Image' /\ Gone' /\ Kin' /\ InPlace'
    BY <2>3, PromiseKept, MainFilesKept
  <2> QED BY <2>3, <2>4, <2>6, <2>7, MainSafe
<1>2. CASE RollbackAside
  <2> DEFINE l == [loc[Main] EXCEPT !.self = img]
  <2>1. /\ up /\ loc[Main].pc = "aside" /\ Renamed(img, "broken") /\ Home(img)
        /\ Step(Main, l, "restore") /\ UNCHANGED <<ver, up, backup, st, flag, odd>>
    BY <1>a, <1>2 DEF RollbackAside, At, Checking, Imaged
  <2>a. l \in Locals /\ l.target = loc[Main].target /\ l.self = img
    BY <1>a DEF Locals
  <2> HIDE DEF l
  <2>2. /\ loc'[Main].pc = "restore" /\ loc'[Main].target = loc[Main].target
        /\ loc'[Main].self = img /\ \A t \in Tasks : loc'[t] = loc[t]
    BY <1>a, <2>a, <2>1, StepFacts DEF Places, Resting
  <2>3. /\ img' = "broken" /\ file'["broken"] = file[img] /\ file'["bak"] = file["bak"]
        /\ img # "exe" => file'["exe"] = file["exe"]
    BY <1>a, <1>b, <2>1 DEF Renamed, Home
  <2>4. Image' /\ Gone' /\ Kin'
    BY <1>b, <2>1, <2>3 DEF Safe, Image, Gone, Kin, Home
  <2>b. file["exe"] \in Versions \/ Odd({"gap", "again"})
    BY <2>1, MainNoHole
  <2>5. InPlace'
    BY <2>b, <2>1, <2>2, <2>3 DEF InPlace, Hole, Odd
  <2>c. Checking'
    BY <1>a, <2>1, <2>2, <2>3 DEF Checking, Imaged, Home, Odd
  <2>6. Promised'
    BY <2>1, PromiseKept
  <2> QED BY <2>1, <2>2, <2>4, <2>5, <2>6, <2>c, MainSafe
<1>3. CASE RollbackCopy
  <2> DEFINE p == loc[Main].self
  <2>1. /\ up /\ loc[Main].pc = "restore" /\ img = "broken" /\ odd \subseteq odd' /\ Home(p)
        /\ backup[loc[Main].target] \in Versions \/ Odd({"again"})
        /\ UNCHANGED <<img, ver, up, backup, st, flag>>
    BY <1>a, <1>3 DEF RollbackCopy, At, Checking, Note, proc
  <2>a. \/ /\ p = "exe" /\ Goto(Main, "clean") /\ file' = [file EXCEPT ![p] = backup[loc[Main].target]]
        \/ /\ Goto(Main, "run") /\ (p = "exe" => "gap" \in odd')
           /\ file' = [file EXCEPT ![p] = IF img = p THEN @ ELSE Torn]
    BY <1>3, <2>1 DEF RollbackCopy, Note, Home
  <2>2. /\ loc'[Main].pc \in {"clean", "run"} /\ \A t \in Tasks : loc'[t] = loc[t]
        /\ loc'[Main].pc = "clean" => p = "exe" /\ file'["exe"] = backup[loc[Main].target]
        /\ loc'[Main].pc = "run" /\ p = "exe" => "gap" \in odd'
    BY <1>a, <2>a, GotoFacts DEF Places, Paths
  <2>3. /\ file'["broken"] = file["broken"] /\ file'["bak"] = file["bak"]
        /\ p # "exe" => file'["exe"] = file["exe"]
    BY <1>a, <2>1, <2>a DEF Paths, Home
  <2>4. Image' /\ Gone' /\ Kin'
    BY <1>b, <2>1, <2>3 DEF Safe, Image, Gone, Kin
  <2>5. InPlace' /\ Checking'
    <3>1. p # "exe" => file["exe"] \in Versions \/ Odd({"gap", "again"})
      <4>1. ASSUME p # "exe" PROVE ~Hole
        BY <2>1, <4>1 DEF Safe, Alone, Hole, Resting
      <4> QED BY <4>1 DEF Safe, InPlace
    <3> QED BY <2>1, <2>2, <2>3, <3>1 DEF InPlace, Checking, Imaged, Odd
  <2>6. Promised'
    BY <2>1, PromiseKept
  <2> QED BY <2>1, <2>2, <2>4, <2>5, <2>6, MainSafe
<1>4. CASE RollbackClean
  <2>1. /\ up /\ loc[Main].pc = "clean" /\ img' = None
        /\ file["exe"] \in Versions \/ Odd({"again", "strayed"})
        /\ UNCHANGED <<ver, up, backup, st, flag, odd>>
    BY <1>a, <1>4 DEF RollbackClean, At, Checking
  <2>2. loc'[Main].pc = "clear" /\ \A t \in Tasks : loc'[t] = loc[t]
    BY <1>a, <1>4, GotoFacts DEF RollbackClean, Places
  <2>3. file'["exe"] = file["exe"] /\ file'["bak"] = file["bak"]
    BY <1>a, <1>4 DEF RollbackClean, Paths
  <2>4. Image' /\ Gone' /\ Kin'
    BY <2>1, <2>3 DEF Safe, Image, Gone, Kin, Odd
  <2>5. InPlace' /\ Checking'
    <3>1. file["exe"] \in Versions \/ Odd({"gap", "again"})
      BY <2>1, MainNoHole
    <3> QED BY <2>1, <2>2, <2>3, <3>1 DEF InPlace, Checking, Imaged, Odd
  <2>6. Promised'
    BY <2>1, PromiseKept
  <2> QED BY <2>1, <2>2, <2>4, <2>5, <2>6, MainSafe
<1>5. CASE ClearPending
  <2> DEFINE new == [Loaded EXCEPT !.pending = None]
  <2>1. new \in State /\ Len(new.backups) <= MaxBackups /\ new.pending = None
    BY <1>a DEF State, TypeOK
  <2>2. \/ loc[Main].pc = "clear" /\ Save(Main, new, "unflag", "run")
        \/ loc[Main].pc = "confirm" /\ Save(Main, new, "unflag", "legacy")
    BY <1>5 DEF ClearPending, At
  <2>3. up /\ UNCHANGED <<file, img, ver, up, backup, flag, odd>>
    BY <1>5 DEF ClearPending, At, proc
  <2> HIDE DEF new
  <2>4. Loaded'.pending = None
        /\ (\/ Goto(Main, "unflag")
            \/ (loc[Main].pc = "clear" /\ Goto(Main, "run"))
            \/ (loc[Main].pc = "confirm" /\ Goto(Main, "legacy")))
    <3>1. DefaultState.pending = None /\ {"unflag", "run", "legacy"} \subseteq Places
      BY DEF DefaultState, Places
    <3>2. CASE loc[Main].pc = "clear" /\ Save(Main, new, "unflag", "run")
      <4>1. (Goto(Main, "unflag") /\ Loaded' = new) \/ (Goto(Main, "run") /\ Loaded' = DefaultState)
        BY <2>1, <3>1, <3>2, SaveFacts
      <4> QED BY <2>1, <3>1, <3>2, <4>1
    <3>3. CASE loc[Main].pc = "confirm" /\ Save(Main, new, "unflag", "legacy")
      <4>1. (Goto(Main, "unflag") /\ Loaded' = new) \/ (Goto(Main, "legacy") /\ Loaded' = DefaultState)
        BY <2>1, <3>1, <3>3, SaveFacts
      <4> QED BY <2>1, <3>1, <3>3, <4>1
    <3> QED BY <2>2, <3>2, <3>3
  <2>5. /\ loc'[Main].pc \in {"unflag", "run", "legacy"} /\ \A t \in Tasks : loc'[t] = loc[t]
        /\ loc'[Main].pc = "legacy" => loc[Main].pc = "confirm"
    BY <1>a, <2>4, GotoFacts DEF Places
  <2>6. Checking'
    BY <1>a, <2>2, <2>3, <2>4, <2>5 DEF Checking, Imaged, Home, Odd
  <2>7. Promised'
    <3>1. Pending' \in {Pending, None}
      BY <2>3, <2>4 DEF Pending
    <3> QED BY <1>a, <2>3, <3>1 DEF Promised, Good, Odd
  <2>8. Image' /\ Gone' /\ Kin' /\ InPlace'
    BY <2>2, <2>3, MainFilesKept
  <2> QED BY <2>2, <2>3, <2>5, <2>6, <2>7, <2>8, MainSafe
<1>6. CASE Unflag
  <2>1. /\ up /\ loc[Main].pc = "unflag" /\ flag' = None /\ (img = None \/ Home(img))
        /\ Loaded.pending = None /\ UNCHANGED <<file, img, ver, up, backup, st, odd>>
    BY <1>a, <1>6 DEF Unflag, At, Checking, proc
  <2>2. /\ loc'[Main].pc = (IF img = None THEN "run" ELSE "retain") /\ \A t \in Tasks : loc'[t] = loc[t]
    BY <1>a, <1>6, GotoFacts DEF Unflag, Places
  <2>3. Pending' = None
    BY <1>b, <2>1 DEF Pending, Loaded
  <2>4. Promised' /\ Checking'
    BY <2>1, <2>2, <2>3 DEF Promised, Checking, Imaged, Home, Odd
  <2>5. Image' /\ Gone' /\ Kin' /\ InPlace'
    BY <2>1, MainFilesKept
  <2> QED BY <2>1, <2>2, <2>4, <2>5, MainSafe
<1>7. CASE Retain
  <2> DEFINE b == Loaded.backups
             new == [Loaded EXCEPT !.backups = Kept(b)]
  <2>1. new \in State /\ Len(new.backups) <= MaxBackups /\ new.pending = Loaded.pending
    BY <1>a, KeptFacts DEF State
  <2>2. /\ Save(Main, new, "legacy", "legacy") /\ Prune(b) /\ up /\ loc[Main].pc = "retain"
        /\ Home(img) /\ UNCHANGED <<file, img, ver, up, flag>>
    BY <1>a, <1>7 DEF Retain, At, Checking, Imaged, proc
  <2> HIDE DEF new, b
  <2>3. Goto(Main, "legacy") /\ (Loaded' = new \/ Loaded' = DefaultState)
    BY ZenonT(60), <2>1, <2>2, SaveFacts DEF Places
  <2>4. loc'[Main].pc = "legacy" /\ \A t \in Tasks : loc'[t] = loc[t]
    BY <1>a, <2>3, GotoFacts DEF Places
  <2>5. odd \subseteq odd' /\ \A v \in Versions :
          backup'[v] = backup[v] \/ (backup'[v] = None /\ (v = Pending => "pruned" \in odd'))
    BY <2>2 DEF Prune, Note
  <2>6. Pending' \in {Pending, None}
    BY <2>1, <2>2, <2>3 DEF Pending, DefaultState
  <2>7. Promised'
    BY <1>a, <2>5, <2>6 DEF Promised, Good, Odd
  <2>8. Checking'
    BY <2>2, <2>4, <2>5 DEF Checking, Home, Odd
  <2>9. Image' /\ Gone' /\ Kin' /\ InPlace'
    BY <2>2, <2>5, MainFilesKept
  <2> QED BY <2>2, <2>4, <2>7, <2>8, <2>9, MainSafe
<1> QED BY <1>1, <1>2, <1>3, <1>4, <1>5, <1>6, <1>7

\* check_and_rollback_if_needed with the .bak of install_update.
LEMMA LegacySafe ==
  ASSUME Types, Types', Safe,
         Legacy \/ LegacyAside \/ LegacySwap \/ LegacyWipe \/ Unmark \/ Tidy
  PROVE  Safe'
<1> USE ActorFacts
<1>a. /\ TypeOK /\ loc \in [Actors -> Locals] /\ loc[Main] \in Locals
      /\ file \in [Paths -> Content] /\ img \in Paths \cup {None} /\ ver \in Versions
      /\ Checking /\ Kin /\ age \in [Paths -> Ages]
      /\ (loc[Main].pc \in Imaged => img \in Paths)
  BY DEF Types, TypeOK, Safe
<1>b. None \notin Paths /\ None \notin Versions /\ {"exe", "bak", "broken"} = Paths
  BY UpdateAssumption DEF Paths
<1>1. CASE Legacy
  <2>1. PICK p \in {"run", "back", "unmark"} : Goto(Main, p) /\ (p = "back" => file["bak"] # None)
    <3>1. age[img] \in Ages
      BY <1>a, <1>1 DEF Legacy, At, Imaged
    <3> QED BY <1>1, <3>1 DEF Legacy, Ages
  <2>2. /\ up /\ loc[Main].pc = "legacy" /\ Home(img)
        /\ UNCHANGED <<file, img, ver, up, backup, st, flag, odd>>
    BY <1>a, <1>1 DEF Legacy, At, Checking, Imaged, disk, proc
  <2>3. loc'[Main].pc = p /\ \A t \in Tasks : loc'[t] = loc[t]
    BY <1>a, <2>1, GotoFacts DEF Places
  <2>4. Checking'
    BY <1>a, <2>1, <2>2, <2>3 DEF Checking, Kin, Home, Odd
  <2>5. Promised' /\ Image' /\ Gone' /\ Kin' /\ InPlace'
    BY <2>2, PromiseKept, MainFilesKept
  <2> QED BY <2>2, <2>3, <2>4, <2>5, MainSafe
<1>2. CASE LegacyAside
  <2> DEFINE l == [loc[Main] EXCEPT !.self = img]
  <2>1. /\ up /\ loc[Main].pc = "back" /\ Renamed(img, "broken") /\ Home(img)
        /\ Step(Main, l, "swap")
        /\ file["bak"] \in Versions /\ UNCHANGED <<ver, up, backup, st, flag, odd>>
    BY <1>a, <1>2 DEF LegacyAside, At, Checking, Imaged
  <2>a. l \in Locals /\ l.self = img
    BY <1>a DEF Locals
  <2> HIDE DEF l
  <2>2. loc'[Main].pc = "swap" /\ loc'[Main].self = img /\ \A t \in Tasks : loc'[t] = loc[t]
    BY <1>a, <2>a, <2>1, StepFacts DEF Places, Resting
  <2>3. /\ img' = "broken" /\ file'["broken"] = file[img] /\ file'["bak"] = file["bak"]
        /\ img # "exe" => file'["exe"] = file["exe"]
    BY <1>a, <1>b, <2>1 DEF Renamed, Home
  <2>4. Image' /\ Gone' /\ Kin'
    BY <1>b, <2>1, <2>3 DEF Safe, Image, Gone, Kin, Home
  <2>b. file["exe"] \in Versions \/ Odd({"gap", "again"})
    BY <2>1, MainNoHole
  <2>5. InPlace' /\ Checking'
    BY <2>b, <2>1, <2>2, <2>3 DEF InPlace, Hole, Checking, Imaged, Home, Odd
  <2>6. Promised'
    BY <2>1, PromiseKept
  <2> QED BY <2>1, <2>2, <2>4, <2>5, <2>6, MainSafe
<1>3. CASE LegacySwap
  <2> DEFINE p == loc[Main].self
  <2>1. /\ up /\ loc[Main].pc = "swap" /\ Renamed("bak", p) /\ Home(p) /\ img = "broken"
        /\ file["bak"] \in Versions /\ UNCHANGED <<ver, up, backup, st, flag, odd>>
    BY <1>a, <1>3 DEF LegacySwap, At, Checking
  <2>2. loc'[Main].pc = "wipe" /\ \A t \in Tasks : loc'[t] = loc[t]
    BY <1>a, <1>3, GotoFacts DEF LegacySwap, Places
  <2>3. /\ p = "exe" => img' = "broken" /\ file'["broken"] = file["broken"] /\ file'["exe"] \in Versions
        /\ p # "exe" => img' = None /\ file'["exe"] = file["exe"] /\ Odd({"strayed"})
        /\ file'["bak"] = None
    BY <1>a, <1>b, <2>1 DEF Renamed, Home
  <2>4. Image' /\ Gone' /\ Kin'
    BY <1>b, <2>1, <2>3 DEF Safe, Image, Gone, Kin, Odd
  <2>5. InPlace' /\ Checking'
    <3>1. p # "exe" => file["exe"] \in Versions \/ Odd({"gap", "again"})
      <4>1. ASSUME p # "exe" PROVE ~Hole
        BY <2>1, <4>1 DEF Safe, Alone, Hole, Resting
      <4> QED BY <4>1 DEF Safe, InPlace
    <3> QED BY <2>1, <2>2, <2>3, <3>1 DEF InPlace, Checking, Imaged, Odd
  <2>6. Promised'
    BY <2>1, PromiseKept
  <2> QED BY <2>1, <2>2, <2>4, <2>5, <2>6, MainSafe
<1>4. CASE LegacyWipe
  <2>1. /\ up /\ loc[Main].pc = "wipe" /\ img' = None
        /\ file["exe"] \in Versions \/ Odd({"again", "strayed"})
        /\ UNCHANGED <<ver, up, backup, st, flag, odd>>
    BY <1>a, <1>4 DEF LegacyWipe, At, Checking
  <2>2. loc'[Main].pc = "unmark" /\ \A t \in Tasks : loc'[t] = loc[t]
    BY <1>a, <1>4, GotoFacts DEF LegacyWipe, Places
  <2>3. file'["exe"] = file["exe"] /\ file'["bak"] = file["bak"]
    BY <1>a, <1>4 DEF LegacyWipe, Paths
  <2>4. Image' /\ Gone' /\ Kin'
    BY <2>1, <2>3 DEF Safe, Image, Gone, Kin, Odd
  <2>5. InPlace' /\ Checking'
    <3>1. file["exe"] \in Versions \/ Odd({"gap", "again"})
      BY <2>1, MainNoHole
    <3> QED BY <2>1, <2>2, <2>3, <3>1 DEF InPlace, Checking, Imaged, Odd
  <2>6. Promised'
    BY <2>1, PromiseKept
  <2> QED BY <2>1, <2>2, <2>4, <2>5, <2>6, MainSafe
<1>5. CASE Unmark
  <2>1. /\ up /\ loc[Main].pc = "unmark" /\ (img = None \/ Home(img))
        /\ UNCHANGED <<file, img, ver, up, backup, st, flag, odd>>
    BY <1>a, <1>5 DEF Unmark, At, Checking, proc
  <2>2. loc'[Main].pc = (IF img = None THEN "run" ELSE "tidy") /\ \A t \in Tasks : loc'[t] = loc[t]
    BY <1>a, <1>5, GotoFacts DEF Unmark, Places
  <2>3. Checking'
    BY <2>1, <2>2 DEF Checking, Imaged, Home, Odd
  <2>4. Promised' /\ Image' /\ Gone' /\ Kin' /\ InPlace'
    BY <2>1, PromiseKept, MainFilesKept
  <2> QED BY <2>1, <2>2, <2>3, <2>4, MainSafe
<1>6. CASE Tidy
  <2>1. /\ up /\ loc[Main].pc = "tidy" /\ Home(img)
        /\ UNCHANGED <<img, ver, up, backup, st, flag, odd>>
    BY <1>a, <1>6 DEF Tidy, At, Checking, proc
  <2>2. loc'[Main].pc = "run" /\ \A t \in Tasks : loc'[t] = loc[t]
    BY <1>a, <1>6, GotoFacts DEF Tidy, Places
  <2>3. file'["exe"] = file["exe"] /\ file'["broken"] = file["broken"] /\ file'["bak"] = None
    BY <1>a, <1>6 DEF Tidy, Paths
  <2>4. Image' /\ Gone' /\ Kin'
    BY <1>b, <2>1, <2>3 DEF Safe, Image, Gone, Kin, Home
  <2>5. InPlace' /\ Checking'
    BY <2>1, <2>2, <2>3, MainNoHole DEF InPlace, Checking, Imaged, Odd
  <2>6. Promised'
    BY <2>1, PromiseKept
  <2> QED BY <2>1, <2>2, <2>4, <2>5, <2>6, MainSafe
<1> QED BY <1>1, <1>2, <1>3, <1>4, <1>5, <1>6

\* The process ends.
LEMMA StopSafe == ASSUME Types, Types', Safe, Stop PROVE Safe'
<1>1. /\ \A a \in Actors : loc'[a].pc = "idle"
      /\ up /\ ~up' /\ odd \subseteq odd' /\ (InGap => "gap" \in odd')
      /\ UNCHANGED <<file, backup, st, flag>>
  BY DEF Stop, Note, Local, disk
<1>2. Alone' /\ Checking' /\ Image' /\ Gone'
  BY <1>1, ActorFacts DEF Alone, Checking, Imaged, Image, Gone, Resting
<1>3. \A t \in Tasks : Installing(t)' /\ Backing(t)'
  BY <1>1, ActorFacts, RestingTask DEF Resting
<1>4. InPlace'
  <2>1. Hole => InGap
    BY ActorFacts DEF Hole, InGap
  <2> QED BY <1>1, <2>1 DEF Safe, InPlace, Odd
<1>5. Kin' /\ Left'
  BY <1>1 DEF Safe, Kin, Left, Copies, Odd
<1>6. Promised'
  BY <1>1, PromiseKept
<1> QED BY <1>2, <1>3, <1>4, <1>5, <1>6 DEF Safe

\* A step that changes nothing but the age of the files.
LEMMA StillSafe ==
  ASSUME Safe, UNCHANGED <<file, backup, temp, st, flag, up, ver, img, loc, odd>>
  PROVE  Safe'
<1>1. Loaded' = Loaded /\ Pending' = Pending /\ \A S : Odd(S)' = Odd(S)
  BY DEF Loaded, Pending, Odd
<1>2. \A v : Good(v)' = Good(v)
  BY <1>1 DEF Good
<1>3. Alone' /\ Image' /\ Gone' /\ Kin' /\ Left'
  BY <1>1 DEF Safe, Alone, Image, Gone, Kin, Left, Copies
<1>4. Promised' /\ Checking'
  BY <1>1, <1>2 DEF Safe, Promised, Checking, Home
<1>5. InPlace'
  BY <1>1 DEF Safe, InPlace, Hole
<1>6. \A t \in Tasks : Installing(t)' /\ Backing(t)'
  BY <1>1, <1>2 DEF Safe, Installing, Backing
<1> QED BY <1>3, <1>4, <1>5, <1>6 DEF Safe

-----------------------------------------------------------------------------
(* The inductive invariant.                                                *)

LEMMA InitIInv == Init => IInv
<1> SUFFICES ASSUME Init PROVE IInv
  OBVIOUS
<1> USE ActorFacts
<1>1. /\ 1 \in Versions /\ None \notin Versions /\ None \notin Paths
      /\ MaxBackups \in Nat
  BY UpdateAssumption DEF Versions
<1>2. loc \in [Actors -> Locals] /\ \A a \in Actors : loc[a].pc = (IF a = Main THEN "run" ELSE "idle")
  BY DEF Init, Local, Locals, Places
<1>3. Loaded = DefaultState /\ st \in State /\ Len(Loaded.backups) <= MaxBackups /\ Pending = None
  <2>1. DefaultState \in State /\ Len(DefaultState.backups) = 0 /\ DefaultState.pending = None
    BY EmptySeq DEF DefaultState, State
  <2> QED BY <1>1, <2>1, UpdateAssumption DEF Init, Loaded, Pending
<1>4. TypeOK
  BY <1>1, <1>3 DEF Init, TypeOK, Content, Paths, Ages
<1>5. Types
  BY <1>2, <1>4 DEF Types, Resting, Placed, Imaged
<1>6. Alone /\ Checking /\ Promised
  BY <1>2, <1>3 DEF Alone, Checking, Imaged, Promised, Resting
<1>7. file["exe"] \in Versions /\ file["exe"] = 1 /\ img = "exe" /\ ver = 1 /\ file["bak"] = None
  BY <1>1 DEF Init, Paths
<1>8. Image /\ Gone /\ Kin /\ InPlace
  BY <1>7 DEF Image, Gone, Kin, InPlace
<1>9. Left
  BY <1>7 DEF Left, Copies, Paths
<1>10. \A t \in Tasks : Installing(t) /\ Backing(t)
  BY <1>2 DEF Installing, Backing
<1> QED BY <1>5, <1>6, <1>8, <1>9, <1>10 DEF IInv, Safe

\* What has happened once is never forgotten.
LEMMA NextOdd == ASSUME [Next]_vars PROVE odd \subseteq odd'
<1>1. ASSUME NEW t \in Tasks, Update(t) PROVE odd \subseteq odd'
  <2>1. CASE \/ \E v \in Versions : PerformUpdate(t, v) \/ ApplyUpdate(t, v)
             \/ CreateBackup(t) \/ BackupEntry(t) \/ RemoveOld(t) \/ Place(t)
    BY <2>1 DEF PerformUpdate, ApplyUpdate, Offer, CreateBackup, BackupEntry, Prune, RemoveOld, Place, Note
  <2>2. CASE SetPending(t) \/ WriteFlag(t) \/ Download(t) \/ Verify(t) \/ MoveAside(t) \/ Mark(t)
    BY <2>2 DEF SetPending, WriteFlag, Download, Verify, MoveAside, Mark
  <2>3. CASE Respawn(t) \/ SpawnFails(t) \/ Undo(t) \/ NoRestart(t)
    BY <2>3 DEF Respawn, SpawnFails, Undo, NoRestart
  <2> QED BY <1>1, <2>1, <2>2, <2>3 DEF Update
<1>2. ASSUME Check PROVE odd \subseteq odd'
  <2>1. CASE RollbackCopy \/ Retain
    BY <2>1 DEF RollbackCopy, Retain, Prune, Note
  <2>2. CASE CheckPending \/ RollbackAside \/ RollbackClean \/ ClearPending \/ Unflag
    BY <2>2 DEF CheckPending, RollbackAside, RollbackClean, ClearPending, Unflag
  <2>3. CASE Legacy \/ LegacyAside \/ LegacySwap \/ LegacyWipe \/ Unmark \/ Tidy
    BY <2>3 DEF Legacy, LegacyAside, LegacySwap, LegacyWipe, Unmark, Tidy
  <2> QED BY <1>2, <2>1, <2>2, <2>3 DEF Check
<1>3. CASE Stop \/ Start \/ Tick \/ UNCHANGED vars
  BY <1>3 DEF Stop, Note, Start, Tick, vars
<1> QED BY <1>1, <1>2, <1>3 DEF Next

LEMMA NextIInv == IInv /\ [Next]_vars => IInv'
<1> SUFFICES ASSUME IInv, [Next]_vars PROVE IInv'
  OBVIOUS
<1>1. Types /\ Types'
  BY NextTypes DEF IInv
<1>2. odd \subseteq odd'
  BY NextOdd
<1>3. SUFFICES ASSUME "overlap" \notin odd' PROVE Safe'
  BY <1>1 DEF IInv
<1>4. Safe
  BY <1>2, <1>3 DEF IInv
<1>5. CASE \E t \in Tasks : Update(t)
  <2>1. PICK t \in Tasks : Update(t)
    BY <1>5
  <2>2. CASE \E v \in Versions : PerformUpdate(t, v) \/ ApplyUpdate(t, v)
    BY <1>1, <1>3, <1>4, <2>2, OfferSafe DEF PerformUpdate, ApplyUpdate
  <2>3. CASE CreateBackup(t) \/ BackupEntry(t) \/ SetPending(t) \/ WriteFlag(t) \/ Download(t) \/ Verify(t)
    BY <1>1, <1>4, <2>3, BackupSafe
  <2>4. CASE \/ RemoveOld(t) \/ MoveAside(t) \/ Place(t) \/ Mark(t)
             \/ SpawnFails(t) \/ Undo(t) \/ NoRestart(t)
    BY <1>1, <1>4, <2>4, InstallSafe
  <2>5. CASE Respawn(t)
    <3>1. loc[t].pc = "restart" /\ Begin(loc[t].self) /\ UNCHANGED <<disk, auto, count, odd>>
      BY <2>5 DEF Respawn, At
    <3>2. Home(loc[t].self)
      BY <1>1, <1>4, <3>1 DEF Types, Placed, Paths, Safe, Installing, Home
    <3>3. file["exe"] \in Versions \/ Odd({"gap", "again"})
      BY <1>1, <1>4, <3>1, NoHole DEF Resting
    <3> QED BY <1>1, <1>4, <3>1, <3>2, <3>3, BeginSafe
  <2> QED BY <2>1, <2>2, <2>3, <2>4, <2>5 DEF Update
<1>6. CASE Check
  BY <1>1, <1>4, <1>6, RollbackSafe, LegacySafe DEF Check
<1>7. CASE Stop
  BY <1>1, <1>4, <1>7, StopSafe
<1>8. CASE Start
  <2>1. Begin("exe") /\ Home("exe") /\ file["exe"] \in Versions /\ UNCHANGED <<disk, auto, count, odd>>
    BY <1>8 DEF Start, Begin, Home
  <2> QED BY <1>1, <1>4, <2>1, BeginSafe
<1>9. CASE Tick
  BY <1>4, <1>9, StillSafe DEF Tick, proc
<1>10. CASE UNCHANGED vars
  BY <1>4, <1>10, StillSafe DEF vars, disk, proc
<1> QED BY <1>5, <1>6, <1>7, <1>8, <1>9, <1>10 DEF Next

\* Everything the steps of update and rollback rely on holds wherever the
\* process ends, as long as no two updates have run at the same time.
THEOREM Invariance == Spec => []IInv
<1>1. Init => IInv
  BY InitIInv
<1>2. IInv /\ [Next]_vars => IInv'
  BY NextIInv
<1> QED BY <1>1, <1>2, PTL DEF Spec

\* Every variable keeps its type, and the rollback state never lists more
\* backups than prune_old_backups keeps.
THEOREM TypeCorrect == Spec => []TypeOK
<1>1. IInv => TypeOK
  BY DEF IInv, Types
<1> QED BY <1>1, Invariance, PTL

\* What install_update has put at the path of the binary, before it writes
\* the marker, is the verified download.
THEOREM InstalledIsWhole == Spec => []InstalledWhole
<1>1. IInv => InstalledWhole
  BY DEF IInv, Safe, Installing, InstalledWhole, At, Odd
<1> QED BY <1>1, Invariance, PTL

\* A crash at any point of an update or of a rollback leaves a whole binary
\* in some place.
THEOREM CopyIsLeft == Spec => []WholeCopy
<1>1. IInv => WholeCopy
  BY DEF IInv, Safe, Left, WholeCopy, Odd
<1> QED BY <1>1, Invariance, PTL

\* What the next start would roll back to is a whole backup of that version.
THEOREM PendingIsWhole == Spec => []PendingWhole
<1>1. IInv => PendingWhole
  BY DEF IInv, Safe, Promised, Good, PendingWhole, Odd
<1> QED BY <1>1, Invariance, PTL

\* The service manager finds a whole binary to start, except for the ways
\* to lose it that Startable names.
THEOREM IsStartable == Spec => []Startable
<1>1. Hole => InGap
  BY ActorFacts DEF Hole, InGap
<1>2. IInv => Startable
  BY <1>1 DEF IInv, Safe, InPlace, Startable, Odd
<1> QED BY <1>2, Invariance, PTL
=============================================================================
