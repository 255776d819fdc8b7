---------------------------- MODULE SelfUpdate ----------------------------
(***************************************************************************)
(* The self-updater and its rollback (src/updater/mod.rs, rollback.rs):    *)
(* perform_update in the background loop and in update commands, the       *)
(* update a local client asks for (ApplyUpdate in src/ipc/server.rs), and  *)
(* the check every start makes before anything else.  They work on files,  *)
(* one after the other, and the process may end between any two.           *)
(*                                                                         *)
(* rename and remove are one system call.  fs::copy and fs::write truncate *)
(* first and fill later: such a step either completes or leaves its file   *)
(* Torn, and a process that ends in the middle is one that ends right      *)
(* after the torn outcome.  A binary is its version, Torn, or None.        *)
(*                                                                         *)
(* This is the Linux build: current_exe() is the link of the running       *)
(* image, which follows a rename of the file and is dead once the file is  *)
(* removed.                                                                *)
(***************************************************************************)
EXTENDS Naturals, Sequences

CONSTANTS
    MaxVersion,     \* bound: versions 1..MaxVersion, the first one installed
    MaxOffers,      \* bound: updates the server offers
    MaxStops,       \* bound: ends of the process other than its own exit
    MaxBackups,     \* MAX_BACKUP_VERSIONS
    Tasks,          \* tasks that update
    Loop,           \* the one that is the background loop
    Clients,        \* the ones that local clients ask for
    Main,           \* the start-up check in main
    None, Torn

Versions == 1..MaxVersion
Actors == Tasks \cup {Main}
Paths == {"exe", "bak", "broken"}
Content == Versions \cup {None, Torn}
State == [backups : Seq(Versions), pending : Versions \cup {None}]

ASSUME UpdateAssumption ==
    /\ MaxVersion \in Nat \ {0} /\ MaxBackups \in Nat \ {0}
    /\ MaxOffers \in Nat /\ MaxStops \in Nat
    /\ Loop \in Tasks /\ Main \notin Tasks /\ Clients \subseteq Tasks \ {Loop}
    /\ None \notin Versions /\ None \notin Paths /\ None # Torn
    /\ Torn \notin Versions /\ Torn \notin State

VARIABLES
    file,       \* the binary's path, its .bak and its .broken
    age,        \* how long ago each of them was written
    backup,     \* versioned backups in the backup directory
    temp,       \* downloads, one path per version
    st,         \* rollback state file: backup entries, pending rollback
    flag,       \* .rollback_pending
    marker,     \* .tamandua_update_marker
    up, ver, img,   \* the process: running, version, path of its image
    auto,       \* auto_restart
    loc,        \* per task: place, version at hand, paths, next places
    offers, stops

\* What the properties observe.
VARIABLE
    odd         \* which of the oddities have happened

disk == <<file, age, backup, temp, st, flag, marker>>
proc == <<up, ver, img, auto>>
count == <<offers, stops>>
vars == <<disk, proc, loc, count, odd>>

(* pruned   prune removed a file that an entry or the pending rollback names *)
(* again    writing the backup that a pending rollback names again failed    *)
(* strayed  an installation began in a process whose image had moved         *)
(* overlap  a task began while another was updating                          *)
(* gap      the process ended, or a copy failed, with no binary in place     *)
Oddities == {"pruned", "again", "strayed", "overlap", "gap"}
Note(x, cond) == odd' = IF cond THEN odd \cup {x} ELSE odd

Ages == {"young", "probation", "old"}
DefaultState == [backups |-> <<>>, pending |-> None]

Local(p) == [pc |-> p, target |-> None, self |-> None]
Resting == {"idle", "ended", "run"}

Init ==
    /\ file = [p \in Paths |-> IF p = "exe" THEN 1 ELSE None]
    /\ age = [p \in Paths |-> "old"]
    /\ backup = [v \in Versions |-> None] /\ temp = [v \in Versions |-> None]
    /\ st = DefaultState /\ flag = None /\ marker = None
    /\ up = TRUE /\ ver = 1 /\ img = "exe" /\ auto \in BOOLEAN
    /\ loc = [a \in Actors |-> Local(IF a = Main THEN "run" ELSE "idle")]
    /\ offers = 0 /\ stops = 0
    /\ odd = {}

At(a, p) == up /\ loc[a].pc = p

\* The locals of a call are gone when it returns.
Step(a, l, p) == loc' = [loc EXCEPT ![a] = IF p \in Resting THEN Local(p) ELSE [l EXCEPT !.pc = p]]
Goto(a, p) == Step(a, loc[a], p)

\* Someone is between moving the binary away and having another in place.
InGap == up /\ \E a \in Actors : loc[a].pc \in {"place", "undo", "restore", "swap"}

\* load_state: a file that cannot be parsed counts as none.
Loaded == IF st = Torn THEN DefaultState ELSE st

\* is_rollback_pending: the flag file, else the state file.
Pending == IF flag \in Versions THEN flag ELSE Loaded.pending

\* save_state.
Save(a, s, ok, err) ==
    \/ st' = s /\ Goto(a, ok)
    \/ st' = Torn /\ Goto(a, err)

\* prune_old_backups: pops the oldest entries and removes their files.
Kept(s)   == SubSeq(s, 1, IF Len(s) < MaxBackups THEN Len(s) ELSE MaxBackups)
Popped(s) == {s[i] : i \in MaxBackups + 1 .. Len(s)}
Listed(s) == {s[i] : i \in DOMAIN s}

Prune(s) ==
    /\ backup' = [v \in Versions |-> IF v \in Popped(s) THEN None ELSE backup[v]]
    /\ Note("pruned", Popped(s) \cap (Listed(Kept(s)) \cup {Pending}) # {})

-----------------------------------------------------------------------------
(* perform_update.                                                         *)

\* check_for_update: the server offers a version, with a valid signature.
Offer(t, v, first) ==
    /\ At(t, "idle") /\ loc[Main].pc = "run" /\ v # ver
    /\ offers < MaxOffers /\ offers' = offers + 1
    /\ Step(t, [loc[t] EXCEPT !.target = v], first)
    /\ Note("overlap", \E u \in Tasks \ {t} : loc[u].pc \notin Resting)
    /\ UNCHANGED <<disk, proc, stops>>

PerformUpdate(t, v) == t \notin Clients /\ Offer(t, v, "backup")

\* The update of a local client has no backup, no pending rollback and no
\* restart.  update_in_progress keeps out other clients, though not one that
\* asks while the flag is about to be set, and no other task.
ApplyUpdate(t, v) == t \in Clients /\ Offer(t, v, "fetch")

Restarts(t) == auto /\ t \notin Clients

\* Mutant: the error of the copy is ignored.
CreateBackupUnchecked(t) ==
    /\ At(t, "backup") /\ Goto(t, "entry")
    /\ \/ img = None /\ UNCHANGED <<backup, odd>>
       \/ img # None /\ backup' = [backup EXCEPT ![ver] = file[img]] /\ UNCHANGED odd
       \/ img # None /\ backup' = [backup EXCEPT ![ver] = Torn] /\ Note("again", Pending = ver)
    /\ UNCHANGED <<file, age, temp, st, flag, marker, proc, count>>

\* create_backup, the copy; without one the update goes on all the same.
CreateBackup(t) ==
    /\ At(t, "backup")
    /\ \/ img = None /\ Goto(t, "fetch") /\ UNCHANGED <<backup, odd>>
       \/ /\ img # None /\ Goto(t, "entry")
          /\ backup' = [backup EXCEPT ![ver] = file[img]] /\ UNCHANGED odd
       \/ /\ img # None /\ Goto(t, "fetch")
          /\ backup' = [backup EXCEPT ![ver] = Torn] /\ Note("again", Pending = ver)
    /\ UNCHANGED <<file, age, temp, st, flag, marker, proc, count>>

\* Mutant: nothing is pruned.
BackupEntryKept(t) ==
    /\ At(t, "entry")
    /\ Save(t, [Loaded EXCEPT !.backups = <<ver>> \o @], "pend", "fetch")
    /\ UNCHANGED <<file, age, backup, temp, flag, marker, proc, count, odd>>

\* Its entry, and the pruning.
BackupEntry(t) ==
    LET s == <<ver>> \o Loaded.backups IN
    /\ At(t, "entry")
    /\ Prune(s)
    /\ Save(t, [backups |-> Kept(s), pending |-> Loaded.pending], "pend", "fetch")
    /\ UNCHANGED <<file, age, temp, flag, marker, proc, count>>

\* set_pending_rollback: the state file, then the flag file.
SetPending(t) ==
    /\ At(t, "pend")
    /\ Save(t, [Loaded EXCEPT !.pending = ver], "flag", "fetch")
    /\ UNCHANGED <<file, age, backup, temp, flag, marker, proc, count, odd>>

WriteFlag(t) ==
    /\ At(t, "flag") /\ Goto(t, "fetch")
    /\ flag' \in {ver, Torn}
    /\ UNCHANGED <<file, age, backup, temp, st, marker, proc, count, odd>>

\* download_update: the whole file, one that is not what the manifest
\* describes, or a failed attempt, which may have been the last.
Download(t) ==
    /\ At(t, "fetch")
    /\ \/ temp' = [temp EXCEPT ![loc[t].target] = loc[t].target] /\ Goto(t, "verify")
       \/ /\ temp' = [temp EXCEPT ![loc[t].target] = Torn]
          /\ Goto(t, "verify") \/ Goto(t, "fetch") \/ Goto(t, "idle")
    /\ UNCHANGED <<file, age, backup, st, flag, marker, proc, count, odd>>

\* Mutant: the file is not hashed again after the download.
VerifySkipped(t) ==
    /\ At(t, "verify")
    /\ Goto(t, "install")
    /\ UNCHANGED <<disk, proc, count, odd>>

\* verify_update: the hash and the signature of the file.
Verify(t) ==
    /\ At(t, "verify")
    /\ Goto(t, IF temp[loc[t].target] = loc[t].target THEN "install" ELSE "idle")
    /\ UNCHANGED <<disk, proc, count, odd>>

-----------------------------------------------------------------------------
(* install_update.                                                         *)

\* current_exe() decides the paths of the rest; the old .bak goes.
RemoveOld(t) ==
    /\ At(t, "install") /\ Step(t, [loc[t] EXCEPT !.self = img], "move")
    /\ Note("strayed", img # "exe")
    /\ file' = [file EXCEPT !["bak"] = None]
    /\ img' = IF img = "bak" THEN None ELSE img
    /\ UNCHANGED <<age, backup, temp, st, flag, marker, up, ver, auto, count>>

\* rename(p, q): the age goes with the file, and so does a running image.
Renamed(p, q) ==
    /\ file' = [file EXCEPT ![q] = file[p], ![p] = IF p = q THEN @ ELSE None]
    /\ age' = [age EXCEPT ![q] = age[p]]
    /\ img' = IF img = p THEN q ELSE IF img = q THEN None ELSE img

\* Mutant: the running binary is removed, not kept as .bak.
MoveAsideGone(t) ==
    /\ At(t, "move") /\ loc[t].self # None
    /\ Goto(t, "place")
    /\ file' = [file EXCEPT ![loc[t].self] = None]
    /\ img' = IF img = loc[t].self THEN None ELSE img
    /\ UNCHANGED <<age, backup, temp, st, flag, marker, up, ver, auto, count, odd>>

MoveAside(t) ==
    LET p == loc[t].self IN
    /\ At(t, "move")
    /\ IF p # None /\ file[p] # None
         THEN Goto(t, "place") /\ Renamed(p, "bak")
         ELSE Goto(t, "idle") /\ UNCHANGED <<file, img, age>>
    /\ UNCHANGED <<backup, temp, st, flag, marker, up, ver, auto, count, odd>>

\* The copy and its permissions; its error is returned and logged.
Place(t) ==
    LET p == loc[t].self
        new == temp[loc[t].target] IN
    /\ At(t, "place")
    /\ \/ /\ new # None /\ Goto(t, "mark")
          /\ file' = [file EXCEPT ![p] = new] /\ UNCHANGED odd
       \/ /\ Goto(t, "idle") /\ Note("gap", p = "exe")
          /\ file' = [file EXCEPT ![p] = IF new = None THEN @ ELSE Torn]
    /\ age' = [age EXCEPT ![p] = IF new = None THEN @ ELSE "young"]
    /\ UNCHANGED <<backup, temp, st, flag, marker, proc, count>>

\* The marker names the version and the .bak; then the download goes.
Mark(t) ==
    /\ At(t, "mark")
    /\ \/ /\ Goto(t, "restart") /\ marker' = loc[t].target
          /\ temp' = [temp EXCEPT ![loc[t].target] = None]
       \/ Goto(t, "idle") /\ marker' = Torn /\ UNCHANGED temp
    /\ UNCHANGED <<file, age, backup, st, flag, proc, count, odd>>

\* A process of the binary at p begins with the check.
Begin(p) ==
    /\ file[p] \in Versions
    /\ up' = TRUE /\ ver' = file[p] /\ img' = p
    /\ loc' = [a \in Actors |-> Local(IF a = Main THEN "check" ELSE "idle")]

\* The new binary is spawned, at the path it was installed at, and this
\* process exits.
Respawn(t) ==
    /\ At(t, "restart") /\ Restarts(t)
    /\ Begin(loc[t].self)
    /\ UNCHANGED <<disk, auto, count, odd>>

\* It cannot be spawned: do_rollback in the running process.
SpawnFails(t) ==
    /\ At(t, "restart") /\ Restarts(t)
    /\ IF img # None /\ file["bak"] # None
         THEN Step(t, [loc[t] EXCEPT !.self = img], "undo") /\ Renamed(img, "broken")
         ELSE Goto(t, "idle") /\ UNCHANGED <<file, img, age>>
    /\ UNCHANGED <<backup, temp, st, flag, marker, up, ver, auto, count, odd>>

\* rename(.bak, current_exe), with the path taken before the first rename.
Undo(t) ==
    LET p == loc[t].self IN
    /\ At(t, "undo") /\ Goto(t, "idle")
    /\ IF file["bak"] # None
         THEN Renamed("bak", p)
         ELSE UNCHANGED <<file, img, age>>
    /\ UNCHANGED <<backup, temp, st, flag, marker, up, ver, auto, count, odd>>

\* Without auto_restart the process goes on; the background loop ends.
NoRestart(t) ==
    /\ At(t, "restart") /\ ~Restarts(t)
    /\ Goto(t, IF t = Loop THEN "ended" ELSE "idle")
    /\ UNCHANGED <<disk, proc, count, odd>>

-----------------------------------------------------------------------------
(* check_and_rollback_if_needed.                                           *)

\* Mutant: a pending rollback is taken up without a look for its backup.
CheckPendingBlind ==
    /\ At(Main, "check")
    /\ Step(Main, [loc[Main] EXCEPT !.target = Pending],
            IF Pending = None THEN "legacy"
            ELSE CASE age[img] = "young" -> "aside"
                   [] age[img] = "probation" -> "legacy"
                   [] age[img] = "old" -> "confirm")
    /\ UNCHANGED <<disk, proc, count, odd>>

\* A young binary is rolled back, an old one confirmed.
CheckPending ==
    /\ At(Main, "check")
    /\ Step(Main, [loc[Main] EXCEPT !.target = Pending],
            IF Pending = None THEN "legacy"
            ELSE CASE age[img] = "young" ->
                        IF backup[Pending] # None THEN "aside" ELSE "run"
                   [] age[img] = "probation" -> "legacy"
                   [] age[img] = "old" -> "confirm")
    /\ UNCHANGED <<disk, proc, count, odd>>

\* execute_rollback: the hash of the backup is compared and not acted upon.
RollbackAside ==
    /\ At(Main, "aside") /\ Step(Main, [loc[Main] EXCEPT !.self = img], "restore")
    /\ Renamed(img, "broken")
    /\ UNCHANGED <<backup, temp, st, flag, marker, up, ver, auto, count, odd>>

\* The copy, which a process that runs from .broken cannot make: the file
\* it is running may not be written.
RollbackCopy ==
    LET p == loc[Main].self IN
    /\ At(Main, "restore")
    /\ \/ /\ img # p /\ Goto(Main, "clean") /\ UNCHANGED odd
          /\ file' = [file EXCEPT ![p] = backup[loc[Main].target]]
       \/ /\ Goto(Main, "run") /\ Note("gap", p = "exe")
          /\ file' = [file EXCEPT ![p] = IF img = p THEN @ ELSE Torn]
    /\ age' = [age EXCEPT ![p] = IF img = p THEN @ ELSE "young"]
    /\ UNCHANGED <<backup, temp, st, flag, marker, proc, count>>

\* .broken goes, and with it the image of this process.
RollbackClean ==
    /\ At(Main, "clean") /\ Goto(Main, "clear")
    /\ file' = [file EXCEPT !["broken"] = None] /\ img' = None
    /\ UNCHANGED <<age, backup, temp, st, flag, marker, up, ver, auto, count, odd>>

\* clear_pending_rollback, after a rollback or to confirm.
ClearPending ==
    /\ \/ At(Main, "clear")   /\ Save(Main, [Loaded EXCEPT !.pending = None], "unflag", "run")
       \/ At(Main, "confirm") /\ Save(Main, [Loaded EXCEPT !.pending = None], "unflag", "legacy")
    /\ UNCHANGED <<file, age, backup, temp, flag, marker, proc, count, odd>>

Unflag ==
    /\ At(Main, "unflag")
    /\ flag' = None
    /\ Goto(Main, IF img = None THEN "run" ELSE "retain")
    /\ UNCHANGED <<file, age, backup, temp, st, marker, proc, count, odd>>

\* confirm_update ends with another round of pruning.
Retain ==
    /\ At(Main, "retain")
    /\ Prune(Loaded.backups)
    /\ Save(Main, [Loaded EXCEPT !.backups = Kept(@)], "legacy", "legacy")
    /\ UNCHANGED <<file, age, temp, flag, marker, proc, count>>

\* The marker file of installations, with the .bak beside the binary.
Legacy ==
    /\ At(Main, "legacy")
    /\ Goto(Main, IF marker \notin Versions THEN "run"
                  ELSE CASE age[img] = "young" ->
                              IF file["bak"] # None THEN "back" ELSE "run"
                         [] age[img] = "probation" -> "run"
                         [] age[img] = "old" -> "unmark")
    /\ UNCHANGED <<disk, proc, count, odd>>

\* do_rollback: two renames, then .broken goes, then the marker.
LegacyAside ==
    /\ At(Main, "back") /\ Step(Main, [loc[Main] EXCEPT !.self = img], "swap")
    /\ Renamed(img, "broken")
    /\ UNCHANGED <<backup, temp, st, flag, marker, up, ver, auto, count, odd>>

LegacySwap ==
    /\ At(Main, "swap") /\ Goto(Main, "wipe")
    /\ Renamed("bak", loc[Main].self)
    /\ UNCHANGED <<backup, temp, st, flag, marker, up, ver, auto, count, odd>>

LegacyWipe ==
    /\ At(Main, "wipe") /\ Goto(Main, "unmark")
    /\ file' = [file EXCEPT !["broken"] = None] /\ img' = None
    /\ UNCHANGED <<age, backup, temp, st, flag, marker, up, ver, auto, count, odd>>

\* After the rollback, or once the binary is stable: then the .bak goes too.
Unmark ==
    /\ At(Main, "unmark") /\ Goto(Main, IF img = None THEN "run" ELSE "tidy")
    /\ marker' = None
    /\ UNCHANGED <<file, age, backup, temp, st, flag, proc, count, odd>>

Tidy ==
    /\ At(Main, "tidy") /\ Goto(Main, "run")
    /\ file' = [file EXCEPT !["bak"] = None]
    /\ UNCHANGED <<age, backup, temp, st, flag, marker, proc, count, odd>>

-----------------------------------------------------------------------------
\* The process ends: a crash, a kill, the machine going down.
Stop ==
    /\ up /\ up' = FALSE
    /\ stops < MaxStops /\ stops' = stops + 1
    /\ Note("gap", InGap)
    /\ loc' = [a \in Actors |-> Local("idle")]
    /\ UNCHANGED <<disk, ver, img, auto, offers>>

\* The service manager or the watchdog starts what is at the path.
Start ==
    /\ ~up
    /\ Begin("exe")
    /\ UNCHANGED <<disk, auto, count, odd>>

Older(a) == IF a = "young" THEN "probation" ELSE "old"

Tick ==
    /\ age' = [p \in DOMAIN age |-> Older(age[p])]
    /\ UNCHANGED <<file, backup, temp, st, flag, marker, proc, loc, count, odd>>

Update(t) ==
    \/ \E v \in Versions : PerformUpdate(t, v) \/ ApplyUpdate(t, v)
    \/ CreateBackup(t) \/ BackupEntry(t) \/ SetPending(t) \/ WriteFlag(t)
    \/ Download(t) \/ Verify(t)
    \/ RemoveOld(t) \/ MoveAside(t) \/ Place(t) \/ Mark(t)
    \/ Respawn(t) \/ SpawnFails(t) \/ Undo(t) \/ NoRestart(t)

Check ==
    \/ CheckPending \/ RollbackAside \/ RollbackCopy \/ RollbackClean
    \/ ClearPending \/ Unflag \/ Retain
    \/ Legacy \/ LegacyAside \/ LegacySwap \/ LegacyWipe \/ Unmark \/ Tidy

Next == (\E t \in Tasks : Update(t)) \/ Check \/ Stop \/ Start \/ Tick

Spec == Init /\ [][Next]_vars

-----------------------------------------------------------------------------
(* Properties.                                                             *)

\* Every variable has its type, and no more backups are listed than are kept.
TypeOK ==
    /\ file \in [Paths -> Content] /\ age \in [Paths -> Ages]
    /\ backup \in [Versions -> Content] /\ temp \in [Versions -> Content]
    /\ st \in State \cup {Torn} /\ flag \in Content /\ marker \in Content
    /\ up \in BOOLEAN /\ auto \in BOOLEAN /\ ver \in Versions
    /\ img \in Paths \cup {None} /\ odd \subseteq Oddities
    /\ Len(Loaded.backups) <= MaxBackups

\* install_update "performs an atomic rename dance": what it has put at the
\* path of the binary is the verified download, whole, when one task at a
\* time updates and the process still runs from that path.
InstalledWhole ==
    \A t \in Tasks : At(t, "mark") =>
        file["exe"] = loc[t].target \/ odd \cap {"overlap", "strayed"} # {}

Copies == {file[p] : p \in Paths} \cup {backup[v] : v \in Versions}

\* Wherever the process ends, a whole binary is left somewhere, unless
\* the backup a rollback counts on was torn by a second copy, or an
\* installation ran in a process whose own image was the .bak.
WholeCopy == Copies \cap Versions # {} \/ odd \cap {"again", "strayed", "overlap"} # {}

\* "so the agent can recover if the new binary is broken": a pending rollback
\* names a whole backup of its version, unless writing that backup again
\* failed or it was pruned as a duplicate.
PendingWhole ==
    Pending # None => backup[Pending] = Pending \/ odd \cap {"pruned", "again", "overlap"} # {}

\* A whole binary is in place for the next start: ending or failing in
\* the gap, a second copy of a backup that failed and two updates at once
\* are all the ways to lose it.
Startable ==
    file["exe"] \in Versions \/ InGap \/ odd \cap {"gap", "again", "overlap"} # {}
=============================================================================
