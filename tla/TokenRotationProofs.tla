------------------------- MODULE TokenRotationProofs -------------------------
(***************************************************************************)
(* Proofs about TokenRotation.                                             *)
(*                                                                         *)
(* While no answer is lost, nobody re-enrolls and every manager of the     *)
(* monitor saves the token it was given (Calm), two managers cannot lose   *)
(* the token, although nothing serialises their writes to the config file. *)
(* The reason is the backend: only the holder of the valid token gets the  *)
(* next one, and the other manager can become the holder only through the  *)
(* file.  So while one manager carries the valid token to the file, the    *)
(* file and the other manager's memory hold something else (Carried), and  *)
(* when none does, the token is in the file, or the proactive manager has  *)
(* failed to save it and is the only one to have it (Settled).             *)
(***************************************************************************)
EXTENDS TokenRotation, TLAPS

Calm == ~recovery /\ ~cut /\ "reconnect" \notin unsaved

Carried == \A m \in Managers : Saving(m) =>
              /\ mem[m] = valid /\ disk # valid
              /\ \A k \in Managers \ {m} : mem[k] # valid /\ ~Saving(k)
Kept == "proactive" \in unsaved /\ mem["proactive"] = valid /\ mem["reconnect"] # valid
Settled == (\A m \in Managers : ~Saving(m)) => disk = valid \/ Kept
NoneEnrolls == \A m \in Managers : pc[m] # "enroll"

Safe == Carried /\ Settled /\ NoneEnrolls

Tried == \A m \in Managers : pc[m] = "send" => attempt[m] < MaxRetries

PCs == {"idle", "send", "retry", "enroll", "save", "truncate", "fill", "load"}

\* TypeOK without its Booleans.
Counts ==
    /\ valid \in Tokens /\ disk \in Tokens \cup {Torn}
    /\ mem \in [Managers -> Tokens] /\ unsaved \subseteq Managers
    /\ attempt \in [Managers -> 0..MaxRetries]
    /\ pc \in [Managers -> PCs]
    /\ left \in 0..Trouble
    /\ Tried

Flags == /\ due \in BOOLEAN /\ conn \in BOOLEAN /\ rested \in BOOLEAN
         /\ recovery \in BOOLEAN /\ writable \in BOOLEAN /\ cut \in BOOLEAN

IInv == Counts /\ Flags /\ (Calm => Safe)

-----------------------------------------------------------------------------
(* What each action does, with the Booleans set apart.                     *)

Trouble1 == left' = left \/ (left > 0 /\ left' = left - 1)

\* A manager goes from a failed attempt to the next, to re-enrollment, or
\* gives up.
LEMMA RetryFacts ==
    ASSUME NEW m \in Managers, Retry(m)
    PROVE  /\ pc[m] = "retry" /\ UNCHANGED <<valid, disk, mem, unsaved, attempt, left>>
           /\ \E p \in {"send", "enroll", "idle"} :
                /\ pc' = [pc EXCEPT ![m] = p]
                /\ p = "send" => attempt[m] < MaxRetries
                /\ Calm => p # "enroll"
  <1>1. /\ pc[m] = "retry" /\ UNCHANGED <<valid, disk, mem, unsaved, attempt, left>>
        /\ Goto(m, IF attempt[m] < MaxRetries THEN "send"
                   ELSE IF recovery THEN "enroll" ELSE "idle")
    BY Zenon DEF Retry, server, file, clock
  <1>2. CASE attempt[m] < MaxRetries
    <2>1. pc' = [pc EXCEPT ![m] = "send"]
      BY <1>1, <1>2, Zenon DEF Goto
    <2> QED BY <1>1, <1>2, <2>1, Zenon
  <1>3. CASE ~(attempt[m] < MaxRetries) /\ recovery
    <2>1. pc' = [pc EXCEPT ![m] = "enroll"]
      BY <1>1, <1>3, Zenon DEF Goto
    <2> QED BY <1>1, <1>3, <2>1, Zenon DEF Calm
  <1>4. CASE ~(attempt[m] < MaxRetries) /\ ~recovery
    <2>1. pc' = [pc EXCEPT ![m] = "idle"]
      BY <1>1, <1>4, Zenon DEF Goto
    <2> QED BY <1>1, <1>4, <2>1, Zenon
  <1> QED BY <1>2, <1>3, <1>4, Zenon

\* The backend hands out a token nobody has, and the answer arrives or not.
LEMMA IssueFacts ==
    ASSUME NEW m \in Managers, NEW lost, Issue(m, lost)
    PROVE  /\ valid' \in Tokens /\ valid' # disk /\ Trouble1
           /\ \A k \in Managers : mem[k] # valid'
           /\ \/ pc' = [pc EXCEPT ![m] = "save"] /\ mem' = [mem EXCEPT ![m] = valid']
              \/ pc' = [pc EXCEPT ![m] = lost] /\ mem' = mem /\ ~Calm'
  <1>1. PICK t \in Fresh :
          /\ valid' = t
          /\ \/ /\ Goto(m, "save") /\ mem' = [mem EXCEPT ![m] = t]
                /\ UNCHANGED <<clock, cut>>
             \/ /\ Mishap /\ cut' = TRUE
                /\ Goto(m, lost) /\ UNCHANGED mem
    BY Zenon DEF Issue
  <1>2. t \in Tokens /\ t # disk /\ \A k \in Managers : mem[k] # t
    BY <1>1 DEF Fresh, Unused
  <1> QED BY <1>1, <1>2, Zenon DEF Trouble1, Mishap, Goto, clock, Calm

\* A refresh gets a token if it shows the valid one; otherwise, or when it or
\* its answer is lost, the attempt has failed.
LEMMA RefreshFacts ==
    ASSUME NEW m \in Managers, RefreshToken(m)
    PROVE  /\ pc[m] = "send" /\ attempt' = [attempt EXCEPT ![m] = @ + 1] /\ Trouble1
           /\ UNCHANGED <<disk, unsaved>>
           /\ \/ /\ mem[m] = valid /\ valid' \in Tokens /\ valid' # disk
                 /\ \A k \in Managers : mem[k] # valid'
                 /\ pc' = [pc EXCEPT ![m] = "save"] /\ mem' = [mem EXCEPT ![m] = valid']
              \/ /\ valid' \in Tokens /\ ~Calm'
                 /\ pc' = [pc EXCEPT ![m] = "retry"] /\ mem' = mem
              \/ valid' = valid /\ mem' = mem /\ pc' = [pc EXCEPT ![m] = "retry"]
  <1>1. /\ pc[m] = "send" /\ attempt' = [attempt EXCEPT ![m] = @ + 1]
        /\ UNCHANGED <<disk, unsaved>>
    BY Zenon DEF RefreshToken, file
  <1>2. CASE mem[m] = valid /\ Issue(m, "retry")
    BY <1>1, <1>2, IssueFacts, Zenon
  <1>3. CASE Refuse(m, "retry") /\ (UNCHANGED clock \/ Mishap)
    BY <1>1, <1>3, Zenon DEF Refuse, Goto, server, clock, Mishap, Trouble1
  <1> QED BY <1>2, <1>3, Zenon DEF RefreshToken

\* Re-enrollment: the same, whatever the manager had.
LEMMA EnrollFacts ==
    ASSUME NEW m \in Managers, ReEnroll(m)
    PROVE  /\ pc[m] = "enroll" /\ Trouble1 /\ UNCHANGED <<disk, unsaved, attempt>>
           /\ \/ /\ valid' \in Tokens
                 /\ pc' = [pc EXCEPT ![m] = "save"] /\ mem' = [mem EXCEPT ![m] = valid']
              \/ valid' \in Tokens /\ pc' = [pc EXCEPT ![m] = "idle"] /\ mem' = mem
              \/ valid' = valid /\ mem' = mem /\ pc' = [pc EXCEPT ![m] = "idle"]
  <1>1. pc[m] = "enroll" /\ UNCHANGED <<disk, unsaved, attempt>>
    BY Zenon DEF ReEnroll, file
  <1>2. CASE Issue(m, "idle")
    BY <1>1, <1>2, IssueFacts, Zenon
  <1>3. CASE Mishap /\ Refuse(m, "idle")
    BY <1>1, <1>3, Zenon DEF Refuse, Goto, server, Mishap, Trouble1
  <1> QED BY <1>2, <1>3, Zenon DEF ReEnroll

\* A step of saving a token goes on, or fails and leaves the file alone.
Fails(m) == /\ pc' = [pc EXCEPT ![m] = "idle"] /\ disk' = disk
            /\ unsaved' = unsaved \cup {m}

\* The steps of saving a token.
LEMMA SaveFacts ==
    ASSUME NEW m \in Managers
    PROVE  /\ Save(m) =>
                /\ pc[m] = "save" /\ UNCHANGED <<valid, mem, attempt>> /\ Trouble1
                /\ \/ Fails(m)
                   \/ pc' = [pc EXCEPT ![m] = "truncate"] /\ UNCHANGED <<disk, unsaved>>
           /\ Truncate(m) =>
                /\ pc[m] = "truncate" /\ UNCHANGED <<valid, mem, attempt>> /\ Trouble1
                /\ \/ Fails(m)
                   \/ pc' = [pc EXCEPT ![m] = "fill"] /\ disk' = Torn /\ UNCHANGED unsaved
           /\ Fill(m) =>
                /\ pc[m] = "fill" /\ UNCHANGED <<valid, mem, attempt>> /\ Trouble1
                /\ \/ Fails(m)
                   \/ pc' = [pc EXCEPT ![m] = "idle"] /\ disk' = mem[m] /\ UNCHANGED unsaved
  BY Zenon DEF Save, Truncate, Fill, Unsaved, Fails, Goto, server, file, clock, Mishap, Trouble1

\* The steps that touch no token.
LEMMA QuietFacts ==
    ASSUME Age \/ ConnectionLost \/ Connect \/ UNCHANGED vars
    PROVE  UNCHANGED <<valid, disk, mem, unsaved, attempt, pc>> /\ Trouble1
  BY Zenon DEF Age, ConnectionLost, Connect, Mishap, vars, server, file, clock, Trouble1

\* The steps that start a refresh.
LEMMA StartFacts ==
    /\ CheckAndRefresh =>
         /\ pc["proactive"] = "idle" /\ pc' = [pc EXCEPT !["proactive"] = "send"]
         /\ attempt' = [attempt EXCEPT !["proactive"] = 0]
         /\ UNCHANGED <<valid, disk, mem, unsaved, left>>
    /\ ConnectRejected =>
         /\ pc["reconnect"] = "idle" /\ pc' = [pc EXCEPT !["reconnect"] = "load"]
         /\ UNCHANGED <<valid, disk, mem, unsaved, attempt>> /\ Trouble1
    /\ RefreshFromDisk =>
         /\ pc["reconnect"] = "load" /\ UNCHANGED <<valid, disk, unsaved>> /\ Trouble1
         /\ \/ /\ pc' = [pc EXCEPT !["reconnect"] = "idle"] /\ UNCHANGED <<mem, attempt>>
            \/ /\ disk # Torn /\ pc' = [pc EXCEPT !["reconnect"] = "send"]
               /\ attempt' = [attempt EXCEPT !["reconnect"] = 0]
               /\ mem' = [mem EXCEPT !["reconnect"] = disk]
  BY Zenon DEF CheckAndRefresh, ConnectRejected, RefreshFromDisk, StartRefresh, Goto,
               server, file, clock, Mishap, Trouble1

\* A recovery token is installed or not, and a lost token stays lost.
LEMMA FlagSteps ==
    ASSUME Flags, [Next]_vars
    PROVE  Flags' /\ (Calm' => Calm)
  <1>1. ASSUME NEW m \in Managers, NEW lost, Issue(m, lost)
        PROVE  /\ due' \in BOOLEAN /\ rested' \in BOOLEAN
               /\ UNCHANGED <<recovery, writable>> /\ cut' \in BOOLEAN /\ (cut => cut')
    <2>1. PICK t \in Fresh :
            \/ UNCHANGED <<clock, cut>>
            \/ Mishap /\ cut' = TRUE
      BY <1>1, Zenon DEF Issue
    <2>2. due' = FALSE /\ UNCHANGED <<recovery, writable>>
      BY <1>1, Zenon DEF Issue
    <2> QED BY <2>1, <2>2, Zenon DEF Mishap, clock, Flags
  <1>2. ASSUME NEW m \in Managers, Manager(m)
        PROVE  Flags' /\ recovery' = recovery /\ (cut => cut') /\ unsaved \subseteq unsaved'
    <2>1. CASE RefreshToken(m)
      BY <1>1, <2>1, Zenon DEF RefreshToken, Refuse, Mishap, server, file, clock, Flags
    <2>2. CASE ReEnroll(m)
      BY <1>1, <2>2, Zenon DEF ReEnroll, Refuse, Mishap, server, file, clock, Flags
    <2>3. CASE Retry(m) \/ Save(m) \/ Truncate(m) \/ Fill(m)
      <3>1. Flags' /\ UNCHANGED <<recovery, cut>>
        BY <2>3, Zenon DEF Retry, Save, Truncate, Fill, Mishap, server, clock, Flags
      <3>2. unsaved' = unsaved \/ unsaved' = unsaved \cup {m}
        BY <2>3, Zenon DEF Retry, Save, Truncate, Fill, Unsaved, file
      <3> QED BY <3>1, <3>2, Zenon
    <2> QED BY <1>2, <2>1, <2>2, <2>3, Zenon DEF Manager
  <1>3. CASE Age \/ ConnectionLost \/ Connect \/ UNCHANGED vars
    BY <1>3, Zenon DEF Age, ConnectionLost, Connect, Mishap, vars, server, file, clock, Flags, Calm
  <1>4. CASE CheckAndRefresh \/ ConnectRejected \/ RefreshFromDisk
    BY <1>4, Zenon DEF CheckAndRefresh, ConnectRejected, RefreshFromDisk, Mishap,
                       server, file, clock, Flags, Calm
  <1> QED BY <1>2, <1>3, <1>4, Zenon DEF Next, Calm

-----------------------------------------------------------------------------
(* The inductive invariant.                                                *)

LEMMA InitInvariant == Init => IInv
  <1> SUFFICES ASSUME Init PROVE IInv
    OBVIOUS
  <1>1. Flags
    BY Zenon DEF Init, Flags
  <1>2. /\ valid = 1 /\ disk = 1 /\ left = Trouble /\ unsaved = {}
        /\ mem = [m \in Managers |-> 1]
        /\ attempt = [m \in Managers |-> 0] /\ pc = [m \in Managers |-> "idle"]
    BY Zenon DEF Init
  <1>3. Counts
    BY <1>2, RotationAssumption DEF Counts, Tried, PCs, Tokens
  <1>4. Safe
    BY <1>2 DEF Safe, Carried, Settled, NoneEnrolls, Saving, Managers
  <1> QED BY <1>1, <1>3, <1>4, Zenon DEF IInv

\* Tokens and counters stay in their ranges, losses and re-enrollment or not.
LEMMA CountsStep ==
    ASSUME Counts, [Next]_vars
    PROVE  Counts'
  <1> USE RotationAssumption DEF Counts, PCs, Tried
  <1>1. ASSUME NEW m \in Managers, Manager(m) PROVE Counts'
    <2>1. CASE Retry(m)
      BY <2>1, RetryFacts
    <2>2. CASE RefreshToken(m)
      <3>1. attempt[m] + 1 \in 0..MaxRetries
        BY <2>2, RefreshFacts
      <3> QED BY <2>2, <3>1, RefreshFacts DEF Trouble1
    <2>3. CASE ReEnroll(m)
      BY <2>3, EnrollFacts DEF Trouble1
    <2>4. CASE Save(m)
      BY <2>4, SaveFacts DEF Fails, Trouble1
    <2>5. CASE Truncate(m)
      BY <2>5, SaveFacts DEF Fails, Trouble1
    <2>6. CASE Fill(m)
      BY <2>6, SaveFacts DEF Fails, Trouble1
    <2> QED BY <1>1, <2>1, <2>2, <2>3, <2>4, <2>5, <2>6, Zenon DEF Manager
  <1>2. CASE Age \/ ConnectionLost \/ Connect \/ UNCHANGED vars
    BY <1>2, QuietFacts DEF Trouble1
  <1>0. "proactive" \in Managers /\ "reconnect" \in Managers
    BY DEF Managers
  <1>3. CASE CheckAndRefresh
    BY <1>0, <1>3, StartFacts
  <1>4. CASE ConnectRejected
    BY <1>0, <1>4, StartFacts DEF Trouble1
  <1>5. CASE RefreshFromDisk
    BY <1>0, <1>5, StartFacts DEF Trouble1
  <1> QED BY <1>1, <1>2, <1>3, <1>4, <1>5, Zenon DEF Next

\* While all is calm the valid token is in the file or one manager carries it.
LEMMA SafeStep ==
    ASSUME Counts, Safe, Calm, Calm', [Next]_vars
    PROVE  Safe'
  <1> USE DEF Counts, Safe
  <1>1. ASSUME NEW m \in Managers, Retry(m) PROVE Safe'
    <2>1. PICK p \in {"send", "idle"} :
             /\ pc[m] = "retry" /\ pc' = [pc EXCEPT ![m] = p]
             /\ UNCHANGED <<valid, disk, mem, unsaved>>
      BY <1>1, RetryFacts, Zenon
    <2> QED BY <2>1 DEF Carried, Settled, Kept, NoneEnrolls, Saving
  <1>2. ASSUME NEW m \in Managers, RefreshToken(m) PROVE Safe'
    <2>0. /\ pc[m] = "send" /\ ~Saving(m) /\ UNCHANGED <<disk, unsaved>>
          /\ \/ /\ mem[m] = valid /\ valid' # disk /\ \A k \in Managers : mem[k] # valid'
                /\ pc' = [pc EXCEPT ![m] = "save"] /\ mem' = [mem EXCEPT ![m] = valid']
             \/ valid' = valid /\ mem' = mem /\ pc' = [pc EXCEPT ![m] = "retry"]
      BY <1>2, RefreshFacts, Zenon DEF Saving
    <2>1. CASE /\ mem[m] = valid /\ valid' # disk /\ \A k \in Managers : mem[k] # valid'
               /\ pc' = [pc EXCEPT ![m] = "save"] /\ mem' = [mem EXCEPT ![m] = valid']
      <3>1. \A k \in Managers : ~Saving(k)
        BY <2>0, <2>1 DEF Carried
      <3>2. Carried'
        BY <2>0, <2>1, <3>1 DEF Carried, Saving
      <3>3. Settled' /\ NoneEnrolls'
        BY <2>0, <2>1 DEF Settled, NoneEnrolls, Saving
      <3> QED BY <3>2, <3>3
    <2>2. CASE valid' = valid /\ mem' = mem /\ pc' = [pc EXCEPT ![m] = "retry"]
      BY <2>0, <2>2 DEF Carried, Settled, Kept, NoneEnrolls, Saving
    <2> QED BY <2>0, <2>1, <2>2
  <1>3. ASSUME NEW m \in Managers, ReEnroll(m) PROVE Safe'
    BY <1>3, EnrollFacts, Zenon DEF NoneEnrolls
  <1>4. ASSUME NEW m \in Managers, Saving(m), Fails(m), UNCHANGED <<valid, mem>> PROVE Safe'
    <2>1. m = "proactive"
      BY <1>4 DEF Fails, Calm, Managers
    <2>2. /\ mem["proactive"] = valid /\ mem["reconnect"] # valid
          /\ ~Saving("reconnect")
      BY <1>4, <2>1 DEF Carried, Managers
    <2>3. Carried' /\ NoneEnrolls'
      BY <1>4, <2>1, <2>2 DEF Fails, Carried, NoneEnrolls, Saving, Managers
    <2>4. Settled'
      BY <1>4, <2>1, <2>2 DEF Fails, Settled, Kept
    <2> QED BY <2>3, <2>4
  <1>5. ASSUME NEW m \in Managers, Save(m) PROVE Safe'
    <2>1. pc[m] = "save" /\ Saving(m) /\ UNCHANGED <<valid, mem>>
      BY <1>5, SaveFacts DEF Saving
    <2>2. CASE pc' = [pc EXCEPT ![m] = "truncate"] /\ UNCHANGED <<disk, unsaved>>
      BY <2>1, <2>2 DEF Carried, Settled, NoneEnrolls, Saving
    <2> QED BY <1>4, <1>5, <2>1, <2>2, SaveFacts, Zenon
  <1>6. ASSUME NEW m \in Managers, Truncate(m) PROVE Safe'
    <2>1. pc[m] = "truncate" /\ Saving(m) /\ UNCHANGED <<valid, mem>>
      BY <1>6, SaveFacts DEF Saving
    <2>2. CASE pc' = [pc EXCEPT ![m] = "fill"] /\ disk' = Torn /\ UNCHANGED unsaved
      BY <2>1, <2>2 DEF Carried, Settled, NoneEnrolls, Saving, Torn, Tokens
    <2> QED BY <1>4, <1>6, <2>1, <2>2, SaveFacts, Zenon
  <1>7. ASSUME NEW m \in Managers, Fill(m) PROVE Safe'
    <2>1. pc[m] = "fill" /\ Saving(m) /\ UNCHANGED <<valid, mem>>
      BY <1>7, SaveFacts DEF Saving
    <2>2. CASE pc' = [pc EXCEPT ![m] = "idle"] /\ disk' = mem[m] /\ UNCHANGED unsaved
      <3>1. mem[m] = valid /\ \A k \in Managers \ {m} : ~Saving(k)
        BY <2>1 DEF Carried
      <3> QED BY <2>1, <2>2, <3>1 DEF Carried, Settled, NoneEnrolls, Saving
    <2> QED BY <1>4, <1>7, <2>1, <2>2, SaveFacts, Zenon
  <1>8. CASE Age \/ ConnectionLost \/ Connect \/ UNCHANGED vars
    BY <1>8, QuietFacts DEF Carried, Settled, Kept, NoneEnrolls, Saving
  <1>9. CASE CheckAndRefresh
    BY <1>9, StartFacts DEF Carried, Settled, Kept, NoneEnrolls, Saving, Managers
  <1>10. CASE ConnectRejected
    BY <1>10, StartFacts DEF Carried, Settled, Kept, NoneEnrolls, Saving, Managers
  <1>11. CASE RefreshFromDisk
    <2>1. Carried'
      BY <1>11, StartFacts DEF Carried, Saving, Managers
    <2>2. Settled' /\ NoneEnrolls'
      BY <1>11, StartFacts DEF Settled, Kept, NoneEnrolls, Saving, Managers
    <2> QED BY <2>1, <2>2
  <1> QED BY <1>1, <1>2, <1>3, <1>5, <1>6, <1>7, <1>8, <1>9, <1>10, <1>11, Zenon
          DEF Next, Manager

-----------------------------------------------------------------------------
(* Theorems.                                                               *)

\* The inductive invariant of the two managers.
THEOREM Invariance == Spec => []IInv
  <1>1. IInv /\ [Next]_vars => IInv'
    BY FlagSteps, CountsStep, SafeStep, Zenon DEF IInv
  <1> QED BY <1>1, InitInvariant, PTL DEF Spec

\* Tokens, attempts and flags have their types for any number of refreshes: in
\* particular refresh_with_retry makes at most max_retries attempts.
THEOREM TypeCorrect == Spec => []TypeOK
  <1>1. IInv => TypeOK BY Zenon DEF IInv, Counts, Flags, PCs, TypeOK
  <1> QED BY <1>1, Invariance, PTL

\* The two token managers never lose the valid token between them while no
\* answer is lost, no recovery token is in use and the reconnect path can save
\* what it is given: for any number of refreshes, retries, lost requests,
\* rejections and failed writes of the proactive manager, which keeps in memory
\* what it could not save.
THEOREM TokenNeverLost == Spec => []NeverLost
  <1>1. Safe => \/ disk = valid
                \/ \E m \in Managers : Saving(m) /\ mem[m] = valid
                \/ "proactive" \in unsaved /\ mem["proactive"] = valid
    BY DEF Safe, Carried, Settled, Kept
  <1>2. IInv => NeverLost
    BY <1>1, Zenon DEF IInv, Calm, NeverLost
  <1> QED BY <1>2, Invariance, PTL
=============================================================================
