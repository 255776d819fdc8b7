------------------------- MODULE EventTriageProofs -------------------------
(***************************************************************************)
(* Proofs about EventTriage and about OfflineVerdicts, which extends it.   *)
(*                                                                         *)
(* Why dedup suppresses nothing that was not sent, and lets nothing it has *)
(* in its table through twice: an entry is never younger than the last     *)
(* time an event of its key was sent (Backed), an event sent and entered   *)
(* within the window has an entry that is not older than it (Covered), and *)
(* the flush, which goes by the time an entry was last seen, removes no    *)
(* entry within its window because that time is never before the entry's   *)
(* creation (part of Table).                                               *)
(*                                                                         *)
(* Why a reconnection does not lose the first verdict of a hand-over: a    *)
(* hand-over whose key was sent within the window is one whose first file  *)
(* the transport has taken (Remembered), and by Backed the filter merges   *)
(* a hand-over only with one of those.                                     *)
(***************************************************************************)
EXTENDS OfflineVerdicts, FiniteSetTheorems, SequenceTheorems, TLAPS

Table(t) ==
    /\ DOMAIN t \subseteq Keys /\ Cardinality(DOMAIN t) <= MaxEntries
    /\ \A k \in DOMAIN t : t[k] \in Entry /\ t[k].idle <= t[k].age

Backed(t, s) ==
    \A k \in DOMAIN t : k \notin LowKeys => s[k] <= t[k].age

Covered(t, p) ==
    \A k \in Keys : p[k] < Window => k \in DOMAIN t /\ t[k].age <= p[k]

Ages(s, p) == s \in [Keys -> 0..Window] /\ p \in [Keys -> 0..Window]

IInv ==
    /\ Table(table) /\ Backed(table, sentAge) /\ Covered(table, plainAge)
    /\ Ages(sentAge, plainAge)
    /\ counter \in 0..LowRate - 1 /\ flushAge \in 0..Window
    /\ out # NoDecision => out.event \in Event /\ out.fate \in Fates

-----------------------------------------------------------------------------
(* What the operations on the table do.                                    *)

\* An entry for k replaces its old one or finds a place.
LEMMA PutTable ==
    ASSUME NEW t, NEW k \in Keys, NEW entry \in Entry, Table(t), entry.idle <= entry.age,
           k \in DOMAIN t \/ Cardinality(DOMAIN t) < MaxEntries
    PROVE  Table(Put(t, k, entry))
  <1>1. DOMAIN Put(t, k, entry) = DOMAIN t \cup {k}
    BY DEF Put
  <1>2. \A j \in DOMAIN t \cup {k} : Put(t, k, entry)[j] = IF j = k THEN entry ELSE t[j]
    BY DEF Put
  <1>3. IsFiniteSet(DOMAIN t)
    BY FS_Subset, TriageAssumption DEF Table, TriageAssumption
  <1>4. Cardinality(DOMAIN t \cup {k}) <= MaxEntries
    <2>1. Cardinality(DOMAIN t) \in Nat
      BY <1>3, FS_CardinalityType
    <2>2. Cardinality(DOMAIN t \cup {k}) =
            IF k \in DOMAIN t THEN Cardinality(DOMAIN t) ELSE Cardinality(DOMAIN t) + 1
      BY <1>3, FS_AddElement
    <2> QED BY <2>1, <2>2, TriageAssumption DEF Table, TriageAssumption
  <1> QED BY <1>1, <1>2, <1>4 DEF Table

\* The flush removes only entries past their window.
LEMMA FlushKeeps ==
    ASSUME NEW t, NEW s, NEW p, Table(t), Backed(t, s), Covered(t, p), Ages(s, p),
           flushAge \in 0..Window
    PROVE  Table(Flushed(t)) /\ Backed(Flushed(t), s) /\ Covered(Flushed(t), p)
  <1>1. CASE flushAge < Window
    BY <1>1 DEF Flushed
  <1>2. CASE ~(flushAge < Window)
    <2> DEFINE D == {k \in DOMAIN t : t[k].idle < Window}
    <2>1. DOMAIN Flushed(t) = D /\ \A k \in D : Flushed(t)[k] = t[k]
      BY <1>2 DEF Flushed, Restrict
    <2>2. IsFiniteSet(DOMAIN t)
      BY FS_Subset, TriageAssumption DEF Table, TriageAssumption
    <2>3. Cardinality(D) <= MaxEntries
      <3>1. Cardinality(D) <= Cardinality(DOMAIN t) /\ IsFiniteSet(D)
        BY <2>2, FS_Subset
      <3>2. Cardinality(D) \in Nat /\ Cardinality(DOMAIN t) \in Nat
        BY <2>2, <3>1, FS_CardinalityType
      <3> QED BY <3>1, <3>2, TriageAssumption DEF Table, TriageAssumption
    <2>4. Table(Flushed(t))
      BY <2>1, <2>3 DEF Table
    <2>5. Backed(Flushed(t), s)
      BY <2>1 DEF Backed
    <2>6. \A k \in Keys : p[k] < Window /\ k \in DOMAIN t /\ t[k].age <= p[k] => k \in D
      BY TriageAssumption DEF Table, Ages, Entry, TriageAssumption
    <2>7. Covered(Flushed(t), p)
      BY <2>1, <2>6 DEF Covered
    <2> QED BY <2>4, <2>5, <2>7
  <1> QED BY <1>1, <1>2

\* A decision leaves the invariant when the table it leaves, before the
\* flush, fits what has been sent.
LEMMA DecideInvariant ==
    ASSUME IInv, NEW e \in Event, NEW fate \in Fates, NEW m, NEW t, NEW last \in BOOLEAN,
           Decide(e, fate, m, t, last), counter' \in 0..LowRate - 1,
           Table(t), Backed(t, sentAge'), Covered(t, plainAge'), Ages(sentAge', plainAge')
    PROVE  IInv'
  <1>1. table' = t \/ table' = Flushed(t)
    BY DEF Decide
  <1>2. Table(table') /\ Backed(table', sentAge') /\ Covered(table', plainAge')
    BY <1>1, FlushKeeps DEF IInv
  <1>3. flushAge' \in 0..Window
    BY TriageAssumption DEF Decide, IInv, TriageAssumption
  <1>4. out'.event \in Event /\ out'.fate \in Fates
    BY DEF Decide
  <1>5. Table(table)' /\ Backed(table, sentAge)' /\ Covered(table, plainAge)'
        /\ Ages(sentAge, plainAge)'
    BY <1>2 DEF Table, Backed, Covered, Ages
  <1> QED BY <1>3, <1>4, <1>5 DEF IInv

-----------------------------------------------------------------------------
(* Every step.                                                             *)

\* What passing an event changes.
LEMMA PassedAges ==
    ASSUME Ages(sentAge, plainAge), NEW e \in Event, NEW m, NEW t, NEW last \in BOOLEAN,
           Decide(e, "passed", m, t, last)
    PROVE  /\ Ages(sentAge', plainAge')
           /\ sentAge'[e.key] = 0
           /\ \A k \in Keys : sentAge'[k] <= sentAge[k]
           /\ \A k \in Keys : k # e.key \/ e.raised \/ e.key \notin DOMAIN t
                                => plainAge'[k] = plainAge[k]
  <1>1. e.key \in Keys /\ e.raised \in BOOLEAN
    BY DEF Event
  <1>2. /\ sentAge' = [sentAge EXCEPT ![e.key] = 0]
        /\ plainAge' = [plainAge EXCEPT ![e.key] =
                         IF e.raised \/ e.key \notin DOMAIN t THEN @ ELSE 0]
    BY DEF Decide
  <1>3. 0 \in 0..Window
    BY TriageAssumption DEF TriageAssumption
  <1>4. /\ sentAge' \in [Keys -> 0..Window]
        /\ sentAge'[e.key] = 0
        /\ \A k \in Keys : sentAge'[k] <= sentAge[k]
    BY <1>1, <1>2, <1>3, TriageAssumption DEF Ages, TriageAssumption
  <1>5. /\ plainAge' \in [Keys -> 0..Window]
        /\ \A k \in Keys : k # e.key \/ e.raised \/ e.key \notin DOMAIN t
                             => plainAge'[k] = plainAge[k]
    BY <1>1, <1>2, <1>3 DEF Ages
  <1> QED BY <1>4, <1>5 DEF Ages

LEMMA InitInvariant == Init => IInv
  <1> SUFFICES ASSUME Init PROVE IInv
    OBVIOUS
  <1>1. DOMAIN table = {}
    BY DEF Init
  <1>2. Table(table) /\ Backed(table, sentAge)
    BY <1>1, FS_EmptySet, TriageAssumption DEF Table, Backed, TriageAssumption
  <1>3. Ages(sentAge, plainAge) /\ \A k \in Keys : plainAge[k] = Window
    BY TriageAssumption DEF Init, Ages, TriageAssumption
  <1>4. Covered(table, plainAge)
    BY <1>3, TriageAssumption DEF Covered, TriageAssumption
  <1> QED BY <1>2, <1>3, <1>4, TriageAssumption DEF Init, IInv, TriageAssumption

LEMMA PassInvariant ==
    ASSUME IInv, NEW e \in Event, NEW last \in BOOLEAN, Pass(e, last)
    PROVE  IInv'
  <1>1. Decide(e, "passed", 0, table, last) /\ counter' = counter /\ e.raised
    BY DEF Pass
  <1>2. /\ Ages(sentAge', plainAge')
        /\ \A k \in Keys : sentAge'[k] <= sentAge[k]
        /\ \A k \in Keys : plainAge'[k] = plainAge[k]
    BY <1>1, PassedAges DEF IInv
  <1>3. Backed(table, sentAge')
    BY <1>2, TriageAssumption DEF IInv, Backed, Table, Ages, Entry, TriageAssumption
  <1>4. Covered(table, plainAge')
    BY <1>2 DEF IInv, Covered
  <1>5. "passed" \in Fates /\ counter' \in 0..LowRate - 1
    BY <1>1 DEF Fates, IInv
  <1> QED BY <1>1, <1>2, <1>3, <1>4, <1>5, DecideInvariant DEF IInv

LEMMA MergeInvariant ==
    ASSUME IInv, NEW e \in Event, NEW last \in BOOLEAN, Merge(e, last)
    PROVE  IInv'
  <1>1. /\ Decide(e, "merged", 0, Merged(e.key), last) /\ counter' = counter
        /\ e.key \in DOMAIN table /\ sentAge' = sentAge /\ plainAge' = plainAge
    BY DEF Merge, Merges, Decide
  <1>2. /\ DOMAIN Merged(e.key) = DOMAIN table
        /\ \A k \in DOMAIN table :
             /\ Merged(e.key)[k] \in Entry
             /\ Merged(e.key)[k].age = table[k].age
             /\ Merged(e.key)[k].idle <= Merged(e.key)[k].age
    BY <1>1, TriageAssumption DEF Merged, IInv, Table, Entry, TriageAssumption
  <1>3. Table(Merged(e.key)) /\ Backed(Merged(e.key), sentAge') /\ Covered(Merged(e.key), plainAge')
    BY <1>1, <1>2 DEF IInv, Table, Backed, Covered
  <1>4. Ages(sentAge', plainAge') /\ "merged" \in Fates /\ counter' \in 0..LowRate - 1
    BY <1>1 DEF IInv, Fates
  <1> QED BY <1>1, <1>3, <1>4, DecideInvariant

\* Admitting an event, whatever becomes of it.
LEMMA AdmittedInvariant ==
    ASSUME NEW e \in Event, NEW last \in BOOLEAN, NEW m, NEW fate
    PROVE  /\ IInv
           /\ fate = "passed" \/ (fate = "sampled out" /\ e.key \in LowKeys)
           /\ Decide(e, fate, m, Entered(e.key), last) /\ counter' \in 0..LowRate - 1
           => IInv'
  <1>0. SUFFICES ASSUME /\ IInv
                        /\ fate = "passed" \/ (fate = "sampled out" /\ e.key \in LowKeys)
                        /\ Decide(e, fate, m, Entered(e.key), last)
                        /\ counter' \in 0..LowRate - 1
                 PROVE  IInv'
    OBVIOUS
  <1> DEFINE t == Entered(e.key)
  <1>1. e.key \in Keys
    BY DEF Event
  <1>2. Fresh \in Entry /\ Fresh.idle <= Fresh.age /\ Fresh.age = 0
    <2>1. 0 \in 0..Window /\ 1 \in 1..MaxCount
      BY TriageAssumption DEF TriageAssumption
    <2> QED BY <2>1 DEF Fresh, Entry
  <1>3. Table(t)
    BY <1>0, <1>1, <1>2, PutTable DEF Entered, IInv
  <1>4. /\ \A k \in DOMAIN t : k # e.key => k \in DOMAIN table /\ t[k] = table[k]
        /\ \A k \in DOMAIN table : k # e.key => k \in DOMAIN t /\ t[k] = table[k]
    BY DEF Entered, Put
  <1>5. e.key \in DOMAIN t => t[e.key].age = 0
    BY <1>2 DEF Entered, Put
  <1>6. e.key \in DOMAIN table => e.key \in DOMAIN t
    BY DEF Entered, Put
  <1>7. CASE fate = "passed"
    <2>1. /\ Ages(sentAge', plainAge')
          /\ sentAge'[e.key] = 0
          /\ \A k \in Keys : sentAge'[k] <= sentAge[k]
          /\ \A k \in Keys : k # e.key \/ e.key \notin DOMAIN t => plainAge'[k] = plainAge[k]
      BY <1>0, <1>7, PassedAges DEF IInv
    <2>2. ASSUME NEW k \in DOMAIN t, k \notin LowKeys
          PROVE  sentAge'[k] <= t[k].age
      <3>1. k \in Keys /\ t[k].age \in 0..Window
        BY <1>3 DEF Table, Entry
      <3>2. CASE k = e.key
        BY <3>1, <3>2, <2>1, <1>1, TriageAssumption DEF TriageAssumption
      <3>3. CASE k # e.key
        <4>1. sentAge[k] <= table[k].age
          BY <1>0, <2>2, <3>3, <1>4 DEF IInv, Backed
        <4>2. sentAge'[k] <= sentAge[k] /\ sentAge[k] \in 0..Window /\ sentAge'[k] \in 0..Window
          BY <1>0, <3>1, <2>1 DEF IInv, Ages
        <4> QED BY <4>1, <4>2, <3>1, <3>3, <1>4, TriageAssumption DEF TriageAssumption
      <3> QED BY <3>2, <3>3
    <2>3. ASSUME NEW k \in Keys, plainAge'[k] < Window
          PROVE  k \in DOMAIN t /\ t[k].age <= plainAge'[k]
      <3>1. CASE k = e.key
        <4>1. k \in DOMAIN t /\ plainAge'[k] \in 0..Window
          BY <1>0, <3>1, <2>1, <2>3, <1>6 DEF Ages, IInv, Covered
        <4>2. t[k].age = 0
          BY <4>1, <3>1, <1>5
        <4> QED BY <4>1, <4>2, TriageAssumption DEF TriageAssumption
      <3>2. CASE k # e.key
        BY <1>0, <3>2, <2>1, <2>3, <1>4 DEF IInv, Covered
      <3> QED BY <3>1, <3>2
    <2>4. Backed(t, sentAge') /\ Covered(t, plainAge')
      BY <2>2, <2>3 DEF Backed, Covered
    <2>5. "passed" \in Fates
      BY DEF Fates
    <2> QED BY <1>0, <1>3, <1>7, <2>1, <2>4, <2>5, DecideInvariant
  <1>8. CASE fate = "sampled out"
    <2>1. sentAge' = sentAge /\ plainAge' = plainAge /\ e.key \in LowKeys
      BY <1>0, <1>8 DEF Decide
    <2>2. Backed(t, sentAge')
      BY <1>0, <2>1, <1>4 DEF IInv, Backed
    <2>3. ASSUME NEW k \in Keys, plainAge[k] < Window
          PROVE  k \in DOMAIN t /\ t[k].age <= plainAge[k]
      <3>1. k \in DOMAIN table /\ table[k].age <= plainAge[k] /\ plainAge[k] \in 0..Window
        BY <1>0, <2>3 DEF IInv, Covered, Ages
      <3>2. CASE k = e.key
        BY <3>1, <3>2, <2>3, <1>5, <1>6, TriageAssumption DEF TriageAssumption
      <3> QED BY <3>1, <3>2, <1>4
    <2>4. Covered(t, plainAge')
      BY <2>1, <2>3 DEF Covered
    <2>5. "sampled out" \in Fates /\ Ages(sentAge', plainAge')
      BY <1>0, <2>1 DEF Fates, IInv
    <2> QED BY <1>0, <1>3, <1>8, <2>2, <2>4, <2>5, DecideInvariant
  <1> QED BY <1>0, <1>7, <1>8

LEMMA AdmitInvariant ==
    ASSUME IInv, NEW e \in Event, NEW last \in BOOLEAN, Admit(e, last)
    PROVE  IInv'
  <1>1. PICK fate, m :
          /\ fate = "passed" \/ (fate = "sampled out" /\ e.key \in LowKeys)
          /\ Decide(e, fate, m, Entered(e.key), last)
    <2> DEFINE n == IF e.key \in DOMAIN table THEN table[e.key].count ELSE 0
               t == IF n > 1 THEN n ELSE 0
               f == IF e.key \notin LowKeys \/ (counter + 1) % LowRate = 0
                      THEN "passed" ELSE "sampled out"
    <2>1. Decide(e, f, t, Entered(e.key), last)
      BY DEF Admit
    <2>2. f = "passed" \/ (f = "sampled out" /\ e.key \in LowKeys)
      OBVIOUS
    <2> HIDE DEF f, t
    <2> QED BY <2>1, <2>2
  <1>2. counter' = counter \/ counter' = (counter + 1) % LowRate
    BY DEF Admit
  <1>3. counter' \in 0..LowRate - 1
    BY <1>2, TriageAssumption DEF IInv, TriageAssumption
  <1> QED BY <1>1, <1>3, AdmittedInvariant

LEMMA TickInvariant ==
    ASSUME IInv, Tick
    PROVE  IInv'
  <1>1. \A n \in 0..Window : Older(n) \in 0..Window /\ (Older(n) < Window => n < Window /\ Older(n) = n + 1)
    BY TriageAssumption DEF Older, TriageAssumption
  <1>2. \A n, o \in 0..Window : n <= o => Older(n) <= Older(o)
    BY TriageAssumption DEF Older, TriageAssumption
  <1>3. /\ DOMAIN table' = DOMAIN table
        /\ \A k \in DOMAIN table :
             /\ table'[k] \in Entry
             /\ table'[k].age = Older(table[k].age) /\ table'[k].idle = Older(table[k].idle)
    BY <1>1 DEF Tick, IInv, Table, Entry
  <1>4. Ages(sentAge', plainAge')
    BY <1>1 DEF Tick, IInv, Ages
  <1>5. Table(table')
    BY <1>2, <1>3 DEF IInv, Table, Entry
  <1>6. Backed(table', sentAge')
    <2>1. SUFFICES ASSUME NEW k \in DOMAIN table, k \notin LowKeys
                   PROVE  sentAge'[k] <= table'[k].age
      BY <1>3 DEF Backed
    <2>2. sentAge[k] <= table[k].age
      BY <2>1 DEF IInv, Backed
    <2>3. sentAge'[k] = Older(sentAge[k]) /\ sentAge[k] \in 0..Window
      BY <2>1 DEF Tick, IInv, Table, Ages
    <2> QED BY <2>1, <2>2, <2>3, <1>2, <1>3 DEF IInv, Table, Entry
  <1>7. Covered(table', plainAge')
    <2>1. SUFFICES ASSUME NEW k \in Keys, plainAge'[k] < Window
                   PROVE  k \in DOMAIN table' /\ table'[k].age <= plainAge'[k]
      BY DEF Covered
    <2>2. plainAge'[k] = Older(plainAge[k]) /\ plainAge[k] \in 0..Window
      BY DEF Tick, IInv, Ages
    <2>3. k \in DOMAIN table /\ table[k].age <= plainAge[k]
      BY <2>1, <2>2, <1>1 DEF IInv, Covered
    <2> QED BY <2>2, <2>3, <1>2, <1>3 DEF IInv, Table, Entry
  <1>8. out' = NoDecision /\ counter' = counter /\ flushAge' \in 0..Window
    BY <1>1 DEF Tick, IInv
  <1>9. Table(table)' /\ Backed(table, sentAge)' /\ Covered(table, plainAge)'
        /\ Ages(sentAge, plainAge)'
    BY <1>4, <1>5, <1>6, <1>7 DEF Table, Backed, Covered, Ages
  <1> QED BY <1>8, <1>9 DEF IInv

LEMMA NextInvariant == IInv /\ [Next]_vars => IInv'
  <1> SUFFICES ASSUME IInv, [Next]_vars PROVE IInv'
    OBVIOUS
  <1>1. ASSUME NEW e \in Event, NEW last \in BOOLEAN, Pass(e, last) \/ Merge(e, last) \/ Admit(e, last)
        PROVE  IInv'
    BY <1>1, PassInvariant, MergeInvariant, AdmitInvariant
  <1>2. CASE UNCHANGED vars
    BY <1>2 DEF vars, triage, IInv, Table, Backed, Covered, Ages
  <1> QED BY <1>1, <1>2, TickInvariant DEF Next

-----------------------------------------------------------------------------
(* The theorems.                                                           *)

\* What the last decision says of each kind of step.
LEMMA PassFate ==
    ASSUME NEW e \in Event, NEW last \in BOOLEAN, Pass(e, last)
    PROVE  out'.event = e /\ out'.fate = "passed" /\ e.raised
  <1>1. out' = [event |-> e, fate |-> "passed", told |-> 0] /\ e.raised
    BY DEF Pass, Decide
  <1> QED BY <1>1

LEMMA MergeFate ==
    ASSUME NEW e \in Event, NEW last \in BOOLEAN, Merge(e, last)
    PROVE  out'.event = e /\ out'.fate = "merged"
  <1>1. out' = [event |-> e, fate |-> "merged", told |-> 0]
    BY DEF Merge, Decide
  <1> QED BY <1>1

LEMMA AdmitFate ==
    ASSUME NEW e \in Event, NEW last \in BOOLEAN, Admit(e, last)
    PROVE  out'.event = e /\ out'.fate \in {"passed", "sampled out"}
  <1>1. PICK fate, m : /\ out' = [event |-> e, fate |-> fate, told |-> m]
                          /\ fate \in {"passed", "sampled out"}
    BY Zenon DEF Admit, Decide
  <1> QED BY <1>1

\* The invariant above holds of every execution.
THEOREM Invariance == Spec => []IInv
  BY InitInvariant, NextInvariant, PTL DEF Spec

\* The dedup table never exceeds max_dedup_entries and all is well typed.
THEOREM TypeCorrect == Spec => []TypeOK
  <1>1. IInv => TypeOK
    BY DEF IInv, Table, Ages, TypeOK
  <1> QED BY <1>1, Invariance, PTL

\* Nothing is merged into an event that was not sent within the window, for
\* any number of keys, any window and any sampling rate.
THEOREM MergedWasSent == Spec => SentBeforeMerged
  <1> DEFINE A == Decided /\ out'.fate = "merged" /\ out'.event.key \notin LowKeys
                    => sentAge[out'.event.key] < Window
  <1>1. IInv /\ [Next]_vars => [A]_vars
    <2> SUFFICES ASSUME IInv, Next, Decided, out'.fate = "merged", out'.event.key \notin LowKeys
                 PROVE  sentAge[out'.event.key] < Window
      OBVIOUS
    <2>1. PICK e \in Event, last \in BOOLEAN : Pass(e, last) \/ Merge(e, last) \/ Admit(e, last)
      BY DEF Next, Tick, Decided
    <2>2. Merge(e, last) /\ out'.event = e
      BY <2>1, PassFate, MergeFate, AdmitFate
    <2>3. e.key \in DOMAIN table /\ table[e.key].age < Window
      BY <2>2 DEF Merge, Merges
    <2>4. sentAge[e.key] <= table[e.key].age
      BY <2>2, <2>3 DEF IInv, Backed
    <2> QED BY <2>2, <2>3, <2>4, TriageAssumption DEF IInv, Table, Ages, Entry, Event, TriageAssumption
  <1> QED BY <1>1, Invariance, PTL DEF Spec, SentBeforeMerged

\* Events that are not raised pass at most once per key and window, unless
\* their key found the table full.
THEOREM OnePerWindow == Spec => NoDuplicate
  <1> DEFINE A == Decided /\ out'.fate = "passed" /\ ~out'.event.raised
                    => plainAge[out'.event.key] = Window
  <1>1. IInv /\ [Next]_vars => [A]_vars
    <2> SUFFICES ASSUME IInv, Next, Decided, out'.fate = "passed", ~out'.event.raised
                 PROVE  plainAge[out'.event.key] = Window
      OBVIOUS
    <2>1. PICK e \in Event, last \in BOOLEAN : Pass(e, last) \/ Merge(e, last) \/ Admit(e, last)
      BY DEF Next, Tick, Decided
    <2>2. Admit(e, last) /\ out'.event = e
      BY <2>1, PassFate, MergeFate, AdmitFate
    <2>3. ~Merges(e.key) /\ e.key \in Keys
      BY <2>2 DEF Admit, Event
    <2>4. ~(plainAge[e.key] < Window)
      BY <2>3, TriageAssumption DEF Merges, IInv, Covered, Ages, Table, Entry, TriageAssumption
    <2>5. plainAge[e.key] \in 0..Window /\ Window \in Nat
      BY <2>3, TriageAssumption DEF IInv, Ages, TriageAssumption
    <2>6. plainAge[e.key] = Window
      BY <2>4, <2>5
    <2> QED BY <2>2, <2>6
  <1> QED BY <1>1, Invariance, PTL DEF Spec, NoDuplicate

\* What becomes of an entry the decision itself leaves alone: it stays, or it
\* is flushed when it has been silent for the window.
LEMMA EntryStays ==
    ASSUME IInv, NEW t, NEW k \in DOMAIN table, k \in DOMAIN t, t[k] = table[k],
           table' = t \/ table' = Flushed(t)
    PROVE  \/ k \in DOMAIN table' /\ table'[k] = table[k]
           \/ k \notin DOMAIN table' /\ table[k].idle = Window
  <1>1. CASE table' = Flushed(t) /\ ~(flushAge < Window)
    <2> DEFINE D == {j \in DOMAIN t : t[j].idle < Window}
    <2>1. DOMAIN table' = D /\ \A j \in D : table'[j] = t[j]
      BY <1>1 DEF Flushed, Restrict
    <2>2. table[k].idle \in 0..Window
      BY DEF IInv, Table, Entry
    <2>3. k \in D \/ (k \notin D /\ table[k].idle = Window)
      BY <2>2, TriageAssumption DEF TriageAssumption
    <2> QED BY <2>1, <2>3
  <1>2. CASE table' = t
    BY <1>2
  <1> QED BY <1>1, <1>2 DEF Flushed

\* The count of merged events is told by the next event with their key, and
\* lost only when that one is sampled out or a whole window was silent.
THEOREM CountsAreTold == Spec => CountTold
  <1> DEFINE Cleared(k) == table[k].count > 1 /\ (k \in DOMAIN table' => table'[k].count = 1)
             Told(k) == /\ Decided /\ out'.event.key = k /\ out'.told = table[k].count
                        /\ out'.fate = "passed" \/ k \in LowKeys
             Silent(k) == k \notin DOMAIN table' /\ table[k].idle = Window
             A == \A k \in DOMAIN table :
                    table[k].count > 1 /\ (k \in DOMAIN table' => table'[k].count = 1)
                      => \/ /\ Decided /\ out'.event.key = k /\ out'.told = table[k].count
                            /\ out'.fate = "passed" \/ k \in LowKeys
                         \/ k \notin DOMAIN table' /\ table[k].idle = Window
  <1>1. IInv /\ [Next]_vars => [A]_vars
    <2> SUFFICES ASSUME IInv, Next, NEW k \in DOMAIN table, Cleared(k)
                 PROVE  Told(k) \/ Silent(k)
      OBVIOUS
    <2>0. table[k].count \in Nat /\ table[k].count > 1
      BY TriageAssumption DEF IInv, Table, Entry, TriageAssumption
    <2>1. CASE Tick
      <3>1. k \in DOMAIN table' /\ table'[k].count = table[k].count
        BY <2>1 DEF Tick, IInv, Table, Entry
      <3> QED BY <2>0, <3>1
    <2>2. ASSUME NEW e \in Event, NEW last \in BOOLEAN, Pass(e, last)
          PROVE  Told(k) \/ Silent(k)
      <3>1. table' = table \/ table' = Flushed(table)
        BY <2>2 DEF Pass, Decide
      <3>2. \/ k \in DOMAIN table' /\ table'[k] = table[k]
            \/ k \notin DOMAIN table' /\ table[k].idle = Window
        BY <3>1, EntryStays
      <3> QED BY <2>0, <3>2
    <2>3. ASSUME NEW e \in Event, NEW last \in BOOLEAN, Merge(e, last)
          PROVE  Told(k) \/ Silent(k)
      <3> DEFINE t == Merged(e.key)
      <3>1. (table' = t \/ table' = Flushed(t)) /\ DOMAIN t = DOMAIN table
        BY <2>3 DEF Merge, Decide, Merged
      <3>2. CASE k # e.key
        <4>1. t[k] = table[k]
          BY <3>2 DEF Merged
        <4>3. k \in DOMAIN t
          BY <3>1
        <4> HIDE DEF t
        <4>2. \/ k \in DOMAIN table' /\ table'[k] = table[k]
              \/ k \notin DOMAIN table' /\ table[k].idle = Window
          BY <3>1, <4>1, <4>3, EntryStays
        <4> QED BY <2>0, <4>2
      <3>3. CASE k = e.key
        <4>1. t[k].idle = 0 /\ t[k].count \in Nat /\ t[k].count > 1
          <5>1. table[k] \in Entry
            BY DEF IInv, Table
          <5>2. t[k] = [table[k] EXCEPT !.count = IF @ < MaxCount THEN @ + 1 ELSE @, !.idle = 0]
            BY <3>3 DEF Merged
          <5>3. /\ t[k].idle = 0
                /\ t[k].count = IF table[k].count < MaxCount THEN table[k].count + 1
                                 ELSE table[k].count
            BY <5>1, <5>2 DEF Entry
          <5> QED BY <2>0, <5>3
        <4>2. k \in DOMAIN table' /\ table'[k] = t[k]
          BY <3>1, <4>1, TriageAssumption DEF Flushed, Restrict, TriageAssumption
        <4> QED BY <4>1, <4>2
      <3> QED BY <3>2, <3>3
    <2>4. ASSUME NEW e \in Event, NEW last \in BOOLEAN, Admit(e, last)
          PROVE  Told(k) \/ Silent(k)
      <3> DEFINE t == Entered(e.key)
      <3>1. table' = t \/ table' = Flushed(t)
        BY <2>4 DEF Admit, Decide
      <3>2. CASE k # e.key
        <4>1. k \in DOMAIN t /\ t[k] = table[k]
          BY <3>2 DEF Entered, Put
        <4> HIDE DEF t
        <4>2. \/ k \in DOMAIN table' /\ table'[k] = table[k]
              \/ k \notin DOMAIN table' /\ table[k].idle = Window
          BY <3>1, <4>1, EntryStays
        <4> QED BY <2>0, <4>2
      <3>3. CASE k = e.key
        <4> DEFINE n == IF e.key \in DOMAIN table THEN table[e.key].count ELSE 0
                   m == IF n > 1 THEN n ELSE 0
                   f == IF e.key \notin LowKeys \/ (counter + 1) % LowRate = 0
                          THEN "passed" ELSE "sampled out"
        <4>1. Decide(e, f, m, Entered(e.key), last)
          BY <2>4 DEF Admit
        <4>2. m = table[k].count
          BY <2>0, <3>3
        <4>3. f = "passed" \/ k \in LowKeys
          BY <3>3
        <4> HIDE DEF f, m
        <4>4. out' = [event |-> e, fate |-> f, told |-> m]
          BY <4>1 DEF Decide
        <4>5. out'.event = e /\ out'.fate = f /\ out'.told = m
          BY <4>4
        <4>6. f # "none"
          BY DEF f
        <4>7. Decided
          BY <4>5, <4>6 DEF Decided, NoDecision
        <4> QED BY <3>3, <4>2, <4>3, <4>5, <4>7
      <3> QED BY <3>2, <3>3
    <2> QED BY <2>1, <2>2, <2>3, <2>4 DEF Next
  <1> QED BY <1>1, Invariance, PTL DEF Spec, CountTold

-----------------------------------------------------------------------------
(* The hand-over of verdicts.                                              *)

\* Of the first verdict of a hand-over that was sent within the window, the
\* transport has taken one.
Remembered == \A k \in SyncKeys : sentAge[k] < Window => k[2] \in told

Own ==
    /\ queue \in Seq(Files) /\ (Len(queue) <= MaxVerdicts \/ Len(queue) = 1)
    /\ {reachable, available, checked, connected, heard} \subseteq BOOLEAN
    /\ main \in {"listening", "busy", "sync"}
    /\ told \subseteq Files /\ lost \subseteq Files

OInv == Own /\ IInv /\ Remembered

\* A queue that is full makes room for one more.
LEMMA PushedFacts ==
    ASSUME NEW q \in Seq(Files), Len(q) <= MaxVerdicts \/ Len(q) = 1, NEW f \in Files
    PROVE  LET p == Pushed(q, f) IN p \in Seq(Files) /\ (Len(p) <= MaxVerdicts \/ Len(p) = 1)
  <1> DEFINE n == Len(q) - MaxVerdicts + 2
             r == IF Len(q) >= MaxVerdicts THEN SubSeq(q, n, Len(q)) ELSE q
  <1>1. MaxVerdicts \in Nat /\ Len(q) \in Nat
    BY VerdictAssumption DEF VerdictAssumption
  <1>2. r \in Seq(Files) /\ (Len(r) < MaxVerdicts \/ Len(r) = 0)
    <2>1. CASE Len(q) >= MaxVerdicts
      <3>1. n \in Int /\ Len(q) \in Int /\ n >= 1 /\ \A i \in n..Len(q) : q[i] \in Files
        BY <1>1, <2>1
      <3>2. n > Len(q) \/ Len(q) - n + 1 < MaxVerdicts
        BY <1>1, <2>1
      <3> HIDE DEF n
      <3>3. SubSeq(q, n, Len(q)) \in Seq(Files)
            /\ Len(SubSeq(q, n, Len(q))) = IF n <= Len(q) THEN Len(q) - n + 1 ELSE 0
        BY <3>1, SubSeqProperties
      <3> QED BY <2>1, <3>1, <3>2, <3>3
    <2>2. CASE ~(Len(q) >= MaxVerdicts)
      BY <1>1, <2>2
    <2> QED BY <2>1, <2>2
  <1>3. Pushed(q, f) = Append(r, f)
    BY DEF Pushed
  <1> HIDE DEF r
  <1>4. Append(r, f) \in Seq(Files) /\ Len(Append(r, f)) = Len(r) + 1 /\ Len(r) \in Nat
    BY <1>2
  <1> QED BY <1>1, <1>2, <1>3, <1>4

\* The batch of a hand-over and what is left behind it.
LEMMA BatchFacts ==
    ASSUME NEW q \in Seq(Files), NEW n \in 1..Len(q)
    PROVE  LET b == SubSeq(q, 1, n)
               r == SubSeq(q, n + 1, Len(q))
           IN /\ b \in Seq(Files) /\ Len(b) = n /\ Head(b) = Head(q) /\ Head(q) \in ToSet(b)
              /\ ToSet(b) \subseteq Files /\ (\A f \in ToSet(b) : f # Head(q) => n > 1)
              /\ r \in Seq(Files) /\ Len(r) = Len(q) - n
  <1> DEFINE b == SubSeq(q, 1, n)
             r == SubSeq(q, n + 1, Len(q))
  <1>1. n \in Int /\ Len(q) \in Nat /\ n >= 1 /\ n <= Len(q) /\ q # <<>> /\ Head(q) = q[1]
        /\ \A i \in 1..Len(q) : q[i] \in Files
    OBVIOUS
  <1>2. \A i \in 1..n : q[i] \in Files
    BY <1>1
  <1>3. b \in Seq(Files) /\ Len(b) = n /\ \A i \in 1..n : b[i] = q[i]
    <2>1. b \in Seq(Files) /\ Len(b) = (IF 1 <= n THEN n - 1 + 1 ELSE 0)
          /\ \A i \in 1..(n - 1 + 1) : b[i] = q[1 + i - 1]
      BY <1>1, <1>2, SubSeqProperties
    <2> HIDE DEF b
    <2> QED BY <1>1, <2>1
  <1>4. r \in Seq(Files) /\ Len(r) = Len(q) - n
    <2>1. n + 1 \in Int /\ Len(q) \in Int /\ \A i \in (n + 1)..Len(q) : q[i] \in Files
      BY <1>1
    <2>2. r \in Seq(Files) /\ Len(r) = (IF n + 1 <= Len(q) THEN Len(q) - (n + 1) + 1 ELSE 0)
      BY <2>1, SubSeqProperties
    <2> HIDE DEF r
    <2> QED BY <1>1, <2>2
  <1> HIDE DEF b, r
  <1>5. DOMAIN b = 1..n /\ b # <<>> /\ Head(b) = b[1]
    BY <1>1, <1>3
  <1>6. ToSet(b) = {b[i] : i \in 1..n}
    BY <1>5 DEF ToSet
  <1>7. Head(b) = Head(q) /\ Head(q) \in ToSet(b) /\ ToSet(b) \subseteq Files
    BY <1>1, <1>3, <1>5, <1>6
  <1>8. ASSUME NEW f \in ToSet(b), f # Head(q) PROVE n > 1
    <2>1. PICK i \in 1..n : f = b[i]
      BY <1>6
    <2>2. i # 1
      BY <1>5, <1>7, <1>8, <2>1
    <2> QED BY <1>1, <2>1, <2>2
  <1> QED BY <1>3, <1>4, <1>7, <1>8 DEF b, r

\* A decision makes only its own key younger.
LEMMA SentOthers ==
    ASSUME IInv, NEW e \in Event, NEW last \in BOOLEAN,
           Pass(e, last) \/ Merge(e, last) \/ Admit(e, last)
    PROVE  \A k \in Keys : k # e.key => sentAge'[k] = sentAge[k]
  <1>1. sentAge' = sentAge \/ sentAge' = [sentAge EXCEPT ![e.key] = 0]
    BY DEF Pass, Merge, Admit, Decide
  <1>2. sentAge \in [Keys -> 0..Window]
    BY DEF IInv, Ages
  <1> QED BY <1>1, <1>2

LEMMA QuietFilter ==
    ASSUME OInv, UNCHANGED filter, told \subseteq told' PROVE IInv' /\ Remembered'
  <1>1. IInv /\ Remembered
    BY DEF OInv
  <1>2. UNCHANGED vars
    BY DEF filter
  <1>3. IInv'
    BY <1>1, <1>2, NextInvariant
  <1>4. sentAge' = sentAge
    BY <1>2 DEF vars
  <1> QED BY <1>1, <1>3, <1>4 DEF Remembered

\* What send_telemetry makes of a hand-over: either the transport takes its
\* verdicts, or the filter merges it with one that was sent within the window.
LEMMA AcceptFacts ==
    ASSUME OInv, NEW n \in 1..Limit, NEW b, Accept(b), SyncKey(b) = <<n, Head(b)>>, Head(b) \in Files,
           Head(b) \in ToSet(b)
    PROVE  /\ IInv' /\ Remembered' /\ Head(b) \in told'
           /\ \/ told' = told \cup ToSet(b)
              \/ told' = told /\ sentAge[<<n, Head(b)>>] < Window
  <1> DEFINE k == <<n, Head(b)>>
             e == [key |-> SyncKey(b), raised |-> FALSE]
  <1>1. k \in SyncKeys /\ k[2] = Head(b)
    BY DEF SyncKeys
  <1>2. k \in Keys /\ k \notin LowKeys
    BY <1>1, VerdictAssumption DEF VerdictAssumption
  <1>3. e \in Event /\ e.key = k
    BY <1>2 DEF Event
  <1>4. IInv /\ Remembered /\ sentAge \in [Keys -> 0..Window]
    BY DEF OInv, IInv, Ages
  <1>5. \/ Merge(e, TRUE) /\ told' = told
        \/ Admit(e, TRUE) /\ told' = told \cup ToSet(b)
        \/ UNCHANGED filter /\ told' = told \cup ToSet(b)
    BY DEF Accept
  <1> HIDE DEF k, e
  <1>6. CASE Merge(e, TRUE) /\ told' = told
    <2>1. IInv' /\ sentAge' = sentAge
      BY <1>3, <1>4, <1>6, MergeInvariant DEF Merge, Decide
    <2>2. k \in DOMAIN table /\ table[k].age < Window /\ sentAge[k] <= table[k].age
      BY <1>2, <1>3, <1>4, <1>6 DEF Merge, Merges, IInv, Backed
    <2>3. sentAge[k] < Window
      BY <1>2, <1>4, <2>2, TriageAssumption DEF IInv, Table, Entry, TriageAssumption
    <2>4. Head(b) \in told
      BY <1>1, <1>4, <2>3 DEF Remembered
    <2>5. Remembered'
      BY <1>4, <1>6, <2>1 DEF Remembered
    <2> QED BY <1>6, <2>1, <2>3, <2>4, <2>5 DEF k
  <1>7. CASE Admit(e, TRUE) /\ told' = told \cup ToSet(b)
    <2>1. IInv'
      BY <1>3, <1>4, <1>7, AdmitInvariant
    <2>2. \A j \in Keys : j # k => sentAge'[j] = sentAge[j]
      BY <1>3, <1>4, <1>7, SentOthers
    <2>3. Remembered'
      <3> SUFFICES ASSUME NEW j \in SyncKeys, sentAge'[j] < Window PROVE j[2] \in told'
        BY DEF Remembered
      <3>1. CASE j = k
        BY <1>1, <1>7, <3>1
      <3>2. CASE j # k
        <4>1. j \in Keys
          BY VerdictAssumption DEF VerdictAssumption
        <4> QED BY <1>4, <1>7, <2>2, <3>2, <4>1 DEF Remembered
      <3> QED BY <3>1, <3>2
    <2> QED BY <1>7, <2>1, <2>3
  <1>8. CASE UNCHANGED filter /\ told' = told \cup ToSet(b)
    BY <1>8, QuietFilter
  <1> QED BY <1>5, <1>6, <1>7, <1>8

\* The hand-over as a whole.  Of the first verdict of the queue the transport
\* has taken one; what is lost stands behind it, and a hand-over of the same
\* length and first verdict was sent within the window.
LEMMA HandOverFacts ==
    ASSUME OInv, HandOver
    PROVE  /\ OInv'
           /\ queue' # queue => Head(queue) \in told'
           /\ \A f \in lost' \ lost :
                /\ f # Head(queue)
                /\ \E k \in SyncKeys : k[1] > 1 /\ k[2] = Head(queue) /\ sentAge[k] < Window
  <1> DEFINE n == IF Len(queue) < Limit THEN Len(queue) ELSE Limit
             b == SubSeq(queue, 1, n)
  <1>1. Own /\ queue \in Seq(Files) /\ Len(queue) \in Nat /\ Limit \in Nat
        /\ (Len(queue) <= MaxVerdicts \/ Len(queue) = 1) /\ MaxVerdicts \in Nat
    BY VerdictAssumption DEF OInv, Own, VerdictAssumption
  <1>2. n \in Nat /\ n <= Len(queue) /\ n <= Limit
    BY <1>1
  <1>3. /\ main' = "listening" /\ available' = TRUE /\ checked' = TRUE /\ heard' = FALSE
        /\ UNCHANGED <<reachable, connected>>
        /\ IF n = 0
             THEN UNCHANGED <<queue, told, lost, filter>>
             ELSE /\ Accept(b)
                  /\ queue' = SubSeq(queue, n + 1, Len(queue))
                  /\ lost' = (lost \cup ToSet(b)) \ told'
    BY DEF HandOver, Acked
  <1> HIDE DEF n, b
  <1>4. CASE n = 0
    <2>1. UNCHANGED <<queue, told, lost, filter>>
      BY <1>3, <1>4
    <2>2. IInv' /\ Remembered'
      BY <2>1, QuietFilter
    <2>3. Own'
      BY <1>1, <1>3, <2>1 DEF Own
    <2> QED BY <2>1, <2>2, <2>3 DEF OInv
  <1>5. CASE n # 0
    <2> DEFINE r == SubSeq(queue, n + 1, Len(queue))
    <2>1. n \in 1..Len(queue) /\ n \in 1..Limit
      BY <1>1, <1>2, <1>5
    <2>2. /\ Len(b) = n /\ Head(b) = Head(queue) /\ Head(queue) \in ToSet(b)
          /\ ToSet(b) \subseteq Files /\ (\A f \in ToSet(b) : f # Head(queue) => n > 1)
          /\ r \in Seq(Files) /\ Len(r) = Len(queue) - n
      BY <1>1, <2>1, BatchFacts DEF b
    <2>3. Accept(b) /\ queue' = r /\ lost' = (lost \cup ToSet(b)) \ told'
      BY <1>3, <1>5
    <2> HIDE DEF r
    <2>4. SyncKey(b) = <<n, Head(b)>> /\ Head(b) \in Files /\ Head(b) \in ToSet(b)
      BY <2>2 DEF SyncKey
    <2>5. /\ IInv' /\ Remembered' /\ Head(queue) \in told'
          /\ \/ told' = told \cup ToSet(b)
             \/ told' = told /\ sentAge[<<n, Head(queue)>>] < Window
      BY <2>1, <2>2, <2>3, <2>4, AcceptFacts
    <2>6. queue' \in Seq(Files) /\ (Len(queue') <= MaxVerdicts \/ Len(queue') = 1)
      BY <1>1, <2>1, <2>2, <2>3
    <2>7. told \subseteq Files /\ lost \subseteq Files
      BY <1>1 DEF Own
    <2>8. told' \subseteq Files /\ lost' \subseteq Files
      BY <2>2, <2>3, <2>5, <2>7
    <2>9. Own'
      BY <1>1, <1>3, <2>6, <2>8 DEF Own
    <2>10. ASSUME NEW f \in lost' \ lost
           PROVE  /\ f # Head(queue)
                  /\ \E k \in SyncKeys : k[1] > 1 /\ k[2] = Head(queue) /\ sentAge[k] < Window
      <3>1. f \in ToSet(b) /\ f \notin told' /\ f # Head(queue)
        BY <2>3, <2>5, <2>10
      <3>2. sentAge[<<n, Head(queue)>>] < Window
        BY <2>5, <3>1
      <3>3. n > 1 /\ <<n, Head(queue)>> \in SyncKeys
        BY <2>1, <2>2, <2>4, <3>1 DEF SyncKeys
      <3>4. <<n, Head(queue)>>[1] = n /\ <<n, Head(queue)>>[2] = Head(queue)
        OBVIOUS
      <3> QED BY <3>1, <3>2, <3>3, <3>4
    <2> QED BY <2>5, <2>9, <2>10 DEF OInv
  <1> QED BY <1>4, <1>5

\* Other telemetry leaves the ages of the hand-overs alone.
LEMMA TelemetryKeeps ==
    ASSUME OInv, Telemetry PROVE OInv'
  <1>1. PICK e \in Event, last \in BOOLEAN :
          e.key \notin SyncKeys /\ (Pass(e, last) \/ Merge(e, last) \/ Admit(e, last))
    BY DEF Telemetry
  <1>2. IInv /\ Own /\ Remembered
    BY DEF OInv
  <1>3. Next
    BY <1>1 DEF Next
  <1>4. IInv'
    BY <1>2, <1>3, NextInvariant
  <1>5. \A k \in Keys : k # e.key => sentAge'[k] = sentAge[k]
    BY <1>1, <1>2, SentOthers
  <1>6. \A k \in SyncKeys : sentAge'[k] = sentAge[k]
    BY <1>1, <1>5, VerdictAssumption DEF VerdictAssumption
  <1>7. UNCHANGED told
    BY DEF Telemetry
  <1>8. Remembered'
    BY <1>2, <1>6, <1>7 DEF Remembered
  <1>9. Own'
    BY <1>2 DEF Own, Telemetry
  <1> QED BY <1>4, <1>8, <1>9 DEF OInv

\* Time only closes windows.
LEMMA PauseKeeps ==
    ASSUME OInv, Pause PROVE OInv'
  <1>1. IInv /\ Own /\ Remembered /\ Tick /\ UNCHANGED told
    BY DEF OInv, Pause
  <1>2. IInv'
    BY <1>1, TickInvariant
  <1>3. \A k \in Keys : sentAge'[k] < Window => sentAge[k] < Window
    BY <1>1, TriageAssumption DEF Tick, Older, IInv, Ages, TriageAssumption
  <1>4. Remembered'
    BY <1>1, <1>3, VerdictAssumption DEF Remembered, VerdictAssumption
  <1>5. Own'
    BY <1>1 DEF Own, Pause
  <1> QED BY <1>2, <1>4, <1>5 DEF OInv

LEMMA OfflineStart == OfflineInit => OInv
  <1> SUFFICES ASSUME OfflineInit PROVE OInv
    OBVIOUS
  <1>1. IInv
    BY InitInvariant DEF OfflineInit
  <1>2. \A k \in Keys : sentAge[k] = Window
    BY DEF OfflineInit, Init
  <1>3. Remembered
    BY <1>2, VerdictAssumption, TriageAssumption DEF Remembered, VerdictAssumption, TriageAssumption
  <1>4. <<>> \in Seq(Files) /\ Len(<<>>) = 0 /\ MaxVerdicts \in Nat
    BY VerdictAssumption DEF VerdictAssumption
  <1>5. Own
    <2>1. queue \in Seq(Files) /\ (Len(queue) <= MaxVerdicts \/ Len(queue) = 1)
      BY <1>4 DEF OfflineInit
    <2>2. {reachable, available, checked, connected, heard} \subseteq BOOLEAN
      BY DEF OfflineInit
    <2>3. main \in {"listening", "busy", "sync"} /\ told \subseteq Files /\ lost \subseteq Files
      BY DEF OfflineInit
    <2> QED BY <2>1, <2>2, <2>3 DEF Own
  <1> QED BY <1>1, <1>3, <1>5 DEF OInv

\* The steps that leave the filter and what was told alone.
LEMMA QuietSteps ==
    ASSUME OInv, (\E f \in Files : Analyse(f)) \/ Busy \/ Back \/ Reconnect \/ Drop \/ Flip
                 \/ UNCHANGED all
    PROVE  OInv' /\ lost' = lost /\ (main = "sync" => queue' = queue)
  <1>1. Own /\ queue \in Seq(Files) /\ (Len(queue) <= MaxVerdicts \/ Len(queue) = 1)
    BY DEF OInv, Own
  <1>2. UNCHANGED filter /\ UNCHANGED <<told, lost>>
    BY DEF Analyse, Busy, Back, Reconnect, Drop, Flip, all, own
  <1>3. IInv' /\ Remembered'
    BY <1>2, QuietFilter
  <1>4. Own' /\ (main = "sync" => queue' = queue)
    <2>1. ASSUME NEW f \in Files, Analyse(f) PROVE Own' /\ main # "sync"
      <3>1. Pushed(queue, f) \in Seq(Files)
            /\ (Len(Pushed(queue, f)) <= MaxVerdicts \/ Len(Pushed(queue, f)) = 1)
        BY <1>1, PushedFacts
      <3>2. queue' \in Seq(Files) /\ (Len(queue') <= MaxVerdicts \/ Len(queue') = 1)
        BY <1>1, <2>1, <3>1 DEF Analyse
      <3>3. available' \in BOOLEAN
        BY <1>1, <2>1 DEF Own, Analyse
      <3> QED BY <1>1, <1>2, <2>1, <3>2, <3>3 DEF Own, Analyse
    <2>2. CASE Busy
      BY <1>1, <2>2 DEF Own, Busy
    <2>3. CASE Back
      BY <1>1, <2>3 DEF Own, Back
    <2>4. CASE Reconnect
      <3>1. main' \in {"listening", "busy", "sync"} /\ heard' \in BOOLEAN /\ connected' \in BOOLEAN
        BY <1>1, <2>4 DEF Own, Reconnect
      <3> QED BY <1>1, <2>4, <3>1 DEF Own, Reconnect
    <2>5. CASE Drop
      BY <1>1, <2>5 DEF Own, Drop
    <2>6. CASE Flip
      <3>1. reachable' \in BOOLEAN
        BY <2>6 DEF Flip
      <3> QED BY <1>1, <2>6, <3>1 DEF Own, Flip
    <2>7. CASE UNCHANGED all
      BY <1>1, <2>7 DEF Own, all, own
    <2> QED BY <2>1, <2>2, <2>3, <2>4, <2>5, <2>6, <2>7
  <1> QED BY <1>2, <1>3, <1>4 DEF OInv

\* What any step of the agent does to the verdicts.
LEMMA OfflineStep ==
    ASSUME OInv, [OfflineNext]_all
    PROVE  /\ OInv'
           /\ queue' # queue /\ main = "sync" => Head(queue) \in told'
           /\ \A f \in lost' \ lost :
                /\ f # Head(queue)
                /\ \E k \in SyncKeys : k[1] > 1 /\ k[2] = Head(queue) /\ sentAge[k] < Window
  <1>1. CASE (\E f \in Files : Analyse(f)) \/ Busy \/ Back \/ Reconnect \/ Drop \/ Flip
             \/ UNCHANGED all
    BY <1>1, QuietSteps
  <1>2. CASE HandOver
    BY <1>2, HandOverFacts
  <1>3. CASE Telemetry
    BY <1>3, TelemetryKeeps DEF Telemetry
  <1>4. CASE Pause
    BY <1>4, PauseKeeps DEF Pause
  <1> QED BY <1>1, <1>2, <1>3, <1>4 DEF OfflineNext

\* Whatever the main loop, the monitor and the other telemetry do, a hand-over
\* that was sent within the window has its first file among the told.
THEOREM OfflineInvariance == OfflineSpec => []OInv
  <1>1. OInv /\ [OfflineNext]_all => OInv'
    BY OfflineStep
  <1> QED BY <1>1, OfflineStart, PTL DEF OfflineSpec

\* The queue keeps to verdict_queue_max and the filter's table to
\* max_dedup_entries, whatever the main loop, the monitor and the other
\* telemetry do.
THEOREM VerdictsTyped == OfflineSpec => []OfflineTypeOK
  <1>1. OInv => OfflineTypeOK
    BY DEF OInv, Own, OfflineTypeOK, IInv, Table, Ages, TypeOK
  <1> QED BY <1>1, OfflineInvariance, PTL

\* The reconnect arm acks a batch only when the transport has taken a verdict
\* of its first file, now or in the hand-over that the filter merged it with.
THEOREM FirstIsTold == OfflineSpec => FirstTold
  <1>1. OInv /\ [OfflineNext]_all
          => [queue' # queue /\ main = "sync" => Head(queue) \in told']_all
    BY OfflineStep
  <1> QED BY <1>1, OfflineInvariance, PTL DEF OfflineSpec, FirstTold

\* What send_telemetry's Ok loses stands behind another verdict, within the
\* dedup window of a hand-over that was sent with the same count and first.
THEOREM LostOnlyBehind == OfflineSpec => LostBehind
  <1>1. OInv /\ [OfflineNext]_all
          => [\A f \in lost' \ lost :
                /\ f # Head(queue)
                /\ \E k \in SyncKeys : k[1] > 1 /\ k[2] = Head(queue) /\ sentAge[k] < Window]_all
    BY OfflineStep
  <1> QED BY <1>1, OfflineInvariance, PTL DEF OfflineSpec, LostBehind
=============================================================================
