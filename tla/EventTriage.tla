---------------------------- MODULE EventTriage ----------------------------
(***************************************************************************)
(* Agent-side event triage (src/event_triage.rs): the filter that          *)
(* send_telemetry_direct applies, under one write lock, to the events of a *)
(* connected agent.  BackendClient creates it with no governor, so there   *)
(* is no resource pressure.  An instant is kept as its age, and ages are   *)
(* told apart up to the dedup window.  An event is its dedup key (type and *)
(* first 256 bytes of the payload) and whether detections or severity      *)
(* raise it to High or Critical.  No type is classified as Noise.          *)
(***************************************************************************)
EXTENDS Naturals, FiniteSets, Functions

CONSTANTS
    Keys,           \* dedup keys
    LowKeys,        \* those whose event type has Low priority
    Window,         \* dedup_window_secs, in ticks
    MaxEntries,     \* max_dedup_entries
    LowRate,        \* low_sample_rate
    MaxCount        \* bound: counts are told apart up to this

ASSUME TriageAssumption ==
    /\ IsFiniteSet(Keys) /\ LowKeys \subseteq Keys
    /\ Window \in Nat \ {0} /\ MaxEntries \in Nat /\ LowRate \in Nat \ {0}
    /\ MaxCount \in Nat \ {0}

VARIABLES
    table,          \* dedup_table
    counter,        \* sample_counter, modulo the rate
    flushAge        \* since last_flush

\* What the properties observe: the last decision, and for each key the time
\* since an event passed, and since one passed that was not raised and for
\* which the table had room.
VARIABLES out, sentAge, plainAge

triage == <<table, counter, flushAge>>
vars == <<triage, out, sentAge, plainAge>>

Event == [key : Keys, raised : BOOLEAN]
Entry == [count : 1..MaxCount, age : 0..Window, idle : 0..Window]
Fates == {"passed", "merged", "sampled out"}
NoDecision == [fate |-> "none"]

Put(t, k, entry) == [j \in DOMAIN t \cup {k} |-> IF j = k THEN entry ELSE t[j]]

Init ==
    /\ table = [k \in {} |-> 0] /\ counter = 0 /\ flushAge = 0
    /\ out = NoDecision
    /\ sentAge = [k \in Keys |-> Window]
    /\ plainAge = [k \in Keys |-> Window]

-----------------------------------------------------------------------------
Fresh == [count |-> 1, age |-> 0, idle |-> 0]

\* Mutant: the window slides with every event merged.
MergesSliding(k) == k \in DOMAIN table /\ table[k].idle < Window

\* Mutant: the window never closes.
MergesForever(k) == k \in DOMAIN table

Merges(k) == k \in DOMAIN table /\ table[k].age < Window

Merged(k) ==
    [table EXCEPT ![k].count = IF @ < MaxCount THEN @ + 1 ELSE @, ![k].idle = 0]

\* A new window for k; a key that finds the table full is not entered.
Entered(k) ==
    IF k \in DOMAIN table \/ Cardinality(DOMAIN table) < MaxEntries
      THEN Put(table, k, Fresh) ELSE table

\* Mutant: the whole table is flushed.
FlushedWhole(t) == IF flushAge < Window THEN t ELSE Restrict(t, {})

\* maybe_flush_dedup.
Flushed(t) ==
    IF flushAge < Window THEN t
    ELSE Restrict(t, {k \in DOMAIN t : t[k].idle < Window})

\* The end of process_event and, with the last event of a batch, of
\* filter_batch.
Decide(e, fate, told, t, last) ==
    /\ out' = [event |-> e, fate |-> fate, told |-> told]
    /\ table' = IF last THEN Flushed(t) ELSE t
    /\ flushAge' = IF last /\ flushAge = Window THEN 0 ELSE flushAge
    /\ IF fate = "passed"
         THEN /\ sentAge' = [sentAge EXCEPT ![e.key] = 0]
              /\ plainAge' = [plainAge EXCEPT ![e.key] =
                             IF e.raised \/ e.key \notin DOMAIN t THEN @ ELSE 0]
         ELSE UNCHANGED <<sentAge, plainAge>>

\* Critical and High skip dedup and sampling.
Pass(e, last) ==
    /\ e.raised
    /\ Decide(e, "passed", 0, table, last)
    /\ UNCHANGED counter

\* Within the window: counted and dropped.
Merge(e, last) ==
    /\ ~e.raised /\ Merges(e.key)
    /\ Decide(e, "merged", 0, Merged(e.key), last)
    /\ UNCHANGED counter

\* The first of a window; it carries dedup_prev_count, the count of the
\* window before, when that is not 1.  Low events are then sampled.
Admit(e, last) ==
    /\ ~e.raised /\ ~Merges(e.key)
    /\ LET n == IF e.key \in DOMAIN table THEN table[e.key].count ELSE 0
           told == IF n > 1 THEN n ELSE 0
           c == (counter + 1) % LowRate
       IN  IF e.key \in LowKeys
             THEN /\ counter' = c
                  /\ Decide(e, IF c = 0 THEN "passed" ELSE "sampled out", told,
                            Entered(e.key), last)
             ELSE UNCHANGED counter /\ Decide(e, "passed", told, Entered(e.key), last)

Older(n) == IF n < Window THEN n + 1 ELSE n

Tick ==
    /\ table' = [k \in DOMAIN table |->
                   [table[k] EXCEPT !.age = Older(@), !.idle = Older(@)]]
    /\ flushAge' = Older(flushAge)
    /\ sentAge' = [k \in Keys |-> Older(sentAge[k])]
    /\ plainAge' = [k \in Keys |-> Older(plainAge[k])]
    /\ out' = NoDecision /\ UNCHANGED counter

Next ==
    \/ \E e \in Event, last \in BOOLEAN : Pass(e, last) \/ Merge(e, last) \/ Admit(e, last)
    \/ Tick

\* Time passes.
Spec == Init /\ [][Next]_vars /\ WF_vars(Tick)

-----------------------------------------------------------------------------
(* Properties.                                                             *)

\* Every variable has its type, and the table respects max_dedup_entries.
TypeOK ==
    /\ DOMAIN table \subseteq Keys /\ Cardinality(DOMAIN table) <= MaxEntries
    /\ \A k \in DOMAIN table : table[k] \in Entry
    /\ counter \in 0..LowRate - 1 /\ flushAge \in 0..Window
    /\ out # NoDecision => out.event \in Event /\ out.fate \in Fates
    /\ sentAge \in [Keys -> 0..Window] /\ plainAge \in [Keys -> 0..Window]

Decided == out' # NoDecision

\* Unless it is of Low priority, an event is merged only into one that has
\* been sent within the window: nothing is suppressed that the backend has
\* not seen.
SentBeforeMerged ==
    [][Decided /\ out'.fate = "merged" /\ out'.event.key \notin LowKeys
         => sentAge[out'.event.key] < Window]_vars

\* Of the events with one key that are not raised, one per window passes.
\* Only a key that found the table full may pass again.
NoDuplicate ==
    [][Decided /\ out'.fate = "passed" /\ ~out'.event.raised
         => plainAge[out'.event.key] = Window]_vars

\* What keeps happening keeps being reported, however often it happens: the
\* window runs from the creation of an entry.  The module's documentation
\* says that identical events "within a sliding window are merged"
\* (event_triage.rs:11); with a window that slides a steady stream would be
\* silenced for ever.
Recurs ==
    \A k \in Keys \ LowKeys :
      []<>(out # NoDecision /\ out.event.key = k)
        => []<>(out # NoDecision /\ out.event.key = k /\ out.fate = "passed")

\* "Only first + summary sent": the count of an entry that stands for several
\* events is told to the backend by the next event with its key.  It is lost
\* in two ways only: that event is of Low priority and not sampled, or none
\* came for a whole window and the entry was flushed.
CountTold ==
    [][\A k \in DOMAIN table :
         table[k].count > 1 /\ (k \in DOMAIN table' => table'[k].count = 1)
           => \/ /\ Decided /\ out'.event.key = k /\ out'.told = table[k].count
                 /\ out'.fate = "passed" \/ k \in LowKeys
              \/ k \notin DOMAIN table' /\ table[k].idle = Window]_vars
=============================================================================
