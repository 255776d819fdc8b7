--------------------------- MODULE TokenRotation ---------------------------
(***************************************************************************)
(* The agent's JWT (src/transport/token_manager.rs).  Two token managers   *)
(* share one config file: the proactive one, which lives as long as the    *)
(* process and keeps its token in memory, and the one that the connection  *)
(* monitor creates from the file whenever the backend rejects a reconnect  *)
(* (refresh_auth_token_from_disk in transport/mod.rs).  The backend, known *)
(* from its use here, accepts the last token it issued and no other.       *)
(***************************************************************************)
EXTENDS Naturals

CONSTANTS
    MaxRetries,     \* max_retries
    Trouble         \* bound: tokens that age, losses, disconnects, odd rejections

ASSUME RotationAssumption == MaxRetries \in Nat \ {0} /\ Trouble \in Nat

Managers == {"proactive", "reconnect"}
Torn == 0           \* the config file between truncation and write

\* Tokens are told apart and nothing else; one that nobody has any more may
\* come back as a new one.  At most five are in use: the one the process
\* started with (1), the backend's, the file's and the managers'.
Tokens == 1..6

VARIABLES
    recovery,       \* a recovery token is installed: managers can re-enroll
    valid,          \* the token the backend accepts
    due,            \* it is past 60% of its life: refresh_eligible
    writable,       \* the config file can be written: its file system is not read-only
    disk,           \* auth_token in the config file
    mem,            \* current_token of each manager
    attempt,        \* of refresh_with_retry
    pc,             \* where each manager is
    conn,           \* the WebSocket is up
    left,           \* how much trouble is left
    rested,         \* the monitor has had its turn since the last check
    cut,            \* an answer with a new token has been lost (observed)
    unsaved         \* managers that have failed to save a token (observed)

server == <<valid, due, recovery, writable, cut>>
file == <<disk, unsaved>>
vars == <<server, file, mem, attempt, pc, conn, left, rested>>
clock == <<left, rested>>

Mishap == left > 0 /\ left' = left - 1 /\ rested' = TRUE

Goto(m, p) == pc' = [pc EXCEPT ![m] = p]

Init ==
    /\ recovery \in BOOLEAN /\ writable \in BOOLEAN /\ cut = FALSE /\ unsaved = {}
    /\ valid = 1 /\ due = FALSE /\ disk = 1 /\ mem = [m \in Managers |-> 1]
    /\ attempt = [m \in Managers |-> 0]
    /\ pc = [m \in Managers |-> "idle"]
    /\ conn = FALSE /\ left = Trouble /\ rested = TRUE

-----------------------------------------------------------------------------
(* The backend and the network.                                            *)

\* The token ages.
Age ==
    /\ ~due /\ Mishap /\ due' = TRUE
    /\ UNCHANGED <<valid, recovery, writable, cut, file, mem, attempt, pc, conn>>

\* A token the backend has not issued to anybody who still has it.
Unused == Tokens \ ({1, valid, disk} \cup {mem[m] : m \in Managers})
Fresh == {t \in Unused : \A u \in Unused : t <= u}

\* The backend issues a token to manager m; the answer arrives, and update_token
\* and update_enrollment put it in memory first, or it is lost and m is at `lost`.
Issue(m, lost) ==
    /\ due' = FALSE /\ UNCHANGED <<recovery, writable>>
    /\ \E t \in Fresh :
         /\ valid' = t
         /\ \/ /\ Goto(m, "save") /\ mem' = [mem EXCEPT ![m] = t]
               /\ UNCHANGED <<clock, cut>>
            \/ /\ Mishap /\ cut' = TRUE
               /\ Goto(m, lost) /\ UNCHANGED mem

Refuse(m, next) == Goto(m, next) /\ UNCHANGED <<server, mem>>

ConnectionLost ==
    /\ conn /\ Mishap /\ conn' = FALSE
    /\ UNCHANGED <<server, file, mem, attempt, pc>>

-----------------------------------------------------------------------------
(* Both managers.                                                          *)

\* refresh_with_retry after a failed attempt.
Retry(m) ==
    /\ pc[m] = "retry"
    /\ Goto(m, IF attempt[m] < MaxRetries THEN "send"
               ELSE IF recovery THEN "enroll" ELSE "idle")
    /\ UNCHANGED <<server, file, mem, attempt, conn, clock>>

\* refresh_token, with whatever token the manager has in memory.
RefreshToken(m) ==
    /\ pc[m] = "send"
    /\ attempt' = [attempt EXCEPT ![m] = @ + 1]
    /\ \/ mem[m] = valid /\ Issue(m, "retry")
       \/ mem[m] # valid /\ Refuse(m, "retry") /\ UNCHANGED clock
       \/ Mishap /\ Refuse(m, "retry")
    /\ UNCHANGED <<file, conn>>

\* re_enroll: the backend issues a token whatever the manager had.
ReEnroll(m) ==
    /\ pc[m] = "enroll"
    /\ \/ Issue(m, "idle")
       \/ Mishap /\ Refuse(m, "idle")
    /\ UNCHANGED <<file, attempt, conn>>

\* Mutant: the token is only kept in memory.
SaveInMemory(m) ==
    /\ pc[m] = "save" /\ Goto(m, "idle")
    /\ UNCHANGED <<server, file, mem, attempt, conn, clock>>

\* persist_token and persist_enrollment fail; there is no second try.
Unsaved(m) == Goto(m, "idle") /\ unsaved' = unsaved \cup {m} /\ UNCHANGED disk

\* persist_token and persist_enrollment read the file; that is the end of it if
\* the read fails or the file does not parse.
Save(m) ==
    /\ pc[m] = "save"
    /\ \/ disk # Torn /\ Goto(m, "truncate") /\ UNCHANGED <<file, clock>>
       \/ disk = Torn /\ Unsaved(m) /\ UNCHANGED clock
       \/ Mishap /\ Unsaved(m)
    /\ UNCHANGED <<server, mem, attempt, conn>>

\* fs::write truncates the file, unless it cannot be opened, then fills it,
\* unless the disk is full; then the file stays torn.
Truncate(m) ==
    /\ pc[m] = "truncate"
    /\ \/ writable /\ Goto(m, "fill") /\ disk' = Torn /\ UNCHANGED <<unsaved, clock>>
       \/ ~writable /\ Unsaved(m) /\ UNCHANGED clock
       \/ Mishap /\ Unsaved(m)
    /\ UNCHANGED <<server, mem, attempt, conn>>

Fill(m) ==
    /\ pc[m] = "fill"
    /\ \/ Goto(m, "idle") /\ disk' = mem[m] /\ UNCHANGED <<unsaved, clock>>
       \/ Mishap /\ Unsaved(m)
    /\ UNCHANGED <<server, mem, attempt, conn>>

Manager(m) ==
    Retry(m) \/ RefreshToken(m) \/ ReEnroll(m) \/ Save(m) \/ Truncate(m) \/ Fill(m)

-----------------------------------------------------------------------------
(* The proactive manager's rounds.                                         *)

StartRefresh(m) ==
    /\ attempt' = [attempt EXCEPT ![m] = 0]
    /\ Goto(m, "send")

\* Mutant: only a token that is still good is refreshed.
CheckAndRefreshValid ==
    /\ pc["proactive"] = "idle" /\ (conn \/ rested) /\ rested' = FALSE
    /\ mem["proactive"] = valid /\ due /\ StartRefresh("proactive")
    /\ UNCHANGED <<server, file, mem, conn, left>>

\* check_and_refresh: the status says eligible, or the check is rejected;
\* otherwise, and when the backend cannot be reached, nothing happens.  From
\* one check to the next it is 5 minutes, while the monitor tries again within
\* 65s and its manager takes 20s when the backend answers: left alone it
\* reconnects in between.
CheckAndRefresh ==
    /\ pc["proactive"] = "idle" /\ (conn \/ rested) /\ rested' = FALSE
    /\ mem["proactive"] # valid \/ due
    /\ StartRefresh("proactive")
    /\ UNCHANGED <<server, file, mem, conn, left>>

-----------------------------------------------------------------------------
(* Reconnects.  The monitor waits for the manager it creates.              *)


\* latest_auth_token_for_connect: the file's token, or the one the process
\* started with.
TokenForConnect == IF disk = Torn THEN 1 ELSE disk

Connect ==
    /\ ~conn /\ pc["reconnect"] = "idle" /\ TokenForConnect = valid
    /\ conn' = TRUE /\ rested' = TRUE
    /\ UNCHANGED <<server, file, mem, attempt, pc, left>>

\* The attempt is rejected; is_auth_rejection goes by the words of the error
\* and may also take another failure for a rejection.
ConnectRejected ==
    /\ ~conn /\ pc["reconnect"] = "idle"
    /\ (TokenForConnect # valid /\ UNCHANGED clock) \/ (TokenForConnect = valid /\ Mishap)
    /\ Goto("reconnect", "load")
    /\ UNCHANGED <<server, file, mem, attempt, conn>>

\* refresh_auth_token_from_disk: nothing happens when the file cannot be read.
RefreshFromDisk ==
    /\ pc["reconnect"] = "load"
    /\ \/ /\ (disk = Torn /\ UNCHANGED clock) \/ Mishap
          /\ Goto("reconnect", "idle") /\ UNCHANGED <<mem, attempt>>
       \/ /\ disk # Torn /\ StartRefresh("reconnect")
          /\ mem' = [mem EXCEPT !["reconnect"] = disk] /\ UNCHANGED clock
    /\ UNCHANGED <<server, file, conn>>

Next ==
    \/ Age \/ ConnectionLost
    \/ \E m \in Managers : Manager(m)
    \/ CheckAndRefresh
    \/ Connect \/ ConnectRejected \/ RefreshFromDisk

\* Timers fire, requests are answered, the monitor keeps trying.
Fairness ==
    /\ \A m \in Managers : WF_vars(Manager(m))
    /\ WF_vars(CheckAndRefresh)
    /\ WF_vars(Connect \/ ConnectRejected) /\ WF_vars(RefreshFromDisk)

Spec == Init /\ [][Next]_vars /\ Fairness

-----------------------------------------------------------------------------
(* Properties.                                                             *)

\* Every variable has its type.
TypeOK ==
    /\ valid \in Tokens /\ due \in BOOLEAN /\ disk \in Tokens \cup {Torn}
    /\ mem \in [Managers -> Tokens]
    /\ attempt \in [Managers -> 0..MaxRetries]
    /\ pc \in [Managers -> {"idle", "send", "retry", "enroll", "save", "truncate", "fill", "load"}]
    /\ conn \in BOOLEAN /\ left \in 0..Trouble /\ rested \in BOOLEAN
    /\ recovery \in BOOLEAN /\ writable \in BOOLEAN /\ cut \in BOOLEAN
    /\ unsaved \subseteq Managers

\* Manager m has the token in hand and is going to write it to the file.
Saving(m) == pc[m] \in {"save", "truncate", "fill"}

\* As long as no answer of the backend is lost, nobody re-enrolls and no manager
\* of the monitor fails to save a token (it is dropped, and the token with it),
\* the token the backend accepts is in the file or on its way there, although
\* two managers refresh and rewrite one file without a lock; or the proactive
\* manager, having failed to save it, still has it in memory.
NeverLost ==
    ~recovery /\ ~cut /\ "reconnect" \notin unsaved =>
        \/ disk = valid
        \/ \E m \in Managers : Saving(m) /\ mem[m] = valid
        \/ "proactive" \in unsaved /\ mem["proactive"] = valid

\* A write has failed between truncation and end: no token can be saved any
\* more, for persist_token wants to parse the file first.
Ruined == disk = Torn /\ \A m \in Managers : pc[m] # "fill"

\* "Tokens are refreshed in-place (no manual intervention required)": the
\* agent is connected again and again.  It is locked out only while the file
\* has not the token the backend accepts, and then for one of three reasons:
\* an answer or a write was lost and there is no recovery token; the file
\* cannot be written at all; or a failed write has ruined it.
LockedOut ==
    /\ disk # valid
    /\ (~recovery /\ (cut \/ unsaved # {})) \/ ~writable \/ Ruined

\* "Refreshes token when it reaches 60% of its TTL": given a recovery token,
\* for a manager whose token the other one has made stale cannot do without.
RefreshedWhenDue == (due /\ recovery) ~> ~due
=============================================================================
