-------------------------- MODULE SpooledDelivery --------------------------
(***************************************************************************)
(* What BackendClient (src/transport/mod.rs) promises about the telemetry  *)
(* it could not send at once: an event that reached the spool on disk      *)
(* stays there until the server has accepted it or the bounded queue gives *)
(* it up.  TelemetryDelivery is shown to implement this contract when the  *)
(* server's ACKs are tracked.                                              *)
(***************************************************************************)
CONSTANTS
    Events,
    Spools          \* sets of events that the spool has room for

VARIABLES
    spooled,        \* events on disk
    accepted,       \* events the server has taken
    shed            \* events given up

vars == <<spooled, accepted, shed>>

Init ==
    /\ spooled \in Spools
    /\ accepted = {} /\ shed = {}

\* Events are stored; others, or some of them, are given up to make room or
\* because they are too old.
Store(new, gone) ==
    /\ spooled' = (spooled \ gone) \cup new
    /\ spooled' \in Spools
    /\ shed' = shed \cup gone
    /\ UNCHANGED accepted

\* The server takes events, spooled ones or not, again or not.
Accept(some) ==
    /\ accepted' = accepted \cup some
    /\ UNCHANGED <<spooled, shed>>

\* Accepted events are deleted.
Release(some) ==
    /\ some \subseteq accepted
    /\ spooled' = spooled \ some
    /\ UNCHANGED <<accepted, shed>>

Next ==
    \/ \E new, gone \in SUBSET Events : Store(new, gone)
    \/ \E some \in SUBSET Events : Accept(some) \/ Release(some)

Spec == Init /\ [][Next]_vars
=============================================================================
