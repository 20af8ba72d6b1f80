------------------------ MODULE WakeLedgerRefinement ------------------------
(* WakeLedger implements WakeContract, as long as handlers finish before    *)
(* their reservation expires (HoldLimit < PendingTTL).                      *)
EXTENDS WakeLedger

Runs(t, a) ==
    \E s \in Sessions : Executing(s) /\ work[s].ticket = t /\ work[s].attempt = a
Done(t, a) ==
    \E k \in DOMAIN entries :
        /\ entries[k].wake.attempt = a /\ entries[k].wake.ticket = t
        /\ ~entries[k].pending

\* A ticket's wake runs while a handler executes it and is done while its
\* record is kept; a drawn ticket with neither has been forgotten.
PhaseOf(t) ==
    IF Runs(t, 1) THEN "run1" ELSE IF Runs(t, 2) THEN "run2"
    ELSE IF Done(t, 1) THEN "done1" ELSE IF Done(t, 2) THEN "done2"
    ELSE IF t > issued THEN "idle" ELSE "dead"

Contract == INSTANCE WakeContract WITH
    Tickets <- Ticket,
    phase <- [t \in Ticket |-> PhaseOf(t)]

\* The ledger, its handlers and their races implement the contract of a wake:
\* every step of every session is a step of the contract or changes nothing
\* in it (begin_wake_attempt1, begin_wake_attempt2, complete, prune).
ImplementsContract == Contract!Spec

=============================================================================
