---------------------------- MODULE WakeProgress ----------------------------
(***************************************************************************)
(* The progress of one attempt, shared by the terminal UI and the command  *)
(* line (wake.rs).  A time of -1 is None.                                  *)
(***************************************************************************)
EXTENDS WakeServer

VARIABLE receipt1       \* history: time of the first receipt of attempt 1, or -1

\* The targets of a wake: what the user selected, never nothing.
Selections == SUBSET Hosts \ {{}}

NewProgress ==
    [created |-> now, accepted |-> {}, online |-> {}, started |-> -1,
     deadline |-> now + ReceiptTimeout]

\* Mutant: recovery never stops.
CanRecover_Always(p) == TRUE

CanRecover(p) == now - p.created < RecoveryTimeout

\* Mutant: every receipt starts the wait again.
Receive_Restarts(p, acc) ==
    [p EXCEPT !.accepted = acc, !.online = @ \cap acc, !.started = now,
              !.deadline = now + WaitTimeout]

\* The wait counts from the first receipt of the attempt.
Receive(p, acc) ==
    LET first == IF p.started = -1 THEN now ELSE p.started IN
    [p EXCEPT !.accepted = acc, !.online = @ \cap acc, !.started = first,
              !.deadline = first + WaitTimeout]

News(p, h) == h \in p.accepted /\ h \notin p.online
Observed(p, h) ==
    IF h \in p.accepted THEN [p EXCEPT !.online = @ \cup {h}] ELSE p

\* Mutant: success counts the accepted targets only.
Outcome_AcceptedOnly(p, targets) ==
    IF p.started = -1 THEN "waiting"
    ELSE IF p.accepted = {} THEN "rejected"
    ELSE IF ~(p.accepted \subseteq p.online) THEN "waiting"
    ELSE "complete"

Outcome(p, targets) ==
    IF p.started = -1 THEN "waiting"
    ELSE IF p.accepted = {} THEN "rejected"
    ELSE IF ~(p.accepted \subseteq p.online) THEN "waiting"
    ELSE IF targets \subseteq p.online THEN "complete"
    ELSE "partial"

-----------------------------------------------------------------------------
(* Property *)

\* A second attempt begins only after the client held a receipt of the first
\* for the whole wait, however often the receipt was recovered in between
\* (README "只有客户端收到执行回执、等待 60 秒仍未上线后").
RetriedAfterWait ==
    \A i \in DOMAIN dispatches :
        dispatches[i].attempt = 2 =>
            receipt1 # -1 /\ dispatches[i].at >= receipt1 + WaitTimeout

=============================================================================
