---------------------------- MODULE WakeContract ----------------------------
(***************************************************************************)
(* What the wake service promises about one issued wake, named by its      *)
(* ticket: a first attempt that is executed once, a second one only after  *)
(* the first has finished, each target gets at most one packet per         *)
(* attempt, and a wake that was forgotten or abandoned, or that a restart  *)
(* of the server interrupted, never comes back.                            *)
(* The ledger (WakeLedger) implements this.                                *)
(***************************************************************************)
EXTENDS Naturals

CONSTANTS Tickets, Hosts

VARIABLES
    phase,      \* "idle", "run1", "done1", "run2", "done2" or "dead"
    packets     \* packets sent per ticket, attempt and host

vars == <<phase, packets>>

Init ==
    /\ phase = [t \in Tickets |-> "idle"]
    /\ packets = [p \in Tickets \X (1..2) \X Hosts |-> 0]

\* Finished wakes may be forgotten at any moment, along with any other step.
Forgettable == {t \in Tickets : phase[t] \in {"done1", "done2"}}
Moves(t, from, to) ==
    /\ phase[t] = from
    /\ \E gone \in SUBSET (Forgettable \ {t}) :
          phase' = [x \in Tickets |-> IF x = t THEN to
                                      ELSE IF x \in gone THEN "dead" ELSE phase[x]]
    /\ UNCHANGED packets

Begin(t) == Moves(t, "idle", "run1")
Retry(t) == Moves(t, "done1", "run2")
Finish(t) == Moves(t, "run1", "done1") \/ Moves(t, "run2", "done2")
Abandon(t) == Moves(t, "run1", "dead") \/ Moves(t, "run2", "dead")
Forget(t) == Moves(t, "done1", "dead") \/ Moves(t, "done2", "dead")

Transmit(t, a, h) ==
    /\ phase[t] = (IF a = 1 THEN "run1" ELSE "run2")
    /\ packets[<<t, a, h>>] = 0
    /\ packets' = [packets EXCEPT ![<<t, a, h>>] = 1]
    /\ UNCHANGED phase

\* A restart forgets every wake that was begun.
Crash ==
    /\ phase' = [t \in Tickets |-> IF phase[t] = "idle" THEN "idle" ELSE "dead"]
    /\ UNCHANGED packets

Next ==
    \/ \E t \in Tickets :
        \/ Begin(t) \/ Retry(t) \/ Finish(t) \/ Abandon(t) \/ Forget(t)
        \/ \E a \in 1..2, h \in Hosts : Transmit(t, a, h)
    \/ Crash

Spec == Init /\ [][Next]_vars

=============================================================================
