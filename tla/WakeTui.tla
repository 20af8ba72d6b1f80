------------------------------ MODULE WakeTui ------------------------------
(***************************************************************************)
(* A wake in the terminal UI, from start_wake to its end, over connections *)
(* that break (tui.rs).  One wake is started; the user may stop watching,  *)
(* disconnect and connect again at any moment.                             *)
(***************************************************************************)
EXTENDS WakeProgress

CONSTANT StartBy     \* bound on the time of the start

VARIABLES
    wake,       \* ActualWake or NoWake
    ui,         \* [screen, phase, wakePhase, client, started]
    retry       \* history: "none", "sent", "lost", "refused"

tuiOwn == <<wake, ui, retry>>
tuiVars == <<now, actorVars, serverVars, receipt1, tuiOwn>>

NoWake == [attempt |-> 0, finished |-> TRUE]
InProgress == wake # NoWake /\ ~wake.finished

TuiInit ==
    /\ ServerInit
    /\ wake = NoWake
    /\ ui = [screen |-> "hosts", phase |-> "connecting", wakePhase |-> "none",
             client |-> TRUE, started |-> FALSE]
    /\ receipt1 = -1 /\ retry = "none"

TuiFrame == UNCHANGED <<now, actor, events, pending, link, serverVars>>

-----------------------------------------------------------------------------
(* Keys *)

\* start_wake; the command goes to an actor that may have lost the connection.
StartWake ==
    /\ ~ui.started /\ now <= StartBy
    /\ ui.screen = "hosts" /\ ui.phase = "connected" /\ ui.client
    /\ actor.pc # "gone"
    /\ \E hs \in Selections :
          /\ Send(WakeCmd(Op, hs, 1, 0, now))
          /\ wake' = [hosts |-> hs, attempt |-> 1, ticket |-> 0, receipt |-> FALSE,
                      finished |-> FALSE, progress |-> NewProgress,
                      receiptDeadline |-> now + ReceiptTimeout,
                      deadline |-> now + WaitTimeout]
    /\ ui' = [ui EXCEPT !.screen = "wake", !.wakePhase = "sending", !.started = TRUE]
    /\ UNCHANGED <<receipt1, retry>> /\ TuiFrame

\* Esc on the wake page.
LeaveWake ==
    /\ ui.screen = "wake"
    /\ wake' = NoWake
    /\ ui' = [ui EXCEPT !.screen = "hosts"]
    /\ UNCHANGED <<commands, receipt1, retry>> /\ TuiFrame

\* Enter on the wake page, once it shows an end.
CloseWake ==
    /\ ui.screen = "wake"
    /\ ui.wakePhase \in {"complete", "partial", "failed"}
    /\ wake' = NoWake
    /\ ui' = [ui EXCEPT !.screen = "hosts"]
    /\ UNCHANGED <<commands, receipt1, retry>> /\ TuiFrame

\* Esc on the host page: shutdown_client queues a shutdown and waits for the
\* thread to end, here at once.
Disconnect ==
    /\ ui.screen = "hosts"
    /\ actor' = [actor EXCEPT !.pc = "gone"]
    /\ commands' = <<>> /\ events' = <<>>
    /\ CloseLink
    /\ wake' = NoWake
    /\ ui' = [ui EXCEPT !.screen = "connect", !.client = FALSE,
                        !.phase = "disconnected"]
    /\ retry' = IF retry = "sent" THEN "lost" ELSE retry
    /\ UNCHANGED <<now, pending, serverVars, receipt1>>

\* connect_client: shutdown_client first, then a new actor.
Connect ==
    /\ ui.screen = "connect" /\ conn <= MaxLosses
    /\ actor' = [pc |-> "announce", attempt |-> 1, until |-> 0]
    /\ commands' = <<>> /\ events' = <<>>
    /\ wake' = NoWake
    /\ ui' = [ui EXCEPT !.screen = "hosts", !.client = TRUE,
                        !.phase = "connecting"]
    /\ UNCHANGED <<now, pending, link, serverVars, receipt1, retry>>

-----------------------------------------------------------------------------
(* drain_client_events, apply_client_event *)

\* resume_wake_after_reconnect, with expire_wake_recovery before it.
Resume ==
    IF ~InProgress
    THEN ui' = [ui EXCEPT !.phase = "connected"] /\ UNCHANGED <<wake, commands>>
    ELSE IF ~CanRecover(wake.progress)
    THEN /\ wake' = [wake EXCEPT !.finished = TRUE]
         /\ ui' = [ui EXCEPT !.phase = "connected", !.wakePhase = "failed"]
         /\ UNCHANGED commands
    ELSE IF actor.pc = "gone"
    THEN ui' = [ui EXCEPT !.phase = "connected"] /\ UNCHANGED <<wake, commands>>
    ELSE /\ Send(WakeCmd(Op, wake.hosts, wake.attempt,
                         IF wake.attempt = 2 THEN wake.ticket ELSE 0, now))
         /\ wake' = [wake EXCEPT !.receipt = FALSE,
                                 !.receiptDeadline = now + ReceiptTimeout]
         /\ ui' = [ui EXCEPT !.phase = "connected",
                             !.wakePhase = IF wake.attempt = 2 THEN "retrying" ELSE "sending"]

ApplyReceipt(e) ==
    LET p == Receive(wake.progress, e.accepted) IN
    IF ~InProgress \/ wake.attempt # e.attempt
    THEN UNCHANGED <<wake, ui, receipt1>>
    ELSE /\ wake' = [wake EXCEPT !.receipt = TRUE, !.ticket = e.ticket,
                                 !.progress = p, !.deadline = p.deadline,
                                 !.finished = p.accepted = {}]
         /\ ui' = [ui EXCEPT !.wakePhase =
                      IF p.accepted = {} THEN "failed" ELSE "waiting"]
         /\ receipt1' = IF e.attempt = 1 /\ receipt1 = -1 THEN now ELSE receipt1

\* The end of a wake is decided when the last of its targets comes online.
ApplyOnline(e) ==
    LET p == Observed(wake.progress, e.host)
        end == Outcome(p, wake.hosts) IN
    IF wake = NoWake \/ wake.attempt # e.attempt \/ ~News(wake.progress, e.host)
    THEN UNCHANGED <<wake, ui>>
    ELSE /\ wake' = [wake EXCEPT !.progress = p,
                                 !.finished = @ \/ end \in {"complete", "partial"}]
         /\ ui' = IF end \in {"complete", "partial"}
                  THEN [ui EXCEPT !.wakePhase = end] ELSE ui

\* An unfinished wake is kept.
ApplyDisconnected ==
    /\ ui' = [ui EXCEPT !.client = FALSE, !.phase = "disconnected",
                        !.screen = IF InProgress THEN @ ELSE "connect"]
    /\ UNCHANGED wake

ReadEvent ==
    LET e == Head(events) IN
    /\ ui.client
    /\ events # <<>>
    /\ events' = Tail(events)
    /\ \/ /\ e.kind = "connected" /\ Resume /\ UNCHANGED receipt1
       \/ /\ e.kind \in {"connecting", "failed"}
          /\ ui' = [ui EXCEPT !.phase = e.kind]
          /\ UNCHANGED <<wake, commands, receipt1>>
       \/ e.kind = "receipt" /\ ApplyReceipt(e) /\ UNCHANGED commands
       \/ e.kind = "online" /\ ApplyOnline(e) /\ UNCHANGED <<commands, receipt1>>
       \/ e.kind = "error" /\ UNCHANGED <<wake, ui, commands, receipt1>>
       \/ e.kind = "disconnected" /\ ApplyDisconnected /\ UNCHANGED <<commands, receipt1>>
    /\ UNCHANGED <<now, actor, pending, link, serverVars, retry>>

\* An actor that ended without a word: the channel is closed.
ReadClosed ==
    /\ ui.client
    /\ events = <<>> /\ actor.pc = "gone"
    /\ ApplyDisconnected
    /\ UNCHANGED <<commands, receipt1, retry>> /\ TuiFrame

-----------------------------------------------------------------------------
(* tick_wake, after the events are drained *)

Ticking == InProgress /\ events = <<>>

ExpireRecovery ==
    /\ Ticking /\ ~CanRecover(wake.progress)
    /\ wake' = [wake EXCEPT !.finished = TRUE]
    /\ ui' = [ui EXCEPT !.wakePhase = "failed"]
    /\ UNCHANGED <<commands, receipt1, retry>> /\ TuiFrame

Live == Ticking /\ CanRecover(wake.progress) /\ ui.screen = "wake"
        /\ ui.phase = "connected"

GiveUp ==
    /\ wake' = NoWake
    /\ ui' = [ui EXCEPT !.screen = "hosts"]
    /\ UNCHANGED <<commands, retry>>

ReceiptTimesOut ==
    /\ Live /\ ~wake.receipt /\ now >= wake.receiptDeadline
    /\ GiveUp
    /\ UNCHANGED receipt1 /\ TuiFrame

WaitOverFor == wake.receipt /\ now >= wake.deadline

\* One retry, with the ticket of the receipt, once the wait is over.
Retry ==
    /\ Live /\ WaitOverFor
    /\ IF wake.attempt = 1 /\ actor.pc # "gone"
       THEN /\ Send(WakeCmd(Op, wake.hosts, 2, wake.ticket, now))
            /\ wake' = [wake EXCEPT !.attempt = 2, !.receipt = FALSE,
                          !.progress = NewProgress,
                          !.receiptDeadline = now + ReceiptTimeout,
                          !.deadline = now + WaitTimeout]
            /\ ui' = [ui EXCEPT !.wakePhase = "retrying"]
            /\ retry' = IF link.up THEN "sent" ELSE "lost"
       ELSE GiveUp
    /\ UNCHANGED receipt1 /\ TuiFrame

-----------------------------------------------------------------------------

Stays == StartWake \/ CloseWake
Leaves == LeaveWake \/ Disconnect \/ Connect
Ui == ReadEvent \/ ReadClosed \/ ExpireRecovery \/ ReceiptTimesOut \/ Retry

\* A retry that the server refuses on the very connection it was made on.
RefusesRetry ==
    LET q == Head(link.out) IN
    /\ retry = "sent"
    /\ link.out # <<>> /\ link'.out # link.out /\ q.attempt = 2
    /\ Pruned1.st # "pending" /\ ~Starts(Pruned1, q) /\ ~Answers(Pruned1, q)

ServerInUi ==
    /\ ServerStep
    /\ retry' = IF RefusesRetry THEN "refused"
                ELSE IF retry = "sent" /\ ~link'.up THEN "lost" ELSE retry
    /\ UNCHANGED <<wake, ui, receipt1>>

ActorInUi ==
    /\ Actor
    /\ retry' = IF retry = "sent" /\ ~link'.up THEN "lost" ELSE retry
    /\ UNCHANGED <<wake, ui, receipt1>>

\* The UI's loop has nothing left to do when time passes.
UiSettled ==
    /\ ~(ui.client /\ events = <<>> /\ actor.pc = "gone")
    /\ ~(Ticking /\ ~CanRecover(wake.progress))
    /\ ~(Live /\ ~wake.receipt /\ now >= wake.receiptDeadline)
    /\ ~(Live /\ WaitOverFor)
TickInUi == Elapse /\ UiSettled /\ UNCHANGED <<receipt1, tuiOwn>>

TuiNext == Stays \/ Leaves \/ Ui \/ ServerInUi \/ ActorInUi \/ TickInUi

TuiSpec == TuiInit /\ [][TuiNext]_tuiVars

\* Both threads and the server run, and time passes.  The user need not act
\* and the network may keep refusing connections.
TuiFairSpec ==
    /\ TuiSpec
    /\ WF_tuiVars(Ui) /\ WF_tuiVars(ActorInUi) /\ WF_tuiVars(ServerInUi)
    /\ SF_tuiVars(TickInUi)

-----------------------------------------------------------------------------
(* Properties *)

\* The wake, the pages and what they share with the actor keep their types;
\* only accepted targets are online and a second attempt has a ticket.
TuiTypeOK ==
    /\ ServerTypeOK
    /\ ui.screen \in {"hosts", "wake", "connect"}
    /\ ui.phase \in {"connecting", "connected", "failed", "disconnected"}
    /\ wake # NoWake => wake.progress.online \subseteq wake.progress.accepted
    /\ wake # NoWake /\ wake.attempt = 2 => wake.ticket # 0

\* A recovered receipt does not restart the countdown: an attempt that has a
\* receipt waits until the first receipt's time plus the wait.
CountdownKept ==
    InProgress /\ wake.attempt = 1 /\ wake.receipt =>
        wake.deadline = receipt1 + WaitTimeout

\* While its connection holds, a client that waited as told is not refused its
\* retry: recovery renews the ticket together with the receipt, and leaves
\* the record alive long enough (TASK.md R6).
RetryHonoured == retry # "refused"

\* The UI shows success only if every requested target was found online in
\* the attempt it shows; a partly rejected wake is never a success.
CompleteIsTrue ==
    /\ ui.wakePhase = "complete" /\ wake # NoWake =>
          \A h \in wake.hosts : <<wake.attempt, h>> \in probed
    /\ ui.wakePhase = "partial" /\ wake # NoWake =>
          \E h \in wake.hosts : h \notin wake.progress.accepted

=============================================================================
