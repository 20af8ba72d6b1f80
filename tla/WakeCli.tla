------------------------------ MODULE WakeCli ------------------------------
(***************************************************************************)
(* The command line client: wait for the catalog, wake, report and exit    *)
(* (main.rs: run_client_cli, receive_catalog, run_wake_session).  It does  *)
(* not recover a lost connection: the first report of one ends the wake.   *)
(***************************************************************************)
EXTENDS WakeProgress

CONSTANT CatalogTimeout     \* the 20 seconds of receive_catalog

CommandAssumption == CatalogTimeout \in Nat

VARIABLE
    cli         \* [pc, hosts, ready, attempt, ticket, receipt, progress, by, result]

cliVars == <<now, actorVars, serverVars, receipt1, cli>>

CliInit ==
    /\ ServerInit
    /\ \E hs \in Selections :
          cli = [pc |-> "catalog", hosts |-> hs, ready |-> FALSE, attempt |-> 0,
                 ticket |-> 0, receipt |-> FALSE, progress |-> NewProgress,
                 by |-> CatalogTimeout, result |-> "none"]
    /\ receipt1 = -1

CliFrame == UNCHANGED <<now, actor, pending, link, serverVars>>

\* The result is the exit status; a shutdown is requested and the handle's
\* drop waits for the actor.
Return(r) ==
    /\ cli' = [cli EXCEPT !.pc = "done", !.result = r]
    /\ commands' = IF actor.pc = "gone" THEN commands ELSE Append(commands, Shutdown)

-----------------------------------------------------------------------------
(* receive_catalog: failures are remembered while the actor tries again.   *)
(* The directory may arrive once a connection was announced.               *)

CatalogEvent ==
    LET e == Head(events) IN
    /\ cli.pc = "catalog" /\ events # <<>>
    /\ events' = Tail(events)
    /\ IF e.kind = "disconnected" THEN Return("error")
       ELSE /\ cli' = [cli EXCEPT !.ready = @ \/ e.kind = "connected"]
            /\ UNCHANGED commands
    /\ UNCHANGED receipt1 /\ CliFrame

CatalogTimesOut ==
    /\ cli.pc = "catalog" /\ events = <<>> /\ now >= cli.by
    /\ Return("error")
    /\ UNCHANGED <<events, receipt1>> /\ CliFrame

\* A target that is not in the directory ends the command; else the first
\* attempt is queued, for an actor that may have lost the connection.
CatalogComplete ==
    /\ cli.pc = "catalog" /\ cli.ready /\ events = <<>>
    /\ \/ Return("error")
       \/ /\ actor.pc # "gone"
          /\ Send(WakeCmd(Op, cli.hosts, 1, 0, now))
          /\ cli' = [cli EXCEPT !.pc = "wake", !.attempt = 1,
                       !.progress = NewProgress, !.by = now + ReceiptTimeout]
    /\ UNCHANGED <<events, receipt1>> /\ CliFrame

-----------------------------------------------------------------------------
(* run_wake_session *)

Mine(e) == e.attempt = cli.attempt

WakeEvent ==
    LET e == Head(events) IN
    /\ cli.pc = "wake" /\ events # <<>>
    /\ events' = Tail(events)
    /\ IF e.kind \in {"failed", "disconnected"}
       THEN Return("error") /\ UNCHANGED receipt1
       ELSE IF e.kind = "receipt" /\ Mine(e)
       THEN LET p == Receive(cli.progress, e.accepted) IN
            /\ receipt1' = IF receipt1 = -1 THEN now ELSE receipt1
            /\ IF p.accepted = {} THEN Return("error")
               ELSE /\ cli' = [cli EXCEPT !.ticket = e.ticket, !.receipt = TRUE,
                                          !.progress = p]
                    /\ UNCHANGED commands
       ELSE /\ cli' = IF e.kind = "online" /\ Mine(e)
                      THEN [cli EXCEPT !.progress = Observed(@, e.host)] ELSE cli
            /\ UNCHANGED <<commands, receipt1>>
    /\ CliFrame

Drained == cli.pc = "wake" /\ events = <<>>

Ended ==
    /\ Drained
    /\ \/ Outcome(cli.progress, cli.hosts) = "complete" /\ Return("ok")
       \/ Outcome(cli.progress, cli.hosts) = "partial" /\ Return("error")
    /\ UNCHANGED <<events, receipt1>> /\ CliFrame

StillWaiting == Drained /\ Outcome(cli.progress, cli.hosts) \notin {"complete", "partial"}

NoReceipt ==
    /\ StillWaiting /\ ~cli.receipt /\ now >= cli.by
    /\ Return("error")
    /\ UNCHANGED <<events, receipt1>> /\ CliFrame

WaitIsOver ==
    /\ StillWaiting /\ cli.receipt /\ now >= cli.progress.deadline
    /\ IF cli.attempt = 1 /\ actor.pc # "gone"
       THEN /\ Send(WakeCmd(Op, cli.hosts, 2, cli.ticket, now))
            /\ cli' = [cli EXCEPT !.attempt = 2, !.receipt = FALSE,
                                  !.progress = NewProgress,
                                  !.by = now + ReceiptTimeout]
       ELSE Return("error")
    /\ UNCHANGED <<events, receipt1>> /\ CliFrame

-----------------------------------------------------------------------------

Cli == CatalogEvent \/ CatalogTimesOut \/ CatalogComplete
       \/ WakeEvent \/ Ended \/ NoReceipt \/ WaitIsOver

\* The event queue of a finished command is dropped with its handle.
CliSettled ==
    \/ cli.pc = "done"
    \/ /\ events = <<>>
       /\ cli.pc = "catalog" => now < cli.by
       /\ cli.pc = "wake" =>
             /\ StillWaiting
             /\ now < IF cli.receipt THEN cli.progress.deadline ELSE cli.by

ServerOfCli == ServerStep /\ UNCHANGED <<receipt1, cli>>
ActorOfCli == Actor /\ UNCHANGED <<receipt1, cli>>
TickOfCli == Elapse /\ CliSettled /\ UNCHANGED <<receipt1, cli>>

CliNext == Cli \/ ServerOfCli \/ ActorOfCli \/ TickOfCli

CliSpec == CliInit /\ [][CliNext]_cliVars

\* The threads of both ends run and time passes; the network owes nothing.
CliFairSpec ==
    /\ CliSpec
    /\ WF_cliVars(Cli) /\ WF_cliVars(ActorOfCli) /\ WF_cliVars(ServerOfCli)
    /\ SF_cliVars(TickOfCli)

-----------------------------------------------------------------------------
(* Properties *)

\* The command and what it shares with the actor keep their types; only
\* accepted targets are online.
CliTypeOK ==
    /\ ServerTypeOK
    /\ cli.pc \in {"catalog", "wake", "done"}
    /\ cli.progress.online \subseteq cli.progress.accepted
    /\ cli.attempt \in 0..2

\* Exit status 0 only if every requested target was found online by the
\* server in the attempt that was reported (secure.md "CLI/TUI 以原始全部目标
\* 判断成功").
OkIsTrue ==
    cli.result = "ok" => \A h \in cli.hosts : <<cli.attempt, h>> \in probed

\* The command ends and its connection thread with it, whatever the server
\* and the network do: no wait of the session loop is unbounded and the final
\* join is not blocked by what is still queued.
Returned == cli.pc = "done" /\ actor.pc = "gone"
=============================================================================
