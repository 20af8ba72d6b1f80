------------------------------ MODULE FrontEnds ------------------------------
(***************************************************************************)
(* The client program: it runs either the terminal UI or the wake command  *)
(* (main.rs), each with the client actor and the server.  The variables of *)
(* the front end that does not run keep their initial values.              *)
(***************************************************************************)
EXTENDS WakeTui, WakeCli

VARIABLE mode       \* "ui" or "command": how the program was started

frontVars == <<mode, now, actorVars, serverVars, receipt1, tuiOwn, cli>>

FrontInit == mode \in {"ui", "command"} /\ TuiInit /\ CliInit

InTui == mode = "ui" /\ UNCHANGED <<mode, cli>>
InCli == mode = "command" /\ UNCHANGED <<mode, tuiOwn>>

FrontNext == (InTui /\ TuiNext) \/ (InCli /\ CliNext)

FrontSpec == FrontInit /\ [][FrontNext]_frontVars

\* The fairness of TuiFairSpec and of CliFairSpec.
FrontFairness ==
    /\ WF_frontVars((InTui /\ Ui) \/ (InCli /\ Cli))
    /\ WF_frontVars((InTui /\ ActorInUi) \/ (InCli /\ ActorOfCli))
    /\ WF_frontVars((InTui /\ ServerInUi) \/ (InCli /\ ServerOfCli))
    /\ SF_frontVars((InTui /\ TickInUi) \/ (InCli /\ TickOfCli))

-----------------------------------------------------------------------------
(* Properties *)

\* Packets go out once per attempt, whatever is lost and sent again; a second
\* attempt is dispatched only after the front end held a receipt of the first
\* for the whole wait; and a recovered receipt does not restart that wait
\* (wake.rs Progress::receive; README "只有客户端收到执行回执、等待 60 秒仍未上
\* 线后").
RetryAfterWait ==
    /\ OncePerAttempt /\ RetriedAfterWait
    /\ TuiTypeOK /\ CountdownKept
    /\ CliTypeOK

\* Success is shown, or returned as exit status 0, only if every requested
\* target was found online in the attempt that is reported; a partly rejected
\* wake is never a success (secure.md "CLI/TUI 以原始全部目标判断成功").
OutcomeIsTrue == CompleteIsTrue /\ OkIsTrue

\* A wake ends, whatever the connection does and even if the server never
\* answers: in the UI by its deadlines while connected and by the recovery
\* window else; the command returns and its connection thread is gone.
WakeEnds ==
    LET Running == IF mode = "ui" THEN InProgress ELSE ~Returned
    IN Running ~> ~Running
-----------------------------------------------------------------------------
(* The inductive invariant *)

Records ==
    {r \in [st : {"pending", "done"}, attempt : {1, 2}, ticket : Nat, hosts : SUBSET Hosts,
            accepted : SUBSET Hosts, lease : Nat, since : Nat, expires : Nat, conn : Nat] :
        r.accepted \subseteq r.hosts}
Monitors ==
    {m \in [conn : Nat, attempt : {1, 2}, targets : SUBSET Hosts, online : SUBSET Hosts,
            deadline : Nat] : m.online \subseteq m.targets}
Dispatched == [attempt : {1, 2}, accepted : SUBSET Hosts, at : Nat]
Progresses ==
    {p \in [created : Nat, accepted : SUBSET Hosts, online : SUBSET Hosts,
            started : Nat \cup {-1}, deadline : Nat] : p.online \subseteq p.accepted}
Wakes ==
    [hosts : Selections, attempt : {1, 2}, ticket : Nat, receipt : BOOLEAN, finished : BOOLEAN,
     progress : Progresses, receiptDeadline : Nat, deadline : Nat]

ServiceTyped ==
    /\ now \in Nat /\ actor \in Actors /\ link \in Links
    /\ commands \in Seq(Commands) /\ events \in Seq(Remarks \cup Replies)
    /\ late \in Seq(Sendable) /\ dispatches \in Seq(Dispatched)
    /\ rec \in Records \cup {Absent} /\ monitor \in Monitors \cup {NoMonitor}
    /\ conn \in Nat /\ losses \in Nat

DriverTyped ==
    /\ receipt1 \in Nat \cup {-1}
    /\ wake \in Wakes \cup {NoWake}
    /\ ui \in [screen : {"hosts", "wake", "connect"},
               phase : {"connecting", "connected", "failed", "disconnected"},
               wakePhase : {"none", "sending", "retrying", "waiting", "complete", "partial",
                            "failed"},
               client : BOOLEAN, started : BOOLEAN]
    /\ retry \in {"none", "sent", "lost", "refused"}
    /\ cli \in [pc : {"catalog", "wake", "done"}, hosts : Selections, ready : BOOLEAN,
                attempt : 0..2, ticket : Nat, receipt : BOOLEAN, progress : Progresses,
                by : Nat, result : {"none", "ok", "error"}]

Queued == {c \in Range(commands) : c.kind = "wake"}
Underway == Range(link.out) \cup Range(late)

\* One front end runs, and before it asks for a wake there is none.
OneWake ==
    /\ mode = "ui" => cli.attempt = 0
    /\ mode = "command" => ~ui.started
    /\ ~ui.started => wake = NoWake /\ retry = "none"
    /\ cli.pc = "catalog" => cli.attempt = 0 /\ ~cli.receipt
    /\ cli.pc = "wake" => cli.attempt # 0
    /\ ~ui.started /\ cli.attempt = 0 =>
          /\ Queued = {} /\ Underway = {}
          /\ rec = Absent /\ dispatches = <<>> /\ receipt1 = -1

\* What is on its way to the user, or shown, was found by a probe.
OnlineProbed ==
    /\ \A m \in Range(link.in) : m.kind = "online" => <<m.attempt, m.host>> \in probed
    /\ \A e \in Range(events) : e.kind = "online" => <<e.attempt, e.host>> \in probed
    /\ wake # NoWake => \A h \in wake.progress.online : <<wake.attempt, h>> \in probed
    /\ \A h \in cli.progress.online : <<cli.attempt, h>> \in probed

EndsKept ==
    /\ wake # NoWake /\ ui.wakePhase \in {"complete", "partial"} =>
          /\ wake.finished /\ wake.progress.accepted \subseteq wake.progress.online
          /\ ui.wakePhase = "complete" <=> wake.hosts \subseteq wake.progress.online
    /\ cli.result = "ok" => cli.pc = "done" /\ cli.hosts \subseteq cli.progress.online

\* The wait of the first attempt is over.
Due == receipt1 # -1 /\ now >= receipt1 + WaitTimeout

SecondIsDue ==
    /\ \A x \in Queued \cup Underway : x.attempt = 2 => Due
    /\ wake.attempt = 2 \/ cli.attempt = 2 => Due
    /\ rec.st # "none" /\ rec.attempt = 2 => Due /\ rec.since >= receipt1 + WaitTimeout
    /\ RetriedAfterWait

\* The countdown of a first attempt runs from the first receipt.
Counts(p, receipt) ==
    /\ p.started = receipt1
    /\ receipt1 # -1 => p.deadline = receipt1 + WaitTimeout
    /\ receipt => receipt1 # -1
CountsDown ==
    /\ InProgress /\ wake.attempt = 1 =>
          /\ Counts(wake.progress, wake.receipt)
          /\ wake.receipt => wake.deadline = wake.progress.deadline
    /\ cli.pc = "wake" /\ cli.attempt = 1 => Counts(cli.progress, cli.receipt)

\* A request waits for the actor, and a dispatch for the network, only so long;
\* dispatches are the attempts in their order.
InTurn ==
    /\ actor.pc # "gone" => \A c \in Queued : now <= c.at + ConnectTimeout
    /\ rec.st = "pending" =>
          /\ now <= rec.since + HoldLimit /\ rec.expires = rec.since + PendingTTL
          /\ Len(dispatches) = rec.attempt - 1
    /\ rec.st = "done" => Len(dispatches) = rec.attempt
    /\ Len(dispatches) <= 2
    /\ \A i \in DOMAIN dispatches : dispatches[i].attempt = i

\* A wake that began at c: no request for its first attempt is handled after
\* its record expired.
BeganAt(c) ==
    /\ \A x \in Queued : x.attempt = 1 => x.at <= c + RecoveryTimeout
    /\ \A q \in Underway :
          q.attempt = 1 => q.wireTime <= c + RecoveryTimeout + ConnectTimeout
    /\ rec.st = "none" => dispatches = <<>> \/ now >= c + LedgerTTL
    /\ rec.st = "done" => rec.expires >= c + LedgerTTL
    /\ InProgress /\ wake.attempt = 1 => wake.progress.created = c

\* The first ticket is the only one.
OneTicket ==
    /\ rec.st # "none" => rec.ticket = 1
    /\ \A m \in Range(link.in) : m.kind = "executed" => m.ticket = 1
    /\ \A e \in Range(events) : e.kind = "receipt" => e.ticket = 1
    /\ \A x \in Queued \cup Underway : x.attempt = 2 => x.ticket = 1
    /\ wake # NoWake /\ (wake.receipt \/ wake.attempt = 2) => wake.ticket = 1
    /\ cli.receipt \/ cli.attempt = 2 => cli.ticket = 1

WaitInv ==
    /\ ServiceTyped /\ DriverTyped /\ OneWake
    /\ SecondIsDue /\ CountsDown /\ InTurn /\ OneTicket
    /\ \E c \in 0..now : BeganAt(c)

OutcomeInv == ServiceTyped /\ DriverTyped /\ OneWake /\ OnlineProbed /\ EndsKept

Places ==
    /\ link.up => actor.pc \in {"drain", "poll"}
    /\ ui.screen = "connect" => actor.pc = "gone"
    /\ \A e \in Range(events) : e.kind = "disconnected" => actor.pc = "gone"
    /\ InProgress => ui.screen = "wake"

\* Messages arrive in order and within NetDelay.
InOrder(s) == \A i, j \in DOMAIN s : i <= j => s[i].wireTime <= s[j].wireTime
Prompt ==
    /\ InOrder(link.in) /\ InOrder(link.out)
    /\ \A m \in Range(link.in) \cup Range(link.out) : m.wireTime <= now
    /\ actor.pc \in {"drain", "poll"} =>
          \A m \in Range(link.in) : now <= m.wireTime + NetDelay
    /\ link.up => \A q \in Range(link.out) : now <= q.wireTime + NetDelay
    /\ receipt1 <= now

\* A receipt made at t: for RetryTTL the record takes a second attempt.
Second == Len(dispatches) = 2 \/ (rec.st # "none" /\ rec.attempt = 2)
Covers(t) ==
    \/ Second \/ now >= t + RetryTTL
    \/ /\ rec.st = "done" /\ rec.attempt = 1
       /\ rec.lease >= t + RetryTTL /\ rec.expires >= t + RetryTTL
WithinWait(x) == \E t \in 0..now : Covers(t) /\ x <= t + NetDelay + WaitTimeout

ReceiptsCover ==
    /\ \A m \in Range(link.in) :
          m.kind = "executed" /\ m.attempt = 1 => Covers(m.wireTime)
    /\ \A e \in Range(events) :
          e.kind = "receipt" /\ e.attempt = 1 =>
              \E t \in 0..now : Covers(t) /\ now <= t + NetDelay
    /\ /\ InProgress /\ wake.attempt = 1 /\ wake.receipt
       /\ ui.phase = "connected" /\ actor.pc # "gone"
       => \E t \in 0..now : /\ Covers(t) /\ now <= t + NetDelay + WaitTimeout
                            /\ wake.deadline <= t + NetDelay + WaitTimeout

\* A retry that was sent on the present connection is alone, and in time.
SecondCmds == {i \in DOMAIN commands : commands[i].kind = "wake" /\ commands[i].attempt = 2}
SecondReqs == {i \in DOMAIN link.out : link.out[i].attempt = 2}
NoSecond ==
    /\ \A x \in Queued \cup Underway : x.attempt # 2
    /\ ~Second /\ wake.attempt # 2
OnItsWay ==
    /\ link.up
    /\ \A e \in Range(events) : e.kind # "connected"
    /\ \A q \in Range(late) : q.attempt # 2
    /\ SecondCmds = {} \/ SecondReqs = {}
    /\ \A i, j \in SecondCmds : i = j
    /\ \A i, j \in SecondReqs : i = j
    /\ SecondCmds # {} => ~Second /\ WithinWait(now)
    /\ \A i \in SecondReqs : ~Second /\ WithinWait(link.out[i].wireTime)
RetryKept ==
    /\ mode = "ui" /\ retry = "none" => NoSecond
    /\ retry # "none" => wake.attempt # 1
    /\ retry = "sent" => OnItsWay
    /\ retry # "refused"

RetryInv == WaitInv /\ Places /\ Prompt /\ ReceiptsCover /\ RetryKept
=============================================================================
