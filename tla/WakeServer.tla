----------------------------- MODULE WakeServer -----------------------------
(***************************************************************************)
(* The client actor connected to the server's wake service, for one        *)
(* operation of one client: the operation's ledger record, its dispatch,   *)
(* the monitor of the session (server.rs).  The ledger with many keys,     *)
(* capacity, reads and restarts is the module WakeLedger; here its record  *)
(* is composed with the connection, with requests that outlive it, and     *)
(* with a driver: the terminal UI in WakeTui, the command line in WakeCli. *)
(*                                                                         *)
(* Time: the threads poll every 20 to 250 ms and a unit of time is         *)
(* seconds, so the clock only advances when the polling loops have caught  *)
(* up (Settled); messages, dispatches and connects take time.              *)
(***************************************************************************)
EXTENDS ClientActor, Functions

CONSTANTS
    LedgerTTL,          \* LEDGER_TTL
    PendingTTL,         \* PENDING_LEDGER_TTL
    RetryTTL,           \* RETRY_TTL
    ReceiptTimeout,     \* RECEIPT_TIMEOUT
    RecoveryTimeout,    \* RECOVERY_TIMEOUT
    ConnectTimeout,     \* bound on the time a command waits for the actor
    HoldLimit,          \* bound on one dispatch
    NetDelay,           \* bound on the age of a delivered message
    MaxLosses,          \* bound on broken connections
    MaxTime             \* bound on the clock

\* The compile-time assertions of server.rs, what they assume of the rest, and
\* the limit on the configured skew (config.rs).
ServerAssumption ==
    /\ {LedgerTTL, PendingTTL, RetryTTL, ReceiptTimeout, RecoveryTimeout,
         ConnectTimeout, HoldLimit, NetDelay} \subseteq Nat
    /\ RecoveryTimeout + RetryTTL + ConnectTimeout + ReceiptTimeout < LedgerTTL
    /\ WaitTimeout + NetDelay + NetDelay < RetryTTL
    /\ HoldLimit < PendingTTL
    /\ NetDelay <= ClockSkew /\ ClockSkew <= RetryTTL
    /\ Ops # {}

VARIABLES
    rec,        \* the operation's LedgerEntry, or Absent
    monitor,    \* the session's Monitor, or NoMonitor
    late,       \* requests left in connections the client has given up
    conn,       \* number of the current connection
    losses,     \* connections broken so far
    dispatches, \* history: finished dispatches
    probed      \* history: <<attempt, host>> that a probe found online

serverVars == <<rec, monitor, late, conn, losses, dispatches, probed>>

Op == CHOOSE o \in Ops : TRUE
Absent == [st |-> "none"]
NoMonitor == [conn |-> 0]

ServerInit ==
    /\ now = 0
    /\ ActorInit
    /\ rec = Absent /\ monitor = NoMonitor /\ late = <<>>
    /\ conn = 0 /\ losses = 0
    /\ dispatches = <<>> /\ probed = {}

-----------------------------------------------------------------------------
(* The ledger record (Ledger::begin_wake_attempt1, begin_wake_attempt2,    *)
(* renew_cached_wake, complete).                                           *)

Pruned1 == IF rec.st # "none" /\ rec.expires <= now THEN Absent ELSE rec

Reserved(q) ==
    [st |-> "pending", attempt |-> 1, ticket |-> Len(dispatches) + 1,
     hosts |-> q.hosts, accepted |-> {}, lease |-> now + RetryTTL,
     since |-> now, expires |-> now + PendingTTL, conn |-> 0]

\* Mutant: recovery leaves the retry lease as it was.
Renewed_KeepsLease(r) == r

Renewed(r) == [r EXCEPT !.lease = now + RetryTTL]

\* The record answers a repeated request while it outlives a retry.
Answers(r, q) ==
    /\ r.st = "done"
    /\ r.attempt = q.attempt
    /\ q.attempt = 2 => r.ticket = q.ticket
    /\ r.expires >= now + RetryTTL

\* The request starts a dispatch: a first attempt of an unknown operation, or
\* a second one with the ticket of the first, within its lease.
Starts(r, q) ==
    \/ q.attempt = 1 /\ r.st = "none"
    \/ /\ q.attempt = 2
       /\ r.st = "done" /\ r.attempt = 1 /\ r.ticket = q.ticket /\ r.lease > now

Begun(r, q) ==
    IF q.attempt = 1 THEN Reserved(q)
    ELSE [r EXCEPT !.st = "pending", !.attempt = 2, !.since = now,
                   !.expires = now + PendingTTL]

Completed(r, acc) ==
    [r EXCEPT !.st = "done", !.accepted = acc,
              !.lease = IF r.attempt = 1 THEN now + RetryTTL ELSE @,
              !.expires = now + LedgerTTL]

-----------------------------------------------------------------------------
(* The session *)

Receipt(r) ==
    Executed(Op, r.attempt, r.ticket, r.hosts, r.accepted, now + WaitTimeout)

NewMonitor(r) ==
    IF r.accepted = {} THEN NoMonitor
    ELSE [conn |-> conn, attempt |-> r.attempt, targets |-> r.accepted,
          online |-> {}, deadline |-> now + WaitTimeout]

\* send_response: nothing is delivered on a connection that is gone.
Reply(l, m) == IF l.up THEN [l EXCEPT !.in = Append(@, m)] ELSE l

\* What processing q means for the ledger, and, when it came on the present
\* connection, for that connection l and its monitor.
Process(q, l, present) ==
    LET r == Pruned1 IN
    IF Starts(r, q)
    THEN /\ rec' = [Begun(r, q) EXCEPT !.conn = IF present THEN conn ELSE 0]
         /\ link' = l
         /\ UNCHANGED monitor
    ELSE IF Answers(r, q)
    THEN /\ rec' = Renewed(r)
         /\ link' = IF present THEN Reply(l, Receipt(r)) ELSE l
         /\ monitor' = IF present /\ r.accepted # {} THEN NewMonitor(r) ELSE monitor
    ELSE /\ rec' = r
         /\ link' = IF present THEN Reply(l, Refused(Op)) ELSE l
         /\ UNCHANGED monitor

\* One request of the present connection, also one that was already received
\* when the client closed it.  A request outside the clock skew gets an error
\* and costs the connection.  The requests of a session are handled one at a
\* time, so none while its dispatch is running.
Serve ==
    LET q == Head(link.out)
        l == [link EXCEPT !.out = Tail(@)] IN
    /\ link.out # <<>>
    /\ ~(rec.st = "pending" /\ rec.conn = conn)
    /\ IF InSkew(q.wireTime) THEN Process(q, l, TRUE)
       ELSE /\ link' = [Reply(l, Refused(Op)) EXCEPT !.up = FALSE]
            /\ UNCHANGED <<rec, monitor>>
    /\ UNCHANGED <<now, actor, commands, events, pending,
                   late, conn, losses, dispatches, probed>>

\* A session whose client is gone still handles what it had received.
ServeLate ==
    /\ late # <<>>
    /\ late' = Tail(late)
    /\ IF InSkew(Head(late).wireTime) THEN Process(Head(late), link, FALSE)
       ELSE UNCHANGED <<rec, monitor, link>>
    /\ UNCHANGED <<now, actor, commands, events, pending,
                   conn, losses, dispatches, probed>>

\* The dispatch ends: the targets that took the packet, the receipt, the
\* monitor.  No target is accepted when one of them is in its cooldown.
Finish ==
    /\ rec.st = "pending"
    /\ \E acc \in SUBSET rec.hosts :
          LET r == Completed(rec, acc)
              here == rec.conn = conn /\ link.up IN
          /\ rec' = r
          /\ dispatches' = Append(dispatches, [attempt |-> r.attempt,
                                               accepted |-> acc, at |-> rec.since])
          /\ link' = IF here THEN Reply(link, Receipt(r)) ELSE link
          /\ monitor' = IF here THEN NewMonitor(r) ELSE monitor
    /\ UNCHANGED <<now, actor, commands, events, pending,
                   late, conn, losses, probed>>

\* service_monitors: the monitor lives on its connection, for its attempt.
Watching ==
    /\ monitor.conn = conn /\ conn # 0 /\ link.up
    /\ now < monitor.deadline
    /\ rec.st # "none" /\ rec.attempt = monitor.attempt

\* A probe finds a target online and the session tells the client, once.
Observe ==
    /\ Watching
    /\ ~(rec.st = "pending" /\ rec.conn = conn)
    /\ \E h \in monitor.targets \ monitor.online :
          /\ monitor' = [monitor EXCEPT !.online = @ \cup {h}]
          /\ probed' = probed \cup {<<monitor.attempt, h>>}
          /\ link' = Reply(link, Online(Op, monitor.attempt, h))
    /\ UNCHANGED <<now, actor, commands, events, pending,
                   rec, late, conn, losses, dispatches>>

\* The server ends the session (stop, reload, limits); the client finds out
\* when it next reads.
ServerCloses ==
    /\ link.up /\ losses < MaxLosses
    /\ link' = [link EXCEPT !.up = FALSE]
    /\ losses' = losses + 1
    /\ UNCHANGED <<now, actor, commands, events, pending,
                   rec, monitor, late, conn, dispatches, probed>>

ServerStep == Serve \/ ServeLate \/ Finish \/ Observe \/ ServerCloses

-----------------------------------------------------------------------------
(* The actor and the clock in this composition *)

\* The network breaks a working connection at most MaxLosses times; the
\* client's own rejections and shutdowns are not counted.
Actor ==
    /\ ActorStep
    /\ LET breaks == link.up /\ ~link'.up /\ actor'.pc = "lost" /\ events' = events IN
       /\ breaks => losses < MaxLosses
       /\ losses' = IF breaks THEN losses + 1 ELSE losses
    /\ conn' = IF ~link.up /\ link'.up THEN conn + 1 ELSE conn
    /\ late' = IF ~link.up /\ link'.up THEN late \o link.out ELSE late
    /\ UNCHANGED <<now, rec, monitor, dispatches, probed>>

Oldest(s) == s[1].wireTime

Settled ==
    /\ events = <<>>
    /\ actor.pc \in {"connect", "handshake", "wait", "poll", "gone"}
    /\ actor.pc = "wait" => commands = <<>> /\ now < actor.until
    /\ actor.pc = "poll" => commands = <<>> /\ (link.up \/ link.in # <<>>)
    /\ \A i \in DOMAIN commands :
          actor.pc # "gone" /\ commands[i].kind = "wake"
              => now < commands[i].at + ConnectTimeout
    /\ actor.pc = "poll" /\ link.in # <<>> => now < Oldest(link.in) + NetDelay
    /\ link.up /\ link.out # <<>> => now < Oldest(link.out) + NetDelay
    /\ rec.st = "pending" => now < rec.since + HoldLimit

\* Requests left behind that are all too old to be handled are forgotten.
Elapse ==
    /\ now < MaxTime
    /\ Settled
    /\ now' = now + 1
    /\ late' = IF \E q \in Range(late) : now' - q.wireTime <= ClockSkew THEN late ELSE <<>>
    /\ UNCHANGED <<actorVars, rec, monitor, conn, losses, dispatches, probed>>

-----------------------------------------------------------------------------
(* Properties of the service, whatever the driver *)

ServerTypeOK ==
    /\ rec.st \in {"none", "pending", "done"}
    /\ rec.st # "none" => rec.accepted \subseteq rec.hosts /\ rec.attempt \in 1..2
    /\ monitor # NoMonitor => monitor.online \subseteq monitor.targets

\* Reconnecting, recovering and requests that arrive late never make the
\* server send an attempt's packets twice, and a second attempt follows a
\* first (README "重连恢复只重发回执并恢复在线监控，不重发 WoL").
OncePerAttempt ==
    \A i, j \in DOMAIN dispatches :
        i < j => dispatches[i].attempt < dispatches[j].attempt

=============================================================================
