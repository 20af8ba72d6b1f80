----------------------------- MODULE ClientActor -----------------------------
(***************************************************************************)
(* The client's connection actor (client.rs: client_actor and what it      *)
(* calls).  One thread connects, handshakes, relays commands and checks    *)
(* every event of the server against what it asked on this connection.     *)
(*                                                                         *)
(* This module has the actor's state and steps.  The driver that queues    *)
(* commands and drains events and the server at the other end of `link'    *)
(* are added by the modules that extend it: any driver and any peer in     *)
(* ClientPeer, the server's wake service in WakeServer.                    *)
(*                                                                         *)
(* Directory and status requests share the connection but none of this     *)
(* state; they are the module ClientCatalog.  A connection that breaks, a  *)
(* write timeout and the actor's idle timeout all end run_connected_client *)
(* in the same way and are one action (LinkLost).                          *)
(***************************************************************************)
EXTENDS Integers, Sequences, FiniteSets

CONSTANTS
    Hosts,          \* targets
    Ops,            \* operation ids
    EventCap,       \* capacity of the event queue (256)
    MaxPending,     \* MAX_PENDING_OPERATIONS
    PendingOpTTL,   \* PENDING_OPERATION_TTL
    WaitTimeout,    \* WAKE_WAIT_TIMEOUT = MONITOR_TIMEOUT
    ClockSkew,      \* configured clock skew
    BackOff         \* RECONNECT_DELAYS_SECONDS, a non-empty sequence

ActorAssumption ==
    /\ EventCap \in Nat \ {0} /\ MaxPending \in Nat
    /\ PendingOpTTL \in Nat /\ WaitTimeout \in Nat /\ ClockSkew \in Nat
    /\ BackOff \in Seq(Nat) /\ BackOff # <<>>

VARIABLES
    now,        \* time, one clock for both ends
    actor,      \* [pc, attempt, until]: place, connection attempt, retry time
    commands,   \* driver -> actor, unbounded
    events,     \* actor -> driver, bounded
    pending,    \* operations sent on this connection -> PendingOperation
    link        \* [up, out, in]: the connection and its two directions

actorVars == <<actor, commands, events, pending, link>>

-----------------------------------------------------------------------------
(* Commands, messages, events.  A wake result is its set of hosts and the  *)
(* accepted ones; ticket 0 is None.  wireTime is the envelope's stamp.     *)

Shutdown == [kind |-> "shutdown"]
WakeCmd(o, hs, a, t, at) ==
    [kind |-> "wake", op |-> o, hosts |-> hs, attempt |-> a, ticket |-> t,
     at |-> at]

Request(c) == [op |-> c.op, hosts |-> c.hosts, attempt |-> c.attempt,
               ticket |-> c.ticket, wireTime |-> now]

Executed(o, a, t, hs, acc, dl) ==
    [kind |-> "executed", op |-> o, attempt |-> a, ticket |-> t, hosts |-> hs,
     accepted |-> acc, deadline |-> dl, wireTime |-> now]
Online(o, a, h) ==
    [kind |-> "online", op |-> o, attempt |-> a, host |-> h, wireTime |-> now]
Refused(o) == [kind |-> "error", op |-> o, wireTime |-> now]

Note(kind) == [kind |-> kind]
ReceiptEvent(m) ==
    [kind |-> "receipt", op |-> m.op, attempt |-> m.attempt,
     ticket |-> m.ticket, hosts |-> m.hosts, accepted |-> m.accepted]
OnlineEvent(m) ==
    [kind |-> "online", op |-> m.op, attempt |-> m.attempt, host |-> m.host]

-----------------------------------------------------------------------------
(* The event queue: try_send never waits.                                  *)

Room == Len(events) < EventCap

Post(e) == events' = IF Room THEN Append(events, e) ELSE events

Goto(pc) == actor' = [actor EXCEPT !.pc = pc]

\* The connection is dropped together with what arrived on it and was not read;
\* what was sent may still reach the server.
CloseLink == link' = [link EXCEPT !.up = FALSE, !.in = <<>>]
Closed == [up |-> FALSE, out |-> <<>>, in |-> <<>>]

ActorInit ==
    /\ actor = [pc |-> "announce", attempt |-> 1, until |-> 0]
    /\ commands = <<>>
    /\ events = <<>>
    /\ pending = [o \in {} |-> 0]
    /\ link = Closed

-----------------------------------------------------------------------------
(* client_actor: connecting *)

\* Connecting is announced; without room the thread returns, with no further
\* event.  The name may then fail to resolve.
Announce ==
    /\ actor.pc = "announce"
    /\ Post(Note("connecting"))
    /\ IF Room THEN \E pc \in {"connect", "lost"} : Goto(pc) ELSE Goto("gone")
    /\ UNCHANGED <<commands, pending, link>>

\* Mutant: a shutdown that arrives while connecting is dropped like the rest.
TryEndpoint_DropsAll ==
    /\ actor.pc = "connect"
    /\ commands' = IF commands = <<>> THEN commands ELSE Tail(commands)
    /\ \E pc \in {"handshake", "connect", "lost"} : Goto(pc)
    /\ UNCHANGED <<events, pending, link>>

\* One endpoint of connect_endpoints.  A command is taken off the queue before
\* each try: a shutdown ends the actor, any other command is dropped.
TryEndpoint ==
    /\ actor.pc = "connect"
    /\ commands' = IF commands = <<>> THEN commands ELSE Tail(commands)
    /\ IF commands # <<>> /\ Head(commands).kind = "shutdown"
       THEN Goto("exit")
       ELSE \E pc \in {"handshake", "connect", "lost"} : Goto(pc)
    /\ UNCHANGED <<events, pending, link>>

HandshakeFails ==
    /\ actor.pc = "handshake"
    /\ Goto("lost")
    /\ UNCHANGED <<commands, events, pending, link>>

\* The connection is announced before it is used; the tables of operations
\* belong to one connection.
HandshakeDone ==
    /\ actor.pc = "handshake"
    /\ Post(Note("connected"))
    /\ actor' = IF Room THEN [actor EXCEPT !.pc = "drain", !.attempt = 1]
                        ELSE [actor EXCEPT !.pc = "gone"]
    /\ pending' = [o \in {} |-> 0]
    /\ link' = IF Room THEN [Closed EXCEPT !.up = TRUE] ELSE link
    /\ UNCHANGED commands

-----------------------------------------------------------------------------
(* report_connection_failure, wait_for_reconnect, exit *)

\* reconnect_delay: the delays of the table, then the last one for ever.
ReconnectDelay(n) == IF n <= Len(BackOff) THEN BackOff[n] ELSE BackOff[Len(BackOff)]

ReportFailure ==
    /\ actor.pc = "lost"
    /\ Post(Note("failed"))
    /\ actor' = IF Room
                THEN [actor EXCEPT !.pc = "wait",
                                   !.until = now + ReconnectDelay(actor.attempt)]
                ELSE [actor EXCEPT !.pc = "exit"]
    /\ UNCHANGED <<commands, pending, link>>

\* A wake that arrives while the actor waits is answered with an error.
WaitCommand ==
    /\ actor.pc = "wait" /\ now < actor.until
    /\ commands # <<>>
    /\ commands' = Tail(commands)
    /\ IF Head(commands).kind = "shutdown"
       THEN Goto("exit") /\ UNCHANGED events
       ELSE /\ Post(Note("error"))
            /\ Goto(IF Room THEN "wait" ELSE "exit")
    /\ UNCHANGED <<pending, link>>

\* The attempt number saturates; beyond the table it no longer matters.
WaitOver ==
    /\ actor.pc = "wait" /\ now >= actor.until
    /\ actor' = [actor EXCEPT !.pc = "announce",
                   !.attempt = IF @ <= Len(BackOff) THEN @ + 1 ELSE @]
    /\ UNCHANGED <<commands, events, pending, link>>

Exit ==
    /\ actor.pc = "exit"
    /\ Post(Note("disconnected"))
    /\ Goto("gone")
    /\ UNCHANGED <<commands, pending, link>>

-----------------------------------------------------------------------------
(* run_connected_client *)

Pruned == [o \in {p \in DOMAIN pending : pending[p].expires > now} |-> pending[o]]
Put(f, x, v) == [y \in (DOMAIN f) \cup {x} |-> IF y = x THEN v ELSE f[y]]

\* PendingOperation of a request just sent.
Sent(c) ==
    [hosts |-> c.hosts, attempt |-> c.attempt, ticket |-> c.ticket,
     seen |-> FALSE, accepted |-> {}, online |-> {}, deadline |-> 0,
     expires |-> now + PendingOpTTL]

\* The early returns of a wake command: no targets, too many operations, an
\* older attempt or one that has its receipt.
MaySend(c) ==
    /\ c.hosts # {}
    /\ c.op \in DOMAIN pending \/ Cardinality(DOMAIN pending) < MaxPending
    /\ c.op \in DOMAIN pending =>
          \/ c.attempt > pending[c.op].attempt
          \/ c.attempt = pending[c.op].attempt /\ ~pending[c.op].seen

\* One command of the drain loop.  A send may fail, and on a broken connection
\* it may also succeed locally and be lost.
TakeCommand ==
    LET c == Head(commands) IN
    /\ actor.pc = "drain"
    /\ commands # <<>>
    /\ commands' = Tail(commands)
    /\ \/ /\ c.kind = "shutdown"
          /\ Goto("exit") /\ CloseLink
          /\ UNCHANGED <<events, pending>>
       \/ /\ c.kind = "wake" /\ ~MaySend(c)
          /\ Post(Note("error"))
          /\ IF Room THEN UNCHANGED <<actor, link>> ELSE Goto("exit") /\ CloseLink
          /\ UNCHANGED pending
       \/ /\ c.kind = "wake" /\ MaySend(c)
          /\ pending' = Put(pending, c.op, Sent(c))
          /\ link' = IF link.up
                     THEN [link EXCEPT !.out = Append(@, Request(c))] ELSE link
          /\ UNCHANGED <<actor, events>>
       \/ /\ c.kind = "wake" /\ MaySend(c)
          /\ Goto("lost") /\ CloseLink
          /\ UNCHANGED <<events, pending>>

DrainDone ==
    /\ actor.pc = "drain"
    /\ commands = <<>>
    /\ Goto("poll")
    /\ UNCHANGED <<commands, events, pending, link>>

\* The loop goes round: expired operations are forgotten first.
NextRound(p) ==
    /\ Goto("drain")
    /\ pending' = [o \in {q \in DOMAIN p : p[q].expires > now} |-> p[o]]

\* reject_server_event: the connection is closed and the caller reports it.
Reject ==
    /\ Post(Note("error"))
    /\ Goto("lost") /\ CloseLink
    /\ UNCHANGED pending

\* Mutant: an event that finds the queue full is dropped and nothing else.
Deliver_Drops(e, p) ==
    /\ Post(e)
    /\ NextRound(p) /\ link' = [link EXCEPT !.in = Tail(@)]

\* emit_event: an event that finds the queue full costs the connection, so
\* that the driver hears of a failure instead of missing an event.
Deliver(e, p) ==
    /\ Post(e)
    /\ IF Room THEN NextRound(p) /\ link' = [link EXCEPT !.in = Tail(@)]
       ELSE Goto("lost") /\ pending' = p /\ CloseLink

Ignore(p) ==
    /\ NextRound(p)
    /\ link' = [link EXCEPT !.in = Tail(@)]
    /\ UNCHANGED events

\* Mutant: the targets of a receipt are not compared with those of the request.
ReceiptValid_AnyTargets(m) ==
    /\ m.op \in DOMAIN pending
    /\ m.attempt = pending[m.op].attempt
    /\ m.attempt = 2 => m.ticket = pending[m.op].ticket

\* handle_server_event, CommandExecuted.
ReceiptValid(m) ==
    /\ m.op \in DOMAIN pending
    /\ m.attempt = pending[m.op].attempt
    /\ m.attempt = 2 => m.ticket = pending[m.op].ticket
    /\ m.deadline >= now - ClockSkew
    /\ m.deadline <= now + WaitTimeout + ClockSkew
    /\ m.hosts = pending[m.op].hosts

HandleReceipt(m) ==
    LET p == pending[m.op] IN
    IF ~ReceiptValid(m) THEN Reject
    ELSE IF p.seen
    THEN Ignore([pending EXCEPT ![m.op].deadline = m.deadline])
    ELSE Deliver(ReceiptEvent(m),
                 [pending EXCEPT ![m.op] =
                     [p EXCEPT !.ticket = IF m.attempt = 1 THEN m.ticket ELSE @,
                               !.accepted = m.accepted, !.seen = TRUE,
                               !.deadline = m.deadline]])

\* Mutant: any target of the request may come online.
OnlineValid_AnyTarget(m) ==
    /\ m.op \in DOMAIN pending
    /\ m.attempt = pending[m.op].attempt
    /\ m.host \in pending[m.op].hosts

\* handle_server_event, TargetOnline, with observation_time_valid; the server
\* stamps the observation when it sends the event.
OnlineValid(m) ==
    /\ m.op \in DOMAIN pending
    /\ m.attempt = pending[m.op].attempt
    /\ pending[m.op].seen
    /\ m.host \in pending[m.op].accepted
    /\ m.wireTime <= now + ClockSkew
    /\ m.wireTime >= now - WaitTimeout - ClockSkew
    /\ m.wireTime <= pending[m.op].deadline
    /\ now <= pending[m.op].deadline + ClockSkew

HandleOnline(m) ==
    IF ~OnlineValid(m) THEN Reject
    ELSE IF m.host \in pending[m.op].online THEN Ignore(pending)
    ELSE Deliver(OnlineEvent(m),
                 [pending EXCEPT ![m.op].online = @ \cup {m.host}])

HandleError(m) ==
    IF m.op \notin DOMAIN pending THEN Reject ELSE Deliver(Note("error"), pending)

InSkew(t) == t - now <= ClockSkew /\ now - t <= ClockSkew

\* poll_server_envelope delivers one message or none.
PollMessage ==
    LET m == Head(link.in) IN
    /\ actor.pc = "poll"
    /\ link.in # <<>>
    /\ IF ~InSkew(m.wireTime) THEN Reject
       ELSE \/ m.kind = "executed" /\ HandleReceipt(m)
            \/ m.kind = "online" /\ HandleOnline(m)
            \/ m.kind = "error" /\ HandleError(m)
    /\ UNCHANGED commands

PollNothing ==
    /\ actor.pc = "poll"
    /\ link.in = <<>> /\ link.up
    /\ NextRound(pending)
    /\ UNCHANGED <<commands, events, link>>

\* Lost: the transport fails, with or without messages left in it, or the
\* connection has been idle for CLIENT_IDLE_TIMEOUT.
LinkLost ==
    /\ actor.pc = "poll"
    /\ Goto("lost") /\ CloseLink
    /\ UNCHANGED <<commands, events, pending>>

ActorStep ==
    \/ Announce \/ TryEndpoint \/ HandshakeFails \/ HandshakeDone
    \/ ReportFailure \/ WaitCommand \/ WaitOver \/ Exit
    \/ TakeCommand \/ DrainDone \/ PollMessage \/ PollNothing \/ LinkLost

ConnectionEvents == {"connecting", "connected", "failed", "disconnected"}

ActorPlaces == {"announce", "connect", "handshake", "drain", "poll", "lost", "wait", "exit", "gone"}

-----------------------------------------------------------------------------
(* Types *)

Commands ==
    {Shutdown} \cup [kind : {"wake"}, op : Ops, hosts : SUBSET Hosts, attempt : {1, 2},
                     ticket : Nat, at : Nat]
Sendable == [op : Ops, hosts : SUBSET Hosts, attempt : {1, 2}, ticket : Nat, wireTime : Nat]
Receivable ==
    {m \in [kind : {"executed"}, op : Ops, attempt : {1, 2}, ticket : Nat, hosts : SUBSET Hosts,
            accepted : SUBSET Hosts, deadline : Nat, wireTime : Nat] : m.accepted \subseteq m.hosts}
    \cup [kind : {"online"}, op : Ops, attempt : {1, 2}, host : Hosts, wireTime : Nat]
    \cup [kind : {"error"}, op : Ops, wireTime : Nat]
Remarks == {Note(kind) : kind \in ConnectionEvents \cup {"error"}}
Replies ==
    [kind : {"receipt"}, op : Ops, attempt : {1, 2}, ticket : Nat, hosts : SUBSET Hosts,
     accepted : SUBSET Hosts]
    \cup [kind : {"online"}, op : Ops, attempt : {1, 2}, host : Hosts]
Operations ==
    {p \in [hosts : SUBSET Hosts, attempt : {1, 2}, ticket : Nat, seen : BOOLEAN,
            accepted : SUBSET Hosts, online : SUBSET Hosts, deadline : Nat, expires : Nat] :
        p.accepted \subseteq p.hosts}
Actors == [pc : ActorPlaces, attempt : Nat \ {0}, until : Nat]
Links == [up : BOOLEAN, out : Seq(Sendable), in : Seq(Receivable)]
Tables(p) == DOMAIN p \subseteq Ops /\ p \in [DOMAIN p -> Operations]

-----------------------------------------------------------------------------

Connected == actor.pc \in {"drain", "poll"}

\* Queueing a command: mpsc send fails once the actor is gone.
Send(c) == commands' = Append(commands, c)

=============================================================================
