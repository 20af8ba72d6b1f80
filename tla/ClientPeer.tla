----------------------------- MODULE ClientPeer -----------------------------
(***************************************************************************)
(* The client actor between a driver that may queue any command and read   *)
(* events as slowly as it likes, and an authenticated peer that may send   *)
(* any well-formed message at any time.  What the actor lets through to    *)
(* the driver must make sense whatever the peer does.                      *)
(***************************************************************************)
EXTENDS ClientActor

CONSTANTS
    Asks,           \* the driver's choices of attempt and ticket
    Labels,         \* the peer's choices of attempt and ticket for a receipt
    Deadlines,      \* how far ahead a receipt may put the end of its monitor
    MaxTime,        \* bound on the clock
    MaxWakes,       \* bound on the wake commands the driver queues
    MaxMessages,    \* bound on the peer's messages
    MaxLinks,       \* bound on the connections made
    MayShutdown     \* whether the driver shuts the actor down

PeerAssumption ==
    /\ ActorAssumption
    /\ Asks \subseteq {1, 2} \X Nat /\ Labels \subseteq {1, 2} \X Nat
    /\ Deadlines \subseteq Nat

VARIABLES
    budget,     \* [wakes, messages, links, quit]: what the environment has used
    view,       \* the last connection state the driver was told
    told        \* history: receipts and online events of this connection

peerVars == <<now, actorVars, budget, view, told>>

\* A receipt has at least one result, accepted or not; its targets may be the
\* ones that were asked for or any others.
Results == {r \in (SUBSET Hosts) \X (SUBSET Hosts) : r[2] \subseteq r[1] /\ r[1] # {}}
Messages ==
    {Executed(o, l[1], l[2], r[1], r[2], now + d) :
        o \in Ops, l \in Labels, r \in Results, d \in Deadlines}
    \cup {Online(o, a, h) : o \in Ops, a \in 1..2, h \in Hosts}
    \cup {Refused(o) : o \in Ops}

PeerInit ==
    /\ now = 0
    /\ ActorInit
    /\ budget = [wakes |-> 0, messages |-> 0, links |-> 0, quit |-> FALSE]
    /\ view = "connecting"
    /\ told = <<>>

QueueWake ==
    /\ budget.wakes < MaxWakes /\ ~budget.quit
    /\ \E o \in Ops, hs \in (SUBSET Hosts) \ {{}}, w \in Asks :
          Send(WakeCmd(o, hs, w[1], w[2], 0))
    /\ budget' = [budget EXCEPT !.wakes = @ + 1]
    /\ UNCHANGED <<now, actor, events, pending, link, view, told>>

\* ClientHandle::shutdown: the driver then only joins the thread.
Quit ==
    /\ MayShutdown /\ ~budget.quit
    /\ Send(Shutdown)
    /\ budget' = [budget EXCEPT !.quit = TRUE]
    /\ UNCHANGED <<now, actor, events, pending, link, view, told>>

Read ==
    /\ events # <<>> /\ ~budget.quit
    /\ events' = Tail(events)
    /\ view' = IF Head(events).kind \in ConnectionEvents
               THEN Head(events).kind ELSE view
    /\ UNCHANGED <<now, actor, commands, pending, link, budget, told>>

\* One message at a time is on its way, sent when the actor polls: the order
\* and the choice of messages are the peer's, and it may still be late.
PeerSends ==
    /\ link.up /\ link.in = <<>> /\ actor.pc = "poll"
    /\ budget.messages < MaxMessages
    /\ \E m \in Messages : link' = [link EXCEPT !.in = Append(@, m)]
    /\ budget' = [budget EXCEPT !.messages = @ + 1]
    /\ UNCHANGED <<now, actor, commands, events, pending, view, told>>

Tick ==
    /\ now < MaxTime
    /\ now' = now + 1
    /\ UNCHANGED <<actorVars, budget, view, told>>

\* An actor's step posts at most one event.
Told ==
    IF Len(events') = Len(events) THEN told
    ELSE IF events'[Len(events')].kind = "connected" THEN <<>>
    ELSE IF events'[Len(events')].kind \in {"receipt", "online"}
    THEN Append(told, events'[Len(events')]) ELSE told

Actor ==
    /\ ActorStep
    /\ actor.pc = "announce" => budget.links < MaxLinks \/ budget.quit
    /\ told' = Told
    /\ budget' = IF actor.pc = "announce" /\ budget.links < MaxLinks
                 THEN [budget EXCEPT !.links = @ + 1] ELSE budget
    /\ UNCHANGED <<now, view>>

PeerNext == QueueWake \/ Quit \/ Read \/ PeerSends \/ Tick \/ Actor

PeerSpec == PeerInit /\ [][PeerNext]_peerVars

\* The actor's thread runs, except that it may find a connection that keeps
\* working: nothing is assumed of LinkLost.
ActorRuns ==
    \/ Announce \/ TryEndpoint \/ HandshakeFails \/ HandshakeDone
    \/ ReportFailure \/ WaitCommand \/ WaitOver \/ Exit
    \/ TakeCommand \/ DrainDone \/ PollMessage \/ PollNothing
PeerFairSpec ==
    PeerSpec /\ WF_peerVars(Actor /\ ActorRuns) /\ WF_peerVars(Tick)

-----------------------------------------------------------------------------
(* Properties *)

\* The actor, its queues and its pending operations keep their types, the event
\* queue within its capacity, accepted targets within the requested ones.
PeerTypeOK ==
    /\ actor.pc \in ActorPlaces
    /\ Len(events) <= EventCap
    /\ DOMAIN pending \subseteq Ops
    /\ \A o \in DOMAIN pending : pending[o].accepted \subseteq pending[o].hosts

LastReceipt(o, i) ==
    LET r == {j \in 1..(i - 1) : told[j].kind = "receipt" /\ told[j].op = o}
    IN  IF r = {} THEN 0 ELSE CHOOSE j \in r : \A k \in r : k <= j

\* A request of this operation with the attempt and targets of x was sent, and a
\* retry with its ticket.
WasSent(o, x) ==
    \E j \in DOMAIN link.out :
        /\ link.out[j].op = o
        /\ link.out[j].attempt = x.attempt
        /\ link.out[j].hosts = x.hosts
        /\ x.attempt = 2 => link.out[j].ticket = x.ticket

\* Whatever the peer sends, the driver only hears answers to what was sent on
\* this connection: a receipt names a request's attempt, targets and, for a
\* retry, its ticket; a host comes online only after a receipt of the same
\* attempt accepted it, and only once (handle_server_event).
ToldAnswers ==
    \A i \in DOMAIN told :
        LET e == told[i] IN
        /\ e.kind = "receipt" => WasSent(e.op, e)
        /\ e.kind = "online" =>
              /\ LastReceipt(e.op, i) # 0
              /\ told[LastReceipt(e.op, i)].attempt = e.attempt
              /\ e.host \in told[LastReceipt(e.op, i)].accepted
              /\ \A k \in (LastReceipt(e.op, i) + 1)..(i - 1) : told[k] # e

\* Attempts reach the server in order: while an operation is remembered no
\* older attempt of it is sent after a newer one, however the driver queues
\* them ("already completed or out of order").
AttemptsInOrder ==
    \A i, j \in DOMAIN link.out :
        /\ i < j
        /\ link.out[i].op = link.out[j].op
        /\ link.out[j].wireTime < link.out[i].wireTime + PendingOpTTL
        => link.out[i].attempt <= link.out[j].attempt

\* Both directions of the relay make sense, whatever the peer and the driver do:
\* what the driver hears answers what was sent on this connection, and attempts
\* go out in order (handle_server_event, send_wake).
OnlyAnswers == PeerTypeOK /\ ToldAnswers /\ AttemptsInOrder

\* No receipt is lost between the actor and a slow driver: an operation the
\* actor counts as answered has its receipt in the queue or delivered, because
\* an event that finds the queue full ends the connection (emit_event).
SeenWasTold ==
    Connected => \A o \in DOMAIN pending : pending[o].seen =>
        \E i \in DOMAIN told :
            /\ told[i].kind = "receipt" /\ told[i].op = o
            /\ told[i].attempt = pending[o].attempt

Reported ==
    LET q == {i \in DOMAIN events : events[i].kind \in ConnectionEvents}
    IN  IF q = {} THEN view
        ELSE events[CHOOSE i \in q : \A j \in q : j <= i].kind

\* A driver that reads all events knows where the actor is: it believes in a
\* connection exactly while there is one or its loss is about to be reported.
PhaseReported ==
    /\ Connected => Reported = "connected"
    /\ actor.pc = "wait" => Reported = "failed"
    /\ actor.pc \in {"connect", "handshake"} => Reported = "connecting"

\* No event is lost between the actor and a slow driver, of an answer or of the
\* connection (emit_event).
AnsweredWasTold == SeenWasTold /\ PhaseReported

\* A shutdown is obeyed from every place of the actor, so that the join in
\* ClientHandle::shutdown returns; other queued commands do not delay it for
\* ever and a full event queue does not block it.
ShutdownEnds == budget.quit ~> actor.pc = "gone"

-----------------------------------------------------------------------------
(* The inductive strengthening *)

PeerTyped ==
    /\ now \in Nat
    /\ actor \in Actors
    /\ commands \in Seq(Commands)
    /\ events \in Seq(Remarks \cup Replies) /\ Len(events) <= EventCap
    /\ Tables(pending)
    /\ link \in Links
    /\ told \in Seq(Replies)

\* The last receipt of o before place i of what was told is at r.
LastIs(o, r, i) ==
    /\ r \in 1..(i - 1) /\ told[r].kind = "receipt" /\ told[r].op = o
    /\ \A k \in (r + 1)..(i - 1) : ~(told[k].kind = "receipt" /\ told[k].op = o)

\* What was told answers what was sent, with the last receipts made explicit.
ToldSound ==
    \A i \in DOMAIN told :
        LET e == told[i] IN
        /\ e.kind = "receipt" => WasSent(e.op, e)
        /\ e.kind = "online" =>
              \E r \in 1..Len(told) :
                  /\ LastIs(e.op, r, i)
                  /\ told[r].attempt = e.attempt /\ e.host \in told[r].accepted
                  /\ \A k \in (r + 1)..(i - 1) : told[k] # e

\* What the actor remembers of an operation is what was sent and told.
ReceiptTold(o, x) ==
    \E r \in 1..Len(told) :
        /\ LastIs(o, r, Len(told) + 1)
        /\ told[r].attempt = x.attempt /\ told[r].accepted = x.accepted
        /\ \A k \in (r + 1)..Len(told) :
              told[k].kind = "online" /\ told[k].op = o => told[k].host \in x.online
Remembered(p) ==
    \A o \in DOMAIN p : WasSent(o, p[o]) /\ (p[o].seen => ReceiptTold(o, p[o]))

\* What was sent lately is remembered, with no smaller attempt.
LatelySent(p) ==
    \A i \in DOMAIN link.out :
        LET q == link.out[i] IN
        /\ q.wireTime <= now
        /\ now < q.wireTime + PendingOpTTL =>
              /\ q.op \in DOMAIN p /\ q.attempt <= p[q.op].attempt
              /\ q.wireTime + PendingOpTTL <= p[q.op].expires

\* The last connection event of the queue, or of the driver, is v.
LastHeard(v) ==
    \/ view = v /\ \A i \in DOMAIN events : events[i].kind \notin ConnectionEvents
    \/ \E i \in DOMAIN events :
          /\ events[i].kind = v /\ v \in ConnectionEvents
          /\ \A j \in DOMAIN events : j > i => events[j].kind \notin ConnectionEvents
PhaseHeard ==
    /\ Connected => LastHeard("connected")
    /\ actor.pc = "wait" => LastHeard("failed")
    /\ actor.pc \in {"connect", "handshake"} => LastHeard("connecting")

PeerInv ==
    /\ PeerTyped /\ ToldSound /\ AttemptsInOrder /\ PhaseHeard
    /\ Connected => link.up /\ Remembered(pending) /\ LatelySent(pending)

=============================================================================
