--------------------------- MODULE FrontEndProofs ---------------------------
(***************************************************************************)
(* Proofs about a wake from the client program to the server and back      *)
(* (FrontEnds): what the user is told is true (OutcomeInv), packets go out *)
(* once per attempt and the second time only after the wait (WaitInv), and *)
(* a client that waited as told is not refused its retry (RetryInv).       *)
(*                                                                         *)
(* The steps of the actor, of the server and of the front ends are first   *)
(* summed up: what each of them does to the queues and to the connection.  *)
(***************************************************************************)
EXTENDS FrontEnds, SequenceTheorems, TLAPS

FrontAssumption == ActorAssumption /\ ServerAssumption /\ CommandAssumption

-----------------------------------------------------------------------------
(* Queues *)

\* The entries of a queue that grew by one.
LEMMA RangeAppend ==
    ASSUME NEW S, NEW s \in Seq(S), NEW x \in S
    PROVE  /\ Append(s, x) \in Seq(S) /\ Append(s, x) # <<>>
           /\ Range(Append(s, x)) = Range(s) \cup {x}
           /\ DOMAIN Append(s, x) = DOMAIN s \cup {Len(s) + 1} /\ Len(s) + 1 \notin DOMAIN s
           /\ \A i \in DOMAIN s : i < Len(s) + 1
           /\ Append(s, x)[Len(s) + 1] = x
           /\ \A k \in DOMAIN s : Append(s, x)[k] = s[k]
  <1>1. Len(s) \in Nat /\ DOMAIN s = 1..Len(s)
    BY LenProperties
  <1>2. /\ Append(s, x) \in Seq(S) /\ Len(Append(s, x)) = Len(s) + 1
        /\ \A i \in 1..Len(s) : Append(s, x)[i] = s[i]
        /\ Append(s, x)[Len(s) + 1] = x
    BY AppendProperties
  <1>3. DOMAIN Append(s, x) = 1..(Len(s) + 1)
    BY <1>2, LenProperties
  <1>4. DOMAIN Append(s, x) = DOMAIN s \cup {Len(s) + 1} /\ Len(s) + 1 \notin DOMAIN s
    BY <1>1, <1>3
  <1>5. Range(Append(s, x)) = Range(s) \cup {x}
    BY <1>1, <1>2, <1>4 DEF Range
  <1>6. Append(s, x) # <<>>
    BY <1>1, <1>2, EmptySeq
  <1> QED
    BY <1>1, <1>2, <1>4, <1>5, <1>6

\* The entries of a queue without its head.
LEMMA RangeTail ==
    ASSUME NEW S, NEW s \in Seq(S), s # <<>>
    PROVE  /\ Tail(s) \in Seq(S) /\ Head(s) \in S
           /\ Range(s) = {Head(s)} \cup Range(Tail(s))
           /\ 1 \in DOMAIN s /\ Head(s) = s[1]
           /\ \A k \in DOMAIN Tail(s) :
                 k \in Nat \ {0} /\ k + 1 \in DOMAIN s /\ Tail(s)[k] = s[k + 1]
  <1>1. Len(s) \in Nat /\ Len(s) # 0 /\ DOMAIN s = 1..Len(s)
    BY EmptySeq
  <1>2. /\ Tail(s) \in Seq(S) /\ Len(Tail(s)) = Len(s) - 1
        /\ \A i \in 1..Len(Tail(s)) : Tail(s)[i] = s[i + 1]
        /\ Head(s) = s[1]
    BY HeadTailProperties
  <1>3. DOMAIN Tail(s) = 1..(Len(s) - 1)
    BY <1>2, LenProperties
  <1>4. s[1] \in S
    BY <1>1, ElementOfSeq
  <1>5. \A k \in DOMAIN Tail(s) :
           k \in Nat \ {0} /\ k + 1 \in DOMAIN s /\ Tail(s)[k] = s[k + 1]
    BY <1>1, <1>2, <1>3
  <1>6. \A k \in DOMAIN s : k = 1 \/ (k - 1 \in DOMAIN Tail(s) /\ Tail(s)[k - 1] = s[k])
    BY <1>1, <1>2, <1>3
  <1>7. Range(s) \subseteq {Head(s)} \cup Range(Tail(s))
    <2> SUFFICES ASSUME NEW k \in DOMAIN s PROVE s[k] \in {Head(s)} \cup Range(Tail(s))
      BY DEF Range
    <2> QED
      BY <1>2, <1>6 DEF Range
  <1>8. Range(Tail(s)) \subseteq Range(s) /\ Head(s) \in Range(s)
    <2>1. 1 \in DOMAIN s
      BY <1>1
    <2> QED
      BY <1>2, <1>5, <2>1 DEF Range
  <1> QED
    BY <1>1, <1>2, <1>4, <1>5, <1>7, <1>8

\* The entries of two queues in a row.
LEMMA RangeConcat ==
    ASSUME NEW S, NEW s \in Seq(S), NEW t \in Seq(S)
    PROVE  s \o t \in Seq(S) /\ Range(s \o t) = Range(s) \cup Range(t)
  <1>1. Len(s) \in Nat /\ DOMAIN s = 1..Len(s) /\ Len(t) \in Nat /\ DOMAIN t = 1..Len(t)
    BY LenProperties
  <1>2. /\ s \o t \in Seq(S) /\ Len(s \o t) = Len(s) + Len(t)
        /\ \A i \in 1..(Len(s) + Len(t)) :
              (s \o t)[i] = IF i <= Len(s) THEN s[i] ELSE t[i - Len(s)]
    BY ConcatProperties
  <1>3. DOMAIN (s \o t) = 1..(Len(s) + Len(t))
    BY <1>2, LenProperties
  <1> DEFINE u == s \o t
             n == Len(s)
             m == Len(t)
  <1>4. /\ n \in Nat /\ m \in Nat /\ DOMAIN s = 1..n /\ DOMAIN t = 1..m /\ DOMAIN u = 1..(n + m)
        /\ \A i \in 1..(n + m) : u[i] = IF i <= n THEN s[i] ELSE t[i - n]
    BY <1>1, <1>2, <1>3
  <1> HIDE DEF u, n, m
  <1>5. Range(u) \subseteq Range(s) \cup Range(t)
    BY <1>4 DEF Range
  <1>6. Range(s) \subseteq Range(u)
    BY <1>4 DEF Range
  <1>7. Range(t) \subseteq Range(u)
    <2> SUFFICES ASSUME NEW i \in 1..m PROVE t[i] \in Range(u)
      BY <1>4 DEF Range
    <2>1. n + i \in 1..(n + m) /\ u[n + i] = t[i]
      BY <1>4
    <2> QED
      BY <1>4, <2>1 DEF Range
  <1> QED
    BY <1>2, <1>5, <1>6, <1>7 DEF u

\* The entries of a queue have its type.
LEMMA RangeTyped ==
    ASSUME NEW S, NEW s \in Seq(S)
    PROVE  /\ Range(s) \subseteq S
           /\ \A i \in DOMAIN s : s[i] \in S /\ s[i] \in Range(s) /\ i \in Nat \ {0}
           /\ s # <<>> => Head(s) \in Range(s)
  <1>1. Len(s) \in Nat /\ DOMAIN s = 1..Len(s)
    BY LenProperties
  <1>2. \A i \in 1..Len(s) : s[i] \in S
    BY ElementOfSeq
  <1>3. s # <<>> => Head(s) \in Range(s)
    BY RangeTail
  <1> QED
    BY <1>1, <1>2, <1>3 DEF Range

LEMMA RangeEmpty == Range(<<>>) = {} /\ (\A S : <<>> \in Seq(S)) /\ DOMAIN <<>> = {}
  BY EmptySeq DEF Range

-----------------------------------------------------------------------------
(* The actor's steps *)

\* Moving the actor to a place.
LEMMA GoneTo ==
    ASSUME actor \in Actors, NEW pc \in ActorPlaces, Goto(pc)
    PROVE  actor' \in Actors /\ actor'.pc = pc
  BY DEF Goto, Actors

\* Closing the link keeps what was sent over it and drops what was not read.
LEMMA LinkClosed ==
    ASSUME link \in Links, CloseLink
    PROVE  link' \in Links /\ ~link'.up /\ link'.out = link.out /\ link'.in = <<>>
  <1>1. <<>> \in Seq(Receivable)
    OBVIOUS
  <1> QED
    BY <1>1 DEF CloseLink, Links

\* A step that leaves the connection, or closes it, and tells at most of that.
Withdraws ==
    /\ link' = link \/ CloseLink
    /\ commands' = commands \/ (commands # <<>> /\ commands' = Tail(commands))
    /\ \/ events' = events
       \/ \E k \in {"connecting", "failed", "error", "disconnected"} :
             /\ events' = Append(events, Note(k))
             /\ k = "disconnected" => actor'.pc = "gone"
    /\ actor.pc \in {"drain", "poll"} /\ link'.up => actor'.pc \in {"drain", "poll"}
    /\ actor'.pc \in {"drain", "poll"} => actor.pc \in {"drain", "poll"}

\* A command that is sent.
Sends ==
    /\ actor.pc = "drain" /\ link.up
    /\ commands # <<>> /\ Head(commands).kind = "wake" /\ commands' = Tail(commands)
    /\ link' = [link EXCEPT !.out = Append(@, Request(Head(commands)))]
    /\ UNCHANGED <<actor, events>>

\* A message that is taken from the connection, or costs it.
Takes ==
    LET m == Head(link.in) IN
    /\ actor.pc = "poll" /\ link.in # <<>>
    /\ commands' = commands
    /\ \/ actor'.pc = "drain" /\ link' = [link EXCEPT !.in = Tail(@)]
       \/ actor'.pc = "lost" /\ CloseLink
    /\ \/ events' = events
       \/ events' = Append(events, Note("error"))
       \/ m.kind = "executed" /\ events' = Append(events, ReceiptEvent(m))
       \/ m.kind = "online" /\ events' = Append(events, OnlineEvent(m))

\* A connection that is made.
Connects ==
    /\ actor.pc = "handshake" /\ actor'.pc = "drain"
    /\ commands' = commands /\ events' = Append(events, Note("connected"))
    /\ link' = [Closed EXCEPT !.up = TRUE]

ActorMoves ==
    /\ actor' \in Actors /\ actor.pc # "gone"
    /\ Withdraws \/ Sends \/ Takes \/ Connects

\* A step that is no use of the connection withdraws, or leaves things as they are.
LEMMA Away ==
    ASSUME actor \in Actors, link \in Links, NEW pc \in ActorPlaces \ {"drain", "poll"},
           NEW k \in {"connecting", "failed", "error", "disconnected"},
           k = "disconnected" => pc = "gone",
           actor' \in Actors /\ actor'.pc = pc, actor.pc # "gone",
           events' = events \/ Post(Note(k)),
           commands' = commands \/ (commands # <<>> /\ commands' = Tail(commands)),
           CloseLink \/ (link' = link /\ actor.pc \notin {"drain", "poll"})
    PROVE  ActorMoves
  <1>1. events' = events \/ events' = Append(events, Note(k))
    BY DEF Post
  <1>2. actor.pc \in {"drain", "poll"} => ~link'.up
    BY LinkClosed
  <1>3. Withdraws
    BY <1>1, <1>2 DEF Withdraws
  <1> QED
    BY <1>3 DEF ActorMoves

\* reconnect_delay gives a time for every attempt.
LEMMA DelayTyped ==
    ASSUME ActorAssumption, NEW n \in Nat \ {0}
    PROVE  ReconnectDelay(n) \in Nat
  <1>1. BackOff \in Seq(Nat) /\ BackOff # <<>>
    BY DEF ActorAssumption
  <1>2. Len(BackOff) \in Nat /\ Len(BackOff) # 0 /\ DOMAIN BackOff = 1..Len(BackOff)
    BY <1>1, EmptySeq, LenProperties
  <1>3. Len(BackOff) \in 1..Len(BackOff) /\ (n <= Len(BackOff) => n \in 1..Len(BackOff))
    BY <1>2
  <1>4. BackOff[Len(BackOff)] \in Nat /\ (n <= Len(BackOff) => BackOff[n] \in Nat)
    BY <1>1, <1>3, ElementOfSeq
  <1> QED
    BY <1>4 DEF ReconnectDelay

\* The steps of client_actor without a connection.
LEMMA OfflineMoves ==
    ASSUME ActorAssumption, now \in Nat, actor \in Actors, link \in Links,
           Announce \/ TryEndpoint \/ HandshakeFails \/ ReportFailure \/ WaitCommand \/ WaitOver
           \/ Exit
    PROVE  ActorMoves
  <1>1. CASE Announce
    <2>1. PICK pc \in {"connect", "lost", "gone"} : Goto(pc)
      BY <1>1 DEF Announce
    <2>2. actor' \in Actors /\ actor'.pc = pc
      BY <2>1, GoneTo DEF ActorPlaces
    <2> QED
      BY <1>1, <2>2, Away DEF Announce, ActorPlaces
  <1>2. CASE TryEndpoint
    <2>1. PICK pc \in {"handshake", "connect", "lost", "exit"} : Goto(pc)
      BY <1>2 DEF TryEndpoint
    <2>2. actor' \in Actors /\ actor'.pc = pc
      BY <2>1, GoneTo DEF ActorPlaces
    <2> QED
      BY <1>2, <2>2, Away DEF TryEndpoint, ActorPlaces
  <1>3. CASE HandshakeFails
    <2>1. actor' \in Actors /\ actor'.pc = "lost"
      BY <1>3, GoneTo DEF ActorPlaces, HandshakeFails
    <2> QED
      BY <1>3, <2>1, Away DEF HandshakeFails, ActorPlaces
  <1>4. CASE ReportFailure
    <2>1. now + ReconnectDelay(actor.attempt) \in Nat
      <3>1. ReconnectDelay(actor.attempt) \in Nat
        BY DelayTyped DEF Actors
      <3> QED
        BY <3>1
    <2>2. actor' \in Actors /\ actor'.pc \in {"wait", "exit"}
      BY <1>4, <2>1 DEF ReportFailure, Actors, ActorPlaces
    <2> QED
      BY <1>4, <2>2, Away DEF ReportFailure, ActorPlaces
  <1>5. CASE WaitCommand
    <2>1. PICK pc \in {"wait", "exit"} : Goto(pc)
      BY <1>5 DEF WaitCommand
    <2>2. actor' \in Actors /\ actor'.pc = pc
      BY <2>1, GoneTo DEF ActorPlaces
    <2>3. events' = events \/ Post(Note("error"))
      BY <1>5 DEF WaitCommand
    <2> QED
      BY <1>5, <2>2, <2>3, Away DEF WaitCommand, ActorPlaces
  <1>6. CASE WaitOver
    <2> PICK n : n = IF actor.attempt <= Len(BackOff) THEN actor.attempt + 1 ELSE actor.attempt
      OBVIOUS
    <2>0. n \in Nat \ {0} /\ actor' = [actor EXCEPT !.pc = "announce", !.attempt = n]
      BY <1>6 DEF WaitOver, Actors
    <2>1. actor' \in Actors /\ actor'.pc = "announce"
      BY <2>0 DEF Actors, ActorPlaces
    <2> QED
      BY <1>6, <2>1, Away DEF WaitOver, ActorPlaces
  <1>7. CASE Exit
    <2>1. actor' \in Actors /\ actor'.pc = "gone"
      BY <1>7, GoneTo DEF ActorPlaces, Exit
    <2> QED
      BY <1>7, <2>1, Away DEF Exit, ActorPlaces
  <1> QED
    BY <1>1, <1>2, <1>3, <1>4, <1>5, <1>6, <1>7

\* The handshake connects, or ends the actor.
LEMMA HandshakeMoves ==
    ASSUME actor \in Actors, link \in Links, HandshakeDone
    PROVE  ActorMoves
  <1>1. CASE Room
    <2> PICK n : n = 1
      OBVIOUS
    <2>0. n \in Nat \ {0} /\ actor' = [actor EXCEPT !.pc = "drain", !.attempt = n]
      BY <1>1 DEF HandshakeDone
    <2>1. actor' \in Actors /\ actor'.pc = "drain"
      BY <2>0 DEF Actors, ActorPlaces
    <2> QED
      BY <1>1, <2>1 DEF HandshakeDone, Post, ActorMoves, Connects
  <1>2. CASE ~Room
    <2>1. actor' \in Actors /\ actor'.pc = "gone"
      BY <1>2 DEF HandshakeDone, Actors, ActorPlaces
    <2>2. events' = events /\ link' = link /\ commands' = commands /\ actor.pc = "handshake"
      BY <1>2 DEF HandshakeDone, Post
    <2> QED
      BY <2>1, <2>2, Away DEF ActorPlaces
  <1> QED
    BY <1>1, <1>2

\* One command of the drain loop is sent, answered with an error, or ends the connection.
LEMMA CommandMoves ==
    ASSUME actor \in Actors, link \in Links, TakeCommand
    PROVE  ActorMoves
  <1> PICK c : c = Head(commands)
    OBVIOUS
  <1>0. actor.pc = "drain" /\ commands # <<>> /\ commands' = Tail(commands)
    BY DEF TakeCommand
  <1>1. \/ (Goto("exit") \/ Goto("lost")) /\ CloseLink /\ UNCHANGED events
        \/ /\ Post(Note("error"))
           /\ UNCHANGED <<actor, link>> \/ (Goto("exit") /\ CloseLink)
        \/ c.kind = "wake" /\ ~link.up /\ UNCHANGED <<link, actor, events>>
        \/ /\ c.kind = "wake" /\ link.up
           /\ link' = [link EXCEPT !.out = Append(@, Request(c))]
           /\ UNCHANGED <<actor, events>>
    BY Zenon DEF TakeCommand
  <1>2. CASE (Goto("exit") \/ Goto("lost")) /\ CloseLink /\ UNCHANGED events
    <2>1. PICK pc \in {"exit", "lost"} : Goto(pc)
      BY <1>2
    <2>2. actor' \in Actors /\ actor'.pc = pc
      BY <2>1, GoneTo DEF ActorPlaces
    <2> QED
      BY <1>0, <1>2, <2>2, Away DEF ActorPlaces
  <1>3. CASE Post(Note("error")) /\ UNCHANGED <<actor, link>>
    <2>1. Withdraws
      BY <1>0, <1>3 DEF Withdraws, Post
    <2> QED
      BY <1>0, <1>3, <2>1 DEF ActorMoves
  <1>4. CASE Post(Note("error")) /\ Goto("exit") /\ CloseLink
    <2>1. actor' \in Actors /\ actor'.pc = "exit"
      BY <1>4, GoneTo DEF ActorPlaces
    <2> QED
      BY <1>0, <1>4, <2>1, Away DEF ActorPlaces
  <1>5. CASE c.kind = "wake" /\ ~link.up /\ UNCHANGED <<link, actor, events>>
    <2>1. Withdraws
      BY <1>0, <1>5 DEF Withdraws
    <2> QED
      BY <1>0, <1>5, <2>1 DEF ActorMoves
  <1>6. CASE /\ c.kind = "wake" /\ link.up
             /\ link' = [link EXCEPT !.out = Append(@, Request(c))]
             /\ UNCHANGED <<actor, events>>
    BY <1>0, <1>6 DEF Sends, ActorMoves
  <1> QED
    BY <1>1, <1>2, <1>3, <1>4, <1>5, <1>6

\* The three ways to end with a message: rejected, ignored, delivered.
LEMMA MessageMoves ==
    ASSUME actor \in Actors, link \in Links, actor.pc = "poll", link.in # <<>>, NEW p,
           UNCHANGED commands,
           NEW e, e = Note("error") \/ (Head(link.in).kind = "executed" /\ e = ReceiptEvent(Head(link.in)))
                  \/ (Head(link.in).kind = "online" /\ e = OnlineEvent(Head(link.in))),
           Reject \/ Ignore(p) \/ Deliver(e, p)
    PROVE  ActorMoves
  <1>1. \/ Goto("drain") /\ link' = [link EXCEPT !.in = Tail(@)]
        \/ Goto("lost") /\ CloseLink
    BY Zenon DEF Reject, Ignore, Deliver, NextRound
  <1>2. actor' \in Actors
        /\ \/ actor'.pc = "drain" /\ link' = [link EXCEPT !.in = Tail(@)]
           \/ actor'.pc = "lost" /\ CloseLink
    BY <1>1, GoneTo DEF ActorPlaces
  <1>3. Post(Note("error")) \/ UNCHANGED events \/ Post(e)
    BY DEF Reject, Ignore, Deliver
  <1>4. events' = events \/ events' = Append(events, Note("error")) \/ events' = Append(events, e)
    BY <1>3 DEF Post
  <1> QED
    BY <1>2, <1>4 DEF Takes, ActorMoves

\* poll_server_envelope takes one message, none, or finds the connection gone.
LEMMA PollMoves ==
    ASSUME actor \in Actors, link \in Links, PollMessage \/ PollNothing \/ DrainDone \/ LinkLost
    PROVE  ActorMoves
  <1>1. CASE PollMessage
    <2> PICK m : m = Head(link.in)
      OBVIOUS
    <2>1. \/ Reject \/ (m.kind = "executed" /\ HandleReceipt(m))
          \/ (m.kind = "online" /\ HandleOnline(m)) \/ (m.kind = "error" /\ HandleError(m))
      BY <1>1, Zenon DEF PollMessage
    <2>2. actor.pc = "poll" /\ link.in # <<>> /\ UNCHANGED commands
      BY <1>1 DEF PollMessage
    <2>3. CASE Reject
      BY <2>2, <2>3, MessageMoves
    <2>4. CASE m.kind = "executed" /\ HandleReceipt(m)
      <3>1. Reject \/ (\E p : Ignore(p)) \/ (\E p : Deliver(ReceiptEvent(m), p))
        BY <2>4, Zenon DEF HandleReceipt
      <3> QED
        BY <2>2, <2>4, <3>1, MessageMoves
    <2>5. CASE m.kind = "online" /\ HandleOnline(m)
      <3>1. Reject \/ (\E p : Ignore(p)) \/ (\E p : Deliver(OnlineEvent(m), p))
        BY <2>5, Zenon DEF HandleOnline
      <3> QED
        BY <2>2, <2>5, <3>1, MessageMoves
    <2>6. CASE m.kind = "error" /\ HandleError(m)
      <3>1. Reject \/ (\E p : Deliver(Note("error"), p))
        BY <2>6, Zenon DEF HandleError
      <3> QED
        BY <2>2, <3>1, MessageMoves
    <2> QED
      BY <2>1, <2>3, <2>4, <2>5, <2>6
  <1>2. CASE PollNothing
    <2>1. actor' \in Actors /\ actor'.pc = "drain"
      BY <1>2, GoneTo DEF PollNothing, NextRound, ActorPlaces
    <2>2. Withdraws
      BY <1>2, <2>1 DEF Withdraws, PollNothing
    <2> QED
      BY <1>2, <2>1, <2>2 DEF ActorMoves, PollNothing
  <1>3. CASE DrainDone
    <2>1. actor' \in Actors /\ actor'.pc = "poll"
      BY <1>3, GoneTo DEF DrainDone, ActorPlaces
    <2>2. Withdraws
      BY <1>3, <2>1 DEF Withdraws, DrainDone
    <2> QED
      BY <1>3, <2>1, <2>2 DEF ActorMoves, DrainDone
  <1>4. CASE LinkLost
    <2>1. actor' \in Actors /\ actor'.pc = "lost"
      BY <1>4, GoneTo DEF LinkLost, ActorPlaces
    <2> QED
      BY <1>4, <2>1, Away DEF LinkLost, ActorPlaces
  <1> QED
    BY <1>1, <1>2, <1>3, <1>4

LEMMA ActorStepMoves ==
    ASSUME ActorAssumption, now \in Nat, actor \in Actors, link \in Links, ActorStep
    PROVE  ActorMoves
  BY OfflineMoves, HandshakeMoves, CommandMoves, PollMoves DEF ActorStep

-----------------------------------------------------------------------------
(* What the actor's steps do to the queues *)

\* What is sent is a request, what is told is a reply, and both say what was asked and
\* what was received.
LEMMA Translations ==
    ASSUME now \in Nat
    PROVE  /\ \A k \in ConnectionEvents \cup {"error"} : Note(k) \in Remarks /\ Note(k).kind = k
           /\ \A c \in Commands : c.kind = "wake" =>
                 /\ Request(c) \in Sendable
                 /\ Request(c).attempt = c.attempt /\ Request(c).ticket = c.ticket
                 /\ Request(c).wireTime = now
           /\ \A m \in Receivable : m.kind = "executed" =>
                 /\ ReceiptEvent(m) \in Replies
                 /\ ReceiptEvent(m).kind = "receipt" /\ ReceiptEvent(m).attempt = m.attempt
                 /\ ReceiptEvent(m).ticket = m.ticket
           /\ \A m \in Receivable : m.kind = "online" =>
                 /\ OnlineEvent(m) \in Replies
                 /\ OnlineEvent(m).kind = "online" /\ OnlineEvent(m).attempt = m.attempt
                 /\ OnlineEvent(m).host = m.host
  <1>1. \A k \in ConnectionEvents \cup {"error"} : Note(k) \in Remarks /\ Note(k).kind = k
    BY DEF Remarks, Note
  <1>2. \A c \in Commands : c.kind = "wake" =>
           /\ Request(c) \in Sendable
           /\ Request(c).attempt = c.attempt /\ Request(c).ticket = c.ticket
           /\ Request(c).wireTime = now
    BY DEF Commands, Request, Sendable, Shutdown
  <1>3. \A m \in Receivable : m.kind = "executed" =>
           /\ ReceiptEvent(m) \in Replies
           /\ ReceiptEvent(m).kind = "receipt" /\ ReceiptEvent(m).attempt = m.attempt
           /\ ReceiptEvent(m).ticket = m.ticket
    BY DEF Receivable, ReceiptEvent, Replies
  <1>4. \A m \in Receivable : m.kind = "online" =>
           /\ OnlineEvent(m) \in Replies
           /\ OnlineEvent(m).kind = "online" /\ OnlineEvent(m).attempt = m.attempt
           /\ OnlineEvent(m).host = m.host
    BY DEF Receivable, OnlineEvent, Replies
  <1> QED
    BY <1>1, <1>2, <1>3, <1>4

\* What an event that was posted is made of.
Posts(e) ==
    \/ \E k \in ConnectionEvents \cup {"error"} : e = Note(k)
    \/ \E m \in Range(link.in) : m.kind = "executed" /\ e = ReceiptEvent(m)
    \/ \E m \in Range(link.in) : m.kind = "online" /\ e = OnlineEvent(m)

\* The queues after a step of the actor hold what they held before, an event made of a
\* note or of a message, and a request made of a command.
ActorSets ==
    /\ UNCHANGED <<now, rec, monitor, dispatches, probed>> /\ actor.pc # "gone"
    /\ Range(link'.in) \subseteq Range(link.in)
    /\ \A e \in Range(events') : e \in Range(events) \/ Posts(e)
    /\ Queued' \subseteq Queued
    /\ \A q \in Underway' : q \in Underway \/ \E c \in Queued : q = Request(c)

\* Posting keeps the queue's type.
LEMMA EventPosted ==
    ASSUME now \in Nat, link \in Links, events \in Seq(Remarks \cup Replies),
           events' = events \/ \E e : Posts(e) /\ events' = Append(events, e)
    PROVE  /\ events' \in Seq(Remarks \cup Replies)
           /\ \A e \in Range(events') : e \in Range(events) \/ Posts(e)
  <1>1. CASE events' = events
    BY <1>1
  <1>2. ASSUME NEW e, Posts(e), events' = Append(events, e)
        PROVE  /\ events' \in Seq(Remarks \cup Replies)
               /\ \A x \in Range(events') : x \in Range(events) \/ Posts(x)
    <2>1. link.in \in Seq(Receivable)
      BY DEF Links
    <2>2. Range(link.in) \subseteq Receivable
      BY <2>1, RangeTyped
    <2>3. e \in Remarks \cup Replies
      BY <1>2, <2>2, Translations DEF Posts
    <2> QED
      BY <1>2, <2>3, RangeAppend
  <1> QED
    BY <1>1, <1>2

\* Taking a command keeps the queue's type.
LEMMA CommandTaken ==
    ASSUME commands \in Seq(Commands),
           commands' = commands \/ (commands # <<>> /\ commands' = Tail(commands))
    PROVE  commands' \in Seq(Commands) /\ Queued' \subseteq Queued
  <1>1. commands' \in Seq(Commands) /\ Range(commands') \subseteq Range(commands)
    <2>1. CASE commands' = commands
      BY <2>1
    <2>2. CASE commands # <<>> /\ commands' = Tail(commands)
      BY <2>2, RangeTail
    <2> QED
      BY <2>1, <2>2
  <1> QED
    BY <1>1 DEF Queued

\* The queues and the link after a step of the actor.
LEMMA MovesTyped ==
    ASSUME ServiceTyped, ActorMoves, now' = now
    PROVE  /\ events' \in Seq(Remarks \cup Replies) /\ commands' \in Seq(Commands)
           /\ link' \in Links
           /\ Range(link'.in) \subseteq Range(link.in)
           /\ \A e \in Range(events') : e \in Range(events) \/ Posts(e)
           /\ Queued' \subseteq Queued
           /\ \A q \in Range(link'.out) :
                 q \in Range(link.out) \/ \E c \in Queued : q = Request(c)
  <1>0. /\ now \in Nat /\ link \in Links /\ events \in Seq(Remarks \cup Replies)
        /\ commands \in Seq(Commands) /\ link.in \in Seq(Receivable) /\ link.out \in Seq(Sendable)
    BY DEF ServiceTyped, Links
  <1>1. CASE Withdraws
    <2>1. events' = events \/ \E e : Posts(e) /\ events' = Append(events, e)
      BY <1>1 DEF Withdraws, Posts, ConnectionEvents
    <2>2. link' \in Links /\ link'.out = link.out /\ Range(link'.in) \subseteq Range(link.in)
      BY <1>0, <1>1, LinkClosed, RangeEmpty DEF Withdraws
    <2> QED
      BY <1>0, <1>1, <2>1, <2>2, EventPosted, CommandTaken DEF Withdraws
  <1>2. CASE Sends
    <2> PICK c : c = Head(commands)
      OBVIOUS
    <2>1. c \in Commands /\ c.kind = "wake" /\ c \in Range(commands)
      BY <1>0, <1>2, RangeTail, RangeTyped DEF Sends
    <2> PICK r : r = Request(c)
      OBVIOUS
    <2>2. r \in Sendable
      BY <1>0, <2>1, Translations
    <2>3. link' = [link EXCEPT !.out = Append(link.out, r)]
      BY <1>2 DEF Sends
    <2>4. Append(link.out, r) \in Seq(Sendable) /\ Range(Append(link.out, r)) = Range(link.out) \cup {r}
      BY <1>0, <2>2, RangeAppend
    <2>5. link' \in Links /\ link'.in = link.in /\ link'.out = Append(link.out, r)
      <3> DEFINE t == Append(link.out, r)
      <3>1. t \in Seq(Sendable) /\ link' = [link EXCEPT !.out = t]
        BY <2>3, <2>4
      <3> HIDE DEF t
      <3>2. link' \in Links /\ link'.in = link.in /\ link'.out = t
        BY <1>0, <3>1 DEF Links
      <3> QED
        BY <3>2 DEF t
    <2>6. c \in Queued
      BY <2>1 DEF Queued
    <2>7. events' = events /\ commands # <<>> /\ commands' = Tail(commands)
      BY <1>2 DEF Sends
    <2> QED
      BY <1>0, <2>4, <2>5, <2>6, <2>7, CommandTaken
  <1>3. CASE Takes
    <2> PICK m : m = Head(link.in)
      OBVIOUS
    <2>1. m \in Range(link.in) /\ Tail(link.in) \in Seq(Receivable)
          /\ Range(Tail(link.in)) \subseteq Range(link.in)
      BY <1>0, <1>3, RangeTyped, RangeTail DEF Takes
    <2>2. events' = events \/ \E e : Posts(e) /\ events' = Append(events, e)
      BY <1>3, <2>1 DEF Takes, Posts
    <2>3. link' = [link EXCEPT !.in = Tail(link.in)] \/ CloseLink
      BY <1>3 DEF Takes
    <2>4. /\ link' \in Links /\ link'.out = link.out
          /\ link'.in = <<>> \/ link'.in = Tail(link.in)
      <3> DEFINE t == Tail(link.in)
      <3>1. t \in Seq(Receivable) /\ (link' = [link EXCEPT !.in = t] \/ CloseLink)
        BY <2>1, <2>3
      <3> HIDE DEF t
      <3>2. link' \in Links /\ link'.out = link.out /\ (link'.in = <<>> \/ link'.in = t)
        BY <1>0, <3>1, LinkClosed DEF Links
      <3> QED
        BY <3>2 DEF t
    <2>5. commands' = commands
      BY <1>3 DEF Takes
    <2> QED
      BY <1>0, <2>1, <2>2, <2>4, <2>5, EventPosted, RangeEmpty DEF Queued
  <1>4. CASE Connects
    <2>1. \E e : Posts(e) /\ events' = Append(events, e)
      BY <1>4 DEF Connects, Posts, ConnectionEvents
    <2>2. link' \in Links /\ link'.out = <<>> /\ link'.in = <<>> /\ commands' = commands
      BY <1>4, RangeEmpty DEF Connects, Closed, Links
    <2> QED
      BY <1>0, <2>1, <2>2, EventPosted, RangeEmpty DEF Queued
  <1> QED
    BY <1>1, <1>2, <1>3, <1>4 DEF ActorMoves

LEMMA ActorKeepsTypes ==
    ASSUME FrontAssumption, ServiceTyped, Actor
    PROVE  ServiceTyped' /\ ActorSets /\ ActorMoves
  <1>0. /\ now' = now /\ UNCHANGED <<rec, monitor, dispatches, probed>>
        /\ ActorMoves
    BY ActorStepMoves DEF Actor, FrontAssumption, ServiceTyped
  <1>1. /\ events' \in Seq(Remarks \cup Replies) /\ commands' \in Seq(Commands)
        /\ link' \in Links
        /\ Range(link'.in) \subseteq Range(link.in)
        /\ \A e \in Range(events') : e \in Range(events) \/ Posts(e)
        /\ Queued' \subseteq Queued
        /\ \A q \in Range(link'.out) :
              q \in Range(link.out) \/ \E c \in Queued : q = Request(c)
    BY <1>0, MovesTyped
  <1>2. late' \in Seq(Sendable) /\ Range(late') \subseteq Range(late) \cup Range(link.out)
    <2>1. late \in Seq(Sendable) /\ link.out \in Seq(Sendable)
      BY DEF ServiceTyped, Links
    <2>2. late' = late \/ late' = late \o link.out
      BY DEF Actor
    <2>3. CASE late' = late
      BY <2>1, <2>3
    <2>4. CASE late' = late \o link.out
      BY <2>1, <2>4, RangeConcat
    <2> QED
      BY <2>2, <2>3, <2>4
  <1>3. conn' \in Nat /\ losses' \in Nat
    BY DEF Actor, ServiceTyped
  <1>4. actor' \in Actors /\ actor.pc # "gone"
    BY <1>0 DEF ActorMoves
  <1>5. ServiceTyped'
    BY <1>0, <1>1, <1>2, <1>3, <1>4 DEF ServiceTyped
  <1>6. \A q \in Underway' : q \in Underway \/ \E c \in Queued : q = Request(c)
    BY <1>1, <1>2 DEF Underway
  <1>7. ActorSets
    BY <1>0, <1>1, <1>4, <1>6 DEF ActorSets
  <1> QED
    BY <1>0, <1>5, <1>7

-----------------------------------------------------------------------------
(* The server's steps *)

\* What a step does to the record: a first dispatch begins for the request q, a second
\* one, the record is forgotten, its lease renewed, its dispatch finished.
FirstBegins(q) ==
    /\ q.attempt = 1 /\ InSkew(q.wireTime)
    /\ rec.st = "none" \/ rec.expires <= now
    /\ rec'.st = "pending" /\ rec'.attempt = 1 /\ rec'.ticket = Len(dispatches) + 1
    /\ rec'.since = now /\ rec'.expires = now + PendingTTL
    /\ UNCHANGED dispatches
SecondBegins(q) ==
    /\ q.attempt = 2
    /\ rec.st = "done" /\ rec.attempt = 1
    /\ rec'.st = "pending" /\ rec'.attempt = 2 /\ rec'.ticket = rec.ticket
    /\ rec'.since = now /\ rec'.expires = now + PendingTTL
    /\ UNCHANGED dispatches
Forgets ==
    /\ rec.st # "none" /\ rec.expires <= now /\ rec' = Absent
    /\ UNCHANGED dispatches
Renews ==
    /\ rec.st = "done" /\ rec'.st = "done"
    /\ rec'.attempt = rec.attempt /\ rec'.ticket = rec.ticket /\ rec'.since = rec.since
    /\ rec'.expires = rec.expires /\ rec'.lease = now + RetryTTL
    /\ UNCHANGED dispatches
Finishes ==
    /\ rec.st = "pending" /\ rec'.st = "done"
    /\ rec'.attempt = rec.attempt /\ rec'.ticket = rec.ticket /\ rec'.since = rec.since
    /\ rec'.expires = now + LedgerTTL
    /\ \E acc \in SUBSET Hosts :
          dispatches' = Append(dispatches, [attempt |-> rec.attempt, accepted |-> acc,
                                            at |-> rec.since])
Ledger ==
    \/ UNCHANGED <<rec, dispatches>> \/ Forgets \/ Renews \/ Finishes
    \/ \E q \in Underway : FirstBegins(q) \/ SecondBegins(q)

\* A message the server sends: a receipt is of the record, which outlives a retry by it.
Says(m) ==
    /\ m \in Receivable /\ m.wireTime = now
    /\ m.kind = "executed" =>
          /\ rec'.st = "done" /\ m.attempt = rec'.attempt /\ m.ticket = rec'.ticket
          /\ rec'.expires >= now + RetryTTL
          /\ m.attempt = 1 => rec'.lease >= now + RetryTTL
    /\ m.kind = "online" => <<m.attempt, m.host>> \in probed'

\* The link after a request was taken from it, or not, and answered, or not.
Answered(l) ==
    /\ l.up => link.up
    /\ l.out = link.out \/ (link.out # <<>> /\ l.out = Tail(link.out))
    /\ l.in = link.in \/ \E m : Says(m) /\ l.in = Append(link.in, m)

ServerMoves ==
    /\ UNCHANGED <<now, actor, commands, events>>
    /\ probed \subseteq probed'
    /\ late' = late \/ (late # <<>> /\ late' = Tail(late))
    /\ Ledger
    /\ Answered(link')

\* The operation is one of the client's.
LEMMA OpTyped == ASSUME FrontAssumption PROVE Op \in Ops
  BY DEF FrontAssumption, ServerAssumption, Op

\* A reply is delivered on a link that is up.
LEMMA Replied ==
    ASSUME NEW l \in Links, NEW m \in Receivable
    PROVE  /\ Reply(l, m) \in Links /\ Reply(l, m).up = l.up /\ Reply(l, m).out = l.out
           /\ Reply(l, m).in = l.in \/ Reply(l, m).in = Append(l.in, m)
  <1>1. l.in \in Seq(Receivable)
    BY DEF Links
  <1> DEFINE t == Append(l.in, m)
  <1>2. t \in Seq(Receivable)
    BY <1>1, RangeAppend
  <1>3. Reply(l, m) = IF l.up THEN [l EXCEPT !.in = t] ELSE l
    BY DEF Reply
  <1> HIDE DEF t
  <1>4. /\ Reply(l, m) \in Links /\ Reply(l, m).up = l.up /\ Reply(l, m).out = l.out
        /\ Reply(l, m).in = l.in \/ Reply(l, m).in = t
    BY <1>2, <1>3 DEF Links
  <1> QED
    BY <1>4 DEF t

\* Taking the first request off the link.
LEMMA RequestTaken ==
    ASSUME link \in Links, link.out # <<>>, NEW l, l = [link EXCEPT !.out = Tail(@)]
    PROVE  /\ l \in Links /\ l.out = Tail(link.out) /\ l.in = link.in /\ l.up = link.up
           /\ Head(link.out) \in Sendable /\ Head(link.out) \in Range(link.out)
  <1> DEFINE t == Tail(link.out)
  <1>1. link.out \in Seq(Sendable)
    BY DEF Links
  <1>2. t \in Seq(Sendable) /\ Head(link.out) \in Sendable /\ Head(link.out) \in Range(link.out)
    BY <1>1, RangeTail, RangeTyped
  <1>3. l = [link EXCEPT !.out = t]
    OBVIOUS
  <1> HIDE DEF t
  <1>4. l \in Links /\ l.out = t /\ l.in = link.in /\ l.up = link.up
    BY <1>2, <1>3 DEF Links
  <1> QED
    BY <1>2, <1>4 DEF t

\* The receipt of a completed record, and the monitor that follows it.
LEMMA ReceiptTyped ==
    ASSUME FrontAssumption, now \in Nat, conn \in Nat, NEW r \in Records
    PROVE  /\ Receipt(r) \in Receivable /\ Receipt(r).kind = "executed"
           /\ Receipt(r).wireTime = now
           /\ Receipt(r).attempt = r.attempt /\ Receipt(r).ticket = r.ticket
           /\ NewMonitor(r) \in Monitors \cup {NoMonitor}
  <1>0. now + WaitTimeout \in Nat /\ Op \in Ops
    BY OpTyped DEF FrontAssumption, ActorAssumption
  <1>1. r.attempt \in {1, 2} /\ r.ticket \in Nat /\ r.hosts \in SUBSET Hosts
        /\ r.accepted \in SUBSET Hosts /\ r.accepted \subseteq r.hosts
    BY DEF Records
  <1>2. /\ Receipt(r) \in Receivable /\ Receipt(r).kind = "executed"
        /\ Receipt(r).wireTime = now
        /\ Receipt(r).attempt = r.attempt /\ Receipt(r).ticket = r.ticket
    BY <1>0, <1>1 DEF Receipt, Executed, Receivable
  <1>3. NewMonitor(r) \in Monitors \cup {NoMonitor}
    BY <1>0, <1>1 DEF NewMonitor, Monitors
  <1> QED
    BY <1>2, <1>3

\* The record without the expired one.
LEMMA PrunedTyped ==
    ASSUME now \in Nat, rec \in Records \cup {Absent}, NEW r, r = Pruned1
    PROVE  /\ r \in Records \cup {Absent}
           /\ r.st = "none" => r = Absent /\ (rec.st = "none" \/ rec.expires <= now)
           /\ r.st # "none" => r = rec /\ r \in Records
           /\ r = rec \/ (r = Absent /\ rec.st # "none" /\ rec.expires <= now)
           /\ rec.st = "none" => rec = Absent
  BY DEF Pruned1, Absent, Records

\* A new record.
LEMMA RecordTyped ==
    ASSUME NEW t \in Nat, NEW hs \in SUBSET Hosts, NEW acc \in SUBSET hs, NEW l \in Nat,
           NEW s \in Nat, NEW e \in Nat, NEW n \in Nat
    PROVE  [st |-> "pending", attempt |-> 1, ticket |-> t, hosts |-> hs, accepted |-> acc,
            lease |-> l, since |-> s, expires |-> e, conn |-> n] \in Records
  BY DEF Records

\* A request that begins a dispatch.
LEMMA BegunTyped ==
    ASSUME FrontAssumption, now \in Nat, conn \in Nat, rec \in Records \cup {Absent},
           dispatches \in Seq(Dispatched), UNCHANGED dispatches,
           NEW q \in Sendable, InSkew(q.wireTime), NEW n \in Nat,
           Starts(Pruned1, q), rec' = [Begun(Pruned1, q) EXCEPT !.conn = n]
    PROVE  rec' \in Records /\ (FirstBegins(q) \/ SecondBegins(q))
  <1> PICK r : r = Pruned1
    OBVIOUS
  <1>0. /\ r \in Records \cup {Absent}
        /\ r.st = "none" => r = Absent /\ (rec.st = "none" \/ rec.expires <= now)
        /\ r.st # "none" => r = rec /\ r \in Records
    BY PrunedTyped
  <1>1. now + PendingTTL \in Nat /\ now + RetryTTL \in Nat
    <2>1. PendingTTL \in Nat /\ RetryTTL \in Nat
      BY DEF FrontAssumption, ServerAssumption
    <2> QED
      BY <2>1
  <1>2. q.hosts \in SUBSET Hosts /\ q.attempt \in {1, 2}
    BY DEF Sendable
  <1> PICK k : k = Len(dispatches) + 1
    OBVIOUS
  <1>3. k \in Nat
    BY LenProperties
  <1>4. CASE q.attempt = 1
    <2>1. r.st = "none"
      BY <1>4 DEF Starts
    <2>2. rec' = [st |-> "pending", attempt |-> 1, ticket |-> k,
                  hosts |-> q.hosts, accepted |-> {}, lease |-> now + RetryTTL,
                  since |-> now, expires |-> now + PendingTTL, conn |-> n]
      BY <1>4 DEF Begun, Reserved
    <2>3. rec' \in Records
      <3>1. [st |-> "pending", attempt |-> 1, ticket |-> k, hosts |-> q.hosts,
             accepted |-> {}, lease |-> now + RetryTTL, since |-> now,
             expires |-> now + PendingTTL, conn |-> n] \in Records
        BY <1>1, <1>2, <1>3, RecordTyped
      <3> QED
        BY <2>2, <3>1, Zenon
    <2>4. /\ rec'.st = "pending" /\ rec'.attempt = 1 /\ rec'.ticket = k
          /\ rec'.since = now /\ rec'.expires = now + PendingTTL
      BY <2>2
    <2> QED
      BY <1>0, <1>4, <2>1, <2>3, <2>4 DEF FirstBegins
  <1>5. CASE q.attempt = 2
    <2>1. r.st = "done" /\ r.attempt = 1
      BY <1>5 DEF Starts
    <2>2. r = rec /\ rec \in Records
      BY <1>0, <2>1
    <2>3. rec' = [rec EXCEPT !.st = "pending", !.attempt = 2, !.since = now,
                             !.expires = now + PendingTTL, !.conn = n]
      BY <1>5, <2>2 DEF Begun, Records
    <2>4. rec' \in Records /\ rec'.st = "pending" /\ rec'.attempt = 2 /\ rec'.ticket = rec.ticket
          /\ rec'.since = now /\ rec'.expires = now + PendingTTL
      BY <1>1, <2>2, <2>3 DEF Records
    <2> QED
      BY <1>5, <2>1, <2>2, <2>4 DEF SecondBegins
  <1> QED
    BY <1>2, <1>4, <1>5

\* A request that is processed: it begins a dispatch, is answered with the receipt, which
\* renews the lease, or is refused; the record that expired is forgotten.
LEMMA Processed ==
    ASSUME FrontAssumption, ServiceTyped, UNCHANGED <<now, dispatches, probed>>,
           NEW q \in Sendable, q \in Underway, InSkew(q.wireTime),
           NEW l \in Links, l.in = link.in, NEW present \in BOOLEAN, Process(q, l, present)
    PROVE  /\ rec' \in Records \cup {Absent} /\ monitor' \in Monitors \cup {NoMonitor}
           /\ Ledger
           /\ link' \in Links /\ link'.up = l.up /\ link'.out = l.out
           /\ link'.in = link.in \/ \E m : Says(m) /\ link'.in = Append(link.in, m)
           /\ ~present => link' = l
  <1>0. /\ now \in Nat /\ conn \in Nat /\ rec \in Records \cup {Absent}
        /\ monitor \in Monitors \cup {NoMonitor} /\ dispatches \in Seq(Dispatched)
    BY DEF ServiceTyped
  <1> PICK r : r = Pruned1
    OBVIOUS
  <1>1. /\ r \in Records \cup {Absent}
        /\ r.st # "none" => r = rec /\ r \in Records
        /\ r = rec \/ (r = Absent /\ rec.st # "none" /\ rec.expires <= now)
    BY <1>0, PrunedTyped
  <1>2. \/ /\ Starts(r, q)
           /\ rec' = [Begun(r, q) EXCEPT !.conn = IF present THEN conn ELSE 0]
           /\ link' = l /\ UNCHANGED monitor
        \/ /\ Answers(r, q) /\ rec' = Renewed(r)
           /\ link' = IF present THEN Reply(l, Receipt(r)) ELSE l
           /\ monitor' = IF present /\ r.accepted # {} THEN NewMonitor(r) ELSE monitor
        \/ /\ rec' = r
           /\ link' = IF present THEN Reply(l, Refused(Op)) ELSE l
           /\ UNCHANGED monitor
    BY Zenon DEF Process
  <1>3. CASE /\ Starts(r, q)
             /\ rec' = [Begun(r, q) EXCEPT !.conn = IF present THEN conn ELSE 0]
             /\ link' = l /\ UNCHANGED monitor
    <2> PICK n : n = IF present THEN conn ELSE 0
      OBVIOUS
    <2>1. n \in Nat /\ rec' = [Begun(r, q) EXCEPT !.conn = n] /\ Starts(Pruned1, q) /\ Begun(r, q) = Begun(Pruned1, q)
      BY <1>0, <1>3
    <2>2. rec' \in Records /\ (FirstBegins(q) \/ SecondBegins(q))
      BY <1>0, <2>1, BegunTyped
    <2> QED
      BY <1>0, <1>3, <2>2 DEF Ledger
  <1>4. CASE /\ Answers(r, q) /\ rec' = Renewed(r)
             /\ link' = IF present THEN Reply(l, Receipt(r)) ELSE l
             /\ monitor' = IF present /\ r.accepted # {} THEN NewMonitor(r) ELSE monitor
    <2>1. r.st = "done" /\ r.expires >= now + RetryTTL /\ r = rec /\ r \in Records
      BY <1>1, <1>4 DEF Answers
    <2>2. now + RetryTTL \in Nat
      BY <1>0 DEF FrontAssumption, ServerAssumption
    <2>3. rec' = [rec EXCEPT !.lease = now + RetryTTL]
      BY <1>4, <2>1 DEF Renewed
    <2>4. /\ rec' \in Records /\ rec'.st = "done"
          /\ rec'.attempt = rec.attempt /\ rec'.ticket = rec.ticket /\ rec'.since = rec.since
          /\ rec'.expires = rec.expires /\ rec'.lease = now + RetryTTL
      BY <2>1, <2>2, <2>3 DEF Records
    <2>5. Ledger
      BY <2>1, <2>4 DEF Ledger, Renews
    <2> PICK m : m = Receipt(r)
      OBVIOUS
    <2>6. /\ m \in Receivable /\ m.kind = "executed" /\ m.wireTime = now
          /\ m.attempt = r.attempt /\ m.ticket = r.ticket
          /\ NewMonitor(r) \in Monitors \cup {NoMonitor}
      BY <1>0, <2>1, ReceiptTyped
    <2>7. Says(m)
      BY <2>1, <2>2, <2>4, <2>6 DEF Says
    <2>8. link' \in Links /\ link'.up = l.up /\ link'.out = l.out
          /\ (link'.in = link.in \/ link'.in = Append(link.in, m)) /\ (~present => link' = l)
      BY <1>4, <2>6, Replied
    <2>9. monitor' \in Monitors \cup {NoMonitor}
      BY <1>0, <1>4, <2>6
    <2> QED
      BY <2>4, <2>5, <2>7, <2>8, <2>9
  <1>5. CASE /\ rec' = r
             /\ link' = IF present THEN Reply(l, Refused(Op)) ELSE l
             /\ UNCHANGED monitor
    <2> PICK m : m = Refused(Op)
      OBVIOUS
    <2>1. m \in Receivable /\ m.kind = "error" /\ m.wireTime = now
      BY <1>0, OpTyped DEF Refused, Receivable
    <2>2. Says(m)
      BY <2>1 DEF Says
    <2>3. link' \in Links /\ link'.up = l.up /\ link'.out = l.out
          /\ (link'.in = link.in \/ link'.in = Append(link.in, m)) /\ (~present => link' = l)
      BY <1>5, <2>1, Replied
    <2>4. Ledger
      BY <1>1, <1>5 DEF Ledger, Forgets
    <2> QED
      BY <1>0, <1>1, <1>5, <2>2, <2>3, <2>4
  <1> QED
    BY <1>2, <1>3, <1>4, <1>5

LEMMA ServeMoves ==
    ASSUME FrontAssumption, ServiceTyped, Serve
    PROVE  ServiceTyped' /\ ServerMoves
  <1> PICK q : q = Head(link.out)
    OBVIOUS
  <1> PICK l : l = [link EXCEPT !.out = Tail(@)]
    OBVIOUS
  <1>0. /\ link \in Links /\ link.out # <<>> /\ rec \in Records \cup {Absent}
        /\ now \in Nat /\ monitor \in Monitors \cup {NoMonitor}
        /\ UNCHANGED <<now, actor, commands, events, late, conn, losses, dispatches, probed>>
    BY DEF Serve, ServiceTyped
  <1>1. /\ l \in Links /\ l.out = Tail(link.out) /\ l.in = link.in /\ l.up = link.up
        /\ q \in Sendable /\ q \in Range(link.out)
    BY <1>0, RequestTaken
  <1>2. \/ InSkew(q.wireTime) /\ Process(q, l, TRUE)
        \/ link' = [Reply(l, Refused(Op)) EXCEPT !.up = FALSE] /\ UNCHANGED <<rec, monitor>>
    BY Zenon DEF Serve
  <1>3. CASE InSkew(q.wireTime) /\ Process(q, l, TRUE)
    <2>1. q \in Underway
      BY <1>1 DEF Underway
    <2>2. /\ rec' \in Records \cup {Absent} /\ monitor' \in Monitors \cup {NoMonitor}
          /\ Ledger
          /\ link' \in Links /\ link'.up = l.up /\ link'.out = l.out
          /\ link'.in = link.in \/ \E m : Says(m) /\ link'.in = Append(link.in, m)
      BY <1>0, <1>1, <1>3, <2>1, Processed
    <2>3. ServiceTyped'
      BY <1>0, <2>2 DEF ServiceTyped
    <2>4. Answered(link')
      BY <1>0, <1>1, <2>2 DEF Answered
    <2> QED
      BY <1>0, <2>2, <2>3, <2>4 DEF ServerMoves
  <1>4. CASE link' = [Reply(l, Refused(Op)) EXCEPT !.up = FALSE] /\ UNCHANGED <<rec, monitor>>
    <2> PICK m : m = Refused(Op)
      OBVIOUS
    <2>1. m \in Receivable /\ m.kind = "error" /\ m.wireTime = now
      BY <1>0, OpTyped DEF Refused, Receivable
    <2>2. Says(m)
      BY <2>1 DEF Says
    <2> PICK k : k = Reply(l, m)
      OBVIOUS
    <2>3. k \in Links /\ k.out = l.out /\ (k.in = l.in \/ k.in = Append(l.in, m))
      BY <1>1, <2>1, Replied
    <2>4. link' = [k EXCEPT !.up = FALSE]
      BY <1>4
    <2>5. link' \in Links /\ ~link'.up /\ link'.out = k.out /\ link'.in = k.in
      BY <2>3, <2>4 DEF Links
    <2>6. ServiceTyped'
      BY <1>0, <1>4, <2>5 DEF ServiceTyped
    <2>7. Answered(link')
      BY <1>0, <1>1, <2>2, <2>3, <2>5 DEF Answered
    <2> QED
      BY <1>0, <1>4, <2>6, <2>7 DEF ServerMoves, Ledger
  <1> QED
    BY <1>2, <1>3, <1>4

LEMMA ServeLateMoves ==
    ASSUME FrontAssumption, ServiceTyped, ServeLate
    PROVE  ServiceTyped' /\ ServerMoves
  <1> PICK q : q = Head(late)
    OBVIOUS
  <1>0. /\ link \in Links /\ late \in Seq(Sendable) /\ late # <<>> /\ late' = Tail(late)
        /\ UNCHANGED <<now, actor, commands, events, conn, losses, dispatches, probed>>
    BY DEF ServeLate, ServiceTyped
  <1>1. q \in Sendable /\ q \in Underway /\ late' \in Seq(Sendable)
    BY <1>0, RangeTail, RangeTyped DEF Underway
  <1>2. (InSkew(q.wireTime) /\ Process(q, link, FALSE)) \/ UNCHANGED <<rec, monitor, link>>
    BY Zenon DEF ServeLate
  <1>3. CASE InSkew(q.wireTime) /\ Process(q, link, FALSE)
    <2>1. /\ rec' \in Records \cup {Absent} /\ monitor' \in Monitors \cup {NoMonitor}
          /\ Ledger /\ link' = link
      BY <1>0, <1>1, <1>3, Processed
    <2>2. ServiceTyped'
      BY <1>0, <1>1, <2>1 DEF ServiceTyped
    <2> QED
      BY <1>0, <2>1, <2>2 DEF ServerMoves, Answered
  <1>4. CASE UNCHANGED <<rec, monitor, link>>
    <2>1. ServiceTyped'
      BY <1>0, <1>1, <1>4 DEF ServiceTyped
    <2> QED
      BY <1>0, <1>4, <2>1 DEF ServerMoves, Answered, Ledger
  <1> QED
    BY <1>2, <1>3, <1>4

LEMMA FinishMoves ==
    ASSUME FrontAssumption, ServiceTyped, Finish
    PROVE  ServiceTyped' /\ ServerMoves
  <1>0. /\ link \in Links /\ rec \in Records \cup {Absent} /\ rec.st = "pending"
        /\ now \in Nat /\ conn \in Nat /\ monitor \in Monitors \cup {NoMonitor}
        /\ dispatches \in Seq(Dispatched)
        /\ UNCHANGED <<now, actor, commands, events, late, conn, losses, probed>>
    BY DEF Finish, ServiceTyped
  <1>1. rec \in Records
    BY <1>0 DEF Absent
  <1>2. PICK acc \in SUBSET rec.hosts :
           /\ rec' = Completed(rec, acc)
           /\ dispatches' = Append(dispatches, [attempt |-> Completed(rec, acc).attempt,
                                                accepted |-> acc, at |-> rec.since])
           /\ link' = IF rec.conn = conn /\ link.up THEN Reply(link, Receipt(Completed(rec, acc)))
                      ELSE link
           /\ monitor' = IF rec.conn = conn /\ link.up THEN NewMonitor(Completed(rec, acc))
                         ELSE monitor
    BY Zenon DEF Finish
  <1>3. /\ now + RetryTTL \in Nat /\ now + LedgerTTL \in Nat /\ RetryTTL \in Nat
        /\ now + LedgerTTL >= now + RetryTTL
    BY <1>0 DEF FrontAssumption, ServerAssumption
  <1> PICK lease : lease = IF rec.attempt = 1 THEN now + RetryTTL ELSE rec.lease
    OBVIOUS
  <1>4. lease \in Nat /\ acc \in SUBSET Hosts /\ acc \subseteq rec.hosts
    BY <1>1, <1>3 DEF Records
  <1>5. rec' = [rec EXCEPT !.st = "done", !.accepted = acc, !.lease = lease,
                           !.expires = now + LedgerTTL]
    BY <1>1, <1>2 DEF Completed, Records
  <1>6. /\ rec' \in Records /\ rec'.st = "done"
        /\ rec'.attempt = rec.attempt /\ rec'.ticket = rec.ticket /\ rec'.since = rec.since
        /\ rec'.expires = now + LedgerTTL /\ rec'.lease = lease
    BY <1>1, <1>3, <1>4, <1>5 DEF Records
  <1> PICK d : d = [attempt |-> rec.attempt, accepted |-> acc, at |-> rec.since]
    OBVIOUS
  <1>7. d \in Dispatched /\ dispatches' = Append(dispatches, d)
    <2>1. d \in Dispatched
      BY <1>1, <1>4 DEF Dispatched, Records
    <2>2. Completed(rec, acc).attempt = rec.attempt
      BY <1>2, <1>6
    <2> QED
      BY <1>2, <2>1, <2>2
  <1>8. dispatches' \in Seq(Dispatched) /\ Finishes
    BY <1>0, <1>4, <1>6, <1>7, RangeAppend DEF Finishes
  <1> PICK m : m = Receipt(rec')
    OBVIOUS
  <1>9. /\ m \in Receivable /\ m.kind = "executed" /\ m.wireTime = now
        /\ m.attempt = rec'.attempt /\ m.ticket = rec'.ticket
        /\ NewMonitor(rec') \in Monitors \cup {NoMonitor}
    BY <1>0, <1>6, ReceiptTyped
  <1>10. Says(m)
    <2>1. rec'.expires >= now + RetryTTL
      BY <1>3, <1>6
    <2>2. rec'.attempt = 1 => rec'.lease >= now + RetryTTL
      BY <1>3, <1>6
    <2> QED
      BY <1>6, <1>9, <2>1, <2>2 DEF Says
  <1>11. link' = Reply(link, m) \/ link' = link
    BY <1>2
  <1>12. link' \in Links /\ link'.up = link.up /\ link'.out = link.out
         /\ (link'.in = link.in \/ link'.in = Append(link.in, m))
    BY <1>0, <1>9, <1>11, Replied
  <1>13. monitor' \in Monitors \cup {NoMonitor}
    BY <1>0, <1>2, <1>9
  <1>14. ServiceTyped'
    BY <1>0, <1>6, <1>8, <1>12, <1>13 DEF ServiceTyped
  <1>15. Answered(link') /\ Ledger
    BY <1>8, <1>10, <1>12 DEF Answered, Ledger
  <1> QED
    BY <1>0, <1>14, <1>15 DEF ServerMoves

LEMMA ObserveMoves ==
    ASSUME FrontAssumption, ServiceTyped, Observe
    PROVE  ServiceTyped' /\ ServerMoves
  <1>0. /\ link \in Links /\ monitor \in Monitors \cup {NoMonitor} /\ now \in Nat
        /\ UNCHANGED <<now, actor, commands, events, rec, late, conn, losses, dispatches>>
    BY DEF Observe, ServiceTyped
  <1>1. monitor \in Monitors
    BY <1>0 DEF Observe, Watching, NoMonitor
  <1>2. PICK h \in monitor.targets \ monitor.online :
           /\ monitor' = [monitor EXCEPT !.online = @ \cup {h}]
           /\ probed' = probed \cup {<<monitor.attempt, h>>}
           /\ link' = Reply(link, Online(Op, monitor.attempt, h))
    BY DEF Observe
  <1>3. h \in Hosts /\ monitor.attempt \in {1, 2}
    BY <1>1 DEF Monitors
  <1>4. monitor' \in Monitors
    <2> PICK on : on = monitor.online \cup {h}
      OBVIOUS
    <2>1. on \subseteq monitor.targets /\ monitor' = [monitor EXCEPT !.online = on]
      BY <1>1, <1>2 DEF Monitors
    <2> QED
      BY <1>1, <2>1 DEF Monitors
  <1> PICK m : m = Online(Op, monitor.attempt, h)
    OBVIOUS
  <1>5. /\ m \in Receivable /\ m.kind = "online" /\ m.wireTime = now
        /\ m.attempt = monitor.attempt /\ m.host = h
    BY <1>0, <1>3, OpTyped DEF Online, Receivable
  <1>6. Says(m)
    BY <1>2, <1>5 DEF Says
  <1>7. link' \in Links /\ link'.up = link.up /\ link'.out = link.out
        /\ (link'.in = link.in \/ link'.in = Append(link.in, m))
    BY <1>0, <1>2, <1>5, Replied
  <1>8. ServiceTyped'
    BY <1>0, <1>4, <1>7 DEF ServiceTyped
  <1> QED
    BY <1>0, <1>2, <1>6, <1>7, <1>8 DEF ServerMoves, Answered, Ledger

LEMMA CloseMoves ==
    ASSUME FrontAssumption, ServiceTyped, ServerCloses
    PROVE  ServiceTyped' /\ ServerMoves
  <1>1. /\ link \in Links /\ link' = [link EXCEPT !.up = FALSE] /\ losses' = losses + 1
        /\ UNCHANGED <<now, actor, commands, events, rec, monitor, late, conn, dispatches, probed>>
    BY DEF ServerCloses, ServiceTyped
  <1>2. link' \in Links /\ ~link'.up /\ link'.out = link.out /\ link'.in = link.in
    BY <1>1 DEF Links
  <1>3. ServiceTyped'
    BY <1>1, <1>2 DEF ServiceTyped
  <1> QED
    BY <1>1, <1>2, <1>3 DEF ServerMoves, Answered, Ledger

LEMMA ServerStepMoves ==
    ASSUME FrontAssumption, ServiceTyped, ServerStep
    PROVE  ServiceTyped' /\ ServerMoves
  BY ServeMoves, ServeLateMoves, FinishMoves, ObserveMoves, CloseMoves DEF ServerStep

-----------------------------------------------------------------------------
(* Commands and progress *)

\* A wake command is a command.
LEMMA WakeCmdTyped ==
    ASSUME FrontAssumption, now \in Nat, NEW hs \in SUBSET Hosts, NEW a \in {1, 2}, NEW t \in Nat
    PROVE  /\ WakeCmd(Op, hs, a, t, now) \in Commands
           /\ WakeCmd(Op, hs, a, t, now).kind = "wake" /\ WakeCmd(Op, hs, a, t, now).attempt = a
           /\ WakeCmd(Op, hs, a, t, now).ticket = t /\ WakeCmd(Op, hs, a, t, now).at = now
  BY OpTyped DEF WakeCmd, Commands

LEMMA NewTyped ==
    ASSUME FrontAssumption, now \in Nat
    PROVE  /\ NewProgress \in Progresses /\ NewProgress.created = now
           /\ NewProgress.accepted = {} /\ NewProgress.online = {} /\ NewProgress.started = -1
  <1>1. now + ReceiptTimeout \in Nat
    BY DEF FrontAssumption, ServerAssumption
  <1> QED
    BY <1>1 DEF NewProgress, Progresses

\* Progress::receive keeps the time of the first receipt.
LEMMA ReceiveTyped ==
    ASSUME FrontAssumption, now \in Nat, NEW p \in Progresses, NEW acc \in SUBSET Hosts
    PROVE  LET q == Receive(p, acc) IN
           /\ q \in Progresses /\ q.created = p.created
           /\ q.accepted = acc /\ q.online = p.online \cap acc
           /\ q.started = (IF p.started = -1 THEN now ELSE p.started)
           /\ q.started \in Nat /\ q.deadline = q.started + WaitTimeout
  <1> PICK f : f = IF p.started = -1 THEN now ELSE p.started
    OBVIOUS
  <1> PICK on : on = p.online \cap acc
    OBVIOUS
  <1>1. f \in Nat /\ f + WaitTimeout \in Nat /\ on \in SUBSET Hosts /\ on \subseteq acc
    BY DEF Progresses, FrontAssumption, ActorAssumption
  <1>2. Receive(p, acc) = [p EXCEPT !.accepted = acc, !.online = on, !.started = f,
                                    !.deadline = f + WaitTimeout]
    BY DEF Receive
  <1> QED
    BY <1>1, <1>2 DEF Progresses

LEMMA ObservedTyped ==
    ASSUME NEW p \in Progresses, NEW h \in Hosts
    PROVE  LET q == Observed(p, h) IN
           /\ q \in Progresses /\ q.created = p.created /\ q.accepted = p.accepted
           /\ q.started = p.started /\ q.deadline = p.deadline
           /\ q.online = (IF h \in p.accepted THEN p.online \cup {h} ELSE p.online)
  <1> PICK on : on = p.online \cup {h}
    OBVIOUS
  <1>1. on \in SUBSET Hosts /\ (h \in p.accepted => on \subseteq p.accepted)
    BY DEF Progresses
  <1>2. Observed(p, h) = IF h \in p.accepted THEN [p EXCEPT !.online = on] ELSE p
    BY DEF Observed
  <1> QED
    BY <1>1, <1>2 DEF Progresses

\* Where an end was reached.
LEMMA OutcomeMeans ==
    ASSUME NEW p, NEW hs
    PROVE  /\ Outcome(p, hs) \in {"waiting", "rejected", "complete", "partial"}
           /\ Outcome(p, hs) \in {"complete", "partial"} =>
                 /\ p.accepted \subseteq p.online
                 /\ Outcome(p, hs) = "complete" <=> hs \subseteq p.online
  BY DEF Outcome

\* A wake is in its own set of records, and no wake is not.
LEMMA WakeOrNone ==
    ASSUME wake \in Wakes \cup {NoWake}
    PROVE  /\ wake # NoWake => wake \in Wakes
           /\ InProgress => wake \in Wakes /\ wake.finished = FALSE
           /\ NoWake.attempt = 0 /\ NoWake \notin Wakes
           /\ wake.attempt \in {0, 1, 2} /\ (wake.attempt = 0 <=> wake = NoWake)
  BY DEF NoWake, Wakes, InProgress

-----------------------------------------------------------------------------
(* The steps of the terminal UI *)

\* What every step of a driver leaves alone, and what it may do to the queues.
DriverFrame ==
    /\ UNCHANGED <<now, mode, serverVars>>
    /\ link' = link \/ (CloseLink /\ retry' # "sent")
    /\ events' = events \/ (events # <<>> /\ events' = Tail(events)) \/ events' = <<>>
    /\ \/ actor' = actor
       \/ /\ actor' \in Actors /\ actor'.pc \in {"announce", "gone"}
          /\ commands' = <<>> /\ wake' = NoWake

\* The wake is kept or dropped.
UiKeeps ==
    /\ wake' = NoWake \/ (wake' = wake /\ ui'.wakePhase = ui.wakePhase)
    /\ commands' = commands \/ commands' = <<>>
    /\ wake' = wake /\ InProgress /\ ui'.phase = "connected" =>
          ui.phase = "connected" \/ actor.pc = "gone"
    /\ retry' = retry \/ (retry = "sent" /\ retry' = "lost")
    /\ ui'.started = ui.started /\ UNCHANGED receipt1

UiStarts ==
    /\ ~ui.started /\ ui'.started /\ actor.pc # "gone"
    /\ \E hs \in Selections :
          /\ Send(WakeCmd(Op, hs, 1, 0, now))
          /\ wake' = [hosts |-> hs, attempt |-> 1, ticket |-> 0, receipt |-> FALSE,
                      finished |-> FALSE, progress |-> NewProgress,
                      receiptDeadline |-> now + ReceiptTimeout,
                      deadline |-> now + WaitTimeout]
    /\ ui'.wakePhase = "sending"
    /\ UNCHANGED <<receipt1, retry>>

UiResumes ==
    /\ InProgress /\ CanRecover(wake.progress) /\ actor.pc # "gone"
    /\ \E e \in Range(events) : e.kind = "connected"
    /\ Send(WakeCmd(Op, wake.hosts, wake.attempt, IF wake.attempt = 2 THEN wake.ticket ELSE 0, now))
    /\ wake' = [wake EXCEPT !.receipt = FALSE, !.receiptDeadline = now + ReceiptTimeout]
    /\ ui'.started = ui.started /\ ui'.wakePhase \in {"sending", "retrying"}
    /\ UNCHANGED <<receipt1, retry>>

UiFails ==
    /\ InProgress /\ wake' = [wake EXCEPT !.finished = TRUE]
    /\ ui'.started = ui.started /\ ui'.wakePhase = "failed"
    /\ UNCHANGED <<commands, receipt1, retry>>

UiReceives ==
    \E e \in Range(events) :
        LET p == Receive(wake.progress, e.accepted) IN
        /\ e.kind = "receipt" /\ InProgress /\ wake.attempt = e.attempt
        /\ wake' = [wake EXCEPT !.receipt = TRUE, !.ticket = e.ticket, !.progress = p,
                                !.deadline = p.deadline, !.finished = p.accepted = {}]
        /\ ui'.started = ui.started /\ ui'.wakePhase \in {"failed", "waiting"}
        /\ receipt1' = IF e.attempt = 1 /\ receipt1 = -1 THEN now ELSE receipt1
        /\ UNCHANGED <<commands, retry>>

UiObserves ==
    \E e \in Range(events) :
        LET p == Observed(wake.progress, e.host)
            end == Outcome(p, wake.hosts) IN
        /\ e.kind = "online" /\ wake # NoWake /\ wake.attempt = e.attempt
        /\ News(wake.progress, e.host)
        /\ wake' = [wake EXCEPT !.progress = p,
                                !.finished = @ \/ end \in {"complete", "partial"}]
        /\ ui' = IF end \in {"complete", "partial"} THEN [ui EXCEPT !.wakePhase = end] ELSE ui
        /\ UNCHANGED <<commands, receipt1, retry>>

UiRetries ==
    /\ InProgress /\ wake.receipt /\ now >= wake.deadline /\ wake.attempt = 1
    /\ events = <<>> /\ ui.phase = "connected" /\ actor.pc # "gone"
    /\ Send(WakeCmd(Op, wake.hosts, 2, wake.ticket, now))
    /\ wake' = [wake EXCEPT !.attempt = 2, !.receipt = FALSE, !.progress = NewProgress,
                            !.receiptDeadline = now + ReceiptTimeout,
                            !.deadline = now + WaitTimeout]
    /\ ui'.started = ui.started /\ ui'.wakePhase = "retrying"
    /\ retry' = IF link.up THEN "sent" ELSE "lost"
    /\ UNCHANGED <<receipt1, link>>

UiMoves ==
    /\ DriverFrame /\ UNCHANGED cli
    /\ \/ UiKeeps \/ UiStarts \/ UiResumes \/ UiFails
       \/ UiReceives \/ UiObserves \/ UiRetries

\* Where the UI's pages are.
Screens ==
    [screen : {"hosts", "wake", "connect"},
     phase : {"connecting", "connected", "failed", "disconnected"},
     wakePhase : {"none", "sending", "retrying", "waiting", "complete", "partial", "failed"},
     client : BOOLEAN, started : BOOLEAN]

LEMMA KeysMove ==
    ASSUME ServiceTyped, DriverTyped, OneWake, InTui, Stays \/ Leaves
    PROVE  UiMoves /\ ui' \in Screens
  <1>0. ui \in Screens /\ actor \in Actors
    BY DEF DriverTyped, Screens, ServiceTyped
  <1>1. CASE StartWake
    <2>1. ui' = [ui EXCEPT !.screen = "wake", !.wakePhase = "sending", !.started = TRUE]
      BY <1>1 DEF StartWake
    <2>2. ui' \in Screens /\ ui'.started /\ ui'.wakePhase = "sending"
      BY <1>0, <2>1 DEF Screens
    <2>3. DriverFrame /\ UNCHANGED cli
      BY <1>1 DEF StartWake, TuiFrame, DriverFrame, InTui
    <2>4. UiStarts
      BY <1>1, <2>2 DEF StartWake, UiStarts
    <2> QED
      BY <2>2, <2>3, <2>4 DEF UiMoves
  <1>2. CASE CloseWake \/ LeaveWake
    <2>1. ui' = [ui EXCEPT !.screen = "hosts"]
      BY <1>2 DEF CloseWake, LeaveWake
    <2>2. ui' \in Screens /\ ui'.started = ui.started
      BY <1>0, <2>1 DEF Screens
    <2>3. DriverFrame /\ UNCHANGED cli
      BY <1>2 DEF CloseWake, LeaveWake, TuiFrame, DriverFrame, InTui
    <2>4. UiKeeps
      <3>1. wake' = NoWake /\ UNCHANGED <<commands, receipt1, retry>>
        BY <1>2 DEF CloseWake, LeaveWake
      <3>2. wake' = wake => ~InProgress
        BY <3>1 DEF InProgress
      <3> QED
        BY <2>2, <3>1, <3>2 DEF UiKeeps
    <2> QED
      BY <2>2, <2>3, <2>4 DEF UiMoves
  <1>3. CASE Disconnect
    <2>1. ui' = [ui EXCEPT !.screen = "connect", !.client = FALSE, !.phase = "disconnected"]
      BY <1>3 DEF Disconnect
    <2>2. ui' \in Screens /\ ui'.started = ui.started
      BY <1>0, <2>1 DEF Screens
    <2>3. DriverFrame /\ UNCHANGED cli
      <3>1. actor' \in Actors /\ actor'.pc = "gone"
        BY <1>0, <1>3 DEF Disconnect, Actors, ActorPlaces
      <3>2. retry' # "sent"
        BY <1>3 DEF Disconnect
      <3> QED
        BY <1>3, <3>1, <3>2 DEF Disconnect, DriverFrame, InTui
    <2>4. UiKeeps
      <3>1. wake' = NoWake /\ commands' = <<>> /\ UNCHANGED receipt1
            /\ (retry' = retry \/ (retry = "sent" /\ retry' = "lost"))
        BY <1>3 DEF Disconnect
      <3>2. wake' = wake => ~InProgress
        BY <3>1 DEF InProgress
      <3> QED
        BY <2>2, <3>1, <3>2 DEF UiKeeps
    <2> QED
      BY <2>2, <2>3, <2>4 DEF UiMoves
  <1>4. CASE Connect
    <2>1. ui' = [ui EXCEPT !.screen = "hosts", !.client = TRUE, !.phase = "connecting"]
      BY <1>4 DEF Connect
    <2>2. ui' \in Screens /\ ui'.started = ui.started
      BY <1>0, <2>1 DEF Screens
    <2>3. DriverFrame /\ UNCHANGED cli
      <3>1. actor' \in Actors
        <4> PICK n : n = 1
          OBVIOUS
        <4>1. actor' = [pc |-> "announce", attempt |-> n, until |-> 0] /\ n \in Nat \ {0}
          BY <1>4 DEF Connect
        <4> QED
          BY <4>1 DEF Actors, ActorPlaces
      <3>2. actor'.pc = "announce"
        BY <1>4 DEF Connect
      <3> QED
        BY <1>4, <3>1, <3>2 DEF Connect, DriverFrame, InTui
    <2>4. UiKeeps
      <3>1. wake' = NoWake /\ commands' = <<>> /\ UNCHANGED <<receipt1, retry>>
        BY <1>4 DEF Connect
      <3>2. wake' = wake => ~InProgress
        BY <3>1 DEF InProgress
      <3> QED
        BY <2>2, <3>1, <3>2 DEF UiKeeps
    <2> QED
      BY <2>2, <2>3, <2>4 DEF UiMoves
  <1> QED
    BY <1>1, <1>2, <1>3, <1>4 DEF Stays, Leaves

\* apply_client_event: one event of the queue.
LEMMA EventMoves ==
    ASSUME ServiceTyped, DriverTyped, OneWake, InTui, ReadEvent
    PROVE  UiMoves /\ ui' \in Screens
  <1> PICK e : e = Head(events)
    OBVIOUS
  <1>0. /\ ui \in Screens /\ events \in Seq(Remarks \cup Replies) /\ events # <<>>
        /\ events' = Tail(events)
        /\ UNCHANGED <<now, actor, pending, link, serverVars, retry, cli, mode>>
    BY DEF DriverTyped, Screens, ServiceTyped, ReadEvent, InTui
  <1>1. e \in Range(events) /\ DriverFrame
    BY <1>0, RangeTyped DEF DriverFrame
  <1>2. \/ e.kind = "connected" /\ Resume /\ UNCHANGED receipt1
        \/ /\ e.kind \in {"connecting", "failed"}
           /\ ui' = [ui EXCEPT !.phase = e.kind]
           /\ UNCHANGED <<wake, commands, receipt1>>
        \/ e.kind = "receipt" /\ ApplyReceipt(e) /\ UNCHANGED commands
        \/ e.kind = "online" /\ ApplyOnline(e) /\ UNCHANGED <<commands, receipt1>>
        \/ e.kind = "error" /\ UNCHANGED <<wake, ui, commands, receipt1>>
        \/ e.kind = "disconnected" /\ ApplyDisconnected /\ UNCHANGED <<commands, receipt1>>
    BY Zenon DEF ReadEvent
  <1>3. CASE e.kind = "connected" /\ Resume /\ UNCHANGED receipt1
    <2>1. CASE ~InProgress
      <3>1. ui' = [ui EXCEPT !.phase = "connected"] /\ UNCHANGED <<wake, commands>>
        BY <1>3, <2>1, Zenon DEF Resume
      <3>2. ui' \in Screens /\ ui'.started = ui.started /\ ui'.wakePhase = ui.wakePhase
        BY <1>0, <3>1 DEF Screens
      <3>3. UiKeeps
        BY <1>0, <1>3, <2>1, <3>1, <3>2 DEF UiKeeps
      <3> QED
        BY <1>0, <1>1, <3>2, <3>3 DEF UiMoves
    <2>2. CASE InProgress /\ ~CanRecover(wake.progress)
      <3>1. /\ wake' = [wake EXCEPT !.finished = TRUE] /\ UNCHANGED commands
            /\ ui' = [ui EXCEPT !.phase = "connected", !.wakePhase = "failed"]
        BY <1>3, <2>2, Zenon DEF Resume
      <3>2. ui' \in Screens /\ ui'.started = ui.started /\ ui'.wakePhase = "failed"
        BY <1>0, <3>1 DEF Screens
      <3>3. UiFails
        BY <1>0, <1>3, <2>2, <3>1, <3>2 DEF UiFails
      <3> QED
        BY <1>0, <1>1, <3>2, <3>3 DEF UiMoves
    <2>3. CASE InProgress /\ CanRecover(wake.progress) /\ actor.pc = "gone"
      <3>1. ui' = [ui EXCEPT !.phase = "connected"] /\ UNCHANGED <<wake, commands>>
        BY <1>3, <2>3, Zenon DEF Resume
      <3>2. ui' \in Screens /\ ui'.started = ui.started /\ ui'.wakePhase = ui.wakePhase
        BY <1>0, <3>1 DEF Screens
      <3>3. UiKeeps
        BY <1>0, <1>3, <2>3, <3>1, <3>2 DEF UiKeeps
      <3> QED
        BY <1>0, <1>1, <3>2, <3>3 DEF UiMoves
    <2>4. CASE InProgress /\ CanRecover(wake.progress) /\ actor.pc # "gone"
      <3>1. /\ Send(WakeCmd(Op, wake.hosts, wake.attempt,
                            IF wake.attempt = 2 THEN wake.ticket ELSE 0, now))
            /\ wake' = [wake EXCEPT !.receipt = FALSE,
                                    !.receiptDeadline = now + ReceiptTimeout]
            /\ ui' = [ui EXCEPT !.phase = "connected",
                        !.wakePhase = IF wake.attempt = 2 THEN "retrying" ELSE "sending"]
        BY <1>3, <2>4, Zenon DEF Resume
      <3>2. ui' \in Screens /\ ui'.started = ui.started
            /\ ui'.wakePhase \in {"sending", "retrying"}
        BY <1>0, <3>1 DEF Screens
      <3>3. UiResumes
        BY <1>0, <1>1, <1>3, <2>4, <3>1, <3>2 DEF UiResumes
      <3> QED
        BY <1>0, <1>1, <3>2, <3>3 DEF UiMoves
    <2> QED
      BY <2>1, <2>2, <2>3, <2>4
  <1>4. CASE /\ e.kind \in {"connecting", "failed"}
             /\ ui' = [ui EXCEPT !.phase = e.kind]
             /\ UNCHANGED <<wake, commands, receipt1>>
    <2>1. ui' \in Screens /\ ui'.started = ui.started /\ ui'.wakePhase = ui.wakePhase
          /\ ui'.phase # "connected"
      BY <1>0, <1>4 DEF Screens
    <2>2. UiKeeps
      BY <1>0, <1>4, <2>1 DEF UiKeeps
    <2> QED
      BY <1>0, <1>1, <2>1, <2>2 DEF UiMoves
  <1>5. CASE e.kind = "receipt" /\ ApplyReceipt(e) /\ UNCHANGED commands
    <2>1. CASE ~InProgress \/ wake.attempt # e.attempt
      <3>1. UNCHANGED <<wake, ui, receipt1>>
        BY <1>5, <2>1, Zenon DEF ApplyReceipt
      <3>2. UiKeeps
        BY <1>0, <1>5, <3>1 DEF UiKeeps
      <3> QED
        BY <1>0, <1>1, <3>1, <3>2 DEF UiMoves
    <2>2. CASE InProgress /\ wake.attempt = e.attempt
      <3> PICK p : p = Receive(wake.progress, e.accepted)
        OBVIOUS
      <3>1. /\ wake' = [wake EXCEPT !.receipt = TRUE, !.ticket = e.ticket, !.progress = p,
                                    !.deadline = p.deadline, !.finished = p.accepted = {}]
            /\ ui' = [ui EXCEPT !.wakePhase = IF p.accepted = {} THEN "failed" ELSE "waiting"]
            /\ receipt1' = IF e.attempt = 1 /\ receipt1 = -1 THEN now ELSE receipt1
        BY <1>5, <2>2, Zenon DEF ApplyReceipt
      <3>2. ui' \in Screens /\ ui'.started = ui.started
            /\ ui'.wakePhase \in {"failed", "waiting"}
        BY <1>0, <3>1 DEF Screens
      <3>3. UiReceives
        BY <1>0, <1>1, <1>5, <2>2, <3>1, <3>2 DEF UiReceives
      <3> QED
        BY <1>0, <1>1, <3>2, <3>3 DEF UiMoves
    <2> QED
      BY <2>1, <2>2
  <1>6. CASE e.kind = "online" /\ ApplyOnline(e) /\ UNCHANGED <<commands, receipt1>>
    <2>1. CASE wake = NoWake \/ wake.attempt # e.attempt \/ ~News(wake.progress, e.host)
      <3>1. UNCHANGED <<wake, ui>>
        BY <1>6, <2>1, Zenon DEF ApplyOnline
      <3>2. UiKeeps
        BY <1>0, <1>6, <3>1 DEF UiKeeps
      <3> QED
        BY <1>0, <1>1, <3>1, <3>2 DEF UiMoves
    <2>2. CASE wake # NoWake /\ wake.attempt = e.attempt /\ News(wake.progress, e.host)
      <3> PICK p : p = Observed(wake.progress, e.host)
        OBVIOUS
      <3> PICK end : end = Outcome(p, wake.hosts)
        OBVIOUS
      <3>1. /\ wake' = [wake EXCEPT !.progress = p,
                                    !.finished = @ \/ end \in {"complete", "partial"}]
            /\ ui' = IF end \in {"complete", "partial"}
                     THEN [ui EXCEPT !.wakePhase = end] ELSE ui
        BY <1>6, <2>2, Zenon DEF ApplyOnline
      <3>2. ui' \in Screens
        BY <1>0, <3>1 DEF Screens
      <3>3. UiObserves
        BY <1>0, <1>1, <1>6, <2>2, <3>1 DEF UiObserves
      <3> QED
        BY <1>0, <1>1, <3>2, <3>3 DEF UiMoves
    <2> QED
      BY <2>1, <2>2
  <1>7. CASE e.kind = "error" /\ UNCHANGED <<wake, ui, commands, receipt1>>
    <2>1. UiKeeps
      BY <1>0, <1>7 DEF UiKeeps
    <2> QED
      BY <1>0, <1>1, <1>7, <2>1 DEF UiMoves
  <1>8. CASE e.kind = "disconnected" /\ ApplyDisconnected /\ UNCHANGED <<commands, receipt1>>
    <2>1. /\ ui' = [ui EXCEPT !.client = FALSE, !.phase = "disconnected",
                              !.screen = IF InProgress THEN @ ELSE "connect"]
          /\ UNCHANGED wake
      BY <1>8 DEF ApplyDisconnected
    <2>2. ui' \in Screens /\ ui'.started = ui.started /\ ui'.wakePhase = ui.wakePhase
          /\ ui'.phase # "connected"
      BY <1>0, <2>1 DEF Screens
    <2>3. UiKeeps
      BY <1>0, <1>8, <2>1, <2>2 DEF UiKeeps
    <2> QED
      BY <1>0, <1>1, <2>2, <2>3 DEF UiMoves
  <1> QED
    BY <1>2, <1>3, <1>4, <1>5, <1>6, <1>7, <1>8

\* tick_wake, and the end of an actor that said nothing.
LEMMA TicksMove ==
    ASSUME ServiceTyped, DriverTyped, OneWake, InTui,
           ReadClosed \/ ExpireRecovery \/ ReceiptTimesOut \/ Retry
    PROVE  UiMoves /\ ui' \in Screens
  <1>0. ui \in Screens
    BY DEF DriverTyped, Screens
  <1>1. CASE ReadClosed
    <2>1. /\ ui' = [ui EXCEPT !.client = FALSE, !.phase = "disconnected",
                              !.screen = IF InProgress THEN @ ELSE "connect"]
          /\ UNCHANGED <<wake, commands, receipt1, retry>>
      BY <1>1 DEF ReadClosed, ApplyDisconnected
    <2>2. ui' \in Screens /\ ui'.started = ui.started /\ ui'.wakePhase = ui.wakePhase
          /\ ui'.phase # "connected"
      BY <1>0, <2>1 DEF Screens
    <2>3. DriverFrame /\ UNCHANGED cli
      BY <1>1 DEF ReadClosed, TuiFrame, DriverFrame, InTui
    <2>4. UiKeeps
      BY <2>1, <2>2 DEF UiKeeps
    <2> QED
      BY <2>2, <2>3, <2>4 DEF UiMoves
  <1>2. CASE ExpireRecovery
    <2>1. /\ ui' = [ui EXCEPT !.wakePhase = "failed"] /\ InProgress
          /\ wake' = [wake EXCEPT !.finished = TRUE] /\ UNCHANGED <<commands, receipt1, retry>>
      BY <1>2 DEF ExpireRecovery, Ticking
    <2>2. ui' \in Screens /\ ui'.started = ui.started /\ ui'.wakePhase = "failed"
      BY <1>0, <2>1 DEF Screens
    <2>3. DriverFrame /\ UNCHANGED cli
      BY <1>2 DEF ExpireRecovery, TuiFrame, DriverFrame, InTui
    <2>4. UiFails
      BY <2>1, <2>2 DEF UiFails
    <2> QED
      BY <2>2, <2>3, <2>4 DEF UiMoves
  <1>3. ASSUME GiveUp, UNCHANGED receipt1, TuiFrame
        PROVE  UiMoves /\ ui' \in Screens
    <2>1. ui' = [ui EXCEPT !.screen = "hosts"] /\ wake' = NoWake /\ UNCHANGED <<commands, retry>>
      BY <1>3 DEF GiveUp
    <2>2. ui' \in Screens /\ ui'.started = ui.started
      BY <1>0, <2>1 DEF Screens
    <2>3. DriverFrame /\ UNCHANGED cli
      BY <1>3 DEF TuiFrame, DriverFrame, InTui
    <2>4. wake' = wake => ~InProgress
      BY <2>1 DEF InProgress
    <2>5. UiKeeps
      BY <1>3, <2>1, <2>2, <2>4 DEF UiKeeps
    <2> QED
      BY <2>2, <2>3, <2>5 DEF UiMoves
  <1>4. CASE ReceiptTimesOut
    BY <1>3, <1>4 DEF ReceiptTimesOut
  <1>5. CASE Retry
    <2>0. Live /\ WaitOverFor /\ UNCHANGED receipt1 /\ TuiFrame
      BY <1>5 DEF Retry
    <2>1. CASE wake.attempt = 1 /\ actor.pc # "gone"
      <3>1. /\ Send(WakeCmd(Op, wake.hosts, 2, wake.ticket, now))
            /\ wake' = [wake EXCEPT !.attempt = 2, !.receipt = FALSE, !.progress = NewProgress,
                                    !.receiptDeadline = now + ReceiptTimeout,
                                    !.deadline = now + WaitTimeout]
            /\ ui' = [ui EXCEPT !.wakePhase = "retrying"]
            /\ retry' = IF link.up THEN "sent" ELSE "lost"
        BY <1>5, <2>1, Zenon DEF Retry
      <3>2. ui' \in Screens /\ ui'.started = ui.started /\ ui'.wakePhase = "retrying"
        BY <1>0, <3>1 DEF Screens
      <3>3. DriverFrame /\ UNCHANGED <<cli, link>>
        BY <2>0 DEF TuiFrame, DriverFrame, InTui
      <3>4. UiRetries
        BY <2>0, <2>1, <3>1, <3>2, <3>3 DEF UiRetries, Live, Ticking, WaitOverFor
      <3> QED
        BY <3>2, <3>3, <3>4 DEF UiMoves
    <2>2. CASE ~(wake.attempt = 1 /\ actor.pc # "gone")
      <3>1. GiveUp
        BY <1>5, <2>2, Zenon DEF Retry
      <3> QED
        BY <1>3, <2>0, <3>1
    <2> QED
      BY <2>1, <2>2
  <1> QED
    BY <1>1, <1>2, <1>4, <1>5

\* What a driver's step does to the service.
LEMMA DriverKeepsTypes ==
    ASSUME ServiceTyped, DriverFrame,
           \/ commands' = commands \/ commands' = <<>>
           \/ \E c \in Commands : commands' = Append(commands, c)
    PROVE  /\ ServiceTyped'
           /\ Range(link'.in) \subseteq Range(link.in) /\ link'.out = link.out /\ Underway' = Underway
           /\ Range(events') \subseteq Range(events)
           /\ \A c \in Commands : commands' = Append(commands, c) =>
                 Queued' = IF c.kind = "wake" THEN Queued \cup {c} ELSE Queued
           /\ commands' = commands => Queued' = Queued
           /\ commands' = <<>> => Queued' = {}
  <1>0. /\ link \in Links /\ events \in Seq(Remarks \cup Replies) /\ commands \in Seq(Commands)
        /\ actor \in Actors
    BY DEF ServiceTyped
  <1>1. link' \in Links /\ Range(link'.in) \subseteq Range(link.in) /\ link'.out = link.out
    BY <1>0, LinkClosed, RangeEmpty DEF DriverFrame
  <1>2. events' \in Seq(Remarks \cup Replies) /\ Range(events') \subseteq Range(events)
    <2>1. CASE events' = events
      BY <1>0, <2>1
    <2>2. CASE events # <<>> /\ events' = Tail(events)
      BY <1>0, <2>2, RangeTail
    <2>3. CASE events' = <<>>
      BY <2>3, RangeEmpty
    <2> QED
      BY <2>1, <2>2, <2>3 DEF DriverFrame
  <1>3. /\ commands' \in Seq(Commands)
        /\ \A c \in Commands : commands' = Append(commands, c) =>
              Queued' = IF c.kind = "wake" THEN Queued \cup {c} ELSE Queued
        /\ commands' = commands => Queued' = Queued
        /\ commands' = <<>> => Queued' = {}
    <2>1. \A c \in Commands : commands' = Append(commands, c) =>
              /\ commands' \in Seq(Commands) /\ Range(commands') = Range(commands) \cup {c}
      BY <1>0, RangeAppend
    <2>2. commands' = <<>> => commands' \in Seq(Commands) /\ Range(commands') = {}
      BY RangeEmpty
    <2>3. commands' \in Seq(Commands)
      BY <1>0, <2>1, <2>2
    <2>4. \A c \in Commands : commands' = Append(commands, c) =>
              Queued' = IF c.kind = "wake" THEN Queued \cup {c} ELSE Queued
      BY <2>1 DEF Queued
    <2> QED
      BY <2>2, <2>3, <2>4 DEF Queued
  <1>4. actor' \in Actors
    BY <1>0 DEF DriverFrame
  <1>5. ServiceTyped'
    BY <1>1, <1>2, <1>3, <1>4 DEF ServiceTyped, DriverFrame, serverVars
  <1>6. Underway' = Underway
    BY <1>1 DEF Underway, DriverFrame, serverVars
  <1> QED
    BY <1>1, <1>2, <1>3, <1>5, <1>6

\* A reply in the queue has the fields of its kind.
LEMMA ReplyFields ==
    ASSUME ServiceTyped, NEW e \in Range(events)
    PROVE  /\ e.kind = "receipt" => e.accepted \in SUBSET Hosts /\ e.ticket \in Nat
                                    /\ e.attempt \in {1, 2}
           /\ e.kind = "online" => e.host \in Hosts /\ e.attempt \in {1, 2}
  <1>1. e \in Remarks \cup Replies
    BY RangeTyped DEF ServiceTyped
  <1>2. e \in Remarks => e.kind \notin {"receipt", "online"}
    BY DEF Remarks, Note, ConnectionEvents
  <1> QED
    BY <1>1, <1>2 DEF Replies

\* The wake stays a wake, in the steps that change it.
LEMMA WakeTyped ==
    ASSUME FrontAssumption, ServiceTyped, DriverTyped, UiMoves
    PROVE  wake' \in Wakes \cup {NoWake} /\ receipt1' \in Nat \cup {-1}
  <1>0. /\ wake \in Wakes \cup {NoWake} /\ receipt1 \in Nat \cup {-1} /\ now \in Nat
        /\ (wake # NoWake => wake \in Wakes) /\ (InProgress => wake \in Wakes)
    BY WakeOrNone DEF DriverTyped, ServiceTyped
  <1>1. /\ now + ReceiptTimeout \in Nat /\ now + WaitTimeout \in Nat
        /\ NewProgress \in Progresses
    <2>1. ReceiptTimeout \in Nat /\ WaitTimeout \in Nat
      BY DEF FrontAssumption, ServerAssumption, ActorAssumption
    <2> QED
      BY <1>0, <2>1, NewTyped
  <1> PICK rd, wd, np : rd = now + ReceiptTimeout /\ wd = now + WaitTimeout /\ np = NewProgress
    OBVIOUS
  <1>2. rd \in Nat /\ wd \in Nat /\ np \in Progresses
    BY <1>1
  <1>3. CASE UiKeeps
    BY <1>0, <1>3 DEF UiKeeps
  <1>4. CASE UiStarts
    <2>1. PICK hs \in Selections :
             wake' = [hosts |-> hs, attempt |-> 1, ticket |-> 0, receipt |-> FALSE,
                      finished |-> FALSE, progress |-> np, receiptDeadline |-> rd,
                      deadline |-> wd]
      BY <1>4 DEF UiStarts
    <2>2. wake' \in Wakes
      BY <1>2, <2>1 DEF Wakes
    <2> QED
      BY <1>0, <1>4, <2>2 DEF UiStarts
  <1>5. CASE UiResumes
    <2>1. wake \in Wakes /\ wake' = [wake EXCEPT !.receipt = FALSE, !.receiptDeadline = rd]
      BY <1>0, <1>5 DEF UiResumes
    <2>2. wake' \in Wakes
      BY <1>2, <2>1 DEF Wakes
    <2> QED
      BY <1>0, <1>5, <2>2 DEF UiResumes
  <1>6. CASE UiFails
    <2>1. wake \in Wakes /\ wake' = [wake EXCEPT !.finished = TRUE]
      BY <1>0, <1>6 DEF UiFails
    <2>2. wake' \in Wakes
      BY <2>1 DEF Wakes
    <2> QED
      BY <1>0, <1>6, <2>2 DEF UiFails
  <1>7. CASE UiReceives
    <2>1. PICK e \in Range(events) :
             LET p == Receive(wake.progress, e.accepted) IN
             /\ e.kind = "receipt" /\ InProgress
             /\ wake' = [wake EXCEPT !.receipt = TRUE, !.ticket = e.ticket, !.progress = p,
                                     !.deadline = p.deadline, !.finished = p.accepted = {}]
             /\ receipt1' = IF e.attempt = 1 /\ receipt1 = -1 THEN now ELSE receipt1
      BY <1>7, Zenon DEF UiReceives
    <2> PICK p : p = Receive(wake.progress, e.accepted)
      OBVIOUS
    <2>2. wake \in Wakes /\ wake.progress \in Progresses /\ e.accepted \in SUBSET Hosts
          /\ e.ticket \in Nat
      BY <1>0, <2>1, ReplyFields DEF Wakes
    <2>3. p \in Progresses
      BY <1>0, <2>2, ReceiveTyped
    <2>4. p.deadline \in Nat
      BY <2>3 DEF Progresses
    <2> PICK done, dl, t : done = (p.accepted = {}) /\ dl = p.deadline /\ t = e.ticket
      OBVIOUS
    <2>5. wake' = [wake EXCEPT !.receipt = TRUE, !.ticket = t, !.progress = p,
                               !.deadline = dl, !.finished = done]
          /\ done \in BOOLEAN /\ dl \in Nat /\ t \in Nat
      BY <2>1, <2>2, <2>4
    <2>6. wake' \in Wakes
      BY <2>2, <2>3, <2>5 DEF Wakes
    <2> QED
      BY <1>0, <2>1, <2>6
  <1>8. CASE UiObserves
    <2>1. PICK e \in Range(events) :
             LET p == Observed(wake.progress, e.host)
                 end == Outcome(p, wake.hosts) IN
             /\ e.kind = "online" /\ wake # NoWake
             /\ wake' = [wake EXCEPT !.progress = p,
                                     !.finished = @ \/ end \in {"complete", "partial"}]
             /\ UNCHANGED receipt1
      BY <1>8, Zenon DEF UiObserves
    <2> PICK p : p = Observed(wake.progress, e.host)
      OBVIOUS
    <2> PICK done : done = (wake.finished \/ Outcome(p, wake.hosts) \in {"complete", "partial"})
      OBVIOUS
    <2>2. wake \in Wakes /\ wake.progress \in Progresses /\ e.host \in Hosts
      BY <1>0, <2>1, ReplyFields DEF Wakes
    <2>3. p \in Progresses
      BY <2>2, ObservedTyped
    <2>4. done \in BOOLEAN /\ wake' = [wake EXCEPT !.progress = p, !.finished = done]
      BY <2>1, <2>2 DEF Wakes
    <2>5. wake' \in Wakes
      BY <2>2, <2>3, <2>4 DEF Wakes
    <2> QED
      BY <1>0, <2>1, <2>5
  <1>9. CASE UiRetries
    <2>1. wake \in Wakes
          /\ wake' = [wake EXCEPT !.attempt = 2, !.receipt = FALSE, !.progress = np,
                                  !.receiptDeadline = rd, !.deadline = wd]
      BY <1>0, <1>9 DEF UiRetries
    <2>2. wake' \in Wakes
      BY <1>2, <2>1 DEF Wakes
    <2> QED
      BY <1>0, <1>9, <2>2 DEF UiRetries
  <1> QED
    BY <1>3, <1>4, <1>5, <1>6, <1>7, <1>8, <1>9 DEF UiMoves

\* The command that a step of the UI queues, if it queues one.
LEMMA UiCommands ==
    ASSUME FrontAssumption, ServiceTyped, DriverTyped, UiMoves
    PROVE  \/ UiKeeps /\ (commands' = commands \/ commands' = <<>>)
           \/ (UiFails \/ UiReceives \/ UiObserves) /\ commands' = commands
           \/ \E c \in Commands :
                 /\ commands' = Append(commands, c)
                 /\ c.kind = "wake" /\ c.at = now /\ actor.pc # "gone"
                 /\ \/ UiStarts /\ c.attempt = 1
                    \/ UiResumes /\ c.attempt = wake.attempt
                       /\ (wake.attempt = 2 => c.ticket = wake.ticket)
                    \/ UiRetries /\ c.attempt = 2 /\ c.ticket = wake.ticket
  <1>0. now \in Nat /\ (InProgress => wake \in Wakes)
    BY WakeOrNone DEF DriverTyped, ServiceTyped
  <1>1. CASE UiStarts
    <2>1. PICK hs \in Selections : commands' = Append(commands, WakeCmd(Op, hs, 1, 0, now))
      BY <1>1 DEF UiStarts, Send
    <2>2. hs \in SUBSET Hosts
      BY DEF Selections
    <2>3. actor.pc # "gone"
      BY <1>1 DEF UiStarts
    <2> PICK c : c = WakeCmd(Op, hs, 1, 0, now)
      OBVIOUS
    <2>4. c \in Commands /\ c.kind = "wake" /\ c.attempt = 1 /\ c.at = now
      BY <1>0, <2>2, WakeCmdTyped
    <2> QED
      BY <1>1, <2>1, <2>3, <2>4
  <1>2. CASE UiResumes
    <2> PICK t : t = IF wake.attempt = 2 THEN wake.ticket ELSE 0
      OBVIOUS
    <2>1. commands' = Append(commands, WakeCmd(Op, wake.hosts, wake.attempt, t, now))
          /\ actor.pc # "gone" /\ wake \in Wakes
      BY <1>0, <1>2 DEF UiResumes, Send
    <2>2. wake.hosts \in SUBSET Hosts /\ wake.attempt \in {1, 2} /\ t \in Nat
      BY <2>1 DEF Wakes, Selections
    <2> QED
      BY <1>0, <1>2, <2>1, <2>2, WakeCmdTyped
  <1>3. CASE UiRetries
    <2>1. commands' = Append(commands, WakeCmd(Op, wake.hosts, 2, wake.ticket, now))
          /\ actor.pc # "gone" /\ wake \in Wakes
      BY <1>0, <1>3 DEF UiRetries, Send
    <2>2. wake.hosts \in SUBSET Hosts /\ wake.ticket \in Nat
      BY <2>1 DEF Wakes, Selections
    <2> QED
      BY <1>0, <1>3, <2>1, <2>2, WakeCmdTyped
  <1>4. CASE UiFails \/ UiReceives \/ UiObserves
    BY <1>4 DEF UiFails, UiReceives, UiObserves
  <1>5. CASE UiKeeps
    BY <1>5 DEF UiKeeps
  <1> QED
    BY <1>1, <1>2, <1>3, <1>4, <1>5 DEF UiMoves

\* The UI's steps keep the types.
LEMMA UiKeepsTypes ==
    ASSUME FrontAssumption, ServiceTyped, DriverTyped, OneWake, mode = "ui",
           UiMoves, ui' \in Screens
    PROVE  /\ ServiceTyped' /\ DriverTyped' /\ OneWake'
           /\ Range(link'.in) \subseteq Range(link.in) /\ Underway' = Underway
           /\ Range(events') \subseteq Range(events)
           /\ \/ Queued' \subseteq Queued
              \/ /\ actor' = actor /\ actor.pc # "gone"
                 /\ \E c \in Commands :
                    /\ Queued' = Queued \cup {c} /\ c.kind = "wake" /\ c.at = now
                    /\ \/ UiStarts /\ c.attempt = 1
                       \/ UiResumes /\ c.attempt = wake.attempt
                          /\ (wake.attempt = 2 => c.ticket = wake.ticket)
                       \/ UiRetries /\ c.attempt = 2 /\ c.ticket = wake.ticket
  <1>1. DriverFrame /\ UNCHANGED <<cli, mode, serverVars, now>>
    BY DEF UiMoves, DriverFrame
  <1>2. \/ commands' = commands \/ commands' = <<>>
        \/ \E c \in Commands : commands' = Append(commands, c)
    BY UiCommands
  <1>3. /\ ServiceTyped'
        /\ Range(link'.in) \subseteq Range(link.in) /\ link'.out = link.out /\ Underway' = Underway
        /\ Range(events') \subseteq Range(events)
        /\ \A c \in Commands : commands' = Append(commands, c) =>
              Queued' = IF c.kind = "wake" THEN Queued \cup {c} ELSE Queued
        /\ commands' = commands => Queued' = Queued
        /\ commands' = <<>> => Queued' = {}
    BY <1>1, <1>2, DriverKeepsTypes
  <1>4. wake' \in Wakes \cup {NoWake} /\ receipt1' \in Nat \cup {-1}
    BY WakeTyped
  <1>5. retry' \in {"none", "sent", "lost", "refused"}
    BY DEF UiMoves, UiKeeps, UiStarts, UiResumes, UiFails, UiReceives, UiObserves, UiRetries,
           DriverTyped
  <1>6. DriverTyped'
    BY <1>1, <1>4, <1>5 DEF DriverTyped, Screens
  <1>7. ~ui'.started => UiKeeps /\ ~ui.started
    <2>1. CASE UiKeeps
      BY <2>1 DEF UiKeeps
    <2>2. CASE UiStarts
      BY <2>2 DEF UiStarts
    <2>3. CASE UiResumes \/ UiFails \/ UiRetries \/ UiReceives
      BY <2>3 DEF UiResumes, UiFails, UiRetries, UiReceives, InProgress, OneWake
    <2>4. CASE UiObserves
      <3>1. wake # NoWake /\ ui.started /\ (ui' = ui \/ \E x : ui' = [ui EXCEPT !.wakePhase = x])
        BY <2>4 DEF UiObserves, OneWake
      <3>2. ui \in Screens
        BY DEF DriverTyped, Screens
      <3> QED
        BY <3>1, <3>2 DEF Screens
    <2> QED
      BY <2>1, <2>2, <2>3, <2>4 DEF UiMoves
  <1>8. ~ui'.started => wake' = NoWake /\ retry' = "none"
    BY <1>7 DEF UiKeeps, OneWake
  <1>9. ~ui'.started /\ cli'.attempt = 0 =>
           /\ Queued' = {} /\ Underway' = {}
           /\ rec' = Absent /\ dispatches' = <<>> /\ receipt1' = -1
    <2> SUFFICES ASSUME ~ui'.started, cli'.attempt = 0
                 PROVE  /\ Queued' = {} /\ Underway' = {}
                        /\ rec' = Absent /\ dispatches' = <<>> /\ receipt1' = -1
      OBVIOUS
    <2>1. UiKeeps /\ ~ui.started /\ cli.attempt = 0
      BY <1>1, <1>7
    <2>2. Queued = {} /\ Underway = {} /\ rec = Absent /\ dispatches = <<>> /\ receipt1 = -1
      BY <2>1 DEF OneWake
    <2> QED
      BY <1>1, <1>3, <2>1, <2>2 DEF UiKeeps, serverVars
  <1>10. OneWake'
    BY <1>1, <1>8, <1>9 DEF OneWake
  <1>11. \/ Queued' \subseteq Queued
         \/ /\ actor' = actor /\ actor.pc # "gone"
            /\ \E c \in Commands :
               /\ Queued' = Queued \cup {c} /\ c.kind = "wake" /\ c.at = now
               /\ \/ UiStarts /\ c.attempt = 1
                  \/ UiResumes /\ c.attempt = wake.attempt
                     /\ (wake.attempt = 2 => c.ticket = wake.ticket)
                  \/ UiRetries /\ c.attempt = 2 /\ c.ticket = wake.ticket
    <2>1. CASE commands' = commands \/ commands' = <<>>
      BY <1>3, <2>1
    <2>2. CASE commands' # commands /\ commands' # <<>>
      <3>1. actor' = actor
        BY <1>1, <2>2 DEF DriverFrame
      <3> QED
        BY <1>3, <2>2, <3>1, UiCommands
    <2> QED
      BY <2>1, <2>2
  <1> QED
    BY <1>3, <1>6, <1>10, <1>11

-----------------------------------------------------------------------------
(* The steps of the command line *)

CliKeeps ==
    /\ cli' = cli \/ (cli.pc = "catalog" /\ \E r \in BOOLEAN : cli' = [cli EXCEPT !.ready = r])
    /\ UNCHANGED <<commands, receipt1>>

CliReturns ==
    /\ \E r \in {"ok", "error"} :
          /\ cli' = [cli EXCEPT !.pc = "done", !.result = r]
          /\ r = "ok" => Outcome(cli.progress, cli.hosts) = "complete"
    /\ commands' = commands \/ commands' = Append(commands, Shutdown)
    /\ receipt1' = receipt1 \/ (cli.pc = "wake" /\ receipt1 = -1 /\ receipt1' = now)

CliStarts ==
    /\ cli.pc = "catalog" /\ actor.pc # "gone"
    /\ Send(WakeCmd(Op, cli.hosts, 1, 0, now))
    /\ cli' = [cli EXCEPT !.pc = "wake", !.attempt = 1, !.progress = NewProgress,
                          !.by = now + ReceiptTimeout]
    /\ UNCHANGED receipt1

CliReceives ==
    \E e \in Range(events) :
        /\ cli.pc = "wake" /\ e.kind = "receipt" /\ e.attempt = cli.attempt
        /\ cli' = [cli EXCEPT !.ticket = e.ticket, !.receipt = TRUE,
                              !.progress = Receive(cli.progress, e.accepted)]
        /\ receipt1' = IF receipt1 = -1 THEN now ELSE receipt1
        /\ UNCHANGED commands

CliObserves ==
    \E e \in Range(events) :
        /\ cli.pc = "wake" /\ e.kind = "online" /\ e.attempt = cli.attempt
        /\ cli' = [cli EXCEPT !.progress = Observed(@, e.host)]
        /\ UNCHANGED <<commands, receipt1>>

CliRetries ==
    /\ cli.pc = "wake" /\ cli.attempt = 1 /\ cli.receipt /\ now >= cli.progress.deadline
    /\ actor.pc # "gone"
    /\ Send(WakeCmd(Op, cli.hosts, 2, cli.ticket, now))
    /\ cli' = [cli EXCEPT !.attempt = 2, !.receipt = FALSE, !.progress = NewProgress,
                          !.by = now + ReceiptTimeout]
    /\ UNCHANGED receipt1

CliMoves ==
    /\ DriverFrame /\ UNCHANGED <<tuiOwn, actor>>
    /\ \/ CliKeeps \/ CliReturns \/ CliStarts \/ CliReceives \/ CliObserves \/ CliRetries

\* An exit status that is returned without success.
LEMMA ReturnsError ==
    ASSUME Return("error"), UNCHANGED receipt1
    PROVE  CliReturns
  BY DEF Return, CliReturns

LEMMA CliStepMoves ==
    ASSUME FrontAssumption, ServiceTyped, DriverTyped, InCli, Cli
    PROVE  CliMoves
  <1>0. /\ cli.ready \in BOOLEAN
        /\ events \in Seq(Remarks \cup Replies)
        /\ events # <<>> => Head(events) \in Range(events)
    BY RangeTyped DEF DriverTyped, ServiceTyped
  <1>1. CASE CatalogEvent
    <2> PICK e : e = Head(events)
      OBVIOUS
    <2>1. /\ cli.pc = "catalog" /\ events # <<>> /\ events' = Tail(events)
          /\ UNCHANGED receipt1 /\ CliFrame
          /\ \/ Return("error")
             \/ cli' = [cli EXCEPT !.ready = @ \/ e.kind = "connected"] /\ UNCHANGED commands
      BY <1>1, Zenon DEF CatalogEvent
    <2>2. DriverFrame /\ UNCHANGED <<tuiOwn, actor>>
      BY <2>1 DEF CliFrame, DriverFrame, InCli
    <2>3. CASE Return("error")
      BY <2>1, <2>2, <2>3, ReturnsError DEF CliMoves
    <2>4. CASE cli' = [cli EXCEPT !.ready = @ \/ e.kind = "connected"] /\ UNCHANGED commands
      <3> PICK r : r = (cli.ready \/ e.kind = "connected")
        OBVIOUS
      <3>1. r \in BOOLEAN /\ cli' = [cli EXCEPT !.ready = r]
        BY <1>0, <2>4
      <3>2. CliKeeps
        BY <2>1, <2>4, <3>1 DEF CliKeeps
      <3> QED
        BY <2>2, <3>2 DEF CliMoves
    <2> QED
      BY <2>1, <2>3, <2>4
  <1>2. CASE CatalogTimesOut
    <2>1. Return("error") /\ UNCHANGED <<events, receipt1>> /\ CliFrame
      BY <1>2 DEF CatalogTimesOut
    <2>2. DriverFrame /\ UNCHANGED <<tuiOwn, actor>>
      BY <2>1 DEF CliFrame, DriverFrame, InCli
    <2> QED
      BY <2>1, <2>2, ReturnsError DEF CliMoves
  <1>3. CASE CatalogComplete
    <2>1. UNCHANGED <<events, receipt1>> /\ CliFrame /\ cli.pc = "catalog"
      BY <1>3 DEF CatalogComplete
    <2>2. DriverFrame /\ UNCHANGED <<tuiOwn, actor>>
      BY <2>1 DEF CliFrame, DriverFrame, InCli
    <2>3. CASE Return("error")
      BY <2>1, <2>2, <2>3, ReturnsError DEF CliMoves
    <2>4. CASE ~Return("error")
      <3>1. CliStarts
        BY <1>3, <2>1, <2>4 DEF CatalogComplete, CliStarts
      <3> QED
        BY <2>2, <3>1 DEF CliMoves
    <2> QED
      BY <2>3, <2>4
  <1>4. CASE WakeEvent
    <2> PICK e : e = Head(events)
      OBVIOUS
    <2> PICK p : p = Receive(cli.progress, e.accepted)
      OBVIOUS
    <2>1. /\ cli.pc = "wake" /\ events # <<>> /\ events' = Tail(events) /\ CliFrame
          /\ \/ Return("error") /\ UNCHANGED receipt1
             \/ /\ e.kind = "receipt" /\ Mine(e)
                /\ receipt1' = IF receipt1 = -1 THEN now ELSE receipt1
                /\ \/ Return("error")
                   \/ /\ cli' = [cli EXCEPT !.ticket = e.ticket, !.receipt = TRUE,
                                            !.progress = p]
                      /\ UNCHANGED commands
             \/ /\ e.kind = "online" /\ Mine(e)
                /\ cli' = [cli EXCEPT !.progress = Observed(@, e.host)]
                /\ UNCHANGED <<commands, receipt1>>
             \/ cli' = cli /\ UNCHANGED <<commands, receipt1>>
      <3>1. /\ cli.pc = "wake" /\ events # <<>> /\ events' = Tail(events) /\ CliFrame
            /\ IF e.kind \in {"failed", "disconnected"}
               THEN Return("error") /\ UNCHANGED receipt1
               ELSE IF e.kind = "receipt" /\ Mine(e)
               THEN /\ receipt1' = IF receipt1 = -1 THEN now ELSE receipt1
                    /\ IF p.accepted = {} THEN Return("error")
                       ELSE /\ cli' = [cli EXCEPT !.ticket = e.ticket, !.receipt = TRUE,
                                                  !.progress = p]
                            /\ UNCHANGED commands
               ELSE /\ cli' = IF e.kind = "online" /\ Mine(e)
                              THEN [cli EXCEPT !.progress = Observed(@, e.host)] ELSE cli
                    /\ UNCHANGED <<commands, receipt1>>
        BY <1>4, Zenon DEF WakeEvent
      <3> QED
        BY <3>1, Zenon
    <2>2. DriverFrame /\ UNCHANGED <<tuiOwn, actor>> /\ e \in Range(events)
      BY <1>0, <2>1 DEF CliFrame, DriverFrame, InCli
    <2>3. CASE Return("error") /\ UNCHANGED receipt1
      BY <2>2, <2>3, ReturnsError DEF CliMoves
    <2>4. CASE /\ e.kind = "receipt" /\ Mine(e)
               /\ receipt1' = IF receipt1 = -1 THEN now ELSE receipt1
               /\ \/ Return("error")
                  \/ /\ cli' = [cli EXCEPT !.ticket = e.ticket, !.receipt = TRUE,
                                           !.progress = p]
                     /\ UNCHANGED commands
      <3>1. CliReturns \/ CliReceives
        BY <2>1, <2>2, <2>4 DEF Return, CliReturns, CliReceives, Mine
      <3> QED
        BY <2>2, <3>1 DEF CliMoves
    <2>5. CASE /\ e.kind = "online" /\ Mine(e)
               /\ cli' = [cli EXCEPT !.progress = Observed(@, e.host)]
               /\ UNCHANGED <<commands, receipt1>>
      <3>1. CliObserves
        BY <2>1, <2>2, <2>5 DEF CliObserves, Mine
      <3> QED
        BY <2>2, <3>1 DEF CliMoves
    <2>6. CASE cli' = cli /\ UNCHANGED <<commands, receipt1>>
      BY <2>2, <2>6 DEF CliKeeps, CliMoves
    <2> QED
      BY <2>1, <2>3, <2>4, <2>5, <2>6
  <1>5. CASE Ended
    <2>1. /\ UNCHANGED <<events, receipt1>> /\ CliFrame
          /\ \/ Outcome(cli.progress, cli.hosts) = "complete" /\ Return("ok")
             \/ Return("error")
      BY <1>5 DEF Ended
    <2>2. DriverFrame /\ UNCHANGED <<tuiOwn, actor>>
      BY <2>1 DEF CliFrame, DriverFrame, InCli
    <2>3. CliReturns
      BY <2>1, ReturnsError DEF Return, CliReturns
    <2> QED
      BY <2>2, <2>3 DEF CliMoves
  <1>6. CASE NoReceipt
    <2>1. Return("error") /\ UNCHANGED <<events, receipt1>> /\ CliFrame
      BY <1>6 DEF NoReceipt
    <2>2. DriverFrame /\ UNCHANGED <<tuiOwn, actor>>
      BY <2>1 DEF CliFrame, DriverFrame, InCli
    <2> QED
      BY <2>1, <2>2, ReturnsError DEF CliMoves
  <1>7. CASE WaitIsOver
    <2>1. /\ StillWaiting /\ cli.receipt /\ now >= cli.progress.deadline
          /\ UNCHANGED <<events, receipt1>> /\ CliFrame /\ cli.pc = "wake"
      BY <1>7 DEF WaitIsOver, StillWaiting, Drained
    <2>2. DriverFrame /\ UNCHANGED <<tuiOwn, actor>>
      BY <2>1 DEF CliFrame, DriverFrame, InCli
    <2>3. CASE cli.attempt = 1 /\ actor.pc # "gone"
      <3>1. CliRetries
        BY <1>7, <2>1, <2>3 DEF WaitIsOver, CliRetries
      <3> QED
        BY <2>2, <3>1 DEF CliMoves
    <2>4. CASE ~(cli.attempt = 1 /\ actor.pc # "gone")
      <3>1. Return("error")
        BY <1>7, <2>4, Zenon DEF WaitIsOver
      <3> QED
        BY <2>1, <2>2, <3>1, ReturnsError DEF CliMoves
    <2> QED
      BY <2>3, <2>4
  <1> QED
    BY <1>1, <1>2, <1>3, <1>4, <1>5, <1>6, <1>7 DEF Cli

\* What the command line keeps.
Commandlines ==
    [pc : {"catalog", "wake", "done"}, hosts : Selections, ready : BOOLEAN, attempt : 0..2,
     ticket : Nat, receipt : BOOLEAN, progress : Progresses, by : Nat,
     result : {"none", "ok", "error"}]

LEMMA CliTyped ==
    ASSUME FrontAssumption, ServiceTyped, DriverTyped, CliMoves
    PROVE  cli' \in Commandlines /\ receipt1' \in Nat \cup {-1}
  <1>0. /\ cli \in Commandlines /\ receipt1 \in Nat \cup {-1} /\ now \in Nat
        /\ cli.progress \in Progresses
    BY DEF DriverTyped, ServiceTyped, Commandlines
  <1>1. now + ReceiptTimeout \in Nat
    BY <1>0 DEF FrontAssumption, ServerAssumption
  <1> PICK rd, np : rd = now + ReceiptTimeout /\ np = NewProgress
    OBVIOUS
  <1>2. rd \in Nat /\ np \in Progresses
    BY <1>0, <1>1, NewTyped
  <1>3. CASE CliKeeps
    <2>1. \/ cli' = cli
          \/ \E r \in BOOLEAN : cli' = [cli EXCEPT !.ready = r]
      BY <1>3 DEF CliKeeps
    <2>2. cli' \in Commandlines
      BY <1>0, <2>1 DEF Commandlines
    <2> QED
      BY <1>0, <1>3, <2>2 DEF CliKeeps
  <1>4. CASE CliReturns
    <2>1. PICK r \in {"ok", "error"} : cli' = [cli EXCEPT !.pc = "done", !.result = r]
      BY <1>4 DEF CliReturns
    <2>2. cli' \in Commandlines
      BY <1>0, <2>1 DEF Commandlines
    <2> QED
      BY <1>0, <1>4, <2>2 DEF CliReturns
  <1>5. CASE CliStarts
    <2> PICK n : n = 1
      OBVIOUS
    <2>1. cli' = [cli EXCEPT !.pc = "wake", !.attempt = n, !.progress = np, !.by = rd]
          /\ n \in 0..2
      BY <1>5 DEF CliStarts
    <2>2. cli' \in Commandlines
      BY <1>0, <1>2, <2>1 DEF Commandlines
    <2> QED
      BY <1>0, <1>5, <2>2 DEF CliStarts
  <1>6. CASE CliReceives
    <2>1. PICK e \in Range(events) :
             /\ e.kind = "receipt"
             /\ cli' = [cli EXCEPT !.ticket = e.ticket, !.receipt = TRUE,
                                   !.progress = Receive(cli.progress, e.accepted)]
             /\ receipt1' = IF receipt1 = -1 THEN now ELSE receipt1
      BY <1>6 DEF CliReceives
    <2> PICK p, t : p = Receive(cli.progress, e.accepted) /\ t = e.ticket
      OBVIOUS
    <2>2. p \in Progresses /\ t \in Nat
      BY <1>0, <2>1, ReplyFields, ReceiveTyped
    <2>3. cli' = [cli EXCEPT !.ticket = t, !.receipt = TRUE, !.progress = p]
      BY <2>1
    <2>4. cli' \in Commandlines
      BY <1>0, <2>2, <2>3 DEF Commandlines
    <2> QED
      BY <1>0, <2>1, <2>4
  <1>7. CASE CliObserves
    <2>1. PICK e \in Range(events) :
             /\ e.kind = "online"
             /\ cli' = [cli EXCEPT !.progress = Observed(@, e.host)]
             /\ UNCHANGED receipt1
      BY <1>7 DEF CliObserves
    <2> PICK p : p = Observed(cli.progress, e.host)
      OBVIOUS
    <2>2. p \in Progresses
      BY <1>0, <2>1, ReplyFields, ObservedTyped
    <2>3. cli' = [cli EXCEPT !.progress = p]
      BY <2>1
    <2>4. cli' \in Commandlines
      BY <1>0, <2>2, <2>3 DEF Commandlines
    <2> QED
      BY <1>0, <2>1, <2>4
  <1>8. CASE CliRetries
    <2> PICK n : n = 2
      OBVIOUS
    <2>1. cli' = [cli EXCEPT !.attempt = n, !.receipt = FALSE, !.progress = np, !.by = rd]
          /\ n \in 0..2
      BY <1>8 DEF CliRetries
    <2>2. cli' \in Commandlines
      BY <1>0, <1>2, <2>1 DEF Commandlines
    <2> QED
      BY <1>0, <1>8, <2>2 DEF CliRetries
  <1> QED
    BY <1>3, <1>4, <1>5, <1>6, <1>7, <1>8 DEF CliMoves

\* The command that a step of the command line queues, if it queues one.
LEMMA CliCommands ==
    ASSUME FrontAssumption, ServiceTyped, DriverTyped, CliMoves
    PROVE  \/ (CliKeeps \/ CliReturns \/ CliReceives \/ CliObserves)
              /\ (commands' = commands \/ commands' = Append(commands, Shutdown))
           \/ \E c \in Commands :
                 /\ commands' = Append(commands, c)
                 /\ c.kind = "wake" /\ c.at = now /\ actor.pc # "gone"
                 /\ \/ CliStarts /\ c.attempt = 1
                    \/ CliRetries /\ c.attempt = 2 /\ c.ticket = cli.ticket
  <1>0. now \in Nat /\ cli.hosts \in SUBSET Hosts /\ cli.ticket \in Nat
    BY DEF DriverTyped, ServiceTyped, Selections
  <1>1. CASE CliStarts
    <2> PICK c : c = WakeCmd(Op, cli.hosts, 1, 0, now)
      OBVIOUS
    <2>1. c \in Commands /\ c.kind = "wake" /\ c.attempt = 1 /\ c.at = now
      BY <1>0, WakeCmdTyped
    <2> QED
      BY <1>1, <2>1 DEF CliStarts, Send
  <1>2. CASE CliRetries
    <2> PICK c : c = WakeCmd(Op, cli.hosts, 2, cli.ticket, now)
      OBVIOUS
    <2>1. c \in Commands /\ c.kind = "wake" /\ c.attempt = 2 /\ c.at = now /\ c.ticket = cli.ticket
      BY <1>0, WakeCmdTyped
    <2> QED
      BY <1>2, <2>1 DEF CliRetries, Send
  <1>3. CASE CliKeeps \/ CliReturns \/ CliReceives \/ CliObserves
    BY <1>3 DEF CliKeeps, CliReturns, CliReceives, CliObserves
  <1> QED
    BY <1>1, <1>2, <1>3 DEF CliMoves

LEMMA CliKeepsTypes ==
    ASSUME FrontAssumption, ServiceTyped, DriverTyped, OneWake, mode = "command", CliMoves
    PROVE  /\ ServiceTyped' /\ DriverTyped' /\ OneWake'
           /\ Range(link'.in) \subseteq Range(link.in) /\ Underway' = Underway
           /\ Range(events') \subseteq Range(events)
           /\ \/ Queued' \subseteq Queued
              \/ /\ actor' = actor /\ actor.pc # "gone"
                 /\ \E c \in Commands :
                    /\ Queued' = Queued \cup {c} /\ c.kind = "wake" /\ c.at = now
                    /\ \/ CliStarts /\ c.attempt = 1
                       \/ CliRetries /\ c.attempt = 2 /\ c.ticket = cli.ticket
  <1>1. /\ DriverFrame /\ UNCHANGED <<mode, serverVars, now, actor>>
        /\ wake' = wake /\ ui' = ui /\ retry' = retry
    BY DEF CliMoves, DriverFrame, tuiOwn
  <1>2. Shutdown \in Commands /\ Shutdown.kind # "wake"
    BY DEF Commands, Shutdown
  <1>3. \/ commands' = commands \/ commands' = <<>>
        \/ \E c \in Commands : commands' = Append(commands, c)
    BY <1>2, CliCommands
  <1>4. /\ ServiceTyped'
        /\ Range(link'.in) \subseteq Range(link.in) /\ link'.out = link.out /\ Underway' = Underway
        /\ Range(events') \subseteq Range(events)
        /\ \A c \in Commands : commands' = Append(commands, c) =>
              Queued' = IF c.kind = "wake" THEN Queued \cup {c} ELSE Queued
        /\ commands' = commands => Queued' = Queued
    BY <1>1, <1>3, DriverKeepsTypes
  <1>5. cli' \in Commandlines /\ receipt1' \in Nat \cup {-1}
    BY CliTyped
  <1>6. DriverTyped'
    BY <1>1, <1>5 DEF DriverTyped, Commandlines
  <1>7. cli \in Commandlines
    BY DEF DriverTyped, Commandlines
  <1>8. /\ cli'.pc = "catalog" => cli'.attempt = 0 /\ ~cli'.receipt
        /\ cli'.pc = "wake" => cli'.attempt # 0
        /\ cli'.attempt = 0 =>
              /\ cli.attempt = 0 /\ UNCHANGED receipt1
              /\ CliKeeps \/ CliReturns
    <2>1. CASE CliKeeps
      <3>1. cli'.pc = cli.pc /\ cli'.attempt = cli.attempt /\ cli'.receipt = cli.receipt
        BY <1>7, <2>1 DEF CliKeeps, Commandlines
      <3> QED
        BY <2>1, <3>1 DEF CliKeeps, OneWake
    <2>2. CASE CliReturns
      <3>1. cli'.pc = "done" /\ cli'.attempt = cli.attempt
        BY <1>7, <2>2 DEF CliReturns, Commandlines
      <3> QED
        BY <2>2, <3>1 DEF CliReturns, OneWake
    <2>3. CASE CliStarts \/ CliRetries
      <3>1. cli'.pc = "wake" /\ cli'.attempt \in {1, 2}
        BY <1>7, <2>3 DEF CliStarts, CliRetries, Commandlines
      <3> QED
        BY <3>1
    <2>4. CASE CliReceives \/ CliObserves
      <3>1. cli.pc = "wake" /\ cli'.pc = "wake" /\ cli'.attempt = cli.attempt
        BY <1>7, <2>4 DEF CliReceives, CliObserves, Commandlines
      <3> QED
        BY <3>1 DEF OneWake
    <2> QED
      BY <2>1, <2>2, <2>3, <2>4 DEF CliMoves
  <1>9. (CliKeeps \/ CliReturns) => Queued' = Queued
    <2>1. (CliKeeps \/ CliReturns) => commands' = commands \/ commands' = Append(commands, Shutdown)
      BY DEF CliKeeps, CliReturns
    <2> QED
      BY <1>2, <1>4, <2>1
  <1>10. ~ui'.started /\ cli'.attempt = 0 =>
           /\ Queued' = {} /\ Underway' = {}
           /\ rec' = Absent /\ dispatches' = <<>> /\ receipt1' = -1
    BY <1>1, <1>4, <1>8, <1>9 DEF OneWake, serverVars
  <1>11. OneWake'
    BY <1>1, <1>8, <1>10 DEF OneWake
  <1>12. \/ Queued' \subseteq Queued
         \/ /\ actor' = actor /\ actor.pc # "gone"
            /\ \E c \in Commands :
               /\ Queued' = Queued \cup {c} /\ c.kind = "wake" /\ c.at = now
               /\ \/ CliStarts /\ c.attempt = 1
                  \/ CliRetries /\ c.attempt = 2 /\ c.ticket = cli.ticket
    BY <1>1, <1>2, <1>4, CliCommands
  <1> QED
    BY <1>4, <1>6, <1>11, <1>12

-----------------------------------------------------------------------------
(* The steps of the whole *)

\* A step of the clock.
Elapses ==
    /\ now' = now + 1
    /\ UNCHANGED <<actorVars, rec, monitor, conn, losses, dispatches, probed>>
    /\ UNCHANGED <<mode, wake, ui, receipt1, retry, cli>>
    /\ Range(late') \subseteq Range(late)
    /\ Settled /\ (mode = "ui" => UiSettled)

\* A step of the server or of the actor, as the driver sees it.
Serves ==
    /\ UNCHANGED <<now, mode, wake, ui, receipt1, cli>>
    /\ retry = "none" <=> retry' = "none"
    /\ retry' = "sent" => retry = "sent" /\ (mode = "ui" => link'.up)
    /\ retry' = "refused" => retry = "refused" \/ RefusesRetry
    /\ retry' \in {"none", "sent", "lost", "refused"}

LEMMA StepKinds ==
    ASSUME FrontAssumption, ServiceTyped, DriverTyped, OneWake, FrontNext
    PROVE  \/ /\ mode = "ui" /\ InTui /\ (Stays \/ Leaves \/ Ui)
              /\ UiMoves /\ ui' \in Screens
           \/ mode = "command" /\ CliMoves
           \/ Serves /\ ServiceTyped' /\ ServerStep /\ ServerMoves
           \/ Serves /\ ServiceTyped' /\ Actor /\ ActorSets /\ ActorMoves
           \/ Elapses /\ ServiceTyped'
  <1>1. ASSUME Elapse, UNCHANGED <<mode, wake, ui, receipt1, retry, cli>>,
               mode = "ui" => UiSettled
        PROVE  Elapses /\ ServiceTyped'
    <2>1. late' = late \/ late' = <<>>
      BY <1>1 DEF Elapse
    <2>2. late' \in Seq(Sendable) /\ Range(late') \subseteq Range(late)
      BY <2>1, RangeEmpty DEF ServiceTyped
    <2>3. Elapses
      BY <1>1, <2>2 DEF Elapses, Elapse
    <2>4. ServiceTyped'
      BY <2>2, <2>3 DEF Elapses, ServiceTyped, actorVars
    <2> QED
      BY <2>3, <2>4
  <1>2. CASE InTui /\ TuiNext
    <2>1. CASE Stays \/ Leaves
      BY <1>2, <2>1, KeysMove DEF InTui
    <2>2. CASE Ui
      BY <1>2, <2>2, EventMoves, TicksMove DEF InTui, Ui
    <2>3. CASE ServerInUi
      <3>0. RefusesRetry => retry = "sent"
        BY DEF RefusesRetry
      <3>1. Serves
        BY <1>2, <2>3, <3>0, ServerStepMoves
           DEF ServerInUi, Serves, InTui, DriverTyped, ServerMoves
      <3> QED
        BY <2>3, <3>1, ServerStepMoves DEF ServerInUi
    <2>4. CASE ActorInUi
      <3>1. Serves
        BY <1>2, <2>4, ActorKeepsTypes DEF ActorInUi, Serves, InTui, DriverTyped, ActorSets
      <3> QED
        BY <2>4, <3>1, ActorKeepsTypes DEF ActorInUi
    <2>5. CASE TickInUi
      BY <1>1, <1>2, <2>5 DEF TickInUi, InTui, tuiOwn
    <2> QED
      BY <1>2, <2>1, <2>2, <2>3, <2>4, <2>5 DEF TuiNext
  <1>3. CASE InCli /\ CliNext
    <2>1. CASE Cli
      BY <1>3, <2>1, CliStepMoves DEF InCli
    <2>2. CASE ServerOfCli
      <3>1. Serves
        BY <1>3, <2>2, ServerStepMoves DEF ServerOfCli, Serves, InCli, tuiOwn, DriverTyped, ServerMoves
      <3> QED
        BY <2>2, <3>1, ServerStepMoves DEF ServerOfCli
    <2>3. CASE ActorOfCli
      <3>1. Serves
        BY <1>3, <2>3, ActorKeepsTypes DEF ActorOfCli, Serves, InCli, tuiOwn, DriverTyped, ActorSets
      <3> QED
        BY <2>3, <3>1, ActorKeepsTypes DEF ActorOfCli
    <2>4. CASE TickOfCli
      BY <1>1, <1>3, <2>4 DEF TickOfCli, InCli, tuiOwn
    <2> QED
      BY <1>3, <2>1, <2>2, <2>3, <2>4 DEF CliNext
  <1> QED
    BY <1>2, <1>3 DEF FrontNext

LEMMA StepKeepsTypes ==
    ASSUME FrontAssumption, ServiceTyped, DriverTyped, OneWake, FrontNext
    PROVE  ServiceTyped' /\ DriverTyped' /\ OneWake'
  <1>1. CASE mode = "ui" /\ UiMoves /\ ui' \in Screens
    BY <1>1, UiKeepsTypes
  <1>2. CASE mode = "command" /\ CliMoves
    BY <1>2, CliKeepsTypes
  <1>3. CASE Serves /\ ServiceTyped' /\ ServerMoves
    <2>1. DriverTyped'
      BY <1>3 DEF Serves, DriverTyped
    <2>2. Queued' = Queued /\ Underway' \subseteq Underway
      <3>1. link.out \in Seq(Sendable) /\ late \in Seq(Sendable)
        BY DEF ServiceTyped, Links
      <3>2. Range(link'.out) \subseteq Range(link.out)
        BY <1>3, <3>1, RangeTail DEF ServerMoves, Answered
      <3>3. Range(late') \subseteq Range(late)
        BY <1>3, <3>1, RangeTail DEF ServerMoves
      <3> QED
        BY <1>3, <3>2, <3>3 DEF ServerMoves, Queued, Underway
    <2>3. ~ui.started /\ cli.attempt = 0 => rec' = Absent /\ dispatches' = <<>>
      <3>1. Absent.st = "none"
        BY DEF Absent
      <3> QED
        BY <1>3, <3>1 DEF OneWake, ServerMoves, Ledger, Forgets, Renews, Finishes
    <2>4. OneWake'
      BY <1>3, <2>2, <2>3 DEF OneWake, Serves
    <2> QED
      BY <1>3, <2>1, <2>4
  <1>4. CASE Serves /\ ServiceTyped' /\ Actor /\ ActorSets /\ ActorMoves
    <2>1. DriverTyped'
      BY <1>4 DEF Serves, DriverTyped
    <2>2. Queued = {} => Queued' = {}
      BY <1>4 DEF ActorSets
    <2>3. Queued = {} /\ Underway = {} => Underway' = {}
      BY <1>4 DEF ActorSets
    <2>4. OneWake'
      BY <1>4, <2>2, <2>3 DEF OneWake, Serves, ActorSets
    <2> QED
      BY <1>4, <2>1, <2>4
  <1>5. CASE Elapses /\ ServiceTyped'
    <2>1. DriverTyped'
      BY <1>5 DEF Elapses, DriverTyped
    <2>2. Queued' = Queued /\ Underway' \subseteq Underway
      BY <1>5 DEF Elapses, Queued, Underway, actorVars
    <2>3. OneWake'
      BY <1>5, <2>2 DEF OneWake, Elapses
    <2> QED
      BY <1>5, <2>1, <2>3
  <1> QED
    BY <1>1, <1>2, <1>3, <1>4, <1>5, StepKinds

LEMMA InitTyped ==
    ASSUME FrontAssumption, FrontInit
    PROVE  /\ ServiceTyped /\ DriverTyped /\ OneWake
           /\ now = 0 /\ rec = Absent /\ dispatches = <<>> /\ receipt1 = -1
           /\ Queued = {} /\ Underway = {} /\ Range(events) = {} /\ Range(link.in) = {}
           /\ link.in = <<>> /\ link.out = <<>> /\ ~link.up /\ actor.pc = "announce"
           /\ wake = NoWake /\ retry = "none" /\ ui.screen = "hosts" /\ ui.wakePhase = "none"
           /\ cli.attempt = 0 /\ cli.pc = "catalog" /\ ~cli.receipt /\ cli.result = "none"
           /\ cli.progress.online = {}
  <1>1. /\ now = 0 /\ commands = <<>> /\ events = <<>> /\ link = Closed
        /\ rec = Absent /\ monitor = NoMonitor /\ late = <<>> /\ conn = 0 /\ losses = 0
        /\ dispatches = <<>> /\ receipt1 = -1 /\ mode \in {"ui", "command"}
        /\ actor = [pc |-> "announce", attempt |-> 1, until |-> 0]
        /\ wake = NoWake /\ retry = "none"
        /\ ui = [screen |-> "hosts", phase |-> "connecting", wakePhase |-> "none",
                 client |-> TRUE, started |-> FALSE]
    BY DEF FrontInit, TuiInit, ServerInit, ActorInit
  <1>2. actor \in Actors /\ actor.pc = "announce"
    <2> PICK n : n = 1
      OBVIOUS
    <2>1. actor = [pc |-> "announce", attempt |-> n, until |-> 0] /\ n \in Nat \ {0}
      BY <1>1
    <2> QED
      BY <2>1 DEF Actors, ActorPlaces
  <1>3. link \in Links /\ link.in = <<>> /\ link.out = <<>> /\ ~link.up
    BY <1>1, RangeEmpty DEF Closed, Links
  <1>4. ServiceTyped
    BY <1>1, <1>2, <1>3, RangeEmpty DEF ServiceTyped
  <1>5. PICK hs \in Selections :
           cli = [pc |-> "catalog", hosts |-> hs, ready |-> FALSE, attempt |-> 0, ticket |-> 0,
                  receipt |-> FALSE, progress |-> NewProgress, by |-> CatalogTimeout,
                  result |-> "none"]
    BY DEF FrontInit, CliInit
  <1>6. /\ cli \in Commandlines
        /\ cli.attempt = 0 /\ cli.pc = "catalog" /\ ~cli.receipt /\ cli.result = "none"
        /\ cli.progress.online = {}
    <2> PICK np, n, by : np = NewProgress /\ n = 0 /\ by = CatalogTimeout
      OBVIOUS
    <2>1. np \in Progresses /\ np.online = {} /\ n \in 0..2 /\ by \in Nat
      BY <1>4, NewTyped DEF ServiceTyped, FrontAssumption, CommandAssumption
    <2>2. cli = [pc |-> "catalog", hosts |-> hs, ready |-> FALSE, attempt |-> n, ticket |-> 0,
                 receipt |-> FALSE, progress |-> np, by |-> by, result |-> "none"]
      BY <1>5
    <2>3. cli \in Commandlines /\ cli.progress.online = {}
      BY <2>1, <2>2 DEF Commandlines
    <2> QED
      BY <1>5, <2>3
  <1>7. ui \in Screens /\ ui.screen = "hosts" /\ ui.wakePhase = "none" /\ ~ui.started
    BY <1>1 DEF Screens
  <1>8. DriverTyped
    BY <1>1, <1>6, <1>7 DEF DriverTyped, Screens, Commandlines
  <1>9. /\ Queued = {} /\ Underway = {} /\ Range(events) = {} /\ Range(link.in) = {}
    BY <1>1, <1>3, RangeEmpty DEF Queued, Underway
  <1>10. OneWake
    BY <1>1, <1>6, <1>7, <1>9 DEF OneWake
  <1> QED
    BY <1>1, <1>2, <1>3, <1>4, <1>6, <1>7, <1>8, <1>9, <1>10

-----------------------------------------------------------------------------
(* What the user is told *)

LEMMA UiKeepsOutcome ==
    ASSUME FrontAssumption, OutcomeInv, mode = "ui", UiMoves, ui' \in Screens
    PROVE  OnlineProbed' /\ EndsKept'
  <1>0. /\ ServiceTyped /\ DriverTyped /\ OneWake /\ OnlineProbed /\ EndsKept
        /\ UNCHANGED <<cli, probed>> /\ ui \in Screens
        /\ (wake # NoWake => wake \in Wakes) /\ (InProgress => wake \in Wakes /\ wake.finished = FALSE)
    BY WakeOrNone DEF OutcomeInv, UiMoves, DriverFrame, serverVars, DriverTyped, Screens
  <1>1. Range(link'.in) \subseteq Range(link.in) /\ Range(events') \subseteq Range(events)
    BY <1>0, UiKeepsTypes
  <1>2. SUFFICES
           wake' # NoWake =>
               /\ \A h \in wake'.progress.online : <<wake'.attempt, h>> \in probed
               /\ ui'.wakePhase \in {"complete", "partial"} =>
                     /\ wake'.finished /\ wake'.progress.accepted \subseteq wake'.progress.online
                     /\ ui'.wakePhase = "complete" <=> wake'.hosts \subseteq wake'.progress.online
    BY <1>0, <1>1 DEF OnlineProbed, EndsKept
  <1>3. CASE UiKeeps
    BY <1>0, <1>3 DEF UiKeeps, OnlineProbed, EndsKept
  <1>4. CASE UiStarts
    <2>1. ui'.wakePhase = "sending" /\ wake'.progress = NewProgress
      BY <1>4 DEF UiStarts
    <2> QED
      BY <1>0, <2>1, NewTyped DEF ServiceTyped
  <1>5. CASE UiResumes \/ UiFails
    <2>1. /\ wake \in Wakes /\ wake # NoWake
          /\ wake'.progress = wake.progress /\ wake'.attempt = wake.attempt
          /\ ui'.wakePhase \notin {"complete", "partial"}
      BY <1>0, <1>5 DEF UiResumes, UiFails, Wakes, InProgress
    <2> QED
      BY <1>0, <2>1 DEF OnlineProbed
  <1>6. CASE UiReceives
    <2>1. PICK e \in Range(events) :
             /\ e.kind = "receipt" /\ InProgress
             /\ wake' = [wake EXCEPT !.receipt = TRUE, !.ticket = e.ticket,
                            !.progress = Receive(wake.progress, e.accepted),
                            !.deadline = Receive(wake.progress, e.accepted).deadline,
                            !.finished = Receive(wake.progress, e.accepted).accepted = {}]
             /\ ui'.wakePhase \in {"failed", "waiting"}
      BY <1>6, Zenon DEF UiReceives
    <2> PICK p : p = Receive(wake.progress, e.accepted)
      OBVIOUS
    <2>2. wake \in Wakes /\ wake.progress \in Progresses /\ e.accepted \in SUBSET Hosts
      BY <1>0, <2>1, ReplyFields DEF Wakes
    <2>3. p.online = wake.progress.online \cap e.accepted
      BY <1>0, <2>2, ReceiveTyped DEF ServiceTyped
    <2>4. wake'.progress = p /\ wake'.attempt = wake.attempt
      BY <2>1, <2>2 DEF Wakes
    <2> QED
      BY <1>0, <2>1, <2>3, <2>4 DEF OnlineProbed, InProgress
  <1>7. CASE UiObserves
    <2>1. PICK e \in Range(events) :
             LET p == Observed(wake.progress, e.host)
                 end == Outcome(p, wake.hosts) IN
             /\ e.kind = "online" /\ wake # NoWake /\ wake.attempt = e.attempt
             /\ News(wake.progress, e.host)
             /\ wake' = [wake EXCEPT !.progress = p,
                                     !.finished = @ \/ end \in {"complete", "partial"}]
             /\ ui' = IF end \in {"complete", "partial"} THEN [ui EXCEPT !.wakePhase = end] ELSE ui
      BY <1>7, Zenon DEF UiObserves
    <2> PICK p : p = Observed(wake.progress, e.host)
      OBVIOUS
    <2> PICK end : end = Outcome(p, wake.hosts)
      OBVIOUS
    <2>2. wake \in Wakes /\ wake.progress \in Progresses /\ e.host \in Hosts
      BY <1>0, <2>1, ReplyFields DEF Wakes
    <2>3. /\ p.online = wake.progress.online \cup {e.host} /\ e.host \notin wake.progress.online
          /\ e.host \in wake.progress.accepted
      BY <2>1, <2>2, ObservedTyped DEF News
    <2>4. wake' = [wake EXCEPT !.progress = p,
                               !.finished = @ \/ end \in {"complete", "partial"}]
          /\ ui' = IF end \in {"complete", "partial"} THEN [ui EXCEPT !.wakePhase = end] ELSE ui
      BY <2>1
    <2>5. wake'.progress = p /\ wake'.attempt = wake.attempt /\ wake'.hosts = wake.hosts
          /\ (end \in {"complete", "partial"} => wake'.finished)
      BY <2>2, <2>4 DEF Wakes
    <2>6. ui.wakePhase \notin {"complete", "partial"}
      BY <1>0, <2>1, <2>3 DEF EndsKept
    <2>7. ui'.wakePhase \in {"complete", "partial"} =>
             end \in {"complete", "partial"} /\ ui'.wakePhase = end
      BY <1>0, <2>4, <2>6 DEF Screens
    <2>8. end \in {"complete", "partial"} =>
             /\ p.accepted \subseteq p.online
             /\ end = "complete" <=> wake.hosts \subseteq p.online
      BY OutcomeMeans
    <2>9. \A h \in p.online : <<wake.attempt, h>> \in probed
      BY <1>0, <2>1, <2>3 DEF OnlineProbed
    <2> QED
      BY <2>5, <2>7, <2>8, <2>9
  <1>8. CASE UiRetries
    <2>1. wake \in Wakes /\ ui'.wakePhase = "retrying" /\ wake'.progress = NewProgress
      BY <1>0, <1>8 DEF UiRetries, Wakes
    <2> QED
      BY <1>0, <2>1, NewTyped DEF ServiceTyped
  <1> QED
    BY <1>3, <1>4, <1>5, <1>6, <1>7, <1>8 DEF UiMoves

LEMMA CliKeepsOutcome ==
    ASSUME FrontAssumption, OutcomeInv, mode = "command", CliMoves
    PROVE  OnlineProbed' /\ EndsKept'
  <1>0. /\ ServiceTyped /\ DriverTyped /\ OneWake /\ OnlineProbed /\ EndsKept
        /\ wake' = wake /\ ui' = ui /\ probed' = probed /\ cli \in Commandlines /\ now \in Nat
        /\ cli.progress \in Progresses
    BY DEF OutcomeInv, CliMoves, DriverFrame, serverVars, DriverTyped, Commandlines, tuiOwn, ServiceTyped
  <1>1. Range(link'.in) \subseteq Range(link.in) /\ Range(events') \subseteq Range(events)
    BY <1>0, CliKeepsTypes
  <1>2. SUFFICES
           /\ \A h \in cli'.progress.online : <<cli'.attempt, h>> \in probed
           /\ cli'.result = "ok" => cli'.pc = "done" /\ cli'.hosts \subseteq cli'.progress.online
    BY <1>0, <1>1 DEF OnlineProbed, EndsKept
  <1>3. CASE CliKeeps
    <2>1. UNCHANGED <<cli.progress, cli.attempt, cli.result, cli.pc, cli.hosts>>
      BY <1>0, <1>3 DEF CliKeeps, Commandlines
    <2> QED
      BY <1>0, <2>1 DEF OnlineProbed, EndsKept
  <1>4. CASE CliReturns
    <2>1. PICK r \in {"ok", "error"} :
             /\ cli' = [cli EXCEPT !.pc = "done", !.result = r]
             /\ r = "ok" => Outcome(cli.progress, cli.hosts) = "complete"
      BY <1>4 DEF CliReturns
    <2>2. UNCHANGED <<cli.progress, cli.attempt, cli.hosts>> /\ cli'.pc = "done" /\ cli'.result = r
      BY <1>0, <2>1 DEF Commandlines
    <2>3. r = "ok" => cli.hosts \subseteq cli.progress.online
      BY <2>1, OutcomeMeans
    <2> QED
      BY <1>0, <2>2, <2>3 DEF OnlineProbed
  <1>5. CASE CliStarts \/ CliRetries
    <2>1. /\ cli'.progress = NewProgress /\ cli'.result = cli.result /\ cli.pc # "done"
      BY <1>0, <1>5 DEF CliStarts, CliRetries, Commandlines
    <2>2. cli.result # "ok"
      BY <1>0, <2>1 DEF EndsKept
    <2> QED
      BY <1>0, <2>1, <2>2, NewTyped
  <1>6. CASE CliReceives
    <2>1. PICK e \in Range(events) :
             /\ cli.pc = "wake" /\ e.kind = "receipt"
             /\ cli' = [cli EXCEPT !.ticket = e.ticket, !.receipt = TRUE,
                                   !.progress = Receive(cli.progress, e.accepted)]
      BY <1>6 DEF CliReceives
    <2> PICK p : p = Receive(cli.progress, e.accepted)
      OBVIOUS
    <2>2. p.online = cli.progress.online \cap e.accepted
      BY <1>0, <2>1, ReplyFields, ReceiveTyped
    <2>3. cli'.progress = p /\ cli'.attempt = cli.attempt /\ cli'.result = cli.result
      BY <1>0, <2>1 DEF Commandlines
    <2> QED
      BY <1>0, <2>1, <2>2, <2>3 DEF OnlineProbed, EndsKept
  <1>7. CASE CliObserves
    <2>1. PICK e \in Range(events) :
             /\ cli.pc = "wake" /\ e.kind = "online" /\ e.attempt = cli.attempt
             /\ cli' = [cli EXCEPT !.progress = Observed(@, e.host)]
      BY <1>7 DEF CliObserves
    <2> PICK p : p = Observed(cli.progress, e.host)
      OBVIOUS
    <2>2. p.online \subseteq cli.progress.online \cup {e.host}
      BY <1>0, <2>1, ReplyFields, ObservedTyped
    <2>3. cli'.progress = p /\ cli'.attempt = cli.attempt /\ cli'.result = cli.result
      BY <1>0, <2>1 DEF Commandlines
    <2> QED
      BY <1>0, <2>1, <2>2, <2>3 DEF OnlineProbed, EndsKept
  <1> QED
    BY <1>3, <1>4, <1>5, <1>6, <1>7 DEF CliMoves

\* A message that arrives is added to those on their way.
LEMMA MessageAdded ==
    ASSUME link \in Links, ServerMoves
    PROVE  \A m \in Range(link'.in) : m \in Range(link.in) \/ Says(m)
  <1>1. link.in \in Seq(Receivable)
    BY DEF Links
  <1>2. CASE link'.in = link.in
    BY <1>2
  <1>3. ASSUME NEW m, Says(m), link'.in = Append(link.in, m)
        PROVE  \A x \in Range(link'.in) : x \in Range(link.in) \/ Says(x)
    <2>1. m \in Receivable
      BY <1>3 DEF Says
    <2>2. Range(link'.in) = Range(link.in) \cup {m}
      BY <1>1, <1>3, <2>1, RangeAppend
    <2> QED
      BY <1>3, <2>2
  <1> QED
    BY <1>2, <1>3 DEF ServerMoves, Answered

LEMMA OutcomeKept ==
    ASSUME FrontAssumption, OutcomeInv, [FrontNext]_frontVars
    PROVE  OutcomeInv'
  <1>0. ServiceTyped /\ DriverTyped /\ OneWake /\ OnlineProbed /\ EndsKept
    BY DEF OutcomeInv
  <1>1. CASE UNCHANGED frontVars
    BY <1>1 DEF OutcomeInv, frontVars, actorVars, serverVars, tuiOwn, ServiceTyped, DriverTyped,
                OneWake, Queued, Underway, OnlineProbed, EndsKept
  <1>2. CASE FrontNext
    <2>1. ServiceTyped' /\ DriverTyped' /\ OneWake'
      BY <1>0, <1>2, StepKeepsTypes
    <2>2. CASE mode = "ui" /\ UiMoves /\ ui' \in Screens
      BY <2>1, <2>2, UiKeepsOutcome DEF OutcomeInv
    <2>3. CASE mode = "command" /\ CliMoves
      BY <2>1, <2>3, CliKeepsOutcome DEF OutcomeInv
    <2>4. CASE Serves /\ ServerMoves
      <3>1. \A m \in Range(link'.in) : m.kind = "online" => <<m.attempt, m.host>> \in probed'
        <4>1. \A m \in Range(link'.in) : m \in Range(link.in) \/ Says(m)
          BY <1>0, <2>4, MessageAdded DEF ServiceTyped
        <4>2. probed \subseteq probed'
          BY <2>4 DEF ServerMoves
        <4> QED
          BY <1>0, <4>1, <4>2 DEF OnlineProbed, Says
      <3>2. OnlineProbed'
        BY <1>0, <2>4, <3>1 DEF OnlineProbed, Serves, ServerMoves
      <3>3. EndsKept'
        BY <1>0, <2>4 DEF EndsKept, Serves
      <3> QED
        BY <2>1, <3>2, <3>3 DEF OutcomeInv
    <2>5. CASE Serves /\ ActorSets
      <3>1. \A e \in Range(events') : e.kind = "online" => <<e.attempt, e.host>> \in probed'
        <4> SUFFICES ASSUME NEW e \in Range(events'), e.kind = "online"
                     PROVE  <<e.attempt, e.host>> \in probed'
          OBVIOUS
        <4>1. probed' = probed /\ (e \in Range(events) \/ Posts(e)) /\ now \in Nat
          BY <1>0, <2>5 DEF ActorSets, ServiceTyped
        <4>2. Range(link.in) \subseteq Receivable
          BY <1>0, RangeTyped DEF ServiceTyped, Links
        <4>3. CASE \E m \in Range(link.in) : m.kind = "online" /\ e = OnlineEvent(m)
          BY <1>0, <4>1, <4>2, <4>3, Translations DEF OnlineProbed
        <4>4. CASE \/ \E k \in ConnectionEvents \cup {"error"} : e = Note(k)
                   \/ \E m \in Range(link.in) : m.kind = "executed" /\ e = ReceiptEvent(m)
          <5>1. e.kind # "online"
            BY <4>1, <4>2, <4>4, Translations DEF ConnectionEvents
          <5> QED
            BY <5>1
        <4> QED
          BY <1>0, <4>1, <4>3, <4>4 DEF Posts, OnlineProbed
      <3>2. OnlineProbed'
        BY <1>0, <2>5, <3>1 DEF OnlineProbed, Serves, ActorSets
      <3>3. EndsKept'
        BY <1>0, <2>5 DEF EndsKept, Serves
      <3> QED
        BY <2>1, <3>2, <3>3 DEF OutcomeInv
    <2>6. CASE Elapses
      <3>1. OnlineProbed' /\ EndsKept'
        BY <1>0, <2>6 DEF OnlineProbed, EndsKept, Elapses, actorVars
      <3> QED
        BY <2>1, <3>1 DEF OutcomeInv
    <2> QED
      BY <1>0, <1>2, <2>2, <2>3, <2>4, <2>5, <2>6, StepKinds
  <1> QED
    BY <1>1, <1>2

LEMMA OutcomeInitially ==
    ASSUME FrontAssumption, FrontInit
    PROVE  OutcomeInv
  <1>1. OnlineProbed /\ EndsKept
    BY InitTyped DEF OnlineProbed, EndsKept
  <1> QED
    BY <1>1, InitTyped DEF OutcomeInv

LEMMA OutcomeFollows ==
    ASSUME OutcomeInv
    PROVE  OutcomeIsTrue
  <1>0. DriverTyped /\ OnlineProbed /\ EndsKept
    BY DEF OutcomeInv
  <1>1. OkIsTrue
    BY <1>0 DEF OkIsTrue, OnlineProbed, EndsKept
  <1>2. ui.wakePhase = "complete" /\ wake # NoWake =>
            \A h \in wake.hosts : <<wake.attempt, h>> \in probed
    BY <1>0 DEF OnlineProbed, EndsKept
  <1>3. ui.wakePhase = "partial" /\ wake # NoWake => \E h \in wake.hosts : h \notin wake.progress.accepted
    <2> SUFFICES ASSUME ui.wakePhase = "partial", wake # NoWake
                 PROVE  \E h \in wake.hosts : h \notin wake.progress.accepted
      OBVIOUS
    <2>1. /\ wake.progress.accepted \subseteq wake.progress.online
          /\ ~(wake.hosts \subseteq wake.progress.online)
      BY <1>0 DEF EndsKept
    <2> QED
      BY <2>1
  <1> QED
    BY <1>1, <1>2, <1>3 DEF OutcomeIsTrue, CompleteIsTrue

\* Success is shown, or returned as exit status 0, only if every requested target was
\* found online in the attempt reported, and a partly rejected wake is never a success,
\* for any hosts, delays and times (wake.rs Progress::outcome, tui.rs, main.rs).
THEOREM OutcomesAreTrue ==
    ASSUME FrontAssumption
    PROVE  FrontSpec => []OutcomeIsTrue
  <1>1. FrontInit => OutcomeInv
    BY OutcomeInitially
  <1>2. OutcomeInv /\ [FrontNext]_frontVars => OutcomeInv'
    BY OutcomeKept
  <1>3. OutcomeInv => OutcomeIsTrue
    BY OutcomeFollows
  <1> QED
    BY <1>1, <1>2, <1>3, PTL DEF FrontSpec

-----------------------------------------------------------------------------
(* The wait before the second attempt *)

\* The times of the protocol, and how they compare.
LEMMA Times ==
    ASSUME FrontAssumption
    PROVE  /\ LedgerTTL \in Nat /\ PendingTTL \in Nat /\ RetryTTL \in Nat
           /\ ReceiptTimeout \in Nat /\ RecoveryTimeout \in Nat /\ ConnectTimeout \in Nat
           /\ HoldLimit \in Nat /\ NetDelay \in Nat /\ WaitTimeout \in Nat /\ ClockSkew \in Nat
           /\ RecoveryTimeout + ConnectTimeout + ClockSkew < LedgerTTL
           /\ HoldLimit < PendingTTL /\ WaitTimeout + NetDelay + NetDelay < RetryTTL
           /\ NetDelay <= ClockSkew
           /\ RetryTTL <= LedgerTTL
  <1>1. /\ LedgerTTL \in Nat /\ PendingTTL \in Nat /\ RetryTTL \in Nat
        /\ ReceiptTimeout \in Nat /\ RecoveryTimeout \in Nat /\ ConnectTimeout \in Nat
        /\ HoldLimit \in Nat /\ NetDelay \in Nat /\ WaitTimeout \in Nat /\ ClockSkew \in Nat
    BY DEF FrontAssumption, ServerAssumption, ActorAssumption
  <1>2. /\ RecoveryTimeout + RetryTTL + ConnectTimeout + ReceiptTimeout < LedgerTTL
        /\ WaitTimeout + NetDelay + NetDelay < RetryTTL
        /\ HoldLimit < PendingTTL
        /\ NetDelay <= ClockSkew /\ ClockSkew <= RetryTTL
    BY DEF FrontAssumption, ServerAssumption
  <1> QED
    BY <1>1, <1>2

\* The fields of a record.
LEMMA RecordFields ==
    ASSUME ServiceTyped
    PROVE  /\ now \in Nat /\ dispatches \in Seq(Dispatched) /\ Len(dispatches) \in Nat
           /\ rec \in Records \cup {Absent}
           /\ rec.st \in {"none", "pending", "done"} /\ (rec.st = "none" => rec = Absent)
           /\ rec.st # "none" => /\ rec.attempt \in {1, 2} /\ rec.since \in Nat
                                 /\ rec.expires \in Nat /\ rec.lease \in Nat /\ rec.ticket \in Nat
                                 /\ rec \in Records
  <1>1. now \in Nat /\ dispatches \in Seq(Dispatched) /\ rec \in Records \cup {Absent}
    BY DEF ServiceTyped
  <1>2. Len(dispatches) \in Nat
    BY <1>1
  <1>3. CASE rec = Absent
    BY <1>1, <1>2, <1>3 DEF Absent
  <1>4. CASE rec \in Records
    BY <1>1, <1>2, <1>4 DEF Records
  <1> QED
    BY <1>1, <1>3, <1>4

\* The part of the invariant that is about the record and the dispatches of a wake that
\* began at c.
Recorded(c) ==
    /\ rec.st # "none" => rec.ticket = 1
    /\ rec.st # "none" /\ rec.attempt = 2 => Due /\ rec.since >= receipt1 + WaitTimeout
    /\ RetriedAfterWait
    /\ rec.st = "pending" =>
          /\ now <= rec.since + HoldLimit /\ rec.expires = rec.since + PendingTTL
          /\ Len(dispatches) = rec.attempt - 1
    /\ rec.st = "done" => Len(dispatches) = rec.attempt
    /\ Len(dispatches) <= 2
    /\ \A i \in DOMAIN dispatches : dispatches[i].attempt = i
    /\ rec.st = "none" => dispatches = <<>> \/ now >= c + LedgerTTL
    /\ rec.st = "done" => rec.expires >= c + LedgerTTL

LEMMA RecordedMeans ==
    ASSUME NEW c, SecondIsDue, InTurn, OneTicket, BeganAt(c)
    PROVE  Recorded(c)
  BY DEF SecondIsDue, InTurn, OneTicket, BeganAt, Recorded

\* No record expires while its dispatch is under way, or before the last request of its
\* wake; so the dispatch of a first attempt begins at most once.
LEMMA FirstOnly ==
    ASSUME FrontAssumption, ServiceTyped, NEW c \in 0..now, BeganAt(c), Recorded(c),
           NEW q \in Underway, q \in Sendable, FirstBegins(q)
    PROVE  rec.st = "none" /\ dispatches = <<>>
  <1>1. now < c + LedgerTTL
    <2>1. q.wireTime \in Nat /\ now \in Nat
      BY RecordFields DEF Sendable
    <2>2. q.wireTime <= c + RecoveryTimeout + ConnectTimeout
      BY DEF BeganAt, FirstBegins
    <2>3. now - q.wireTime <= ClockSkew
      BY DEF FirstBegins, InSkew
    <2>4. c \in Nat
      BY <2>1
    <2> QED
      BY <2>1, <2>2, <2>3, <2>4, Times
  <1>2. rec.st # "pending"
    <2> SUFFICES ASSUME rec.st = "pending" PROVE FALSE
      OBVIOUS
    <2>1. rec.since \in Nat /\ rec.expires \in Nat /\ now \in Nat
      BY RecordFields
    <2>2. now <= rec.since + HoldLimit /\ rec.expires = rec.since + PendingTTL
      BY DEF Recorded
    <2>3. rec.expires <= now
      BY DEF FirstBegins
    <2> QED
      BY <2>1, <2>2, <2>3, Times
  <1>3. rec.st # "done"
    <2> SUFFICES ASSUME rec.st = "done" PROVE FALSE
      OBVIOUS
    <2>1. rec.expires \in Nat /\ now \in Nat
      BY RecordFields
    <2> PICK ttl : ttl = LedgerTTL
      OBVIOUS
    <2>4. ttl \in Nat
      BY Times
    <2>5. c \in Nat /\ c + ttl \in Nat
      BY <2>1, <2>4
    <2>2. rec.expires >= c + LedgerTTL
      BY DEF Recorded
    <2>3. rec.expires <= now
      BY DEF FirstBegins
    <2> QED
      BY <1>1, <2>1, <2>2, <2>3, <2>5
  <1>4. rec.st = "none"
    BY <1>2, <1>3, RecordFields
  <1>5. c + LedgerTTL \in Nat /\ now \in Nat
    <2>1. c \in Nat /\ now \in Nat
      BY RecordFields
    <2>2. LedgerTTL \in Nat
      BY Times
    <2> QED
      BY <2>1, <2>2
  <1> QED
    BY <1>1, <1>4, <1>5 DEF Recorded

LEMMA LedgerKeeps ==
    ASSUME FrontAssumption, ServiceTyped, ServiceTyped', NEW c \in 0..now,
           BeganAt(c), Recorded(c), receipt1 \in Nat \cup {-1},
           \A x \in Underway : x \in Sendable /\ (x.attempt = 2 => Due),
           UNCHANGED <<now, receipt1>>, Ledger
    PROVE  Recorded(c)'
  <1>0. /\ now \in Nat /\ c \in Nat /\ Len(dispatches) \in Nat
        /\ rec.st \in {"none", "pending", "done"}
        /\ rec.st # "none" => rec.attempt \in {1, 2} /\ rec.since \in Nat /\ rec.expires \in Nat
    BY RecordFields
  <1>1. CASE UNCHANGED <<rec, dispatches>>
    BY <1>1 DEF Recorded, Due, RetriedAfterWait
  <1>2. CASE Forgets
    <2>1. rec'.st = "none" /\ dispatches' = dispatches
      BY <1>2 DEF Forgets, Absent
    <2>2. now >= c + LedgerTTL
      <3>1. rec.st = "done"
        <4> SUFFICES ASSUME rec.st = "pending" PROVE FALSE
          BY <1>0, <1>2 DEF Forgets
        <4> PICK x, s : x = rec.expires /\ s = rec.since
          OBVIOUS
        <4>1. now <= s + HoldLimit /\ x = s + PendingTTL
          BY DEF Recorded
        <4>2. x <= now
          BY <1>2 DEF Forgets
        <4>3. s \in Nat
          BY <1>0
        <4>4. HoldLimit \in Nat /\ PendingTTL \in Nat /\ HoldLimit < PendingTTL
          BY Times
        <4> QED
          BY <1>0, <4>1, <4>2, <4>3, <4>4
      <3>2. rec.expires >= c + LedgerTTL /\ rec.expires <= now
        BY <1>2, <3>1 DEF Forgets, Recorded
      <3>3. LedgerTTL \in Nat
        BY Times
      <3> QED
        BY <1>0, <3>1, <3>2, <3>3
    <2> QED
      BY <2>1, <2>2 DEF Recorded, RetriedAfterWait
  <1>3. CASE Renews
    BY <1>3 DEF Renews, Recorded, RetriedAfterWait, Due
  <1>4. CASE Finishes
    <2> PICK a, s : a = rec.attempt /\ s = rec.since
      OBVIOUS
    <2>1. PICK acc \in SUBSET Hosts :
             dispatches' = Append(dispatches, [attempt |-> a, accepted |-> acc, at |-> s])
      BY <1>4 DEF Finishes
    <2> PICK d : d = [attempt |-> a, accepted |-> acc, at |-> s]
      OBVIOUS
    <2>2. /\ rec.st = "pending" /\ rec'.st = "done" /\ rec'.attempt = a
          /\ rec'.ticket = rec.ticket /\ rec'.since = s /\ rec'.expires = now + LedgerTTL
      BY <1>4 DEF Finishes
    <2>3. a \in {1, 2} /\ s \in Nat /\ d.attempt = a /\ d.at = s
      BY <1>0, <2>2
    <2>4. d \in Dispatched
      BY <2>3 DEF Dispatched
    <2>5. /\ DOMAIN dispatches' = DOMAIN dispatches \cup {Len(dispatches) + 1}
          /\ dispatches'[Len(dispatches) + 1] = d
          /\ \A k \in DOMAIN dispatches : dispatches'[k] = dispatches[k]
      BY <2>1, <2>4, RecordFields, RangeAppend
    <2>6. Len(dispatches') = Len(dispatches) + 1
      BY <2>1, <2>4, RecordFields
    <2>7. Len(dispatches) + 1 = a
      BY <1>0, <2>2, <2>3 DEF Recorded
    <2>8. a = 2 => Due /\ s >= receipt1 + WaitTimeout
      BY <2>2 DEF Recorded
    <2>9. RetriedAfterWait'
      BY <2>3, <2>5, <2>8 DEF Recorded, RetriedAfterWait, Due
    <2>10. \A i \in DOMAIN dispatches' : dispatches'[i].attempt = i
      BY <2>3, <2>5, <2>7 DEF Recorded
    <2>11. Len(dispatches') = rec'.attempt /\ Len(dispatches') <= 2
      BY <2>2, <2>3, <2>6, <2>7
    <2>12. rec'.expires >= c + LedgerTTL
      BY <1>0, <2>2, Times
    <2>13. rec'.attempt = 2 => Due' /\ rec'.since >= receipt1' + WaitTimeout
      BY <2>2, <2>8 DEF Due
    <2> QED
      BY <2>2, <2>9, <2>10, <2>11, <2>12, <2>13 DEF Recorded
  <1>5. ASSUME NEW q \in Underway, FirstBegins(q)
        PROVE  Recorded(c)'
    <2>1. rec.st = "none" /\ dispatches = <<>> /\ dispatches' = dispatches
      BY <1>5, FirstOnly DEF FirstBegins
    <2>2. Len(dispatches) = 0 /\ DOMAIN dispatches = {}
      BY <2>1
    <2> PICK one : one = 1
      OBVIOUS
    <2>3. /\ rec'.st = "pending" /\ rec'.attempt = one /\ rec'.ticket = Len(dispatches) + 1
          /\ rec'.since = now /\ rec'.expires = now + PendingTTL
      BY <1>5 DEF FirstBegins
    <2>4. now <= now + HoldLimit
      BY <1>0, Times
    <2> QED
      BY <2>1, <2>2, <2>3, <2>4 DEF Recorded, RetriedAfterWait
  <1>6. ASSUME NEW q \in Underway, SecondBegins(q)
        PROVE  Recorded(c)'
    <2>1. Due
      BY <1>6 DEF SecondBegins
    <2>2. /\ rec.st = "done" /\ rec.attempt = 1 /\ dispatches' = dispatches
          /\ rec'.st = "pending" /\ rec'.attempt = 2 /\ rec'.ticket = rec.ticket
          /\ rec'.since = now /\ rec'.expires = now + PendingTTL
      BY <1>6 DEF SecondBegins
    <2>3. Len(dispatches) = 1 /\ rec.ticket = 1
      BY <2>2 DEF Recorded
    <2>4. now <= now + HoldLimit
      BY <1>0, Times
    <2>5. now >= receipt1 + WaitTimeout /\ Due'
      BY <2>1 DEF Due
    <2> QED
      BY <2>2, <2>3, <2>4, <2>5 DEF Recorded, RetriedAfterWait
  <1> QED
    BY <1>1, <1>2, <1>3, <1>4, <1>5, <1>6 DEF Ledger

\* The parts that are about the requests, about what the server answered, and about the
\* front end.
Asked(c) ==
    /\ \A x \in Queued \cup Underway : x.attempt = 2 => Due /\ x.ticket = 1
    /\ actor.pc # "gone" => \A x \in Queued : now <= x.at + ConnectTimeout
    /\ \A x \in Queued : x.attempt = 1 => x.at <= c + RecoveryTimeout
    /\ \A q \in Underway :
          q.attempt = 1 => q.wireTime <= c + RecoveryTimeout + ConnectTimeout
Told ==
    /\ \A m \in Range(link.in) : m.kind = "executed" => m.ticket = 1
    /\ \A e \in Range(events) : e.kind = "receipt" => e.ticket = 1
Driven(c) ==
    /\ wake.attempt = 2 \/ cli.attempt = 2 => Due
    /\ CountsDown
    /\ wake # NoWake /\ (wake.receipt \/ wake.attempt = 2) => wake.ticket = 1
    /\ cli.receipt \/ cli.attempt = 2 => cli.ticket = 1
    /\ InProgress /\ wake.attempt = 1 => wake.progress.created = c

LEMMA WaitParts ==
    ASSUME NEW c
    PROVE  SecondIsDue /\ CountsDown /\ InTurn /\ OneTicket /\ BeganAt(c)
              <=> Recorded(c) /\ Asked(c) /\ Told /\ Driven(c)
  <1>1. ASSUME SecondIsDue, CountsDown, InTurn, OneTicket, BeganAt(c)
        PROVE  Recorded(c) /\ Asked(c) /\ Told /\ Driven(c)
    <2>1. Recorded(c)
      BY <1>1, RecordedMeans
    <2>2. Asked(c)
      BY <1>1 DEF SecondIsDue, InTurn, OneTicket, BeganAt, Asked
    <2>3. Told
      BY <1>1 DEF OneTicket, Told
    <2>4. Driven(c)
      BY <1>1 DEF SecondIsDue, OneTicket, BeganAt, Driven
    <2> QED
      BY <2>1, <2>2, <2>3, <2>4
  <1>2. ASSUME Recorded(c), Asked(c), Told, Driven(c)
        PROVE  SecondIsDue /\ CountsDown /\ InTurn /\ OneTicket /\ BeganAt(c)
    <2>1. SecondIsDue
      BY <1>2 DEF Recorded, Asked, Driven, SecondIsDue
    <2>2. InTurn
      BY <1>2 DEF Recorded, Asked, InTurn
    <2>3. OneTicket
      BY <1>2 DEF Recorded, Asked, Told, Driven, OneTicket
    <2>4. BeganAt(c)
      BY <1>2 DEF Recorded, Asked, Driven, BeganAt
    <2>5. CountsDown
      BY <1>2 DEF Driven
    <2> QED
      BY <2>1, <2>2, <2>3, <2>4, <2>5
  <1> QED
    BY <1>1, <1>2

\* Requests under way are of the client.
LEMMA UnderwayTyped ==
    ASSUME ServiceTyped
    PROVE  /\ Underway \subseteq Sendable
           /\ \A q \in Underway : q.attempt \in {1, 2} /\ q.ticket \in Nat /\ q.wireTime \in Nat
           /\ \A x \in Queued : /\ x \in Commands /\ x.kind = "wake"
                                /\ x.attempt \in {1, 2} /\ x.ticket \in Nat /\ x.at \in Nat
  <1>1. link.out \in Seq(Sendable) /\ late \in Seq(Sendable) /\ commands \in Seq(Commands)
    BY DEF ServiceTyped, Links
  <1>2. Underway \subseteq Sendable /\ Range(commands) \subseteq Commands
    BY <1>1, RangeTyped DEF Underway
  <1>3. \A x \in Queued : x \in Commands /\ x.kind = "wake"
    BY <1>2 DEF Queued
  <1>4. \A x \in Commands : x.kind = "wake" =>
           x.attempt \in {1, 2} /\ x.ticket \in Nat /\ x.at \in Nat
    BY DEF Commands, Shutdown
  <1>5. \A q \in Sendable : q.attempt \in {1, 2} /\ q.ticket \in Nat /\ q.wireTime \in Nat
    BY DEF Sendable
  <1> QED
    BY <1>2, <1>3, <1>4, <1>5

LEMMA ServerWaits ==
    ASSUME FrontAssumption, ServiceTyped, ServiceTyped', DriverTyped, NEW c \in 0..now,
           Recorded(c), Asked(c), Told, Driven(c), BeganAt(c), Serves, ServerMoves
    PROVE  Recorded(c)' /\ Asked(c)' /\ Told' /\ Driven(c)'
  <1>1. Underway \subseteq Sendable /\ receipt1 \in Nat \cup {-1}
    BY UnderwayTyped DEF DriverTyped
  <1>2. Recorded(c)'
    BY <1>1, LedgerKeeps DEF Asked, Serves, ServerMoves
  <1>3. Queued' = Queued /\ Underway' \subseteq Underway
    <2>1. link.out \in Seq(Sendable) /\ late \in Seq(Sendable)
      BY DEF ServiceTyped, Links
    <2>2. Range(link'.out) \subseteq Range(link.out)
      BY <2>1, RangeTail DEF ServerMoves, Answered
    <2>3. Range(late') \subseteq Range(late)
      BY <2>1, RangeTail DEF ServerMoves
    <2> QED
      BY <2>2, <2>3 DEF ServerMoves, Queued, Underway
  <1>4. Asked(c)'
    BY <1>3 DEF Asked, Due, Serves, ServerMoves
  <1>5. Told'
    <2>1. \A m \in Range(link'.in) : m \in Range(link.in) \/ Says(m)
      BY MessageAdded DEF ServiceTyped
    <2>2. \A m \in Range(link'.in) : m.kind = "executed" => m.ticket = 1
      BY <1>2, <2>1 DEF Told, Says, Recorded
    <2> QED
      BY <2>2 DEF Told, ServerMoves
  <1>6. Driven(c)'
    BY DEF Driven, CountsDown, Counts, InProgress, Due, Serves
  <1> QED
    BY <1>2, <1>4, <1>5, <1>6

LEMMA ActorWaits ==
    ASSUME FrontAssumption, ServiceTyped, ServiceTyped', NEW c \in 0..now,
           Recorded(c), Asked(c), Told, Driven(c), Serves, ActorSets
    PROVE  Recorded(c)' /\ Asked(c)' /\ Told' /\ Driven(c)'
  <1>0. now \in Nat /\ c \in Nat
    BY DEF ServiceTyped
  <1>1. Recorded(c)'
    BY DEF Recorded, RetriedAfterWait, Due, Serves, ActorSets
  <1>2. \A x \in Queued \cup Underway : x.attempt = 2 => Due /\ x.ticket = 1
    BY DEF Asked
  <1>3. \A x \in Queued' \cup Underway' : x.attempt = 2 => Due' /\ x.ticket = 1
    <2> SUFFICES ASSUME NEW x \in Queued' \cup Underway', x.attempt = 2
                 PROVE  Due' /\ x.ticket = 1
      OBVIOUS
    <2>1. Due' = Due
      BY DEF Due, Serves
    <2>2. CASE x \in Queued \cup Underway
      BY <1>2, <2>1, <2>2
    <2>3. CASE x \notin Queued \cup Underway
      <3>1. PICK y \in Queued : x = Request(y)
        BY <2>3 DEF ActorSets
      <3>2. x.attempt = y.attempt /\ x.ticket = y.ticket
        BY <1>0, <3>1, UnderwayTyped, Translations
      <3> QED
        BY <1>2, <2>1, <3>2
    <2> QED
      BY <2>2, <2>3
  <1>4. \A q \in Underway' :
           q.attempt = 1 => q.wireTime <= c + RecoveryTimeout + ConnectTimeout
    <2> SUFFICES ASSUME NEW q \in Underway', q.attempt = 1, q \notin Underway
                 PROVE  q.wireTime <= c + RecoveryTimeout + ConnectTimeout
      BY DEF Asked
    <2>1. PICK y \in Queued : q = Request(y)
      BY DEF ActorSets
    <2>2. y.attempt = 1 /\ q.wireTime = now /\ y.at \in Nat
      BY <1>0, <2>1, UnderwayTyped, Translations
    <2>3. now <= y.at + ConnectTimeout
      BY DEF Asked, ActorSets
    <2>4. y.at <= c + RecoveryTimeout
      BY <2>2 DEF Asked
    <2>5. RecoveryTimeout \in Nat /\ ConnectTimeout \in Nat
      BY Times
    <2> QED
      BY <1>0, <2>2, <2>3, <2>4, <2>5
  <1>5. \A x \in Queued' : now <= x.at + ConnectTimeout
    BY DEF Asked, ActorSets
  <1>6. Asked(c)'
    BY <1>3, <1>4, <1>5 DEF Asked, ActorSets
  <1>7. Told'
    <2>1. \A e \in Range(events') : e.kind = "receipt" => e.ticket = 1
      <3> SUFFICES ASSUME NEW e \in Range(events'), e.kind = "receipt", e \notin Range(events)
                   PROVE  e.ticket = 1
        BY DEF Told
      <3>1. Posts(e)
        BY DEF ActorSets
      <3>2. link.in \in Seq(Receivable)
        BY DEF ServiceTyped, Links
      <3>3. Range(link.in) \subseteq Receivable
        BY <3>2, RangeTyped
      <3>4. ~(\E k \in ConnectionEvents \cup {"error"} : e = Note(k))
        BY DEF Note, ConnectionEvents
      <3>5. ~(\E m \in Range(link.in) : m.kind = "online" /\ e = OnlineEvent(m))
        BY <1>0, <3>3, Translations
      <3>6. PICK m \in Range(link.in) : m.kind = "executed" /\ e = ReceiptEvent(m)
        BY <3>1, <3>4, <3>5 DEF Posts
      <3>7. e.ticket = m.ticket
        BY <1>0, <3>3, <3>6, Translations
      <3> QED
        BY <3>6, <3>7 DEF Told
    <2> QED
      BY <2>1 DEF Told, ActorSets
  <1>8. Driven(c)'
    BY DEF Driven, CountsDown, Counts, InProgress, Due, Serves
  <1> QED
    BY <1>1, <1>6, <1>7, <1>8

LEMMA ClockWaits ==
    ASSUME FrontAssumption, ServiceTyped, ServiceTyped', DriverTyped, NEW c \in 0..now,
           Recorded(c), Asked(c), Told, Driven(c), Elapses
    PROVE  c \in 0..now' /\ Recorded(c)' /\ Asked(c)' /\ Told' /\ Driven(c)'
  <1>0. /\ now \in Nat /\ c \in Nat /\ now' = now + 1 /\ receipt1 \in Nat \cup {-1}
        /\ UNCHANGED <<actor, commands, events, link, rec, dispatches>>
        /\ UNCHANGED <<wake, receipt1, cli>>
        /\ LedgerTTL \in Nat /\ HoldLimit \in Nat /\ ConnectTimeout \in Nat /\ WaitTimeout \in Nat
    BY Times DEF ServiceTyped, DriverTyped, Elapses, actorVars
  <1>1. Due => Due'
    BY <1>0 DEF Due
  <1>2. Recorded(c)'
    <2>1. rec.st = "pending" => now' <= rec.since + HoldLimit
      <3> SUFFICES ASSUME rec.st = "pending" PROVE now' <= rec.since + HoldLimit
        OBVIOUS
      <3>1. rec.since \in Nat
        BY RecordFields
      <3>2. now < rec.since + HoldLimit
        BY DEF Elapses, Settled
      <3> QED
        BY <1>0, <3>1, <3>2
    <2>2. now >= c + LedgerTTL => now' >= c + LedgerTTL
      BY <1>0
    <2> QED
      BY <1>0, <1>1, <2>1, <2>2 DEF Recorded, RetriedAfterWait
  <1>3. Asked(c)'
    <2>1. actor.pc # "gone" => \A x \in Queued : now' <= x.at + ConnectTimeout
      <3> SUFFICES ASSUME actor.pc # "gone", NEW x \in Queued
                   PROVE  now' <= x.at + ConnectTimeout
        OBVIOUS
      <3>1. x \in Range(commands) /\ x.kind = "wake" /\ x.at \in Nat
        BY UnderwayTyped DEF Queued
      <3>2. PICK i \in DOMAIN commands : commands[i] = x
        BY <3>1 DEF Range
      <3>3. now < x.at + ConnectTimeout
        BY <3>1, <3>2 DEF Elapses, Settled
      <3> QED
        BY <1>0, <3>1, <3>3
    <2>2. Queued' = Queued /\ Underway' \subseteq Underway
      BY <1>0 DEF Elapses, Queued, Underway
    <2> QED
      BY <1>0, <1>1, <2>1, <2>2 DEF Asked
  <1>4. Told'
    BY <1>0 DEF Told
  <1>5. Driven(c)'
    BY <1>0, <1>1 DEF Driven, CountsDown, Counts, InProgress
  <1> QED
    BY <1>0, <1>2, <1>3, <1>4, <1>5

\* Before the first request there is nothing to keep in order.
LEMMA NothingYet ==
    ASSUME OneWake, ~ui.started, cli.attempt = 0, NEW d
    PROVE  /\ Recorded(d) /\ Asked(d) /\ receipt1 = -1 /\ ~Due
           /\ Queued = {} /\ Underway = {}
  <1>1. /\ Queued = {} /\ Underway = {} /\ rec = Absent /\ dispatches = <<>> /\ receipt1 = -1
    BY DEF OneWake
  <1>2. rec.st = "none" /\ Len(dispatches) = 0 /\ DOMAIN dispatches = {}
    BY <1>1 DEF Absent
  <1>3. Recorded(d) /\ ~Due
    BY <1>1, <1>2 DEF Recorded, RetriedAfterWait, Due
  <1>4. Asked(d)
    BY <1>1 DEF Asked
  <1> QED
    BY <1>1, <1>3, <1>4

\* A first receipt comes before anything that waits for it.
LEMMA ReceiptOnce ==
    ASSUME NEW d, Recorded(d), UNCHANGED <<now, rec, dispatches>>,
           receipt1' = receipt1 \/ receipt1 = -1
    PROVE  Recorded(d)' /\ (Due => Due')
  <1>1. receipt1 # -1 => receipt1' = receipt1
    OBVIOUS
  <1>2. Due => Due' /\ receipt1' = receipt1
    BY <1>1 DEF Due
  <1>3. RetriedAfterWait'
    BY <1>1 DEF Recorded, RetriedAfterWait
  <1>4. rec'.st # "none" /\ rec'.attempt = 2 => Due' /\ rec'.since >= receipt1' + WaitTimeout
    BY <1>2 DEF Recorded
  <1> QED
    BY <1>2, <1>3, <1>4 DEF Recorded

\* A request of a front end is queued now, for an attempt that may be asked for.
LEMMA AskedKept ==
    ASSUME FrontAssumption, now \in Nat, NEW d, Asked(d), UNCHANGED now,
           Underway' = Underway, Due => Due',
           \/ Queued' \subseteq Queued /\ (actor' = actor \/ Queued' = {})
           \/ /\ actor' = actor
              /\ \E y \in Commands : /\ Queued' = Queued \cup {y} /\ y.at = now
                                     /\ y.attempt = 2 => Due /\ y.ticket = 1
                                     /\ y.attempt = 1 => now <= d + RecoveryTimeout
    PROVE  Asked(d)'
  <1>1. ConnectTimeout \in Nat /\ now <= now + ConnectTimeout
    BY Times
  <1>2. CASE Queued' \subseteq Queued /\ (actor' = actor \/ Queued' = {})
    BY <1>2 DEF Asked
  <1>3. CASE /\ actor' = actor
             /\ \E y \in Commands : /\ Queued' = Queued \cup {y} /\ y.at = now
                                    /\ y.attempt = 2 => Due /\ y.ticket = 1
                                    /\ y.attempt = 1 => now <= d + RecoveryTimeout
    <2>1. PICK y \in Commands : /\ Queued' = Queued \cup {y} /\ y.at = now
                                /\ y.attempt = 2 => Due /\ y.ticket = 1
                                /\ y.attempt = 1 => now <= d + RecoveryTimeout
      BY <1>3
    <2>2. \A x \in Queued' \cup Underway' : x.attempt = 2 => Due' /\ x.ticket = 1
      BY <2>1 DEF Asked
    <2>3. \A x \in Queued' : x.attempt = 1 => x.at <= d + RecoveryTimeout
      BY <1>1, <2>1 DEF Asked
    <2>4. actor.pc # "gone" => \A x \in Queued' : now <= x.at + ConnectTimeout
      BY <1>1, <2>1 DEF Asked
    <2> QED
      BY <1>3, <2>2, <2>3, <2>4 DEF Asked
  <1> QED
    BY <1>2, <1>3

\* The front end's part of the invariant, after each step of the terminal UI.
LEMMA UiDriven ==
    ASSUME FrontAssumption, ServiceTyped, DriverTyped, OneWake, mode = "ui", UiMoves,
           NEW d \in Nat, Driven(d), Told, ~UiStarts
    PROVE  Driven(d)' /\ (receipt1' = receipt1 \/ receipt1 = -1)
  <1>0. /\ now \in Nat /\ now' = now /\ cli' = cli /\ receipt1 \in Nat \cup {-1}
        /\ cli.attempt = 0 /\ cli.pc # "wake" /\ WaitTimeout \in Nat
        /\ wake.attempt = 2 => Due
        /\ wake # NoWake => wake \in Wakes
        /\ InProgress => wake \in Wakes /\ wake.finished = FALSE
        /\ NoWake.attempt = 0
        /\ cli.receipt => cli.ticket = 1
    BY WakeOrNone, Times DEF UiMoves, DriverFrame, ServiceTyped, DriverTyped, OneWake, Driven
  <1>1. ASSUME receipt1' = receipt1 \/ receipt1 = -1, wake'.attempt = 2 => Due,
               InProgress' /\ wake'.attempt = 1 =>
                  /\ wake'.progress.started = receipt1'
                  /\ receipt1' # -1 => wake'.progress.deadline = receipt1' + WaitTimeout
                  /\ wake'.receipt => receipt1' # -1
                  /\ wake'.receipt => wake'.deadline = wake'.progress.deadline
                  /\ wake'.progress.created = d,
               wake' # NoWake /\ (wake'.receipt \/ wake'.attempt = 2) => wake'.ticket = 1
        PROVE  Driven(d)' /\ (receipt1' = receipt1 \/ receipt1 = -1)
    <2>1. Due => Due'
      BY <1>0, <1>1 DEF Due
    <2>2. CountsDown'
      BY <1>0, <1>1 DEF CountsDown, Counts, InProgress
    <2> QED
      BY <1>0, <1>1, <2>1, <2>2 DEF Driven
  <1>2. CASE UiKeeps
    <2>1. CASE wake' = NoWake
      BY <1>0, <1>1, <1>2, <2>1 DEF UiKeeps, InProgress
    <2>2. CASE wake' = wake
      <3>1. InProgress' => InProgress
        BY <2>2 DEF InProgress
      <3> QED
        BY <1>0, <1>1, <1>2, <2>2, <3>1 DEF UiKeeps, Driven, CountsDown, Counts
    <2> QED
      BY <1>2, <2>1, <2>2 DEF UiKeeps
  <1>3. CASE UiResumes
    <2> PICK by : by = now + ReceiptTimeout
      OBVIOUS
    <2>1. wake' = [wake EXCEPT !.receipt = FALSE, !.receiptDeadline = by] /\ InProgress
          /\ receipt1' = receipt1
      BY <1>3 DEF UiResumes
    <2>2. /\ wake'.attempt = wake.attempt /\ wake'.progress = wake.progress
          /\ ~wake'.receipt /\ wake'.ticket = wake.ticket /\ wake # NoWake
      BY <1>0, <2>1 DEF Wakes, InProgress
    <2> QED
      BY <1>0, <1>1, <2>1, <2>2 DEF Driven, CountsDown, Counts
  <1>4. CASE UiFails
    <2>1. /\ wake'.finished /\ wake'.attempt = wake.attempt /\ wake'.ticket = wake.ticket
          /\ wake'.receipt = wake.receipt /\ wake # NoWake /\ receipt1' = receipt1
      BY <1>0, <1>4 DEF UiFails, Wakes, InProgress
    <2> QED
      BY <1>0, <1>1, <2>1 DEF Driven, InProgress
  <1>5. CASE UiReceives
    <2>1. PICK e \in Range(events) :
             /\ e.kind = "receipt" /\ InProgress /\ wake.attempt = e.attempt
             /\ wake' = [wake EXCEPT !.receipt = TRUE, !.ticket = e.ticket,
                            !.progress = Receive(wake.progress, e.accepted),
                            !.deadline = Receive(wake.progress, e.accepted).deadline,
                            !.finished = Receive(wake.progress, e.accepted).accepted = {}]
             /\ receipt1' = IF e.attempt = 1 /\ receipt1 = -1 THEN now ELSE receipt1
      BY <1>5, Zenon DEF UiReceives
    <2> PICK p : p = Receive(wake.progress, e.accepted)
      OBVIOUS
    <2>2. wake \in Wakes /\ wake.progress \in Progresses /\ e.accepted \in SUBSET Hosts
      BY <1>0, <2>1, ReplyFields DEF Wakes
    <2>3. /\ p.created = wake.progress.created
          /\ p.started = (IF wake.progress.started = -1 THEN now ELSE wake.progress.started)
          /\ p.deadline = p.started + WaitTimeout
      BY <2>2, ReceiveTyped DEF ServiceTyped
    <2> PICK dl, fin : dl = p.deadline /\ fin = (p.accepted = {})
      OBVIOUS
    <2>4. wake' = [wake EXCEPT !.receipt = TRUE, !.ticket = e.ticket, !.progress = p,
                               !.deadline = dl, !.finished = fin]
      BY <2>1
    <2>5. /\ wake'.progress = p /\ wake'.attempt = wake.attempt /\ wake'.ticket = e.ticket
          /\ wake'.deadline = dl
      BY <2>2, <2>4 DEF Wakes
    <2>6. e.ticket = 1
      BY <2>1 DEF Told
    <2>7. wake'.attempt = 1 => /\ p.started = receipt1' /\ receipt1' # -1 /\ p.created = d
                               /\ p.deadline = receipt1' + WaitTimeout
      <3> SUFFICES ASSUME wake.attempt = 1
                   PROVE  /\ p.started = receipt1' /\ receipt1' # -1 /\ p.created = d
                          /\ p.deadline = receipt1' + WaitTimeout
        BY <2>5
      <3>1. wake.progress.started = receipt1 /\ wake.progress.created = d
        BY <2>1 DEF Driven, CountsDown, Counts
      <3>2. receipt1' = IF receipt1 = -1 THEN now ELSE receipt1
        BY <2>1
      <3> QED
        BY <1>0, <2>3, <3>1, <3>2
    <2> QED
      BY <1>0, <1>1, <2>1, <2>5, <2>6, <2>7
  <1>6. CASE UiObserves
    <2>1. PICK e \in Range(events) :
             /\ e.kind = "online" /\ wake # NoWake /\ receipt1' = receipt1
             /\ wake' = [wake EXCEPT !.progress = Observed(wake.progress, e.host),
                           !.finished = @ \/ Outcome(Observed(wake.progress, e.host), wake.hosts)
                                                 \in {"complete", "partial"}]
      BY <1>6, Zenon DEF UiObserves
    <2> PICK p : p = Observed(wake.progress, e.host)
      OBVIOUS
    <2> PICK fin : fin = (Outcome(p, wake.hosts) \in {"complete", "partial"})
      OBVIOUS
    <2>2. wake \in Wakes /\ wake.progress \in Progresses /\ e.host \in Hosts
      BY <1>0, <2>1, ReplyFields DEF Wakes
    <2>3. /\ p.created = wake.progress.created /\ p.started = wake.progress.started
          /\ p.deadline = wake.progress.deadline
      BY <2>2, ObservedTyped
    <2>4. wake' = [wake EXCEPT !.progress = p, !.finished = @ \/ fin]
      BY <2>1
    <2>5. /\ wake'.progress = p /\ wake'.attempt = wake.attempt /\ wake'.ticket = wake.ticket
          /\ wake'.deadline = wake.deadline /\ wake'.receipt = wake.receipt
          /\ wake'.finished = (wake.finished \/ fin)
      BY <2>2, <2>4 DEF Wakes
    <2>6. InProgress' => InProgress
      BY <2>1, <2>5 DEF InProgress
    <2>7. InProgress' /\ wake'.attempt = 1 =>
             /\ wake'.progress.started = receipt1'
             /\ receipt1' # -1 => wake'.progress.deadline = receipt1' + WaitTimeout
             /\ wake'.receipt => receipt1' # -1
             /\ wake'.receipt => wake'.deadline = wake'.progress.deadline
             /\ wake'.progress.created = d
      BY <2>1, <2>3, <2>5, <2>6 DEF Driven, CountsDown, Counts
    <2> QED
      BY <1>0, <1>1, <2>1, <2>5, <2>7 DEF Driven
  <1>7. CASE UiRetries
    <2>1. Due
      <3>1. Counts(wake.progress, wake.receipt) /\ wake.deadline = wake.progress.deadline
            /\ wake.receipt /\ now >= wake.deadline
        BY <1>7 DEF UiRetries, Driven, CountsDown
      <3> QED
        BY <3>1 DEF Counts, Due
    <2> PICK np, by, dl, two : np = NewProgress /\ by = now + ReceiptTimeout
                               /\ dl = now + WaitTimeout /\ two = 2
      OBVIOUS
    <2>2. wake' = [wake EXCEPT !.attempt = two, !.receipt = FALSE, !.progress = np,
                               !.receiptDeadline = by, !.deadline = dl]
          /\ InProgress /\ wake.receipt /\ receipt1' = receipt1
      BY <1>7 DEF UiRetries
    <2>3. wake'.attempt = 2 /\ wake'.ticket = wake.ticket
      BY <1>0, <2>2 DEF Wakes
    <2>4. wake'.ticket = 1
      BY <2>2, <2>3 DEF Driven, InProgress
    <2> QED
      BY <1>1, <2>1, <2>2, <2>3, <2>4
  <1> QED
    BY <1>2, <1>3, <1>4, <1>5, <1>6, <1>7 DEF UiMoves

LEMMA UiWaits ==
    ASSUME FrontAssumption, ServiceTyped, DriverTyped, OneWake, mode = "ui", UiMoves,
           ui' \in Screens, NEW c \in 0..now, Recorded(c), Asked(c), Told, Driven(c)
    PROVE  \E d \in 0..now' : Recorded(d)' /\ Asked(d)' /\ Told' /\ Driven(d)'
  <1>0. /\ now \in Nat /\ now' = now /\ c \in Nat /\ UNCHANGED <<rec, dispatches, cli>>
        /\ actor' = actor \/ commands' = <<>>
    BY DEF ServiceTyped, UiMoves, DriverFrame, serverVars
  <1>1. /\ Range(link'.in) \subseteq Range(link.in) /\ Underway' = Underway
        /\ Range(events') \subseteq Range(events)
        /\ \/ Queued' \subseteq Queued
           \/ /\ actor' = actor
              /\ \E y \in Commands :
                 /\ Queued' = Queued \cup {y} /\ y.at = now
                 /\ \/ UiStarts /\ y.attempt = 1
                    \/ UiResumes /\ y.attempt = wake.attempt
                       /\ (wake.attempt = 2 => y.ticket = wake.ticket)
                    \/ UiRetries /\ y.attempt = 2 /\ y.ticket = wake.ticket
    BY UiKeepsTypes
  <1>2. Told'
    BY <1>1 DEF Told
  <1>3. actor' = actor \/ Queued' = {}
    BY <1>0, RangeEmpty DEF Queued
  <1>4. CASE UiStarts
    <2> PICK d : d = now
      OBVIOUS
    <2>1. ~ui.started /\ cli.attempt = 0 /\ receipt1' = receipt1
      BY <1>4 DEF OneWake, UiStarts
    <2>2. /\ Recorded(d) /\ Asked(d) /\ receipt1 = -1 /\ ~Due
          /\ Queued = {} /\ Underway = {}
      BY <2>1, NothingYet
    <2>3. Recorded(d)'
      BY <1>0, <2>1, <2>2, ReceiptOnce
    <2>4. Asked(d)'
      <3>1. now <= d + RecoveryTimeout
        BY <1>0, Times
      <3>2. \A y : UiStarts /\ y.attempt = 1 => y.attempt # 2
        OBVIOUS
      <3>3. ~UiResumes /\ ~UiRetries
        BY <2>1 DEF UiResumes, UiRetries, InProgress, OneWake
      <3>4. \/ Queued' \subseteq Queued /\ (actor' = actor \/ Queued' = {})
            \/ /\ actor' = actor
               /\ \E y \in Commands : /\ Queued' = Queued \cup {y} /\ y.at = now
                                      /\ y.attempt = 2 => Due /\ y.ticket = 1
                                      /\ y.attempt = 1 => now <= d + RecoveryTimeout
        BY <1>1, <1>3, <3>1, <3>2, <3>3
      <3> QED
        BY <1>0, <1>1, <2>2, <3>4, AskedKept
    <2>5. Driven(d)'
      <3>1. PICK hs \in Selections :
               wake' = [hosts |-> hs, attempt |-> 1, ticket |-> 0, receipt |-> FALSE,
                        finished |-> FALSE, progress |-> NewProgress,
                        receiptDeadline |-> now + ReceiptTimeout,
                        deadline |-> now + WaitTimeout]
        BY <1>4 DEF UiStarts
      <3>2. wake'.attempt = 1 /\ wake'.receipt = FALSE /\ wake'.progress = NewProgress
        BY <3>1
      <3>3. NewProgress.started = -1 /\ NewProgress.created = d
        BY <1>0, NewTyped
      <3>4. cli.pc # "wake" /\ (cli.receipt => cli.ticket = 1)
        BY <2>1 DEF OneWake, Driven
      <3>5. CountsDown'
        BY <1>0, <2>1, <2>2, <3>2, <3>3, <3>4 DEF CountsDown, Counts
      <3> QED
        BY <1>0, <2>1, <3>2, <3>3, <3>4, <3>5 DEF Driven
    <2>6. d \in 0..now'
      BY <1>0
    <2> QED
      BY <1>2, <2>3, <2>4, <2>5, <2>6
  <1>5. CASE ~UiStarts
    <2>1. Driven(c)' /\ (receipt1' = receipt1 \/ receipt1 = -1)
      BY <1>0, <1>5, UiDriven
    <2>2. Recorded(c)' /\ (Due => Due')
      BY <1>0, <2>1, ReceiptOnce
    <2>3. \A y : UiResumes /\ y.attempt = wake.attempt
                   /\ (wake.attempt = 2 => y.ticket = wake.ticket) =>
             /\ y.attempt = 2 => Due /\ y.ticket = 1
             /\ y.attempt = 1 => now <= c + RecoveryTimeout
      <3> SUFFICES ASSUME UiResumes
                   PROVE  /\ wake.attempt = 2 => Due /\ wake.ticket = 1
                          /\ wake.attempt = 1 => now <= c + RecoveryTimeout
        OBVIOUS
      <3>1. InProgress /\ wake # NoWake /\ now - wake.progress.created < RecoveryTimeout
        BY DEF UiResumes, InProgress, CanRecover
      <3> QED
        BY <1>0, <3>1, Times DEF Driven
    <2>4. \A y : UiRetries /\ y.attempt = 2 /\ y.ticket = wake.ticket => Due /\ y.ticket = 1
      <3> SUFFICES ASSUME UiRetries PROVE Due /\ wake.ticket = 1
        OBVIOUS
      <3>1. Counts(wake.progress, wake.receipt) /\ wake.deadline = wake.progress.deadline
            /\ wake.receipt /\ now >= wake.deadline /\ wake # NoWake
        BY DEF UiRetries, Driven, CountsDown, InProgress
      <3> QED
        BY <3>1 DEF Counts, Due, Driven
    <2>5. \/ Queued' \subseteq Queued /\ (actor' = actor \/ Queued' = {})
          \/ /\ actor' = actor
             /\ \E y \in Commands : /\ Queued' = Queued \cup {y} /\ y.at = now
                                    /\ y.attempt = 2 => Due /\ y.ticket = 1
                                    /\ y.attempt = 1 => now <= c + RecoveryTimeout
      BY <1>1, <1>3, <1>5, <2>3, <2>4
    <2>6. Asked(c)'
      BY <1>0, <1>1, <2>2, <2>5, AskedKept
    <2>7. c \in 0..now'
      BY <1>0
    <2> QED
      BY <1>2, <2>1, <2>2, <2>6, <2>7
  <1> QED
    BY <1>4, <1>5

\* The front end's part of the invariant, after each step of the command line.
LEMMA CliDriven ==
    ASSUME FrontAssumption, ServiceTyped, DriverTyped, OneWake, mode = "command", CliMoves,
           NEW d \in Nat, Driven(d), Told
    PROVE  Driven(d)' /\ (receipt1' = receipt1 \/ receipt1 = -1)
  <1>0. /\ now \in Nat /\ now' = now /\ wake' = wake /\ receipt1 \in Nat \cup {-1}
        /\ wake = NoWake /\ NoWake.attempt = 0 /\ WaitTimeout \in Nat
        /\ cli \in Commandlines /\ cli.progress \in Progresses
        /\ cli.attempt = 2 => Due
        /\ cli.receipt \/ cli.attempt = 2 => cli.ticket = 1
    BY Times DEF CliMoves, DriverFrame, tuiOwn, ServiceTyped, DriverTyped, OneWake, Driven,
                 Commandlines, NoWake
  <1>1. ASSUME receipt1' = receipt1 \/ receipt1 = -1, cli'.attempt = 2 => Due,
               cli'.pc = "wake" /\ cli'.attempt = 1 =>
                  /\ cli'.progress.started = receipt1'
                  /\ receipt1' # -1 => cli'.progress.deadline = receipt1' + WaitTimeout
                  /\ cli'.receipt => receipt1' # -1,
               cli'.receipt \/ cli'.attempt = 2 => cli'.ticket = 1
        PROVE  Driven(d)' /\ (receipt1' = receipt1 \/ receipt1 = -1)
    <2>1. Due => Due'
      BY <1>0, <1>1 DEF Due
    <2>2. ~InProgress' /\ wake'.attempt = 0
      BY <1>0 DEF InProgress
    <2>3. CountsDown'
      BY <1>1, <2>2 DEF CountsDown, Counts
    <2> QED
      BY <1>0, <1>1, <2>1, <2>2, <2>3 DEF Driven
  <1>2. CASE CliKeeps
    <2>1. UNCHANGED <<cli.pc, cli.attempt, cli.receipt, cli.ticket, cli.progress, receipt1>>
      BY <1>0, <1>2 DEF CliKeeps, Commandlines
    <2> QED
      BY <1>0, <1>1, <2>1 DEF Driven, CountsDown, Counts
  <1>3. CASE CliReturns
    <2>1. UNCHANGED <<cli.attempt, cli.receipt, cli.ticket>> /\ cli'.pc = "done"
      BY <1>0, <1>3 DEF CliReturns, Commandlines
    <2>2. receipt1' = receipt1 \/ receipt1 = -1
      BY <1>3 DEF CliReturns
    <2> QED
      BY <1>0, <1>1, <2>1, <2>2
  <1>4. CASE CliStarts
    <2> PICK np, by, one : np = NewProgress /\ by = now + ReceiptTimeout /\ one = 1
      OBVIOUS
    <2>1. /\ cli' = [cli EXCEPT !.pc = "wake", !.attempt = one, !.progress = np, !.by = by]
          /\ cli.pc = "catalog" /\ receipt1' = receipt1
      BY <1>4 DEF CliStarts
    <2>2. /\ cli'.attempt = 1 /\ cli'.progress = np /\ cli'.receipt = cli.receipt
          /\ cli'.ticket = cli.ticket
      BY <1>0, <2>1 DEF Commandlines
    <2>3. ~cli.receipt /\ receipt1 = -1
      BY <1>0, <2>1 DEF OneWake
    <2>4. np.started = -1
      BY <1>0, NewTyped
    <2> QED
      BY <1>0, <1>1, <2>1, <2>2, <2>3, <2>4
  <1>5. CASE CliReceives
    <2>1. PICK e \in Range(events) :
             /\ cli.pc = "wake" /\ e.kind = "receipt" /\ e.attempt = cli.attempt
             /\ cli' = [cli EXCEPT !.ticket = e.ticket, !.receipt = TRUE,
                                   !.progress = Receive(cli.progress, e.accepted)]
             /\ receipt1' = IF receipt1 = -1 THEN now ELSE receipt1
      BY <1>5 DEF CliReceives
    <2> PICK p : p = Receive(cli.progress, e.accepted)
      OBVIOUS
    <2>2. /\ p.started = (IF cli.progress.started = -1 THEN now ELSE cli.progress.started)
          /\ p.deadline = p.started + WaitTimeout
      BY <1>0, <2>1, ReplyFields, ReceiveTyped
    <2>3. /\ cli'.progress = p /\ cli'.attempt = cli.attempt /\ cli'.ticket = e.ticket
          /\ cli'.pc = "wake"
      BY <1>0, <2>1 DEF Commandlines
    <2>4. e.ticket = 1
      BY <2>1 DEF Told
    <2>5. cli'.attempt = 1 => /\ p.started = receipt1' /\ receipt1' # -1
                              /\ p.deadline = receipt1' + WaitTimeout
      <3> SUFFICES ASSUME cli.attempt = 1
                   PROVE  /\ p.started = receipt1' /\ receipt1' # -1
                          /\ p.deadline = receipt1' + WaitTimeout
        BY <2>3
      <3>1. cli.progress.started = receipt1
        BY <2>1 DEF Driven, CountsDown, Counts
      <3> QED
        BY <1>0, <2>1, <2>2, <3>1
    <2> QED
      BY <1>0, <1>1, <2>1, <2>3, <2>4, <2>5
  <1>6. CASE CliObserves
    <2>1. PICK e \in Range(events) :
             /\ cli.pc = "wake" /\ e.kind = "online" /\ receipt1' = receipt1
             /\ cli' = [cli EXCEPT !.progress = Observed(@, e.host)]
      BY <1>6 DEF CliObserves
    <2> PICK p : p = Observed(cli.progress, e.host)
      OBVIOUS
    <2>2. p.started = cli.progress.started /\ p.deadline = cli.progress.deadline
      BY <1>0, <2>1, ReplyFields, ObservedTyped
    <2>3. /\ cli'.progress = p /\ cli'.attempt = cli.attempt /\ cli'.ticket = cli.ticket
          /\ cli'.receipt = cli.receipt /\ cli'.pc = cli.pc
      BY <1>0, <2>1 DEF Commandlines
    <2> QED
      BY <1>0, <1>1, <2>1, <2>2, <2>3 DEF Driven, CountsDown, Counts
  <1>7. CASE CliRetries
    <2> PICK np, by, two : np = NewProgress /\ by = now + ReceiptTimeout /\ two = 2
      OBVIOUS
    <2>1. /\ cli' = [cli EXCEPT !.attempt = two, !.receipt = FALSE, !.progress = np, !.by = by]
          /\ cli.pc = "wake" /\ cli.attempt = 1 /\ cli.receipt /\ now >= cli.progress.deadline
          /\ receipt1' = receipt1
      BY <1>7 DEF CliRetries
    <2>2. cli'.attempt = 2 /\ cli'.ticket = cli.ticket
      BY <1>0, <2>1 DEF Commandlines
    <2>3. Due
      BY <2>1 DEF Driven, CountsDown, Counts, Due
    <2> QED
      BY <1>0, <1>1, <2>1, <2>2, <2>3
  <1> QED
    BY <1>2, <1>3, <1>4, <1>5, <1>6, <1>7 DEF CliMoves

LEMMA CliWaits ==
    ASSUME FrontAssumption, ServiceTyped, DriverTyped, OneWake, mode = "command", CliMoves,
           NEW c \in 0..now, Recorded(c), Asked(c), Told, Driven(c)
    PROVE  \E d \in 0..now' : Recorded(d)' /\ Asked(d)' /\ Told' /\ Driven(d)'
  <1>0. /\ now \in Nat /\ now' = now /\ c \in Nat /\ UNCHANGED <<rec, dispatches, actor>>
    BY DEF ServiceTyped, CliMoves, DriverFrame, serverVars
  <1>1. /\ Range(link'.in) \subseteq Range(link.in) /\ Underway' = Underway
        /\ Range(events') \subseteq Range(events)
        /\ \/ Queued' \subseteq Queued
           \/ \E y \in Commands :
                 /\ Queued' = Queued \cup {y} /\ y.at = now
                 /\ \/ CliStarts /\ y.attempt = 1
                    \/ CliRetries /\ y.attempt = 2 /\ y.ticket = cli.ticket
    BY CliKeepsTypes
  <1>2. Told'
    BY <1>1 DEF Told
  <1>3. CliRetries => Due /\ cli.ticket = 1
    BY DEF CliRetries, Driven, CountsDown, Counts, Due
  <1>4. ASSUME NEW d \in 0..now, Recorded(d), Asked(d), Driven(d),
               CliStarts => now <= d + RecoveryTimeout
        PROVE  Recorded(d)' /\ Asked(d)' /\ Driven(d)'
    <2>1. Driven(d)' /\ (receipt1' = receipt1 \/ receipt1 = -1)
      BY <1>0, <1>4, CliDriven
    <2>2. Recorded(d)' /\ (Due => Due')
      BY <1>0, <1>4, <2>1, ReceiptOnce
    <2>3. \/ Queued' \subseteq Queued /\ (actor' = actor \/ Queued' = {})
          \/ /\ actor' = actor
             /\ \E y \in Commands : /\ Queued' = Queued \cup {y} /\ y.at = now
                                    /\ y.attempt = 2 => Due /\ y.ticket = 1
                                    /\ y.attempt = 1 => now <= d + RecoveryTimeout
      BY <1>0, <1>1, <1>3, <1>4
    <2>4. Asked(d)'
      BY <1>0, <1>1, <1>4, <2>2, <2>3, AskedKept
    <2> QED
      BY <2>1, <2>2, <2>4
  <1>5. CASE CliStarts
    <2> PICK d : d = now
      OBVIOUS
    <2>1. ~ui.started /\ cli.attempt = 0
      BY <1>5 DEF OneWake, CliStarts
    <2>2. Recorded(d) /\ Asked(d)
      BY <2>1, NothingYet
    <2>3. Driven(d)
      <3>1. ~InProgress
        BY <2>1 DEF OneWake, InProgress
      <3> QED
        BY <3>1 DEF Driven
    <2>4. d \in 0..now /\ now <= d + RecoveryTimeout
      BY <1>0, Times
    <2> QED
      BY <1>0, <1>2, <1>4, <2>2, <2>3, <2>4
  <1>6. CASE ~CliStarts
    BY <1>0, <1>2, <1>4, <1>6
  <1> QED
    BY <1>5, <1>6

LEMMA WaitKept ==
    ASSUME FrontAssumption, WaitInv, [FrontNext]_frontVars
    PROVE  WaitInv'
  <1>0. ServiceTyped /\ DriverTyped /\ OneWake
    BY DEF WaitInv
  <1>1. PICK c \in 0..now : BeganAt(c)
    BY DEF WaitInv
  <1>2. Recorded(c) /\ Asked(c) /\ Told /\ Driven(c)
    BY <1>1, WaitParts DEF WaitInv
  <1>3. CASE UNCHANGED frontVars
    <2>1. ServiceTyped' /\ DriverTyped' /\ OneWake' /\ now' = now
      BY <1>0, <1>3 DEF frontVars, actorVars, serverVars, tuiOwn, ServiceTyped, DriverTyped,
                        OneWake, Queued, Underway
    <2>2. SecondIsDue' /\ InTurn'
      BY <1>3 DEF WaitInv, frontVars, actorVars, serverVars, tuiOwn, Queued, Underway,
                  SecondIsDue, InTurn, Due, RetriedAfterWait
    <2>3. CountsDown' /\ OneTicket'
      BY <1>3 DEF WaitInv, frontVars, actorVars, serverVars, tuiOwn, Queued, Underway,
                  CountsDown, OneTicket, Counts, InProgress
    <2>4. BeganAt(c)'
      BY <1>1, <1>3 DEF frontVars, actorVars, serverVars, tuiOwn, Queued, Underway, BeganAt,
                        InProgress
    <2>5. c \in 0..now'
      BY <2>1
    <2> QED
      BY <2>1, <2>2, <2>3, <2>4, <2>5 DEF WaitInv
  <1>4. CASE FrontNext
    <2>1. ServiceTyped' /\ DriverTyped' /\ OneWake'
      BY <1>0, <1>4, StepKeepsTypes
    <2>2. \E d \in 0..now' : Recorded(d)' /\ Asked(d)' /\ Told' /\ Driven(d)'
      <3>1. CASE mode = "ui" /\ UiMoves /\ ui' \in Screens
        BY <1>0, <1>1, <1>2, <3>1, UiWaits
      <3>2. CASE mode = "command" /\ CliMoves
        BY <1>0, <1>1, <1>2, <3>2, CliWaits
      <3>3. CASE Serves /\ ServerMoves
        <4>1. now' = now
          BY <3>3 DEF Serves
        <4> QED
          BY <1>0, <1>1, <1>2, <2>1, <3>3, <4>1, ServerWaits
      <3>4. CASE Serves /\ ActorSets
        <4>1. now' = now
          BY <3>4 DEF Serves
        <4> QED
          BY <1>0, <1>1, <1>2, <2>1, <3>4, <4>1, ActorWaits
      <3>5. CASE Elapses
        BY <1>0, <1>1, <1>2, <2>1, <3>5, ClockWaits
      <3> QED
        BY <1>0, <1>4, <3>1, <3>2, <3>3, <3>4, <3>5, StepKinds
    <2>3. PICK d \in 0..now' : Recorded(d)' /\ Asked(d)' /\ Told' /\ Driven(d)'
      BY <2>2
    <2>4. (SecondIsDue /\ CountsDown /\ InTurn /\ OneTicket /\ BeganAt(d))'
      <3>1. SecondIsDue'
        BY <2>3 DEF Recorded, Asked, Driven, SecondIsDue
      <3>2. InTurn'
        BY <2>3 DEF Recorded, Asked, InTurn
      <3>3. OneTicket'
        BY <2>3 DEF Recorded, Asked, Told, Driven, OneTicket
      <3>4. BeganAt(d)'
        BY <2>3 DEF Recorded, Asked, Driven, BeganAt
      <3>5. CountsDown'
        BY <2>3 DEF Driven
      <3> QED
        BY <3>1, <3>2, <3>3, <3>4, <3>5
    <2> QED
      BY <2>1, <2>4 DEF WaitInv
  <1> QED
    BY <1>3, <1>4

LEMMA WaitInitially ==
    ASSUME FrontAssumption, FrontInit
    PROVE  WaitInv
  <1>1. /\ ServiceTyped /\ DriverTyped /\ OneWake
        /\ now = 0 /\ Range(events) = {} /\ Range(link.in) = {}
        /\ wake = NoWake /\ cli.attempt = 0 /\ cli.pc = "catalog" /\ ~cli.receipt
    BY InitTyped
  <1>2. ~ui.started /\ ~InProgress /\ NoWake.attempt = 0
    BY <1>1 DEF FrontInit, TuiInit, InProgress, NoWake
  <1>3. Recorded(0) /\ Asked(0)
    BY <1>1, <1>2, NothingYet
  <1>4. Told
    BY <1>1 DEF Told
  <1>5. Driven(0)
    BY <1>1, <1>2 DEF Driven, CountsDown
  <1>6. SecondIsDue /\ CountsDown /\ InTurn /\ OneTicket /\ BeganAt(0)
    BY <1>3, <1>4, <1>5, WaitParts
  <1>7. 0 \in 0..now
    BY <1>1
  <1> QED
    BY <1>1, <1>6, <1>7 DEF WaitInv

LEMMA WaitFollows ==
    ASSUME WaitInv
    PROVE  RetryAfterWait
  <1>0. ServiceTyped /\ DriverTyped /\ SecondIsDue /\ CountsDown /\ InTurn /\ OneTicket
    BY DEF WaitInv
  <1>1. OncePerAttempt
    <2>1. \A i \in DOMAIN dispatches : i \in Nat
      BY <1>0, RecordFields
    <2> QED
      BY <1>0, <2>1 DEF InTurn, OncePerAttempt
  <1>2. RetriedAfterWait
    BY <1>0 DEF SecondIsDue
  <1>3. ServerTypeOK
    <2>1. rec.st # "none" => rec.accepted \subseteq rec.hosts /\ rec.attempt \in 1..2
      BY <1>0, RecordFields DEF Records
    <2>2. monitor # NoMonitor => monitor.online \subseteq monitor.targets
      BY <1>0 DEF ServiceTyped, Monitors
    <2> QED
      BY <1>0, <2>1, <2>2, RecordFields DEF ServerTypeOK
  <1>4. TuiTypeOK
    <2>1. wake # NoWake => wake.progress.online \subseteq wake.progress.accepted
      BY <1>0, WakeOrNone DEF DriverTyped, Wakes, Progresses
    <2>2. wake # NoWake /\ wake.attempt = 2 => wake.ticket # 0
      BY <1>0 DEF OneTicket
    <2> QED
      BY <1>0, <1>3, <2>1, <2>2 DEF TuiTypeOK, DriverTyped
  <1>5. CountdownKept
    BY <1>0 DEF CountsDown, Counts, CountdownKept
  <1>6. CliTypeOK
    BY <1>0, <1>3 DEF CliTypeOK, DriverTyped, Progresses
  <1> QED
    BY <1>1, <1>2, <1>4, <1>5, <1>6 DEF RetryAfterWait

\* Packets go out once per attempt, whatever is lost and sent again, and a second attempt is
\* dispatched only after the front end held a receipt of the first for the whole wait, which
\* a recovered receipt does not restart; for any hosts, delays and times that satisfy the
\* assertions of server.rs (wake.rs Progress::receive, server.rs handle_wake).
THEOREM RetriesWait ==
    ASSUME FrontAssumption
    PROVE  FrontSpec => []RetryAfterWait
  <1>1. FrontInit => WaitInv
    BY WaitInitially
  <1>2. WaitInv /\ [FrontNext]_frontVars => WaitInv'
    BY WaitKept
  <1>3. WaitInv => RetryAfterWait
    BY WaitFollows
  <1> QED
    BY <1>1, <1>2, <1>3, PTL DEF FrontSpec
-----------------------------------------------------------------------------
(* The retry that is not refused *)

\* A wake in progress was so before, or has just been started.
LEMMA StillInProgress ==
    ASSUME ServiceTyped, DriverTyped, UiMoves, InProgress'
    PROVE  InProgress \/ UiStarts
  <1>1. CASE UiKeeps
    <2>1. wake' # NoWake
      BY DEF InProgress
    <2> QED
      BY <1>1, <2>1 DEF UiKeeps, InProgress
  <1>2. CASE UiResumes \/ UiFails \/ UiReceives \/ UiRetries
    BY <1>2 DEF UiResumes, UiFails, UiReceives, UiRetries
  <1>3. CASE UiObserves
    <2>1. PICK e \in Range(events) :
             /\ wake # NoWake
             /\ wake' = [wake EXCEPT !.progress = Observed(wake.progress, e.host),
                           !.finished = @ \/ Outcome(Observed(wake.progress, e.host), wake.hosts)
                                                 \in {"complete", "partial"}]
      BY <1>3, Zenon DEF UiObserves
    <2> PICK p : p = Observed(wake.progress, e.host)
      OBVIOUS
    <2> PICK fin : fin = (Outcome(p, wake.hosts) \in {"complete", "partial"})
      OBVIOUS
    <2>2. wake \in Wakes
      BY <2>1, WakeOrNone DEF DriverTyped
    <2>3. wake' = [wake EXCEPT !.progress = p, !.finished = @ \/ fin]
      BY <2>1
    <2>4. wake'.finished = (wake.finished \/ fin)
      BY <2>2, <2>3 DEF Wakes
    <2> QED
      BY <2>1, <2>4 DEF InProgress
  <1> QED
    BY <1>1, <1>2, <1>3 DEF UiMoves

\* Where the user is, and where the actor is, after each step of the terminal UI.
LEMMA UiPlaces ==
    ASSUME ServiceTyped, DriverTyped, OneWake, Places, InTui, Stays \/ Leaves \/ Ui,
           UiMoves, ui' \in Screens
    PROVE  Places'
  <1>0. /\ ui \in Screens /\ events \in Seq(Remarks \cup Replies) /\ actor \in Actors
        /\ link \in Links
    BY DEF ServiceTyped, DriverTyped, Screens
  <1>1. Range(events') \subseteq Range(events)
    <2>1. CASE events' = events
      BY <2>1
    <2>2. CASE events # <<>> /\ events' = Tail(events)
      BY <1>0, <2>2, RangeTail
    <2>3. CASE events' = <<>>
      BY <2>3, RangeEmpty
    <2> QED
      BY <2>1, <2>2, <2>3 DEF UiMoves, DriverFrame
  <1>2. ASSUME UNCHANGED <<actor, link>>, ui'.screen = "connect" => actor.pc = "gone",
               InProgress' => ui'.screen = "wake"
        PROVE  Places'
    BY <1>1, <1>2 DEF Places
  <1>3. InProgress' => InProgress \/ UiStarts
    BY StillInProgress
  <1>4. CASE StartWake
    <2>1. ui' = [ui EXCEPT !.screen = "wake", !.wakePhase = "sending", !.started = TRUE]
          /\ UNCHANGED <<actor, link>>
      BY <1>4 DEF StartWake, TuiFrame
    <2>2. ui'.screen = "wake"
      BY <1>0, <2>1 DEF Screens
    <2> QED
      BY <1>2, <2>1, <2>2
  <1>5. ASSUME UNCHANGED <<actor, link>>, wake' = NoWake, ui' = [ui EXCEPT !.screen = "hosts"]
        PROVE  Places'
    <2>1. ui'.screen = "hosts" /\ ~InProgress'
      BY <1>0, <1>5 DEF Screens, InProgress
    <2> QED
      BY <1>2, <1>5, <2>1
  <1>6. CASE CloseWake \/ LeaveWake
    BY <1>5, <1>6 DEF CloseWake, LeaveWake, TuiFrame
  <1>7. CASE Disconnect
    <2>1. /\ actor' = [actor EXCEPT !.pc = "gone"] /\ CloseLink /\ wake' = NoWake
          /\ events' = <<>>
      BY <1>7 DEF Disconnect
    <2>2. actor'.pc = "gone" /\ ~link'.up /\ ~InProgress'
      BY <1>0, <2>1, LinkClosed DEF Actors, InProgress
    <2> QED
      BY <2>2 DEF Places
  <1>8. CASE Connect
    <2>1. /\ actor' = [pc |-> "announce", attempt |-> 1, until |-> 0] /\ link' = link
          /\ wake' = NoWake /\ events' = <<>> /\ ui.screen = "connect"
          /\ ui' = [ui EXCEPT !.screen = "hosts", !.client = TRUE, !.phase = "connecting"]
      BY <1>8 DEF Connect
    <2>2. ~link'.up
      BY <2>1 DEF Places
    <2>3. ui'.screen = "hosts" /\ ~InProgress' /\ Range(events') = {}
      BY <1>0, <2>1, RangeEmpty DEF Screens, InProgress
    <2> QED
      BY <2>2, <2>3 DEF Places
  <1>9. ~UiStarts \/ StartWake
    <2>1. CASE StartWake
      BY <2>1
    <2>2. CASE CloseWake \/ LeaveWake \/ Disconnect \/ Connect
      <3>1. wake' = NoWake
        BY <2>2 DEF CloseWake, LeaveWake, Disconnect, Connect
      <3>2. UiStarts => wake'.attempt = 1
        BY DEF UiStarts
      <3> QED
        BY <3>1, <3>2 DEF NoWake
    <2>3. CASE Ui
      <3>1. ASSUME UiStarts PROVE FALSE
        <4>1. ~ui.started /\ wake = NoWake /\ ~InProgress
          BY <3>1 DEF UiStarts, OneWake, InProgress
        <4>2. wake' # NoWake
          BY <3>1 DEF UiStarts, NoWake
        <4>3. ReadEvent \/ ReadClosed
          BY <2>3, <4>1 DEF Ui, ExpireRecovery, ReceiptTimesOut, Retry, Ticking, Live
        <4>4. ReadEvent => wake' = wake
          BY <4>1, Zenon DEF ReadEvent, Resume, ApplyReceipt, ApplyOnline, ApplyDisconnected
        <4> QED
          BY <4>1, <4>2, <4>3, <4>4 DEF ReadClosed, ApplyDisconnected
      <3> QED
        BY <3>1
    <2> QED
      BY <2>1, <2>2, <2>3 DEF Stays, Leaves
  <1>10. ASSUME UNCHANGED <<actor, link>>, ui'.screen = ui.screen, ~StartWake
         PROVE  Places'
    BY <1>2, <1>3, <1>9, <1>10 DEF Places
  <1>11. ASSUME UNCHANGED <<actor, link, wake>>, ApplyDisconnected, actor.pc = "gone"
         PROVE  Places'
    <2>1. ui' = [ui EXCEPT !.client = FALSE, !.phase = "disconnected",
                           !.screen = IF InProgress THEN @ ELSE "connect"]
      BY <1>11 DEF ApplyDisconnected
    <2>2. InProgress' => ui'.screen = ui.screen /\ InProgress
      BY <1>0, <1>11, <2>1 DEF Screens, InProgress
    <2> QED
      BY <1>2, <1>11, <2>2 DEF Places
  <1>12. CASE ReadEvent /\ ~StartWake
    <2> PICK e : e = Head(events)
      OBVIOUS
    <2>1. e \in Range(events) /\ UNCHANGED <<actor, link>>
      BY <1>0, <1>12, RangeTyped DEF ReadEvent
    <2>2. \/ Resume \/ ApplyReceipt(e) \/ ApplyOnline(e) \/ UNCHANGED ui
          \/ ui' = [ui EXCEPT !.phase = e.kind]
          \/ e.kind = "disconnected" /\ ApplyDisconnected
      BY <1>12, Zenon DEF ReadEvent
    <2>3. CASE e.kind = "disconnected" /\ ApplyDisconnected
      BY <1>11, <2>1, <2>3 DEF Places, ApplyDisconnected
    <2>4. CASE UNCHANGED ui \/ ui' = [ui EXCEPT !.phase = e.kind]
      BY <1>0, <1>10, <1>12, <2>1, <2>4 DEF Screens
    <2>5. CASE Resume
      <3>1. \/ ui' = [ui EXCEPT !.phase = "connected"]
            \/ \E x : ui' = [ui EXCEPT !.phase = "connected", !.wakePhase = x]
        BY <2>5, Zenon DEF Resume
      <3> QED
        BY <1>0, <1>10, <1>12, <2>1, <3>1 DEF Screens
    <2>6. CASE ApplyReceipt(e) \/ ApplyOnline(e)
      <3>1. ui' = ui \/ \E x : ui' = [ui EXCEPT !.wakePhase = x]
        BY <2>6, Zenon DEF ApplyReceipt, ApplyOnline
      <3> QED
        BY <1>0, <1>10, <1>12, <2>1, <3>1 DEF Screens
    <2> QED
      BY <2>2, <2>3, <2>4, <2>5, <2>6
  <1>13. CASE ReadClosed
    BY <1>11, <1>13 DEF ReadClosed, TuiFrame, ApplyDisconnected
  <1>14. CASE ExpireRecovery /\ ~StartWake
    <2>1. ui' = [ui EXCEPT !.wakePhase = "failed"] /\ UNCHANGED <<actor, link>>
      BY <1>14 DEF ExpireRecovery, TuiFrame
    <2> QED
      BY <1>0, <1>10, <1>14, <2>1 DEF Screens
  <1>15. CASE (ReceiptTimesOut \/ Retry) /\ ~StartWake
    <2>1. UNCHANGED <<actor, link>> /\ (GiveUp \/ ui' = [ui EXCEPT !.wakePhase = "retrying"])
      BY <1>15, Zenon DEF ReceiptTimesOut, Retry, TuiFrame
    <2>2. CASE GiveUp
      BY <1>5, <2>1, <2>2 DEF GiveUp
    <2>3. CASE ui' = [ui EXCEPT !.wakePhase = "retrying"]
      BY <1>0, <1>10, <1>15, <2>1, <2>3 DEF Screens
    <2> QED
      BY <2>1, <2>2, <2>3
  <1> QED
    BY <1>4, <1>6, <1>7, <1>8, <1>12, <1>13, <1>14, <1>15 DEF Stays, Leaves, Ui

LEMMA PlacesKept ==
    ASSUME FrontAssumption, ServiceTyped, DriverTyped, OneWake, Places, FrontNext
    PROVE  Places'
  <1>0. link \in Links /\ actor \in Actors
    BY DEF ServiceTyped
  <1>1. CASE InTui /\ (Stays \/ Leaves \/ Ui) /\ UiMoves /\ ui' \in Screens
    BY <1>1, UiPlaces
  <1>2. CASE mode = "command" /\ CliMoves
    <2>1. Range(events') \subseteq Range(events)
      BY <1>2, CliKeepsTypes
    <2>2. UNCHANGED <<actor, wake, ui>> /\ (link'.up => link.up)
      BY <1>0, <1>2, LinkClosed DEF CliMoves, DriverFrame, tuiOwn
    <2> QED
      BY <2>1, <2>2 DEF Places, InProgress
  <1>3. CASE Serves /\ ServerMoves
    BY <1>3 DEF Serves, ServerMoves, Answered, Places, InProgress
  <1>4. CASE Serves /\ ActorSets /\ ActorMoves
    <2>1. link'.up => actor'.pc \in {"drain", "poll"}
      <3>1. CASE Withdraws
        BY <1>0, <3>1, LinkClosed DEF Withdraws, Places
      <3>2. CASE Sends
        BY <3>2 DEF Sends
      <3>3. CASE Takes
        BY <1>0, <3>3, LinkClosed DEF Takes
      <3>4. CASE Connects
        BY <3>4 DEF Connects
      <3> QED
        BY <1>4, <3>1, <3>2, <3>3, <3>4 DEF ActorMoves
    <2>2. \A e \in Range(events') : e.kind = "disconnected" => actor'.pc = "gone"
      <3>0. /\ events \in Seq(Remarks \cup Replies) /\ actor.pc # "gone" /\ now \in Nat
            /\ \A e \in Range(events) : e.kind # "disconnected"
        BY <1>4 DEF ServiceTyped, ActorSets, Places
      <3>1. ASSUME NEW x, events' = Append(events, x), x \in Remarks \cup Replies,
                   x.kind = "disconnected" => actor'.pc = "gone"
            PROVE  \A e \in Range(events') : e.kind = "disconnected" => actor'.pc = "gone"
        <4>1. Range(events') = Range(events) \cup {x}
          BY <3>0, <3>1, RangeAppend
        <4> QED
          BY <3>0, <3>1, <4>1
      <3>2. CASE events' = events
        BY <3>0, <3>2
      <3>3. ASSUME NEW k \in ConnectionEvents \cup {"error"}, events' = Append(events, Note(k)),
                   k = "disconnected" => actor'.pc = "gone"
            PROVE  \A e \in Range(events') : e.kind = "disconnected" => actor'.pc = "gone"
        BY <3>0, <3>1, <3>3, Translations
      <3>4. CASE Withdraws
        BY <3>2, <3>3, <3>4 DEF Withdraws, ConnectionEvents
      <3>5. CASE Sends
        BY <3>2, <3>5 DEF Sends
      <3>6. CASE Takes
        <4>1. Head(link.in) \in Receivable
          BY <1>0, <3>6, RangeTail DEF Takes, Links
        <4>2. CASE events' = events \/ events' = Append(events, Note("error"))
          BY <3>2, <3>3, <4>2
        <4>3. CASE \/ Head(link.in).kind = "executed" /\ events' = Append(events, ReceiptEvent(Head(link.in)))
                   \/ Head(link.in).kind = "online" /\ events' = Append(events, OnlineEvent(Head(link.in)))
          BY <3>0, <3>1, <4>1, <4>3, Translations
        <4> QED
          BY <3>6, <4>2, <4>3 DEF Takes
      <3>7. CASE Connects
        BY <3>3, <3>7 DEF Connects, ConnectionEvents
      <3> QED
        BY <1>4, <3>4, <3>5, <3>6, <3>7 DEF ActorMoves
    <2> QED
      BY <1>4, <2>1, <2>2 DEF Places, Serves, ActorSets, InProgress
  <1>5. CASE Elapses
    BY <1>5 DEF Elapses, actorVars, Places, InProgress
  <1> QED
    BY <1>1, <1>2, <1>3, <1>4, <1>5, StepKinds

\* A queue stays in order when its head is taken, and when what is added is the latest.
LEMMA OrderTail ==
    ASSUME NEW S, NEW s \in Seq(S), s # <<>>, InOrder(s)
    PROVE  InOrder(Tail(s))
  <1>1. \A k \in DOMAIN Tail(s) : k \in Nat \ {0} /\ k + 1 \in DOMAIN s /\ Tail(s)[k] = s[k + 1]
    BY RangeTail
  <1> SUFFICES ASSUME NEW i \in DOMAIN Tail(s), NEW j \in DOMAIN Tail(s), i <= j
               PROVE  Tail(s)[i].wireTime <= Tail(s)[j].wireTime
    BY DEF InOrder
  <1>2. i + 1 <= j + 1 /\ i + 1 \in DOMAIN s /\ j + 1 \in DOMAIN s
    BY <1>1
  <1>3. s[i + 1].wireTime <= s[j + 1].wireTime
    BY <1>2 DEF InOrder
  <1> QED
    BY <1>1, <1>3

LEMMA OrderAppend ==
    ASSUME NEW S, NEW s \in Seq(S), NEW x \in S, InOrder(s), x.wireTime \in Nat,
           \A y \in Range(s) : y.wireTime <= x.wireTime
    PROVE  InOrder(Append(s, x))
  <1> PICK n, t : n = Len(s) + 1 /\ t = Append(s, x)
    OBVIOUS
  <1>1. /\ DOMAIN t = DOMAIN s \cup {n} /\ \A i \in DOMAIN s : i < n /\ t[i] = s[i]
        /\ t[n] = x
    BY RangeAppend
  <1>2. \A i \in DOMAIN s : s[i] \in Range(s) /\ i \in Nat
    BY RangeTyped
  <1>3. n \in Nat
    BY LenProperties
  <1> SUFFICES ASSUME NEW i \in DOMAIN t, NEW j \in DOMAIN t, i <= j
               PROVE  t[i].wireTime <= t[j].wireTime
    BY DEF InOrder
  <1>4. CASE i \in DOMAIN s /\ j \in DOMAIN s
    BY <1>1, <1>4 DEF InOrder
  <1>5. CASE i \in DOMAIN s /\ j = n
    BY <1>1, <1>2, <1>5
  <1>6. CASE i = n /\ j \in DOMAIN s
    BY <1>1, <1>2, <1>3, <1>6
  <1>7. CASE i = n /\ j = n
    BY <1>1, <1>7
  <1> QED
    BY <1>1, <1>4, <1>5, <1>6, <1>7

\* Messages and requests carry a time.
LEMMA Stamped ==
    ASSUME ServiceTyped
    PROVE  /\ link.in \in Seq(Receivable) /\ link.out \in Seq(Sendable) /\ link.up \in BOOLEAN
           /\ \A m \in Receivable : m.wireTime \in Nat
           /\ \A m \in Sendable : m.wireTime \in Nat
           /\ Range(link.in) \subseteq Receivable /\ Range(link.out) \subseteq Sendable
  <1>1. link.in \in Seq(Receivable) /\ link.out \in Seq(Sendable) /\ link.up \in BOOLEAN
    BY DEF ServiceTyped, Links
  <1>2. \A m \in Receivable : m.wireTime \in Nat
    BY DEF Receivable
  <1>3. \A m \in Sendable : m.wireTime \in Nat
    BY DEF Sendable
  <1>4. Range(link.in) \subseteq Receivable /\ Range(link.out) \subseteq Sendable
    BY <1>1, RangeTyped
  <1> QED
    BY <1>1, <1>2, <1>3, <1>4

LEMMA ServerPrompt ==
    ASSUME FrontAssumption, ServiceTyped, Prompt, Serves, ServerMoves
    PROVE  Prompt'
  <1>0. now \in Nat /\ NetDelay \in Nat /\ now' = now
    BY Times DEF ServiceTyped, Serves
  <1>1. InOrder(link'.out) /\ Range(link'.out) \subseteq Range(link.out)
    <2>1. CASE link'.out = link.out
      BY <2>1 DEF Prompt
    <2>2. CASE link.out # <<>> /\ link'.out = Tail(link.out)
      BY <2>2, Stamped, OrderTail, RangeTail DEF Prompt
    <2> QED
      BY <2>1, <2>2 DEF ServerMoves, Answered
  <1>2. /\ InOrder(link'.in)
        /\ \A m \in Range(link'.in) :
              m \in Range(link.in) \/ (m.wireTime = now /\ now <= m.wireTime + NetDelay)
    <2>1. CASE link'.in = link.in
      BY <2>1 DEF Prompt
    <2>2. ASSUME NEW m, Says(m), link'.in = Append(link.in, m)
          PROVE  /\ InOrder(link'.in)
                 /\ \A x \in Range(link'.in) :
                       x \in Range(link.in) \/ (x.wireTime = now /\ now <= x.wireTime + NetDelay)
      <3>1. m \in Receivable /\ m.wireTime = now
        BY <2>2 DEF Says
      <3>2. \A y \in Range(link.in) : y.wireTime <= m.wireTime
        BY <3>1 DEF Prompt
      <3>3. InOrder(link'.in)
        BY <1>0, <2>2, <3>1, <3>2, Stamped, OrderAppend DEF Prompt
      <3>4. Range(link'.in) = Range(link.in) \cup {m}
        BY <2>2, <3>1, Stamped, RangeAppend
      <3>5. now <= m.wireTime + NetDelay
        BY <1>0, <3>1
      <3> QED
        BY <3>1, <3>3, <3>4, <3>5
    <2> QED
      BY <2>1, <2>2 DEF ServerMoves, Answered
  <1>3. \A m \in Range(link'.in) \cup Range(link'.out) : m.wireTime <= now
    BY <1>0, <1>1, <1>2 DEF Prompt
  <1>4. actor'.pc \in {"drain", "poll"} =>
           \A m \in Range(link'.in) : now <= m.wireTime + NetDelay
    BY <1>2 DEF Prompt, ServerMoves
  <1>5. link'.up => \A q \in Range(link'.out) : now <= q.wireTime + NetDelay
    BY <1>1 DEF Prompt, ServerMoves, Answered
  <1> QED
    BY <1>0, <1>1, <1>2, <1>3, <1>4, <1>5 DEF Prompt, Serves

LEMMA ActorPrompt ==
    ASSUME FrontAssumption, ServiceTyped, Prompt, Serves, ActorMoves
    PROVE  Prompt'
  <1>0. now \in Nat /\ NetDelay \in Nat /\ now' = now /\ link \in Links /\ actor \in Actors
    BY Times DEF ServiceTyped, Serves
  <1>1. ASSUME InOrder(link'.in), InOrder(link'.out),
               \A m \in Range(link'.in) : m \in Range(link.in),
               \A q \in Range(link'.out) :
                  q \in Range(link.out) \/ (q.wireTime = now /\ now <= q.wireTime + NetDelay),
               link'.up => link.up \/ Range(link'.out) = {},
               actor'.pc \in {"drain", "poll"} =>
                  actor.pc \in {"drain", "poll"} \/ Range(link'.in) = {}
        PROVE  Prompt'
    <2>1. \A m \in Range(link'.in) \cup Range(link'.out) : m.wireTime <= now
      BY <1>0, <1>1 DEF Prompt
    <2>2. actor'.pc \in {"drain", "poll"} =>
             \A m \in Range(link'.in) : now <= m.wireTime + NetDelay
      BY <1>1 DEF Prompt
    <2>3. link'.up => \A q \in Range(link'.out) : now <= q.wireTime + NetDelay
      BY <1>1 DEF Prompt
    <2> QED
      BY <1>0, <1>1, <2>1, <2>2, <2>3 DEF Prompt, Serves
  <1>2. CASE Withdraws
    <2>1. link'.in \in {link.in, <<>>} /\ link'.out = link.out /\ (link'.up => link.up)
      BY <1>0, <1>2, LinkClosed DEF Withdraws
    <2>2. InOrder(link'.in) /\ Range(link'.in) \subseteq Range(link.in)
      BY <2>1, RangeEmpty DEF Prompt, InOrder
    <2>3. actor'.pc \in {"drain", "poll"} => actor.pc \in {"drain", "poll"}
      BY <1>2 DEF Withdraws
    <2> QED
      BY <1>1, <2>1, <2>2, <2>3 DEF Prompt
  <1>3. CASE Sends
    <2> PICK c : c = Head(commands)
      OBVIOUS
    <2> PICK q : q = Request(c)
      OBVIOUS
    <2>1. c \in Commands /\ c.kind = "wake"
      BY <1>3, RangeTail DEF Sends, ServiceTyped
    <2>2. q \in Sendable /\ q.wireTime = now
      BY <1>0, <2>1, Translations
    <2>3. link' = [link EXCEPT !.out = Append(@, q)] /\ link.up /\ actor' = actor
      BY <1>3 DEF Sends
    <2>4. link'.out = Append(link.out, q) /\ link'.in = link.in
      BY <1>0, <2>3 DEF Links
    <2>5. \A y \in Range(link.out) : y.wireTime <= q.wireTime
      BY <2>2 DEF Prompt
    <2>6. InOrder(link'.out)
      BY <1>0, <2>2, <2>4, <2>5, Stamped, OrderAppend DEF Prompt
    <2>7. Range(link'.out) = Range(link.out) \cup {q}
      BY <2>2, <2>4, Stamped, RangeAppend
    <2>8. now <= q.wireTime + NetDelay
      BY <1>0, <2>2
    <2> QED
      BY <1>1, <2>2, <2>3, <2>4, <2>6, <2>7, <2>8 DEF Prompt
  <1>4. CASE Takes
    <2>1. actor.pc = "poll" /\ link.in # <<>>
      BY <1>4 DEF Takes
    <2>2. CASE link' = [link EXCEPT !.in = Tail(@)]
      <3>1. link'.in = Tail(link.in) /\ link'.out = link.out /\ link'.up = link.up
        BY <1>0, <2>2 DEF Links
      <3>2. InOrder(link'.in) /\ Range(link'.in) \subseteq Range(link.in)
        BY <2>1, <3>1, Stamped, OrderTail, RangeTail DEF Prompt
      <3> QED
        BY <1>1, <2>1, <3>1, <3>2 DEF Prompt
    <2>3. CASE CloseLink
      <3>1. link'.in = <<>> /\ link'.out = link.out /\ ~link'.up
        BY <1>0, <2>3, LinkClosed
      <3>2. Range(link'.in) = {} /\ InOrder(link'.in)
        BY <3>1, RangeEmpty DEF InOrder
      <3> QED
        BY <1>1, <2>1, <3>1, <3>2 DEF Prompt
    <2> QED
      BY <1>4, <2>2, <2>3 DEF Takes
  <1>5. CASE Connects
    <2>1. link'.in = <<>> /\ link'.out = <<>>
      BY <1>5 DEF Connects, Closed
    <2>2. Range(link'.in) = {} /\ Range(link'.out) = {} /\ InOrder(<<>>)
      BY <2>1, RangeEmpty DEF InOrder
    <2> QED
      BY <1>1, <2>1, <2>2
  <1> QED
    BY <1>2, <1>3, <1>4, <1>5 DEF ActorMoves

LEMMA PromptKept ==
    ASSUME FrontAssumption, ServiceTyped, DriverTyped, OneWake, Prompt, FrontNext
    PROVE  Prompt'
  <1>0. /\ now \in Nat /\ NetDelay \in Nat /\ link \in Links /\ actor \in Actors
        /\ receipt1 \in Nat \cup {-1}
    BY Times DEF ServiceTyped, DriverTyped
  <1>1. ASSUME now' = now, link'.in \in {link.in, <<>>}, link'.out = link.out, link'.up => link.up,
               actor'.pc \in {"drain", "poll"} => actor.pc \in {"drain", "poll"},
               receipt1' <= now
        PROVE  Prompt'
    <2>1. InOrder(link'.in) /\ Range(link'.in) \subseteq Range(link.in)
      BY <1>1, RangeEmpty DEF Prompt, InOrder
    <2> QED
      BY <1>1, <2>1 DEF Prompt
  <1>2. DriverFrame => /\ now' = now /\ link'.in \in {link.in, <<>>} /\ link'.out = link.out
                       /\ link'.up => link.up
                       /\ actor'.pc \in {"drain", "poll"} => actor.pc \in {"drain", "poll"}
    BY <1>0, LinkClosed DEF DriverFrame
  <1>3. CASE UiMoves
    <2>1. receipt1' = receipt1 \/ receipt1' = now
      BY <1>3 DEF UiMoves, UiKeeps, UiStarts, UiResumes, UiFails, UiReceives, UiObserves, UiRetries
    <2> QED
      BY <1>0, <1>1, <1>2, <1>3, <2>1 DEF UiMoves, Prompt
  <1>4. CASE CliMoves
    <2>1. receipt1' = receipt1 \/ receipt1' = now
      BY <1>4 DEF CliMoves, CliKeeps, CliReturns, CliStarts, CliReceives, CliObserves, CliRetries
    <2> QED
      BY <1>0, <1>1, <1>2, <1>4, <2>1 DEF CliMoves, Prompt
  <1>5. CASE Serves /\ ServerMoves
    BY <1>5, ServerPrompt
  <1>6. CASE Serves /\ ActorMoves
    BY <1>6, ActorPrompt
  <1>7. CASE Elapses
    <2>1. now' = now + 1 /\ UNCHANGED <<link, actor, receipt1>>
      BY <1>7 DEF Elapses, actorVars
    <2>2. \A m \in Range(link.in) \cup Range(link.out) : m.wireTime \in Nat
      BY Stamped
    <2>3. \A m \in Range(link.in) \cup Range(link.out) : m.wireTime <= now'
      BY <1>0, <2>1, <2>2 DEF Prompt
    <2>4. ASSUME NEW S, NEW s \in Seq(S), s # <<>>, InOrder(s), now < Oldest(s) + NetDelay,
                 \A m \in Range(s) : m.wireTime \in Nat
          PROVE  \A m \in Range(s) : now' <= m.wireTime + NetDelay
      <3> SUFFICES ASSUME NEW m \in Range(s) PROVE now' <= m.wireTime + NetDelay
        OBVIOUS
      <3>1. PICK i \in DOMAIN s : m = s[i]
        BY DEF Range
      <3>2. 1 \in DOMAIN s /\ 1 <= i
        BY <2>4, RangeTail, RangeTyped
      <3>3. s[1].wireTime <= m.wireTime
        BY <2>4, <3>1, <3>2 DEF InOrder
      <3>4. s[1].wireTime \in Nat /\ m.wireTime \in Nat
        BY <2>4, <3>2, RangeTyped
      <3>5. now < s[1].wireTime + NetDelay
        BY <2>4 DEF Oldest
      <3> QED
        BY <1>0, <2>1, <3>3, <3>4, <3>5
    <2>5. actor.pc \in {"drain", "poll"} =>
             \A m \in Range(link.in) : now' <= m.wireTime + NetDelay
      <3> SUFFICES ASSUME actor.pc \in {"drain", "poll"}, link.in # <<>>
                   PROVE  \A m \in Range(link.in) : now' <= m.wireTime + NetDelay
        BY RangeEmpty
      <3>1. now < Oldest(link.in) + NetDelay
        BY <1>7 DEF Elapses, Settled
      <3> QED
        BY <2>2, <2>4, <3>1, Stamped DEF Prompt
    <2>6. link.up => \A q \in Range(link.out) : now' <= q.wireTime + NetDelay
      <3> SUFFICES ASSUME link.up, link.out # <<>>
                   PROVE  \A q \in Range(link.out) : now' <= q.wireTime + NetDelay
        BY RangeEmpty
      <3>1. now < Oldest(link.out) + NetDelay
        BY <1>7 DEF Elapses, Settled
      <3> QED
        BY <2>2, <2>4, <3>1, Stamped DEF Prompt
    <2>7. receipt1' <= now'
      BY <1>0, <2>1 DEF Prompt
    <2> QED
      BY <2>1, <2>3, <2>5, <2>6, <2>7 DEF Prompt
  <1> QED
    BY <1>3, <1>4, <1>5, <1>6, <1>7, StepKinds

\* A receipt made at t is covered as long as no time passes, and when it passes.
LEMMA CoversStays ==
    ASSUME FrontAssumption, now \in Nat, UNCHANGED <<rec, dispatches>>,
           now' = now \/ now' = now + 1, NEW t \in 0..now, Covers(t)
    PROVE  t \in 0..now' /\ Covers(t)'
  <1>1. RetryTTL \in Nat
    BY Times
  <1>2. now >= t + RetryTTL => now' >= t + RetryTTL
    BY <1>1
  <1>3. Second => Second'
    BY DEF Second
  <1> QED
    BY <1>1, <1>2, <1>3 DEF Covers

\* Nor does the server drop the record of a receipt before a second attempt had its time.
LEMMA CoversKept ==
    ASSUME FrontAssumption, ServiceTyped, NEW c \in 0..now, BeganAt(c), Recorded(c),
           UNCHANGED now, Ledger, NEW t \in 0..now, Covers(t)
    PROVE  Covers(t)'
  <1>0. /\ now \in Nat /\ RetryTTL \in Nat /\ t \in Nat /\ t <= now
        /\ rec.st \in {"none", "pending", "done"}
        /\ rec.st # "none" => /\ rec.attempt \in {1, 2} /\ rec.since \in Nat
                              /\ rec.expires \in Nat /\ rec.lease \in Nat
    BY Times, RecordFields
  <1>1. CASE now >= t + RetryTTL
    BY <1>1 DEF Covers
  <1>2. CASE Second /\ now < t + RetryTTL
    <2>1. CASE UNCHANGED <<rec, dispatches>>
      BY <1>2, <2>1 DEF Second, Covers
    <2>2. CASE Forgets
      <3>1. rec.st = "pending" => FALSE
        <4> SUFFICES ASSUME rec.st = "pending" PROVE FALSE
          OBVIOUS
        <4> PICK x, s : x = rec.expires /\ s = rec.since
          OBVIOUS
        <4>1. now <= s + HoldLimit /\ x = s + PendingTTL
          BY DEF Recorded
        <4>2. x <= now
          BY <2>2 DEF Forgets
        <4>3. s \in Nat
          BY <1>0
        <4>4. HoldLimit \in Nat /\ PendingTTL \in Nat /\ HoldLimit < PendingTTL
          BY Times
        <4> QED
          BY <1>0, <4>1, <4>2, <4>3, <4>4
      <3>2. Len(dispatches) = 2
        BY <1>0, <1>2, <2>2, <3>1 DEF Second, Recorded, Forgets
      <3> QED
        BY <2>2, <3>2 DEF Forgets, Second, Covers
    <2>3. CASE Renews
      <3>1. Len(dispatches') = Len(dispatches) /\ rec'.attempt = rec.attempt /\ rec'.st = "done"
        BY <2>3 DEF Renews
      <3> QED
        BY <1>2, <3>1 DEF Second, Covers
    <2>4. CASE Finishes
      <3>1. rec.st = "pending" /\ rec'.attempt = rec.attempt /\ rec'.st = "done"
        BY <2>4 DEF Finishes
      <3>2. Len(dispatches) = rec.attempt - 1 /\ rec.attempt \in {1, 2}
        BY <1>0, <3>1 DEF Recorded
      <3>3. rec.attempt = 2
        BY <1>2, <3>2 DEF Second
      <3> QED
        BY <3>1, <3>3 DEF Second, Covers
    <2>5. ASSUME NEW q \in Underway, FirstBegins(q)
          PROVE  Covers(t)'
      <3>1. rec.st = "none" /\ dispatches = <<>>
        BY <2>5, FirstOnly, UnderwayTyped
      <3>2. Len(dispatches) = 0
        BY <3>1
      <3> QED
        BY <1>2, <3>1, <3>2 DEF Second
    <2>6. ASSUME NEW q \in Underway, SecondBegins(q)
          PROVE  Covers(t)'
      BY <2>6 DEF SecondBegins, Second, Covers
    <2> QED
      BY <2>1, <2>2, <2>3, <2>4, <2>5, <2>6 DEF Ledger
  <1>3. CASE /\ rec.st = "done" /\ rec.attempt = 1
             /\ rec.lease >= t + RetryTTL /\ rec.expires >= t + RetryTTL
    <2>1. CASE UNCHANGED <<rec, dispatches>>
      BY <1>3, <2>1 DEF Covers
    <2>2. CASE Forgets
      <3> PICK x, y : x = rec.expires /\ y = t + RetryTTL
        OBVIOUS
      <3>1. x <= now /\ x >= y
        BY <1>3, <2>2 DEF Forgets
      <3>2. x \in Nat /\ y \in Nat
        BY <1>0, <1>3
      <3>3. now >= t + RetryTTL
        BY <1>0, <3>1, <3>2
      <3> QED
        BY <3>3 DEF Covers
    <2>3. CASE Renews
      <3>1. /\ rec'.st = "done" /\ rec'.attempt = 1 /\ rec'.expires = rec.expires
            /\ rec'.lease = now + RetryTTL
        BY <1>3, <2>3 DEF Renews
      <3>2. now + RetryTTL >= t + RetryTTL
        BY <1>0
      <3> QED
        BY <1>3, <3>1, <3>2 DEF Covers
    <2>4. CASE Finishes
      BY <1>3, <2>4 DEF Finishes
    <2>5. ASSUME NEW q \in Underway, FirstBegins(q)
          PROVE  Covers(t)'
      <3>1. rec.st = "none"
        BY <2>5, FirstOnly, UnderwayTyped
      <3> QED
        BY <1>3, <3>1
    <2>6. ASSUME NEW q \in Underway, SecondBegins(q)
          PROVE  Covers(t)'
      BY <2>6 DEF SecondBegins, Second, Covers
    <2> QED
      BY <2>1, <2>2, <2>3, <2>4, <2>5, <2>6 DEF Ledger
  <1> QED
    BY <1>0, <1>1, <1>2, <1>3 DEF Covers

\* The server's answers.
LEMMA ServerCovers ==
    ASSUME FrontAssumption, ServiceTyped, NEW c \in 0..now, BeganAt(c), Recorded(c),
           Prompt, ReceiptsCover, Serves, ServerMoves
    PROVE  ReceiptsCover'
  <1>0. now \in Nat /\ now' = now /\ RetryTTL \in Nat
    BY Times DEF ServiceTyped, Serves
  <1>1. ASSUME NEW t \in 0..now, Covers(t)
        PROVE  Covers(t)'
    BY <1>0, <1>1, CoversKept DEF ServerMoves
  <1>2. ASSUME NEW m \in Range(link'.in), m.kind = "executed", m.attempt = 1
        PROVE  Covers(m.wireTime)'
    <2>1. CASE m \in Range(link.in)
      <3>1. m.wireTime \in 0..now
        BY <1>0, <2>1, Stamped DEF Prompt
      <3> QED
        BY <1>1, <1>2, <2>1, <3>1 DEF ReceiptsCover
    <2>2. CASE Says(m)
      BY <1>0, <1>2, <2>2 DEF Says, Covers
    <2> QED
      BY <2>1, <2>2, MessageAdded DEF ServiceTyped
  <1>3. ASSUME NEW e \in Range(events'), e.kind = "receipt", e.attempt = 1
        PROVE  \E t \in 0..now' : Covers(t)' /\ now' <= t + NetDelay
    <2>1. PICK t \in 0..now : Covers(t) /\ now <= t + NetDelay
      BY <1>3 DEF ReceiptsCover, ServerMoves
    <2> QED
      BY <1>0, <1>1, <2>1
  <1>4. ASSUME InProgress', wake'.attempt = 1, wake'.receipt,
               ui'.phase = "connected", actor'.pc # "gone"
        PROVE  \E t \in 0..now' : /\ Covers(t)' /\ now' <= t + NetDelay + WaitTimeout
                                  /\ wake'.deadline <= t + NetDelay + WaitTimeout
    <2>1. PICK t \in 0..now : /\ Covers(t) /\ now <= t + NetDelay + WaitTimeout
                              /\ wake.deadline <= t + NetDelay + WaitTimeout
      BY <1>4 DEF ReceiptsCover, ServerMoves, Serves, InProgress
    <2> QED
      BY <1>0, <1>1, <2>1 DEF Serves
  <1> QED
    BY <1>2, <1>3, <1>4 DEF ReceiptsCover

\* What the actor reads and tells.
LEMMA ActorCovers ==
    ASSUME FrontAssumption, ServiceTyped, Prompt, ReceiptsCover, Serves, ActorSets, ActorMoves
    PROVE  ReceiptsCover'
  <1>0. now \in Nat /\ now' = now /\ UNCHANGED <<rec, dispatches>> /\ NetDelay \in Nat
        /\ events \in Seq(Remarks \cup Replies)
    BY Times DEF ServiceTyped, Serves, ActorSets
  <1>1. ASSUME NEW t \in 0..now, Covers(t)
        PROVE  Covers(t)'
    BY <1>0, <1>1, CoversStays
  <1>2. ASSUME NEW m \in Range(link'.in), m.kind = "executed", m.attempt = 1
        PROVE  Covers(m.wireTime)'
    <2>1. m \in Range(link.in)
      BY DEF ActorSets
    <2>2. m.wireTime \in 0..now
      BY <1>0, <2>1, Stamped DEF Prompt
    <2> QED
      BY <1>1, <1>2, <2>1, <2>2 DEF ReceiptsCover
  <1>3. ASSUME NEW e \in Range(events'), e.kind = "receipt", e \notin Range(events)
        PROVE  /\ actor.pc = "poll"
               /\ \E m \in Range(link.in) : m.kind = "executed" /\ e = ReceiptEvent(m)
    <2>1. Posts(e)
      BY <1>3 DEF ActorSets
    <2>2. ~(\E k \in ConnectionEvents \cup {"error"} : e = Note(k))
      BY <1>3 DEF Note, ConnectionEvents
    <2>3. ~(\E m \in Range(link.in) : m.kind = "online" /\ e = OnlineEvent(m))
      BY <1>0, <1>3, Stamped, Translations
    <2>4. \E m \in Range(link.in) : m.kind = "executed" /\ e = ReceiptEvent(m)
      BY <2>1, <2>2, <2>3 DEF Posts
    <2>5. ASSUME NEW k \in ConnectionEvents \cup {"error"}, events' = Append(events, Note(k))
          PROVE  FALSE
      <3>1. Note(k) \in Remarks \cup Replies
        BY <1>0, Translations
      <3>2. Range(events') = Range(events) \cup {Note(k)}
        BY <1>0, <2>5, <3>1, RangeAppend
      <3> QED
        BY <1>3, <2>2, <3>2
    <2>6. events' # events
      BY <1>3
    <2>7. Takes
      BY <2>5, <2>6 DEF ActorMoves, Withdraws, Sends, Connects, ConnectionEvents
    <2> QED
      BY <2>4, <2>7 DEF Takes
  <1>4. ASSUME NEW e \in Range(events'), e.kind = "receipt", e.attempt = 1
        PROVE  \E t \in 0..now' : Covers(t)' /\ now' <= t + NetDelay
    <2>1. CASE e \in Range(events)
      <3>1. PICK t \in 0..now : Covers(t) /\ now <= t + NetDelay
        BY <1>4, <2>1 DEF ReceiptsCover
      <3> QED
        BY <1>0, <1>1, <3>1
    <2>2. CASE e \notin Range(events)
      <3>1. PICK m \in Range(link.in) : m.kind = "executed" /\ e = ReceiptEvent(m)
        BY <1>3, <1>4, <2>2
      <3>2. m.attempt = 1
        BY <1>0, <1>4, <3>1, Stamped, Translations
      <3>3. Covers(m.wireTime) /\ m.wireTime \in 0..now
        BY <1>0, <3>1, <3>2, Stamped DEF ReceiptsCover, Prompt
      <3>4. now <= m.wireTime + NetDelay
        BY <1>3, <1>4, <2>2, <3>1 DEF Prompt
      <3> QED
        BY <1>0, <1>1, <3>3, <3>4
    <2> QED
      BY <2>1, <2>2
  <1>5. ASSUME InProgress', wake'.attempt = 1, wake'.receipt,
               ui'.phase = "connected", actor'.pc # "gone"
        PROVE  \E t \in 0..now' : /\ Covers(t)' /\ now' <= t + NetDelay + WaitTimeout
                                  /\ wake'.deadline <= t + NetDelay + WaitTimeout
    <2>1. PICK t \in 0..now : /\ Covers(t) /\ now <= t + NetDelay + WaitTimeout
                              /\ wake.deadline <= t + NetDelay + WaitTimeout
      BY <1>5 DEF ReceiptsCover, ActorMoves, Serves, InProgress
    <2> QED
      BY <1>0, <1>1, <2>1 DEF Serves
  <1> QED
    BY <1>2, <1>4, <1>5 DEF ReceiptsCover

\* The wake of the terminal UI waits from a receipt of its own time on.
LEMMA UiCovers ==
    ASSUME FrontAssumption, ServiceTyped, DriverTyped, CountsDown, Prompt, ReceiptsCover,
           mode = "ui", UiMoves, ui' \in Screens
    PROVE  ReceiptsCover'
  <1>0. /\ now \in Nat /\ now' = now /\ UNCHANGED <<rec, dispatches>>
        /\ NetDelay \in Nat /\ WaitTimeout \in Nat /\ receipt1 \in Nat \cup {-1}
        /\ ui \in Screens /\ link \in Links
        /\ wake # NoWake => wake \in Wakes
        /\ InProgress => wake \in Wakes /\ wake # NoWake
    BY Times, WakeOrNone
       DEF ServiceTyped, DriverTyped, UiMoves, DriverFrame, serverVars, Screens, InProgress
  <1>1. ASSUME NEW t \in 0..now, Covers(t)
        PROVE  Covers(t)'
    BY <1>0, <1>1, CoversStays
  <1>2. Range(link'.in) \subseteq Range(link.in) /\ Range(events') \subseteq Range(events)
        /\ (actor' = actor \/ wake' = NoWake)
    <2>1. Range(link'.in) \subseteq Range(link.in)
      BY <1>0, LinkClosed, RangeEmpty DEF UiMoves, DriverFrame
    <2>2. CASE events' = events
      BY <2>1, <2>2 DEF UiMoves, DriverFrame
    <2>3. CASE events # <<>> /\ events' = Tail(events)
      BY <2>1, <2>3, RangeTail DEF UiMoves, DriverFrame, ServiceTyped
    <2>4. CASE events' = <<>>
      BY <2>1, <2>4, RangeEmpty DEF UiMoves, DriverFrame
    <2> QED
      BY <2>2, <2>3, <2>4 DEF UiMoves, DriverFrame
  <1>3. ASSUME NEW m \in Range(link'.in), m.kind = "executed", m.attempt = 1
        PROVE  Covers(m.wireTime)'
    <2>1. m \in Range(link.in)
      BY <1>2
    <2>2. m.wireTime \in 0..now
      BY <1>0, <2>1, Stamped DEF Prompt
    <2> QED
      BY <1>1, <1>3, <2>1, <2>2 DEF ReceiptsCover
  <1>4. ASSUME NEW e \in Range(events'), e.kind = "receipt", e.attempt = 1
        PROVE  \E t \in 0..now' : Covers(t)' /\ now' <= t + NetDelay
    <2>1. PICK t \in 0..now : Covers(t) /\ now <= t + NetDelay
      BY <1>2, <1>4 DEF ReceiptsCover
    <2> QED
      BY <1>0, <1>1, <2>1
  <1>5. ASSUME InProgress', wake'.attempt = 1, wake'.receipt,
               ui'.phase = "connected", actor'.pc # "gone"
        PROVE  \E t \in 0..now' : /\ Covers(t)' /\ now' <= t + NetDelay + WaitTimeout
                                  /\ wake'.deadline <= t + NetDelay + WaitTimeout
    <2>0. wake' # NoWake /\ ~wake'.finished /\ actor' = actor
      BY <1>2, <1>5 DEF InProgress
    <2>1. ASSUME InProgress, wake.attempt = 1, wake.receipt, ui.phase = "connected",
                 wake'.deadline = wake.deadline
          PROVE  \E t \in 0..now' : /\ Covers(t)' /\ now' <= t + NetDelay + WaitTimeout
                                    /\ wake'.deadline <= t + NetDelay + WaitTimeout
      <3>1. PICK t \in 0..now : /\ Covers(t) /\ now <= t + NetDelay + WaitTimeout
                                /\ wake.deadline <= t + NetDelay + WaitTimeout
        BY <1>5, <2>0, <2>1 DEF ReceiptsCover
      <3> QED
        BY <1>0, <1>1, <2>1, <3>1
    <2>2. CASE UiKeeps
      <3>1. wake' = wake /\ InProgress
        BY <2>0, <2>2 DEF UiKeeps, InProgress
      <3>2. ui.phase = "connected"
        BY <1>5, <2>0, <2>2, <3>1 DEF UiKeeps
      <3> QED
        BY <1>5, <2>1, <3>1, <3>2
    <2>3. CASE UiStarts
      BY <1>5, <2>3 DEF UiStarts
    <2>4. CASE UiResumes
      <3> PICK by : by = now + ReceiptTimeout
        OBVIOUS
      <3>1. wake' = [wake EXCEPT !.receipt = FALSE, !.receiptDeadline = by] /\ wake \in Wakes
        BY <1>0, <2>4 DEF UiResumes
      <3> QED
        BY <1>5, <3>1 DEF Wakes
    <2>5. CASE UiFails
      <3>1. wake' = [wake EXCEPT !.finished = TRUE] /\ wake \in Wakes
        BY <1>0, <2>5 DEF UiFails
      <3> QED
        BY <2>0, <3>1 DEF Wakes
    <2>6. CASE UiReceives
      <3>1. PICK e \in Range(events) :
               /\ e.kind = "receipt" /\ InProgress /\ wake.attempt = e.attempt
               /\ wake' = [wake EXCEPT !.receipt = TRUE, !.ticket = e.ticket,
                              !.progress = Receive(wake.progress, e.accepted),
                              !.deadline = Receive(wake.progress, e.accepted).deadline,
                              !.finished = Receive(wake.progress, e.accepted).accepted = {}]
        BY <2>6, Zenon DEF UiReceives
      <3> PICK p : p = Receive(wake.progress, e.accepted)
        OBVIOUS
      <3>2. wake \in Wakes /\ wake.progress \in Progresses /\ e.accepted \in SUBSET Hosts
        BY <1>0, <3>1, ReplyFields DEF Wakes
      <3>3. /\ p.started = (IF wake.progress.started = -1 THEN now ELSE wake.progress.started)
            /\ p.deadline = p.started + WaitTimeout
        BY <3>2, ReceiveTyped DEF ServiceTyped
      <3> PICK dl, fin : dl = p.deadline /\ fin = (p.accepted = {})
        OBVIOUS
      <3>4. wake' = [wake EXCEPT !.receipt = TRUE, !.ticket = e.ticket, !.progress = p,
                                 !.deadline = dl, !.finished = fin]
        BY <3>1
      <3>5. wake'.attempt = wake.attempt /\ wake'.deadline = dl
        BY <3>2, <3>4 DEF Wakes
      <3>6. e.attempt = 1
        BY <1>5, <3>1, <3>5
      <3>7. PICK t \in 0..now : Covers(t) /\ now <= t + NetDelay
        BY <3>1, <3>6 DEF ReceiptsCover
      <3>8. wake.progress.started = receipt1
        BY <3>1, <3>6 DEF CountsDown, Counts
      <3>9. p.started \in Nat /\ p.started <= now
        BY <1>0, <3>3, <3>8 DEF Prompt
      <3>10. dl <= t + NetDelay + WaitTimeout /\ now <= t + NetDelay + WaitTimeout
        BY <1>0, <3>3, <3>7, <3>9
      <3> QED
        BY <1>0, <1>1, <3>5, <3>7, <3>10
    <2>7. CASE UiObserves
      <3>1. PICK e \in Range(events) :
               /\ e.kind = "online" /\ wake # NoWake
               /\ wake' = [wake EXCEPT !.progress = Observed(wake.progress, e.host),
                             !.finished = @ \/ Outcome(Observed(wake.progress, e.host), wake.hosts)
                                                   \in {"complete", "partial"}]
               /\ \/ ui' = ui
                  \/ \E end \in {"complete", "partial"} : ui' = [ui EXCEPT !.wakePhase = end]
        BY <2>7, Zenon DEF UiObserves
      <3> PICK p : p = Observed(wake.progress, e.host)
        OBVIOUS
      <3> PICK fin : fin = (Outcome(p, wake.hosts) \in {"complete", "partial"})
        OBVIOUS
      <3>2. wake' = [wake EXCEPT !.progress = p, !.finished = @ \/ fin] /\ wake \in Wakes
        BY <1>0, <3>1
      <3>3. /\ wake'.attempt = wake.attempt /\ wake'.deadline = wake.deadline
            /\ wake'.receipt = wake.receipt /\ wake'.finished = (wake.finished \/ fin)
        BY <3>2 DEF Wakes
      <3>4. ui'.phase = ui.phase
        BY <1>0, <3>1 DEF Screens
      <3>5. InProgress
        BY <2>0, <3>1, <3>3 DEF InProgress
      <3> QED
        BY <1>5, <2>1, <3>3, <3>4, <3>5
    <2>8. CASE UiRetries
      <3> PICK np, by, dl, two : np = NewProgress /\ by = now + ReceiptTimeout
                                 /\ dl = now + WaitTimeout /\ two = 2
        OBVIOUS
      <3>1. wake' = [wake EXCEPT !.attempt = two, !.receipt = FALSE, !.progress = np,
                                 !.receiptDeadline = by, !.deadline = dl]
            /\ wake \in Wakes
        BY <1>0, <2>8 DEF UiRetries
      <3> QED
        BY <1>5, <3>1 DEF Wakes
    <2> QED
      BY <2>2, <2>3, <2>4, <2>5, <2>6, <2>7, <2>8 DEF UiMoves
  <1> QED
    BY <1>3, <1>4, <1>5 DEF ReceiptsCover

\* The command has no wake of the terminal UI.
LEMMA CliCovers ==
    ASSUME FrontAssumption, ServiceTyped, OneWake, Prompt, ReceiptsCover,
           mode = "command", CliMoves
    PROVE  ReceiptsCover'
  <1>0. /\ now \in Nat /\ now' = now /\ UNCHANGED <<rec, dispatches>> /\ link \in Links
    BY DEF ServiceTyped, CliMoves, DriverFrame, serverVars
  <1>1. ASSUME NEW t \in 0..now, Covers(t)
        PROVE  Covers(t)'
    BY <1>0, <1>1, CoversStays
  <1>2. Range(link'.in) \subseteq Range(link.in) /\ Range(events') \subseteq Range(events)
    <2>1. Range(link'.in) \subseteq Range(link.in)
      BY <1>0, LinkClosed, RangeEmpty DEF CliMoves, DriverFrame
    <2>2. CASE events' = events
      BY <2>1, <2>2
    <2>3. CASE events # <<>> /\ events' = Tail(events)
      BY <2>1, <2>3, RangeTail DEF ServiceTyped
    <2>4. CASE events' = <<>>
      BY <2>1, <2>4, RangeEmpty
    <2> QED
      BY <2>2, <2>3, <2>4 DEF CliMoves, DriverFrame
  <1>3. ASSUME NEW m \in Range(link'.in), m.kind = "executed", m.attempt = 1
        PROVE  Covers(m.wireTime)'
    <2>1. m \in Range(link.in)
      BY <1>2
    <2>2. m.wireTime \in 0..now
      BY <1>0, <2>1, Stamped DEF Prompt
    <2> QED
      BY <1>1, <1>3, <2>1, <2>2 DEF ReceiptsCover
  <1>4. ASSUME NEW e \in Range(events'), e.kind = "receipt", e.attempt = 1
        PROVE  \E t \in 0..now' : Covers(t)' /\ now' <= t + NetDelay
    <2>1. PICK t \in 0..now : Covers(t) /\ now <= t + NetDelay
      BY <1>2, <1>4 DEF ReceiptsCover
    <2> QED
      BY <1>0, <1>1, <2>1
  <1>5. ~InProgress'
    BY DEF OneWake, CliMoves, tuiOwn, InProgress
  <1> QED
    BY <1>3, <1>4, <1>5 DEF ReceiptsCover

\* Time does not pass beyond the end of the wait.
LEMMA ClockCovers ==
    ASSUME FrontAssumption, ServiceTyped, DriverTyped, OneWake, Places, Prompt, ReceiptsCover,
           mode \in {"ui", "command"}, Elapses
    PROVE  ReceiptsCover'
  <1>0. /\ now \in Nat /\ now' = now + 1 /\ UNCHANGED <<rec, dispatches, link, events, actor>>
        /\ UNCHANGED <<wake, ui>> /\ events = <<>>
        /\ NetDelay \in Nat /\ WaitTimeout \in Nat
    BY Times DEF ServiceTyped, Elapses, Settled, actorVars
  <1>1. ASSUME NEW t \in 0..now, Covers(t)
        PROVE  Covers(t)' /\ t \in 0..now'
    BY <1>0, <1>1, CoversStays
  <1>2. ASSUME NEW m \in Range(link'.in), m.kind = "executed", m.attempt = 1
        PROVE  Covers(m.wireTime)'
    <2>1. m \in Range(link.in)
      BY <1>0
    <2>2. m.wireTime \in 0..now
      BY <1>0, <2>1, Stamped DEF Prompt
    <2> QED
      BY <1>1, <1>2, <2>1, <2>2 DEF ReceiptsCover
  <1>3. Range(events') = {}
    BY <1>0, RangeEmpty
  <1>4. ASSUME InProgress', wake'.attempt = 1, wake'.receipt,
               ui'.phase = "connected", actor'.pc # "gone"
        PROVE  \E t \in 0..now' : /\ Covers(t)' /\ now' <= t + NetDelay + WaitTimeout
                                  /\ wake'.deadline <= t + NetDelay + WaitTimeout
    <2>1. /\ InProgress /\ wake.attempt = 1 /\ wake.receipt /\ ui.phase = "connected"
          /\ actor.pc # "gone" /\ wake \in Wakes /\ wake # NoWake
      BY <1>0, <1>4, WakeOrNone DEF InProgress, DriverTyped
    <2>2. PICK t \in 0..now : /\ Covers(t) /\ now <= t + NetDelay + WaitTimeout
                              /\ wake.deadline <= t + NetDelay + WaitTimeout
      BY <2>1 DEF ReceiptsCover
    <2>3. UiSettled
      BY <2>1 DEF OneWake, Elapses
    <2>4. ~(now >= wake.deadline)
      BY <1>0, <2>1, <2>3 DEF UiSettled, Ticking, Live, WaitOverFor, Places
    <2>5. wake.deadline \in Nat
      BY <2>1 DEF Wakes
    <2>6. now + 1 <= t + NetDelay + WaitTimeout
      BY <1>0, <2>2, <2>4, <2>5
    <2> QED
      BY <1>0, <1>1, <2>2, <2>6
  <1> QED
    BY <1>2, <1>3, <1>4 DEF ReceiptsCover

LEMMA ReceiptsCoverKept ==
    ASSUME FrontAssumption, ServiceTyped, DriverTyped, OneWake, CountsDown,
           NEW c \in 0..now, BeganAt(c), Recorded(c), Places, Prompt, ReceiptsCover, FrontNext
    PROVE  ReceiptsCover'
  <1>1. mode \in {"ui", "command"}
    BY DEF FrontNext, InTui, InCli
  <1> QED
    BY <1>1, StepKinds, UiCovers, CliCovers, ServerCovers, ActorCovers, ClockCovers

-----------------------------------------------------------------------------
(* The retry on its way *)

\* A second attempt begins with a request for it, and is not forgotten.
LEMMA SecondOnce ==
    ASSUME ServiceTyped, NEW c, Recorded(c), Ledger, Second'
    PROVE  Second \/ \E q \in Underway : SecondBegins(q)
  <1>0. /\ rec.st \in {"none", "pending", "done"}
        /\ rec.st # "none" => rec.attempt \in {1, 2} /\ rec.since \in Nat
        /\ Len(dispatches) \in Nat
    BY RecordFields
  <1>1. CASE UNCHANGED <<rec, dispatches>>
    BY <1>1 DEF Second
  <1>2. CASE Forgets
    BY <1>2 DEF Forgets, Absent, Second
  <1>3. CASE Renews
    BY <1>3 DEF Renews, Second
  <1>4. CASE Finishes
    <2> PICK a, s : a = rec.attempt /\ s = rec.since
      OBVIOUS
    <2>1. PICK acc \in SUBSET Hosts :
             dispatches' = Append(dispatches, [attempt |-> a, accepted |-> acc, at |-> s])
      BY <1>4 DEF Finishes
    <2> PICK d : d = [attempt |-> a, accepted |-> acc, at |-> s]
      OBVIOUS
    <2>2. rec.st = "pending" /\ rec'.st = "done" /\ rec'.attempt = a
      BY <1>4 DEF Finishes
    <2>3. d \in Dispatched
      BY <1>0, <2>2 DEF Dispatched
    <2>4. Len(dispatches') = Len(dispatches) + 1
      BY <2>1, <2>3, RecordFields
    <2>5. Len(dispatches) = a - 1
      BY <2>2 DEF Recorded
    <2>6. a = 2
      BY <1>0, <2>2, <2>4, <2>5 DEF Second
    <2> QED
      BY <2>2, <2>6 DEF Second
  <1>5. ASSUME NEW q \in Underway, FirstBegins(q)
        PROVE  Second
    BY <1>5 DEF FirstBegins, Second
  <1> QED
    BY <1>1, <1>2, <1>3, <1>4, <1>5 DEF Ledger

\* That request is the one the server takes from a queue.
LEMMA SecondFromQueue ==
    ASSUME ServiceTyped, ServerStep, NEW r, SecondBegins(r)
    PROVE  \/ link.out # <<>> /\ Head(link.out).attempt = 2 /\ link'.out = Tail(link.out)
           \/ late # <<>> /\ Head(late).attempt = 2
  <1>0. link \in Links /\ now \in Nat
    BY DEF ServiceTyped
  <1>1. /\ rec.st = "done" /\ rec.attempt = 1 /\ rec'.st = "pending" /\ rec'.attempt = 2
    BY DEF SecondBegins
  <1>2. ASSUME NEW q, NEW l, NEW present, q.attempt # 2, Process(q, l, present)
        PROVE  FALSE
    <2> PICK p : p = Pruned1
      OBVIOUS
    <2>1. p = rec \/ p = Absent
      BY DEF Pruned1
    <2>2. \/ /\ Starts(p, q)
             /\ rec' = [Begun(p, q) EXCEPT !.conn = IF present THEN conn ELSE 0]
          \/ rec' = Renewed(p) /\ Answers(p, q)
          \/ rec' = p
      BY <1>2, Zenon DEF Process
    <2>3. CASE /\ Starts(p, q)
               /\ rec' = [Begun(p, q) EXCEPT !.conn = IF present THEN conn ELSE 0]
      <3>1. q.attempt = 1
        BY <1>2, <2>3 DEF Starts
      <3> PICK n : n = IF present THEN conn ELSE 0
        OBVIOUS
      <3>2. rec' = [Reserved(q) EXCEPT !.conn = n]
        BY <2>3, <3>1 DEF Begun
      <3> PICK tk, ls, ex, one, zero : /\ tk = Len(dispatches) + 1 /\ ls = now + RetryTTL
                                       /\ ex = now + PendingTTL /\ one = 1 /\ zero = 0
        OBVIOUS
      <3>3. rec' = [[st |-> "pending", attempt |-> one, ticket |-> tk, hosts |-> q.hosts,
                     accepted |-> {}, lease |-> ls, since |-> now, expires |-> ex,
                     conn |-> zero] EXCEPT !.conn = n]
        BY <3>2 DEF Reserved
      <3>4. rec'.attempt = one
        BY <3>3
      <3> QED
        BY <1>1, <3>4
    <2>4. CASE rec' = Renewed(p) /\ Answers(p, q)
      <3>1. p = rec
        BY <2>1, <2>4 DEF Answers, Absent
      <3>2. rec \in Records
        BY <1>1, RecordFields
      <3> PICK ls : ls = now + RetryTTL
        OBVIOUS
      <3>3. rec' = [rec EXCEPT !.lease = ls]
        BY <2>4, <3>1 DEF Renewed
      <3>4. rec'.st = rec.st
        BY <3>2, <3>3 DEF Records
      <3> QED
        BY <1>1, <3>4
    <2>5. CASE rec' = p
      BY <1>1, <2>1, <2>5 DEF Absent
    <2> QED
      BY <2>2, <2>3, <2>4, <2>5
  <1>3. CASE Serve
    <2> PICK q, l : q = Head(link.out) /\ l = [link EXCEPT !.out = Tail(@)]
      OBVIOUS
    <2>1. /\ link.out # <<>>
          /\ \/ Process(q, l, TRUE)
             \/ UNCHANGED rec
      BY <1>3, Zenon DEF Serve
    <2>2. Process(q, l, TRUE) /\ q.attempt = 2
      BY <1>1, <1>2, <2>1
    <2> PICK t : t = Tail(link.out)
      OBVIOUS
    <2>3. l = [link EXCEPT !.out = t]
      OBVIOUS
    <2>4. l.out = t /\ l.up \in BOOLEAN
      BY <1>0, <2>3 DEF Links
    <2>5. link' = l \/ (\E m : link' = Reply(l, m))
      BY <2>2, Zenon DEF Process
    <2>6. link'.out = t
      BY <1>0, <2>3, <2>4, <2>5 DEF Reply, Links
    <2> QED
      BY <2>1, <2>2, <2>6
  <1>4. CASE ServeLate
    <2>1. late # <<>> /\ (Process(Head(late), link, FALSE) \/ UNCHANGED rec)
      BY <1>4, Zenon DEF ServeLate
    <2> QED
      BY <1>1, <1>2, <2>1
  <1>5. CASE Finish
    BY <1>1, <1>5 DEF Finish
  <1>6. CASE Observe \/ ServerCloses
    BY <1>1, <1>6 DEF Observe, ServerCloses
  <1> QED
    BY <1>3, <1>4, <1>5, <1>6 DEF ServerStep

\* A retry that arrives over the connection it was sent on is dispatched.
LEMMA RetryStarts ==
    ASSUME FrontAssumption, ServiceTyped, OneTicket, Prompt, OnItsWay,
           link.out # <<>>, Head(link.out).attempt = 2
    PROVE  Starts(Pruned1, Head(link.out))
  <1> PICK q : q = Head(link.out)
    OBVIOUS
  <1>0. now \in Nat /\ q \in Range(link.out) /\ q.wireTime \in Nat
    BY RangeTyped, Stamped DEF ServiceTyped
  <1>1. 1 \in SecondReqs /\ link.out[1] = q
    BY Stamped, RangeTail DEF SecondReqs
  <1>2. ~Second /\ WithinWait(q.wireTime)
    BY <1>1 DEF OnItsWay
  <1>3. PICK t \in 0..now : Covers(t) /\ q.wireTime <= t + NetDelay + WaitTimeout
    BY <1>2 DEF WithinWait
  <1>4. now <= q.wireTime + NetDelay
    BY <1>0 DEF Prompt, OnItsWay
  <1>5. now < t + RetryTTL
    <2>1. /\ NetDelay \in Nat /\ WaitTimeout \in Nat /\ RetryTTL \in Nat
          /\ WaitTimeout + NetDelay + NetDelay < RetryTTL
      BY Times
    <2> QED
      BY <1>0, <1>3, <1>4, <2>1
  <1> PICK y : y = t + RetryTTL
    OBVIOUS
  <1>6. y \in Nat /\ now < y
    <2>1. RetryTTL \in Nat
      BY Times
    <2> QED
      BY <1>0, <1>5, <2>1
  <1>7. rec.st = "done" /\ rec.attempt = 1 /\ rec.lease >= y /\ rec.expires >= y
    <2>1. ~(now >= y)
      BY <1>0, <1>6
    <2>2. ~(now >= t + RetryTTL)
      BY <2>1
    <2>3. /\ rec.st = "done" /\ rec.attempt = 1
          /\ rec.lease >= t + RetryTTL /\ rec.expires >= t + RetryTTL
      BY <1>2, <1>3, <2>2, Zenon DEF Covers
    <2> QED
      BY <2>3
  <1>8. rec.lease \in Nat /\ rec.expires \in Nat
    BY <1>7, RecordFields
  <1>9. rec.lease > now /\ ~(rec.expires <= now)
    BY <1>0, <1>6, <1>7, <1>8
  <1>10. Pruned1 = rec
    BY <1>9 DEF Pruned1
  <1>11. q.ticket = 1 /\ rec.ticket = 1
    BY <1>0, <1>7 DEF OneTicket, Underway
  <1> QED
    BY <1>7, <1>9, <1>10, <1>11 DEF Starts

\* The wait of a receipt is not over sooner because a record changed.
LEMMA WithinWaitKept ==
    ASSUME now \in Nat, now' = now \/ now' = now + 1,
           \A t \in 0..now : Covers(t) => Covers(t)',
           NEW x, WithinWait(x)
    PROVE  WithinWait(x)'
  <1>1. PICK t \in 0..now : Covers(t) /\ x <= t + NetDelay + WaitTimeout
    BY DEF WithinWait
  <1>2. t \in 0..now' /\ Covers(t)'
    BY <1>1
  <1> QED
    BY <1>1, <1>2 DEF WithinWait

\* What the server does to the retry: it dispatches it.
LEMMA ServerRetry ==
    ASSUME FrontAssumption, ServiceTyped, NEW c \in 0..now, BeganAt(c), Recorded(c), OneTicket,
           Prompt, RetryKept, mode = "ui", Serves, ServerStep, ServerMoves
    PROVE  RetryKept'
  <1>0. /\ now \in Nat /\ now' = now /\ link.out \in Seq(Sendable) /\ late \in Seq(Sendable)
        /\ mode' = mode /\ wake' = wake /\ commands' = commands /\ events' = events /\ Ledger
        /\ link'.out = link.out \/ (link.out # <<>> /\ link'.out = Tail(link.out))
        /\ late' = late \/ (late # <<>> /\ late' = Tail(late))
    BY Stamped DEF ServiceTyped, Serves, ServerMoves, Answered
  <1>1. \A t \in 0..now : Covers(t) => Covers(t)'
    BY <1>0, CoversKept
  <1>2. Second' => Second \/ \E q \in Underway : SecondBegins(q)
    BY <1>0, SecondOnce
  <1>3. Range(late') \subseteq Range(late)
    <2>1. CASE late' = late
      BY <2>1
    <2>2. CASE late # <<>> /\ late' = Tail(late)
      BY <1>0, <2>2, RangeTail
    <2> QED
      BY <1>0, <2>1, <2>2
  <1>4. retry' # "refused"
    BY RetryStarts DEF RetryKept, Serves, RefusesRetry
  <1>5. retry' = "none" => NoSecond'
    <2> SUFFICES ASSUME retry' = "none" PROVE NoSecond'
      OBVIOUS
    <2>1. NoSecond
      BY DEF RetryKept, Serves
    <2>2. Range(link'.out) \subseteq Range(link.out)
      BY <1>0, RangeTail
    <2>3. ~Second'
      BY <1>2, <2>1 DEF NoSecond, SecondBegins
    <2> QED
      BY <1>0, <1>3, <2>1, <2>2, <2>3 DEF NoSecond, Queued, Underway
  <1>6. retry' = "sent" => OnItsWay'
    <2> SUFFICES ASSUME retry' = "sent" PROVE OnItsWay'
      OBVIOUS
    <2>0. OnItsWay /\ link'.up
      BY DEF RetryKept, Serves
    <2>1. \A q \in Range(late) : q.attempt # 2
      BY <2>0 DEF OnItsWay
    <2>3. ~(late # <<>> /\ Head(late).attempt = 2)
      BY <1>0, <2>1, RangeTyped
    <2>4. SecondCmds' = SecondCmds
      BY <1>0 DEF SecondCmds
    <2>5. ASSUME link'.out = Tail(link.out), link.out # <<>>, NEW i \in SecondReqs'
          PROVE  i \in Nat \ {0} /\ i + 1 \in SecondReqs /\ link'.out[i] = link.out[i + 1]
      BY <1>0, <2>5, RangeTail DEF SecondReqs
    <2>6. \A i \in SecondReqs' : \E k \in SecondReqs : link'.out[i] = link.out[k]
      <3>1. CASE link'.out = link.out
        BY <3>1 DEF SecondReqs
      <3>2. CASE link.out # <<>> /\ link'.out = Tail(link.out)
        BY <2>5, <3>2
      <3> QED
        BY <1>0, <3>1, <3>2
    <2>7. \A i, j \in SecondReqs' : i = j
      <3>1. CASE link'.out = link.out
        BY <2>0, <3>1 DEF SecondReqs, OnItsWay
      <3>2. CASE link.out # <<>> /\ link'.out = Tail(link.out)
        <4> SUFFICES ASSUME NEW i \in SecondReqs', NEW j \in SecondReqs' PROVE i = j
          OBVIOUS
        <4>1. i \in Nat /\ j \in Nat /\ i + 1 \in SecondReqs /\ j + 1 \in SecondReqs
          BY <2>5, <3>2
        <4>2. i + 1 = j + 1
          BY <2>0, <4>1 DEF OnItsWay
        <4> QED
          BY <4>1, <4>2
      <3> QED
        BY <1>0, <3>1, <3>2
    <2>8. ASSUME Second'
          PROVE  Second \/ (SecondReqs # {} /\ SecondReqs' = {})
      <3> SUFFICES ASSUME NEW q, SecondBegins(q)
                   PROVE  SecondReqs # {} /\ SecondReqs' = {}
        BY <1>2, <2>8
      <3>1. link.out # <<>> /\ Head(link.out).attempt = 2 /\ link'.out = Tail(link.out)
        BY <2>3, SecondFromQueue
      <3>2. 1 \in SecondReqs
        BY <1>0, <3>1, RangeTail DEF SecondReqs
      <3>3. ASSUME NEW i \in SecondReqs'
            PROVE  FALSE
        <4>1. i \in Nat \ {0} /\ i + 1 \in SecondReqs
          BY <2>5, <3>1, <3>3
        <4>2. i + 1 = 1
          BY <2>0, <3>2, <4>1 DEF OnItsWay
        <4> QED
          BY <4>1, <4>2
      <3> QED
        BY <3>2, <3>3
    <2>9. SecondCmds' = {} \/ SecondReqs' = {}
      BY <2>0, <2>4, <2>6 DEF OnItsWay
    <2>10. SecondCmds' # {} => ~Second' /\ WithinWait(now)'
      <3> SUFFICES ASSUME SecondCmds # {} PROVE ~Second' /\ WithinWait(now)'
        BY <2>4
      <3>1. ~Second /\ WithinWait(now) /\ SecondReqs = {}
        BY <2>0 DEF OnItsWay
      <3>2. ~Second'
        BY <2>8, <3>1
      <3> PICK x : x = now
        OBVIOUS
      <3>3. WithinWait(x)
        BY <3>1
      <3>4. WithinWait(x)'
        BY <1>0, <1>1, <3>3, WithinWaitKept
      <3> QED
        BY <1>0, <3>2, <3>4 DEF WithinWait
    <2>11. \A i \in SecondReqs' : ~Second' /\ WithinWait(link.out[i].wireTime)'
      <3> SUFFICES ASSUME NEW i \in SecondReqs'
                   PROVE  ~Second' /\ WithinWait(link.out[i].wireTime)'
        OBVIOUS
      <3>1. PICK k \in SecondReqs : link'.out[i] = link.out[k]
        BY <2>6
      <3>2. ~Second /\ WithinWait(link.out[k].wireTime)
        BY <2>0 DEF OnItsWay
      <3>3. ~Second'
        BY <2>8, <3>2
      <3> PICK x : x = link.out[k].wireTime
        OBVIOUS
      <3>4. WithinWait(x)
        BY <3>2
      <3>5. WithinWait(x)'
        BY <1>0, <1>1, <3>4, WithinWaitKept
      <3>6. link'.out[i].wireTime = x
        BY <3>1
      <3> QED
        BY <3>3, <3>5, <3>6 DEF WithinWait
    <2>12. \A i, j \in SecondCmds' : i = j
      BY <2>0, <2>4 DEF OnItsWay
    <2>13. \A e \in Range(events') : e.kind # "connected"
      BY <1>0, <2>0 DEF OnItsWay
    <2> QED
      BY <1>3, <2>0, <2>1, <2>7, <2>9, <2>10, <2>11, <2>12, <2>13 DEF OnItsWay
  <1>7. retry' # "none" => wake'.attempt # 1
    BY <1>0 DEF RetryKept, Serves
  <1> QED
    BY <1>0, <1>4, <1>5, <1>6, <1>7 DEF RetryKept

\* The actor, while its connection holds: it takes commands, sends requests, tells of
\* messages; it tells of no new connection.
LEMMA ActorWhileUp ==
    ASSUME ServiceTyped, Places, link.up, link'.up, now' = now, ActorMoves
    PROVE  /\ \A e \in Range(events') : e \in Range(events) \/ e.kind # "connected"
           /\ \/ /\ link'.out = link.out
                 /\ commands' = commands \/ (commands # <<>> /\ commands' = Tail(commands))
              \/ /\ commands # <<>> /\ Head(commands).kind = "wake"
                 /\ commands' = Tail(commands)
                 /\ link'.out = Append(link.out, Request(Head(commands)))
  <1>0. /\ now \in Nat /\ link \in Links /\ events \in Seq(Remarks \cup Replies)
        /\ ~CloseLink /\ actor.pc # "handshake"
    BY LinkClosed DEF ServiceTyped, Places
  <1>1. ASSUME NEW e \in Remarks \cup Replies, e.kind # "connected",
               events' = events \/ events' = Append(events, e)
        PROVE  \A x \in Range(events') : x \in Range(events) \/ x.kind # "connected"
    <2>1. CASE events' = events
      BY <2>1
    <2>2. CASE events' = Append(events, e)
      BY <1>0, <1>1, <2>2, RangeAppend
    <2> QED
      BY <1>1, <2>1, <2>2
  <1>2. \A k \in {"connecting", "failed", "error", "disconnected"} :
           Note(k) \in Remarks \cup Replies /\ Note(k).kind # "connected"
    BY <1>0, Translations DEF ConnectionEvents
  <1>3. CASE Withdraws
    <2>1. link' = link /\ (commands' = commands \/ (commands # <<>> /\ commands' = Tail(commands)))
      BY <1>0, <1>3 DEF Withdraws
    <2>2. \/ events' = events
          \/ \E k \in {"connecting", "failed", "error", "disconnected"} :
                events' = Append(events, Note(k))
      BY <1>3 DEF Withdraws
    <2> QED
      BY <1>1, <1>2, <2>1, <2>2
  <1>4. CASE Sends
    <2> PICK q : q = Request(Head(commands))
      OBVIOUS
    <2>1. link' = [link EXCEPT !.out = Append(@, q)]
      BY <1>4 DEF Sends
    <2>2. link'.out = Append(link.out, q)
      BY <1>0, <2>1 DEF Links
    <2> QED
      BY <1>4, <2>2 DEF Sends
  <1>5. CASE Takes
    <2> PICK m : m = Head(link.in)
      OBVIOUS
    <2>1. m \in Receivable
      BY <1>5, Stamped, RangeTail DEF Takes
    <2>2. link' = [link EXCEPT !.in = Tail(@)] /\ commands' = commands
      BY <1>0, <1>5 DEF Takes
    <2>3. link'.out = link.out
      BY <1>0, <2>2 DEF Links
    <2>4. \/ events' = events \/ events' = Append(events, Note("error"))
          \/ m.kind = "executed" /\ events' = Append(events, ReceiptEvent(m))
          \/ m.kind = "online" /\ events' = Append(events, OnlineEvent(m))
      BY <1>5 DEF Takes
    <2>5. m.kind = "executed" =>
             ReceiptEvent(m) \in Remarks \cup Replies /\ ReceiptEvent(m).kind # "connected"
      BY <1>0, <2>1, Translations
    <2>6. m.kind = "online" =>
             OnlineEvent(m) \in Remarks \cup Replies /\ OnlineEvent(m).kind # "connected"
      BY <1>0, <2>1, Translations
    <2> QED
      BY <1>1, <1>2, <2>2, <2>3, <2>4, <2>5, <2>6
  <1> QED
    BY <1>0, <1>3, <1>4, <1>5 DEF ActorMoves, Connects

\* What the actor does to the retry: it sends it, once.
LEMMA ActorRetry ==
    ASSUME FrontAssumption, ServiceTyped, OneTicket, Places, Prompt, RetryKept, mode = "ui",
           Serves, Actor, ActorSets, ActorMoves
    PROVE  RetryKept'
  <1>0. /\ now \in Nat /\ now' = now /\ link.out \in Seq(Sendable) /\ commands \in Seq(Commands)
        /\ mode' = mode /\ wake' = wake /\ UNCHANGED <<rec, dispatches>>
    BY Stamped DEF ServiceTyped, Serves, ActorSets
  <1>1. \A t \in 0..now : Covers(t) => Covers(t)'
    BY <1>0, CoversStays
  <1>2. Second' = Second
    BY <1>0 DEF Second
  <1>3. retry' # "refused"
    BY RetryStarts DEF RetryKept, Serves, RefusesRetry
  <1>4. retry' = "none" => NoSecond'
    <2> SUFFICES ASSUME retry' = "none" PROVE NoSecond'
      OBVIOUS
    <2>1. NoSecond
      BY DEF RetryKept, Serves
    <2>2. \A x \in Queued' \cup Underway' : x.attempt # 2
      <3> SUFFICES ASSUME NEW x \in Queued' \cup Underway', x.attempt = 2 PROVE FALSE
        OBVIOUS
      <3>1. x \in Queued \cup Underway \/ \E y \in Queued : x = Request(y)
        BY DEF ActorSets
      <3> QED
        BY <1>0, <2>1, <3>1, UnderwayTyped, Translations DEF NoSecond
    <2> QED
      BY <1>0, <1>2, <2>1, <2>2 DEF NoSecond
  <1>5. retry' = "sent" => OnItsWay'
    <2> SUFFICES ASSUME retry' = "sent" PROVE OnItsWay'
      OBVIOUS
    <2>0. OnItsWay /\ link.up /\ link'.up
      BY DEF RetryKept, Serves, OnItsWay
    <2>1. late' = late
      BY <2>0 DEF Actor
    <2>2. \A e \in Range(events') : e.kind # "connected"
      BY <1>0, <2>0, ActorWhileUp DEF OnItsWay
    <2> PICK x : x = now
      OBVIOUS
    <2>3. \A y : WithinWait(y) => WithinWait(y)'
      BY <1>0, <1>1, WithinWaitKept
    <2>4. commands # <<>> /\ commands' = Tail(commands) =>
             \A i \in SecondCmds' : i \in Nat \ {0} /\ i + 1 \in SecondCmds
      BY <1>0, RangeTail DEF SecondCmds
    <2>5. \A i, j \in SecondCmds' : i = j
      <3>1. CASE commands' = commands
        BY <2>0, <3>1 DEF SecondCmds, OnItsWay
      <3>2. CASE commands # <<>> /\ commands' = Tail(commands)
        <4> SUFFICES ASSUME NEW i \in SecondCmds', NEW j \in SecondCmds' PROVE i = j
          OBVIOUS
        <4>1. i \in Nat /\ j \in Nat /\ i + 1 \in SecondCmds /\ j + 1 \in SecondCmds
          BY <2>4, <3>2
        <4>2. i + 1 = j + 1
          BY <2>0, <4>1 DEF OnItsWay
        <4> QED
          BY <4>1, <4>2
      <3> QED
        BY <1>0, <2>0, <3>1, <3>2, ActorWhileUp
    <2>6. SecondCmds' # {} => SecondCmds # {}
      <3>1. CASE commands' = commands
        BY <3>1 DEF SecondCmds
      <3>2. CASE commands # <<>> /\ commands' = Tail(commands)
        BY <2>4, <3>2
      <3> QED
        BY <1>0, <2>0, <3>1, <3>2, ActorWhileUp
    <2>7. SecondCmds' # {} => ~Second' /\ WithinWait(x)'
      BY <1>2, <2>0, <2>3, <2>6 DEF OnItsWay
    <2>8. CASE link'.out = link.out
      <3>1. SecondReqs' = SecondReqs
        BY <2>8 DEF SecondReqs
      <3>2. ASSUME NEW i \in SecondReqs'
            PROVE  ~Second' /\ WithinWait(link.out[i].wireTime)'
        <4> PICK y : y = link.out[i].wireTime
          OBVIOUS
        <4>1. ~Second /\ WithinWait(y)
          BY <2>0, <3>1, <3>2 DEF OnItsWay
        <4>2. WithinWait(y)' /\ link'.out[i].wireTime = y
          BY <2>3, <2>8, <4>1
        <4> QED
          BY <1>2, <4>1, <4>2 DEF WithinWait
      <3>3. WithinWait(x)' => WithinWait(now)'
        BY <1>0 DEF WithinWait
      <3>4. SecondCmds' = {} \/ SecondReqs' = {}
        BY <2>0, <2>6, <3>1 DEF OnItsWay
      <3>5. \A i, j \in SecondReqs' : i = j
        BY <2>0, <3>1 DEF OnItsWay
      <3>6. \A q \in Range(late') : q.attempt # 2
        BY <2>0, <2>1 DEF OnItsWay
      <3> QED
        BY <2>0, <2>2, <2>5, <2>7, <3>2, <3>3, <3>4, <3>5, <3>6 DEF OnItsWay
    <2>9. CASE /\ commands # <<>> /\ Head(commands).kind = "wake"
               /\ commands' = Tail(commands)
               /\ link'.out = Append(link.out, Request(Head(commands)))
      <3> PICK k, q, n : k = Head(commands) /\ q = Request(k) /\ n = Len(link.out) + 1
        OBVIOUS
      <3>1. k \in Commands /\ k.kind = "wake" /\ 1 \in DOMAIN commands /\ commands[1] = k
        BY <1>0, <2>9, RangeTail
      <3>2. q \in Sendable /\ q.attempt = k.attempt /\ q.wireTime = x
        BY <1>0, <3>1, Translations
      <3>3. /\ DOMAIN link'.out = DOMAIN link.out \cup {n} /\ n \notin DOMAIN link.out
            /\ link'.out[n] = q /\ \A i \in DOMAIN link.out : link'.out[i] = link.out[i]
        BY <1>0, <2>9, <3>2, RangeAppend
      <3>4. SecondReqs' = SecondReqs \cup (IF k.attempt = 2 THEN {n} ELSE {})
        BY <3>2, <3>3 DEF SecondReqs
      <3>5. k.attempt = 2 => 1 \in SecondCmds
        BY <3>1 DEF SecondCmds
      <3>6. k.attempt = 2 => /\ SecondReqs = {} /\ ~Second /\ WithinWait(x)
                             /\ SecondCmds' = {}
        <4> SUFFICES ASSUME k.attempt = 2, NEW i \in SecondCmds'
                     PROVE  FALSE
          BY <2>0, <3>5 DEF OnItsWay
        <4>1. i \in Nat \ {0} /\ i + 1 \in SecondCmds
          BY <2>4, <2>9
        <4>2. i + 1 = 1
          BY <2>0, <3>5, <4>1 DEF OnItsWay
        <4> QED
          BY <4>1, <4>2
      <3>7. ASSUME NEW i \in SecondReqs'
            PROVE  ~Second' /\ WithinWait(link.out[i].wireTime)'
        <4> PICK y : y = link'.out[i].wireTime
          OBVIOUS
        <4>1. ~Second /\ WithinWait(y)
          <5>1. CASE i \in SecondReqs
            <6>1. link'.out[i] = link.out[i]
              BY <3>3, <5>1 DEF SecondReqs
            <6> QED
              BY <2>0, <5>1, <6>1 DEF OnItsWay
          <5>2. CASE i = n /\ k.attempt = 2
            BY <3>2, <3>3, <3>6, <5>2
          <5> QED
            BY <3>4, <3>7, <5>1, <5>2
        <4>2. WithinWait(y)'
          BY <2>3, <4>1
        <4> QED
          BY <1>2, <4>1, <4>2 DEF WithinWait
      <3>8. WithinWait(x)' => WithinWait(now)'
        BY <1>0 DEF WithinWait
      <3>9. SecondCmds' = {} \/ SecondReqs' = {}
        BY <2>0, <2>6, <3>4, <3>6 DEF OnItsWay
      <3>10. \A i, j \in SecondReqs' : i = j
        BY <2>0, <3>4, <3>6 DEF OnItsWay
      <3>11. \A r \in Range(late') : r.attempt # 2
        BY <2>0, <2>1 DEF OnItsWay
      <3> QED
        BY <2>0, <2>2, <2>5, <2>7, <3>7, <3>8, <3>9, <3>10, <3>11 DEF OnItsWay
    <2> QED
      BY <1>0, <2>0, <2>8, <2>9, ActorWhileUp
  <1>6. retry' # "none" => wake'.attempt # 1
    BY <1>0 DEF RetryKept, Serves
  <1> QED
    BY <1>0, <1>3, <1>4, <1>5, <1>6 DEF RetryKept

LEMMA ClockRetry ==
    ASSUME FrontAssumption, ServiceTyped, Places, RetryKept, Elapses
    PROVE  RetryKept'
  <1>0. /\ now \in Nat /\ now' = now + 1 /\ Range(late') \subseteq Range(late)
        /\ UNCHANGED <<mode, wake, retry, commands, events, link, rec, dispatches>>
    BY DEF ServiceTyped, Elapses, actorVars
  <1>1. \A t \in 0..now : Covers(t) => Covers(t)'
    BY <1>0, CoversStays
  <1>2. \A x : WithinWait(x) => WithinWait(x)'
    BY <1>0, <1>1, WithinWaitKept
  <1>3. Second' = Second
    BY <1>0 DEF Second
  <1>4. NoSecond => NoSecond'
    BY <1>0, <1>3 DEF NoSecond, Queued, Underway
  <1>5. OnItsWay => OnItsWay'
    <2> SUFFICES ASSUME OnItsWay PROVE OnItsWay'
      OBVIOUS
    <2>1. commands = <<>>
      BY DEF OnItsWay, Places, Elapses, Settled
    <2>2. SecondCmds' = {}
      BY <1>0, <2>1, RangeEmpty DEF SecondCmds
    <2>3. SecondReqs' = SecondReqs
      BY <1>0 DEF SecondReqs
    <2>4. \A i \in SecondReqs' : ~Second' /\ WithinWait(link.out[i].wireTime)'
      <3> SUFFICES ASSUME NEW i \in SecondReqs
                   PROVE  ~Second' /\ WithinWait(link.out[i].wireTime)'
        BY <2>3
      <3> PICK y : y = link.out[i].wireTime
        OBVIOUS
      <3>1. ~Second /\ WithinWait(y)
        BY DEF OnItsWay
      <3>2. WithinWait(y)' /\ link'.out[i].wireTime = y
        BY <1>0, <1>2, <3>1
      <3> QED
        BY <1>3, <3>1, <3>2 DEF WithinWait
    <2> QED
      BY <1>0, <2>2, <2>3, <2>4 DEF OnItsWay
  <1> QED
    BY <1>0, <1>4, <1>5 DEF RetryKept

\* The attempt of the wake after a step of the terminal UI.
LEMMA UiAttempt ==
    ASSUME ServiceTyped, DriverTyped, UiMoves
    PROVE  /\ UiStarts => wake'.attempt = 1
           /\ UiRetries => wake'.attempt = 2
           /\ ~UiStarts /\ ~UiRetries => wake'.attempt \in {0, wake.attempt}
  <1>0. /\ NoWake.attempt = 0
        /\ wake # NoWake => wake \in Wakes
        /\ InProgress => wake \in Wakes
    BY WakeOrNone DEF DriverTyped
  <1>1. UiStarts => wake'.attempt = 1
    BY DEF UiStarts
  <1>2. UiRetries => wake'.attempt = 2
    <2> SUFFICES ASSUME UiRetries PROVE wake'.attempt = 2
      OBVIOUS
    <2> PICK np, by, dl, two : np = NewProgress /\ by = now + ReceiptTimeout
                               /\ dl = now + WaitTimeout /\ two = 2
      OBVIOUS
    <2>1. wake' = [wake EXCEPT !.attempt = two, !.receipt = FALSE, !.progress = np,
                               !.receiptDeadline = by, !.deadline = dl]
          /\ wake \in Wakes
      BY <1>0 DEF UiRetries
    <2> QED
      BY <2>1 DEF Wakes
  <1>3. UiKeeps => wake'.attempt \in {0, wake.attempt}
    BY <1>0 DEF UiKeeps
  <1>4. UiResumes => wake'.attempt = wake.attempt
    <2> SUFFICES ASSUME UiResumes PROVE wake'.attempt = wake.attempt
      OBVIOUS
    <2> PICK by : by = now + ReceiptTimeout
      OBVIOUS
    <2>1. wake' = [wake EXCEPT !.receipt = FALSE, !.receiptDeadline = by] /\ wake \in Wakes
      BY <1>0 DEF UiResumes
    <2> QED
      BY <2>1 DEF Wakes
  <1>5. UiFails => wake'.attempt = wake.attempt
    BY <1>0 DEF UiFails, Wakes
  <1>6. UiReceives => wake'.attempt = wake.attempt
    <2> SUFFICES ASSUME UiReceives PROVE wake'.attempt = wake.attempt
      OBVIOUS
    <2>1. PICK e \in Range(events) :
             /\ InProgress
             /\ wake' = [wake EXCEPT !.receipt = TRUE, !.ticket = e.ticket,
                            !.progress = Receive(wake.progress, e.accepted),
                            !.deadline = Receive(wake.progress, e.accepted).deadline,
                            !.finished = Receive(wake.progress, e.accepted).accepted = {}]
      BY Zenon DEF UiReceives
    <2> PICK p, d, f : /\ p = Receive(wake.progress, e.accepted)
                       /\ d = p.deadline /\ f = (p.accepted = {})
      OBVIOUS
    <2>2. wake' = [wake EXCEPT !.receipt = TRUE, !.ticket = e.ticket, !.progress = p,
                               !.deadline = d, !.finished = f]
      BY <2>1
    <2> QED
      BY <1>0, <2>1, <2>2 DEF Wakes
  <1>7. UiObserves => wake'.attempt = wake.attempt
    <2> SUFFICES ASSUME UiObserves PROVE wake'.attempt = wake.attempt
      OBVIOUS
    <2>1. wake # NoWake
          /\ \E p, f : wake' = [wake EXCEPT !.progress = p, !.finished = @ \/ f]
      BY Zenon DEF UiObserves
    <2> QED
      BY <1>0, <2>1 DEF Wakes
  <1> QED
    BY <1>1, <1>2, <1>3, <1>4, <1>5, <1>6, <1>7 DEF UiMoves

\* The terminal UI asks for a second attempt once, while its receipt is covered.
LEMMA UiRetry ==
    ASSUME FrontAssumption, ServiceTyped, DriverTyped, OneWake, ReceiptsCover, RetryKept,
           mode = "ui", UiMoves, ui' \in Screens
    PROVE  RetryKept'
  <1>0. /\ now \in Nat /\ commands \in Seq(Commands) /\ mode' = mode /\ Underway' = Underway
        /\ UNCHANGED <<now, rec, dispatches, late>> /\ Range(events') \subseteq Range(events)
        /\ link' = link \/ retry' # "sent"
    BY UiKeepsTypes DEF ServiceTyped, UiMoves, DriverFrame, serverVars
  <1>1. /\ UiStarts => wake'.attempt = 1
        /\ UiRetries => wake'.attempt = 2
        /\ ~UiStarts /\ ~UiRetries => wake'.attempt \in {0, wake.attempt}
    BY UiAttempt
  <1>2. /\ Second' = Second
        /\ \A x : WithinWait(x) => WithinWait(x)'
    <2>1. \A t \in 0..now : Covers(t) => Covers(t)'
      BY <1>0, CoversStays
    <2> QED
      BY <1>0, <2>1, WithinWaitKept DEF Second
  <1>3. UiRetries => retry = "none" /\ ~UiStarts
    BY DEF UiRetries, RetryKept, UiStarts, OneWake, InProgress
  <1>4. UiStarts => retry = "none" /\ retry' = "none"
    BY DEF UiStarts, OneWake
  <1>5. /\ retry' = "none" => retry = "none"
        /\ retry' = "sent" => retry = "sent" \/ UiRetries
        /\ retry' = "refused" => retry = "refused"
        /\ retry = "none" => retry' = "none" \/ UiRetries
    BY DEF UiMoves, UiKeeps, UiStarts, UiResumes, UiFails, UiReceives, UiObserves, UiRetries
  <1>6. retry' # "refused"
    BY <1>5 DEF RetryKept
  <1>7. retry' # "none" => wake'.attempt # 1
    BY <1>1, <1>3, <1>4, <1>5 DEF RetryKept
  <1>8. retry' = "none" => NoSecond'
    <2> SUFFICES ASSUME retry' = "none" PROVE NoSecond'
      OBVIOUS
    <2>1. NoSecond /\ ~UiRetries
      BY <1>5 DEF RetryKept, UiRetries
    <2>2. \A x \in Queued' : x.attempt # 2
      <3>1. \/ Queued' \subseteq Queued
            \/ \E y : Queued' = Queued \cup {y} /\ (y.attempt = 1 \/ y.attempt = wake.attempt)
        BY <2>1, UiKeepsTypes
      <3> QED
        BY <2>1, <3>1 DEF NoSecond
    <2>3. wake'.attempt # 2
      BY <1>1, <2>1 DEF NoSecond
    <2> QED
      BY <1>0, <1>2, <2>1, <2>2, <2>3 DEF NoSecond
  <1>9. retry' = "sent" => OnItsWay'
    <2> SUFFICES ASSUME retry' = "sent" PROVE OnItsWay'
      OBVIOUS
    <2>0. link' = link /\ SecondReqs' = SecondReqs
      BY <1>0 DEF SecondReqs
    <2> PICK x : x = now
      OBVIOUS
    <2>1. CASE UiRetries
      <3>1. /\ retry = "none" /\ NoSecond /\ link.up /\ events = <<>> /\ events' = <<>>
            /\ wake.attempt = 1 /\ InProgress /\ wake.receipt
            /\ ui.phase = "connected" /\ actor.pc # "gone"
        BY <1>3, <2>1 DEF UiRetries, RetryKept, UiMoves, DriverFrame
      <3>2. WithinWait(x)
        BY <3>1 DEF ReceiptsCover, WithinWait
      <3>3. PICK y \in Commands : commands' = Append(commands, y)
        <4>1. wake \in Wakes /\ wake.hosts \in SUBSET Hosts /\ wake.ticket \in Nat
          BY <3>1, WakeOrNone DEF DriverTyped, Wakes, Selections
        <4>2. WakeCmd(Op, wake.hosts, 2, wake.ticket, now) \in Commands
          BY <1>0, <4>1, WakeCmdTyped
        <4> QED
          BY <2>1, <4>2 DEF UiRetries, Send
      <3>4. SecondCmds = {}
        <4> SUFFICES ASSUME NEW i \in SecondCmds PROVE FALSE
          OBVIOUS
        <4>1. commands[i] \in Queued
          BY <1>0, RangeTyped DEF SecondCmds, Queued
        <4> QED
          BY <3>1, <4>1 DEF NoSecond, SecondCmds
      <3>5. SecondReqs = {}
        <4> SUFFICES ASSUME NEW i \in SecondReqs PROVE FALSE
          OBVIOUS
        <4>1. link.out[i] \in Underway
          BY Stamped, RangeTyped DEF SecondReqs, Underway
        <4> QED
          BY <3>1, <4>1 DEF NoSecond, SecondReqs
      <3> PICK n : n = Len(commands) + 1
        OBVIOUS
      <3>6. SecondCmds' \subseteq {n}
        <4>1. /\ DOMAIN commands' = DOMAIN commands \cup {n}
              /\ \A i \in DOMAIN commands : commands'[i] = commands[i]
          BY <1>0, <3>3, RangeAppend
        <4> QED
          BY <3>4, <4>1 DEF SecondCmds
      <3>7. \A q \in Range(late') : q.attempt # 2
        BY <1>0, <3>1 DEF NoSecond, Underway
      <3>8. ~Second' /\ WithinWait(x)'
        BY <1>2, <3>1, <3>2 DEF NoSecond
      <3>9. WithinWait(now)'
        BY <1>0, <3>8 DEF WithinWait
      <3>10. Range(events') = {}
        BY <3>1, RangeEmpty
      <3> QED
        BY <2>0, <3>1, <3>5, <3>6, <3>7, <3>8, <3>9, <3>10 DEF OnItsWay
    <2>2. CASE ~UiRetries
      <3>1. retry = "sent" /\ OnItsWay
        BY <1>5, <2>2 DEF RetryKept
      <3>2. ~UiStarts /\ ~UiResumes
        BY <1>4, <3>1 DEF UiResumes, OnItsWay
      <3>3. commands' = commands \/ commands' = <<>>
        BY <2>2, <3>2
           DEF UiMoves, UiKeeps, UiFails, UiReceives, UiObserves
      <3>4. SecondCmds' \subseteq SecondCmds
        BY <3>3, RangeEmpty DEF SecondCmds
      <3>5. SecondCmds' # {} => ~Second' /\ WithinWait(now)'
        <4> SUFFICES ASSUME SecondCmds' # {} PROVE ~Second' /\ WithinWait(now)'
          OBVIOUS
        <4>1. ~Second /\ WithinWait(x)
          BY <3>1, <3>4 DEF OnItsWay
        <4>2. WithinWait(x)'
          BY <1>2, <4>1
        <4> QED
          BY <1>0, <1>2, <4>1, <4>2 DEF WithinWait
      <3>6. \A i \in SecondReqs' : ~Second' /\ WithinWait(link.out[i].wireTime)'
        <4> SUFFICES ASSUME NEW i \in SecondReqs
                     PROVE  ~Second' /\ WithinWait(link.out[i].wireTime)'
          BY <2>0
        <4> PICK y : y = link.out[i].wireTime
          OBVIOUS
        <4>1. ~Second /\ WithinWait(y)
          BY <3>1 DEF OnItsWay
        <4>2. WithinWait(y)' /\ link'.out[i].wireTime = y
          BY <1>2, <2>0, <4>1
        <4> QED
          BY <1>2, <4>1, <4>2 DEF WithinWait
      <3>7. SecondCmds' = {} \/ SecondReqs' = {}
        BY <2>0, <3>1, <3>4 DEF OnItsWay
      <3>8. /\ \A i, j \in SecondCmds' : i = j
            /\ \A i, j \in SecondReqs' : i = j
        BY <2>0, <3>1, <3>4 DEF OnItsWay
      <3>9. /\ link'.up /\ \A e \in Range(events') : e.kind # "connected"
            /\ \A q \in Range(late') : q.attempt # 2
        BY <1>0, <2>0, <3>1 DEF OnItsWay
      <3> QED
        BY <3>5, <3>6, <3>7, <3>8, <3>9 DEF OnItsWay
    <2> QED
      BY <2>1, <2>2
  <1> QED
    BY <1>0, <1>6, <1>7, <1>8, <1>9 DEF RetryKept

LEMMA RetryKeptOn ==
    ASSUME FrontAssumption, ServiceTyped, DriverTyped, OneWake, OneTicket,
           NEW c \in 0..now, BeganAt(c), Recorded(c),
           Places, Prompt, ReceiptsCover, RetryKept, FrontNext
    PROVE  RetryKept'
  <1>1. mode \in {"ui", "command"} /\ mode' = mode
    BY DEF FrontNext, InTui, InCli
  <1>2. CASE mode = "command"
    <2>1. OneWake'
      BY StepKeepsTypes
    <2>2. mode' = "command" /\ retry' = "none"
      BY <1>1, <1>2, <2>1 DEF OneWake
    <2> QED
      BY <2>2 DEF RetryKept
  <1>3. CASE mode = "ui"
    BY <1>3, StepKinds, UiRetry, ServerRetry, ActorRetry, ClockRetry
  <1> QED
    BY <1>1, <1>2, <1>3

LEMMA RetryInvKept ==
    ASSUME FrontAssumption, RetryInv, [FrontNext]_frontVars
    PROVE  RetryInv'
  <1>0. WaitInv'
    BY WaitKept DEF RetryInv
  <1>1. ServiceTyped /\ DriverTyped /\ OneWake /\ CountsDown /\ OneTicket
        /\ Places /\ Prompt /\ ReceiptsCover /\ RetryKept
    BY DEF RetryInv, WaitInv
  <1>2. CASE UNCHANGED frontVars
    <2>1. Places' /\ Prompt'
      BY <1>1, <1>2 DEF frontVars, actorVars, serverVars, tuiOwn, Places, Prompt, InOrder,
                        InProgress
    <2>2. ReceiptsCover'
      BY <1>1, <1>2 DEF frontVars, actorVars, serverVars, tuiOwn, ReceiptsCover, Covers, Second,
                        InProgress
    <2>3. RetryKept'
      BY <1>1, <1>2 DEF frontVars, actorVars, serverVars, tuiOwn, RetryKept, NoSecond, OnItsWay,
                        SecondCmds, SecondReqs, WithinWait, Covers, Second, Queued, Underway
    <2> QED
      BY <1>0, <2>1, <2>2, <2>3 DEF RetryInv
  <1>3. CASE FrontNext
    <2>1. PICK c \in 0..now : BeganAt(c)
      BY DEF RetryInv, WaitInv
    <2>2. Recorded(c)
      BY <2>1, RecordedMeans DEF RetryInv, WaitInv
    <2>3. Places' /\ Prompt'
      BY <1>1, <1>3, PlacesKept, PromptKept
    <2>4. ReceiptsCover'
      BY <1>1, <1>3, <2>1, <2>2, ReceiptsCoverKept
    <2>5. RetryKept'
      BY <1>1, <1>3, <2>1, <2>2, RetryKeptOn
    <2> QED
      BY <1>0, <2>3, <2>4, <2>5 DEF RetryInv
  <1> QED
    BY <1>2, <1>3

LEMMA RetryInitially ==
    ASSUME FrontAssumption, FrontInit
    PROVE  RetryInv
  <1>1. WaitInv
    BY WaitInitially
  <1>2. /\ now = 0 /\ link = Closed /\ events = <<>> /\ commands = <<>> /\ late = <<>>
        /\ rec = Absent /\ dispatches = <<>> /\ receipt1 = -1 /\ wake = NoWake /\ retry = "none"
        /\ ui.screen # "connect"
    BY DEF FrontInit, TuiInit, ServerInit, ActorInit
  <1>3. ~link.up /\ link.in = <<>> /\ link.out = <<>>
    BY <1>2 DEF Closed
  <1>4. /\ Range(link.in) = {} /\ Range(link.out) = {} /\ Range(events) = {} /\ Range(late) = {}
        /\ Range(commands) = {} /\ DOMAIN link.in = {} /\ DOMAIN link.out = {}
    BY <1>2, <1>3, RangeEmpty
  <1>5. ~InProgress /\ wake.attempt = 0 /\ ~Second
    <2>1. Len(dispatches) = 0 /\ rec.st = "none"
      BY <1>2 DEF Absent
    <2> QED
      BY <1>2, <2>1 DEF InProgress, NoWake, Second
  <1>6. Places /\ Prompt /\ ReceiptsCover
    BY <1>2, <1>3, <1>4, <1>5 DEF Places, Prompt, InOrder, ReceiptsCover
  <1>7. RetryKept
    BY <1>2, <1>4, <1>5 DEF RetryKept, NoSecond, Queued, Underway
  <1> QED
    BY <1>1, <1>6, <1>7 DEF RetryInv

\* While its connection holds, a client that waited as told is not refused its retry: the
\* ticket's lease and the record outlive the wait and the ways of the messages; for any
\* hosts, delays and times that satisfy the assertions of server.rs (server.rs Ledger).
THEOREM RetriesHonoured ==
    ASSUME FrontAssumption
    PROVE  FrontSpec => []RetryHonoured
  <1>1. FrontInit => RetryInv
    BY RetryInitially
  <1>2. RetryInv /\ [FrontNext]_frontVars => RetryInv'
    BY RetryInvKept
  <1>3. RetryInv => RetryHonoured
    BY DEF RetryInv, RetryKept, RetryHonoured
  <1> QED
    BY <1>1, <1>2, <1>3, PTL DEF FrontSpec
=============================================================================
