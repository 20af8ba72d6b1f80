------------------------------ MODULE Transport ------------------------------
(***************************************************************************)
(* One secure connection over a byte stream (security.rs: client_handshake,*)
(* server_handshake, SecureConnection; server.rs: the polling half of      *)
(* handle_connection).                                                     *)
(*                                                                         *)
(* The stream carries cells: a frame is PrefixCells cells of length prefix *)
(* and its body.  A read may return any number of them, so frames arrive   *)
(* split and joined.  The socket buffers hold WireCells cells, so a peer   *)
(* that does not read blocks the writer, and the path may lose, repeat or  *)
(* damage cells.  Noise opens a body if it is whole, untouched and the     *)
(* next of its direction.                                                  *)
(*                                                                         *)
(* Time is counted in ticks by timers; an expired deadline is seen within  *)
(* the tick, for the loops look at the clock every few milliseconds.       *)
(***************************************************************************)
EXTENDS Integers, Sequences, FiniteSets

CONSTANTS
    Sizes,             \* body cells of a record: payload sizes the callers send
    MaxBody,           \* MAX_RECORD_BYTES
    WireCells,         \* bound: what the socket buffers of a direction hold
    MaxSeq,            \* the last sequence number (u64::MAX)
    WriteTimeout,      \* WRITE_TIMEOUT
    HandshakeTimeout,  \* HANDSHAKE_TIMEOUT
    FrameIdleTimeout,  \* FRAME_IDLE_TIMEOUT
    Sends,             \* bound: records an end sends
    MaxFaults          \* bound: faults of the path

PrefixCells == 2
Ends == {"client", "server"}
Other(e) == IF e = "client" THEN "server" ELSE "client"

TransportAssumption ==
    /\ MaxBody \in Nat \ {0} /\ Sizes \subseteq 1..MaxBody /\ Sizes # {}
    /\ WireCells \in Nat \ {0} /\ MaxSeq \in Nat
    /\ WriteTimeout \in Nat \ {0} /\ HandshakeTimeout \in Nat \ {0}
    /\ FrameIdleTimeout \in Nat \ {0}
    /\ Sends \in [Ends -> Nat] /\ MaxFaults \in Nat

VARIABLES
    pc,         \* what the thread of an end is doing
    conn,       \* SecureConnection: send_seq, recv_seq, closed
    buffer,     \* read_buffer
    out,        \* the cells of the current write that are not written yet
    timer,      \* ticks left to the deadline of the current handshake or write
    partial,    \* partial_frame_started of the server: ticks since, or None
    wire,       \* the cells on their way from an end
    sealed,     \* the records an end has encrypted, by Noise nonce
    delivered,  \* how many payloads an end has handed to its caller
    garbled,    \* the length that a torn length prefix decodes to
    faults,     \* history: faults of the path so far
    refused,    \* history: the ends that refused what they had read
    failed,     \* history: the ends whose write failed
    age         \* history: ticks since the current handshake or write began

frameVars == <<pc, conn, buffer, out, timer, partial, wire, sealed, delivered,
               garbled, faults, refused, failed, age>>
history == <<faults, refused, failed>>

None == -1
Hello == 0   \* the handshake message of an end, before its records 1, 2, ...
Cell == [frame : Nat, at : Nat, whole : BOOLEAN]

\* Every count stays in its range and nothing is buffered beyond one frame
\* (poll_payload reads at most what fits; an end is open, or writing, or gone).
FrameTypeOK ==
    /\ pc \in [Ends -> {"hello_out", "hello_in", "open", "writing", "gone"}]
    /\ conn \in [Ends -> [sendSeq : 0..MaxSeq, recvSeq : 0..MaxSeq, closed : BOOLEAN]]
    /\ buffer \in [Ends -> Seq(Cell)]
    /\ \A e \in Ends : Len(buffer[e]) <= PrefixCells + MaxBody
    /\ out \in [Ends -> Seq(Cell)]
    /\ timer \in [Ends -> 0..(WriteTimeout + HandshakeTimeout)]
    /\ partial \in {None} \cup 0..FrameIdleTimeout
    /\ wire \in [Ends -> Seq(Cell)]
    /\ \A e \in Ends : Len(wire[e]) <= WireCells + MaxFaults
    /\ sealed \in [Ends -> Seq([seq : 0..MaxSeq, size : 1..MaxBody])]
    /\ delivered \in [Ends -> Nat]
    /\ garbled \in 0..(MaxBody + 1)
    /\ faults \in 0..MaxFaults
    /\ refused \subseteq Ends /\ failed \subseteq Ends
    /\ age \in [Ends -> Nat]

-----------------------------------------------------------------------------
(* Frames *)

Frame(n, size) ==
    [i \in 1..(PrefixCells + size) |-> [frame |-> n, at |-> i, whole |-> TRUE]]
BodyOf(n, size) == SubSeq(Frame(n, size), PrefixCells + 1, PrefixCells + size)

\* The size of frame n of an end; the handshake messages have one size.
SizeOf(e, n) == IF n = Hello THEN 1 ELSE sealed[e][n].size

\* The four length bytes of the frame at the head of cells from e.
Intact(cells) ==
    /\ \A i \in 1..PrefixCells : cells[i].whole /\ cells[i].at = i
    /\ cells[1].frame = cells[2].frame
LengthOf(e, cells) ==
    IF Intact(cells) THEN SizeOf(e, cells[1].frame) ELSE garbled
HasLength(cells) == Len(cells) >= PrefixCells
BadLength(e, cells) ==
    HasLength(cells) /\ (LengthOf(e, cells) = 0 \/ LengthOf(e, cells) > MaxBody)
Complete(e, cells) ==
    /\ HasLength(cells) /\ ~BadLength(e, cells)
    /\ Len(cells) >= PrefixCells + LengthOf(e, cells)
BodyIn(e, cells) ==
    SubSeq(cells, PrefixCells + 1, PrefixCells + LengthOf(e, cells))
\* read_buffer.drain(..total)
Rest(e, cells) == SubSeq(cells, PrefixCells + LengthOf(e, cells) + 1, Len(cells))

\* TransportState::read_message: the body is frame n of e, untouched.
Opens(e, n, body) == n <= Len(sealed[e]) /\ body = BodyOf(n, SizeOf(e, n))

-----------------------------------------------------------------------------
FrameInit ==
    /\ pc = [e \in Ends |-> IF e = "client" THEN "hello_out" ELSE "hello_in"]
    /\ conn = [e \in Ends |-> [sendSeq |-> 0, recvSeq |-> 0, closed |-> FALSE]]
    /\ buffer = [e \in Ends |-> <<>>]
    /\ out = [e \in Ends |-> IF e = "client" THEN Frame(Hello, 1) ELSE <<>>]
    /\ timer = [e \in Ends |-> HandshakeTimeout]
    /\ partial = None
    /\ wire = [e \in Ends |-> <<>>]
    /\ sealed = [e \in Ends |-> <<>>]
    /\ delivered = [e \in Ends |-> 0]
    /\ garbled \in 0..(MaxBody + 1)
    /\ faults = 0 /\ refused = {} /\ failed = {}
    /\ age = [e \in Ends |-> 0]

\* Waiting with a deadline: in the handshake, or inside write_all_deadline.
Blocked(e) == pc[e] \in {"hello_out", "hello_in", "writing"}
Due(e) == Blocked(e) /\ timer[e] = 0

\* The thread returns and the stream is dropped.
Leave(e) == pc' = [pc EXCEPT ![e] = "gone"]
Close(e) == conn' = [conn EXCEPT ![e].closed = TRUE]

-----------------------------------------------------------------------------
(* write_all_deadline *)

\* Prefix and body, and both halves of a handshake, share one deadline.
TimerAfterWrite(e) == timer

\* stream.write takes some of the cells; at the last one the write is done.
WriteDone(e) ==
    \/ /\ pc[e] = "writing"
       /\ pc' = [pc EXCEPT ![e] = "open"]
       /\ conn' = [conn EXCEPT ![e].sendSeq = @ + 1]
    \/ /\ pc[e] = "hello_out" /\ e = "client"
       /\ pc' = [pc EXCEPT ![e] = "hello_in"]
       /\ UNCHANGED conn
    \/ /\ pc[e] = "hello_out" /\ e = "server"
       /\ pc' = [pc EXCEPT ![e] = "open"]
       /\ UNCHANGED conn

Write(e) ==
    /\ pc[e] \in {"hello_out", "writing"} /\ ~Due(e)
    /\ pc[Other(e)] # "gone"
    /\ \E k \in 1..Len(out[e]) :
        /\ Len(wire[e]) + k <= WireCells
        /\ wire' = [wire EXCEPT ![e] = @ \o SubSeq(out[e], 1, k)]
        /\ out' = [out EXCEPT ![e] = SubSeq(@, k + 1, Len(@))]
        /\ timer' = TimerAfterWrite(e)
        /\ IF k = Len(out[e]) THEN WriteDone(e) ELSE UNCHANGED <<pc, conn>>
    /\ UNCHANGED <<buffer, partial, sealed, delivered, garbled, history, age>>

\* Mutant: a failed write leaves the connection open.
AfterFailedWrite_Open(e) ==
    /\ pc' = [pc EXCEPT ![e] = "open"]
    /\ UNCHANGED conn

\* The Noise nonce is consumed: send_payload closes the connection.
AfterFailedWrite(e) ==
    /\ pc' = [pc EXCEPT ![e] = "open"]
    /\ Close(e)

\* The deadline has passed, or the peer is gone.
WriteFails(e) ==
    /\ pc[e] \in {"hello_out", "writing"}
    /\ Due(e) \/ pc[Other(e)] = "gone"
    /\ failed' = failed \cup {e}
    /\ out' = [out EXCEPT ![e] = <<>>]
    /\ IF pc[e] = "writing" THEN AfterFailedWrite(e) ELSE Leave(e) /\ UNCHANGED conn
    /\ UNCHANGED <<buffer, timer, partial, wire, sealed, delivered, garbled,
                   faults, refused, age>>

-----------------------------------------------------------------------------
(* read_handshake: read_exact_deadline takes the cells of one message. *)

ReadHello(e) ==
    LET from == Other(e) IN
    /\ pc[e] = "hello_in" /\ ~Due(e) /\ wire[from] # <<>>
    /\ LET cells == Append(buffer[e], Head(wire[from])) IN
        /\ wire' = [wire EXCEPT ![from] = Tail(@)]
        /\ \/ /\ ~BadLength(from, cells) /\ ~Complete(from, cells)
              /\ buffer' = [buffer EXCEPT ![e] = cells]
              /\ UNCHANGED <<pc, out, refused>>
           \/ /\ Complete(from, cells)
              /\ Opens(from, Hello, BodyIn(from, cells))
              /\ buffer' = [buffer EXCEPT ![e] = <<>>]
              /\ IF e = "server"
                 THEN /\ pc' = [pc EXCEPT ![e] = "hello_out"]
                      /\ out' = [out EXCEPT ![e] = Frame(Hello, 1)]
                 ELSE /\ pc' = [pc EXCEPT ![e] = "open"]
                      /\ UNCHANGED out
              /\ UNCHANGED refused
           \/ /\ Complete(from, cells)   \* its time stamp, key or nonce is refused
              /\ Leave(e)
              /\ UNCHANGED <<buffer, out, refused>>
           \/ /\ \/ BadLength(from, cells)
                 \/ /\ Complete(from, cells)
                    /\ ~Opens(from, Hello, BodyIn(from, cells))
              /\ refused' = refused \cup {e}
              /\ Leave(e)
              /\ UNCHANGED <<buffer, out>>
    /\ UNCHANGED <<conn, timer, partial, sealed, delivered, garbled, faults, failed, age>>

\* The message does not come in time, or the peer is gone.
HelloFails(e) ==
    /\ pc[e] = "hello_in"
    /\ \/ Due(e)
       \/ pc[Other(e)] = "gone" /\ wire[Other(e)] = <<>>
    /\ Leave(e)
    /\ UNCHANGED <<conn, buffer, out, timer, partial, wire, sealed, delivered,
                   garbled, history, age>>

-----------------------------------------------------------------------------
(* SecureConnection *)

\* send_payload: the record is encrypted and its write begins.
SendPayload(e) ==
    /\ pc[e] = "open" /\ ~conn[e].closed
    /\ Len(sealed[e]) < Sends[e]
    /\ conn[e].sendSeq < MaxSeq
    /\ \E s \in Sizes :
        /\ sealed' = [sealed EXCEPT ![e] = Append(@, [seq |-> conn[e].sendSeq, size |-> s])]
        /\ out' = [out EXCEPT ![e] = Frame(Len(sealed[e]) + 1, s)]
    /\ pc' = [pc EXCEPT ![e] = "writing"]
    /\ timer' = [timer EXCEPT ![e] = WriteTimeout]
    /\ age' = [age EXCEPT ![e] = 0]
    /\ UNCHANGED <<conn, buffer, partial, wire, delivered, garbled, history>>

\* The sequence numbers are used up: checked_add is None.
SendExhausted(e) ==
    /\ pc[e] = "open" /\ ~conn[e].closed
    /\ conn[e].sendSeq = MaxSeq
    /\ Close(e)
    /\ UNCHANGED <<pc, buffer, out, timer, partial, wire, sealed, delivered,
                   garbled, history, age>>

\* What poll_payload may still read: one frame of the largest size.
BufferRoom(e) == PrefixCells + MaxBody - Len(buffer[e])

\* The cells that one poll may leave in the buffer.  Nothing is read once the
\* first frame is complete.
Polled(e) ==
    LET from == Other(e) IN
    IF BadLength(from, buffer[e]) \/ Complete(from, buffer[e])
    THEN {0}
    ELSE {k \in 0..Len(wire[from]) : k <= BufferRoom(e)}

\* A bad length, a body that does not open or the wrong sequence number
\* closes the connection.
OnRefusal(e, cells) ==
    /\ buffer' = [buffer EXCEPT ![e] = cells]
    /\ Close(e)

\* The record at the head opens and is the next one of this session.
Accepts(e, cells) ==
    LET from == Other(e)
        n == delivered[e] + 1 IN
    /\ Opens(from, n, BodyIn(from, cells))
    /\ sealed[from][n].seq = conn[e].recvSeq

\* Mutant: the deadline of a partial frame is counted from the last poll.
PartialNow_LastPoll(cells) == IF cells = <<>> THEN None ELSE 0

\* partial_frame_started: set at the first poll that leaves a partial frame.
PartialNow(cells) ==
    IF cells = <<>> THEN None ELSE IF partial = None THEN 0 ELSE partial

\* poll_payload and what the caller makes of its answer.
PollPayload(e) ==
    LET from == Other(e) IN
    /\ pc[e] = "open" /\ ~conn[e].closed
    /\ \E k \in Polled(e) :
        LET cells == buffer[e] \o SubSeq(wire[from], 1, k) IN
        /\ wire' = [wire EXCEPT ![from] = SubSeq(@, k + 1, Len(@))]
        /\ \* Ok(None)
           \/ /\ ~BadLength(from, cells) /\ ~Complete(from, cells)
              /\ BufferRoom(e) > k
              /\ buffer' = [buffer EXCEPT ![e] = cells]
              /\ IF e = "server"
                 THEN /\ partial' = PartialNow(cells)
                      /\ IF partial' = FrameIdleTimeout THEN Leave(e) ELSE UNCHANGED pc
                 ELSE UNCHANGED <<pc, partial>>
              /\ UNCHANGED <<conn, delivered, refused>>
           \* Ok(Some(payload))
           \/ /\ Complete(from, cells) /\ Accepts(e, cells)
              /\ buffer' = [buffer EXCEPT ![e] = Rest(from, cells)]
              /\ conn' = [conn EXCEPT ![e].recvSeq = @ + 1]
              /\ delivered' = [delivered EXCEPT ![e] = @ + 1]
              /\ partial' = IF e = "server" THEN None ELSE partial
              /\ UNCHANGED <<pc, refused>>
           \* Err: refused.
           \/ /\ \/ BadLength(from, cells)
                 \/ Complete(from, cells) /\ ~Accepts(e, cells)
                 \/ ~Complete(from, cells) /\ BufferRoom(e) <= k
              /\ OnRefusal(e, cells)
              /\ refused' = refused \cup {e}
              /\ UNCHANGED <<pc, delivered, partial>>
    /\ UNCHANGED <<out, timer, sealed, garbled, faults, failed, age>>

\* The peer has gone and everything it sent is read; or its stream was reset.
PollEnds(e) ==
    /\ pc[e] = "open" /\ ~conn[e].closed
    /\ pc[Other(e)] = "gone"
    /\ ~Complete(Other(e), buffer[e])
    /\ wire[Other(e)] = <<>> \/ wire[e] # <<>>
    /\ Close(e)
    /\ UNCHANGED <<pc, buffer, out, timer, partial, wire, sealed, delivered,
                   garbled, history, age>>

\* The caller sees the error, or ends the session by itself, and drops the
\* connection.
DropConnection(e) ==
    /\ pc[e] = "open"
    /\ Leave(e)
    /\ UNCHANGED <<conn, buffer, out, timer, partial, wire, sealed, delivered,
                   garbled, history, age>>

-----------------------------------------------------------------------------
(* The environment *)

TimePasses ==
    /\ \A e \in Ends : ~Due(e)
    /\ \E e \in Ends : pc[e] # "gone"
    /\ timer' = [e \in Ends |-> IF Blocked(e) THEN timer[e] - 1 ELSE 0]
    /\ age' = [e \in Ends |-> IF Blocked(e) THEN age[e] + 1 ELSE 0]
    /\ partial' = IF partial \in 0..(FrameIdleTimeout - 1) THEN partial + 1 ELSE partial
    /\ UNCHANGED <<pc, conn, buffer, out, wire, sealed, delivered, garbled, history>>

\* The path loses, repeats or damages a cell.
Fault(e) ==
    /\ faults < MaxFaults
    /\ faults' = faults + 1
    /\ \E i \in 1..Len(wire[e]) :
        \/ wire' = [wire EXCEPT ![e] = SubSeq(@, 1, i - 1) \o SubSeq(@, i + 1, Len(@))]
        \/ wire' = [wire EXCEPT ![e][i].whole = FALSE]
        \/ \E j \in i..Len(wire[e]) :
            /\ Len(wire[e]) + j - i < WireCells + MaxFaults
            /\ wire' = [wire EXCEPT ![e] = SubSeq(@, 1, j) \o SubSeq(@, i, Len(@))]
    /\ UNCHANGED <<pc, conn, buffer, out, timer, partial, sealed, delivered,
                   garbled, refused, failed, age>>

FrameNext ==
    \/ \E e \in Ends :
        \/ Write(e) \/ WriteFails(e) \/ ReadHello(e) \/ HelloFails(e)
        \/ SendPayload(e) \/ SendExhausted(e) \/ PollPayload(e) \/ PollEnds(e)
        \/ DropConnection(e) \/ Fault(e)
    \/ TimePasses

FrameSpec == FrameInit /\ [][FrameNext]_frameVars

\* The server's thread runs and time passes; the client may do nothing at all.
FrameFairSpec ==
    /\ FrameSpec
    /\ WF_frameVars(TimePasses)
    /\ \A e \in Ends : WF_frameVars(WriteFails(e))
    /\ WF_frameVars(HelloFails("server")) /\ WF_frameVars(PollPayload("server"))
    /\ WF_frameVars(PollEnds("server"))
    /\ WF_frameVars(conn["server"].closed /\ DropConnection("server"))

-----------------------------------------------------------------------------
(* Properties *)

\* While the path is faithful no end refuses what it reads, however the frames
\* are split, joined or cut short by a failed write (send_payload's closing
\* after a failed write, poll_payload's framing and limits).
HonestNeverRefused == faults = 0 => refused = {}

\* What failed is not used again: after a failed write no record is encrypted
\* with the same Noise state, and after a refusal no payload is delivered.
NothingAfterFailure ==
    \A e \in Ends :
        /\ e \in failed => sealed'[e] = sealed[e]
        /\ e \in refused => delivered'[e] = delivered[e]

\* A peer that reads or sends one cell at a time holds a thread no longer than
\* the one deadline of the handshake or of the record.
BlockedBounded ==
    \A e \in Ends : Blocked(e) =>
        age[e] <= IF pc[e] = "writing" THEN WriteTimeout ELSE HandshakeTimeout

\* An honest connection holds, and a failed one is dead: while the path is
\* faithful no end refuses what it reads, however records are split, joined or
\* cut short by a failed write; no peer blocks a thread past the one deadline of
\* its record or handshake; and after a failed write no record is encrypted with
\* the same Noise state, after a refusal no payload is delivered (send_payload,
\* poll_payload).
ConnectionSound ==
    /\ [](FrameTypeOK /\ HonestNeverRefused /\ BlockedBounded)
    /\ [][NothingAfterFailure]_frameVars

\* A client that starts a frame and drips it, or stops, does not keep the
\* server's connection thread: every frame begun is completed or the
\* connection ends.
DrippingPeerDropped ==
    \A n \in 0..Sends["client"] :
        (pc["server"] = "open" /\ delivered["server"] = n /\ buffer["server"] # <<>>)
            ~> (pc["server"] = "gone" \/ delivered["server"] > n)

-----------------------------------------------------------------------------
(* The inductive strengthening *)

Cells(e) == [frame : 0..Len(sealed[e]), at : Nat, whole : BOOLEAN]

\* Every cell is of a frame that its end has written.
CellsKnown ==
    \A e \in Ends :
        /\ wire[e] \in Seq(Cells(e)) /\ out[e] \in Seq(Cells(e))
        /\ buffer[Other(e)] \in Seq(Cells(e))

\* What an end has done by the time it is at a place, and what failed is over.
Progress(e) ==
    /\ pc[e] \notin {"hello_out", "writing"} => out[e] = <<>>
    /\ pc[e] \in {"hello_in", "hello_out"} => sealed[e] = <<>> /\ delivered[e] = 0
    /\ pc[e] = "hello_out" => buffer[e] = <<>>
    /\ pc[e] \in {"hello_in", "hello_out", "writing"} => ~conn[e].closed
    /\ pc[e] = "writing" => sealed[e] # <<>>
    /\ e \in failed \cup refused => pc[e] = "gone" \/ (pc[e] = "open" /\ conn[e].closed)

\* One deadline: the time a write or handshake has taken and what is left.
OneDeadline(e) ==
    Blocked(e) => age[e] + timer[e] = IF pc[e] = "writing" THEN WriteTimeout
                                      ELSE HandshakeTimeout

\* Sequence numbers count the records encrypted and delivered.
InSequence(e) ==
    /\ \A n \in 1..Len(sealed[e]) : sealed[e][n].seq = n - 1 /\ n <= MaxSeq
    /\ conn[e].recvSeq = delivered[e]
    /\ pc[e] # "gone" /\ ~conn[e].closed =>
          conn[e].sendSeq = IF pc[e] = "writing" THEN Len(sealed[e]) - 1
                            ELSE Len(sealed[e])

\* Cells hold the frames from n to m of these sizes, in order, each begun at
\* start[k] and the last perhaps cut short.
Chain(sizes, cells, start, n, m) ==
    /\ start[n] = 1
    /\ \A k \in n..m : start[k + 1] = start[k] + PrefixCells + sizes[k]
    /\ \A k \in n..m, j \in n..(m + 1) : k < j => start[k + 1] <= start[j]
    /\ Len(cells) < start[m + 1]
    /\ \A k \in n..m : \A i \in 1..(PrefixCells + sizes[k]) :
          start[k] + i - 1 <= Len(cells) =>
              cells[start[k] + i - 1] = [frame |-> k, at |-> i, whole |-> TRUE]
Ordered(sizes, cells, n, m, whole) ==
    /\ n <= m + 1
    /\ \E start \in [n..(m + 1) -> Nat] :
          /\ Chain(sizes, cells, start, n, m)
          /\ whole => Len(cells) + 1 = start[m + 1]

\* The cells of an end that its peer has not taken out of its buffer; the frame
\* that the peer takes next, and the last one of the end.
Stream(e) == (buffer[Other(e)] \o wire[e]) \o out[e]
Greeted(e) == pc[e] # "hello_in" /\ (e = "client" => pc[e] # "hello_out")
FirstFrame(e) == IF Greeted(Other(e)) THEN delivered[Other(e)] + 1 ELSE Hello
LastFrame(e) == IF e = "server" /\ pc[e] = "hello_in" THEN -1 ELSE Len(sealed[e])
SizesOf(e) == [k \in 0..Len(sealed[e]) |-> SizeOf(e, k)]

\* While the path is faithful, an end that still reads will find the frames of
\* the other, the next one at the head.
Reads(e) == pc[e] # "gone" /\ ~conn[e].closed
InOrder(e) ==
    faults = 0 /\ Reads(Other(e)) =>
        /\ pc[Other(e)] = "hello_in" => Len(buffer[Other(e)]) <= PrefixCells
        /\ Ordered(SizesOf(e), Stream(e), FirstFrame(e), LastFrame(e),
                   pc[e] # "gone" /\ e \notin failed)

EachEnd ==
    /\ FrameTypeOK /\ CellsKnown
    /\ \A e \in Ends : Progress(e) /\ OneDeadline(e) /\ InSequence(e)
FrameInv == EachEnd /\ HonestNeverRefused /\ \A e \in Ends : InOrder(e)
=============================================================================
