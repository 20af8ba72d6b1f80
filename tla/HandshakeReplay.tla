-------------------------- MODULE HandshakeReplay --------------------------
(***************************************************************************)
(* The replay cache of the handshake (security.rs: ReplayCache,            *)
(* validate_client_hello, server_handshake; server.rs: the key             *)
(* confirmation in handle_connection).                                     *)
(*                                                                         *)
(* A client's first message carries a nonce and a time stamp.  The network *)
(* may deliver it late and more than once.  A connection thread checks the *)
(* stamp, reserves the nonce under the cache's mutex, answers, and         *)
(* confirms the nonce when the first valid request arrives, which only the *)
(* client's own connection can produce.  A reservation is short (an        *)
(* unconfirmed nonce must not lock the client out), a confirmed nonce has  *)
(* to be remembered as long as its stamp could still be accepted.          *)
(*                                                                         *)
(* One clock stands for the monotonic and the wall clock of the server.    *)
(***************************************************************************)
EXTENDS Integers, FiniteSets

CONSTANTS
    Threads,             \* connection threads
    Clients,             \* client static keys
    Hellos,              \* first messages, one nonce each
    OwnerOf,             \* the client that made a hello
    Skew,                \* clamp_clock_skew of the configured skew
    PendingReplayTTL,    \* PENDING_REPLAY_TTL
    ReplayTTL,           \* REPLAY_TTL
    KeyConfirmTimeout,   \* KEY_CONFIRM_TIMEOUT
    HoldLimit,           \* longest time from a clock reading to its use
    MaxEntries,          \* MAX_REPLAY_ENTRIES
    MaxEntriesPerClient, \* MAX_REPLAY_ENTRIES_PER_CLIENT
    MaxPendingPerClient, \* MAX_PENDING_REPLAYS_PER_CLIENT
    MaxTime,             \* bound on the clock
    NoHello

ASSUME ReplayTimes ==
    /\ Skew \in Nat /\ PendingReplayTTL \in Nat /\ ReplayTTL \in Nat
    /\ KeyConfirmTimeout \in Nat /\ HoldLimit \in Nat /\ MaxTime \in Nat
    /\ ReplayTTL > 2 * Skew + HoldLimit

ASSUME ReplaySets ==
    /\ OwnerOf \in [Hellos -> Clients]
    /\ NoHello \notin Hellos

ASSUME ReplayLimits ==
    MaxEntries \in Nat /\ MaxEntriesPerClient \in Nat /\ MaxPendingPerClient \in Nat

VARIABLES
    clock,      \* the server's clock
    stamp,      \* issued_at_ms of the hellos sent so far
    sent,       \* the hellos sent so far
    entries,    \* ReplayCache.entries: nonce -> ReplayEntry
    thread,     \* the connection threads
    confirmed   \* history: the hellos whose session was confirmed

vars == <<clock, stamp, sent, entries, thread, confirmed>>

ReplayEntry == [expires : Int, confirmed : BOOLEAN]

\* own: the thread serves the connection of the hello's own client.
Thread == [pc : {"free", "validated", "reserved", "open", "confirming"},
           hello : Hellos \cup {NoHello}, own : BOOLEAN, at : Int]
FreeThread == [pc |-> "free", hello |-> NoHello, own |-> FALSE, at |-> 0]

\* The cache and the threads keep their types; every nonce belongs to a hello
\* that was sent.
TypeOK ==
    /\ clock \in Nat
    /\ stamp \in [Hellos -> Int]
    /\ sent \subseteq Hellos
    /\ DOMAIN entries \subseteq Hellos
    /\ \A h \in DOMAIN entries : entries[h] \in ReplayEntry
    /\ thread \in [Threads -> Thread]
    /\ \A x \in Threads : thread[x].pc # "free" => thread[x].hello \in sent
    /\ confirmed \subseteq Hellos

Init ==
    /\ clock = 0
    /\ stamp = [h \in Hellos |-> 0]
    /\ sent = {}
    /\ entries = [h \in {} |-> 0]
    /\ thread = [x \in Threads |-> FreeThread]
    /\ confirmed = {}

-----------------------------------------------------------------------------
(* ReplayCache *)

Live(t) == {h \in DOMAIN entries : entries[h].expires > t}
Of(hs, c) == {h \in hs : OwnerOf[h] = c}
Unconfirmed(hs) == {h \in hs : ~entries[h].confirmed}

\* Mutant: unconfirmed nonces are not limited.
MayReserve_NoPendingCap(h, t) ==
    /\ h \notin Live(t)
    /\ Cardinality(Of(Live(t), OwnerOf[h])) < MaxEntriesPerClient
    /\ Cardinality(Live(t)) < MaxEntries

\* reserve: refused if the nonce is known, or the client or the cache is full;
\* a live entry is never evicted.
MayReserve(h, t) ==
    /\ h \notin Live(t)
    /\ Cardinality(Of(Live(t), OwnerOf[h])) < MaxEntriesPerClient
    /\ Cardinality(Unconfirmed(Of(Live(t), OwnerOf[h]))) < MaxPendingPerClient
    /\ Cardinality(Live(t)) < MaxEntries

Pending(t) == [expires |-> t + PendingReplayTTL, confirmed |-> FALSE]
\* Mutant: a confirmed nonce keeps the lifetime of a reservation.
Confirmed_Short(t) == [expires |-> t + PendingReplayTTL, confirmed |-> TRUE]

Confirmed(t) == [expires |-> t + ReplayTTL, confirmed |-> TRUE]

\* Prune at t, then insert or overwrite one entry, or none.
Pruned(t) == [h \in Live(t) |-> entries[h]]
With(t, g, e) == [h \in Live(t) \cup {g} |-> IF h = g THEN e ELSE entries[h]]

-----------------------------------------------------------------------------
\* A client makes a hello, by a clock that may be off by a little more than
\* the accepted skew.
SendHello(h) ==
    /\ h \notin sent
    /\ sent' = sent \cup {h}
    /\ \E i \in (clock - Skew - 1)..(clock + Skew + 1) : stamp' = [stamp EXCEPT ![h] = i]
    /\ UNCHANGED <<clock, entries, thread, confirmed>>

\* A thread receives the hello, of its client or a copy, and validates it.
Fresh(h) == stamp[h] - Skew <= clock /\ clock <= stamp[h] + Skew
Validate(x) ==
    /\ thread[x].pc = "free"
    /\ \E h \in sent, own \in BOOLEAN :
        /\ Fresh(h)
        /\ thread' = [thread EXCEPT ![x] =
                [pc |-> "validated", hello |-> h, own |-> own, at |-> clock]]
    /\ UNCHANGED <<clock, stamp, sent, entries, confirmed>>

\* ReplayCache::reserve, with an instant read before the mutex is taken.
Reserve(x) ==
    /\ thread[x].pc = "validated"
    /\ \E t \in thread[x].at..clock :
        LET h == thread[x].hello IN
        \/ /\ MayReserve(h, t)
           /\ entries' = With(t, h, Pending(t))
           /\ thread' = [thread EXCEPT ![x] = [@ EXCEPT !.pc = "reserved"]]
        \/ /\ ~MayReserve(h, t)
           /\ entries' = Pruned(t)
           /\ thread' = [thread EXCEPT ![x] = FreeThread]
    /\ UNCHANGED <<clock, stamp, sent, confirmed>>

\* The reply is written (or not) and the session starts.
Reply(x) ==
    /\ thread[x].pc = "reserved"
    /\ \/ thread' = [thread EXCEPT ![x] = [@ EXCEPT !.pc = "open", !.at = clock]]
       \/ thread' = [thread EXCEPT ![x] = FreeThread]
    /\ UNCHANGED <<clock, stamp, sent, entries, confirmed>>

\* The first request decrypts: only on the client's own connection, and only
\* if the loop saw the session younger than the confirmation timeout.
FirstRequest(x) ==
    /\ thread[x].pc = "open" /\ thread[x].own
    /\ clock < thread[x].at + KeyConfirmTimeout
    /\ thread' = [thread EXCEPT ![x] = [@ EXCEPT !.pc = "confirming", !.at = clock]]
    /\ UNCHANGED <<clock, stamp, sent, entries, confirmed>>

\* ReplayCache::confirm: the entry, whoever reserved it, becomes a long one; if
\* it is gone the session ends.
Confirm(x) ==
    /\ thread[x].pc = "confirming"
    /\ \E t \in thread[x].at..clock :
        LET h == thread[x].hello IN
        \/ /\ h \in Live(t)
           /\ entries' = With(t, h, Confirmed(t))
           /\ confirmed' = confirmed \cup {h}
        \/ /\ h \notin Live(t)
           /\ entries' = Pruned(t)
           /\ UNCHANGED confirmed
    /\ thread' = [thread EXCEPT ![x] = FreeThread]
    /\ UNCHANGED <<clock, stamp, sent>>

\* The session ends unconfirmed: a timeout, the transport or the server.
GiveUp(x) ==
    /\ thread[x].pc = "open"
    /\ thread' = [thread EXCEPT ![x] = FreeThread]
    /\ UNCHANGED <<clock, stamp, sent, entries, confirmed>>

\* Time passes; HoldLimit bounds how long a clock reading is in use.
Tick ==
    /\ clock < MaxTime
    /\ \A x \in Threads :
          thread[x].pc \in {"validated", "confirming"} =>
              clock < thread[x].at + HoldLimit
    /\ clock' = clock + 1
    /\ UNCHANGED <<stamp, sent, entries, thread, confirmed>>

ThreadStep(x) ==
    \/ Validate(x) \/ Reserve(x) \/ Reply(x) \/ FirstRequest(x) \/ Confirm(x)
    \/ GiveUp(x)

Next ==
    \/ \E h \in Hellos : SendHello(h)
    \/ \E x \in Threads : ThreadStep(x)
    \/ Tick

Spec == Init /\ [][Next]_vars

-----------------------------------------------------------------------------
(* Properties *)

\* After a session was confirmed, its first message never gets a reservation
\* again, however often and late it is delivered, and even by a thread that
\* validated the stamp earlier: the cache forgets a confirmed nonce only when
\* no validated copy can be left ("it never evicts a live nonce").
NoReplayAfterConfirm ==
    [][\A x \in Threads :
          (thread[x].pc = "validated" /\ thread'[x].pc = "reserved") =>
              thread[x].hello \notin confirmed]_vars

\* The cache stays within its limits, in all and per client, and a client has
\* few unconfirmed nonces at a time; confirmations do not count against them.
CacheBounded ==
    /\ Cardinality(DOMAIN entries) <= MaxEntries
    /\ \A c \in Clients :
        /\ Cardinality(Of(DOMAIN entries, c)) <= MaxEntriesPerClient
        /\ Cardinality(Unconfirmed(Of(DOMAIN entries, c))) <= MaxPendingPerClient

\* The replay cache stays within its limits, in all and per client, whichever
\* thread reserves or confirms and whatever instant it read (ReplayCache::reserve,
\* confirm); records and threads name hellos that were sent.
CacheWithinLimits == TypeOK /\ CacheBounded

\* The inductive strengthening of NoReplayAfterConfirm.  A confirmed nonce is
\* in the cache for as long as a copy of its hello can be validated or waits,
\* validated, for the mutex.
Horizon(h) == stamp[h] + Skew + HoldLimit
ConfirmedRemembered ==
    \A h \in confirmed :
        /\ h \in sent
        /\ clock <= Horizon(h) =>
              h \in DOMAIN entries /\ entries[h].expires > Horizon(h)
\* A thread acts on readings of the clock that are neither too old nor, if it
\* came past the validation, before its hello's earliest acceptance.
TimelyThreads ==
    \A x \in Threads :
        /\ thread[x].pc # "free" =>
              stamp[thread[x].hello] - Skew <= thread[x].at /\ thread[x].at <= clock
        /\ thread[x].pc = "validated" =>
              /\ thread[x].at <= stamp[thread[x].hello] + Skew
              /\ clock <= thread[x].at + HoldLimit
ReplayInv == ConfirmedRemembered /\ TimelyThreads

=============================================================================
