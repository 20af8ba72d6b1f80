----------------------------- MODULE Admission -----------------------------
(***************************************************************************)
(* Admission control of the server (server.rs: ConnectionLimiter,          *)
(* KeyedConnectionLimiter, their permits, the accept loop, handle_connection *)
(* and spawn_probe).                                                       *)
(*                                                                         *)
(* The accept thread takes four permits for a peer, one after the other,   *)
(* and gives them to a connection thread; that thread drops the two        *)
(* handshake permits, takes one for its client, and spawns probe threads   *)
(* that hold a slot of a shared pool each.  Permits are returned by Drop,  *)
(* one at a time and by whichever thread happens to own them.              *)
(***************************************************************************)
EXTENDS Naturals, Sequences, FiniteSets

CONSTANTS
    Conns,       \* accepted sockets; an identity is used again after its end
    Ips,         \* normalised peer addresses
    Clients,     \* client static keys
    Limit,       \* permit kind -> its maximum
    ProbeLimit,  \* MAX_CONCURRENT_PROBES
    ProbesPerConn, \* status jobs and monitors of one connection
    NoIp, NoClient

Permits == {"connection", "ip", "pending", "handshake", "client"}

ASSUME LimitsAssumption ==
    /\ Limit \in [Permits -> Nat \ {0}]
    /\ ProbeLimit \in Nat
    /\ ProbesPerConn \in Nat
    /\ IsFiniteSet(Conns)

\* The compile-time assertion on the handshake limits, and the same for the
\* connections of one address.
ASSUME HandshakeAssumption ==
    /\ Limit["pending"] < Limit["handshake"]
    /\ Limit["ip"] < Limit["handshake"]

VARIABLES
    conn,      \* the connections and their threads
    count,     \* the limiters' counters, per permit kind and key
    slots,     \* ConnectionLimiter.current of the probe pool
    stopping,  \* the shutdown flag
    acceptor   \* the accept thread: its place in the loop

vars == <<conn, count, slots, stopping, acceptor>>

Conn == [pc : {"none", "arriving", "refused", "unspawned", "shaking",
               "failed", "shaken", "open", "serving", "cas", "closing", "ended"},
         ip : Ips \cup {NoIp}, client : Clients \cup {NoClient},
         held : SUBSET Permits, seen : Nat, probes : 0..ProbesPerConn]

NoConn == [pc |-> "none", ip |-> NoIp, client |-> NoClient, held |-> {},
           seen |-> 0, probes |-> 0]

\* The counter a permit belongs to: one for all, one per address, one per
\* client.
Key(c, p) ==
    CASE p \in {"connection", "handshake"} -> NoIp
      [] p \in {"ip", "pending"}           -> conn[c].ip
      [] p = "client"                      -> conn[c].client
Keys(p) ==
    CASE p \in {"connection", "handshake"} -> {NoIp}
      [] p \in {"ip", "pending"}           -> Ips
      [] p = "client"                      -> Clients
Counters == UNION {{p} \X Keys(p) : p \in Permits}

\* The permits, counters and threads keep their types.
TypeOK ==
    /\ conn \in [Conns -> Conn]
    /\ count \in [Counters -> Nat]
    /\ slots \in Nat
    /\ stopping \in BOOLEAN
    /\ acceptor \in {"top", "poll", "busy", "left"}

Init ==
    /\ conn = [c \in Conns |-> NoConn]
    /\ count = [k \in Counters |-> 0]
    /\ slots = 0
    /\ stopping = FALSE
    /\ acceptor = "top"

-----------------------------------------------------------------------------
(* Permits *)

Free_AnyAddress(c, p) == p = "ip" \/ count[<<p, Key(c, p)>>] < Limit[p]

\* KeyedConnectionLimiter::acquire, and ConnectionLimiter::acquire where the
\* accept thread is the only one that increments (its compare-exchange loop
\* takes effect at the exchange that succeeds).
Free(c, p) == count[<<p, Key(c, p)>>] < Limit[p]
Take(c, p, pc) ==
    /\ conn' = [conn EXCEPT ![c].held = @ \cup {p}, ![c].pc = pc]
    /\ count' = [count EXCEPT ![<<p, Key(c, p)>>] = @ + 1]

\* Drop of a permit: release never goes below zero.
Decremented(n) == IF n > 0 THEN n - 1 ELSE 0
Release(c, p) ==
    /\ conn' = [conn EXCEPT ![c].held = @ \ {p}]
    /\ count' = [count EXCEPT ![<<p, Key(c, p)>>] = Decremented(@)]

\* The first permit of an order that a connection has not got, or has got.
Missing(c, order, i) ==
    /\ order[i] \notin conn[c].held
    /\ \A j \in 1..(i - 1) : order[j] \in conn[c].held
First(c, order, i) ==
    /\ order[i] \in conn[c].held
    /\ \A j \in 1..(i - 1) : order[j] \notin conn[c].held

AcceptOrder == <<"connection", "ip", "pending", "handshake">>

\* Locals are dropped in reverse order of declaration, and so are the
\* parameters of handle_connection when the handshake fails; the explicit drops
\* after a handshake go the other way round.
DropOrder ==
    [refused |-> <<"handshake", "pending", "ip", "connection">>,
     failed  |-> <<"pending", "handshake", "ip", "connection">>,
     shaken  |-> <<"handshake", "pending">>,
     ended   |-> <<"client", "ip", "connection">>]

-----------------------------------------------------------------------------
(* The accept thread handles one peer at a time. *)

\* The top of the loop: the flag ends it.  The thread may have passed this
\* test when the flag is set, and take in one more peer.
Top ==
    /\ acceptor = "top"
    /\ acceptor' = IF stopping THEN "left" ELSE "poll"
    /\ UNCHANGED <<conn, count, slots, stopping>>

\* Nobody is waiting, or the rate limiter refuses; or a listener fails, which
\* sets the flag for all threads.
NoPeer ==
    /\ acceptor = "poll"
    /\ \/ acceptor' = "top" /\ UNCHANGED stopping
       \/ acceptor' = "left" /\ stopping' = TRUE
    /\ UNCHANGED <<conn, count, slots>>

\* accept returns a peer that the rate limiter lets pass.
Accept(c) ==
    /\ acceptor = "poll"
    /\ conn[c].pc = "none"
    /\ acceptor' = "busy"
    /\ \E ip \in Ips :
          conn' = [conn EXCEPT ![c] = [NoConn EXCEPT !.pc = "arriving", !.ip = ip]]
    /\ UNCHANGED <<count, slots, stopping>>

AcquireNext(c) ==
    /\ conn[c].pc = "arriving"
    /\ \E i \in DOMAIN AcceptOrder :
        /\ Missing(c, AcceptOrder, i)
        /\ IF Free(c, AcceptOrder[i])
           THEN Take(c, AcceptOrder[i], "arriving")
           ELSE /\ conn' = [conn EXCEPT ![c] = [@ EXCEPT !.pc = "refused"]]
                /\ UNCHANGED count
    /\ UNCHANGED <<slots, stopping, acceptor>>

\* All permits are there: a thread is spawned; or the policy source is broken
\* and the locals are dropped; or the spawn fails, which drops the closure.
Spawn(c) ==
    /\ conn[c].pc = "arriving"
    /\ \A i \in DOMAIN AcceptOrder : AcceptOrder[i] \in conn[c].held
    /\ \/ /\ conn' = [conn EXCEPT ![c] = [@ EXCEPT !.pc = "shaking"]]
          /\ acceptor' = "top"
       \/ /\ \E pc \in {"refused", "unspawned"} :
                conn' = [conn EXCEPT ![c] = [@ EXCEPT !.pc = pc]]
          /\ UNCHANGED acceptor
    /\ UNCHANGED <<count, slots, stopping>>

RequestStop ==
    /\ ~stopping
    /\ stopping' = TRUE
    /\ UNCHANGED <<conn, count, slots, acceptor>>

-----------------------------------------------------------------------------
(* A connection thread *)

\* Dropping: one permit at a time; with the last one the thread (or the accept
\* thread's handling of a refused peer) is over.  The captures of a closure
\* that was not spawned are dropped in no specified order.
DropPermit(c) ==
    /\ \/ /\ conn[c].pc \in DOMAIN DropOrder
          /\ \E i \in DOMAIN DropOrder[conn[c].pc] :
                /\ First(c, DropOrder[conn[c].pc], i)
                /\ Release(c, DropOrder[conn[c].pc][i])
       \/ /\ conn[c].pc = "unspawned"
          /\ \E p \in conn[c].held : Release(c, p)
    /\ UNCHANGED <<slots, stopping, acceptor>>
Ended(c) ==
    /\ conn[c].pc \in {"refused", "unspawned", "failed", "ended"}
    /\ conn[c].held = {}
    /\ conn' = [conn EXCEPT ![c] = NoConn]
    /\ acceptor' = IF conn[c].pc \in {"refused", "unspawned"} THEN "top"
                   ELSE acceptor
    /\ UNCHANGED <<count, slots, stopping>>

\* server_handshake returns the client, or an error.
Handshake(c) ==
    /\ conn[c].pc = "shaking"
    /\ \/ \E k \in Clients :
            conn' = [conn EXCEPT ![c] = [@ EXCEPT !.pc = "shaken", !.client = k]]
       \/ conn' = [conn EXCEPT ![c] = [@ EXCEPT !.pc = "failed"]]
    /\ UNCHANGED <<count, slots, stopping, acceptor>>

\* Both handshake permits are gone: the per-client permit, or the end.
Admit(c) ==
    /\ conn[c].pc = "shaken"
    /\ conn[c].held \cap {"handshake", "pending"} = {}
    /\ IF Free(c, "client")
       THEN Take(c, "client", "open")
       ELSE /\ conn' = [conn EXCEPT ![c] = [@ EXCEPT !.pc = "ended"]]
            /\ UNCHANGED count
    /\ UNCHANGED <<slots, stopping, acceptor>>

\* Mutant: the loop does not look at the flag.
StartRound_IgnoresStop(c) ==
    /\ conn[c].pc = "open"
    /\ \E pc \in {"serving", "closing"} :
          conn' = [conn EXCEPT ![c] = [@ EXCEPT !.pc = pc]]
    /\ UNCHANGED <<count, slots, stopping, acceptor>>

\* One round of the loop of handle_connection.  Its first line reads the flag;
\* the session also ends there for its policy or a timeout.
StartRound(c) ==
    /\ conn[c].pc = "open"
    /\ \/ ~stopping /\ conn' = [conn EXCEPT ![c] = [@ EXCEPT !.pc = "serving"]]
       \/ conn' = [conn EXCEPT ![c] = [@ EXCEPT !.pc = "closing"]]
    /\ UNCHANGED <<count, slots, stopping, acceptor>>
EndRound(c) ==
    /\ conn[c].pc = "serving"
    /\ \E pc \in {"open", "closing"} :
          conn' = [conn EXCEPT ![c] = [@ EXCEPT !.pc = pc]]
    /\ UNCHANGED <<count, slots, stopping, acceptor>>

\* spawn_probe, the load of ConnectionLimiter::acquire.
LoadSlots(c) ==
    /\ conn[c].pc = "serving"
    /\ conn[c].probes < ProbesPerConn
    /\ slots < ProbeLimit
    /\ conn' = [conn EXCEPT ![c] = [@ EXCEPT !.pc = "cas", !.seen = slots]]
    /\ UNCHANGED <<count, slots, stopping, acceptor>>

\* Mutant: a plain store in place of the compare-exchange.
ExchangeSlots_Store(c) ==
    /\ conn[c].pc = "cas"
    /\ slots' = conn[c].seen + 1
    /\ \E pc \in {"serving", "closing"} :
          conn' = [conn EXCEPT ![c].pc = pc, ![c].seen = 0, ![c].probes = @ + 1]
    /\ UNCHANGED <<count, stopping, acceptor>>

\* Its compare-exchange: the slot goes to a probe thread (if that cannot be
\* spawned the slot is dropped and the session closes).  A failed exchange
\* yields the observed value, and the loop goes round or gives up.
ExchangeSlots(c) ==
    /\ conn[c].pc = "cas"
    /\ IF slots = conn[c].seen
       THEN /\ slots' = slots + 1
            /\ \E pc \in {"serving", "closing"} :
                  conn' = [conn EXCEPT ![c].pc = pc, ![c].seen = 0,
                                       ![c].probes = @ + 1]
       ELSE /\ UNCHANGED slots
            /\ conn' = [conn EXCEPT ![c] =
                          IF slots < ProbeLimit THEN [@ EXCEPT !.seen = slots]
                          ELSE [@ EXCEPT !.pc = "serving", !.seen = 0]]
    /\ UNCHANGED <<count, stopping, acceptor>>

\* A probe thread ends and drops its slot.
EndProbe(c) ==
    /\ conn[c].probes > 0
    /\ slots' = Decremented(slots)
    /\ conn' = [conn EXCEPT ![c].probes = @ - 1]
    /\ UNCHANGED <<count, stopping, acceptor>>

\* Dropping the session's probe tasks joins their threads.
JoinProbes(c) ==
    /\ conn[c].pc = "closing"
    /\ conn[c].probes = 0
    /\ conn' = [conn EXCEPT ![c] = [@ EXCEPT !.pc = "ended"]]
    /\ UNCHANGED <<count, slots, stopping, acceptor>>

-----------------------------------------------------------------------------
AcceptThread(c) == Accept(c) \/ AcquireNext(c) \/ Spawn(c)
ConnThread(c) ==
    \/ DropPermit(c) \/ Ended(c) \/ Handshake(c) \/ Admit(c) \/ StartRound(c)
    \/ EndRound(c) \/ LoadSlots(c) \/ ExchangeSlots(c) \/ JoinProbes(c)

Next ==
    \/ \E c \in Conns : AcceptThread(c) \/ ConnThread(c) \/ EndProbe(c)
    \/ Top \/ NoPeer \/ RequestStop

\* Every thread runs.  A handshake, a send and a probe all have a timeout, and
\* a round starts a bounded number of probes, so each round ends (SF).
Fairness ==
    /\ WF_vars(Top) /\ WF_vars(NoPeer)
    /\ \A c \in Conns :
        /\ WF_vars(AcquireNext(c) \/ Spawn(c))
        /\ WF_vars(ConnThread(c))
        /\ SF_vars(EndRound(c))
        /\ WF_vars(EndProbe(c))

Safe == Init /\ [][Next]_vars
Spec == Safe /\ Fairness

-----------------------------------------------------------------------------
(* Properties *)

Holders(p, k) == {c \in Conns : p \in conn[c].held /\ Key(c, p) = k}

\* No permit is lost or returned twice: each counter is the number of permits
\* of that kind and key that some thread owns, whichever step refused the
\* peer, failed or ended the session (metrics.active_connections is one of
\* them, what the TUI shows as active connections).
PermitsConserved ==
    \A p \in Permits : \A k \in Keys(p) :
        count[<<p, k>>] = Cardinality(Holders(p, k))

\* The limits hold for every address and client at every moment, although
\* permits are taken by one thread and dropped by others.
LimitsHold ==
    \A p \in Permits : \A k \in Keys(p) : Cardinality(Holders(p, k)) <= Limit[p]

\* The probe threads of all sessions, each numbered within its session.
ProbeThreads ==
    {t \in Conns \X (1..ProbesPerConn) : t[2] <= conn[t[1]].probes}

\* The probe pool counts its threads, and they stay within the limit, although
\* all sessions load and exchange the counter concurrently.
ProbesCounted ==
    /\ slots = Cardinality(ProbeThreads)
    /\ slots <= ProbeLimit

\* One address never occupies the whole handshake pool.  A thread whose
\* handshake failed drops its pending permit before its handshake permit, so
\* the pending limit alone would not do: the limit per address must hold too.
OneAddressLeavesRoom ==
    \A ip \in Ips :
        Cardinality({c \in Conns : "handshake" \in conn[c].held /\ conn[c].ip = ip})
            < Limit["handshake"]

\* Every counter is exact: a permit counter is the number of permits of its
\* kind and key that some thread owns, and the probe pool's is the number of
\* probe threads, whatever is refused, fails or ends (the permits' Drop,
\* spawn_probe's compare-exchange).
CountersExact == TypeOK /\ PermitsConserved /\ ProbesCounted

\* Every limit holds for every address and client at every moment, although
\* permits are taken by one thread and dropped by others; and one address never
\* occupies the whole handshake pool, also while a failed handshake has given
\* back its pending permit and not yet its handshake permit.
RoomLeft == LimitsHold /\ OneAddressLeavesRoom

\* After a stop everything comes back: threads end, every counter is zero.
StopReturnsAll ==
    <>stopping => <>[](/\ \A k \in Counters : count[k] = 0
                       /\ slots = 0
                       /\ \A c \in Conns : conn[c] = NoConn)

-----------------------------------------------------------------------------
(* The inductive strengthening of CountersExact and RoomLeft: which permits  *)
(* a thread owns at each place of its code.                                *)

AcceptPcs == {"arriving", "refused", "unspawned"}
SessionPcs == {"open", "serving", "cas", "closing"}

\* The accept thread is busy with at most one peer at a time.
OneArrival ==
    /\ \A c, d \in Conns :
          conn[c].pc \in AcceptPcs /\ conn[d].pc \in AcceptPcs => c = d
    /\ \A c \in Conns : conn[c].pc \in AcceptPcs => acceptor = "busy"

\* A thread owns permits and probes only where its code can, under an address
\* and a client that it knows.
OwnedWhere ==
    \A c \in Conns :
        /\ conn[c].pc = "none" => conn[c].held = {}
        /\ conn[c].pc # "none" => conn[c].ip \in Ips
        /\ conn[c].pc \in SessionPcs \cup {"shaken", "ended"} =>
              conn[c].client \in Clients
        /\ conn[c].pc \notin SessionPcs \cup {"ended"} => "client" \notin conn[c].held
        /\ conn[c].pc \in SessionPcs \cup {"ended"} =>
              conn[c].held \cap {"pending", "handshake"} = {}
        /\ conn[c].pc \notin SessionPcs => conn[c].probes = 0

\* A handshake permit is taken after its address's and dropped before it, but
\* for a closure that was not spawned.
HandshakeUnderIp ==
    \A c \in Conns :
        "handshake" \in conn[c].held =>
            "ip" \in conn[c].held \/ conn[c].pc = "unspawned"

\* So the threads of one address with either permit stay within its limit.
Reserved(ip) ==
    {c \in Conns : conn[c].ip = ip /\ conn[c].held \cap {"ip", "handshake"} # {}}
AddressBounded == \A ip \in Ips : Cardinality(Reserved(ip)) <= Limit["ip"]

CountsBounded == \A p \in Permits : \A k \in Keys(p) : count[<<p, k>>] <= Limit[p]

\* A thread about to exchange the pool's counter has seen a free slot.
SlotSeen ==
    \A c \in Conns : conn[c].pc = "cas" =>
        conn[c].seen < ProbeLimit /\ conn[c].probes < ProbesPerConn

AdmissionInv ==
    /\ CountersExact /\ OneArrival /\ OwnedWhere /\ HandshakeUnderIp
    /\ AddressBounded /\ CountsBounded /\ SlotSeen

=============================================================================
