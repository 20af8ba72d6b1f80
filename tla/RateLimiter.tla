---------------------------- MODULE RateLimiter ----------------------------
(***************************************************************************)
(* The request rates of server.rs: RateLimiter::allow, called twice by a   *)
(* session for each request, once with the key of the peer's address and   *)
(* once with the key of its client.  Each call reads the clock before it   *)
(* takes the mutex, so it may work with an instant that others have passed *)
(* by up to Lag.  The handshake rates are another instance with one key    *)
(* per address and one caller, the accept thread.                          *)
(***************************************************************************)
EXTENDS Integers, FiniteSets

CONSTANTS
    Ips, Clients,   \* the two kinds of key, disjoint
    Sessions,       \* a subset of Ips \X Clients
    Limit,          \* max_requests_per_minute
    Window,         \* 60 seconds
    MaxKeys,        \* MAX_RATE_KEYS
    Lag,            \* how long a call may be held up at the mutex
    MaxTime         \* bound on the clock

Keys == Ips \cup Clients

RateAssumption ==
    /\ Ips \cap Clients = {}
    /\ Sessions \subseteq Ips \X Clients /\ IsFiniteSet(Sessions)
    /\ Limit \in Nat \ {0} /\ Window \in Nat \ {0} /\ MaxKeys \in Nat
    /\ Lag \in Nat /\ 2 * Lag < Window /\ MaxTime \in Nat

VARIABLES
    now,
    buckets,    \* key -> [started, count]
    call,       \* session -> [pc, at, ok]: its call of allow
    served,     \* history: key -> age -> requests let through in the last ticks,
                \* up to that long ago
    held        \* history: a key was refused by a table that still held an
                \* expired one

rateVars == <<now, buckets, call, served, held>>

Ages == 0..(Window - 2 * Lag - 1)
Idle == [pc |-> "idle", at |-> 0, ok |-> TRUE]

RateInit ==
    /\ now = 0
    /\ buckets = [k \in {} |-> [started |-> 0, count |-> 0]]
    /\ call = [s \in Sessions |-> Idle]
    /\ served = [k \in Keys |-> [a \in Ages |-> 0]]
    /\ held = FALSE

\* Instant::duration_since saturates at zero.
Since(at, started) == IF at > started THEN at - started ELSE 0

\* Mutant: a bucket is dropped a tick too early.
Retained_Early(b, at) ==
    LET live == {k \in DOMAIN b : Since(at, b[k].started) < Window - 1} IN
    [k \in live |-> b[k]]

\* buckets.retain
Retained(b, at) ==
    LET live == {k \in DOMAIN b : Since(at, b[k].started) < Window} IN
    [k \in live |-> b[k]]

Full(b, k) == Cardinality(DOMAIN b) >= MaxKeys /\ k \notin DOMAIN b

Bucket(b, k, at) == IF k \in DOMAIN b THEN b[k] ELSE [started |-> at, count |-> 0]

\* What allow answers for key k at the instant `at', and the table it leaves.
\* A new key gets its bucket even when the limit then refuses it; a bucket that
\* retain kept is never restarted, so the second window test changes nothing.
Allows(b, k, at) ==
    LET r == Retained(b, at) IN ~Full(r, k) /\ Bucket(r, k, at).count < Limit
After(b, k, at) ==
    LET r == Retained(b, at)
        u == Bucket(r, k, at) IN
    IF Full(r, k) THEN r
    ELSE [x \in DOMAIN r \cup {k} |->
            IF x # k THEN r[x]
            ELSE [u EXCEPT !.count = IF @ < Limit THEN @ + 1 ELSE @]]

Read(s, pc, ok) == call' = [call EXCEPT ![s] = [pc |-> pc, at |-> now, ok |-> ok]]

\* A request arrives and the clock is read for the address.
Arrive(s) ==
    /\ call[s].pc = "idle"
    /\ Read(s, "ip", TRUE)
    /\ UNCHANGED <<now, buckets, served, held>>

\* Some bucket of the table is past its window, by any reading of the clock.
Stale(b) == \E k \in DOMAIN b : Since(now, b[k].started) >= Window + Lag

Charge(k, at) ==
    /\ buckets' = After(buckets, k, at)
    /\ held' = (held \/ (Full(Retained(buckets, at), k) /\ Stale(Retained(buckets, at))))

AllowIp(s) ==
    /\ call[s].pc = "ip"
    /\ Charge(s[1], call[s].at)
    /\ Read(s, "client", Allows(buckets, s[1], call[s].at))
    /\ UNCHANGED <<now, served>>

\* Mutant: the request goes on if either key has room.
Both_Either(a, b) == a \/ b

Both(a, b) == a /\ b

\* The client is charged whatever the address was answered.
AllowClient(s) ==
    LET ok == Both(call[s].ok, Allows(buckets, s[2], call[s].at)) IN
    /\ call[s].pc = "client"
    /\ Charge(s[2], call[s].at)
    /\ call' = [call EXCEPT ![s] = Idle]
    /\ served' = [k \in Keys |->
                    IF ok /\ k \in {s[1], s[2]}
                    THEN [a \in Ages |-> served[k][a] + 1] ELSE served[k]]
    /\ UNCHANGED now

\* Time passes; no call is held up for longer than Lag.
Tick ==
    /\ now < MaxTime
    /\ \A s \in Sessions : call[s].pc # "idle" => now - call[s].at < Lag
    /\ now' = now + 1
    /\ served' = [k \in Keys |-> [a \in Ages |-> IF a = 0 THEN 0 ELSE served[k][a - 1]]]
    /\ UNCHANGED <<buckets, call, held>>

RateNext ==
    \/ \E s \in Sessions : Arrive(s) \/ AllowIp(s) \/ AllowClient(s)
    \/ Tick

RateSpec == RateInit /\ [][RateNext]_rateVars

-----------------------------------------------------------------------------
(* Properties *)

\* Buckets and calls keep their types, the table within its limit.
RateTypeOK ==
    /\ now \in 0..MaxTime
    /\ \A k \in DOMAIN buckets :
          k \in Keys /\ buckets[k].started \in 0..now /\ buckets[k].count \in 1..Limit
    /\ Cardinality(DOMAIN buckets) <= MaxKeys

\* The window opens at a key's first request and closes as a whole, so bursts of
\* two windows meet around its end, but never two whole ones: within any interval
\* shorter than the window by both hold-ups, that is of Window - 2 * Lag ticks, at
\* most twice the limit less one is let through, whichever addresses the client
\* comes from.
NeverTwoBursts ==
    \A k \in Keys : \A a \in Ages : served[k][a] < 2 * Limit

\* A key is turned away for lack of room only by keys that were in use within
\* the last window: an address nobody uses any more holds no place.
RoomForTheActive == ~held

RatesBounded == RateTypeOK /\ NeverTwoBursts /\ RoomForTheActive

-----------------------------------------------------------------------------
(* The inductive strengthening *)

\* No call is held up for longer than Lag, and the history counts requests.
CallsTimely ==
    /\ call \in [Sessions -> [pc : {"idle", "ip", "client"}, at : Nat, ok : BOOLEAN]]
    /\ \A s \in Sessions : call[s].pc # "idle" => call[s].at <= now /\ now - call[s].at <= Lag
    /\ served \in [Keys -> [Ages -> Nat]]

\* Requests that address k has been charged for since t and that wait for the
\* answer about their client.
Pending(k, t) ==
    {s \in Sessions : s[1] = k /\ call[s].pc = "client" /\ call[s].ok /\ call[s].at >= t}

\* Requests of k let through at t + Lag or later: those were charged after t.
Recent(k, t) == IF now - t - Lag \in Ages THEN served[k][now - t - Lag] ELSE 0

Load(k, t) == Cardinality(Pending(k, t)) + Recent(k, t)
Total(k, a) == Cardinality(Pending(k, 0)) + served[k][a]

\* A bucket has counted every request charged after those of the bucket before
\* it can have been, and its first request too, which is older: what is left of a
\* bucket when it expires is less than a burst.
Counted(b) ==
    \A k \in Keys :
        IF k \in DOMAIN b
        THEN /\ \A t \in 0..now : t > b[k].started + Lag => Load(k, t) < b[k].count
             /\ \A a \in Ages : Total(k, a) < b[k].count + Limit
        ELSE \A a \in Ages : Total(k, a) < Limit

RateInv ==
    /\ RateTypeOK /\ CallsTimely /\ Counted(buckets) /\ RoomForTheActive
    /\ IsFiniteSet(DOMAIN buckets)
    /\ buckets \in [DOMAIN buckets -> [started : Nat, count : Nat]]

=============================================================================
