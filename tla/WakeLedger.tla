----------------------------- MODULE WakeLedger -----------------------------
(***************************************************************************)
(* The server's idempotency ledger and the request handler that uses it    *)
(* (server.rs: Ledger, process_envelope, reserve_wake_targets,             *)
(* complete_request, service_status_jobs).                                 *)
(*                                                                         *)
(* Every authenticated connection is a thread; the threads share the       *)
(* ledger and the cooldown table, each behind its own mutex.  A handler    *)
(* takes and drops these mutexes several times, so it is one action per    *)
(* critical section here: other sessions of the same client run between    *)
(* them.  `now' is read before the mutex is taken in the wake path, so a   *)
(* session may act on the ledger with an instant that others have already  *)
(* passed (work[s].at).                                                    *)
(*                                                                         *)
(* A client may send any operation id, any targets and any ticket that     *)
(* was ever issued, on any of its sessions, as often as it likes: lost     *)
(* receipts, reconnects and duplicated requests are all such sends.        *)
(***************************************************************************)
EXTENDS Integers, FiniteSets

CONSTANTS
    Sessions,             \* connection threads
    Clients,              \* authenticated client keys
    ClientOf,             \* the client a session authenticated as
    Ops,                  \* operation ids (request_id)
    WakeOps, ReadOps,     \* the ids used for Wake, and for ListHosts/GetStatuses
    Hosts,                \* configured targets
    PendingTTL,           \* PENDING_LEDGER_TTL
    LedgerTTL,            \* LEDGER_TTL
    RetryTTL,             \* RETRY_TTL
    Cooldown,             \* WAKE_COOLDOWN
    MaxEntries,           \* MAX_LEDGER_ENTRIES
    MaxEntriesPerClient,  \* MAX_LEDGER_ENTRIES_PER_CLIENT
    MaxStatusJobs,        \* status jobs a session may run
    HoldLimit,            \* longest time between two steps' ends of one handler
    MayRestart,           \* whether the server process may restart
    MaxTime,              \* bound on the clock
    MaxTickets            \* bound on the tickets drawn

ASSUME SetsAssumption ==
    /\ ClientOf \in [Sessions -> Clients]
    /\ WakeOps \subseteq Ops
    /\ ReadOps \subseteq Ops
    /\ Ops # {}

ASSUME TimesAssumption ==
    /\ PendingTTL \in Nat
    /\ LedgerTTL \in Nat
    /\ RetryTTL \in Nat
    /\ Cooldown \in Nat
    /\ HoldLimit \in Nat
    /\ MaxTime \in Nat
    /\ MaxTickets \in Nat
    /\ MayRestart \in BOOLEAN
    /\ RetryTTL <= PendingTTL
    /\ RetryTTL <= LedgerTTL

ASSUME LimitsAssumption ==
    /\ MaxEntries \in Nat
    /\ MaxEntriesPerClient \in Nat

VARIABLES
    clock,      \* the monotonic clock, Instant::now()
    entries,    \* Ledger.entries: operation key -> LedgerEntry
    tickets,    \* Ledger.tickets: retry ticket -> operation key
    issued,     \* tickets drawn so far: random_ticket() never repeats
    cooling,    \* keys present in the last_wake table
    last_wake,  \* their instants (kept after removal, for CooldownHolds)
    reserved,   \* history: when each key's last reservation really happened
    work,       \* what each session's thread is doing
    jobs,       \* status jobs running on behalf of sessions
    packets,    \* history: magic packets sent per ticket, attempt and host
    receipt     \* history: the last executed receipt of each operation

ledgerVars == <<entries, tickets>>
coolVars == <<cooling, last_wake, reserved>>
vars == <<clock, entries, tickets, issued, cooling, last_wake, reserved, work,
          jobs, packets, receipt>>

-----------------------------------------------------------------------------
(* Types.  wake = None is the attempt 0 record, response = None the kind   *)
(* "none" record.  A digest covers kind and targets (and headers, catalog  *)
(* and boot nonce, which vary with them): SHA-256 is taken as injective.   *)

Keys == Clients \X Ops
Ticket == 1..MaxTickets
Digest == [kind : {"wake", "list", "status"}, hosts : SUBSET Hosts]

WakeMeta == [attempt : 0..2, ticket : Nat, ticket_expires : Int,
             ticket_used : BOOLEAN]
NoWake == [attempt |-> 0, ticket |-> 0, ticket_expires |-> 0,
           ticket_used |-> FALSE]

Response == [kind : {"none", "read", "executed"}, attempt : 0..2,
             ticket : Nat, accepted : SUBSET Hosts]
NoResponse == [kind |-> "none", attempt |-> 0, ticket |-> 0, accepted |-> {}]
ReadResponse == [NoResponse EXCEPT !.kind = "read"]
Executed(a, t, hs) ==
    [kind |-> "executed", attempt |-> a, ticket |-> t, accepted |-> hs]

LedgerEntry == [digest : Digest, wake : WakeMeta, response : Response,
                pending : BOOLEAN, expires : Int]

Work == [pc : {"idle", "begin", "reserve", "dispatch", "complete", "list",
               "drop"},
         op : Ops, attempt : 0..2, ticket : Nat, at : Nat,
         hosts : SUBSET Hosts, todo : SUBSET Hosts, accepted : SUBSET Hosts]

Job == [session : Sessions, key : Keys, since : Nat]
Receipt == [attempt : 0..2, time : Nat]
NoReceipt == [attempt |-> 0, time |-> 0]

\* Records, tickets, handlers and jobs keep their types; a wake's record names
\* a ticket that was drawn.
TypeOK ==
    /\ clock \in Nat
    /\ DOMAIN entries \subseteq Keys
    /\ \A k \in DOMAIN entries : entries[k] \in LedgerEntry
    /\ \A k \in DOMAIN entries :
          entries[k].wake.attempt # 0 => entries[k].wake.ticket \in 1..issued
    /\ DOMAIN tickets \subseteq Ticket
    /\ \A t \in DOMAIN tickets : tickets[t] \in Keys
    /\ issued \in 0..MaxTickets
    /\ cooling \subseteq Clients \X Hosts
    /\ last_wake \in [Clients \X Hosts -> Int]
    /\ reserved \in [Clients \X Hosts -> Int]
    /\ work \in [Sessions -> Work]
    /\ jobs \subseteq Job
    /\ packets \in [Ticket \X (1..2) \X Hosts -> Nat]
    /\ receipt \in [Keys -> Receipt]

-----------------------------------------------------------------------------
(* Ledger operations *)

KeyOf(s) == <<ClientOf[s], work[s].op>>
WakeDigest(s) == [kind |-> "wake", hosts |-> work[s].hosts]

\* Ledger::prune, first retain: what is left of the entries at instant t.
Live(t) == {k \in DOMAIN entries : entries[k].expires > t}
PrunedEntries(t) == [k \in Live(t) |-> entries[k]]

\* Ledger::prune, second retain: a ticket stays while its operation's entry
\* does, names this ticket and has not let it expire.
LiveTickets(t) ==
    {x \in DOMAIN tickets :
        /\ tickets[x] \in Live(t)
        /\ entries[tickets[x]].wake.attempt # 0
        /\ entries[tickets[x]].wake.ticket = x
        /\ entries[tickets[x]].wake.ticket_expires > t}
PrunedTickets(t) == [x \in LiveTickets(t) |-> tickets[x]]

\* Mutant: one client may fill the ledger.
HasCapacityFor_NoShare(c, t) == Cardinality(Live(t)) < MaxEntries

HasCapacityFor(c, t) ==
    /\ Cardinality(Live(t)) < MaxEntries
    /\ Cardinality({k \in Live(t) : k[1] = c}) < MaxEntriesPerClient

\* HashMap::insert on a function with a finite domain.
Put(f, x, v) == [y \in (DOMAIN f) \cup {x} |-> IF y = x THEN v ELSE f[y]]

\* Mutants: the reservation does not mark the operation as being executed, or
\* is made before the ticket is drawn.
ReservedEntry_NotPending(d, w, t) ==
    [digest |-> d, wake |-> w, response |-> NoResponse, pending |-> FALSE,
     expires |-> t + PendingTTL]
ReservedEntry_NoTicket(d, w, t) ==
    [digest |-> d, wake |-> [w EXCEPT !.ticket = 0], response |-> NoResponse,
     pending |-> TRUE, expires |-> t + PendingTTL]

ReservedEntry(d, w, t) ==
    [digest |-> d, wake |-> w, response |-> NoResponse, pending |-> TRUE,
     expires |-> t + PendingTTL]

\* Mutants: the ticket is not spent, or the first receipt is not cleared.
RetriedEntry_TicketKept(e, t) ==
    [e EXCEPT !.pending = TRUE, !.response = NoResponse, !.expires = t + PendingTTL]
RetriedEntry_ReceiptKept(e, t) ==
    [e EXCEPT !.wake = [@ EXCEPT !.ticket_used = TRUE, !.attempt = 2],
              !.pending = TRUE, !.expires = t + PendingTTL]

\* Ledger::begin_wake_attempt2 on success: the ticket is spent and the entry
\* goes back to pending under the shorter deadline.
RetriedEntry(e, t) ==
    [e EXCEPT !.wake = [@ EXCEPT !.ticket_used = TRUE, !.attempt = 2],
              !.pending = TRUE, !.response = NoResponse,
              !.expires = t + PendingTTL]

\* Mutant: the receipt lives no longer than the reservation would have.
CompletedEntry_KeepsExpiry(e, r, t) ==
    [e EXCEPT !.wake = IF @.attempt = 1 /\ ~@.ticket_used
                       THEN [@ EXCEPT !.ticket_expires = t + RetryTTL] ELSE @,
              !.pending = FALSE, !.response = r]

\* Ledger::complete on an entry that is still there.
CompletedEntry(e, r, t) ==
    [e EXCEPT !.wake = IF @.attempt = 1 /\ ~@.ticket_used
                       THEN [@ EXCEPT !.ticket_expires = t + RetryTTL] ELSE @,
              !.pending = FALSE, !.response = r, !.expires = t + LedgerTTL]

\* Mutant: a lease is renewed although it will outlive the record.
Renewable_AnyTime(e, t) == e.wake.attempt # 0 /\ e.response.kind # "none"

\* renew_cached_wake: Renewable is its early returns, Renewed the entry after.
Renewable(e, t) ==
    /\ e.expires >= t + RetryTTL
    /\ e.wake.attempt # 0
    /\ e.response.kind # "none"
Renewed(e, t) ==
    [e EXCEPT !.wake = IF e.response.kind = "executed"
                       THEN [@ EXCEPT !.ticket_expires = t + RetryTTL] ELSE @]

-----------------------------------------------------------------------------
(* Sessions *)

NoOp == CHOOSE o \in Ops : TRUE
Idle == [pc |-> "idle", op |-> NoOp, attempt |-> 0, ticket |-> 0, at |-> 0,
         hosts |-> {}, todo |-> {}, accepted |-> {}]

Init ==
    /\ clock = 0
    /\ entries = [k \in {} |-> 0]
    /\ tickets = [x \in {} |-> 0]
    /\ issued = 0
    /\ cooling = {}
    /\ last_wake = [ch \in Clients \X Hosts |-> -Cooldown]
    /\ reserved = last_wake
    /\ work = [s \in Sessions |-> Idle]
    /\ jobs = {}
    /\ packets = [p \in Ticket \X (1..2) \X Hosts |-> 0]
    /\ receipt = [k \in Keys |-> NoReceipt]

\* The session's thread answers from the ledger or with an error and returns
\* to its receive loop; begin_* has pruned the ledger at instant t.
AnswerAfterPrune(s, t) ==
    /\ entries' = PrunedEntries(t)
    /\ tickets' = PrunedTickets(t)
    /\ work' = [work EXCEPT ![s] = Idle]
    /\ UNCHANGED <<clock, issued, coolVars, jobs, packets, receipt>>

\* A Wake request that passed the catalog and ACL checks: `now' is read, the
\* ledger mutex not yet held.  An attempt 1 that carries a ticket and an
\* attempt 2 without one are refused before the ledger is touched.
MayDraw == issued + Cardinality({r \in Sessions : work[r].pc = "begin"}) < MaxTickets
ReceiveWake(s) ==
    /\ work[s].pc = "idle"
    /\ \E o \in WakeOps, hs \in (SUBSET Hosts) \ {{}},
          w \in {<<1, 0>>} \cup ({2} \X (1..issued)) :
          /\ w[1] = 1 => MayDraw
          /\ work' = [work EXCEPT ![s] =
                      [Idle EXCEPT !.pc = "begin", !.op = o, !.hosts = hs,
                                   !.attempt = w[1], !.ticket = w[2],
                                   !.at = clock]]
    /\ UNCHANGED <<clock, ledgerVars, issued, coolVars, jobs, packets, receipt>>

\* Ledger::begin_wake_attempt1, no entry and room for one: a fresh ticket.
Begin1New(s) ==
    LET t == work[s].at
        k == KeyOf(s)
        x == issued + 1
        w == [attempt |-> 1, ticket |-> x, ticket_expires |-> t + RetryTTL,
              ticket_used |-> FALSE]
    IN  /\ work[s].pc = "begin" /\ work[s].attempt = 1
        /\ k \notin Live(t)
        /\ HasCapacityFor(ClientOf[s], t)
        /\ issued < MaxTickets
        /\ issued' = x
        /\ entries' = Put(PrunedEntries(t), k, ReservedEntry(WakeDigest(s), w, t))
        /\ tickets' = Put(PrunedTickets(t), x, k)
        /\ work' = [work EXCEPT ![s] =
                      [@ EXCEPT !.pc = "reserve", !.ticket = x]]
        /\ receipt' = [receipt EXCEPT ![k] = NoReceipt]
        /\ UNCHANGED <<clock, coolVars, jobs, packets>>

\* begin_wake_attempt1 and begin_wake_attempt2, Cached: the receipt is sent
\* again and its lease renewed; attempt 1 also re-registers the ticket.
CanRecover(s) ==
    LET t == work[s].at
        k == KeyOf(s)
    IN  /\ k \in Live(t)
        /\ entries[k].digest = WakeDigest(s)
        /\ ~entries[k].pending
        /\ entries[k].wake.attempt = work[s].attempt
        /\ work[s].attempt = 2 => entries[k].wake.ticket = work[s].ticket
        /\ Renewable(entries[k], t)
RecoverReceipt(s) ==
    LET t == work[s].at
        k == KeyOf(s)
    IN  /\ work[s].pc = "begin"
        /\ CanRecover(s)
        /\ entries' = Put(PrunedEntries(t), k, Renewed(entries[k], t))
        /\ tickets' = IF work[s].attempt = 1
                      THEN Put(PrunedTickets(t), entries[k].wake.ticket, k)
                      ELSE PrunedTickets(t)
        /\ work' = [work EXCEPT ![s] = Idle]
        /\ UNCHANGED <<clock, issued, coolVars, jobs, packets, receipt>>

\* Ledger::begin_wake_attempt2, New: the ticket buys the second dispatch.
CanRetry(s) ==
    LET t == work[s].at
        k == KeyOf(s)
        x == work[s].ticket
    IN  /\ k \in Live(t)
        /\ entries[k].digest = WakeDigest(s)
        /\ ~entries[k].pending
        /\ x \in LiveTickets(t)
        /\ tickets[x] = k
        /\ entries[k].wake.attempt = 1
        /\ entries[k].wake.ticket = x
        /\ ~entries[k].wake.ticket_used
        /\ entries[k].wake.ticket_expires > t
Begin2New(s) ==
    LET t == work[s].at
        k == KeyOf(s)
    IN  /\ work[s].pc = "begin" /\ work[s].attempt = 2
        /\ CanRetry(s)
        /\ entries' = Put(PrunedEntries(t), k, RetriedEntry(entries[k], t))
        /\ tickets' = PrunedTickets(t)
        /\ work' = [work EXCEPT ![s] = [@ EXCEPT !.pc = "reserve"]]
        /\ receipt' = [receipt EXCEPT ![k] = NoReceipt]
        /\ UNCHANGED <<clock, issued, coolVars, jobs, packets>>

\* Busy, Conflict and Replay: every other outcome of the two begin calls.
RefuseWake(s) ==
    LET t == work[s].at
    IN  /\ work[s].pc = "begin"
        /\ ~CanRecover(s)
        /\ IF work[s].attempt = 1
           THEN KeyOf(s) \in Live(t) \/ ~HasCapacityFor(ClientOf[s], t)
           ELSE ~CanRetry(s)
        /\ AnswerAfterPrune(s, t)

\* Mutant: the cooldown ends one unit early.
CoolingAt_Short(t) == {ch \in cooling : t - last_wake[ch] < Cooldown - 1}

\* reserve_wake_targets_for_client: all targets or none, against an instant
\* read before the cooldown mutex is taken.  A blocked request is answered
\* with an all-rejected receipt.
CoolingAt(t) == {ch \in cooling : t - last_wake[ch] < Cooldown}
Targets(s) == {ClientOf[s]} \X work[s].hosts
Reserve(s) ==
    /\ work[s].pc = "reserve"
    /\ \E t \in work[s].at..clock :
        \/ /\ Targets(s) \cap CoolingAt(t) # {}
           /\ cooling' = CoolingAt(t)
           /\ work' = [work EXCEPT ![s] = [@ EXCEPT !.pc = "complete"]]
           /\ UNCHANGED <<last_wake, reserved>>
        \/ /\ Targets(s) \cap CoolingAt(t) = {}
           /\ cooling' = CoolingAt(t) \cup Targets(s)
           /\ last_wake' = [ch \in Clients \X Hosts |->
                               IF ch \in Targets(s) THEN t ELSE last_wake[ch]]
           /\ reserved' = [ch \in Clients \X Hosts |->
                              IF ch \in Targets(s) THEN clock ELSE reserved[ch]]
           /\ work' = [work EXCEPT ![s] =
                         [@ EXCEPT !.pc = "dispatch", !.todo = work[s].hosts]]
    /\ UNCHANGED <<clock, ledgerVars, issued, jobs, packets, receipt>>

\* One round of the dispatch loop: the sender reports success or an error,
\* and the result is recorded.  After the last target the receipt is ready.
WithResult(w, h, sent) ==
    [w EXCEPT !.todo = w.todo \ {h},
              !.accepted = IF sent THEN w.accepted \cup {h} ELSE w.accepted,
              !.pc = IF w.todo = {h} THEN "complete" ELSE w.pc]
Dispatch(s) ==
    /\ work[s].pc = "dispatch"
    /\ \E h \in work[s].todo, sent \in BOOLEAN :
        /\ packets' = IF sent
                      THEN [packets EXCEPT
                              ![<<work[s].ticket, work[s].attempt, h>>] = @ + 1]
                      ELSE packets
        /\ work' = [work EXCEPT ![s] = WithResult(work[s], h, sent)]
    /\ UNCHANGED <<clock, ledgerVars, issued, coolVars, jobs, receipt>>

JobsOf(s) == {j \in jobs : j.session = s}

\* The loop's check under the policy mutex fails (shutdown, unhealthy source,
\* changed target, revoked host): the handler returns an error, the session
\* closes, and the entry stays pending until it expires.
CancelDispatch(s) ==
    /\ work[s].pc = "dispatch"
    /\ work' = [work EXCEPT ![s] = Idle]
    /\ jobs' = jobs \ JobsOf(s)
    /\ UNCHANGED <<clock, ledgerVars, issued, coolVars, packets, receipt>>

\* complete_request: nothing happens if the entry has been pruned meanwhile.
CompleteKey(k, r) ==
    entries' = IF k \in DOMAIN entries
               THEN [entries EXCEPT ![k] = CompletedEntry(@, r, clock)]
               ELSE entries

CompleteWake(s) ==
    LET k == KeyOf(s)
    IN  /\ work[s].pc = "complete"
        /\ CompleteKey(k, Executed(work[s].attempt, work[s].ticket,
                                   work[s].accepted))
        /\ receipt' = [receipt EXCEPT ![k] =
                          [attempt |-> work[s].attempt, time |-> clock]]
        /\ work' = [work EXCEPT ![s] = Idle]
        /\ UNCHANGED <<clock, tickets, issued, coolVars, jobs, packets>>

-----------------------------------------------------------------------------
(* ListHosts and GetStatuses: begin_request, then one completion.          *)

\* Ledger::begin_request, New.  GetStatuses starts a probe job when the
\* session and the probe pool have room, else it takes its entry back; if the
\* probe thread cannot be spawned the session closes and the entry stays.
BeginRead(s) ==
    \E o \in ReadOps, kind \in {"list", "status"} :
        LET k == <<ClientOf[s], o>>
            d == [kind |-> kind, hosts |-> {}]
            job == [session |-> s, key |-> k, since |-> clock]
            started == [Idle EXCEPT !.op = o, !.at = clock]
        IN  /\ work[s].pc = "idle"
            /\ k \notin Live(clock)
            /\ HasCapacityFor(ClientOf[s], clock)
            /\ entries' = Put(PrunedEntries(clock), k,
                              ReservedEntry(d, NoWake, clock))
            /\ tickets' = PrunedTickets(clock)
            /\ \/ /\ kind = "list"
                  /\ work' = [work EXCEPT ![s] = [started EXCEPT !.pc = "list"]]
                  /\ UNCHANGED jobs
               \/ /\ kind = "status"
                  /\ Cardinality(JobsOf(s)) < MaxStatusJobs
                  /\ jobs' = jobs \cup {job}
                  /\ UNCHANGED work
               \/ /\ kind = "status"
                  /\ work' = [work EXCEPT ![s] = [started EXCEPT !.pc = "drop"]]
                  /\ UNCHANGED jobs
               \/ /\ kind = "status"
                  /\ jobs' = jobs \ JobsOf(s)
                  /\ UNCHANGED work
            /\ UNCHANGED <<clock, issued, coolVars, packets, receipt>>

\* Ledger::begin_request, Cached, Busy or Conflict: an answer after pruning.
AnswerRead(s) ==
    /\ work[s].pc = "idle"
    /\ \E o \in ReadOps :
        \/ <<ClientOf[s], o>> \in Live(clock)
        \/ ~HasCapacityFor(ClientOf[s], clock)
    /\ AnswerAfterPrune(s, clock)

CompleteList(s) ==
    /\ work[s].pc = "list"
    /\ CompleteKey(KeyOf(s), ReadResponse)
    /\ work' = [work EXCEPT ![s] = Idle]
    /\ UNCHANGED <<clock, tickets, issued, coolVars, jobs, packets, receipt>>

\* No probe slot: the reservation is removed and Busy is sent.
DropStatus(s) ==
    /\ work[s].pc = "drop"
    /\ entries' = [k \in (DOMAIN entries) \ {KeyOf(s)} |-> entries[k]]
    /\ work' = [work EXCEPT ![s] = Idle]
    /\ UNCHANGED <<clock, tickets, issued, coolVars, jobs, packets, receipt>>

\* service_status_jobs between two requests of the session: the job's answer
\* is recorded, or, if its hosts are no longer allowed or the probe was cut
\* short, Unauthorized is sent and the entry stays pending.
FinishJob(s) ==
    /\ work[s].pc = "idle"
    /\ \E j \in JobsOf(s) :
        /\ jobs' = jobs \ {j}
        /\ CompleteKey(j.key, ReadResponse) \/ UNCHANGED entries
    /\ UNCHANGED <<clock, tickets, issued, coolVars, work, packets, receipt>>

\* A session that ends takes its jobs with it.
CloseSession(s) ==
    /\ work[s].pc = "idle"
    /\ JobsOf(s) # {}
    /\ jobs' = jobs \ JobsOf(s)
    /\ UNCHANGED <<clock, ledgerVars, issued, coolVars, work, packets, receipt>>

-----------------------------------------------------------------------------
\* Time passes.  HoldLimit is the timing assumption on handlers and status
\* jobs; a large value lets them stall past PendingTTL.
Tick ==
    /\ clock < MaxTime
    /\ \A s \in Sessions : work[s].pc # "idle" => clock < work[s].at + HoldLimit
    /\ \A j \in jobs : clock < j.since + HoldLimit
    /\ clock' = clock + 1
    /\ UNCHANGED <<ledgerVars, issued, coolVars, work, jobs, packets, receipt>>

\* The server process restarts: the ledger and the cooldowns are memory only.
Restart ==
    /\ MayRestart
    /\ entries' = [k \in {} |-> 0]
    /\ tickets' = [x \in {} |-> 0]
    /\ cooling' = {}
    /\ last_wake' = [ch \in Clients \X Hosts |-> -Cooldown]
    /\ reserved' = last_wake'
    /\ work' = [s \in Sessions |-> Idle]
    /\ jobs' = {}
    /\ receipt' = [k \in Keys |-> NoReceipt]
    /\ UNCHANGED <<clock, issued, packets>>

WakeStep(s) ==
    \/ ReceiveWake(s) \/ Begin1New(s) \/ RecoverReceipt(s) \/ Begin2New(s)
    \/ RefuseWake(s) \/ Reserve(s) \/ Dispatch(s) \/ CancelDispatch(s)
    \/ CompleteWake(s)

ReadStep(s) ==
    \/ BeginRead(s) \/ AnswerRead(s) \/ CompleteList(s) \/ DropStatus(s)
    \/ FinishJob(s) \/ CloseSession(s)

Next ==
    \/ \E s \in Sessions : WakeStep(s) \/ ReadStep(s)
    \/ Tick
    \/ Restart

Spec == Init /\ [][Next]_vars

-----------------------------------------------------------------------------
(* Properties *)

\* Packets of one attempt of one issued operation go out at most once per
\* host, whatever the client resends, whichever sessions race, however long a
\* handler stalls and across restarts ("one-time ticket", begin_wake_attempt2
\* spends it; begin_wake_attempt1 reserves before the first dispatch).
AtMostOnce ==
    \A p \in DOMAIN packets : packets[p] <= 1

\* An unspent ticket never outlives the record that makes it single-use:
\* renew_cached_wake extends the lease only inside the replay tombstone.
TicketWithinTombstone ==
    \A k \in DOMAIN entries :
        entries[k].wake.attempt = 1 =>
            entries[k].wake.ticket_expires <= entries[k].expires

Executing(s) == work[s].pc \in {"reserve", "dispatch", "complete"}

\* At most one thread works on an operation at any time, and while it does the
\* record is pending under exactly its ticket and attempt, so that every copy
\* of the request is answered Busy (the reservation of begin_wake_attempt1).
OneHandlerPerOperation ==
    \A s \in Sessions : Executing(s) =>
        /\ KeyOf(s) \in DOMAIN entries
        /\ entries[KeyOf(s)].pending
        /\ entries[KeyOf(s)].wake.ticket = work[s].ticket
        /\ entries[KeyOf(s)].wake.attempt = work[s].attempt
        /\ \A r \in Sessions \ {s} : Executing(r) => KeyOf(r) # KeyOf(s)

\* An executed receipt is remembered for the whole of LEDGER_TTL: until then
\* no request, of either attempt, reaches the sender again except a retry that
\* spends the ticket, and a recovery gets the receipt of the last attempt.
TombstoneLives ==
    \A k \in Keys :
        (receipt[k].attempt # 0 /\ clock < receipt[k].time + LedgerTTL) =>
            /\ k \in DOMAIN entries
            /\ ~entries[k].pending
            /\ entries[k].wake.attempt = receipt[k].attempt
            /\ entries[k].response.kind = "executed"
            /\ entries[k].expires = receipt[k].time + LedgerTTL

\* Lifetimes are nested: a completed wake's record lives LEDGER_TTL from its
\* completion, and a retry ticket, however often a recovery renews it, never
\* outlives the record that makes it single-use (complete, renew_cached_wake).
LifetimesNested == TombstoneLives /\ TicketWithinTombstone

\* A receipt kept for replay tells the truth: it carries the ticket and the
\* attempt of its record, and accepts exactly the hosts a packet was sent to.
ReceiptTellsTruth ==
    \A k \in DOMAIN entries :
        LET r == entries[k].response IN
        r.kind = "executed" =>
            /\ r.ticket = entries[k].wake.ticket
            /\ r.attempt = entries[k].wake.attempt
            /\ r.accepted = {h \in Hosts :
                                packets[<<r.ticket, r.attempt, h>>] > 0}

\* The table of last wakes holds the instant a request read before it took the
\* cooldown mutex, and any client's request prunes it by an instant of its own.
\* Every reservation of a host nevertheless happens at least Cooldown after the
\* instant recorded for the client's previous one; and two reservations, as
\* two recorded instants, lie at least Cooldown apart less the time HoldLimit
\* that a request may spend between reading the clock and taking the mutex.
Reserves(s) == work[s].pc = "reserve" /\ work'[s].pc = "dispatch"
CooldownStep ==
    \A s \in Sessions : Reserves(s) => \A ch \in Targets(s) :
        /\ clock - last_wake[ch] >= Cooldown
        /\ clock - reserved[ch] >= Cooldown - HoldLimit
        /\ last_wake'[ch] - last_wake[ch] >= Cooldown - HoldLimit
CooldownHolds == [][CooldownStep]_vars

\* The ledger never holds more than MAX_LEDGER_ENTRIES operations nor more
\* than MAX_LEDGER_ENTRIES_PER_CLIENT of one client, so one client cannot use
\* up the room of the others; abandoned reservations count until they expire.
LedgerBounded ==
    /\ Cardinality(DOMAIN entries) <= MaxEntries
    /\ \A c \in Clients :
          Cardinality({k \in DOMAIN entries : k[1] = c}) <= MaxEntriesPerClient

-----------------------------------------------------------------------------
(* The inductive strengthening of AtMostOnce: who may still send what.     *)

\* A handler's remaining sends are unsent, and its ticket has been drawn.
UnsentTodo ==
    \A s \in Sessions : Executing(s) =>
        /\ work[s].ticket \in 1..issued
        /\ work[s].attempt \in 1..2
        /\ \A h \in Hosts :
              (work[s].pc = "reserve" \/ h \in work[s].todo) =>
                  packets[<<work[s].ticket, work[s].attempt, h>>] = 0

\* Two handlers never execute the same attempt under the same ticket.
DistinctHandlers ==
    \A s, r \in Sessions :
        (s # r /\ Executing(s) /\ Executing(r) /\ work[s].ticket = work[r].ticket)
            => work[s].attempt # work[r].attempt

\* While a record still offers its retry, nothing of attempt 2 has happened.
RetryUnused ==
    \A k \in DOMAIN entries : entries[k].wake.attempt = 1 =>
        /\ \A h \in Hosts : packets[<<entries[k].wake.ticket, 2, h>>] = 0
        /\ \A s \in Sessions : Executing(s) =>
              <<work[s].ticket, work[s].attempt>> # <<entries[k].wake.ticket, 2>>

\* No ticket belongs to two records, and an undrawn ticket has sent nothing.
TicketsUnique ==
    \A k, l \in DOMAIN entries :
        (k # l /\ entries[k].wake.attempt # 0 /\ entries[l].wake.attempt # 0)
            => entries[k].wake.ticket # entries[l].wake.ticket
UndrawnUnsent ==
    \A x \in Ticket, a \in 1..2, h \in Hosts :
        x > issued => packets[<<x, a, h>>] = 0

DispatchInv ==
    /\ AtMostOnce
    /\ UnsentTodo
    /\ DistinctHandlers
    /\ RetryUnused
    /\ TicketsUnique
    /\ UndrawnUnsent

-----------------------------------------------------------------------------
(* The strengthening of CooldownHolds: what left the table has cooled, and *)
(* no instant in use or recorded is older than HoldLimit when it is used.  *)

InstantsFresh ==
    \A s \in Sessions : work[s].pc \in {"begin", "reserve"} =>
        work[s].at <= clock /\ clock <= work[s].at + HoldLimit

Cooled ==
    \A ch \in Clients \X Hosts :
        /\ last_wake[ch] >= -Cooldown
        /\ ch \notin cooling => clock - last_wake[ch] >= Cooldown
        /\ reserved[ch] <= last_wake[ch] + HoldLimit

-----------------------------------------------------------------------------
(* The strengthening of the properties that rely on handlers finishing     *)
(* before their reservation expires: every handler and every status job    *)
(* still owns the record it reserved.                                      *)

HandlersFinish == HoldLimit < PendingTTL

\* The sessions whose thread owns a reservation, and when each was made.
Holds(s) == work[s].pc \notin {"idle", "begin"}

\* No step of a handler or a job is older than HoldLimit.
WithinHold ==
    /\ \A s \in Sessions : work[s].pc # "idle" =>
          work[s].at <= clock /\ clock <= work[s].at + HoldLimit
    /\ \A j \in jobs : j.since <= clock /\ clock <= j.since + HoldLimit

\* A reservation made at instant t is still in the ledger and not completed.
ReservedAt(k, t) ==
    /\ k \in DOMAIN entries
    /\ entries[k].pending
    /\ entries[k].expires = t + PendingTTL
HeldReserved ==
    /\ \A s \in Sessions : Holds(s) => ReservedAt(KeyOf(s), work[s].at)
    /\ \A s \in Sessions : Executing(s) =>
          /\ entries[KeyOf(s)].wake.ticket = work[s].ticket
          /\ entries[KeyOf(s)].wake.attempt = work[s].attempt
    /\ \A s \in Sessions : Holds(s) /\ ~Executing(s) =>
          entries[KeyOf(s)].wake.attempt = 0
    /\ \A j \in jobs : ReservedAt(j.key, j.since) /\ entries[j.key].wake.attempt = 0

\* No operation has two owners.
HeldOnce ==
    /\ \A s, r \in Sessions : s # r /\ Holds(s) /\ Holds(r) => KeyOf(s) # KeyOf(r)
    /\ \A s \in Sessions, j \in jobs : Holds(s) => KeyOf(s) # j.key
    /\ \A i, j \in jobs : i # j => i.key # j.key

HoldInv == WithinHold /\ HeldReserved /\ HeldOnce

\* A record offers its ticket only before the retry, and no longer than it
\* lives; it answers only when nothing is pending.
RecordSound(e) ==
    /\ e.wake.attempt = 1 =>
          ~e.wake.ticket_used /\ e.wake.ticket_expires <= e.expires
    /\ e.pending => e.response.kind = "none"
RecordsSound == \A k \in DOMAIN entries : RecordSound(entries[k])

\* What a handler has counted as accepted is what it has sent.
AcceptedSent ==
    /\ \A s \in Sessions :
          work[s].pc \in {"begin", "reserve"} => work[s].accepted = {}
    /\ \A s \in Sessions : Executing(s) =>
          work[s].accepted =
              {h \in Hosts : packets[<<work[s].ticket, work[s].attempt, h>>] > 0}

=============================================================================
