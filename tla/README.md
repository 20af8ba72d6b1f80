# A TLA+ model of RemoteOpenPower

RemoteOpenPower wakes machines over a network. A server stands in the LAN of
the machines; clients reach it over a Noise IKpsk0+psk2 connection and ask it to
send magic packets to hosts they are allowed to wake. This directory holds
TLA+ modules translated from `src/*.rs`, the TLC configurations that check
them on small instances and TLAPS proofs of the results that matter most.
`PROJECT.json` maps every definition to the lines it models and lists runs,
mutants, hazards and theorems.

Paths below are relative to the repository; "server.rs" is `src/server.rs`.

## 1. Inventory

| Component | State | Operations | Talks to |
|---|---|---|---|
| Ledger and wake handler (server.rs) | records per (client, operation id) with digest, ticket, attempt, receipt, expiry; ticket index; cooldown table | begin attempt 1/2, begin read, complete, renew, prune, reserve targets, dispatch | every session thread, through two mutexes; the sender |
| Access policy and session loop (server.rs) | published policy (configuration, snapshot, enrolled clients, health); each session's snapshot | reload, publish, check, adopt, authorise, dispatch under the mutex, stop | accept thread writes, sessions and probes read |
| Admission (server.rs) | counters for all connections, per address, pending handshakes, handshakes, per client, probes | acquire and drop of permits, spawn, join | accept thread, connection threads, probe threads |
| Replay cache (security.rs) | nonces with expiry and a confirmed mark | reserve, confirm, prune | handshakes of all connection threads |
| Transport (security.rs) | sequence numbers, buffers | handshake, send and receive a frame | library `snow` |
| Monitors and probes (server.rs, probe.rs) | per session: deadline, hosts seen online, probe task | schedule, retire, poll, report online | ledger (attempt check), probe pool |
| Rate limiter (server.rs) | buckets per key | allow | accept thread, sessions |
| Client actor (client.rs) | connection, back-off, pending operations, event queue | connect, send, validate and deliver events, recover | server, CLI or TUI through channels |
| Wake progress (wake.rs) | start, first receipt, accepted and online hosts | receive, observe, outcome | CLI, TUI |
| CLI (main.rs) | the two-attempt loop | list, wake, retry, recover | client actor |
| TUI (tui.rs, tui_core.rs) | screens, server thread, editors, wake session | start and stop server, issue and revoke credentials, wake | server, client actor, configuration |
| Configuration and credentials (config.rs, private_file.rs) | files | load, validate, save, issue, remove verified | TUI, server reload |
| Logging (logging.rs) | bounded queue, file guard | log, drain, report | all |
| Magic packets (wol.rs, wol_network.rs) | none | route selection, send | ledger's dispatch |

What is hard here: a thread per connection shares four mutex-protected tables
and takes each mutex several times per request; instants are read before the
mutex they are used under; a client may resend anything on any connection;
records and tickets expire at different times; the configuration changes under
live sessions; permits are taken by one thread and returned by others; a stop
has to collect every thread. Nothing but configuration is persisted: a restart
forgets the ledger (README.md line 147 says so).

What makes each part correct:

- ledger: a packet per attempt, never two; a ticket is single-use and cannot
  outlive its record; a receipt is true and kept for its full time; quotas;
- policy: a send is authorised when it happens; the file on disk comes to
  govern; revoked sessions end; a stop finishes;
- admission: no permit lost or returned twice; limits; room for other addresses;
- replay cache: a confirmed first message is never accepted again; bounds;
- transport: an honest stream is never refused; one deadline bounds every
  wait; a failed connection is not used again;
- client actor: what reaches the front end answers what was asked; an answered
  request is reported; a shutdown ends the actor;
- progress, CLI, TUI: packets once per attempt, a retry only after the wait, a
  recovered receipt does not restart the wait, "complete" and exit code 0 are true,
  every wake ends;
- files and credentials: an interrupted save leaves the old or the new file; a
  granted client has its bundle; removal never touches another file; a repair does
  not widen access;
- console: no edit is lost between pages, cursors match lists, the phase shown is
  the thread's;
- logging: a line is shown, written or counted as omitted, and the logger gets
  through a panic inside it;
- route: the unique longest prefix match or a refusal; a directed broadcast only.

## 2. Modules

| Module | Models | State and actions |
|---|---|---|
| `WakeLedger` | `Ledger`, `process_envelope`, cooldowns, status jobs | One action per critical section of a handler. `work[s]` is the session's place between them with the instant it read; `entries`, `tickets`, `last_wake` are the shared tables. A response is its attempt, ticket and accepted hosts; a digest is kind and hosts (SHA-256 taken as injective). A refused target, an expired catalog and a header mismatch change nothing here and are left to `SessionPolicy`. `packets` and `receipt` are history variables. |
| `SessionPolicy` | `refresh_access_policy`, `run_with_shutdown`, `handle_connection`, dispatch loop | `policy` is the published policy, `holder` the policy mutex while a packet is sent, `sess[s].snap` the adopted snapshot. Load and publish are two steps as in the code. Everything `session_policy_current` compares besides targets is one value, `secrets`. The ledger's and the cooldown's answers are a nondeterministic choice in `Request`. Probe threads only read the policy and are left out. |
| `Admission` | limiters, permits, accept loop, probe pool, stop | Permits are taken in the order of the accept loop and dropped one at a time in the order Rust drops them: reverse declaration order for locals and parameters, explicit drops after a handshake, no specified order for a closure that was not spawned. The probe pool's load and compare-exchange are two steps. |
| `HandshakeReplay` | `ReplayCache`, validation, key confirmation | A hello has a stamp and may be delivered any number of times at any time; `own` marks the client's own connection, the only one that can produce a valid first request. One clock serves for wall and monotonic time. |
| `WakeContract`, `WakeLedgerRefinement` | the promise of one wake, and that `WakeLedger` keeps it | `WakeContract` has one record per ticket: its attempt, whether it is being executed, the hosts that got a packet. The refinement mapping reads these off the ledger's records, the handlers and the packet history; a forgotten wake is a ticket no record names. |
| `Transport` | `client_handshake`, `server_handshake`, `SecureConnection`, the polling half of `handle_connection` | Bytes are cells of a frame. `wire` is a bounded byte stream, `buffer` the read buffer, `out` the rest of the current write. `PollPayload` is one `poll_payload` with any chunk. Noise opens the next untouched body of its direction. |
| `ClientActor` | `client_actor` and everything it calls for wakes | The actor between a command queue, a bounded event queue and `link`, one action per turn of its loops. It has no driver and no server of its own. |
| `ClientPeer` | the actor with any driver and any authenticated peer | The driver queues any command, with any hosts, attempt and ticket, and reads slowly; the peer sends any well-formed message: a receipt of any hosts of which any were accepted. |
| `ClientCatalog` | host lists and statuses: actor, session, status jobs, what is shown | Requests, jobs, the published `policy` (a catalog and the client's hosts) and the `catalog` the session adopted. The session reads the client's hosts as it begins an answer (`ServeRequest`, `FinishJob`), lets the policy mutex go and sends later (`SendAnswer`); a policy may be published between any two steps, and also between the session's check and its adoption. Requests may be answered by the ledger's errors. |
| `WakeServer` | the actor composed with the server's wake service for one operation | Ledger record, dispatch, receipt, monitor with its target-online events, over a connection that breaks and requests that outlive it. |
| `WakeProgress` | `wake.rs` | Operators on a progress record: receive, observe, outcome, countdown, recovery limit. |
| `WakeTui`, `WakeCli` | the wake of the TUI and of the command line, each over `WakeServer` | The TUI recovers a lost connection, the command does not. |
| `RateLimiter` | `RateLimiter::allow`, called for address and client | Instants read before the mutex may be late by `Lag`. `served` counts what was let through in the last ticks. |
| `AtomicFile`, `PrivateFiles` | the promise of a private file; `write_private_toml`, `read_private_text`, `remove_verified` on Unix | Names and files are separate; every system call is a step that may fail; a crash leaves a moment since the last directory sync and tears unsynced files. The promise of a call includes that others may take the document away and put one back. |
| `Credentials` | issuing, editing, revoking, saving (tui.rs, config.rs) | Memory, the shown and the durable configuration, bundles, with the three answers of `AtomicFile`. |
| `CredentialStore` | finding, checking and repairing the client's credential (client.rs, config.rs) | Files with document, owner, mode, whether their group is the user's, and an oddity (too large or linked twice). Discovery looks for the primary name and then walks the other names one at a time (`Discover`, `Visit`, `WalkEnds`); a repair reads, looks at the file it will replace, and renames (`RepairRead`, `RepairStat`, `RepairRename`). Files are copied in between at any moment. |
| `Console` | pages, editors, lists, server thread and client of the TUI | A list is its length and cursor; one action per key and page. |
| `Logging` | logging.rs | The state mutex with its holder, sink, file, the two bounded queues, the panic hook. |
| `WakeRoute` | `select_ipv4_route`, `send_ipv4_magic_packet` | One action per turn of the loop; the system's addresses may change before the bind. |
| `Probe` | `PlatformStatusProbe::is_online`, `fixed_ping` | Elapsed time against the budget, the ping process. |
| `MCWakeLedger`, `MCSessionPolicy`, `MCAdmission`, `MCHandshakeReplay` | instances for TLC | constant values, symmetry |
| `FrontEnds` | the client program, which runs the TUI or the wake command | Extends both; `mode` says which runs. The properties of the two together and the inductive invariants of their proofs. |
| `MCFrontEnds`, `MCConnection`, `MCOperator`, `MCServerParts` | instances of one or several components for TLC | see "Several scenarios or components in one run" |
| `WakeLedgerProofs` | TLAPS proofs about `WakeLedger` without and with the assumption that handlers finish, and of its refinement | extends `WakeLedgerRefinement` |
| `FrontEndProofs` | TLAPS proofs about the two front ends over actor, connection and server | extends `FrontEnds` |
| `SessionPolicyProofs`, `AdmissionProofs` | TLAPS proofs | extend the module they prove about |
| `SecurityProofs` | TLAPS proofs about `Transport` and `HandshakeReplay` | extends the two |
| `ClientProofs` | TLAPS proofs about `ClientPeer` and `ClientCatalog` | extends the two |
| `ServerPartsProofs` | TLAPS proofs about `RateLimiter`, `WakeRoute`, `Probe` and `Logging` | extends the four |
| `OperatorProofs` | TLAPS proofs about `Credentials`, `CredentialStore`, `Console` and `PrivateFiles` | extends the four |

How they compose. `ClientActor` is extended by `ClientPeer` (any environment) and by
`WakeServer` (the server's own service), which is extended by `WakeTui` and
`WakeCli`; both use `WakeProgress`, and `FrontEnds` extends the two. `Credentials` takes saves as the atomic steps that
`PrivateFiles` is shown to implement, and `WakeServer` takes one ledger record as
`WakeLedger` has it. The other modules share no variables: where one component's answer matters to another
it is a nondeterministic choice that includes every answer the other can give
(policy checks cancel a dispatch in `WakeLedger`, the ledger and the cooldown let
a request through or not in `SessionPolicy`, either ends a session in
`Admission`), so what is shown of each holds in their composition.

Names ending in `_Something` after a `Mutant:` comment are wrong versions of a
definition. They are used by no specification; each is there to show that a
property notices that mistake.

## 3. Runs

| Run | Checks | Bounds |
|---|---|---|
| `wake_race` | OneHandlerPerOperation, LifetimesNested, ReceiptTellsTruth, ImplementsContract, CooldownHolds, types | two sessions of one client, one operation id for wakes and reads, two hosts, two tickets, clock to 3, leases of two ticks (RETRY_TTL = PENDING_LEDGER_TTL = 2, LEDGER_TTL = 3), no status jobs, restarts; handlers finish within PendingTTL |
| `wake_stalled` | AtMostOnce | one host; handlers and jobs may stall past PendingTTL, restarts, reads with the wake's id |
| `wake_shared` | LedgerBounded | two clients, room for one record each, wakes and reads with overlapping ids; one ticket, clock to 5 |
| `policy` | SendAuthorised, DiskGoverns, RevokedSessionsClose, StopFinishes, types | edits that revoke, narrow and retarget, move, break and restore; `pair`: two sessions, one save; `edits`: one session, two saves |
| `policy_targets` | TargetChangeCloses, violated | two sessions, one save |
| `admission` | CountersExact, RoomLeft, StopReturnsAll | three connections; `tight`: two addresses, two clients, fewer permits than connections, probes, a stop (addresses and clients are told apart by who has them, so one connection's are fixed); `room`: one address, pending < ip < handshake as in the code |
| `replay` | NoReplayAfterConfirm, CacheWithinLimits | two threads; `late`: two hellos of one client, clock to 6, the least REPLAY_TTL the proof allows; `full`: three hellos of two clients, cache of two, clock to 2 |
| `front_ends` | RetryAfterWait, RetryHonoured, OutcomeIsTrue, WakeEnds | `alone`: TUI, one host, clock to 8 (first attempt, loss, recovery, wait, retry), one lost connection; `shown`: TUI, two hosts, the user leaves and returns, nothing lost, clock to 3; `command`: the wake command, one host and one lost connection, or two hosts |
| `connection_safe` | ConnectionSound, OnlyAnswers, AnsweredWasTold, CatalogSound | frames: records of one and two body cells, two of them from the client, socket of three cells, one fault; actor: one operation, wakes of any of two hosts, three messages of any peer, event queue of two, two connections; catalog: batches of one host, a catalog with the same two entries in both orders and one with a single entry, one refresh, two policies published, one reconnect |
| `connection_ends` | DrippingPeerDropped, ShutdownEnds, EveryHostSettles | the same layers; frames: one record each way, no fault; actor: one host, one wake, one message, a shutdown at any moment; catalog: one refresh, one policy published, one reconnect |
| `operator` | DocumentsKept, NothingOverwritten, WritesAtomically, CredentialsSound, RepairHarmless, ScreensSound | two writers and a remover, one crash; two clients, two hosts, five actions, one crash; the primary credential name and two others, documents of two clients and junk, two copies or removals; lists of two rows, two saves, two connects, two events of the server thread |
| `server_parts` | RatesBounded, LongestPrefixMatch, SharedBudget, NothingLost, ThreadsEnd | limit 2 in a window of 5, calls held up by one tick, so that three ticks are counted; room for three of four keys; two sessions that share an address or a client and a third that calls at the start; clock to 7; four-bit addresses, all inventories of up to three out of thirteen entries in every order, four targets; budgets below, in and above the range, one and three ports; two workers, queue of two lines, two panics, the log calls of one worker |

### Several scenarios or components in one run

Where one component is followed with different bounds, its MC module has a variable
`scenario`, chosen initially, that restricts the steps of a behaviour (fewer hosts and
a longer clock, or more hosts and no losses): the reachable states are the union of
those of the scenarios, and each is a state of the component's specification under
the constants of the cfg. Only `tight` in `MCAdmission` is an instance under other limits,
which are smaller ones. The restrictions concern what no fairness asks for (losses, saves,
arrivals, the user), so that the liveness checked in a scenario is that of the component.
The exception is the clock of `shown`, which serves safety: WakeEnds is checked by `alone`
and `command`, whose clock ends after every wake has.

`MCConnection`, `MCOperator` and `MCServerParts` put several components next to each
other by extending components whose names are distinct, so that the properties of
these runs are the components' own, and the ones the theorems state. The components
share no state, so their interleavings say nothing that each alone does not: the
variable `layer` or `part` is chosen initially, a behaviour takes the steps of that
component only, and the variables of the others keep their initial values.
`FrontEnds` composes the two front ends in the same way, by how the program was started.
Fairness is stated for disjunctions such as "the probe connects or the terminal
thread steps": in one behaviour at most one disjunct can be enabled, so fairness of
the disjunction is that of the disjunct.

The parts of the conjunctions, by the module that defines them. Those of one
component are defined in its own module under the name in the left column, those of
the front ends in `FrontEnds`; most include the type invariants:

| Property | Parts |
|---|---|
| LifetimesNested | WakeLedger: TombstoneLives, TicketWithinTombstone |
| CountersExact, RoomLeft | Admission: PermitsConserved, ProbesCounted; LimitsHold, OneAddressLeavesRoom |
| CacheWithinLimits | HandshakeReplay: CacheBounded |
| RetryAfterWait | WakeServer: OncePerAttempt; WakeProgress: RetriedAfterWait; WakeTui: CountdownKept |
| OutcomeIsTrue | WakeTui: CompleteIsTrue; WakeCli: OkIsTrue |
| ConnectionSound | Transport: HonestNeverRefused, BlockedBounded, NothingAfterFailure |
| OnlyAnswers, AnsweredWasTold | ClientPeer: ToldAnswers, AttemptsInOrder; SeenWasTold, PhaseReported |
| CatalogSound | ClientCatalog: OneAnswerEach, AnswersAccepted, AllowedWhenSent |
| DocumentsKept, NothingOverwritten | PrivateFiles: NeverTorn, OnlyExpectedRemoved, RejectedKept; OverwrittenOnPurpose |
| CredentialsSound | Credentials: GrantedHasBundle, MemoryIsDisk, RevokedForGood, CandidatesValid |
| RepairHarmless | CredentialStore: OnlyCertainPaths, RepairInPlace, RepairKeeps |
| ScreensSound | Console: NoUnsavedEdits, DraftsAreValid, OwnListsIndexed, ClientOnItsPages, PhaseIsTrue |
| RatesBounded, SharedBudget | RateLimiter: NeverTwoBursts, RoomForTheActive; Probe: BudgetKept |
| LongestPrefixMatch, NothingLost | WakeRoute: BestIsUsed, DirectedNeverGlobal; Logging: EveryLineSomewhere, NothingLeft |

### Bounds

Why the bounds are enough to be interesting. Times keep the order of the code's
constants (retry <= pending < ledger; skew < pending < replay) at a scale where
the clock passes every expiry: in `wake_race` a first attempt can be reserved,
completed, recovered, retried and completed again, or its record can expire,
before the clock ends; and a lease of two ticks can have less than that left on a
record of three, so that whether `renew_cached_wake` renews it is a real question. Two tickets let an expired operation be executed a second
time. `HoldLimit` bounds how long a handler uses an instant it read: in the code a
handler makes a bounded number of sends with a 3 second write timeout and a
status job probes at most 8 hosts for at most 5 seconds each, 40 seconds, while
PENDING_LEDGER_TTL is 120. `wake_stalled` drops that assumption, to see which
properties rest on it: AtMostOnce does not, OneHandlerPerOperation and
ReceiptTellsTruth do, because `complete` finds its record by key alone.
In the client runs the times keep the code's order too (wait < pending operation;
retry lease + recovery + connect + receipt < ledger, the assertion at server.rs line
61), and the clock covers first attempt, loss, recovery, wait, retry and
the end of the second attempt; that a record may expire before is left to the runs
of the ledger and to the proof. The socket of three cells is shorter than the longest frame of four, so a frame is never
written at once; a buffer of four cells can hold a short frame and the head of the
next. In `server_parts` two bursts of two can meet
around the end of a window of five: three requests within the three ticks that are
counted do occur, four never. Three interfaces are what the loop needs to meet a tie and then a longer
prefix, the case where its flag must be cleared. Five actions of the operator and one
crash reach every pair of answers and a revocation that follows an uncertain one.
In `admission` the `room` limits let a failed handshake hold its permit while its address
starts the next one, so that only the limit per address keeps the pool open.
`TypeOK` of `WakeLedger` and `HandshakeReplay` also say that records and threads
name tickets and hellos that exist.

### What the violated run shows

`policy_targets`. `handle_connection` calls `session_policy_current` and then
`adopt_access_policy`, each with its own acquisition of the policy mutex
(server.rs lines 1294 and 1297). A reload with another target published between
them is adopted by the session, which then compares the new policy with itself
and stays open. README.md line 90 says that a target change closes old sessions.
The consequence is small: requests with the old catalog version are still
refused, and every send is still authorised against the published policy
(`SendAuthorised`), but the session is not closed.

### Worth knowing

Observations made while modelling that no run states as a property.

- When the client actor ends during a wake the TUI says that the wake is kept and
  will be recovered after reconnecting (tui.rs line 1408). Leaving the page and
  connecting again both call `shutdown_client`, which clears the wake first
  (`Disconnect` in `WakeTui`). A connection that breaks while the actor lives is
  recovered as announced.
- README.md line 143 says that a revocation deletes the issued file. If the
  configuration is replaced but not confirmed durable the revocation is in force,
  but the save counts as failed (tui.rs line 507) and the file is not deleted, then
  or later (`Saved` in `Credentials`).
- Esc in the settings editor leaves `settings_editing` set (tui_core.rs line 768), so
  the digits that move between the server pages (line 544) and start the server by 4
  do nothing on the pages reached that way (`LeaveSettings` and `Navigable` in `Console`).
- `connect_client` (tui.rs line 788) writes client settings before it loads the
  credential. If that fails, memory has no client settings, the check that keeps
  server and client files apart (line 543) passes, and a server save replaces them
  (`Connect` and `Refuses` in `Console`).
- A Unix repair keeps the owner and mode of the file it replaces (config.rs line
  898), so a credential refused for its mode or owner is not repaired, or is
  reported as repaired and still refused (`Replacement` in `CredentialStore`).
- A credential copied over a broken one while that is being repaired, after the
  repair's read, is replaced by the older text (client.rs line 201): the read and the
  rename are not tied together by a lock or a second look. RepairKeeps states what
  holds, of every file that was not touched in between.
- Discovery tests for the primary name and then lists the directory (client.rs line
  268). A primary credential copied in between is overlooked, and another name is
  loaded (`Discover` and `Visit` in `CredentialStore`); OnlyCertainPaths speaks of
  what was there throughout.
- A reload that only reorders hosts changes the catalog version (server.rs line 2597)
  but not what `session_policy_current` compares (line 1070), so the session stays
  open and adopts it. The answer of a status job that was running carries the new
  version (line 2201), which the client refuses by closing the connection (client.rs
  line 1064), with every wake on it. AnswersAccepted excepts exactly these answers.
- Hosts revoked between the check of an answer (server.rs line 2192) and its sending
  (line 2212) are still in that answer. AllowedWhenSent excepts exactly these.
- A crash report deferred because the logger was busy may be taken by the TUI's
  drain just before the server thread closes the service log, and is then shown but
  not in that log (`Flush` and `FileClosed` in `Logging`). It is not lost: NothingLost.
- A target-online event of attempt 1 that crosses attempt 2 on the wire is
  refused by the client, which closes the connection. The TUI recovers, the
  command line reports a failure. `OutcomeIsTrue` holds.
- Refreshing faster than the server answers piles up requests; at 16 the client
  closes the connection.
- A host list left by a client's catalog together with an old cursor lets the
  delete and edit keys of the server page index past its end (tui_core.rs lines
  581 and 732). `OwnListsIndexed` states what holds of the server's own lists.
- A crash between the hard link and the unlink of `remove_verified`
  (private_file.rs line 80) leaves a file with two links, which later loads refuse.
- The ping's deadline is counted from when its process runs, so a probe may
  exceed its budget by the time a spawn takes (`SpawnTime`).
- When the log queue overflows, the notice refers to the service log, which a
  client does not have.

### Fairness

`SessionPolicy`: every thread runs, with strong fairness for its steps because
they wait for a mutex that others take and release. The mutex is held for at
most one send, and rate limits and cooldowns bound how often a session comes
back for it. Strong fairness of `Load` stands for the refresh that falls due
every 250 ms whatever is accepted. Nothing is assumed of the operator or of
clients: no fairness on saves, stops or arrivals, and a session may go on as
long as it likes unless the code ends it.

`Admission`: weak fairness of every thread; strong fairness of the end of a
round, since a round starts a bounded number of probes and its sends have
timeouts; a probe has a timeout, so probe threads end.

`ClientPeer`, `ClientCatalog`, `WakeTui`, `WakeCli`: the actor, the front end and the server's
threads run (weak fairness) and time passes. `Tick` is strongly fair in the last two
because it waits until the polling loops have caught up. No fairness for the
network: messages and connections may be lost at any moment.

`Transport`: time passes, the server's thread polls and notices deadlines; the client
need do nothing. `Probe`: its thread runs; the ping process need not end. `Logging`:
every thread takes its steps; strong fairness for closing file and sink, which
wait for a mutex others take a bounded number of times.

`CHECK_DEADLOCK FALSE` is set where the server, a connection or a call may end or
the bounded clock stops. In `wake_race`, `wake_stalled` and `wake_shared` deadlock is
checked: a session can always answer or start something.

## 4. Proofs

The theorems hold for arbitrary constants under the named assumptions below, which
TLC evaluates on every run. Each safety property is proved by an inductive invariant
that is defined next to the property in the component's module and was checked with
TLC before it was proved. Lemmas are named for what a step does; the step of an
action cites the lemma of its kind.

| Theorem | Property | Assumptions |
|---|---|---|
| `WakeLedgerProofs` TypeCorrect, NoDuplicateDispatch, LedgerKeepsLimits, CooldownRespected | TypeOK, AtMostOnce, LedgerBounded, CooldownHolds | SetsAssumption, TimesAssumption; LimitsAssumption for LedgerBounded |
| `WakeLedgerProofs` OneHandler, LifetimesAreNested, ReceiptsTrue, LedgerImplementsContract | OneHandlerPerOperation, LifetimesNested, ReceiptTellsTruth, ImplementsContract | the same and HandlersFinish |
| `SessionPolicyProofs` PolicyTypes, SendsAreAuthorised | TypeOK, SendAuthorised | ConfigAssumption |
| `AdmissionProofs` CountersAreExact, RoomIsLeft | CountersExact, RoomLeft | LimitsAssumption, HandshakeAssumption |
| `SecurityProofs` ReplaysRefused, CacheKeepsLimits | NoReplayAfterConfirm, CacheWithinLimits | ReplaySets, ReplayTimes, ReplayLimits |
| `SecurityProofs` ConnectionIsSound | ConnectionSound | TransportAssumption |
| `ClientProofs` AnswersAreSound, AnswersAreTold | OnlyAnswers, AnsweredWasTold | PeerAssumption, which includes ActorAssumption |
| `ClientProofs` CatalogIsSound | CatalogSound | CatalogAssumption |
| `OperatorProofs` DocumentsAreKept, NothingIsOverwritten, WritesAreAtomic | DocumentsKept, NothingOverwritten, WritesAtomically | FileAssumption |
| `FrontEndProofs` OutcomesAreTrue, RetriesWait, RetriesHonoured | OutcomeIsTrue, RetryAfterWait, RetryHonoured | FrontAssumption: ActorAssumption, ServerAssumption, CommandAssumption |
| `ServerPartsProofs` RatesAreLimited, BudgetIsShared, RouteIsLongestPrefix, LinesAreNotLost | RatesBounded, SharedBudget, LongestPrefixMatch, NothingLost | RateAssumption; ProbeAssumption; RouteAssumption and PowersAreNumbers; LoggingAssumption |
| `OperatorProofs` CredentialsAreSound, RepairsAreHarmless, ScreensAreSound | CredentialsSound, RepairHarmless, ScreensSound | none; StoreAssumption; ConsoleAssumption |

### The ledger

- `NoDuplicateDispatch`. AtMostOnce alone is not inductive: nothing in it says
  that a handler about to send has not sent before. `DispatchInv` adds who may
  still send what. A handler's remaining sends are unsent (UnsentTodo); no two
  handlers execute the same attempt under the same ticket (DistinctHandlers);
  while a record offers a retry, nothing of attempt 2 has happened under its
  ticket (RetryUnused); no ticket is in two records (TicketsUnique); an undrawn
  ticket has sent nothing (UndrawnUnsent). The argument needs no bound on how long
  a handler stalls, and survives restarts, because it hangs on the ticket and not
  on the operation's record.
- `LedgerKeepsLimits`. Every step stores at most one record, and only after
  ensure_capacity has counted those that are left; the counts are of finite sets.
- `CooldownRespected`. An action property of the two instants a reservation has, when
  it happens and the one the handler read and records, which may be older by the time
  the request was held up at the mutex. A reservation happens at least a cooldown
  after the instant recorded for the one before, whoever pruned the table meanwhile;
  two reservations, and two recorded instants, are a cooldown apart less HoldLimit.
  That is what the code gives: a handler held up before it reserves may record an old
  instant, and the next one counts from that. What leaves the table has cooled
  (`Cooled`), so a pair that is not in it may be reserved at any instant read.
- `OneHandler`, `LifetimesAreNested` and `ReceiptsTrue` need HandlersFinish
  (`HoldLimit < PendingTTL`); `complete` finds its record by key alone, and without
  the assumption TLC finds each violated. `HoldInv` says that each handler and
  status job still owns the record it reserved and that no record has two owners.
  On it rest RecordsSound and TombstoneLives (an offered ticket dies with its record
  at the latest), AcceptedSent (what a handler has counted is what it has sent) and
  TruthInv (a stored receipt is of the record's ticket).
- `LedgerImplementsContract`: see section 5.

### Sessions, admission and handshakes

- `SendsAreAuthorised`: with the strengthening SenderHolds, that a session is sending
  exactly when it holds the policy mutex. So while it sends nobody publishes, and
  the check it made is still true.
- `CountersAreExact`, `RoomIsLeft`. `AdmissionInv` adds to the counts where each
  permit may be held: one arrival at a time (OneArrival), the kinds a place in the
  code may own (OwnedWhere), a handshake permit only with one of its address
  (HandshakeUnderIp), and that a thread about to exchange the pool's counter has
  seen a free slot (SlotSeen). The counters are cardinalities of holders; every step
  takes one permit, drops one or leaves them alone. RoomLeft follows as the
  handshakes of an address are fewer than the handshake limit by HandshakeAssumption,
  the code's compile-time assertion.
- `ReplaysRefused`, from `ReplayTTL > 2 * Skew + HoldLimit`. A confirmed nonce is in
  the cache until no copy of its hello can be validated or wait, validated, for the
  mutex (ConfirmedRemembered), and a thread's reading of the clock is neither too old
  nor before the hello's earliest acceptance (TimelyThreads). The code's values
  are 180 s against 2 * 60 s plus the time between a reading and its use. TLC
  finds the property violated one unit below the assumption.
- `CacheKeepsLimits`: a confirmation never adds an entry, so the guard of reserve is
  enough, for all three limits.

### Connections and the client

- `ConnectionIsSound`, for frames and buffers of any size. That an honest stream is
  never refused says nothing of the cells still under way, so `FrameInv` adds InOrder:
  while the path is faithful, the cells of an end that its peer has not taken, in
  the buffer, in the socket and in the rest of the write, are its frames from the
  next one the peer takes to the last one encrypted, each whole and in place except
  that a failed write may cut the last one short (Ordered). The places where frames
  begin are a witness of the formula and not a function of the sizes, as that
  function would be recursive. A read that takes any number of cells, a frame
  dropped at the head and a record appended at the end preserve it. InSequence
  relates the two sequence numbers to the records encrypted and delivered, so the
  next frame opens; OneDeadline says that the time a wait has taken and the time it
  has left are one timeout; Progress keeps a failed end from sending or delivering.
  TLC checks FrameInv with the witness computed; the formula itself quantifies
  over all functions.
- `AnswersAreSound`, `AnswersAreTold`: the driver and the peer are arbitrary. `PeerInv`
  adds that what the actor remembers of an operation was sent and, once seen, told
  (Remembered), and that every request younger than PendingOpTTL is remembered with
  no smaller attempt (LatelySent), on which the order of the attempts rests: an
  operation that is forgotten can only be asked for again when its request has
  expired. LastHeard says where the last connection event is, in the queue or with
  the driver; it survives a full queue only because the actor ends the connection.
- `CatalogIsSound`. OneAnswerEach counts places with cardinalities. `CatalogInv` says
  the same without counting (InOnePlace), with what each message or job must agree
  with in the request it answers (ForRequests), and that one list at a time is
  outstanding (OneList), so that no answer arrives for a request that is gone. Numbers
  of requests are never used twice. `overtaken` remembers the jobs that ran when the
  session moved to another catalog: theirs are the only answers the client may
  refuse. AllowedWhenSent is an action property of the send: the hosts of the answer
  in hand were read under the mutex when it was begun, and `revoked` collects what
  was taken away since.

### The front ends

Here the front end, the actor, the connection, requests left in old connections and
the server's record are in one induction. `FrontAssumption` has the relations of the
times that the code asserts at compile time (server.rs line 61), that the configured
skew is at most RETRY_TTL (config.rs line 599 bounds it by 60 s, RETRY_TTL is 90 s),
that a dispatch and a delivery are bounded, and that there is an operation. The proofs
are in two layers: what a step of actor, connection or server can do to the queues and to
the record (ActorMoves, ServerMoves and their lemmas), then what each invariant makes
of it. All three invariants are in `FrontEnds`.

- `OutcomesAreTrue`, by `OutcomeInv`: what is on its way to the user or shown as online
  was found by a probe of that attempt (OnlineProbed), and a final phase is kept with the
  progress it was derived from (EndsKept).
- `RetriesWait`, by `WaitInv`. That packets go out once per attempt is a race between
  the age of a request and the life of its record: every request for the first
  attempt was made within the recovery window of the wake's beginning and is refused
  ClockSkew later, while the record lives for LEDGER_TTL from then (BeganAt).
  SecondIsDue follows an attempt 2 from the command through the connection to the record;
  CountsDown relates the front end's deadline to the first receipt; OneTicket says that
  the ticket a retry uses is that of the record.
- `RetriesHonoured`, by `RetryInv`: WaitInv and, for the TUI, that a receipt which has
  not been acted upon was made at some moment t at which the record got a lease until
  t + RETRY_TTL and lives at least as long (Covers, ReceiptsCover), that messages arrive in
  order and within NetDelay (Prompt), and that a retry sent on the present connection is
  the only one and still in time (RetryKept). Covers is kept by every renewal, as leases
  only grow. The history variable `retry` says "lost" as soon as the connection
  on which the retry was sent is gone, by a failure or because the user
  disconnects: what the server answers to it then, nobody waits for.

### Rates, probes and routes

- `RatesAreLimited`. Requests are charged at an instant read before the mutex.
  `Counted` relates a bucket to what was charged: everything charged later than
  Lag after the bucket's start is in its count but for its first request, which is
  older; so what was let through in the last `Window - 2 * Lag` ticks is less than the
  count and one earlier burst. It needs `2 * Lag < Window`. Over a longer interval
  more is possible, and the property claims nothing: with calls held up by `Lag` at
  both ends, requests of three windows may fall into one window's length.
- `BudgetIsShared`: `InTime` says what each phase of a probe has used and what the
  connections still to try may use.
- `RouteIsLongestPrefix`. The loop's invariant: of the entries visited, `selected` is
  one of the longest prefixes, `ambiguous` is set exactly when another interface has
  one, and the source is the lowest otherwise (BestSoFar). The listing's order and
  length are arbitrary. That a packet goes to a subnet's broadcast address, never to
  the global one, needs that 2^p is a positive number for the prefix lengths in
  question, PowersAreNumbers. That is an induction, which the provers cannot do, so
  it is a hypothesis of the theorem; the run's ASSUME evaluates it.

### The logger

`LinesAreNotLost`, by `LogInv`. NothingLost has a sum in it: what the queues say they
omitted is the number of lines dropped. This needs that a line is in one place
(OnePlace), so that a line dropped is one more, and that lines are told apart: `said`
is a set of lines (thread, kind, number), and Numbered says that a line about to be
made has a number no earlier line of its kind has. NothingLeft, that nothing waits
when all threads have ended, is an argument about the order in which the guards are
dropped (Nested): no worker lives when the service log is closed, so no report is
deferred after the server thread has written the deferred ones, and the sink is
taken by the main thread only after the server thread has ended; Stage says what a
thread still holds at each of its steps. The number of workers, panics and lines and
the length of the queue are arbitrary.

### Files, credentials and screens

- `DocumentsAreKept`, `NothingIsOverwritten`. `FileInv` says of every moment a crash may
  bring back what is wanted of the present one, that a file which can be reached is
  whole, and that a file which must keep a name keeps one no pending removal
  takes away (Anchored). Any number of writers, removers and crashes.
- `CredentialsAreSound`. `CredInv` states soundness of every configuration that a
  crash may bring back, not only of the one shown, and that what an operation in
  progress is about to grant is still fresh (OpFresh).
- `RepairsAreHarmless`, by `StoreInv`. What a repair is about to write was copied to
  the name it writes to, and a name that nobody touched since it was read still has
  the document and the access the repair saw (RepairKnown, AccessKnown). A walk that
  goes on has passed no steady name but its candidate (WalkKnown); `steady` is what was
  there throughout the walk, whatever came and went. RepairKeeps is an action
  property of the rename. It excepts a file that was put at the repaired name after
  the repair's read: `repair_credential_bundle` does not look again (see "Worth
  knowing").
- `ScreensAreSound`. `ConsoleInv`: what may be unfinished or open on which page
  (PageInv), cursors within their lists and open editors within their rows
  (ListInv), the phase never ahead of the thread (ServerSound). For lists of any
  length and any number of saves, connects and events.

### Only model-checked

Liveness, which the prover does not handle: DiskGoverns, RevokedSessionsClose,
StopFinishes, StopReturnsAll, WakeEnds, DrippingPeerDropped, ShutdownEnds,
EveryHostSettles, ThreadsEnd. Every other property of a passing run is the property
of a theorem.

## 5. Refinements

`ImplementsContract` (run `wake_race`, theorem `LedgerImplementsContract`): `WakeLedger`
implements `WakeContract` as long as handlers finish within PENDING_LEDGER_TTL. A
ticket is drawn by the reservation of attempt 1, its second attempt starts when the
retry consumes the ticket, a handler that was cancelled abandons the wake it was
executing, and a restart forgets every wake at once. The proof maps each step of each session to one
step of the contract or to none, from the invariants of `WakeLedgerProofs`.

`WritesAtomically` (run `operator`, theorem `WritesAreAtomic`): `PrivateFiles` implements
`AtomicFile`. The rename is the instant at which the document changes; the answer is
"done" only after the directory is synced, "uncertain" between, and "not done" before
the rename. A crash leaves a document that the answers allow. Removers work on the same
path: they may take the document away and put back the first one or that of a call
whose replacement happened, never that of a call which failed. `Credentials` is built on
that interface.

## 6. Not modelled

- The wall clock and the monotonic clock are one clock.
- Noise, the encoding and the field validators of config.rs and protocol.rs: pure
  functions without state; the checks that relate a message to state are modelled.
- Windows: ACLs, handle-based removal, adapter enumeration.
- A `kill` of ping that fails (probe.rs line 146): it fails only for a process that has
  ended, as the child is the server's own; `Probe` reaps it in one step.
- Rendering, colours, mouse, text editing inside a field, keys with modifiers
  other than Ctrl+S, `examples/tui_preview.rs`.
- Argument parsing, `init`, printing, log formatting and file names.
- The IPv6 sends (a unicast and a multicast, either of which suffices) and the
  magic packet's bytes. Packets are sent or fail; the network after the server is
  out of scope.
- Idle and lifetime limits of a session: they only end it, as `Drop` does in
  `Transport` and a close does in `SessionPolicy`.

## 7. Plan

Modelled: every component with concurrent, timed or persistent state. Proved: every
safety and action property that a passing run checks, and both refinements. What is left:

- the wall clock apart from the monotonic one, for the hazard at security.rs line
  1091: how far a server's clock may step while the accepted window and the cache's
  lifetimes still fit;
- the command line's other commands and `init`, whose only state is the files that
  `PrivateFiles` and `CredentialStore` model;
- that the one record of `WakeServer` is `WakeLedger` restricted to one operation: both
  are translated from the same code and their properties agree, but no theorem
  relates them.
