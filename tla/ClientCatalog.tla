---------------------------- MODULE ClientCatalog ----------------------------
(***************************************************************************)
(* The host directory and its statuses: the requests of the client actor   *)
(* (client.rs), the session that answers them (server.rs: ListHosts,       *)
(* GetStatuses, status jobs) and what the driver shows.  Wakes share the   *)
(* connection and are the modules ClientActor and WakeServer.              *)
(*                                                                         *)
(* The accept thread publishes a policy: a catalog and the hosts the       *)
(* client may see.  The session serves the catalog it adopted last, reads  *)
(* the client's hosts once per answer, under the mutex, and sends the      *)
(* answer after it let the mutex go.  A catalog with other entries ends    *)
(* the session when it checks.  One whose entries only changed their order *)
(* has another version and is adopted, and so is one published between the *)
(* check and the adoption.  The rounds of the session's loop are not       *)
(* counted: it may serve more than the rest of a round before it looks.    *)
(***************************************************************************)
EXTENDS Naturals, Sequences, FiniteSets

CONSTANTS
    Entries,        \* catalog version -> its hosts: host number -> configuration
    FirstCatalog,   \* the catalog the server starts with
    BatchSize,      \* MAX_STATUS_TARGETS
    MaxRequests,    \* MAX_PENDING_REQUESTS
    MaxJobs,        \* status jobs of one session (2)
    MaxRefreshes,   \* bound on the refreshes asked by the user
    MaxReloads,     \* bound on the policies published
    MaxLosses       \* bound on broken connections

Catalogs == DOMAIN Entries
HostsOf(c) == DOMAIN Entries[c]
Directory == UNION {HostsOf(c) : c \in Catalogs}

CatalogAssumption ==
    /\ FirstCatalog \in Catalogs
    /\ Directory \subseteq Nat /\ IsFiniteSet(Directory)
    /\ BatchSize \in Nat \ {0}

VARIABLES
    sendList,   \* the actor owes a ListHosts request
    reqs,       \* pending_requests: request id -> what was asked
    nextId,     \* request ids are fresh
    session,    \* [up, out, in]: the connection
    jobs,       \* the session's status jobs
    hand,       \* the answer the session has made and not yet sent: at most one
    catalog,    \* the catalog the session serves: the snapshot it adopted
    policy,     \* [catalog, hosts]: access_policy, as this client finds it
    shown,      \* [hosts, known, error]: what the driver shows
    revoked,    \* history: hosts revoked since the answer in hand was begun
    overtaken,  \* history: requests whose job ran when the session moved
    rejected,   \* history: requests whose answer the client refused
    used        \* [refreshes, reloads, losses]: what the environment has done

clientVars == <<sendList, reqs, nextId, shown, rejected>>
serverVars == <<jobs, hand, catalog, policy, revoked, overtaken>>
catalogVars == <<clientVars, serverVars, session, used>>

NoReqs == [i \in {} |-> 0]
Fresh == [up |-> TRUE, out |-> <<>>, in |-> <<>>]
With(f, x, v) == [y \in (DOMAIN f) \cup {x} |-> IF y = x THEN v ELSE f[y]]
Without(f, x) == [y \in (DOMAIN f) \ {x} |-> f[y]]

\* chunks(MAX_STATUS_TARGETS) of the listed hosts.
Rank(h, hs) == Cardinality({g \in hs : g < h})
Batches(hs) ==
    [i \in 1..((Cardinality(hs) + BatchSize - 1) \div BatchSize) |->
        {h \in hs : Rank(h, hs) \div BatchSize = i - 1}]

CatalogInit ==
    /\ sendList = TRUE /\ reqs = NoReqs /\ nextId = 1
    /\ session = Fresh /\ jobs = {} /\ hand = {}
    /\ catalog = FirstCatalog
    /\ policy = [catalog |-> FirstCatalog, hosts |-> HostsOf(FirstCatalog)]
    /\ shown = [hosts |-> {}, known |-> {}, error |-> FALSE]
    /\ revoked = {} /\ overtaken = {} /\ rejected = {}
    /\ used = [refreshes |-> 0, reloads |-> 0, losses |-> 0]

-----------------------------------------------------------------------------
(* The client *)

\* ClientCommand::Refresh, taken from the queue.
Refresh ==
    /\ used.refreshes < MaxRefreshes /\ session.up
    /\ sendList' = TRUE
    /\ used' = [used EXCEPT !.refreshes = @ + 1]
    /\ UNCHANGED <<reqs, nextId, session, shown, rejected, serverVars>>

Listing == \E i \in DOMAIN reqs : reqs[i].kind = "list"
CloseSession == session' = [session EXCEPT !.up = FALSE]

\* A refresh while a list is outstanding is merged with it.
SendList ==
    /\ sendList /\ session.up
    /\ sendList' = FALSE
    /\ IF Listing THEN UNCHANGED <<reqs, nextId, session>>
       ELSE IF Cardinality(DOMAIN reqs) >= MaxRequests
       THEN CloseSession /\ UNCHANGED <<reqs, nextId>>
       ELSE /\ reqs' = With(reqs, nextId, [kind |-> "list"])
            /\ nextId' = nextId + 1
            /\ session' = [session EXCEPT !.out = Append(@, [id |-> nextId, kind |-> "list"])]
    /\ UNCHANGED <<serverVars, shown, rejected, used>>

\* send_status_batch for the first of the batches; the rest waits its turn.
Ask(rs, l, c, batches) ==
    IF batches = <<>> THEN reqs' = rs /\ session' = l /\ UNCHANGED nextId
    ELSE IF Cardinality(DOMAIN rs) >= MaxRequests
    THEN reqs' = rs /\ session' = [l EXCEPT !.up = FALSE] /\ UNCHANGED nextId
    ELSE /\ reqs' = With(rs, nextId, [kind |-> "status", catalog |-> c,
                                     hosts |-> Head(batches), rest |-> Tail(batches)])
         /\ nextId' = nextId + 1
         /\ session' = [l EXCEPT !.out =
                        Append(@, [id |-> nextId, kind |-> "status", catalog |-> c,
                                   hosts |-> Head(batches)])]

RejectAnswer(m) ==
    /\ rejected' = rejected \cup {m.id} /\ CloseSession
    /\ UNCHANGED <<reqs, nextId, shown>>

\* ServerEvent::Hosts: the list is shown with nothing known, and the statuses
\* of all of it are asked for, one batch at a time.
HandleHosts(m, l) ==
    IF m.id \notin DOMAIN reqs \/ reqs[m.id].kind # "list" THEN RejectAnswer(m)
    ELSE /\ shown' = [hosts |-> m.hosts, known |-> {}, error |-> FALSE]
         /\ Ask(Without(reqs, m.id), l, m.catalog, Batches(m.hosts))
         /\ UNCHANGED rejected

\* Statuses answer a request of their hosts and of their catalog.
Unexpected(m) ==
    \/ m.id \notin DOMAIN reqs
    \/ reqs[m.id].kind # "status"
    \/ m.catalog # reqs[m.id].catalog
    \/ m.hosts # reqs[m.id].hosts

Known(m) == [shown EXCEPT !.known = @ \cup (m.hosts \cap shown.hosts)]

\* Mutant: the batches after the first are forgotten.
HandleStatuses_FirstOnly(m, l) ==
    IF Unexpected(m) THEN RejectAnswer(m)
    ELSE /\ shown' = Known(m)
         /\ Ask(Without(reqs, m.id), l, m.catalog, <<>>)
         /\ UNCHANGED rejected

HandleStatuses(m, l) ==
    IF Unexpected(m) THEN RejectAnswer(m)
    ELSE /\ shown' = Known(m)
         /\ Ask(Without(reqs, m.id), l, m.catalog, reqs[m.id].rest)
         /\ UNCHANGED rejected

HandleRefusal(m, l) ==
    IF m.id \notin DOMAIN reqs THEN RejectAnswer(m)
    ELSE /\ shown' = [shown EXCEPT !.error = TRUE]
         /\ reqs' = Without(reqs, m.id) /\ session' = l
         /\ UNCHANGED <<nextId, rejected>>

PollAnswer ==
    LET m == Head(session.in)
        l == [session EXCEPT !.in = Tail(@)] IN
    /\ session.up /\ session.in # <<>>
    /\ \/ m.kind = "hosts" /\ HandleHosts(m, l)
       \/ m.kind = "statuses" /\ HandleStatuses(m, l)
       \/ m.kind = "error" /\ HandleRefusal(m, l)
    /\ UNCHANGED <<sendList, serverVars, used>>

\* A new connection starts from nothing and asks for the list; its session
\* starts with the published snapshot.
Reconnect ==
    /\ ~session.up /\ used.losses < MaxLosses
    /\ session' = Fresh /\ reqs' = NoReqs /\ sendList' = TRUE
    /\ jobs' = {} /\ hand' = {} /\ revoked' = {} /\ catalog' = policy.catalog
    /\ used' = [used EXCEPT !.losses = @ + 1]
    /\ UNCHANGED <<nextId, policy, shown, overtaken, rejected>>

-----------------------------------------------------------------------------
(* The session *)

Hosts_(i, c, hs) == [kind |-> "hosts", id |-> i, catalog |-> c, hosts |-> hs]
Statuses_(i, c, hs) == [kind |-> "statuses", id |-> i, catalog |-> c, hosts |-> hs]
Error_(i) == [kind |-> "error", id |-> i]

\* The thread looks for work with no answer in hand, and begins one by reading
\* the client's hosts.
Idle == session.up /\ hand = {}
MayStart == Cardinality(jobs) < MaxJobs

\* ListHosts: the client's part of the adopted catalog, or an error from a full
\* or conflicting ledger.
ServeList(q) ==
    /\ q.kind = "list"
    /\ hand' \in {{Hosts_(q.id, catalog, HostsOf(catalog) \cap policy.hosts)}, {Error_(q.id)}}
    /\ UNCHANGED jobs

\* Mutant: hosts of any catalog are probed.
Probed_AnyCatalog(q) == q.hosts \subseteq HostsOf(catalog) \cap policy.hosts /\ MayStart
Probed(q) ==
    /\ q.catalog = catalog
    /\ q.hosts \subseteq HostsOf(catalog) \cap policy.hosts
    /\ MayStart

\* GetStatuses: another catalog and unauthorized hosts are refused, and a session
\* at its limit, a full probe pool and the ledger give an error too.  The job
\* keeps the hosts, not the catalog.
ServeStatuses(q) ==
    /\ q.kind = "status"
    /\ \/ hand' = {Error_(q.id)} /\ UNCHANGED jobs
       \/ /\ Probed(q)
          /\ jobs' = jobs \cup {[kind |-> "job", id |-> q.id, hosts |-> q.hosts]}
          /\ UNCHANGED hand

\* process_envelope up to the send.
ServeRequest ==
    /\ Idle /\ session.out # <<>>
    /\ ServeList(Head(session.out)) \/ ServeStatuses(Head(session.out))
    /\ session' = [session EXCEPT !.out = Tail(@)]
    /\ UNCHANGED <<clientVars, catalog, policy, revoked, overtaken, used>>

\* Mutant: the client's hosts are not read again.
JobAnswer_NoRecheck(j) == Statuses_(j.id, catalog, j.hosts)

\* The client's hosts are read again, and the answer carries the catalog adopted
\* by then.
JobAnswer(j) ==
    IF j.hosts \subseteq policy.hosts THEN Statuses_(j.id, catalog, j.hosts) ELSE Error_(j.id)

\* service_status_jobs up to the send; a probe that was cut short gives an error.
FinishJob ==
    /\ Idle
    /\ \E j \in jobs : jobs' = jobs \ {j} /\ hand' \in {{JobAnswer(j)}, {Error_(j.id)}}
    /\ UNCHANGED <<clientVars, catalog, policy, revoked, overtaken, session, used>>

\* send_response, send_error.
SendAnswer ==
    /\ session.up
    /\ \E m \in hand : session' = [session EXCEPT !.in = Append(@, m)]
    /\ hand' = {} /\ revoked' = {}
    /\ UNCHANGED <<clientVars, jobs, catalog, policy, overtaken, used>>

\* Another policy with a catalog and hosts of it.
Published ==
    /\ used.reloads < MaxReloads
    /\ \E c \in Catalogs : \E hs \in SUBSET HostsOf(c) :
          policy' = [catalog |-> c, hosts |-> hs] /\ policy' # policy
    /\ used' = [used EXCEPT !.reloads = @ + 1]

\* refresh_access_policy, at any moment.
Reload ==
    /\ Published
    /\ revoked' = IF hand = {} THEN {} ELSE revoked \cup (policy.hosts \ policy'.hosts)
    /\ UNCHANGED <<clientVars, jobs, hand, catalog, overtaken, session>>

\* session_policy_current compares the tables of entries, which have no order.
Current == Entries[policy.catalog] = Entries[catalog]

\* The session finds other entries and ends.
Check ==
    /\ Idle /\ ~Current
    /\ CloseSession
    /\ UNCHANGED <<clientVars, serverVars, used>>

\* The check passed, and what is adopted is the policy of that moment or one
\* published before adopt_access_policy has the mutex.
Adopt ==
    /\ Idle /\ Current
    /\ Published \/ UNCHANGED <<policy, used>>
    /\ catalog' = policy'.catalog
    /\ overtaken' = IF catalog' = catalog THEN overtaken
                    ELSE overtaken \cup {j.id : j \in jobs}
    /\ UNCHANGED <<clientVars, jobs, hand, revoked, session>>

\* The path breaks, or the session ends for another reason.
Lose ==
    /\ session.up /\ used.losses < MaxLosses
    /\ CloseSession
    /\ UNCHANGED <<clientVars, serverVars, used>>

Client == SendList \/ PollAnswer
Session == ServeRequest \/ FinishJob \/ SendAnswer
CatalogNext ==
    Refresh \/ Client \/ Reconnect \/ Session \/ Reload \/ Check \/ Adopt \/ Lose

CatalogSpec == CatalogInit /\ [][CatalogNext]_catalogVars

\* The two threads run, and a probe ends (it has a timeout).
CatalogFairSpec == CatalogSpec /\ WF_catalogVars(Client) /\ WF_catalogVars(Session)

-----------------------------------------------------------------------------
(* Properties *)

\* What the session holds: the jobs it runs and the answer in its hand.
Work == jobs \cup hand

\* Outstanding requests have ids that were drawn and at most one of them is a
\* host list; jobs keep their type, at most one answer is in hand, and statuses
\* are known of shown hosts only.
CatalogTypeOK ==
    /\ shown.known \subseteq shown.hosts
    /\ \A i \in DOMAIN reqs : i < nextId
    /\ jobs \subseteq [kind : {"job"}, id : 1..nextId, hosts : SUBSET Directory]
    /\ \A m, n \in hand : m = n
    /\ catalog \in Catalogs /\ policy.hosts \subseteq HostsOf(policy.catalog)
    /\ Cardinality({i \in DOMAIN reqs : reqs[i].kind = "list"}) <= 1

Places(i) ==
    Cardinality({k \in DOMAIN session.out : session.out[k].id = i})
        + Cardinality({k \in DOMAIN session.in : session.in[k].id = i})
        + Cardinality({w \in Work : w.id = i})

\* A request the client still waits for is on its way, in the session's hands
\* or answered and on its way back, and only once: refusals, busy sessions,
\* probes that are cut short, catalogs that moved and hosts that were revoked
\* under a job all leave an answer.  A lost one would hold a place of
\* MAX_PENDING_REQUESTS until the client closes the connection.
OneAnswerEach == session.up => \A i \in DOMAIN reqs : Places(i) = 1

\* A rejected answer costs the connection and every wake on it.  The client
\* rejects none of this server, although refreshes overlap, policies are
\* published and probes are cut short, but for the answer to a job that was
\* running when the session moved to another catalog.
AnswersAccepted == rejected \subseteq overtaken

\* The hosts of a list and of statuses that are sent are allowed when they are
\* sent or were revoked after the session began that answer; that they were
\* allowed when they were asked for, or when a probe began, is not enough.
AllowedWhenSent ==
    \A i \in DOMAIN session'.in :
        (i > Len(session.in) /\ session'.in[i].kind # "error")
            => session'.in[i].hosts \subseteq policy.hosts \cup revoked

\* Each request the client waits for is answered exactly once, with an answer it
\* accepts unless the session moved to another catalog under a job; and hosts
\* and statuses go out only for hosts that are allowed, or were until the answer
\* was begun (handle_server_event, process_envelope, service_status_jobs).
CatalogSound ==
    /\ [](CatalogTypeOK /\ OneAnswerEach /\ AnswersAccepted)
    /\ [][AllowedWhenSent]_catalogVars

Unknown == shown.hosts \ shown.known

\* A directory that is shown does not stay half known in silence: every host
\* gets a status, or an error is shown, or the connection ends.
EveryHostSettles == Unknown # {} ~> (Unknown = {} \/ shown.error \/ ~session.up)

-----------------------------------------------------------------------------
(* The inductive strengthening *)

Ids == 1..(nextId - 1)
Requests == [id : Ids, kind : {"list"}]
               \cup [id : Ids, kind : {"status"}, catalog : Catalogs, hosts : SUBSET Directory]
Answers == [id : Ids, kind : {"hosts", "statuses"}, catalog : Catalogs, hosts : SUBSET Directory]
              \cup [id : Ids, kind : {"error"}]
Jobs == [kind : {"job"}, id : Ids, hosts : SUBSET Directory]
Asked == [kind : {"list"}]
            \cup [kind : {"status"}, catalog : Catalogs, hosts : SUBSET Directory,
                  rest : Seq(SUBSET Directory)]

CatalogTyped ==
    /\ nextId \in Nat \ {0}
    /\ DOMAIN reqs \subseteq Ids /\ reqs \in [DOMAIN reqs -> Asked]
    /\ session \in [up : BOOLEAN, out : Seq(Requests), in : Seq(Answers)]
    /\ jobs \subseteq Jobs /\ hand \subseteq Answers
    /\ catalog \in Catalogs /\ policy.catalog \in Catalogs
    /\ policy.hosts \subseteq HostsOf(policy.catalog) /\ shown.known \subseteq shown.hosts

\* One list at a time: a refresh is merged with the one that is outstanding.
OneList(rs) ==
    \A i, j \in DOMAIN rs : rs[i].kind = "list" /\ rs[j].kind = "list" => i = j

\* An answer is to a request of these that asked for it.
AnswersA(rs, m) ==
    /\ m.id \in DOMAIN rs
    /\ m.kind = "hosts" => rs[m.id].kind = "list"
    /\ m.kind \in {"job", "statuses"} => rs[m.id].kind = "status" /\ rs[m.id].hosts = m.hosts

\* What is on its way or in the session's hands is asked for by a request of these.
ForRequests(rs, outgoing, incoming, work) ==
    /\ \A k \in DOMAIN outgoing :
          /\ outgoing[k].id \in DOMAIN rs
          /\ rs[outgoing[k].id].kind = outgoing[k].kind
          /\ outgoing[k].kind = "status" =>
                /\ rs[outgoing[k].id].hosts = outgoing[k].hosts
                /\ rs[outgoing[k].id].catalog = outgoing[k].catalog
    /\ \A k \in DOMAIN incoming : AnswersA(rs, incoming[k])
    /\ \A w \in work : AnswersA(rs, w)

\* Each of the requests is in a place, and in no other.
InOnePlace(rs, outgoing, incoming, work) ==
    /\ \A i \in DOMAIN rs :
          \/ \E k \in DOMAIN outgoing : outgoing[k].id = i
          \/ \E k \in DOMAIN incoming : incoming[k].id = i
          \/ \E w \in work : w.id = i
    /\ \A k, l \in DOMAIN outgoing : outgoing[k].id = outgoing[l].id => k = l
    /\ \A k, l \in DOMAIN incoming : incoming[k].id = incoming[l].id => k = l
    /\ \A v, w \in work : v.id = w.id => v = w
    /\ \A k \in DOMAIN outgoing :
          /\ \A l \in DOMAIN incoming : outgoing[k].id # incoming[l].id
          /\ \A w \in work : outgoing[k].id # w.id
    /\ \A k \in DOMAIN incoming, w \in work : incoming[k].id # w.id

Consistent(rs, l, work) ==
    /\ ForRequests(rs, l.out, l.in, work)
    /\ InOnePlace(rs, l.out, l.in, work)

\* Statuses carry the catalog of their request, and a job's request the catalog
\* of the session, unless the session moved while the job ran.
OfOneCatalog(rs, incoming, work, c, moved) ==
    /\ \A k \in DOMAIN incoming :
          incoming[k].kind = "statuses" =>
              rs[incoming[k].id].catalog = incoming[k].catalog \/ incoming[k].id \in moved
    /\ \A w \in work :
          /\ w.kind = "statuses" => rs[w.id].catalog = w.catalog \/ w.id \in moved
          /\ w.kind = "job" => rs[w.id].catalog = c \/ w.id \in moved

\* The hosts of an answer in hand are allowed, or were when it was begun.
ReadAllowed(answers, acl, lost) ==
    \A m, n \in answers : m = n /\ (m.kind # "error" => m.hosts \subseteq acl \cup lost)

CatalogInv ==
    /\ CatalogTyped /\ OneList(reqs) /\ AnswersAccepted
    /\ ReadAllowed(hand, policy.hosts, revoked)
    /\ session.up => /\ Consistent(reqs, session, Work)
                     /\ OfOneCatalog(reqs, session.in, Work, catalog, overtaken)

=============================================================================
