--------------------------- MODULE SessionPolicy ---------------------------
(***************************************************************************)
(* Hot reload of the server's configuration, and the sessions that live    *)
(* under it (server.rs: refresh_access_policy, load_access_policy,         *)
(* adopt_access_policy, session_policy_current, run_with_shutdown,         *)
(* handle_connection and the dispatch loop of process_envelope).           *)
(*                                                                         *)
(* An operator saves configuration files.  The accept thread reloads them  *)
(* and publishes a whole policy under one mutex.  Each session thread      *)
(* reads that policy several times per round of its loop, taking and       *)
(* dropping the mutex each time, and holds it across one check and one     *)
(* send of the dispatch loop.  The mutex is explicit here (holder):        *)
(* sending while holding it is what keeps a revocation from overtaking a   *)
(* send.                                                                   *)
(***************************************************************************)
EXTENDS Naturals, FiniteSets

CONSTANTS
    Sessions,   \* connection threads
    Clients,    \* client static keys
    Hosts,      \* host ids
    Targets,    \* what a host id may be configured as (MAC, address, port)
    NoTarget,   \* a host id the configuration does not name
    Configs,    \* the valid configurations an operator may save
    Boot,       \* the configuration the server was started with
    MaxSaves,   \* bound on the operator's saves
    Broken,     \* a file that does not load or does not validate
    NoHost, Nobody

\* acl is the allowed_hosts of the enrolled clients; listen the bind addresses
\* after overrides; secrets the headers, clock skew, PSK and server identity.
Config == [targets : [Hosts -> Targets \cup {NoTarget}],
           enrolled : SUBSET Clients,
           acl : [Clients -> SUBSET Hosts], listen : Nat, secrets : Nat]

ASSUME ConfigAssumption ==
    /\ Configs \subseteq Config
    /\ Boot \in Configs
    /\ Broken \notin Configs
    /\ Nobody \notin Sessions
    /\ MaxSaves \in Nat

VARIABLES
    disk,      \* the configuration file
    saves,     \* how often the operator has saved
    policy,    \* access_policy: the published AccessPolicy
    holder,    \* the session that holds the access_policy mutex, or Nobody
    acceptor,  \* the accept thread: its place in the loop
    loaded,    \* what it has read from disk and not yet published
    stopping,  \* the shutdown flag shared by all threads
    sess       \* the session threads

vars == <<disk, saves, policy, holder, acceptor, loaded, stopping, sess>>

-----------------------------------------------------------------------------
Session == [pc : {"closed", "handshake", "admit", "check", "adopt",
                  "authorise", "poll", "request", "dispatch", "sending"},
            snap : Configs, client : Clients \cup {Nobody},
            todo : SUBSET Hosts, host : Hosts \cup {NoHost}]

Policy == [config : Configs, clients : SUBSET Clients, healthy : BOOLEAN]

\* The policy, the accept thread and the sessions keep their types: a session
\* only ever adopts a valid configuration.
TypeOK ==
    /\ disk \in Configs \cup {Broken}
    /\ saves \in 0..MaxSaves
    /\ policy \in Policy
    /\ holder \in Sessions \cup {Nobody}
    /\ acceptor \in {"top", "publish", "accept", "joining", "stopped"}
    /\ loaded \in Configs \cup {Broken}
    /\ stopping \in BOOLEAN
    /\ sess \in [Sessions -> Session]

Closed == [pc |-> "closed", snap |-> Boot, client |-> Nobody, todo |-> {},
           host |-> NoHost]
Published(c) == [config |-> c, clients |-> c.enrolled, healthy |-> TRUE]

Init ==
    /\ disk = Boot
    /\ saves = 0
    /\ policy = Published(Boot)
    /\ holder = Nobody
    /\ acceptor = "top"
    /\ loaded = Boot
    /\ stopping = FALSE
    /\ sess = [s \in Sessions |-> Closed]

-----------------------------------------------------------------------------
(* The operator *)

\* A configuration is saved, or the file is damaged or removed.
Save ==
    /\ saves < MaxSaves
    /\ saves' = saves + 1
    /\ disk' \in (Configs \cup {Broken}) \ {disk}
    /\ UNCHANGED <<policy, holder, acceptor, loaded, stopping, sess>>

\* Somebody sets the shutdown flag: the TUI's stop action or a signal.
RequestStop ==
    /\ ~stopping
    /\ stopping' = TRUE
    /\ UNCHANGED <<disk, saves, policy, holder, acceptor, loaded, sess>>

-----------------------------------------------------------------------------
(* The accept thread: run_with_shutdown *)

\* Top of the loop: the flag, then (every 250 ms) a reload.
SkipRefresh ==
    /\ acceptor = "top" /\ ~stopping
    /\ acceptor' = "accept"
    /\ UNCHANGED <<disk, saves, policy, holder, loaded, stopping, sess>>

Load ==
    /\ acceptor = "top" /\ ~stopping
    /\ loaded' = disk
    /\ acceptor' = "publish"
    /\ UNCHANGED <<disk, saves, policy, holder, stopping, sess>>

\* Mutant: the comparison forgets that the source was broken in between.
Refreshed_IgnoresHealth(p, l) ==
    IF l = Broken THEN [p EXCEPT !.clients = {}, !.healthy = FALSE]
    ELSE IF p.config = l THEN p ELSE Published(l)

\* refresh_access_policy with the mutex held: nothing if the policy is healthy
\* and already this configuration (load_access_policy compares; only this
\* thread writes), the whole new policy, or on an error no clients at all but
\* the old snapshot.
Refreshed(p, l) ==
    IF l = Broken THEN [p EXCEPT !.clients = {}, !.healthy = FALSE]
    ELSE IF p.healthy /\ p.config = l THEN p ELSE Published(l)

\* A policy with other bind addresses ends the accept loop with an error.
Publish ==
    /\ acceptor = "publish"
    /\ holder = Nobody
    /\ policy' = Refreshed(policy, loaded)
    /\ IF policy'.config.listen # Boot.listen
       THEN acceptor' = "joining" /\ stopping' = TRUE
       ELSE acceptor' = "accept" /\ UNCHANGED stopping
    /\ UNCHANGED <<disk, saves, holder, loaded, sess>>

\* A connection is accepted; unless the source is unhealthy its thread starts
\* with the published snapshot.
Accept(s) ==
    /\ acceptor = "accept"
    /\ holder = Nobody
    /\ sess[s].pc = "closed"
    /\ sess' = IF policy.healthy
               THEN [sess EXCEPT ![s] =
                       [Closed EXCEPT !.pc = "handshake", !.snap = policy.config]]
               ELSE sess
    /\ acceptor' = "top"
    /\ UNCHANGED <<disk, saves, policy, holder, loaded, stopping>>

\* Nobody there, or a limit refuses the peer.
AcceptNothing ==
    /\ acceptor = "accept"
    /\ acceptor' = "top"
    /\ UNCHANGED <<disk, saves, policy, holder, loaded, stopping, sess>>

\* The flag is set, or a listener fails for good: the loop ends, the flag is
\* set for everybody and the listeners are dropped.
LeaveLoop ==
    /\ (acceptor = "top" /\ stopping) \/ acceptor = "accept"
    /\ acceptor' = "joining"
    /\ stopping' = TRUE
    /\ UNCHANGED <<disk, saves, policy, holder, loaded, sess>>

\* ConnectionWorkers::finish joins every connection thread.
Join ==
    /\ acceptor = "joining"
    /\ \A s \in Sessions : sess[s].pc = "closed"
    /\ acceptor' = "stopped"
    /\ UNCHANGED <<disk, saves, policy, holder, loaded, stopping, sess>>

-----------------------------------------------------------------------------
(* A session thread: handle_connection *)

Goto(s, pc) == sess' = [sess EXCEPT ![s] = [@ EXCEPT !.pc = pc]]
Close(s) == sess' = [sess EXCEPT ![s] = Closed]
OthersUnchanged ==
    UNCHANGED <<disk, saves, policy, holder, acceptor, loaded, stopping>>

\* server_handshake authenticates a client enrolled in the adopted snapshot,
\* or fails.
Handshake(s) ==
    /\ sess[s].pc = "handshake"
    /\ \/ \E k \in sess[s].snap.enrolled :
            sess' = [sess EXCEPT ![s] = [@ EXCEPT !.pc = "admit", !.client = k]]
       \/ Close(s)
    /\ OthersUnchanged

\* The per-client limit may refuse; current_allowed_hosts refuses a client
\* revoked since the snapshot was adopted.
Admit(s) ==
    /\ sess[s].pc = "admit"
    /\ holder = Nobody
    /\ \/ sess[s].client \in policy.clients /\ Goto(s, "check")
       \/ Close(s)
    /\ OthersUnchanged

\* First line of the loop: the flag and session_policy_current.
SamePolicy(c, d) == c.targets = d.targets /\ c.secrets = d.secrets
\* Mutant: sessions do not look at the flag.
Check_IgnoresStop(s) ==
    /\ sess[s].pc = "check"
    /\ holder = Nobody
    /\ IF ~policy.healthy \/ ~SamePolicy(sess[s].snap, policy.config)
       THEN Close(s)
       ELSE Goto(s, "adopt")
    /\ OthersUnchanged

Check(s) ==
    /\ sess[s].pc = "check"
    /\ holder = Nobody
    /\ IF stopping \/ ~policy.healthy \/ ~SamePolicy(sess[s].snap, policy.config)
       THEN Close(s)
       ELSE Goto(s, "adopt")
    /\ OthersUnchanged

\* Mutant: the session adopts what has been loaded, not what is published.
Adopt_Loaded(s) ==
    /\ sess[s].pc = "adopt"
    /\ holder = Nobody
    /\ sess' = [sess EXCEPT ![s] = [@ EXCEPT !.pc = "authorise", !.snap = loaded]]
    /\ OthersUnchanged

\* adopt_access_policy, under a new acquisition of the mutex.
Adopt(s) ==
    /\ sess[s].pc = "adopt"
    /\ holder = Nobody
    /\ IF policy.healthy
       THEN sess' = [sess EXCEPT ![s] =
                       [@ EXCEPT !.pc = "authorise", !.snap = policy.config]]
       ELSE Close(s)
    /\ OthersUnchanged

\* Mutant: an open session is not authorised again.
Authorise_Anyone(s) ==
    /\ sess[s].pc = "authorise"
    /\ holder = Nobody
    /\ Goto(s, "poll") \/ Close(s)
    /\ OthersUnchanged

\* A timeout closes the session, and so does a revoked client.
Authorise(s) ==
    /\ sess[s].pc = "authorise"
    /\ holder = Nobody
    /\ \/ sess[s].client \in policy.clients /\ Goto(s, "poll")
       \/ Close(s)
    /\ OthersUnchanged

\* Status jobs and monitors are served and the transport polled: nothing, a
\* request, or an end of the session (transport, frame, rate or job errors).
Poll(s) ==
    /\ sess[s].pc = "poll"
    /\ Goto(s, "check") \/ Goto(s, "request") \/ Close(s)
    /\ OthersUnchanged

\* current_allowed_hosts, and with its answer the checks of process_envelope
\* against the session's snapshot.  A Wake request the ledger and the cooldown
\* let through goes on to dispatch, anything else is answered.
Request(s) ==
    /\ sess[s].pc = "request"
    /\ holder = Nobody
    /\ \/ /\ sess[s].client \in policy.clients
          /\ \/ Goto(s, "check")
             \/ \E hs \in SUBSET policy.config.acl[sess[s].client] :
                   /\ hs # {}
                   /\ \A h \in hs : sess[s].snap.targets[h] # NoTarget
                   /\ sess' = [sess EXCEPT ![s] =
                                 [@ EXCEPT !.pc = "dispatch", !.todo = hs]]
       \/ Close(s)
    /\ OthersUnchanged

\* One target of the dispatch loop: the mutex is taken and kept if the check
\* passes; a failed check is an error that drops it and closes the session.
MaySend(s, h) ==
    /\ policy.healthy
    /\ policy.config.targets[h] = sess[s].snap.targets[h]
    /\ sess[s].client \in policy.clients
    /\ h \in policy.config.acl[sess[s].client]
\* Mutant: the mutex is dropped after the check, before the send.
CheckTarget_Unlocked(s) ==
    /\ sess[s].pc = "dispatch"
    /\ holder = Nobody
    /\ \E h \in sess[s].todo :
        IF ~stopping /\ MaySend(s, h)
        THEN sess' = [sess EXCEPT ![s] = [@ EXCEPT !.pc = "sending", !.host = h]]
        ELSE Close(s)
    /\ OthersUnchanged

CheckTarget(s) ==
    /\ sess[s].pc = "dispatch"
    /\ holder = Nobody
    /\ \E h \in sess[s].todo :
        IF ~stopping /\ MaySend(s, h)
        THEN /\ sess' = [sess EXCEPT ![s] = [@ EXCEPT !.pc = "sending", !.host = h]]
             /\ holder' = s
        ELSE Close(s) /\ UNCHANGED holder
    /\ UNCHANGED <<disk, saves, policy, acceptor, loaded, stopping>>

\* The magic packet goes out (or the sender fails) and the mutex is dropped;
\* after the last target the receipt is sent.
Send(s) ==
    LET left == sess[s].todo \ {sess[s].host}
        w == [sess[s] EXCEPT !.todo = left, !.host = NoHost]
    IN  /\ sess[s].pc = "sending"
        /\ holder' = Nobody
        /\ \/ left # {} /\ sess' = [sess EXCEPT ![s] = [w EXCEPT !.pc = "dispatch"]]
           \/ left = {} /\ sess' = [sess EXCEPT ![s] = [w EXCEPT !.pc = "check"]]
           \/ left = {} /\ Close(s)
        /\ UNCHANGED <<disk, saves, policy, acceptor, loaded, stopping>>

-----------------------------------------------------------------------------
SessionStep(s) ==
    \/ Handshake(s) \/ Admit(s) \/ Check(s) \/ Adopt(s) \/ Authorise(s)
    \/ Poll(s) \/ Request(s) \/ CheckTarget(s) \/ Send(s)

AcceptorStep ==
    SkipRefresh \/ Load \/ Publish \/ AcceptNothing \/ LeaveLoop \/ Join

Next ==
    \/ Save \/ RequestStop
    \/ AcceptorStep
    \/ \E s \in Sessions : Accept(s) \/ SessionStep(s)

\* Every thread runs.  The mutex is dropped after at most one send, and rate
\* limits and cooldowns keep sends apart, so a thread that waits for it gets
\* it (SF).  The refresh falls due every 250 ms whatever is accepted.
Fairness ==
    /\ SF_vars(AcceptorStep)
    /\ SF_vars(Load)
    /\ \A s \in Sessions : SF_vars(SessionStep(s))

Safe == Init /\ [][Next]_vars
Spec == Safe /\ Fairness

-----------------------------------------------------------------------------
(* Properties *)

\* When a packet goes out, the published policy is healthy, enrols the client,
\* allows it the host and has the very target the session resolved: a reload
\* that revokes, narrows or retargets cannot slip between the check of the
\* dispatch loop and the send, however stale the session's snapshot is.
SendAuthorised ==
    \A s \in Sessions : sess[s].pc = "sending" => MaySend(s, sess[s].host)

\* The inductive strengthening: whoever is sending holds the policy mutex.
SenderHolds ==
    \A s \in Sessions : sess[s].pc = "sending" <=> holder = s

\* What the operator leaves on disk comes to govern the running server: a
\* valid file is published, also when it is the one published before the
\* source broke, and a broken file revokes everybody (refresh_access_policy);
\* unless the server has stopped by then.
DiskGoverns ==
    /\ \A c \in Configs :
          <>[](disk = c) => <>[](stopping \/ policy = Published(c))
    /\ <>[](disk = Broken) =>
          <>[](stopping \/ (policy.clients = {} /\ ~policy.healthy))

Revoked(k) == disk = Broken \/ k \notin disk.enrolled
ServedTo(s, k) == sess[s].client = k /\ sess[s].pc # "admit"

\* A client that stays revoked on disk loses its sessions, whatever they were
\* doing when the reload was published (the checks of handle_connection's loop).
RevokedSessionsClose ==
    \A k \in Clients :
        <>[]Revoked(k) => <>[](\A s \in Sessions : ~ServedTo(s, k))

\* Once stop is requested, or the listen addresses change, the server does
\* stop: the loop is left, every session thread ends, none starts any more,
\* and finish returns with all of them joined.
StopFinishes ==
    <>stopping =>
        <>[](acceptor = "stopped" /\ \A s \in Sessions : sess[s].pc = "closed")

Open(s) == sess[s].pc \notin {"closed", "handshake", "admit"}

\* What the README says of hot reload, "changing a host's target closes the
\* old sessions": a session never goes on under other targets than before.
\* The code checks and adopts in two critical sections, so it may.
TargetChangeCloses ==
    [][\A s \in Sessions :
          (Open(s) /\ Open(s)') => sess'[s].snap.targets = sess[s].snap.targets]_vars

=============================================================================
