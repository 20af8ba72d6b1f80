---------------------------- MODULE Credentials ----------------------------
(***************************************************************************)
(* The operator's side of the server: issuing, editing and revoking        *)
(* credentials and changing the host list in the TUI (tui.rs), over the    *)
(* configuration file and the credential files it writes next to it.       *)
(*                                                                         *)
(* A save and a removal are the atomic steps with three answers that the   *)
(* module PrivateFiles shows them to be; a document is what readers find   *)
(* (shown) and what a crash may leave (kept).                              *)
(***************************************************************************)
EXTENDS Naturals, FiniteSets

CONSTANTS
    Clients,    \* the identities that issuing can generate, each once
    Hosts,
    MaxActions, \* bound on the operator's actions
    MaxStops    \* bound on crashes

VARIABLES
    disk,       \* [shown, kept]: the configuration file
    bundle,     \* client -> [shown, kept]: its credential file exists
    mem,        \* ProductionApp::config (with client_acl)
    view,       \* [hosts, clients]: what the screens show
    op,         \* [pc, client, hosts]: the operation at work
    issued,     \* identities generated so far
    revoked,    \* history: clients the operator was told are revoked
    invalid,    \* history: a candidate failed validation
    spent       \* [saves, crashes]

aclVars == <<disk, bundle, mem, view, op, issued, revoked, invalid, spent>>

Empty == [hosts |-> Hosts, acl |-> [c \in {} |-> {}]]
Idle == [pc |-> "idle"]
ViewOf(c) == [hosts |-> c.hosts, clients |-> DOMAIN c.acl]
File(there) == [shown |-> there, kept |-> {there}]

AclInit ==
    /\ disk = [shown |-> Empty, kept |-> {Empty}]
    /\ bundle = [c \in Clients |-> File(FALSE)]
    /\ mem = Empty /\ view = ViewOf(Empty)
    /\ op = Idle
    /\ issued = {} /\ revoked = {} /\ invalid = FALSE
    /\ spent = [saves |-> 0, crashes |-> 0]

Put(f, x, v) == [y \in DOMAIN f \cup {x} |-> IF y = x THEN v ELSE f[y]]

\* AppConfig::validate, as far as the operator's actions can break it: a
\* permission names a host of the list.
Valid(c) == \A x \in DOMAIN c.acl : c.acl[x] \subseteq c.hosts

\* The three answers of a replacement.
Answers == {"ok", "uncertain", "failed"}

\* write_private_toml, as AtomicFile promises it.
Replaced(f, v, a) ==
    CASE a = "ok" -> [shown |-> v, kept |-> {v}]
      [] a = "uncertain" -> [shown |-> v, kept |-> f.kept \cup {v}]
      [] a = "failed" -> f

\* finish_server_save: with the rename the candidate is in force.
Adopts(a) == a \in {"ok", "uncertain"}

\* save_server_candidate: the answer a for candidate c.
Save(c, a) ==
    /\ ~Valid(c) => a = "failed"
    /\ invalid' = (invalid \/ ~Valid(c))
    /\ disk' = [disk EXCEPT !.shown = Replaced(disk, c, a).shown,
                            !.kept = Replaced(disk, c, a).kept]
    /\ mem' = IF Adopts(a) THEN c ELSE mem

Starts ==
    /\ op = Idle /\ spent.saves < MaxActions
    /\ spent' = [spent EXCEPT !.saves = @ + 1]

-----------------------------------------------------------------------------
(* issue_credential *)

\* The bundle is written first, under a name nobody has.
IssueBundle ==
    /\ Starts
    /\ \E c \in Clients \ issued, hs \in SUBSET view.hosts, a \in Answers :
          /\ hs # {} /\ ~bundle[c].shown
          /\ bundle' = [bundle EXCEPT ![c] = Replaced(@, TRUE, a)]
          /\ issued' = issued \cup {c}
          /\ op' = IF a = "ok" THEN [pc |-> "grant", client |-> c, hosts |-> hs] ELSE Idle
    /\ UNCHANGED <<disk, mem, view, revoked, invalid>>

\* Mutant: a grant that is not confirmed is rolled back.
RollsBack_Uncertain(a) == a # "ok"

RollsBack(a) == a = "failed"

\* Then the ACL; a grant that was not written takes the bundle back.
Grant ==
    /\ op.pc = "grant"
    /\ \E a \in Answers :
          /\ Save([mem EXCEPT !.acl = Put(@, op.client, op.hosts)], a)
          /\ view' = IF Adopts(a) THEN ViewOf(mem') ELSE view
          /\ op' = IF RollsBack(a) THEN [pc |-> "rollback", client |-> op.client] ELSE Idle
    /\ UNCHANGED <<bundle, issued, revoked, spent>>

\* remove_issued_credential_bundle of the client of op.
RemoveBundle ==
    /\ op.pc \in {"rollback", "delete"}
    /\ \E a \in Answers : bundle' = [bundle EXCEPT ![op.client] = Replaced(@, FALSE, a)]
    /\ op' = Idle
    /\ UNCHANGED <<disk, mem, view, issued, revoked, invalid, spent>>

\* The permissions of a client are edited; its bundle stays as it is.
Edit ==
    /\ Starts
    /\ \E c \in DOMAIN mem.acl, hs \in SUBSET view.hosts, a \in Answers :
          /\ hs # {}
          /\ Save([mem EXCEPT !.acl[c] = hs], a)
          /\ view' = IF Adopts(a) THEN ViewOf(mem') ELSE view
    /\ UNCHANGED <<bundle, op, issued, revoked>>

-----------------------------------------------------------------------------
(* persist_after_ui_change, sync_server_from_view *)

\* reconcile_client_host_permissions
Reconciled(acl, hs) == [c \in DOMAIN acl |-> acl[c] \cap hs]

\* The candidate is built from the view v, which the screens have changed.
Candidate(v) ==
    LET acl == [c \in DOMAIN mem.acl \cap v.clients |-> mem.acl[c]] IN
    [hosts |-> v.hosts, acl |-> Reconciled(acl, v.hosts)]

\* Success and failure end with the view of the configuration in force.
Persist(v, a) ==
    /\ Save(Candidate(v), a)
    /\ view' = ViewOf(mem')

Saved(a) == a = "ok"

\* The row is gone from the view first; the credential file goes only after a
\* save without any error.
Revoke ==
    /\ Starts
    /\ \E c \in view.clients, a \in Answers :
          /\ Persist([view EXCEPT !.clients = @ \ {c}], a)
          /\ op' = IF Saved(a) THEN [pc |-> "delete", client |-> c] ELSE Idle
          /\ revoked' = IF Saved(a) THEN revoked \cup {c} ELSE revoked
    /\ UNCHANGED <<bundle, issued>>

\* The host editor and the deletion of a host.
ChangeHosts ==
    /\ Starts
    /\ \E hs \in (SUBSET Hosts) \ {view.hosts}, a \in Answers :
          Persist([view EXCEPT !.hosts = hs], a)
    /\ UNCHANGED <<bundle, op, issued, revoked>>

-----------------------------------------------------------------------------

\* The machine stops; the files are what it had kept, the TUI loads them.
MachineStops ==
    /\ spent.crashes < MaxStops
    /\ \E c \in disk.kept : disk' = [shown |-> c, kept |-> {c}]
    /\ bundle' \in [Clients -> {File(TRUE), File(FALSE)}]
    /\ \A c \in Clients : bundle'[c].shown \in bundle[c].kept
    /\ mem' = disk'.shown /\ view' = ViewOf(mem')
    /\ op' = Idle
    /\ spent' = [spent EXCEPT !.crashes = @ + 1]
    /\ UNCHANGED <<issued, revoked, invalid>>

AclNext ==
    \/ IssueBundle \/ Grant \/ RemoveBundle \/ Edit \/ Revoke \/ ChangeHosts
    \/ MachineStops

AclSpec == AclInit /\ [][AclNext]_aclVars

-----------------------------------------------------------------------------
(* Properties *)

Configs == disk.kept \cup {disk.shown}

\* What is seen on disk is one of the versions a crash may leave, and every
\* version only grants clients that were issued a credential.
AclTypeOK ==
    /\ disk.shown \in disk.kept
    /\ \A c \in Clients : bundle[c].shown \in bundle[c].kept
    /\ \A x \in Configs : x.hosts \subseteq Hosts /\ DOMAIN x.acl \subseteq issued

\* A client in the ACL, in every version a crash can bring back, has its
\* credential file for good: the bundle is written before the grant, taken
\* back only when the grant was not written, and deleted only after the
\* revocation is durable (docs/secure.md "不能回滚成旧授权或删除已经获授权的凭据").
GrantedHasBundle ==
    \A x \in Configs : \A c \in DOMAIN x.acl : bundle[c].kept = {TRUE}

\* Between operations memory and screen show what is on disk, also after a save
\* that failed halfway: the next candidate starts from the ACL in force
\* (docs/secure.md "替换前失败保留原内存授权和视图").
MemoryIsDisk == op = Idle => mem = disk.shown /\ view = ViewOf(mem)

\* A client the operator was told is revoked is in no version of the ACL again,
\* whatever is saved later and whenever the machine stops.
RevokedForGood == \A x \in Configs : revoked \cap DOMAIN x.acl = {}

\* No candidate the TUI builds is refused by validation: deleting a host that
\* clients may still wake takes their permissions along.
CandidatesValid == ~invalid

CredentialsSound ==
    AclTypeOK /\ GrantedHasBundle /\ MemoryIsDisk /\ RevokedForGood /\ CandidatesValid

-----------------------------------------------------------------------------
(* The inductive strengthening *)

Acls == UNION {[D -> SUBSET Hosts] : D \in SUBSET Clients}
Config == [hosts : SUBSET Hosts, acl : Acls]

\* A version grants only what validation allows, to clients with a credential
\* that are not revoked.
Sound(x) ==
    /\ x \in Config /\ Valid(x)
    /\ \A c \in DOMAIN x.acl : c \in issued \ revoked /\ bundle[c].kept = {TRUE}

\* The client of an operation at work is in no version: not yet, or no more.
OpFresh ==
    op # Idle =>
        /\ op.pc \in {"grant", "rollback", "delete"} /\ op.client \in issued
        /\ \A x \in disk.kept : op.client \notin DOMAIN x.acl
        /\ op.pc = "grant" => /\ op.client \notin revoked /\ op.hosts \subseteq mem.hosts
                              /\ bundle[op.client].kept = {TRUE}

CredInv ==
    /\ disk = [shown |-> disk.shown, kept |-> disk.kept] /\ disk.shown \in disk.kept
    /\ bundle \in [Clients -> [shown : BOOLEAN, kept : SUBSET BOOLEAN]]
    /\ \A c \in Clients : bundle[c].shown \in bundle[c].kept
    /\ mem = disk.shown /\ view = ViewOf(mem)
    /\ revoked \subseteq issued /\ issued \subseteq Clients
    /\ invalid = FALSE
    /\ \A x \in disk.kept : Sound(x)
    /\ OpFresh

=============================================================================
