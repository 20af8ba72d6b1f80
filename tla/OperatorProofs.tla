--------------------------- MODULE OperatorProofs ---------------------------
(***************************************************************************)
(* Proofs about what the operator works with: the ACL and the credential   *)
(* files of the server, the client's credential directory, the screens and *)
(* the private files below them.                                           *)
(*                                                                         *)
(* For PrivateFiles, the invariant FileInv says of every moment a crash    *)
(* may bring back what is wanted of the present one, and that the files    *)
(* which can be reached are whole.  A step of a call is first reduced to   *)
(* what it does to each name, file and call (WriterStep, RemoverStep);     *)
(* that such a step keeps the invariant is shown once for each of the two  *)
(* kinds.                                                                  *)
(***************************************************************************)
EXTENDS Credentials, CredentialStore, Console, PrivateFiles, FiniteSetTheorems,
        TLAPS

-----------------------------------------------------------------------------
(* Credentials *)

LEMMA CredInit ==
    ASSUME AclInit
    PROVE  CredInv
  <1>1. Empty \in Config /\ Valid(Empty) /\ DOMAIN Empty.acl = {}
    BY DEF Empty, Config, Acls, Valid
  <1>2. Sound(Empty)
    BY <1>1 DEF Sound
  <1>3. bundle \in [Clients -> [shown : BOOLEAN, kept : SUBSET BOOLEAN]]
        /\ \A c \in Clients : bundle[c].shown \in bundle[c].kept
    BY DEF AclInit, File
  <1>4. OpFresh
    BY DEF AclInit, OpFresh
  <1> QED
    BY <1>2, <1>3, <1>4 DEF AclInit, CredInv

\* A configuration of memory has an ACL over some of the clients.
LEMMA AclOf ==
    ASSUME NEW x \in Config
    PROVE  /\ x.hosts \subseteq Hosts /\ x.acl \in Acls
           /\ DOMAIN x.acl \subseteq Clients
           /\ x.acl \in [DOMAIN x.acl -> SUBSET Hosts]
  BY DEF Config, Acls

\* What a save of the candidate x leaves on disk and in memory.
LEMMA SaveLeaves ==
    ASSUME CredInv, NEW x, NEW a \in Answers, Save(x, a), Valid(x)
    PROVE  /\ disk' = [shown |-> disk'.shown, kept |-> disk'.kept]
           /\ disk'.shown \in disk'.kept /\ mem' = disk'.shown
           /\ invalid' = FALSE
           /\ a = "failed" => disk'.kept = disk.kept /\ mem' = mem
           /\ a = "ok" => disk'.kept = {x} /\ mem' = x
           /\ a = "uncertain" => disk'.kept = disk.kept \cup {x} /\ mem' = x
  BY DEF CredInv, Save, Answers, Replaced, Adopts

LEMMA IssueKeeps ==
    ASSUME CredInv, IssueBundle
    PROVE  CredInv'
  <1>1. PICK c \in Clients \ issued, hs \in SUBSET view.hosts, a \in Answers :
          /\ hs # {} /\ ~bundle[c].shown
          /\ bundle' = [bundle EXCEPT ![c] = Replaced(bundle[c], TRUE, a)]
          /\ issued' = issued \cup {c}
          /\ op' = IF a = "ok" THEN [pc |-> "grant", client |-> c, hosts |-> hs] ELSE Idle
    BY DEF IssueBundle
  <1>2. disk' = disk /\ mem' = mem /\ view' = view /\ revoked' = revoked /\ invalid' = invalid
    BY DEF IssueBundle
  <1>3. /\ Replaced(bundle[c], TRUE, a) \in [shown : BOOLEAN, kept : SUBSET BOOLEAN]
        /\ Replaced(bundle[c], TRUE, a).shown \in Replaced(bundle[c], TRUE, a).kept
        /\ a = "ok" => Replaced(bundle[c], TRUE, a).kept = {TRUE}
    BY DEF CredInv, Replaced, Answers
  <1>4. /\ bundle' \in [Clients -> [shown : BOOLEAN, kept : SUBSET BOOLEAN]]
        /\ \A d \in Clients : bundle'[d].shown \in bundle'[d].kept
        /\ \A d \in Clients \ {c} : bundle'[d] = bundle[d]
        /\ a = "ok" => bundle'[c].kept = {TRUE}
    <2> DEFINE b == Replaced(bundle[c], TRUE, a)
    <2>1. /\ bundle \in [Clients -> [shown : BOOLEAN, kept : SUBSET BOOLEAN]]
          /\ \A d \in Clients : bundle[d].shown \in bundle[d].kept
      BY DEF CredInv
    <2>2. bundle' = [bundle EXCEPT ![c] = b]
      BY <1>1
    <2>3. /\ b \in [shown : BOOLEAN, kept : SUBSET BOOLEAN] /\ b.shown \in b.kept
          /\ a = "ok" => b.kept = {TRUE}
      BY <1>3
    <2> HIDE DEF b
    <2> QED
      BY <2>1, <2>2, <2>3
  <1>5. ASSUME NEW x \in disk.kept
        PROVE  Sound(x)' /\ c \notin DOMAIN x.acl
    BY <1>1, <1>2, <1>4 DEF CredInv, Sound, Valid, Config, Acls
  <1>6. OpFresh'
    <2>1. CASE a = "ok"
      BY <1>1, <1>2, <1>4, <1>5, <2>1 DEF CredInv, OpFresh, ViewOf
    <2>2. CASE a # "ok"
      BY <1>1, <2>2 DEF OpFresh
    <2> QED
      BY <2>1, <2>2
  <1> QED
    BY <1>1, <1>2, <1>4, <1>5, <1>6 DEF CredInv, ViewOf

LEMMA GrantKeeps ==
    ASSUME CredInv, Grant
    PROVE  CredInv'
  <1>0. PICK x : x = [mem EXCEPT !.acl = Put(mem.acl, op.client, op.hosts)]
    OBVIOUS
  <1>1. PICK a \in Answers :
          /\ Save(x, a)
          /\ view' = IF Adopts(a) THEN ViewOf(mem') ELSE view
          /\ op' = IF RollsBack(a) THEN [pc |-> "rollback", client |-> op.client] ELSE Idle
    BY <1>0 DEF Grant
  <1>2. op.pc = "grant" /\ bundle' = bundle /\ issued' = issued /\ revoked' = revoked
    BY DEF Grant
  <1>3. /\ op # Idle /\ op.client \in issued \ revoked /\ op.hosts \subseteq mem.hosts
        /\ \A y \in disk.kept : op.client \notin DOMAIN y.acl
        /\ bundle[op.client].kept = {TRUE}
    <2>1. op # Idle
      BY <1>2 DEF Idle
    <2> QED
      BY <1>2, <2>1 DEF CredInv, OpFresh
  <1>4. mem \in Config /\ Valid(mem) /\ \A c \in DOMAIN mem.acl : c \in issued \ revoked /\ bundle[c].kept = {TRUE}
    BY DEF CredInv, Sound
  <1>5. x.hosts = mem.hosts /\ x.acl = Put(mem.acl, op.client, op.hosts)
        /\ x = [hosts |-> x.hosts, acl |-> x.acl]
    BY <1>0, <1>4 DEF Config
  <1>6. /\ DOMAIN x.acl = DOMAIN mem.acl \cup {op.client}
        /\ \A c \in DOMAIN x.acl : x.acl[c] = IF c = op.client THEN op.hosts ELSE mem.acl[c]
        /\ x.acl \in [DOMAIN x.acl -> SUBSET Hosts]
    BY <1>3, <1>4, <1>5, AclOf DEF Put
  <1>7. DOMAIN x.acl \in SUBSET Clients
    BY <1>3, <1>4, <1>6, AclOf DEF CredInv
  <1>8. x \in Config
    BY <1>4, <1>5, <1>6, <1>7, AclOf DEF Config, Acls
  <1>9. Valid(x)
    BY <1>3, <1>4, <1>5, <1>6 DEF Valid
  <1>10. Sound(x)'
    BY <1>2, <1>3, <1>4, <1>6, <1>8, <1>9 DEF Sound, Valid, Config, Acls
  <1>11. \A y \in disk.kept : Sound(y)'
    BY <1>2 DEF CredInv, Sound, Valid, Config, Acls
  <1>12. /\ disk' = [shown |-> disk'.shown, kept |-> disk'.kept]
         /\ disk'.shown \in disk'.kept /\ mem' = disk'.shown
         /\ invalid' = FALSE
         /\ a = "failed" => disk'.kept = disk.kept /\ mem' = mem
         /\ disk'.kept \subseteq disk.kept \cup {x}
    BY <1>1, <1>9, SaveLeaves DEF Answers
  <1>13. OpFresh'
    BY <1>1, <1>2, <1>3, <1>12 DEF OpFresh, RollsBack, Idle
  <1>14. view' = ViewOf(mem')
    BY <1>1, <1>12 DEF CredInv, Adopts, Answers
  <1> QED
    BY <1>2, <1>10, <1>11, <1>12, <1>13, <1>14 DEF CredInv

LEMMA RemoveKeeps ==
    ASSUME CredInv, RemoveBundle
    PROVE  CredInv'
  <1>1. PICK a \in Answers : bundle' = [bundle EXCEPT ![op.client] = Replaced(bundle[op.client], FALSE, a)]
    BY DEF RemoveBundle
  <1>2. /\ disk' = disk /\ mem' = mem /\ view' = view /\ revoked' = revoked /\ invalid' = invalid
        /\ issued' = issued /\ op' = Idle
    BY DEF RemoveBundle
  <1>3. op.client \in Clients /\ \A y \in disk.kept : op.client \notin DOMAIN y.acl
    <2>1. op # Idle
      BY DEF RemoveBundle, Idle
    <2> QED
      BY <2>1 DEF CredInv, OpFresh
  <1>4. Replaced(bundle[op.client], FALSE, a) \in [shown : BOOLEAN, kept : SUBSET BOOLEAN]
        /\ Replaced(bundle[op.client], FALSE, a).shown \in Replaced(bundle[op.client], FALSE, a).kept
    BY <1>3 DEF CredInv, Replaced, Answers
  <1>5. /\ bundle' \in [Clients -> [shown : BOOLEAN, kept : SUBSET BOOLEAN]]
        /\ \A d \in Clients : bundle'[d].shown \in bundle'[d].kept
        /\ \A d \in Clients \ {op.client} : bundle'[d] = bundle[d]
    BY <1>1, <1>3, <1>4 DEF CredInv
  <1>6. ASSUME NEW x \in disk.kept
        PROVE  Sound(x)'
    <2>1. /\ x \in Config /\ Valid(x) /\ DOMAIN x.acl \subseteq Clients
          /\ \A c \in DOMAIN x.acl : c \in issued \ revoked /\ bundle[c].kept = {TRUE}
      BY DEF CredInv, Sound
    <2>2. \A c \in DOMAIN x.acl : c # op.client /\ bundle'[c] = bundle[c]
      BY <1>3, <1>5, <2>1
    <2> QED
      BY <1>2, <2>1, <2>2 DEF Sound, Valid, Config, Acls
  <1>7. OpFresh'
    BY <1>2 DEF OpFresh
  <1> QED
    BY <1>2, <1>5, <1>6, <1>7 DEF CredInv, ViewOf

LEMMA EditKeeps ==
    ASSUME CredInv, Edit
    PROVE  CredInv'
  <1>1. PICK c \in DOMAIN mem.acl, hs \in SUBSET view.hosts, a \in Answers :
          /\ Save([mem EXCEPT !.acl = [mem.acl EXCEPT ![c] = hs]], a)
          /\ view' = IF Adopts(a) THEN ViewOf(mem') ELSE view
    BY DEF Edit
  <1>3. PICK x : x = [mem EXCEPT !.acl = [mem.acl EXCEPT ![c] = hs]]
    OBVIOUS
  <1>2. op = Idle /\ bundle' = bundle /\ op' = op /\ issued' = issued /\ revoked' = revoked
    BY DEF Edit, Starts
  <1>4. mem \in Config /\ Valid(mem) /\ \A d \in DOMAIN mem.acl : d \in issued \ revoked /\ bundle[d].kept = {TRUE}
    BY DEF CredInv, Sound
  <1>5. x.hosts = mem.hosts /\ x.acl = [mem.acl EXCEPT ![c] = hs]
        /\ x = [hosts |-> x.hosts, acl |-> x.acl] /\ hs \subseteq mem.hosts
    BY <1>3, <1>4 DEF Config, CredInv, ViewOf
  <1>6. /\ DOMAIN x.acl = DOMAIN mem.acl
        /\ \A d \in DOMAIN x.acl : x.acl[d] = IF d = c THEN hs ELSE mem.acl[d]
        /\ x.acl \in [DOMAIN x.acl -> SUBSET Hosts]
    BY <1>4, <1>5, AclOf
  <1>7. DOMAIN x.acl \in SUBSET Clients
    BY <1>4, <1>6, AclOf DEF CredInv
  <1>8. x \in Config
    BY <1>4, <1>5, <1>6, <1>7, AclOf DEF Config, Acls
  <1>9. Valid(x)
    BY <1>4, <1>5, <1>6 DEF Valid
  <1>10. Save(x, a)
    BY <1>1, <1>3
  <1>11. Sound(x)'
    BY <1>2, <1>4, <1>6, <1>8, <1>9 DEF Sound, Valid, Config, Acls
  <1>12. \A y \in disk.kept : Sound(y)'
    BY <1>2 DEF CredInv, Sound, Valid, Config, Acls
  <1>13. /\ disk' = [shown |-> disk'.shown, kept |-> disk'.kept]
         /\ disk'.shown \in disk'.kept /\ mem' = disk'.shown
         /\ invalid' = FALSE
         /\ a = "failed" => mem' = mem
         /\ disk'.kept \subseteq disk.kept \cup {x}
    BY <1>9, <1>10, SaveLeaves DEF Answers
  <1>14. OpFresh'
    BY <1>2 DEF OpFresh
  <1>15. view' = ViewOf(mem')
    BY <1>1, <1>13 DEF CredInv, Adopts, Answers
  <1> QED
    BY <1>2, <1>11, <1>12, <1>13, <1>14, <1>15 DEF CredInv

\* The candidate built from a changed view is sound, and drops who is dropped.
LEMMA CandidateSound ==
    ASSUME CredInv, NEW v, v.hosts \in SUBSET Hosts
    PROVE  /\ Sound(Candidate(v))
           /\ DOMAIN Candidate(v).acl = DOMAIN mem.acl \cap v.clients
  <1> DEFINE x == Candidate(v)
             D == DOMAIN mem.acl \cap v.clients
  <1>1. mem \in Config /\ Valid(mem) /\ \A d \in DOMAIN mem.acl : d \in issued \ revoked /\ bundle[d].kept = {TRUE}
    BY DEF CredInv, Sound
  <1>2. x = [hosts |-> v.hosts, acl |-> [d \in D |-> mem.acl[d] \cap v.hosts]]
    BY DEF Candidate, Reconciled
  <1>3. D \in SUBSET Clients
    BY <1>1, AclOf
  <1>4. [d \in D |-> mem.acl[d] \cap v.hosts] \in [D -> SUBSET Hosts]
    OBVIOUS
  <1>5. x \in Config
    BY <1>2, <1>3, <1>4 DEF Config, Acls
  <1>6. DOMAIN x.acl = D /\ Valid(x)
    BY <1>2 DEF Valid
  <1> QED
    BY <1>1, <1>5, <1>6 DEF Sound

\* Saving what a changed view asks for.
LEMMA PersistKeeps ==
    ASSUME CredInv, NEW v, v.hosts \in SUBSET Hosts, NEW a \in Answers, Persist(v, a)
    PROVE  /\ disk' = [shown |-> disk'.shown, kept |-> disk'.kept]
           /\ disk'.shown \in disk'.kept /\ mem' = disk'.shown
           /\ invalid' = FALSE /\ view' = ViewOf(mem')
           /\ disk'.kept \subseteq disk.kept \cup {Candidate(v)}
           /\ a = "ok" => disk'.kept = {Candidate(v)}
           /\ \A x \in disk'.kept : Sound(x)
  <1>1. Sound(Candidate(v))
    BY CandidateSound
  <1>2. Save(Candidate(v), a) /\ Valid(Candidate(v)) /\ view' = ViewOf(mem')
    BY <1>1 DEF Persist, Sound
  <1>3. \A x \in disk.kept : Sound(x)
    BY DEF CredInv
  <1>4. /\ disk' = [shown |-> disk'.shown, kept |-> disk'.kept]
        /\ disk'.shown \in disk'.kept /\ mem' = disk'.shown
        /\ invalid' = FALSE
        /\ disk'.kept \subseteq disk.kept \cup {Candidate(v)}
        /\ a = "ok" => disk'.kept = {Candidate(v)}
    BY <1>2, SaveLeaves DEF Answers
  <1> QED
    BY <1>1, <1>2, <1>3, <1>4

LEMMA RevokeKeeps ==
    ASSUME CredInv, Revoke
    PROVE  CredInv'
  <1>1. PICK c \in view.clients, a \in Answers :
          /\ Persist([view EXCEPT !.clients = view.clients \ {c}], a)
          /\ op' = IF Saved(a) THEN [pc |-> "delete", client |-> c] ELSE Idle
          /\ revoked' = IF Saved(a) THEN revoked \cup {c} ELSE revoked
    BY DEF Revoke
  <1> DEFINE v == [view EXCEPT !.clients = view.clients \ {c}]
  <1>2. bundle' = bundle /\ issued' = issued
    BY DEF Revoke
  <1>3. /\ v.hosts = mem.hosts /\ v.clients = DOMAIN mem.acl \ {c} /\ c \in DOMAIN mem.acl
    BY DEF CredInv, ViewOf
  <1>4. v.hosts \in SUBSET Hosts /\ c \in issued
    BY <1>3, AclOf DEF CredInv, Sound
  <1>5. Persist(v, a)
    BY <1>1
  <1> HIDE DEF v
  <1>6. c \notin DOMAIN Candidate(v).acl
    BY <1>3, <1>4, CandidateSound
  <1>7. /\ disk' = [shown |-> disk'.shown, kept |-> disk'.kept]
        /\ disk'.shown \in disk'.kept /\ mem' = disk'.shown
        /\ invalid' = FALSE /\ view' = ViewOf(mem')
        /\ a = "ok" => disk'.kept = {Candidate(v)}
        /\ \A x \in disk'.kept : Sound(x)
    BY <1>4, <1>5, PersistKeeps
  <1>8. \A x \in disk'.kept : Sound(x)'
    BY <1>1, <1>2, <1>6, <1>7 DEF Sound, Valid, Config, Acls, Saved
  <1>9. OpFresh'
    BY <1>1, <1>2, <1>4, <1>6, <1>7 DEF OpFresh, Saved
  <1>10. revoked' \subseteq issued'
    BY <1>1, <1>2, <1>4 DEF CredInv
  <1> QED
    BY <1>2, <1>7, <1>8, <1>9, <1>10 DEF CredInv

LEMMA ChangeKeeps ==
    ASSUME CredInv, ChangeHosts
    PROVE  CredInv'
  <1>1. PICK hs \in SUBSET Hosts, a \in Answers : Persist([view EXCEPT !.hosts = hs], a)
    BY DEF ChangeHosts
  <1> DEFINE v == [view EXCEPT !.hosts = hs]
  <1>2. bundle' = bundle /\ issued' = issued /\ op = Idle /\ op' = op /\ revoked' = revoked
    BY DEF ChangeHosts, Starts
  <1>3. v.hosts = hs /\ Persist(v, a)
    BY <1>1 DEF CredInv, ViewOf
  <1> HIDE DEF v
  <1>4. /\ disk' = [shown |-> disk'.shown, kept |-> disk'.kept]
        /\ disk'.shown \in disk'.kept /\ mem' = disk'.shown
        /\ invalid' = FALSE /\ view' = ViewOf(mem')
        /\ \A x \in disk'.kept : Sound(x)
    BY <1>3, PersistKeeps
  <1>5. \A x \in disk'.kept : Sound(x)'
    BY <1>2, <1>4 DEF Sound, Valid, Config, Acls
  <1>6. OpFresh'
    BY <1>2 DEF OpFresh
  <1> QED
    BY <1>2, <1>4, <1>5, <1>6 DEF CredInv

LEMMA StopKeeps ==
    ASSUME CredInv, MachineStops
    PROVE  CredInv'
  <1>1. PICK c \in disk.kept : disk' = [shown |-> c, kept |-> {c}]
    BY DEF MachineStops
  <1>2. /\ mem' = disk'.shown /\ view' = ViewOf(mem') /\ op' = Idle
        /\ issued' = issued /\ revoked' = revoked /\ invalid' = invalid
    BY DEF MachineStops
  <1>3. /\ bundle' \in [Clients -> [shown : BOOLEAN, kept : SUBSET BOOLEAN]]
        /\ \A d \in Clients : bundle'[d].kept = {bundle'[d].shown}
        /\ \A d \in Clients : bundle'[d].shown \in bundle[d].kept
    <2>1. bundle' \in [Clients -> {File(TRUE), File(FALSE)}]
      BY DEF MachineStops
    <2>2. \A d \in Clients : bundle'[d] = File(TRUE) \/ bundle'[d] = File(FALSE)
      BY <2>1
    <2>3. \A b \in BOOLEAN : /\ File(b) \in [shown : BOOLEAN, kept : SUBSET BOOLEAN]
                            /\ File(b).kept = {File(b).shown}
      BY DEF File
    <2>4. \A d \in Clients : bundle'[d].shown \in bundle[d].kept
      BY DEF MachineStops
    <2> QED
      BY <2>1, <2>2, <2>3, <2>4
  <1>4. Sound(c)'
    <2>1. Sound(c)
      BY DEF CredInv
    <2>2. \A d \in Clients : bundle[d].kept = {TRUE} => bundle'[d].kept = {TRUE}
      BY <1>3
    <2> QED
      BY <1>2, <2>1, <2>2, AclOf DEF Sound, Valid, Config, Acls
  <1>5. OpFresh'
    BY <1>2 DEF OpFresh
  <1> QED
    BY <1>1, <1>2, <1>3, <1>4, <1>5 DEF CredInv

\* The ACL and the credential files agree for every set of clients and hosts:
\* a client in a version that a crash can bring back has its credential file for
\* good, memory and screens show what is on disk, a revoked client never returns,
\* and validation refuses no candidate.
THEOREM CredentialsAreSound == AclSpec => []CredentialsSound
  <1>1. CredInv => CredentialsSound
    BY DEF CredentialsSound, CredInv, Sound, AclTypeOK, GrantedHasBundle, MemoryIsDisk, RevokedForGood,
           CandidatesValid, Configs, Config
  <1>2. ASSUME CredInv, [AclNext]_aclVars PROVE CredInv'
    <2>1. CASE UNCHANGED aclVars
      BY <1>2, <2>1 DEF aclVars, CredInv, OpFresh, Sound, Valid, ViewOf, Config, Acls, Idle
    <2> QED
      BY <1>2, <2>1, IssueKeeps, GrantKeeps, RemoveKeeps, EditKeeps, RevokeKeeps, ChangeKeeps,
         StopKeeps DEF AclNext
  <1> QED
    BY <1>1, <1>2, CredInit, PTL DEF AclSpec

-----------------------------------------------------------------------------
(* CredentialStore *)

\* What a repair writes is a file with the document, and with the access that was
\* looked at; where a file with that access could be loaded, it can be too.
LEMMA ReplacementOf ==
    ASSUME NEW a \in [owner : Owners, mode : Modes, mine : BOOLEAN], NEW d \in Docs
    PROVE  /\ Replacement(a, d) \in CredentialFiles
           /\ Replacement(a, d).doc = d
           /\ \A f \in CredentialFiles :
                 a = Access(f) /\ Private(f) => Private(Replacement(a, d))
  <1>1. Replacement(a, d) = [doc |-> d, owner |-> a.owner, mode |-> a.mode,
                             mine |-> (Me = "root" => a.mine), oddity |-> "none"]
    BY DEF Replacement
  <1>2. Replacement(a, d) \in CredentialFiles
    BY <1>1 DEF CredentialFiles
  <1>3. ASSUME NEW f \in CredentialFiles, a = Access(f), Private(f)
        PROVE  Private(Replacement(a, d))
    BY <1>1, <1>3 DEF Access, Private, CredentialFiles
  <1> QED
    BY <1>1, <1>2, <1>3

LEMMA FilesExist ==
    ASSUME NEW f \in CredentialFiles
    PROVE  f # Absent /\ Access(f) \in [owner : Owners, mode : Modes, mine : BOOLEAN]
  <1>1. f.mode \in Modes /\ "mode" \in DOMAIN f
    BY DEF CredentialFiles
  <1>2. "mode" \notin DOMAIN Absent
    BY DEF Absent
  <1>3. Access(f) \in [owner : Owners, mode : Modes, mine : BOOLEAN]
    BY DEF CredentialFiles, Access
  <1> QED
    BY <1>1, <1>2, <1>3

\* The fields of a discovery and of a repair at work.
LEMMA WalkFields ==
    ASSUME load \in Loading, load.pc = "walk"
    PROVE  load \in [pc : {"walk"}, left : SUBSET Others, cand : Others \cup {"none"}]
  BY DEF Loading, AtRest

LEMMA RepairFields ==
    ASSUME fix \in Repairing
    PROVE  /\ fix # AtRest <=> fix.pc # "idle"
           /\ fix # AtRest => fix.name \in CredentialNames /\ fix.doc \in Docs
           /\ fix.pc = "rename" =>
                 fix.access \in [owner : Owners, mode : Modes, mine : BOOLEAN]
  BY DEF Repairing, AtRest

\* The steps of a discovery change nothing but where it is and its history.
LEMMA DiscoveryStep ==
    ASSUME StoreAssumption, StoreInv, Discover \/ Visit \/ WalkEnds \/ Load
    PROVE  StoreInv'
  <1>1. UNCHANGED <<dir, found, fix, put, touched>>
    BY DEF Discover, Visit, WalkEnds, Load
  <1>2. /\ load' \in Loading /\ steady' \subseteq CredentialNames
        /\ WalkKnown' /\ OnlyCertainPaths'
    <2>1. CASE load' = AtRest /\ steady' \subseteq CredentialNames
      BY <2>1 DEF AtRest, Loading, WalkKnown, OnlyCertainPaths
    <2>2. CASE Discover
      <3>1. CASE "primary" \in Present
        BY <2>2, <3>1 DEF Discover, Loading, WalkKnown, OnlyCertainPaths, CredentialNames, Present
      <3>2. CASE "primary" \notin Present
        <4>1. load' = Walking(Others, "none") /\ steady' = Present
          BY <2>2, <3>2 DEF Discover
        <4>2. Present \subseteq Others
          BY <3>2 DEF Present, CredentialNames
        <4> QED
          BY <4>1, <4>2 DEF Walking, Loading, WalkKnown, OnlyCertainPaths, CredentialNames
      <3> QED
        BY <3>1, <3>2
    <2>3. CASE Visit
      <3>1. load \in [pc : {"walk"}, left : SUBSET Others, cand : Others \cup {"none"}]
        BY <2>3, WalkFields DEF Visit, StoreInv
      <3>2. steady \subseteq load.left \cup ({load.cand} \ {"none"}) /\ steady \subseteq CredentialNames
        BY <3>1 DEF StoreInv, WalkKnown
      <3>3. PICK n \in load.left :
              \/ n \notin steady /\ load' = Walking(load.left \ {n}, load.cand)
              \/ load' = IF Ambiguous(load.cand) THEN AtRest
                         ELSE Walking(load.left \ {n}, n)
        BY <2>3 DEF Visit
      <3>4. CASE load' = AtRest
        BY <2>1, <2>3, <3>4 DEF Visit, Watched
      <3>5. CASE load' # AtRest
        <4>1. steady' = steady
          BY <2>3, <3>5 DEF Visit, Watched
        <4>2. CASE n \notin steady /\ load' = Walking(load.left \ {n}, load.cand)
          BY <3>1, <3>2, <4>1, <4>2 DEF Walking, Loading, WalkKnown, OnlyCertainPaths
        <4>3. CASE ~Ambiguous(load.cand) /\ load' = Walking(load.left \ {n}, n)
          <5>1. load.cand = "none" /\ n # "none"
            BY <3>1, <4>3 DEF Ambiguous, StoreAssumption
          <5> QED
            BY <3>1, <3>2, <4>1, <4>3, <5>1 DEF Walking, Loading, WalkKnown, OnlyCertainPaths
        <4> QED
          BY <3>3, <3>5, <4>2, <4>3
      <3> QED
        BY <3>4, <3>5
    <2>4. CASE WalkEnds
      <3>1. load \in [pc : {"walk"}, left : SUBSET Others, cand : Others \cup {"none"}]
        BY <2>4, WalkFields DEF WalkEnds, StoreInv
      <3>2. CASE load' = AtRest
        BY <2>1, <2>4, <3>2 DEF WalkEnds, Watched
      <3>3. CASE load' # AtRest
        <4>1. load.left = {} /\ load.cand \in Others /\ load' = [pc |-> "read", name |-> load.cand]
          BY <2>4, <3>1, <3>3 DEF WalkEnds
        <4>2. steady' = steady /\ steady \subseteq {load.cand} /\ steady \subseteq CredentialNames
          BY <2>4, <3>1, <3>3, <4>1 DEF WalkEnds, Watched, StoreInv, WalkKnown
        <4> QED
          BY <4>1, <4>2 DEF Walking, Loading, WalkKnown, OnlyCertainPaths, CredentialNames
      <3> QED
        BY <3>2, <3>3
    <2>5. CASE Load
      BY <2>1, <2>5 DEF Load, Watched
    <2> QED
      BY <2>2, <2>3, <2>4, <2>5
  <1> QED
    BY <1>1, <1>2 DEF StoreInv, RepairInPlace, RepairKnown, AccessKnown, Present

\* What the rename of a repair does to the directory.
LEMMA RenameStep ==
    ASSUME StoreInv, RepairRename
    PROVE  /\ fix.name \in CredentialNames /\ fix.doc \in Docs /\ fix # AtRest
           /\ fix.access \in [owner : Owners, mode : Modes, mine : BOOLEAN]
           /\ \/ dir' = dir
              \/ dir' = [dir EXCEPT ![fix.name] = Replacement(fix.access, fix.doc)]
  <1>1. fix.pc = "rename" /\ fix \in Repairing
    BY DEF RepairRename, StoreInv
  <1> QED
    BY <1>1, RepairFields DEF RepairRename, RepairTarget

LEMMA StoreStep ==
    ASSUME StoreAssumption, StoreInv, [StoreNext]_(storeVars)
    PROVE  StoreInv'
  <1>1. CASE Copy
    <2>1. PICK n \in CredentialNames, f \in CredentialFiles \cup {Absent} :
            /\ dir' = [dir EXCEPT ![n] = f]
            /\ put' = [put EXCEPT ![n] = put[n] \cup {f.doc}]
            /\ steady' = IF f = Absent THEN steady \ {n} ELSE steady
            /\ touched' = IF fix = AtRest THEN {} ELSE touched \cup {n}
      BY <1>1 DEF Copy
    <2>2. f.doc \in Docs \cup {Junk, "none"}
      BY DEF CredentialFiles, Absent
    <2>3. UNCHANGED <<load, found, fix>>
      BY <1>1 DEF Copy
    <2>4. /\ dir' \in [CredentialNames -> CredentialFiles \cup {Absent}]
          /\ put' \in [CredentialNames -> SUBSET (Docs \cup {Junk, "none"})]
      BY <2>1, <2>2 DEF StoreInv
    <2>5. RepairInPlace'
      BY <2>1 DEF StoreInv, RepairInPlace, Present
    <2>6. WalkKnown' /\ OnlyCertainPaths' /\ steady' \subseteq CredentialNames
      BY <2>1, <2>3 DEF StoreInv, WalkKnown, OnlyCertainPaths
    <2>7. fix # AtRest => /\ fix.name \in CredentialNames
                          /\ fix.name \in touched' \/ (fix.name \notin touched /\ dir'[fix.name] = dir[fix.name])
      BY <2>1, RepairFields DEF StoreInv
    <2>8. RepairKnown'
      BY <2>1, <2>3, <2>7 DEF StoreInv, RepairKnown
    <2>9. AccessKnown'
      BY <2>3, <2>7, RepairFields DEF StoreInv, AccessKnown
    <2> QED
      BY <2>3, <2>4, <2>5, <2>6, <2>8, <2>9 DEF StoreInv
  <1>2. CASE Discover \/ Visit \/ WalkEnds \/ Load
    BY <1>2, DiscoveryStep
  <1>3. CASE Scan
    BY <1>3 DEF Scan, Present, StoreInv, RepairInPlace, WalkKnown, RepairKnown, AccessKnown,
                OnlyCertainPaths
  <1>4. CASE RepairRead
    <2>1. PICK n \in found :
            /\ found' = found \ {n}
            /\ \/ /\ dir[n] # Absent /\ dir[n].doc \in Docs
                  /\ fix' = [pc |-> "stat", name |-> n, doc |-> dir[n].doc]
               \/ fix' = AtRest
      BY <1>4 DEF RepairRead
    <2>2. UNCHANGED <<dir, load, put, steady>>
      BY <1>4 DEF RepairRead
    <2>3. n \in CredentialNames /\ (dir[n] # Absent => dir[n].doc \in put[n])
      BY DEF StoreInv, RepairInPlace, Present
    <2>4. fix' \in Repairing /\ RepairKnown' /\ AccessKnown'
      BY <2>1, <2>2, <2>3 DEF Repairing, RepairKnown, AccessKnown, AtRest
    <2> QED
      BY <2>1, <2>2, <2>4 DEF StoreInv, RepairInPlace, Present, WalkKnown, OnlyCertainPaths
  <1>5. CASE RepairStat
    <2>1. /\ fix \in [pc : {"stat"}, name : CredentialNames, doc : Docs]
          /\ dir[fix.name] \in CredentialFiles \cup {Absent}
      BY <1>5 DEF RepairStat, StoreInv, Repairing, AtRest
    <2>2. CASE fix' = AtRest
      BY <1>5, <2>2 DEF RepairStat, StoreInv, RepairInPlace, Present, WalkKnown, OnlyCertainPaths,
                        Repairing, RepairKnown, AccessKnown, AtRest
    <2>3. CASE fix' # AtRest
      <3>1. fix' = [pc |-> "rename", name |-> fix.name, doc |-> fix.doc,
                    access |-> IF dir[fix.name] = Absent THEN NewAccess ELSE Access(dir[fix.name])]
        BY <1>5, <2>3 DEF RepairStat, RepairTarget
      <3>2. NewAccess \in [owner : Owners, mode : Modes, mine : BOOLEAN]
        BY DEF NewAccess, StoreAssumption, Owners, Modes
      <3>3. fix' \in Repairing
        BY <2>1, <3>1, <3>2, FilesExist DEF Repairing
      <3>4. RepairKnown /\ fix # AtRest
        BY <2>1 DEF StoreInv, AtRest
      <3>5. RepairKnown' /\ AccessKnown'
        BY <1>5, <2>1, <3>1, <3>4 DEF RepairStat, RepairKnown, AccessKnown
      <3> QED
        BY <1>5, <3>3, <3>5 DEF RepairStat, StoreInv, RepairInPlace, Present, WalkKnown, OnlyCertainPaths
    <2> QED
      BY <2>2, <2>3
  <1>6. CASE RepairRename
    <2>1. fix' = AtRest /\ UNCHANGED <<found, put, load, steady>>
      BY <1>6 DEF RepairRename
    <2>2. fix' \in Repairing /\ RepairKnown' /\ AccessKnown' /\ WalkKnown' /\ OnlyCertainPaths'
      BY <2>1 DEF StoreInv, Repairing, RepairKnown, AccessKnown, WalkKnown, OnlyCertainPaths, AtRest
    <2>3. CASE dir' = dir
      BY <2>1, <2>2, <2>3 DEF StoreInv, RepairInPlace, Present
    <2>4. CASE dir' = [dir EXCEPT ![fix.name] = Replacement(fix.access, fix.doc)]
      <3>1. dir' \in [CredentialNames -> CredentialFiles \cup {Absent}]
        BY <1>6, <2>4, RenameStep, ReplacementOf DEF StoreInv
      <3>2. fix.doc \in put[fix.name]
        BY <1>6, RenameStep DEF StoreInv, RepairKnown
      <3>3. RepairInPlace'
        BY <1>6, <2>1, <2>4, <3>2, RenameStep, ReplacementOf DEF StoreInv, RepairInPlace, Present
      <3> QED
        BY <2>1, <2>2, <3>1, <3>3 DEF StoreInv
    <2> QED
      BY <1>6, <2>3, <2>4, RenameStep
  <1>7. CASE UNCHANGED storeVars
    BY <1>7 DEF storeVars, StoreInv, RepairInPlace, Present, WalkKnown, RepairKnown, AccessKnown,
                OnlyCertainPaths
  <1> QED
    BY <1>1, <1>2, <1>3, <1>4, <1>5, <1>6, <1>7 DEF StoreNext

LEMMA StoreStarts ==
    ASSUME StoreInit
    PROVE  StoreInv
  BY DEF StoreInit, StoreInv, RepairInPlace, Present, WalkKnown, RepairKnown, AccessKnown,
         OnlyCertainPaths, Loading, Repairing, AtRest

\* A name other than the primary one is chosen only when no other credential was
\* there all the time the directory was walked.  A repair moves no identity to
\* another name, changes no file at another name, and where nobody copied since its
\* read it keeps the document and leaves a loadable credential loadable.
THEOREM RepairsAreHarmless ==
    ASSUME StoreAssumption
    PROVE  StoreSpec => RepairHarmless
  <1>1. ASSUME StoreInv, [StoreNext]_(storeVars)
        PROVE  [RepairKeeps]_(storeVars)
    <2> SUFFICES ASSUME RepairEnds, NEW n \in Present \ (touched \cap {fix.name})
                 PROVE  /\ dir'[n].doc = dir[n].doc
                        /\ Loadable(dir[n]) => Loadable(dir'[n])
      BY DEF RepairKeeps
    <2>1. fix # AtRest /\ fix' = AtRest /\ fix.pc = "rename"
      BY DEF RepairEnds, AtRest
    <2>2. RepairRename
      BY <1>1, <2>1 DEF StoreNext, storeVars, Copy, Discover, Visit, WalkEnds, Load, Scan,
                        RepairRead, RepairStat
    <2>3. n \in CredentialNames /\ dir[n] \in CredentialFiles
      BY <1>1 DEF Present, StoreInv
    <2>4. CASE dir'[n] = dir[n]
      BY <2>4
    <2>5. CASE dir'[n] # dir[n]
      <3>1. n = fix.name /\ dir'[n] = Replacement(fix.access, fix.doc)
        BY <1>1, <2>2, <2>3, <2>5, RenameStep DEF StoreInv
      <3>2. dir[n].doc = fix.doc /\ fix.access = Access(dir[n])
        BY <1>1, <2>1, <3>1 DEF StoreInv, RepairKnown, AccessKnown
      <3>3. /\ Replacement(fix.access, fix.doc) \in CredentialFiles
            /\ Replacement(fix.access, fix.doc).doc = fix.doc
            /\ Private(dir[n]) => Private(Replacement(fix.access, fix.doc))
        BY <1>1, <2>2, <2>3, <3>2, RenameStep, ReplacementOf
      <3> QED
        BY <3>1, <3>2, <3>3, FilesExist DEF Loadable
    <2> QED
      BY <2>4, <2>5
  <1>2. StoreInv => OnlyCertainPaths /\ RepairInPlace
    BY DEF StoreInv
  <1> QED
    BY <1>1, <1>2, StoreStarts, StoreStep, PTL DEF StoreSpec, RepairHarmless

-----------------------------------------------------------------------------
(* Console *)

\* The tables of pages and windows.
LEMMA Tables ==
    /\ \A d \in Digits : PageOf[d] \in Top
    /\ DOMAIN ListOf = {"DeleteHost", "DeleteHeader", "RevokeCredential"}
    /\ ListOf["DeleteHost"] = "hosts" /\ ListOf["DeleteHeader"] = "headers"
    /\ ListOf["RevokeCredential"] = "clients"
  BY DEF Digits, PageOf, Top, ListOf

\* A clamped cursor is inside the list.
LEMMA ClampedIn ==
    ASSUME NEW at \in Nat, NEW n \in Nat
    PROVE  /\ Clamped(at, n) \in 0 .. n
           /\ n > 0 => Clamped(at, n) < n
  BY DEF Clamped, Lower, LastRow

\* What loading the lists of the configuration leaves.
LEMMA Loads ==
    ASSUME MaxRows \in Nat, config' \in [Lists -> 0 .. MaxRows],
           NEW at \in [Lists -> Nat], LoadView(at)
    PROVE  /\ rows' = config' /\ own' = TRUE /\ dirty' = FALSE
           /\ cursor' \in [Lists -> 0 .. MaxRows]
           /\ \A l \in Lists : rows'[l] > 0 => cursor'[l] < rows'[l]
  <1>1. /\ rows' = config' /\ own' = TRUE /\ dirty' = FALSE
        /\ cursor' = [l \in Lists |-> Clamped(at[l], config'[l])]
    BY DEF LoadView
  <1>2. ASSUME NEW l \in Lists
        PROVE  /\ Clamped(at[l], config'[l]) \in 0 .. MaxRows
               /\ config'[l] > 0 => Clamped(at[l], config'[l]) < config'[l]
    <2>1. at[l] \in Nat /\ config'[l] \in Nat /\ config'[l] \in 0 .. MaxRows
      OBVIOUS
    <2> DEFINE n == config'[l]
               at1 == Clamped(at[l], n)
    <2>2. at1 \in 0 .. n /\ (n > 0 => at1 < n)
      BY <2>1, ClampedIn
    <2> HIDE DEF n, at1
    <2>3. at1 \in 0 .. MaxRows /\ (n > 0 => at1 < n)
      BY <2>1, <2>2 DEF n
    <2> QED
      BY <2>3 DEF n, at1
  <1> QED
    BY <1>1, <1>2

\* The lists are kept by a step that leaves them alone, and stays on the page of
\* an editor or enters none.
LEMMA ListsIdle ==
    ASSUME ListInv,
           UNCHANGED <<rows, config, cursor, edit, pick, repair, own, panicked>>,
           screen' \in {"HostEditor", "HeaderEditor", "CredentialIssue", "CredentialRepair"}
                => screen' = screen,
           screen = "CredentialRepair" => screen' = screen
    PROVE  ListInv'
  BY DEF ListInv, EditorFor

\* ... and by a step that loads them and enters no editor.
LEMMA ListsLoaded ==
    ASSUME ListInv, ~panicked, UNCHANGED <<pick, repair, edit, panicked>>,
           rows' = config', own' = TRUE, config' \in [Lists -> 0 .. MaxRows],
           cursor' \in [Lists -> 0 .. MaxRows],
           \A l \in Lists : rows'[l] > 0 => cursor'[l] < rows'[l],
           screen' \notin {"HostEditor", "HeaderEditor", "CredentialRepair"},
           screen' = "CredentialIssue" => edit # -1
    PROVE  ListInv'
  BY DEF ListInv, EditorFor, Lists

\* Saving the lists v.
LEMMA PersistLoads ==
    ASSUME MaxRows \in Nat, ListInv, NEW v \in [Lists -> 0 .. MaxRows],
           NEW at \in [Lists -> Nat], NEW a, PersistServer(v, at, a)
    PROVE  /\ rows' = config' /\ own' = TRUE /\ dirty' = FALSE /\ panicked' = panicked
           /\ config' \in [Lists -> 0 .. MaxRows]
           /\ cursor' \in [Lists -> 0 .. MaxRows]
           /\ \A l \in Lists : rows'[l] > 0 => cursor'[l] < rows'[l]
  <1>1. config' \in [Lists -> 0 .. MaxRows] /\ panicked' = panicked /\ LoadView(at)
    BY DEF PersistServer, Commit, ListInv
  <1> QED
    BY <1>1, Loads

LEMMA PageChangeKeeps ==
    ASSUME ConsoleInv, NEW from, NEW to, Go(from, to),
           from \notin {"ServerSettings", "HeaderEditor", "ClientHosts", "Wake", "CredentialRepair"},
           to \in Screens \ {"HostEditor", "HeaderEditor", "CredentialIssue", "CredentialRepair"}
    PROVE  ConsoleInv'
  <1>1. /\ screen = from /\ modal = "none" /\ screen' = to /\ modal' = modal
        /\ UNCHANGED <<rows, cursor, own, dirty, config, panicked, editing, draft, edit,
                       client, pick, repair, server>>
    BY DEF Go, Key, Still, KeepData, data, setup, peers
  <1>2. PageInv'
    BY <1>1 DEF ConsoleInv, PageInv
  <1>3. ListInv'
    BY <1>1, ListsIdle DEF ConsoleInv
  <1> QED
    BY <1>1, <1>2, <1>3 DEF ConsoleInv

LEMMA WindowOpens ==
    ASSUME ConsoleInv, NEW from, NEW m \in Modals, Ask(from, m),
           m = "DeleteHost" => from = "ServerHome",
           m = "DeleteHeader" => from = "ServerSettings",
           m = "RevokeCredential" => from = "Credentials",
           m = "StopServer" => from = "ServerRunning"
    PROVE  ConsoleInv'
  <1>1. /\ screen = from /\ modal' = m /\ screen' = screen
        /\ UNCHANGED <<rows, cursor, own, dirty, config, panicked, editing, draft, edit,
                       client, pick, repair, server>>
    BY DEF Ask, Key, Still, KeepData, data, setup, peers
  <1>2. PageInv'
    BY <1>1 DEF ConsoleInv, PageInv
  <1>3. ListInv'
    BY <1>1, ListsIdle DEF ConsoleInv
  <1> QED
    BY <1>1, <1>2, <1>3 DEF ConsoleInv

LEMMA HelpKeeps ==
    ASSUME ConsoleInv, Help
    PROVE  ConsoleInv'
  <1>1. /\ modal' = "Help" /\ screen' = screen
        /\ UNCHANGED <<rows, cursor, own, dirty, config, panicked, editing, draft, edit,
                       client, pick, repair, server>>
    BY DEF Help, Still, KeepData, data, setup, peers
  <1>2. PageInv'
    BY <1>1 DEF ConsoleInv, PageInv, Modals
  <1>3. ListInv'
    BY <1>1, ListsIdle DEF ConsoleInv
  <1> QED
    BY <1>1, <1>2, <1>3 DEF ConsoleInv

LEMMA CursorMoves ==
    ASSUME MaxRows \in Nat, ConsoleInv, NEW from, NEW l \in Lists, Move(from, l),
           from # "CredentialRepair"
    PROVE  ConsoleInv'
  <1>1. PICK at \in {cursor[l] - 1, cursor[l] + 1} :
          at >= 0 /\ cursor' = [cursor EXCEPT ![l] = Clamped(at, rows[l])]
    BY DEF Move
  <1>2. /\ screen = from /\ modal = "none" /\ screen' = screen /\ modal' = modal
        /\ UNCHANGED <<rows, own, dirty, config, panicked, editing, draft, edit,
                       client, pick, repair, server>>
    BY DEF Move, Key, Still, KeepData, data, setup, peers
  <1>3. cursor[l] \in Nat /\ rows[l] \in Nat /\ rows[l] \in 0 .. MaxRows
    BY DEF ConsoleInv, ListInv
  <1> DEFINE n == rows[l]
             new == Clamped(at, n)
  <1>4. at \in Nat
    BY <1>1, <1>3
  <1>5. new \in 0 .. n /\ (n > 0 => new < n)
    BY <1>3, <1>4, ClampedIn
  <1>6. cursor' = [cursor EXCEPT ![l] = new]
    BY <1>1
  <1> HIDE DEF new
  <1>7. new \in 0 .. MaxRows
    BY <1>3, <1>5
  <1>8. ListInv'
    BY <1>2, <1>5, <1>6, <1>7 DEF ConsoleInv, ListInv, EditorFor
  <1>9. PageInv'
    BY <1>2 DEF ConsoleInv, PageInv
  <1> QED
    BY <1>2, <1>8, <1>9 DEF ConsoleInv

\* A step that loads the lists, on the server's pages.
LEMMA LoadedKeeps ==
    ASSUME ConsoleInv, ~panicked,
           UNCHANGED <<edit, client, pick, repair, panicked>>,
           rows' = config', own' = TRUE, dirty' = FALSE,
           config' \in [Lists -> 0 .. MaxRows], cursor' \in [Lists -> 0 .. MaxRows],
           \A l \in Lists : rows'[l] > 0 => cursor'[l] < rows'[l],
           screen' \in Screens \ {"HostEditor", "HeaderEditor", "CredentialRepair"},
           screen' = "CredentialIssue" => edit # -1,
           screen \notin {"ClientHosts", "Wake"},
           draft' \in {"ok", "bad"}, editing' \in BOOLEAN,
           draft' = "bad" => editing' /\ screen' = "ServerSettings",
           modal' \in {"none", "Exit"},
           ServerSound(server')
    PROVE  ConsoleInv'
  <1>1. ListInv'
    BY ListsLoaded DEF ConsoleInv
  <1>2. PageInv'
    BY DEF ConsoleInv, PageInv, Modals
  <1> QED
    BY <1>1, <1>2 DEF ConsoleInv

LEMMA TypesOfLists ==
    ASSUME ConsoleInv, MaxRows \in Nat
    PROVE  /\ rows \in [Lists -> 0 .. MaxRows] /\ config \in [Lists -> 0 .. MaxRows]
           /\ cursor \in [Lists -> Nat] /\ edit \in Int
           /\ draft \in {"ok", "bad"} /\ editing \in BOOLEAN
           /\ draft = "bad" => editing /\ screen = "ServerSettings"
           /\ ServerSound(server)
  BY DEF ConsoleInv, ListInv, PageInv

LEMMA SaveNowKeeps ==
    ASSUME MaxRows \in Nat, ConsoleInv, ~panicked, NEW from, NEW to, SaveNow(from, to),
           from \notin {"ClientHosts", "Wake"},
           from = "ServerSettings" => to = from,
           to \in {"ServerHome", "ServerSettings", "SaveExit"}
    PROVE  ConsoleInv'
  <1>1. /\ screen = from /\ modal = "none" /\ screen' = to /\ modal' = modal
        /\ UNCHANGED <<editing, draft, edit, client, pick, repair, server>>
    BY DEF SaveNow, Key, Still, setup, peers
  <1>2. PICK a : PersistServer(rows, cursor, a)
    BY DEF SaveNow, PersistAny
  <1>3. /\ rows' = config' /\ own' = TRUE /\ dirty' = FALSE /\ panicked' = panicked
        /\ config' \in [Lists -> 0 .. MaxRows] /\ cursor' \in [Lists -> 0 .. MaxRows]
        /\ \A l \in Lists : rows'[l] > 0 => cursor'[l] < rows'[l]
    BY <1>2, TypesOfLists, PersistLoads DEF ConsoleInv
  <1>4. to \in Screens \ {"HostEditor", "HeaderEditor", "CredentialRepair", "CredentialIssue"}
    BY DEF Screens, Top
  <1> QED
    BY <1>1, <1>3, <1>4, TypesOfLists, LoadedKeeps

LEMMA EditorOpens ==
    ASSUME MaxRows \in Nat, ConsoleInv, ~panicked, NEW from, NEW to, NEW l,
           OpenEditor(from, to, l),
           \/ from = "ServerHome" /\ to = "HostEditor" /\ l = "hosts"
           \/ from = "ServerSettings" /\ ~editing /\ to = "HeaderEditor" /\ l = "headers"
           \/ from = "Credentials" /\ to = "CredentialIssue" /\ l = "clients"
    PROVE  ConsoleInv'
  <1>1. /\ screen = from /\ modal = "none" /\ screen' = to /\ modal' = modal
        /\ UNCHANGED <<rows, cursor, own, dirty, config, panicked, editing, draft,
                       client, pick, repair, server>>
        /\ \/ rows[l] < MaxRows /\ edit' = -1
           \/ rows[l] > 0 /\ edit' = cursor[l]
    BY DEF OpenEditor, Key, Still, KeepData, data, peers
  <1>2. PageInv'
    BY <1>1 DEF ConsoleInv, PageInv, Screens, Top
  <1>3. cursor[l] \in 0 .. MaxRows /\ rows[l] \in 0 .. MaxRows
    BY DEF ConsoleInv, ListInv, Lists
  <1>4. own /\ rows[l] > 0 => cursor[l] < rows[l]
    BY <1>1 DEF ConsoleInv, ListInv, Lists
  <1>5. edit' \in -1 .. MaxRows
    BY <1>1, <1>3
  <1>6. ListInv'
    BY <1>1, <1>3, <1>4, <1>5 DEF ConsoleInv, ListInv, EditorFor
  <1> QED
    BY <1>1, <1>2, <1>6 DEF ConsoleInv

\* A list with one row more or less.
LEMMA OtherRows ==
    ASSUME MaxRows \in Nat, ConsoleInv, NEW l \in Lists
    PROVE  /\ AfterRemove(l) \in [Lists -> 0 .. MaxRows]
           /\ rows[l] < MaxRows => [rows EXCEPT ![l] = rows[l] + 1] \in [Lists -> 0 .. MaxRows]
           /\ [cursor EXCEPT ![l] = rows[l]] \in [Lists -> Nat]
  <1>1. rows \in [Lists -> 0 .. MaxRows] /\ cursor \in [Lists -> Nat] /\ rows[l] \in 0 .. MaxRows
    BY TypesOfLists
  <1>2. AfterRemove(l) = [rows EXCEPT ![l] = IF rows[l] = 0 THEN 0 ELSE rows[l] - 1]
    BY DEF AfterRemove
  <1> DEFINE less == IF rows[l] = 0 THEN 0 ELSE rows[l] - 1
  <1>3. less \in 0 .. MaxRows
    BY <1>1
  <1>4. rows[l] < MaxRows => rows[l] + 1 \in 0 .. MaxRows
    BY <1>1
  <1>5. rows[l] \in Nat
    BY <1>1
  <1> HIDE DEF less
  <1>6. [rows EXCEPT ![l] = less] \in [Lists -> 0 .. MaxRows]
    BY <1>1, <1>3
  <1> QED
    BY <1>1, <1>2, <1>4, <1>5, <1>6 DEF less

LEMMA AcceptKeeps ==
    ASSUME MaxRows \in Nat, ConsoleInv, ~panicked, NEW from, NEW to, NEW l,
           Accept(from, to, l),
           \/ from = "HostEditor" /\ to = "ServerHome" /\ l = "hosts"
           \/ from = "HeaderEditor" /\ to = "ServerSettings" /\ l = "headers"
    PROVE  ConsoleInv'
  <1>1. /\ screen = from /\ modal = "none" /\ screen' = to /\ modal' = modal
        /\ UNCHANGED <<editing, draft, edit, client, pick, repair, server>>
    BY DEF Accept, Key, Still, setup, peers
  <1>2. /\ l \in Lists
        /\ to \in Screens \ {"HostEditor", "HeaderEditor", "CredentialRepair", "CredentialIssue"}
    BY DEF Screens, Top, Lists
  <1>3. /\ edit = -1 => rows[l] < MaxRows
        /\ own => edit < rows[l]
        /\ edit \in -1 .. MaxRows /\ rows[l] \in 0 .. MaxRows
    BY <1>1, <1>2 DEF ConsoleInv, ListInv, EditorFor
  <1>4. CASE edit >= rows[l]
    <2>1. panicked' = TRUE /\ UNCHANGED <<rows, cursor, own, dirty, config>>
      BY <1>4 DEF Accept, Panic
    <2>2. ~own
      BY <1>3, <1>4
    <2>3. PageInv'
      BY <1>1, <1>2, <2>1 DEF ConsoleInv, PageInv
    <2>4. ListInv'
      BY <1>1, <1>2, <2>1, <2>2 DEF ConsoleInv, ListInv, EditorFor
    <2> QED
      BY <1>1, <2>3, <2>4 DEF ConsoleInv
  <1>5. ASSUME NEW v \in [Lists -> 0 .. MaxRows], NEW at \in [Lists -> Nat],
               PersistAny(v, at)
        PROVE  ConsoleInv'
    <2>1. PICK a : PersistServer(v, at, a)
      BY <1>5 DEF PersistAny
    <2>2. /\ rows' = config' /\ own' = TRUE /\ dirty' = FALSE /\ panicked' = panicked
          /\ config' \in [Lists -> 0 .. MaxRows] /\ cursor' \in [Lists -> 0 .. MaxRows]
          /\ \A k \in Lists : rows'[k] > 0 => cursor'[k] < rows'[k]
      BY <2>1, PersistLoads DEF ConsoleInv
    <2> QED
      BY <1>1, <1>2, <2>2, TypesOfLists, LoadedKeeps
  <1>6. CASE ~(edit >= rows[l]) /\ edit >= 0
    <2>1. PersistAny(rows, cursor)
      BY <1>6 DEF Accept
    <2> QED
      BY <1>5, <2>1, TypesOfLists
  <1>7. CASE ~(edit >= rows[l]) /\ ~(edit >= 0)
    <2>1. PersistAny([rows EXCEPT ![l] = rows[l] + 1], [cursor EXCEPT ![l] = rows[l]])
      BY <1>7 DEF Accept
    <2>2. rows[l] < MaxRows
      BY <1>3, <1>7
    <2> QED
      BY <1>2, <1>5, <2>1, <2>2, OtherRows
  <1> QED
    BY <1>4, <1>6, <1>7

LEMMA DeleteCloses ==
    ASSUME MaxRows \in Nat, ConsoleInv, ~panicked,
           NEW m \in DOMAIN ListOf, NEW yes \in BOOLEAN, CloseDelete(m, yes)
    PROVE  ConsoleInv'
  <1> DEFINE l == ListOf[m]
             v == IF yes THEN AfterRemove(l) ELSE rows
  <1>1. /\ modal = m /\ modal' = "none" /\ screen' = screen
        /\ UNCHANGED <<editing, draft, edit, client, pick, repair, server>>
    BY DEF CloseDelete, Still, setup, peers
  <1>2. /\ l \in Lists
        /\ \/ m = "DeleteHost" /\ l = "hosts" /\ screen = "ServerHome"
           \/ m = "DeleteHeader" /\ l = "headers" /\ screen = "ServerSettings"
           \/ m = "RevokeCredential" /\ l = "clients" /\ screen = "Credentials"
    BY <1>1, Tables DEF ConsoleInv, PageInv, Lists
  <1>3. v \in [Lists -> 0 .. MaxRows]
    BY <1>2, OtherRows, TypesOfLists
  <1>4. CASE yes /\ OutOfRange(l)
    <2>1. panicked' = TRUE /\ UNCHANGED <<rows, cursor, own, dirty, config>>
      BY <1>4 DEF CloseDelete, Panic
    <2>2. ~own
      BY <1>2, <1>4 DEF OutOfRange, ConsoleInv, ListInv
    <2>3. PageInv'
      BY <1>1, <2>1 DEF ConsoleInv, PageInv, Modals
    <2>4. ListInv'
      BY <1>1, <2>1, <2>2 DEF ConsoleInv, ListInv, EditorFor
    <2> QED
      BY <1>1, <2>3, <2>4 DEF ConsoleInv
  <1>5. CASE ~(yes /\ OutOfRange(l)) /\ SavedOnClose(m)
    <2>1. PICK a : PersistServer(v, cursor, a)
      BY <1>5 DEF CloseDelete, PersistAny
    <2> HIDE DEF v
    <2>2. /\ rows' = config' /\ own' = TRUE /\ dirty' = FALSE /\ panicked' = panicked
          /\ config' \in [Lists -> 0 .. MaxRows] /\ cursor' \in [Lists -> 0 .. MaxRows]
          /\ \A k \in Lists : rows'[k] > 0 => cursor'[k] < rows'[k]
      BY <1>3, <2>1, TypesOfLists, PersistLoads DEF ConsoleInv
    <2>3. screen' \in {"ServerHome", "ServerSettings", "Credentials"}
          /\ screen \in {"ServerHome", "ServerSettings", "Credentials"}
      BY <1>1, <1>2
    <2> QED
      BY <1>1, <2>2, <2>3, TypesOfLists, LoadedKeeps DEF Screens, Top
  <1>6. CASE ~(yes /\ OutOfRange(l)) /\ ~SavedOnClose(m)
    <2>1. /\ rows' = v
          /\ cursor' = [cursor EXCEPT ![l] = Clamped(cursor[l], v[l])]
          /\ dirty' = (dirty \/ v # rows)
          /\ UNCHANGED <<own, config, panicked>>
      BY <1>6 DEF CloseDelete
    <2>2. m = "DeleteHeader" /\ l = "headers" /\ screen = "ServerSettings"
      BY <1>2, <1>6 DEF SavedOnClose
    <2>3. dirty' \in BOOLEAN
      BY <2>1 DEF ConsoleInv, PageInv
    <2>4. PageInv'
      BY <1>1, <2>1, <2>2, <2>3 DEF ConsoleInv, PageInv, Modals
    <2>5. v["clients"] = rows["clients"]
      BY <2>2, TypesOfLists DEF AfterRemove, Lists
    <2>6. \A k \in Lists \ {l} : v[k] = rows[k]
      BY <1>2, TypesOfLists DEF AfterRemove
    <2> DEFINE n == v[l]
               new == Clamped(cursor[l], n)
    <2>7. new \in 0 .. n /\ (n > 0 => new < n) /\ n \in 0 .. MaxRows
      <3> HIDE DEF l, v
      <3>1. cursor[l] \in Nat
        BY <1>2, TypesOfLists
      <3>2. n \in 0 .. MaxRows /\ n \in Nat
        BY <1>2, <1>3
      <3> HIDE DEF n
      <3> QED
        BY <3>1, <3>2, ClampedIn
    <2>8. cursor' = [cursor EXCEPT ![l] = new] /\ v[l] = n
      BY <2>1
    <2> HIDE DEF v, n, new, l
    <2>9. new \in 0 .. MaxRows
      BY <2>7
    <2>10. cursor' \in [Lists -> 0 .. MaxRows]
      BY <2>8, <2>9 DEF ConsoleInv, ListInv
    <2>11. \A k \in Lists : rows'[k] > 0 /\ own => cursor'[k] < rows'[k]
      BY <1>2, <2>1, <2>2, <2>6, <2>7, <2>8 DEF ConsoleInv, ListInv
    <2> QED
      BY <1>1, <1>3, <2>1, <2>2, <2>4, <2>5, <2>10, <2>11
         DEF ConsoleInv, ListInv, EditorFor
  <1> QED
    BY <1>4, <1>5, <1>6

LEMMA OtherCloses ==
    ASSUME ConsoleInv, NEW yes \in BOOLEAN, CloseOther(yes)
    PROVE  ConsoleInv'
  <1>1. /\ modal' = "none"
        /\ UNCHANGED <<rows, cursor, own, dirty, config, panicked, editing, draft, edit,
                       client, pick, repair>>
    BY DEF CloseOther, KeepData, data, setup, peers
  <1>2. \/ screen' = screen /\ server' = server
        \/ /\ screen = "ServerRunning" /\ screen' = "ServerHome"
           /\ \E p \in {"Stopped", "Failed"} :
                 server' = [server EXCEPT !.thread = "none", !.phase = p]
    BY DEF CloseOther, StopServer, ConsoleInv, PageInv
  <1>3. ServerSound(server')
    BY <1>2 DEF ConsoleInv, ServerSound
  <1>4. PageInv'
    BY <1>1, <1>2 DEF ConsoleInv, PageInv, Modals, Screens, Top
  <1>5. ListInv'
    BY <1>1, <1>2, ListsIdle DEF ConsoleInv
  <1> QED
    BY <1>3, <1>4, <1>5 DEF ConsoleInv

\* The server thread as the TUI sees it.
LEMMA RefreshedSound ==
    ASSUME NEW s, ServerSound(s)
    PROVE  /\ ServerSound(Refreshed(s))
           /\ Refreshed(s).phase = "Stopped" => Refreshed(s).thread = "none"
           /\ Refreshed(s).phase = "Running" => Refreshed(s).thread # "none"
           /\ Refreshed(s).thread = "listening" => Refreshed(s).phase = "Running"
  <1>1. CASE s.thread = "ended"
    <2>1. Refreshed(s) = [s EXCEPT !.thread = "none",
                                 !.phase = IF s.phase = "Stopped" THEN s.phase ELSE "Failed"]
      BY <1>1 DEF Refreshed
    <2> QED
      BY <2>1 DEF ServerSound
  <1>2. CASE s.thread = "listening"
    <2>1. Refreshed(s) = [s EXCEPT !.phase = "Running"]
      BY <1>2 DEF Refreshed
    <2> QED
      BY <1>2, <2>1 DEF ServerSound
  <1>3. CASE s.thread \in {"none", "starting"}
    <2>1. Refreshed(s) = s
      BY <1>3 DEF Refreshed
    <2> QED
      BY <1>3, <2>1 DEF ServerSound
  <1> QED
    BY <1>1, <1>2, <1>3 DEF ServerSound

LEMMA ServerMoves ==
    ASSUME ConsoleInv,
           Tick \/ ThreadListens \/ ThreadReports \/ ThreadEnds
    PROVE  ConsoleInv'
  <1>1. UNCHANGED <<screen, modal, rows, cursor, own, dirty, config, panicked, editing, draft,
                    edit, client, pick, repair>>
    BY DEF Tick, ThreadListens, ThreadReports, ThreadEnds,
           data, setup, peers
  <1>2. ServerSound(server')
    <2>1. CASE Tick
      <3> DEFINE s == IF server.fatal THEN [server EXCEPT !.phase = "Failed", !.fatal = FALSE] ELSE server
      <3>1. ServerSound(s)
        BY DEF ConsoleInv, ServerSound
      <3>2. server' = Refreshed(s)
        BY <2>1 DEF Tick, Ticked
      <3> HIDE DEF s
      <3> QED
        BY <3>1, <3>2, RefreshedSound
    <2>2. CASE ThreadListens
      BY <2>2 DEF ThreadListens, ConsoleInv, ServerSound
    <2>3. CASE ThreadReports
      BY <2>3 DEF ThreadReports, ConsoleInv, ServerSound
    <2>4. CASE ThreadEnds
      <3>1. PICK fatal \in BOOLEAN :
              server' = [server EXCEPT !.thread = "ended", !.fatal = server.fatal \/ fatal]
        BY <2>4 DEF ThreadEnds
      <3> DEFINE b == server.fatal \/ fatal
      <3>2. b \in BOOLEAN /\ server' = [server EXCEPT !.thread = "ended", !.fatal = b]
        BY <3>1 DEF ConsoleInv, ServerSound
      <3> HIDE DEF b
      <3> QED
        BY <3>2 DEF ConsoleInv, ServerSound
    <2> QED
      BY <2>1, <2>2, <2>3, <2>4
  <1>3. PageInv'
    BY <1>1 DEF ConsoleInv, PageInv
  <1>4. ListInv'
    BY <1>1, ListsIdle DEF ConsoleInv
  <1> QED
    BY <1>2, <1>3, <1>4 DEF ConsoleInv

LEMMA StartKeeps ==
    ASSUME MaxRows \in Nat, ConsoleInv, ~panicked, screen \in Top, modal = "none",
           draft = "ok", StartServer
    PROVE  ConsoleInv'
  <1> DEFINE s == Refreshed(server)
  <1>1. PICK a \in SaveAnswers, spawned \in BOOLEAN :
          /\ PersistServer(rows, cursor, a)
          /\ IF a # "ok" \/ (Spawns(s) /\ ~spawned) THEN server' = s /\ UNCHANGED screen
             ELSE /\ screen' = "ServerRunning"
                  /\ server' = IF ~Spawns(s) THEN s ELSE
                        [s EXCEPT !.thread = IF s.thread = "none" THEN "starting" ELSE "two",
                                  !.phase = "Starting"]
    BY Zenon DEF StartServer
  <1>2. modal' = modal /\ UNCHANGED <<editing, draft, edit, client, pick, repair>>
    BY DEF StartServer, setup, peers
  <1>3. ServerSound(s)
    BY RefreshedSound DEF ConsoleInv
  <1> HIDE DEF s
  <1>4. ServerSound(server') /\ screen' \in {screen, "ServerRunning"}
    BY <1>1, <1>3 DEF ServerSound, Spawns
  <1>5. /\ rows' = config' /\ own' = TRUE /\ dirty' = FALSE /\ panicked' = panicked
        /\ config' \in [Lists -> 0 .. MaxRows] /\ cursor' \in [Lists -> 0 .. MaxRows]
        /\ \A k \in Lists : rows'[k] > 0 => cursor'[k] < rows'[k]
    BY <1>1, TypesOfLists, PersistLoads DEF ConsoleInv
  <1>6. screen' \in Top
    BY <1>4 DEF Top
  <1> QED
    BY <1>2, <1>4, <1>5, <1>6, TypesOfLists, LoadedKeeps DEF Screens, Top

LEMMA DigitKeeps ==
    ASSUME MaxRows \in Nat, ConsoleInv, ~panicked, NEW d \in Digits, Digit(d)
    PROVE  ConsoleInv'
  <1> DEFINE to == PageOf[d]
  <1>1. screen \in Top /\ modal = "none" /\ ~(screen = "ServerSettings" /\ editing)
    BY DEF Digit, Key
  <1>2. draft = "ok"
    BY <1>1, TypesOfLists
  <1>3. to \in Top
    BY Tables
  <1>4. CASE StartServer
    BY <1>1, <1>2, <1>4, StartKeeps
  <1>5. ASSUME screen' = to, UNCHANGED <<modal, quit, setup, peers, server>>,
               IF SavedOnLeave(screen, to) THEN PersistAny(rows, cursor) ELSE KeepData
        PROVE  ConsoleInv'
    <2> HIDE DEF to
    <2>1. UNCHANGED <<editing, draft, edit, client, pick, repair>>
      BY <1>5 DEF setup, peers
    <2>2. CASE SavedOnLeave(screen, to)
      <3>1. PICK a : PersistServer(rows, cursor, a)
        BY <1>5, <2>2 DEF PersistAny
      <3>2. /\ rows' = config' /\ own' = TRUE /\ dirty' = FALSE /\ panicked' = panicked
            /\ config' \in [Lists -> 0 .. MaxRows] /\ cursor' \in [Lists -> 0 .. MaxRows]
            /\ \A k \in Lists : rows'[k] > 0 => cursor'[k] < rows'[k]
        BY <3>1, TypesOfLists, PersistLoads DEF ConsoleInv
      <3> QED
        BY <1>1, <1>2, <1>3, <1>5, <2>1, <3>2, TypesOfLists, LoadedKeeps DEF Screens, Top
    <2>3. CASE ~SavedOnLeave(screen, to)
      <3>1. UNCHANGED <<rows, cursor, own, dirty, config, panicked>>
        BY <1>5, <2>3 DEF KeepData, data
      <3>2. screen # "ServerSettings"
        BY <2>3 DEF SavedOnLeave
      <3>3. PageInv'
        BY <1>1, <1>2, <1>3, <1>5, <2>1, <3>1, <3>2
           DEF ConsoleInv, PageInv, Screens, Top
      <3>4. ListInv'
        BY <1>1, <1>3, <1>5, <2>1, <3>1, ListsIdle DEF ConsoleInv, Top
      <3> QED
        BY <1>5, <3>3, <3>4 DEF ConsoleInv
    <2> QED
      BY <2>2, <2>3
  <1>6. ASSUME UNCHANGED <<screen, modal, quit, setup, peers, server>>, KeepData
        PROVE  ConsoleInv'
    <2>1. UNCHANGED <<screen, modal, rows, cursor, own, dirty, config, panicked, editing, draft,
                      edit, client, pick, repair, server>>
      BY <1>6 DEF KeepData, data, setup, peers
    <2>2. PageInv'
      BY <2>1 DEF ConsoleInv, PageInv
    <2>3. ListInv'
      BY <2>1, ListsIdle DEF ConsoleInv
    <2> QED
      BY <2>1, <2>2, <2>3 DEF ConsoleInv
  <1> QED
    BY <1>4, <1>5, <1>6 DEF Digit

\* The settings page, but for the keys it shares with other pages.
LEMMA SettingsKeep ==
    ASSUME ConsoleInv, Confirm \/ Type \/ NextField
    PROVE  ConsoleInv'
  <1>1. /\ screen = "ServerSettings" /\ screen' = screen /\ modal' = modal
        /\ UNCHANGED <<rows, cursor, own, config, panicked, edit, client, pick, repair, server>>
    BY DEF Confirm, Type, NextField, Key, Still, KeepData, data, peers
  <1>2. /\ draft' \in {"ok", "bad"} /\ editing' \in BOOLEAN /\ dirty' \in BOOLEAN
        /\ draft' = "bad" => editing'
    BY DEF Confirm, Type, NextField, Blurred, KeepData, data,
           ConsoleInv, PageInv
  <1>3. PageInv'
    BY <1>1, <1>2 DEF ConsoleInv, PageInv
  <1>4. ListInv'
    BY <1>1, ListsIdle DEF ConsoleInv
  <1> QED
    BY <1>1, <1>3, <1>4 DEF ConsoleInv

LEMMA LeaveSettingsKeeps ==
    ASSUME MaxRows \in Nat, ConsoleInv, ~panicked, LeaveSettings
    PROVE  ConsoleInv'
  <1>1. /\ screen = "ServerSettings" /\ modal = "none" /\ screen' = "ServerHome" /\ modal' = modal
        /\ draft' = IF editing THEN "ok" ELSE draft
        /\ UNCHANGED <<editing, edit, client, pick, repair, server>>
    BY DEF LeaveSettings, Key, Still, peers, Blurred
  <1>2. PICK a : PersistServer(rows, cursor, a)
    BY DEF LeaveSettings, PersistAny
  <1>3. /\ rows' = config' /\ own' = TRUE /\ dirty' = FALSE /\ panicked' = panicked
        /\ config' \in [Lists -> 0 .. MaxRows] /\ cursor' \in [Lists -> 0 .. MaxRows]
        /\ \A k \in Lists : rows'[k] > 0 => cursor'[k] < rows'[k]
    BY <1>2, TypesOfLists, PersistLoads DEF ConsoleInv
  <1>4. draft' = "ok"
    BY <1>1, TypesOfLists
  <1> QED
    BY <1>1, <1>3, <1>4, TypesOfLists, LoadedKeeps DEF Screens, Top

\* q on the last page saves and asks.
LEMMA QuitKeeps ==
    ASSUME MaxRows \in Nat, ConsoleInv, ~panicked, screen = "SaveExit", modal' = "Exit",
           UNCHANGED <<screen, setup>>, Still, PersistAny(rows, cursor)
    PROVE  ConsoleInv'
  <1>1. PICK a : PersistServer(rows, cursor, a)
    BY DEF PersistAny
  <1>2. /\ rows' = config' /\ own' = TRUE /\ dirty' = FALSE /\ panicked' = panicked
        /\ config' \in [Lists -> 0 .. MaxRows] /\ cursor' \in [Lists -> 0 .. MaxRows]
        /\ \A k \in Lists : rows'[k] > 0 => cursor'[k] < rows'[k]
    BY <1>1, TypesOfLists, PersistLoads DEF ConsoleInv
  <1>3. UNCHANGED <<editing, draft, edit, client, pick, repair, server>>
    BY DEF Still, setup, peers
  <1> QED
    BY <1>2, <1>3, TypesOfLists, LoadedKeeps DEF Screens, Top

\* The form of a credential.
LEMMA FormKeeps ==
    ASSUME MaxRows \in Nat, ConsoleInv, ~panicked, Issue
    PROVE  ConsoleInv'
  <1> DEFINE v == [config EXCEPT !["clients"] = IF edit = -1 THEN config["clients"] + 1
                                                ELSE config["clients"]]
             at == IF edit # -1 THEN cursor ELSE [cursor EXCEPT !["clients"] = config["clients"]]
  <1>1. /\ screen = "CredentialIssue" /\ modal = "none" /\ modal' = modal /\ panicked' = panicked
        /\ UNCHANGED <<editing, draft, edit, client, pick, repair, server>>
    BY DEF Issue, Key, Still, setup, peers
  <1>2. PICK a \in SaveAnswers :
          /\ Commit(v, a)
          /\ screen' = IF a = "ok" \/ (edit = -1 /\ a = "uncertain")
                       THEN "Credentials" ELSE "CredentialIssue"
          /\ IF a = "failed" THEN UNCHANGED <<rows, cursor, own, dirty>> ELSE LoadView(at)
    BY Zenon DEF Issue
  <1>3. edit = -1 => config["clients"] < MaxRows
    BY <1>1 DEF ConsoleInv, ListInv, EditorFor
  <1>4. config["clients"] \in 0 .. MaxRows /\ config \in [Lists -> 0 .. MaxRows]
    BY TypesOfLists DEF Lists
  <1>5. v \in [Lists -> 0 .. MaxRows]
    <2> DEFINE n == IF edit = -1 THEN config["clients"] + 1 ELSE config["clients"]
    <2>1. n \in 0 .. MaxRows
      BY <1>3, <1>4
    <2> HIDE DEF n
    <2>2. [config EXCEPT !["clients"] = n] \in [Lists -> 0 .. MaxRows]
      BY <1>4, <2>1
    <2> QED
      BY <2>2 DEF n
  <1>6. at \in [Lists -> Nat]
    <2>1. config["clients"] \in Nat /\ cursor \in [Lists -> Nat]
      BY <1>4, TypesOfLists
    <2>2. [cursor EXCEPT !["clients"] = config["clients"]] \in [Lists -> Nat]
      BY <2>1
    <2> QED
      BY <2>1, <2>2
  <1> HIDE DEF v, at
  <1>7. CASE a = "failed"
    <2>1. UNCHANGED <<rows, cursor, own, dirty, config, screen>>
      BY <1>1, <1>2, <1>7 DEF Commit
    <2>2. PageInv'
      BY <1>1, <2>1 DEF ConsoleInv, PageInv
    <2>3. ListInv'
      BY <1>1, <2>1, ListsIdle DEF ConsoleInv
    <2> QED
      BY <1>1, <2>2, <2>3 DEF ConsoleInv
  <1>8. CASE a # "failed"
    <2>1. config' \in [Lists -> 0 .. MaxRows] /\ LoadView(at)
      BY <1>2, <1>5, <1>8 DEF Commit
    <2>2. /\ rows' = config' /\ own' = TRUE /\ dirty' = FALSE
          /\ cursor' \in [Lists -> 0 .. MaxRows]
          /\ \A l \in Lists : rows'[l] > 0 => cursor'[l] < rows'[l]
      BY <1>6, <2>1, Loads
    <2>3. screen' \in {"Credentials", "CredentialIssue"} /\ (screen' = "CredentialIssue" => edit # -1)
      BY <1>2, <1>8 DEF SaveAnswers
    <2> QED
      BY <1>1, <2>1, <2>2, <2>3, TypesOfLists, LoadedKeeps DEF Screens, Top
  <1> QED
    BY <1>7, <1>8

-----------------------------------------------------------------------------
(* Console: the client's pages *)

LEMMA ConnectKeeps ==
    ASSUME MaxRows \in Nat, ConsoleInv, ~panicked, Connect
    PROVE  ConsoleInv'
  <1>1. /\ screen = "ClientConnect" /\ modal = "none" /\ modal' = modal
        /\ UNCHANGED <<cursor, repair, server, config, panicked, dirty, editing, draft, edit>>
    BY DEF Connect, Key, HoldClient, setup
  <1>2. PICK connected \in BOOLEAN :
          /\ client' = connected
          /\ screen' = IF connected THEN "ClientHosts" ELSE screen
          /\ rows' = IF connected THEN [rows EXCEPT !["hosts"] = 0] ELSE rows
          /\ own' = (own /\ ~connected)
          /\ pick' = IF connected THEN 0 ELSE pick
    <2>1. PICK a \in SaveAnswers, loaded \in BOOLEAN, spawned \in BOOLEAN :
            LET connected == a = "ok" /\ loaded /\ spawned IN
            /\ client' = connected
            /\ screen' = IF connected THEN "ClientHosts" ELSE screen
            /\ rows' = IF connected THEN [rows EXCEPT !["hosts"] = 0] ELSE rows
            /\ own' = (own /\ ~connected)
            /\ pick' = IF connected THEN 0 ELSE pick
      BY Zenon DEF Connect
    <2> DEFINE c == a = "ok" /\ loaded /\ spawned
    <2>2. c \in BOOLEAN
      OBVIOUS
    <2> QED
      BY <2>1, <2>2
  <1>3. CASE connected = TRUE
    <2>1. own' = FALSE /\ client' = TRUE /\ screen' = "ClientHosts" /\ pick' = 0
          /\ rows' = [rows EXCEPT !["hosts"] = 0]
      BY <1>2, <1>3 DEF ConsoleInv, ListInv
    <2>2. PageInv'
      BY <1>1, <2>1 DEF ConsoleInv, PageInv, Screens
    <2>3. /\ rows' \in [Lists -> 0 .. MaxRows] /\ rows'["clients"] = config'["clients"]
      <3>1. 0 \in 0 .. MaxRows /\ rows["clients"] = config["clients"]
            /\ "clients" \in Lists /\ "hosts" # "clients"
        BY DEF ConsoleInv, ListInv, Lists
      <3> QED
        BY <1>1, <2>1, <3>1, TypesOfLists
    <2>4. ListInv'
      BY <1>1, <2>1, <2>3 DEF ConsoleInv, ListInv, EditorFor
    <2> QED
      BY <1>1, <2>2, <2>4 DEF ConsoleInv
  <1>4. CASE connected = FALSE
    <2>1. client' = FALSE /\ UNCHANGED <<screen, rows, pick, own>>
      BY <1>2, <1>4 DEF ConsoleInv, ListInv
    <2>2. PageInv'
      BY <1>1, <2>1 DEF ConsoleInv, PageInv
    <2>3. ListInv'
      BY <1>1, <2>1, ListsIdle DEF ConsoleInv
    <2> QED
      BY <1>1, <2>2, <2>3 DEF ConsoleInv
  <1> QED
    BY <1>3, <1>4

\* The keys and events that leave the lists alone and stay among the client's
\* pages, or leave them without a client.
LEMMA ClientMoves ==
    ASSUME MaxRows \in Nat, ConsoleInv,
           LeaveHosts \/ HostKeys \/ LeaveWake \/ WakeFinishes \/ ClientGone
    PROVE  ConsoleInv'
  <1>1. UNCHANGED <<modal, server, config, panicked, dirty, editing, draft, edit,
                    rows, own, cursor, repair>>
    BY DEF LeaveHosts, HostKeys, LeaveWake, WakeFinishes, ClientGone,
           HoldClient, setup
  <1>2. pick' \in Nat
    <2>1. rows["hosts"] \in Nat /\ pick \in Nat
      BY DEF ConsoleInv, ListInv, Lists
    <2>2. \/ pick' = pick
          \/ \E at \in {pick - 1, pick + 1} : at >= 0 /\ pick' = Clamped(at, rows["hosts"])
      BY DEF LeaveHosts, HostKeys, LeaveWake, WakeFinishes, ClientGone
    <2>3. ASSUME NEW at \in {pick - 1, pick + 1}, at >= 0, pick' = Clamped(at, rows["hosts"])
          PROVE  pick' \in Nat
      <3>1. at \in Nat
        BY <2>1, <2>3
      <3> QED
        BY <2>1, <2>3, <3>1, ClampedIn
    <2> QED
      BY <2>1, <2>2, <2>3
  <1>3. \/ /\ screen \in {"ClientHosts", "Wake"} /\ screen' \in {"ClientHosts", "Wake"}
           /\ client' = client
        \/ /\ screen' \in {screen, "ClientConnect"} /\ client' = FALSE
           /\ screen' = "ClientConnect" => screen \in {"ClientHosts", "Wake", "ClientConnect"}
    BY DEF LeaveHosts, HostKeys, LeaveWake, WakeFinishes, ClientGone, Key,
           ConsoleInv, PageInv
  <1>4. PageInv'
    <2>1. CASE /\ screen \in {"ClientHosts", "Wake"} /\ screen' \in {"ClientHosts", "Wake"}
               /\ client' = client
      BY <1>1, <2>1 DEF ConsoleInv, PageInv, Screens
    <2>2. CASE screen' = screen /\ client' = FALSE
      BY <1>1, <2>2 DEF ConsoleInv, PageInv
    <2>3. CASE /\ screen' = "ClientConnect" /\ screen \in {"ClientHosts", "Wake", "ClientConnect"}
               /\ client' = FALSE
      BY <1>1, <2>3 DEF ConsoleInv, PageInv, Screens
    <2> QED
      BY <1>3, <2>1, <2>2, <2>3
  <1>5. ListInv'
    BY <1>1, <1>2, <1>3 DEF ConsoleInv, ListInv, EditorFor
  <1> QED
    BY <1>1, <1>4, <1>5 DEF ConsoleInv

LEMMA CatalogKeeps ==
    ASSUME MaxRows \in Nat, ConsoleInv, Catalog
    PROVE  ConsoleInv'
  <1>1. /\ client /\ pick' = 0
        /\ UNCHANGED <<screen, client, modal, server, config, panicked, dirty, editing, draft, edit,
                       own, cursor, repair>>
    BY DEF Catalog, HoldClient, setup
  <1>2. PICK n \in 0 .. MaxRows : rows' = [rows EXCEPT !["hosts"] = n]
    BY DEF Catalog
  <1>3. ~own /\ screen \in {"ClientHosts", "Wake"}
    BY <1>1 DEF ConsoleInv, PageInv
  <1>4. PageInv'
    BY <1>1 DEF ConsoleInv, PageInv
  <1>5. ListInv'
    BY <1>1, <1>2, <1>3 DEF ConsoleInv, ListInv, EditorFor, Lists
  <1> QED
    BY <1>1, <1>4, <1>5 DEF ConsoleInv

\* The repair page, which borrows the cursor of the clients.
LEMMA RepairMoves ==
    ASSUME MaxRows \in Nat, ConsoleInv, OpenRepair \/ MoveRepair \/ CloseRepair
    PROVE  ConsoleInv'
  <1>1. UNCHANGED <<modal, server, config, panicked, dirty, editing, draft, edit,
                    client, pick, rows, own>>
    BY DEF OpenRepair, MoveRepair, CloseRepair, HoldClient, setup
  <1>2. /\ screen \in {"ClientConnect", "CredentialRepair"}
        /\ screen' \in {"ClientConnect", "CredentialRepair"}
        /\ repair' \in 0 .. MaxRows
    BY DEF OpenRepair, MoveRepair, CloseRepair, Key, ConsoleInv, ListInv
  <1>3. PICK to \in 0 .. MaxRows :
          /\ cursor' = [cursor EXCEPT !["clients"] = to]
          /\ screen' # "CredentialRepair" => to = 0
          /\ repair' > 0 => to < repair'
    <2>1. CASE OpenRepair \/ CloseRepair
      <3>1. cursor' = [cursor EXCEPT !["clients"] = 0]
        BY <2>1 DEF OpenRepair, CloseRepair
      <3>2. 0 \in 0 .. MaxRows /\ (repair' > 0 => 0 < repair')
        BY <1>2
      <3> QED
        BY <3>1, <3>2
    <2>2. CASE MoveRepair
      <3>1. PICK at \in {cursor["clients"] - 1, cursor["clients"] + 1} :
              at >= 0 /\ cursor' = [cursor EXCEPT !["clients"] = Clamped(at, repair)]
        BY <2>2 DEF MoveRepair
      <3>2. cursor["clients"] \in Nat /\ repair \in Nat /\ repair \in 0 .. MaxRows
        BY DEF ConsoleInv, ListInv, Lists
      <3>3. at \in Nat
        BY <3>1, <3>2
      <3> DEFINE new == Clamped(at, repair)
      <3>4. new \in 0 .. repair /\ (repair > 0 => new < repair)
        BY <3>2, <3>3, ClampedIn
      <3>5. screen' = "CredentialRepair" /\ repair' = repair
        BY <2>2 DEF MoveRepair, Key
      <3>6. cursor' = [cursor EXCEPT !["clients"] = new]
        BY <3>1
      <3> HIDE DEF new
      <3>7. new \in 0 .. MaxRows
        BY <3>2, <3>4
      <3> QED
        BY <3>4, <3>5, <3>6, <3>7
    <2> QED
      BY <2>1, <2>2
  <1>4. PageInv'
    BY <1>1, <1>2 DEF ConsoleInv, PageInv, Screens
  <1>5. ListInv'
    BY <1>1, <1>2, <1>3 DEF ConsoleInv, ListInv, EditorFor, Lists
  <1> QED
    BY <1>1, <1>4, <1>5 DEF ConsoleInv

-----------------------------------------------------------------------------
(* Console: every step *)

LEMMA ConsoleInit ==
    ASSUME MaxRows \in Nat, ScreenInit
    PROVE  ConsoleInv
  <1>1. ServerSound(server)
    BY DEF ScreenInit, ServerSound
  <1>2. PageInv
    BY DEF ScreenInit, PageInv, Screens, Modals
  <1>3. /\ rows = config /\ config \in [Lists -> 0 .. MaxRows]
        /\ cursor = [l \in Lists |-> 0] /\ own = TRUE /\ edit = -1 /\ panicked = FALSE
        /\ pick = 0 /\ repair = 0 /\ screen = "Landing"
    BY DEF ScreenInit
  <1>4. cursor \in [Lists -> 0 .. MaxRows] /\ \A l \in Lists : cursor[l] = 0
    BY <1>3
  <1>5. \A l \in Lists : rows[l] > 0 => cursor[l] < rows[l]
    BY <1>3, <1>4
  <1>6. ListInv
    <2>1. /\ rows \in [Lists -> 0 .. MaxRows] /\ config \in [Lists -> 0 .. MaxRows]
          /\ rows["clients"] = config["clients"]
          /\ edit \in -1 .. MaxRows /\ pick \in Nat /\ repair \in 0 .. MaxRows
      BY <1>3
    <2>2. own = TRUE /\ panicked = FALSE /\ screen = "Landing"
      BY <1>3
    <2> QED
      BY <1>4, <1>5, <2>1, <2>2 DEF ListInv, EditorFor
  <1> QED
    BY <1>1, <1>2, <1>6 DEF ConsoleInv

LEMMA ConsoleStep ==
    ASSUME MaxRows \in Nat, ConsoleInv, [ScreenNext]_(screenVars)
    PROVE  ConsoleInv'
  <1>1. CASE UNCHANGED screenVars
    <2>1. UNCHANGED <<screen, modal, rows, cursor, own, dirty, config, panicked, editing, draft,
                      edit, client, pick, repair, server>>
      BY <1>1 DEF screenVars, data, setup, peers
    <2>2. PageInv'
      BY <2>1 DEF ConsoleInv, PageInv
    <2>3. ListInv'
      BY <2>1, ListsIdle DEF ConsoleInv
    <2> QED
      BY <2>1, <2>2, <2>3 DEF ConsoleInv
  <1>2. CASE ScreenNext
    <2>1. ~panicked
      BY <1>2 DEF ScreenNext, Running
    <2>2. /\ {"hosts", "headers", "clients"} = Lists
          /\ {"Landing", "ServerHome", "ClientConnect", "Credentials", "SaveExit"} \subseteq
                Screens \ {"HostEditor", "HeaderEditor", "CredentialIssue", "CredentialRepair"}
          /\ {"DeleteHost", "DeleteHeader", "RevokeCredential", "StopServer", "Exit"}
                \subseteq Modals
      BY DEF Lists, Screens, Top, Modals
    <2>3. CASE \E d \in Digits : Digit(d)
      BY <2>1, <2>3, DigitKeeps
    <2>4. CASE HomeKeys
      BY <2>1, <2>2, <2>4, CursorMoves, EditorOpens, WindowOpens, SaveNowKeeps, PageChangeKeeps,
         AcceptKeeps DEF HomeKeys
    <2>5. CASE SettingsKeys
      BY <2>1, <2>2, <2>5, SettingsKeep, LeaveSettingsKeeps, CursorMoves, EditorOpens, WindowOpens,
         SaveNowKeeps, AcceptKeeps DEF SettingsKeys
    <2>6. CASE CredentialKeys
      BY <2>1, <2>2, <2>6, CursorMoves, EditorOpens, WindowOpens, SaveNowKeeps, PageChangeKeeps,
         FormKeeps DEF CredentialKeys
    <2>7. CASE OtherKeys
      <3>1. CASE /\ Key("SaveExit") /\ modal' = "Exit"
                 /\ UNCHANGED <<screen, setup>> /\ Still
                 /\ PersistAny(rows, cursor)
        BY <2>1, <3>1, QuitKeeps DEF Key
      <3> QED
        BY <2>1, <2>2, <2>7, <3>1, WindowOpens, SaveNowKeeps, PageChangeKeeps DEF OtherKeys
    <2>8. CASE ClientKeys
      BY <2>1, <2>2, <2>8, ConnectKeeps, ClientMoves, RepairMoves, PageChangeKeeps DEF ClientKeys
    <2>9. CASE Modal
      BY <2>1, <2>9, OtherCloses, DeleteCloses DEF Modal
    <2> QED
      BY <1>2, <2>3, <2>4, <2>5, <2>6, <2>7, <2>8, <2>9, HelpKeeps, CatalogKeeps, ClientMoves,
         ServerMoves DEF ScreenNext
  <1> QED
    BY <1>1, <1>2

\* Whatever the order of the keys and for lists of every length: nothing edited
\* is left unsaved behind a page, no save is refused for what was typed, no key
\* indexes past the end of the configuration's lists, the client runs only
\* behind its pages, and the header tells the truth about the server thread.
THEOREM ScreensAreSound ==
    ASSUME ConsoleAssumption
    PROVE  ScreenSpec => []ScreensSound
  <1> USE DEF ConsoleAssumption
  <1>1. ASSUME ConsoleInv PROVE ScreensSound
    <2>1. ScreenTypeOK
      BY <1>1 DEF ConsoleInv, PageInv, ListInv, ServerSound, ScreenTypeOK
    <2>2. NoUnsavedEdits /\ DraftsAreValid /\ ClientOnItsPages
      BY <1>1 DEF ConsoleInv, PageInv, NoUnsavedEdits, DraftsAreValid,
                  ClientOnItsPages
    <2>3. OwnListsIndexed
      BY <1>1 DEF ConsoleInv, ListInv, OwnListsIndexed
    <2>4. PhaseIsTrue
      <3> DEFINE s == IF server.fatal THEN [server EXCEPT !.phase = "Failed", !.fatal = FALSE] ELSE server
      <3>1. ServerSound(s)
        BY <1>1 DEF ConsoleInv, ServerSound
      <3>2. Ticked(server) = Refreshed(s)
        BY DEF Ticked
      <3> HIDE DEF s
      <3> QED
        BY <3>1, <3>2, RefreshedSound DEF PhaseIsTrue
    <2> QED
      BY <2>1, <2>2, <2>3, <2>4 DEF ScreensSound
  <1> QED
    BY <1>1, ConsoleInit, ConsoleStep, PTL DEF ScreenSpec

-----------------------------------------------------------------------------
(* Private files *)

\* Only the call p has moved.
Moved(p) ==
    /\ pc' = [q \in Procs |-> pc'[q]] /\ result' = [q \in Procs |-> result'[q]]
    /\ \A q \in Procs \ {p} : pc'[q] = pc[q] /\ result'[q] = result[q]
    /\ pc'[p] = "done" <=> result'[p] # "none"

\* The moments a crash may bring back gained at most the present one.
Recorded ==
    /\ names' \in [Names -> Files \cup {NoFile}]
    /\ names' \in past' /\ past' \subseteq past \cup {names'}

\* What Places says of the call of one writer, after the step.
Proceeds(w) ==
    /\ pc'[w] \in {"check", "create", "write", "sync", "rename", "cleanup",
                   "syncdir", "done", "dead"}
    /\ result'[w] \in {"none", "ok", "failed", "uncertain"}
    /\ pc'[w] \in {"sync", "rename"} => file'[w].text = Text[w]
    /\ pc'[w] = "rename" => file'[w].synced
    /\ pc'[w] = "syncdir" => names'[w] = NoFile
    /\ result'[w] = "ok" => \A n \in past' : n[w] = NoFile
    /\ BeforeRename(w)' => BeforeRename(w)

\* A step of a writer that leaves the path alone: it touches its temporary name
\* and its own file, and those only before the rename.
WriterStep(w) ==
    /\ Moved(w) /\ Recorded /\ Proceeds(w)
    /\ file' \in [Files -> [text : Texts \cup {NoText}, synced : BOOLEAN]]
    /\ \A f \in Files : f # w \/ ~BeforeRename(w) => file'[f] = file[f]
    /\ \A x \in Names \ {w} : names'[x] = names[x]
    /\ names'[w] \in {w, NoFile}
    /\ BeforeRename(w) \/ names'[w] \in {names[w], NoFile}
    /\ UNCHANGED <<reader, visible, dropped, crashes>>

\* A step of a remover: it moves entries between the path and its quarantine,
\* and no entry that must be kept is left without a name that stays.
RemoverStep(r) ==
    /\ Moved(r) /\ Recorded
    /\ UNCHANGED <<file, reader, visible, crashes>>
    /\ \A x \in Names \ {r, "path"} : names'[x] = names[x]
    /\ names'["path"] \in {names["path"], names[r], NoFile}
    /\ names'[r] \in {names["path"], names[r], NoFile}
    /\ dropped \subseteq dropped'
    /\ dropped' \subseteq dropped \cup {names[r]}
    /\ \A f \in dropped' \ dropped : f # NoFile /\ file[f].text = Expected
    /\ \/ names["path"] \in {NoFile, names'["path"]}
       \/ names'[r] = names["path"] /\ pc'[r] # "forget"
    /\ \/ names[r] \in {NoFile, names'["path"]} \cup dropped'
       \/ pc[r] = "forget"
       \/ names'[r] = names[r] /\ pc'[r] # "forget"
    /\ pc'[r] = "capture" => names'[r] = NoFile
    /\ pc'[r] \in {"verify", "unlink", "restore", "forget"} => names'[r] # NoFile
    /\ pc'[r] = "unlink" => /\ file[names'[r]].text = Expected
                            /\ \A n \in Names \ {r} : names'[n] # names'[r]

\* A whole file stays whole while calls only write files of their own that have
\* not been renamed yet.
LEMMA WholeStays ==
    ASSUME \A f \in Files : ~(f \in Writers /\ BeforeRename(f)) => file'[f] = file[f],
           \A w \in Writers : BeforeRename(w)' => BeforeRename(w)
    PROVE  \A f : Whole(f) => Whole(f)'
  BY DEF Whole

LEMMA WriterStepKeeps ==
    ASSUME FileAssumption, FileInv, NEW w \in Writers, WriterStep(w)
    PROVE  FileInv'
  <1> USE DEF FileAssumption, FileInv
  <1>1. w \in Procs /\ w \in Names /\ w \in Files /\ w # "path" /\ w \notin Removers
    BY DEF Procs, Names, Files
  <1>2. \A q \in Procs \ {w} : pc'[q] = pc[q] /\ result'[q] = result[q]
    BY DEF WriterStep, Moved
  <1>3. \A f : Whole(f) => Whole(f)'
    <2>1. \A f \in Files : ~(f \in Writers /\ BeforeRename(f)) => file'[f] = file[f]
      BY DEF WriterStep
    <2>2. \A x \in Writers : BeforeRename(x)' => BeforeRename(x)
      BY <1>2 DEF WriterStep, Proceeds, BeforeRename, Procs
    <2> QED
      BY <2>1, <2>2, WholeStays
  <1>4. \A x \in {"path"} \cup Removers : names'[x] = names[x]
    BY <1>1 DEF WriterStep, Names, Procs
  <1>5. TemporaryNames'
    <2>1. \A x \in Writers : names'[x] \in {x, NoFile}
      BY DEF WriterStep, TemporaryNames, Names, Procs
    <2>2. \A x \in Writers : pc'[x] = "syncdir" => names'[x] = NoFile
      BY <1>2 DEF WriterStep, Proceeds, TemporaryNames, Names, Procs, At
    <2>3. ASSUME NEW x \in Writers, result'[x] = "ok", NEW n \in past'
          PROVE  n[x] = NoFile
      <3>1. CASE x = w
        BY <2>3, <3>1 DEF WriterStep, Proceeds
      <3>2. CASE x # w
        BY <1>2, <2>3, <3>2 DEF WriterStep, Recorded, TemporaryNames, Names, Procs
      <3> QED
        BY <3>1, <3>2
    <2> QED
      BY <2>1, <2>2, <2>3 DEF WriterStep, Recorded, TemporaryNames, At
  <1>6. Places'
    <2>1. \A p \in Procs : pc'[p] = "done" <=> result'[p] # "none"
      BY <1>2 DEF WriterStep, Moved, Places, At
    <2>2. ASSUME NEW x \in Writers
          PROVE  /\ pc'[x] \in {"check", "create", "write", "sync", "rename", "cleanup",
                                "syncdir", "done", "dead"}
                 /\ result'[x] \in {"none", "ok", "failed", "uncertain"}
                 /\ pc'[x] \in {"sync", "rename"} => file'[x].text = Text[x]
                 /\ pc'[x] = "rename" => file'[x].synced
      <3>1. CASE x = w
        BY <3>1 DEF WriterStep, Proceeds
      <3>2. CASE x # w
        <4>1. file'[x] = file[x] /\ pc'[x] = pc[x] /\ result'[x] = result[x]
          BY <1>2, <3>2 DEF WriterStep, Files, Procs
        <4> QED
          BY <4>1 DEF Places
      <3> QED
        BY <3>1, <3>2
    <2>3. crashes' \in Nat
      BY DEF WriterStep, Places
    <2> QED
      BY <2>1, <2>2, <2>3 DEF WriterStep, Moved, Places, At, Texts
  <1>7. Published'
    <2>1. ASSUME NEW n \in past', NEW x \in {"path"} \cup Removers, n[x] # NoFile
          PROVE  Whole(n[x])
      BY <1>4, <2>1 DEF WriterStep, Recorded, Published, TemporaryNames
    <2> QED
      BY <1>3, <2>1 DEF WriterStep, Published
  <1>8. Removing'
    <2> SUFFICES ASSUME NEW r \in Removers
                 PROVE  /\ pc'[r] = "capture" => names'[r] = NoFile
                        /\ pc'[r] \in {"verify", "unlink", "restore", "forget"} => names'[r] # NoFile
                        /\ pc'[r] = "unlink" =>
                              /\ file'[names'[r]].text = Expected
                              /\ \A n \in Names \ {r} : names'[n] # names'[r]
      BY DEF Removing
    <2>1. pc'[r] = pc[r] /\ names'[r] = names[r]
      BY <1>1, <1>2, <1>4 DEF Procs
    <2>2. CASE pc[r] = "unlink"
      <3>1. Whole(names[r]) /\ file[names[r]].text = Expected /\ names[r] # NoFile
        BY <2>2 DEF Removing, Published, TemporaryNames
      <3>2. file'[names[r]] = file[names[r]]
        BY <3>1 DEF WriterStep, Whole
      <3>3. names'[w] # names[r]
        <4>1. names[w] # names[r]
          BY <1>1, <2>2 DEF Removing
        <4>2. names[r] = w => ~BeforeRename(w)
          BY <3>1 DEF Whole
        <4> QED
          BY <3>1, <4>1, <4>2 DEF WriterStep
      <3> QED
        BY <2>1, <2>2, <3>1, <3>2, <3>3 DEF WriterStep, Removing
    <2>3. CASE pc[r] # "unlink"
      BY <2>1, <2>3 DEF Removing
    <2> QED
      BY <2>2, <2>3
  <1>9. Anchored'
    <2>1. \A r \in Removers : pc'[r] = pc[r]
      BY <1>1, <1>2 DEF Procs
    <2>2. visible' = visible /\ dropped' = dropped
      BY DEF WriterStep
    <2> QED
      BY <1>4, <2>1, <2>2 DEF Anchored
  <1>10. DroppedExpected'
    BY DEF WriterStep, DroppedExpected, Published, Whole
  <1> QED
    BY <1>5, <1>6, <1>7, <1>8, <1>9, <1>10

LEMMA RemoverStepKeeps ==
    ASSUME FileAssumption, FileInv, NEW r \in Removers, RemoverStep(r)
    PROVE  FileInv'
  <1> USE DEF FileAssumption, FileInv
  <1>1. r \in Procs /\ r \in Names /\ r # "path" /\ r \notin Writers
    BY DEF Procs, Names
  <1>2. \A q \in Procs \ {r} : pc'[q] = pc[q] /\ result'[q] = result[q]
    BY DEF RemoverStep, Moved
  <1>3. \A w \in Writers : /\ pc'[w] = pc[w] /\ result'[w] = result[w]
                           /\ names'[w] = names[w]
    BY <1>1, <1>2 DEF RemoverStep, Procs, Names
  <1>4. \A q \in Removers \ {r} : pc'[q] = pc[q] /\ names'[q] = names[q]
    BY <1>2 DEF RemoverStep, Procs, Names
  <1>5. \A f : Whole(f) => Whole(f)'
    BY <1>3, WholeStays DEF RemoverStep, BeforeRename
  <1>6. TemporaryNames'
    <2>1. \A x \in Writers : names'[x] \in {x, NoFile}
      BY <1>3 DEF TemporaryNames
    <2> QED
      BY <1>3, <2>1 DEF RemoverStep, Recorded, TemporaryNames, At
  <1>7. Places'
    <2>1. \A p \in Procs : pc'[p] = "done" <=> result'[p] # "none"
      BY <1>2 DEF RemoverStep, Moved, Places, At
    <2> QED
      BY <1>3, <2>1 DEF RemoverStep, Moved, Places, At, Texts
  <1>8. Published'
    <2>1. \A x \in {"path"} \cup Removers : names[x] # NoFile => Whole(names[x])
      BY DEF Published, TemporaryNames
    <2>2. ASSUME NEW n \in past', NEW x \in {"path"} \cup Removers, n[x] # NoFile
          PROVE  Whole(n[x])
      BY <1>4, <2>1, <2>2 DEF RemoverStep, Recorded, Published
    <2>3. \A f \in dropped' : Whole(f)
      BY <2>1 DEF RemoverStep, Published
    <2> QED
      BY <1>5, <2>2, <2>3 DEF RemoverStep, Published
  <1>9. Removing'
    <2> SUFFICES ASSUME NEW q \in Removers
                 PROVE  /\ pc'[q] = "capture" => names'[q] = NoFile
                        /\ pc'[q] \in {"verify", "unlink", "restore", "forget"} => names'[q] # NoFile
                        /\ pc'[q] = "unlink" =>
                              /\ file'[names'[q]].text = Expected
                              /\ \A n \in Names \ {q} : names'[n] # names'[q]
      BY DEF Removing
    <2>1. CASE q = r
      BY <2>1 DEF RemoverStep
    <2>2. CASE q # r
      <3>1. pc'[q] = pc[q] /\ names'[q] = names[q] /\ file' = file
        BY <1>4, <2>2 DEF RemoverStep
      <3>2. ASSUME pc[q] = "unlink", NEW n \in Names \ {q}
            PROVE  names'[n] # names[q]
        <4>1. names[r] # names[q] /\ names["path"] # names[q] /\ names[n] # names[q]
          BY <1>1, <2>2, <3>2 DEF Removing, Names, Procs
        <4>2. names[q] # NoFile
          BY <3>2 DEF Removing
        <4> QED
          BY <4>1, <4>2 DEF RemoverStep
      <3> QED
        BY <3>1, <3>2 DEF Removing
    <2> QED
      BY <2>1, <2>2
  <1>10. Anchored'
    <2> SUFFICES ASSUME NEW f \in visible' \ dropped'
                 PROVE  \/ names'["path"] = f
                        \/ \E q \in Removers : names'[q] = f /\ pc'[q] # "forget"
      BY DEF Anchored
    <2>1. f \in visible \ dropped /\ f # NoFile
      BY DEF RemoverStep, Published, Whole, Files, Procs, NoFile
    <2>2. CASE names["path"] = f
      BY <2>1, <2>2 DEF RemoverStep
    <2>3. ASSUME NEW q \in Removers, names[q] = f, pc[q] # "forget"
          PROVE  \/ names'["path"] = f
                 \/ \E p \in Removers : names'[p] = f /\ pc'[p] # "forget"
      <3>1. CASE q = r
        BY <2>1, <2>3, <3>1 DEF RemoverStep
      <3>2. CASE q # r
        BY <1>4, <2>3, <3>2
      <3> QED
        BY <3>1, <3>2
    <2> QED
      BY <2>1, <2>2, <2>3 DEF Anchored
  <1>11. DroppedExpected'
    BY DEF RemoverStep, DroppedExpected
  <1> QED
    BY <1>6, <1>7, <1>8, <1>9, <1>10, <1>11

(* Each action of a writer other than Rename is a WriterStep *)

LEMMA CheckStep ==
    ASSUME FileAssumption, FileInv, NEW w \in Writers, Check(w)
    PROVE  WriterStep(w)
  <1> USE DEF FileAssumption, FileInv, Check, At, Goto, End, Bind, SameNames, Same
  <1>1. Moved(w)
    BY DEF Moved, Places, Procs
  <1>2. Recorded
    BY DEF Recorded, TemporaryNames, Names, Files, Procs
  <1>3. Proceeds(w)
    BY DEF Proceeds, BeforeRename, TemporaryNames, Places, Names, Files, Procs
  <1> QED
    BY <1>1, <1>2, <1>3 DEF WriterStep, Places, BeforeRename, TemporaryNames, Names, Files, Procs, Texts

LEMMA CreateStep ==
    ASSUME FileAssumption, FileInv, NEW w \in Writers, Create(w)
    PROVE  WriterStep(w)
  <1> USE DEF FileAssumption, FileInv, Create, At, Goto, End, Bind, SameNames, Same
  <1>1. Moved(w)
    BY DEF Moved, Places, Procs
  <1>2. Recorded
    BY DEF Recorded, TemporaryNames, Names, Files, Procs
  <1>3. Proceeds(w)
    BY DEF Proceeds, BeforeRename, TemporaryNames, Places, Names, Files, Procs
  <1> QED
    BY <1>1, <1>2, <1>3 DEF WriterStep, Places, BeforeRename, TemporaryNames, Names, Files, Procs, Texts

LEMMA WriteAllStep ==
    ASSUME FileAssumption, FileInv, NEW w \in Writers, WriteAll(w)
    PROVE  WriterStep(w)
  <1> USE DEF FileAssumption, FileInv, WriteAll, At, Goto, End, Bind, SameNames, Same
  <1>1. Moved(w)
    BY DEF Moved, Places, Procs
  <1>2. Recorded
    BY DEF Recorded, TemporaryNames, Names, Files, Procs
  <1>3. Proceeds(w)
    BY DEF Proceeds, BeforeRename, TemporaryNames, Places, Names, Files, Procs
  <1> QED
    BY <1>1, <1>2, <1>3 DEF WriterStep, Places, BeforeRename, TemporaryNames, Names, Files, Procs, Texts

LEMMA SyncFileStep ==
    ASSUME FileAssumption, FileInv, NEW w \in Writers, SyncFile(w)
    PROVE  WriterStep(w)
  <1> USE DEF FileAssumption, FileInv, SyncFile, At, Goto, End, Bind, SameNames, Same
  <1>1. Moved(w)
    BY DEF Moved, Places, Procs
  <1>2. Recorded
    BY DEF Recorded, TemporaryNames, Names, Files, Procs
  <1>3. Proceeds(w)
    BY DEF Proceeds, BeforeRename, TemporaryNames, Places, Names, Files, Procs
  <1>4. /\ file' \in [Files -> [text : Texts \cup {NoText}, synced : BOOLEAN]]
        /\ \A f \in Files : f # w => file'[f] = file[f]
    <2>1. w \in Files /\ file \in [Files -> [text : Texts \cup {NoText}, synced : BOOLEAN]]
      BY DEF Files, Places
    <2>2. [file[w] EXCEPT !.synced = TRUE] \in [text : Texts \cup {NoText}, synced : BOOLEAN]
      BY <2>1
    <2>3. file' = [file EXCEPT ![w] = [file[w] EXCEPT !.synced = TRUE]]
      BY <2>1
    <2> HIDE DEF SyncFile
    <2> QED
      BY <2>1, <2>2, <2>3
  <1>5. names[w] \in {w, NoFile} /\ BeforeRename(w)
    BY DEF TemporaryNames, BeforeRename
  <1> QED
    BY <1>1, <1>2, <1>3, <1>4, <1>5 DEF WriterStep

LEMMA SyncDirStep ==
    ASSUME FileAssumption, FileInv, NEW w \in Writers, SyncDir(w)
    PROVE  WriterStep(w)
  <1> USE DEF FileAssumption, FileInv, SyncDir, At, Goto, End, Bind, SameNames, Same
  <1>1. Moved(w)
    BY DEF Moved, Places, Procs
  <1>2. Recorded
    BY DEF Recorded, TemporaryNames, Names, Files, Procs
  <1>3. Proceeds(w)
    BY DEF Proceeds, BeforeRename, TemporaryNames, Places, Names, Files, Procs
  <1> QED
    BY <1>1, <1>2, <1>3 DEF WriterStep, Places, BeforeRename, TemporaryNames, Names, Files, Procs, Texts

LEMMA WriteFailsStep ==
    ASSUME FileAssumption, FileInv, NEW w \in Writers, WriteFails(w)
    PROVE  WriterStep(w)
  <1> USE DEF FileAssumption, FileInv, WriteFails, At, Goto, End, Bind, SameNames, Same
  <1>1. Moved(w)
    BY DEF Moved, Places, Procs
  <1>2. Recorded
    BY DEF Recorded, TemporaryNames, Names, Files, Procs
  <1>3. Proceeds(w)
    BY DEF Proceeds, BeforeRename, TemporaryNames, Places, Names, Files, Procs
  <1> QED
    BY <1>1, <1>2, <1>3 DEF WriterStep, Places, BeforeRename, TemporaryNames, Names, Files, Procs, Texts

LEMMA CleanupStep ==
    ASSUME FileAssumption, FileInv, NEW w \in Writers, Cleanup(w)
    PROVE  WriterStep(w)
  <1> USE DEF FileAssumption, FileInv, Cleanup, At, Goto, End, Bind, SameNames, Same
  <1>1. Moved(w)
    BY DEF Moved, Places, Procs
  <1>2. Recorded
    BY DEF Recorded, TemporaryNames, Names, Files, Procs
  <1>3. Proceeds(w)
    BY DEF Proceeds, BeforeRename, TemporaryNames, Places, Names, Files, Procs
  <1> QED
    BY <1>1, <1>2, <1>3 DEF WriterStep, Places, BeforeRename, TemporaryNames, Names, Files, Procs, Texts

LEMMA SyncDirFailsStep ==
    ASSUME FileAssumption, FileInv, NEW w \in Writers, SyncDirFails(w)
    PROVE  WriterStep(w)
  <1> USE DEF FileAssumption, FileInv, SyncDirFails, At, Goto, End, Bind, SameNames, Same
  <1>1. Moved(w)
    BY DEF Moved, Places, Procs
  <1>2. Recorded
    BY DEF Recorded, TemporaryNames, Names, Files, Procs
  <1>3. Proceeds(w)
    BY DEF Proceeds, BeforeRename, TemporaryNames, Places, Names, Files, Procs
  <1> QED
    BY <1>1, <1>2, <1>3 DEF WriterStep, Places, BeforeRename, TemporaryNames, Names, Files, Procs, Texts


\* A file with one link has no other name.
LEMMA SoleName ==
    ASSUME FileAssumption, NEW m \in Names, Links(names[m]) = 1, NEW n \in Names \ {m}
    PROVE  names[n] # names[m]
  <1> DEFINE S == {x \in Names : names[x] = names[m]}
  <1>1. IsFiniteSet(Procs)
    BY FS_Union DEF FileAssumption, Procs
  <1>2. IsFiniteSet(Names)
    <2>1. IsFiniteSet({"path"})
      BY FS_Singleton
    <2> QED
      BY <1>1, <2>1, FS_Union DEF Names
  <1>3. IsFiniteSet(S) /\ Cardinality(S) = 1
    BY <1>2, FS_Subset DEF Links
  <1>4. PICK x : S = {x}
    <2> HIDE DEF S
    <2> QED
      BY <1>3, FS_Singleton
  <1> QED
    BY <1>4

(* Each action of a remover is a RemoverStep *)

LEMMA CaptureStep ==
    ASSUME FileAssumption, FileInv, NEW r \in Removers, Capture(r)
    PROVE  RemoverStep(r)
  <1> USE DEF FileAssumption, FileInv, Capture, At, Goto, End, Bind, SameNames, Same
  <1>1. Moved(r)
    BY DEF Moved, Places, Procs
  <1>2. Recorded
    BY DEF Recorded, TemporaryNames, Names, Files, Procs
  <1>3. r \in Procs /\ r \in Names /\ "path" \in Names /\ r # "path"
    BY DEF Procs, Names
  <1>4. names[r] = NoFile
    BY DEF Removing
  <1>5. CASE names' = names
    <2>1. pc'[r] = "done"
      BY <1>3, <1>4, <1>5 DEF Places, TemporaryNames
    <2> QED
      BY <1>1, <1>2, <1>3, <1>4, <1>5, <2>1 DEF RemoverStep
  <1>6. CASE names["path"] # NoFile /\ names' = [names EXCEPT !["path"] = NoFile, ![r] = names["path"]]
    <2>1. /\ names'["path"] = NoFile /\ names'[r] = names["path"]
          /\ \A x \in Names \ {r, "path"} : names'[x] = names[x]
      BY <1>3, <1>6 DEF TemporaryNames
    <2>2. pc'[r] = "verify"
      BY <1>3, <1>6, <2>1 DEF Places
    <2> QED
      BY <1>1, <1>2, <1>3, <1>4, <1>6, <2>1, <2>2 DEF RemoverStep
  <1> QED
    BY <1>5, <1>6

LEMMA VerifyStep ==
    ASSUME FileAssumption, FileInv, NEW r \in Removers, Verify(r)
    PROVE  RemoverStep(r)
  <1> USE DEF FileAssumption, FileInv, Verify, At, Goto, End, Bind, SameNames, Same
  <1>1. Moved(r)
    BY DEF Moved, Places, Procs
  <1>2. Recorded
    BY DEF Recorded, TemporaryNames, Names, Files, Procs
  <1>3. r \in Procs /\ r \in Names /\ "path" \in Names /\ r # "path"
    BY DEF Procs, Names
  <1>4. names[r] # NoFile
    BY DEF Removing
  <1>5. pc'[r] \in {"unlink", "restore"} /\ (pc'[r] = "unlink" => Accepts(names[r]))
    BY <1>3 DEF Places
  <1>6. ASSUME Accepts(names[r]), NEW n \in Names \ {r}
        PROVE  names[n] # names[r]
    BY <1>3, <1>6, SoleName DEF Accepts
  <1> QED
    BY <1>1, <1>2, <1>3, <1>4, <1>5, <1>6 DEF RemoverStep, Accepts

LEMMA UnlinkStep ==
    ASSUME FileAssumption, FileInv, NEW r \in Removers, Unlink(r)
    PROVE  RemoverStep(r)
  <1> USE DEF FileAssumption, FileInv, Unlink, At, Goto, End, Bind, SameNames, Same
  <1>1. Moved(r)
    BY DEF Moved, Places, Procs
  <1>2. Recorded
    BY DEF Recorded, TemporaryNames, Names, Files, Procs
  <1>3. r \in Procs /\ r \in Names /\ "path" \in Names /\ r # "path"
    BY DEF Procs, Names
  <1>4. names[r] # NoFile /\ file[names[r]].text = Expected
    BY DEF Removing
  <1>5. CASE Bind(r, NoFile)
    <2>1. /\ names'[r] = NoFile
          /\ \A x \in Names \ {r} : names'[x] = names[x]
      BY <1>3, <1>5 DEF TemporaryNames
    <2>2. pc'[r] = "syncparent" /\ dropped' = dropped \cup {names[r]}
      BY <1>3, <1>4, <1>5, <2>1 DEF Places
    <2> QED
      BY <1>1, <1>2, <1>3, <1>4, <2>1, <2>2 DEF RemoverStep
  <1>6. CASE ~Bind(r, NoFile)
    <2>1. pc'[r] = "restore" /\ names' = names /\ dropped' = dropped
      BY <1>3, <1>6 DEF Places
    <2> QED
      BY <1>1, <1>2, <1>3, <1>4, <2>1 DEF RemoverStep
  <1> QED
    BY <1>5, <1>6

LEMMA SyncParentStep ==
    ASSUME FileAssumption, FileInv, NEW r \in Removers, SyncParent(r)
    PROVE  RemoverStep(r)
  <1> USE DEF FileAssumption, FileInv, SyncParent, At, Goto, End, Bind, SameNames, Same
  <1>1. Moved(r)
    BY DEF Moved, Places, Procs
  <1>2. Recorded
    BY DEF Recorded, TemporaryNames, Names, Files, Procs
  <1>3. r \in Procs /\ r \in Names /\ "path" \in Names /\ r # "path"
    BY DEF Procs, Names
  <1>4. pc' = [pc EXCEPT ![r] = pc'[r]] /\ pc'[r] # pc[r]
    BY <1>3 DEF Places
  <1> QED
    BY <1>1, <1>2, <1>3, <1>4 DEF RemoverStep, Removing, Places, TemporaryNames

LEMMA RestoreStep ==
    ASSUME FileAssumption, FileInv, NEW r \in Removers, Restore(r)
    PROVE  RemoverStep(r)
  <1> USE DEF FileAssumption, FileInv, Restore, At, Goto, End, Bind, SameNames, Same
  <1>1. Moved(r)
    BY DEF Moved, Places, Procs
  <1>2. r \in Procs /\ r \in Names /\ "path" \in Names /\ r # "path"
    BY DEF Procs, Names
  <1>3. names[r] # NoFile
    BY DEF Removing
  <1>4. CASE names["path"] = NoFile /\ Bind("path", names[r]) /\ Goto(r, "forget")
    <2>1. /\ names'["path"] = names[r]
          /\ \A x \in Names \ {"path"} : names'[x] = names[x]
      BY <1>2, <1>4 DEF TemporaryNames
    <2>2. names' \in [Names -> Files \cup {NoFile}]
      BY <1>2, <1>4 DEF TemporaryNames
    <2>3. Recorded
      BY <1>4, <2>2 DEF Recorded
    <2>4. pc'[r] = "forget"
      BY <1>2, <1>4 DEF Places
    <2> QED
      BY <1>1, <1>2, <1>3, <1>4, <2>1, <2>3, <2>4 DEF RemoverStep
  <1>5. CASE End(r, "retained") /\ SameNames
    <2>1. Recorded
      BY <1>5 DEF Recorded, TemporaryNames
    <2>2. pc'[r] = "done"
      BY <1>2, <1>5 DEF Places
    <2> QED
      BY <1>1, <1>2, <1>3, <1>5, <2>1, <2>2 DEF RemoverStep
  <1> QED
    BY <1>4, <1>5

LEMMA ForgetStep ==
    ASSUME FileAssumption, FileInv, NEW r \in Removers, Forget(r)
    PROVE  RemoverStep(r)
  <1> USE DEF FileAssumption, FileInv, Forget, At, Goto, End, Bind, SameNames, Same
  <1>1. Moved(r)
    BY DEF Moved, Places, Procs
  <1>2. Recorded
    BY DEF Recorded, TemporaryNames, Names, Files, Procs
  <1>3. r \in Procs /\ r \in Names /\ "path" \in Names /\ r # "path"
    BY DEF Procs, Names
  <1>4. pc' = [pc EXCEPT ![r] = pc'[r]] /\ pc'[r] # pc[r]
    BY <1>3 DEF Places
  <1> QED
    BY <1>1, <1>2, <1>3, <1>4 DEF RemoverStep, Removing, Places, TemporaryNames


(* The steps that are neither *)

\* The renamed file is whole, and what it replaces is no longer at the path.
LEMMA RenameKeeps ==
    ASSUME FileAssumption, FileInv, NEW w \in Writers, Rename(w)
    PROVE  FileInv'
  <1> USE DEF FileAssumption, FileInv, Rename, At, Goto
  <1>1. w \in Procs /\ w \in Names /\ w \in Files /\ w # "path" /\ w # NoFile /\ w \notin Removers
    BY DEF Procs, Names, Files, NoFile
  <1>2. /\ pc'[w] = "syncdir" /\ result'[w] = result[w]
        /\ pc' = [q \in Procs |-> pc'[q]] /\ result' = [q \in Procs |-> result'[q]]
        /\ \A q \in Procs \ {w} : pc'[q] = pc[q] /\ result'[q] = result[q]
    BY <1>1 DEF Places
  <1>3. /\ names'["path"] = w /\ names'[w] = NoFile
        /\ \A x \in Names \ {"path", w} : names'[x] = names[x]
        /\ names' \in [Names -> Files \cup {NoFile}]
    BY <1>1 DEF TemporaryNames, Names
  <1>4. result[w] = "none"
    BY <1>1 DEF Places
  <1>5. Whole(w)'
    <2>1. file[w].synced /\ file[w].text = Text[w]
      BY DEF Places
    <2>2. w # "old" /\ file'[w] = file[w]
      BY DEF Procs
    <2>3. ~BeforeRename(w)'
      BY <1>2, <1>4 DEF BeforeRename
    <2> QED
      BY <1>1, <2>1, <2>2, <2>3 DEF Whole, TextOf
  <1>6. \A f : Whole(f) => Whole(f)'
    BY <1>2, WholeStays DEF BeforeRename, Procs
  <1>7. \A r \in Removers : names'[r] = names[r] /\ pc'[r] = pc[r]
    BY <1>1, <1>2, <1>3 DEF Names, Procs, FileAssumption
  <1>8. ~Whole(w)
    BY DEF Whole, BeforeRename
  <1>9. TemporaryNames'
    <2>1. \A x \in Writers : names'[x] \in {x, NoFile}
      BY <1>3 DEF TemporaryNames, Names, Procs
    <2>2. \A x \in Writers : pc'[x] = "syncdir" => names'[x] = NoFile
      BY <1>2, <1>3 DEF TemporaryNames, Names, Procs
    <2>3. \A x \in Writers : \A n \in past' : result'[x] = "ok" => n[x] = NoFile
      BY <1>2, <1>3, <1>4 DEF TemporaryNames, Names, Procs
    <2>4. names' \in past' /\ \A n \in past' : n \in past \/ n = names'
      OBVIOUS
    <2> QED
      BY <1>3, <2>1, <2>2, <2>3, <2>4 DEF TemporaryNames
  <1>10. Places'
    <2>1. \A p \in Procs : pc'[p] = "done" <=> result'[p] # "none"
      BY <1>2, <1>4 DEF Places
    <2>2. ASSUME NEW x \in Writers
          PROVE  /\ pc'[x] \in {"check", "create", "write", "sync", "rename", "cleanup",
                                "syncdir", "done", "dead"}
                 /\ result'[x] \in {"none", "ok", "failed", "uncertain"}
                 /\ pc'[x] \in {"sync", "rename"} => file'[x].text = Text[x]
                 /\ pc'[x] = "rename" => file'[x].synced
      BY <1>2, <1>4 DEF Places, Procs
    <2> QED
      BY <1>2, <2>1, <2>2 DEF Places, Texts
  <1>11. Published'
    <2>1. \A n \in past' : \A x \in {"path"} \cup Removers : n[x] # NoFile => Whole(n[x])'
      BY <1>3, <1>5, <1>6, <1>7 DEF Published, TemporaryNames
    <2> QED
      BY <1>5, <1>6, <2>1 DEF Published
  <1>12. Removing'
    <2>1. ASSUME NEW r \in Removers, pc[r] = "unlink"
          PROVE  \A n \in Names \ {r} : names'[n] # names[r]
      <3>1. names[r] # NoFile /\ \A n \in Names \ {r} : names[n] # names[r]
        BY <2>1 DEF Removing
      <3>2. Whole(names[r])
        BY <3>1 DEF Published, TemporaryNames
      <3> QED
        BY <1>3, <1>8, <3>1, <3>2
    <2> QED
      BY <1>7, <2>1 DEF Removing
  <1>13. Anchored'
    <2> SUFFICES ASSUME NEW f \in visible' \ dropped', f # w
                 PROVE  \E r \in Removers : names'[r] = f /\ pc'[r] # "forget"
      BY <1>3 DEF Anchored
    <2>1. f \in visible \ dropped /\ f # names["path"]
      OBVIOUS
    <2>2. PICK r \in Removers : names[r] = f /\ pc[r] # "forget"
      BY <2>1 DEF Anchored
    <2> QED
      BY <1>7, <2>2
  <1>14. DroppedExpected'
    BY DEF DroppedExpected
  <1> QED
    BY <1>9, <1>10, <1>11, <1>12, <1>13, <1>14

LEMMA ReaderKeeps ==
    ASSUME FileAssumption, FileInv, Open \/ Read
    PROVE  FileInv'
  <1> USE DEF FileAssumption, FileInv
  <1>1. UNCHANGED <<names, past, file, pc, result, visible, dropped, crashes>>
    BY DEF Open, Read
  <1>2. \A f : Whole(f)' <=> Whole(f)
    BY <1>1 DEF Whole, BeforeRename
  <1>3. reader'.file # NoFile => Whole(reader'.file)
    <2>1. names["path"] # NoFile => Whole(names["path"])
      BY DEF Published, TemporaryNames
    <2>2. CASE Open
      <3>1. reader' = [reader EXCEPT !.file = names["path"]] /\ names["path"] # NoFile
        BY <2>2 DEF Open
      <3>2. \/ reader'.file = names["path"]
            \/ reader' = reader
        BY <3>1
      <3> QED
        BY <2>1, <3>1, <3>2 DEF Published
    <2>3. CASE Read
      BY <2>3 DEF Read
    <2> QED
      BY <2>2, <2>3
  <1>4. Published'
    BY <1>1, <1>2, <1>3 DEF Published
  <1>5. TemporaryNames' /\ Places'
    BY <1>1 DEF TemporaryNames, Places, At, Texts
  <1>6. Removing' /\ Anchored' /\ DroppedExpected'
    BY <1>1 DEF Removing, Anchored, DroppedExpected
  <1> QED
    BY <1>4, <1>5, <1>6

\* A crash shows one of the moments since the last synchronisation, at all of
\* which the files that could be reached were whole.
LEMMA CrashKeeps ==
    ASSUME FileAssumption, FileInv, Crash
    PROVE  FileInv'
  <1> USE DEF FileAssumption, FileInv, Crash, At
  <1>1. names' \in past /\ past' = {names'} /\ result' = result /\ dropped' = dropped
    OBVIOUS
  <1>2. \A p \in Procs : pc'[p] \in {"done", "dead"} /\ (pc'[p] = "done" <=> pc[p] = "done")
    OBVIOUS
  <1>3. file' \in [Files -> [text : Texts \cup {NoText}, synced : BOOLEAN]]
    BY DEF Places
  <1>4. \A f : Whole(f) => Whole(f)' /\ file'[f] = file[f]
    BY <1>2 DEF Whole, BeforeRename, Procs, TextOf
  <1>5. \A x \in {"path"} \cup Removers : names'[x] # NoFile => Whole(names'[x])
    BY <1>1 DEF Published
  <1>6. TemporaryNames'
    BY <1>1, <1>2 DEF TemporaryNames, Procs
  <1>7. Places'
    <2>1. /\ pc' = [p \in Procs |-> pc'[p]] /\ result' = [p \in Procs |-> result'[p]]
          /\ \A p \in Procs : pc'[p] = "done" <=> result'[p] # "none"
          /\ crashes' \in Nat
      BY <1>1, <1>2 DEF Places
    <2>2. \A w \in Writers : /\ pc'[w] \in {"done", "dead"}
                             /\ result'[w] \in {"none", "ok", "failed", "uncertain"}
      BY <1>1, <1>2 DEF Places, Procs
    <2> QED
      BY <1>3, <2>1, <2>2 DEF Places, Texts
  <1>8. Published'
    <2>1. \A f \in visible' : Whole(f)
      BY <1>5
    <2>2. \A f \in dropped' : Whole(f)
      BY DEF Published
    <2>3. reader'.file = NoFile
      OBVIOUS
    <2> QED
      BY <1>1, <1>4, <1>5, <2>1, <2>2, <2>3 DEF Published
  <1>9. Removing'
    BY <1>2 DEF Removing, Procs
  <1>10. Anchored'
    <2> SUFFICES ASSUME NEW f \in visible'
                 PROVE  \/ names'["path"] = f
                        \/ \E r \in Removers : names'[r] = f /\ pc'[r] # "forget"
      BY DEF Anchored
    <2>1. PICK x \in {"path"} \cup Removers : names'[x] = f
      OBVIOUS
    <2> QED
      BY <1>2, <2>1 DEF Procs
  <1>11. DroppedExpected'
    BY <1>4 DEF DroppedExpected, Published
  <1> QED
    BY <1>6, <1>7, <1>8, <1>9, <1>10, <1>11

LEMMA StutterKeeps ==
    ASSUME FileInv, UNCHANGED fileVars
    PROVE  FileInv'
  <1> USE DEF FileInv, fileVars
  <1>1. \A f : Whole(f)' <=> Whole(f)
    BY DEF Whole, BeforeRename
  <1>2. TemporaryNames' /\ Places'
    BY DEF TemporaryNames, Places, At, Texts
  <1>3. Published'
    BY <1>1 DEF Published
  <1>4. Removing' /\ Anchored' /\ DroppedExpected'
    BY DEF Removing, Anchored, DroppedExpected
  <1> QED
    BY <1>2, <1>3, <1>4

LEMMA FileInvHolds ==
    ASSUME FileAssumption
    PROVE  FileInit => FileInv
  <1> SUFFICES ASSUME FileInit PROVE FileInv
    OBVIOUS
  <1> USE DEF FileAssumption, FileInit, Procs, Names, Files, At, NoFile
  <1>1. \A x \in Names : names[x] = IF x = "path" THEN "old" ELSE NoFile
    OBVIOUS
  <1>2. \A w \in Writers : pc[w] = "check" /\ result[w] = "none"
    OBVIOUS
  <1>3. \A r \in Removers : pc[r] = "capture" /\ result[r] = "none"
    OBVIOUS
  <1>4. Whole("old")
    BY DEF Whole, TextOf, BeforeRename
  <1>5. TemporaryNames
    BY <1>1, <1>2 DEF TemporaryNames
  <1>6. Places
    BY <1>2, <1>3 DEF Places, Texts
  <1>7. Published /\ DroppedExpected
    BY <1>1, <1>4 DEF Published, DroppedExpected
  <1>8. Removing /\ Anchored
    BY <1>1, <1>3 DEF Removing, Anchored
  <1> QED
    BY <1>5, <1>6, <1>7, <1>8 DEF FileInv

LEMMA FileStep ==
    ASSUME FileAssumption, FileInv, [FileNext]_fileVars
    PROVE  FileInv'
  <1>1. ASSUME NEW w \in Writers, Write(w) PROVE FileInv'
    BY <1>1, WriterStepKeeps, RenameKeeps, CheckStep, CreateStep, WriteAllStep, SyncFileStep,
       SyncDirStep, WriteFailsStep, CleanupStep, SyncDirFailsStep DEF Write
  <1>2. ASSUME NEW r \in Removers, Remove(r) PROVE FileInv'
    BY <1>2, RemoverStepKeeps, CaptureStep, VerifyStep, UnlinkStep, SyncParentStep,
       RestoreStep, ForgetStep DEF Remove
  <1> QED
    BY <1>1, <1>2, ReaderKeeps, CrashKeeps, StutterKeeps DEF FileNext

LEMMA FileInvAlways ==
    ASSUME FileAssumption
    PROVE  FileSpec => []FileInv
  <1>1. FileInit => FileInv
    BY FileInvHolds
  <1>2. FileInv /\ [FileNext]_fileVars => FileInv'
    BY FileStep
  <1> QED
    BY <1>1, <1>2, PTL DEF FileSpec

LEMMA FileInvEnough ==
    ASSUME FileAssumption
    PROVE  FileInv => DocumentsKept
  <1> SUFFICES ASSUME FileInv PROVE DocumentsKept
    OBVIOUS
  <1> USE DEF FileInv
  <1>1. FileTypeOK
    BY DEF FileTypeOK, TemporaryNames, Places, At
  <1>2. NeverTorn
    <2>1. \A f : Whole(f) => file[f].text \in Texts
      BY DEF Whole, TextOf, Texts, Files
    <2> QED
      BY <2>1 DEF NeverTorn, Published, TemporaryNames
  <1>3. OnlyExpectedRemoved
    BY DEF OnlyExpectedRemoved, DroppedExpected
  <1>4. RejectedKept
    BY DEF RejectedKept, Anchored, Names, Procs
  <1> QED
    BY <1>1, <1>2, <1>3, <1>4 DEF DocumentsKept

\* A reader never finds a torn document, before or after a crash; only expected
\* documents are removed; and a rejected file keeps a name, whatever the other
\* processes of write_private_toml and remove_verified do meanwhile.
THEOREM DocumentsAreKept ==
    ASSUME FileAssumption
    PROVE  FileSpec => []DocumentsKept
  <1>1. FileInv => DocumentsKept
    BY FileInvEnough
  <1> QED
    BY <1>1, FileInvAlways, PTL

\* remove_verified never puts a rejected file back over another: outside a crash
\* the file at the path changes only by a writer's rename or a remover's capture.
THEOREM NothingIsOverwritten ==
    ASSUME FileAssumption
    PROVE  FileSpec => NothingOverwritten
  <1>1. FileInv /\ [FileNext]_fileVars => [OverwrittenOnPurpose]_fileVars
    <2> SUFFICES ASSUME FileInv, FileNext, names["path"] # NoFile,
                        names'["path"] # names["path"], crashes' = crashes
                 PROVE  \/ \E w \in Writers : At(w, "rename") /\ pc'[w] = "syncdir"
                        \/ \E r \in Removers : names'[r] = names["path"]
      BY DEF OverwrittenOnPurpose
    <2>1. ASSUME NEW w \in Writers, Write(w)
          PROVE  At(w, "rename") /\ pc'[w] = "syncdir"
      <3>1. CASE Rename(w)
        BY <3>1 DEF Rename, Goto, At, FileInv, Places, Procs
      <3>2. CASE ~Rename(w)
        <4>1. WriterStep(w)
          BY <2>1, <3>2, CheckStep, CreateStep, WriteAllStep, SyncFileStep,
             SyncDirStep, WriteFailsStep, CleanupStep, SyncDirFailsStep DEF Write
        <4>2. "path" \in Names \ {w}
          BY DEF FileAssumption, Names, Procs
        <4> QED
          BY <4>1, <4>2 DEF WriterStep
      <3> QED
        BY <3>1, <3>2
    <2>2. ASSUME NEW r \in Removers, Remove(r)
          PROVE  names'[r] = names["path"]
      <3>1. RemoverStep(r)
        BY <2>2, CaptureStep, VerifyStep, UnlinkStep, SyncParentStep,
           RestoreStep, ForgetStep DEF Remove
      <3> QED
        BY <3>1 DEF RemoverStep
    <2>3. ~Open /\ ~Read /\ ~Crash
      BY DEF Open, Read, Crash, FileInv, Places
    <2> QED
      BY <2>1, <2>2, <2>3 DEF FileNext
  <1> QED
    BY <1>1, FileInvAlways, PTL DEF FileSpec, NothingOverwritten

(* The refinement of AtomicFile *)

\* The document a reader finds when the names are n and the files d.
TextIn(d, n) == IF n["path"] = NoFile THEN NoText ELSE d[n["path"]].text

Shown == TextIn(file, names)
Kept == {TextIn(file, n) : n \in past}
WriterCalls == [w \in Writers |-> Call(w)]

\* The documents that can be found are in files which no step writes to.
LEMMA SameTexts ==
    ASSUME FileInv, \A f : Whole(f) => file'[f] = file[f], NEW n \in past
    PROVE  TextIn(file', n) = TextIn(file, n)
  BY DEF TextIn, FileInv, Published

\* A step that leaves the path alone shows nothing new.
LEMMA NothingShown ==
    ASSUME FileAssumption, FileInv, NEW w \in Writers, WriterStep(w)
    PROVE  /\ Shown' = Shown
           /\ past' = {names} => Kept' = {Shown}
           /\ past \subseteq past' => Kept' = Kept
  <1>1. \A n \in past : TextIn(file', n) = TextIn(file, n)
    <2>1. \A f : Whole(f) => file'[f] = file[f]
      BY DEF WriterStep, Whole
    <2> QED
      BY <2>1, SameTexts
  <1>2. names'["path"] = names["path"] /\ names \in past
    BY DEF WriterStep, FileInv, TemporaryNames, Names, Procs, FileAssumption
  <1>3. TextIn(file', names') = TextIn(file', names)
    BY <1>2 DEF TextIn
  <1>4. Shown' = Shown
    BY <1>1, <1>2, <1>3 DEF Shown
  <1>5. past' \subseteq past \cup {names'}
    BY DEF WriterStep, Recorded
  <1>6. ASSUME past' = {names} PROVE Kept' = {Shown}
    BY <1>1, <1>2, <1>6 DEF Kept, Shown
  <1>7. ASSUME past \subseteq past' PROVE Kept' = Kept
    <2>1. \A n \in past' : \E m \in past : TextIn(file', n) = TextIn(file, m)
      BY <1>1, <1>2, <1>3, <1>5
    <2>2. \A m \in past : \E n \in past' : TextIn(file', n) = TextIn(file, m)
      BY <1>1, <1>7
    <2> QED
      BY <2>1, <2>2 DEF Kept
  <1> QED
    BY <1>4, <1>6, <1>7

\* A step of one writer changes no other's answer.
LEMMA OneAnswer ==
    ASSUME NEW w \in Writers, Moved(w)
    PROVE  WriterCalls' = [WriterCalls EXCEPT ![w] = Call(w)']
  <1>1. \A x \in Writers \ {w} : Call(x)' = Call(x)
    BY DEF Moved, Call, Procs
  <1> QED
    BY <1>1 DEF WriterCalls

LEMMA CallIs ==
    ASSUME NEW w \in Writers
    PROVE  /\ pc[w] = "done" => Call(w) = result[w]
           /\ pc[w] = "dead" => Call(w) = "dead"
           /\ pc[w] = "check" => Call(w) = "idle"
           /\ pc[w] = "syncdir" => Call(w) = "replaced"
           /\ pc[w] \in {"create", "write", "sync", "rename", "cleanup"} => Call(w) = "busy"
  BY DEF Call

LEMMA CallBecomes ==
    ASSUME NEW w \in Writers
    PROVE  /\ pc'[w] = "done" => Call(w)' = result'[w]
           /\ pc'[w] = "dead" => Call(w)' = "dead"
           /\ pc'[w] = "syncdir" => Call(w)' = "replaced"
           /\ pc'[w] \in {"create", "write", "sync", "rename", "cleanup"} => Call(w)' = "busy"
  BY DEF Call

\* What a reader finds is what the abstract file shows, before and after.
LEMMA Mapped ==
    /\ TextAt(names) = Shown /\ {TextAt(n) : n \in past} = Kept
    /\ TextAt(names)' = Shown' /\ {TextAt(n) : n \in past}' = Kept'
  BY DEF TextAt, TextIn, Shown, Kept

\* Up to the rename, and for the answers after it, the abstract call moves and
\* the documents do not.
LEMMA CallSimulated ==
    ASSUME FileAssumption, FileInv, NEW w \in Writers, WriterStep(w), past \subseteq past',
           \/ Call(w)' = Call(w)
           \/ Call(w) = "idle" /\ Call(w)' = "busy"
           \/ Call(w) \in {"idle", "busy"} /\ Call(w)' = "failed"
           \/ Call(w) = "replaced" /\ Call(w)' = "uncertain"
    PROVE  [Atomic!Next]_(Atomic!vars)
  <1>1. Shown' = Shown /\ Kept' = Kept
    BY NothingShown
  <1>2. WriterCalls' = [WriterCalls EXCEPT ![w] = Call(w)']
    BY OneAnswer DEF WriterStep
  <1>3. WriterCalls[w] = Call(w) /\ WriterCalls = [x \in Writers |-> WriterCalls[x]]
    BY DEF WriterCalls
  <1>4. CASE Call(w)' = Call(w)
    <2>1. WriterCalls' = WriterCalls
      BY <1>2, <1>3, <1>4
    <2> QED
      BY <1>1, <2>1, Mapped DEF Atomic!vars, WriterCalls
  <1>5. CASE Call(w) = "idle" /\ Call(w)' = "busy"
    <2>1. Atomic!Begin(w)
      BY <1>1, <1>2, <1>3, <1>5, Mapped DEF Atomic!Begin, WriterCalls
    <2> QED
      BY <2>1 DEF Atomic!Next
  <1>6. CASE Call(w) \in {"idle", "busy"} /\ Call(w)' = "failed"
    <2>1. Atomic!Fail(w)
      BY <1>1, <1>2, <1>3, <1>6, Mapped DEF Atomic!Fail, WriterCalls
    <2> QED
      BY <2>1 DEF Atomic!Next
  <1>7. CASE Call(w) = "replaced" /\ Call(w)' = "uncertain"
    <2>1. Atomic!Confirm(w)
      BY <1>1, <1>2, <1>3, <1>7, Mapped DEF Atomic!Confirm, WriterCalls
    <2> QED
      BY <2>1 DEF Atomic!Next
  <1> QED
    BY <1>4, <1>5, <1>6, <1>7

LEMMA SyncDirSimulated ==
    ASSUME FileAssumption, FileInv, NEW w \in Writers, SyncDir(w)
    PROVE  Atomic!Next
  <1>1. WriterStep(w)
    BY SyncDirStep
  <1>2. Shown' = Shown /\ Kept' = {Shown}
    BY <1>1, NothingShown DEF SyncDir
  <1>3. WriterCalls' = [WriterCalls EXCEPT ![w] = Call(w)']
    BY <1>1, OneAnswer DEF WriterStep
  <1>4. WriterCalls[w] = Call(w)
    BY DEF WriterCalls
  <1>5. Call(w) = "replaced" /\ Call(w)' = "ok"
    BY CallIs, CallBecomes DEF SyncDir, At, End, FileInv, Places, Procs
  <1>6. Atomic!Confirm(w)
    BY <1>2, <1>3, <1>4, <1>5, Mapped DEF Atomic!Confirm, WriterCalls
  <1> QED
    BY <1>6 DEF Atomic!Next

\* The rename is the instant of the replacement.
LEMMA RenameSimulated ==
    ASSUME FileAssumption, FileInv, NEW w \in Writers, Rename(w)
    PROVE  Atomic!Next
  <1> USE DEF FileAssumption, FileInv
  <1>1. names'["path"] = w /\ w # NoFile /\ file' = file /\ past' = past \cup {names'}
    BY DEF Rename, TemporaryNames, Names, Procs, NoFile
  <1>2. file[w].text = Text[w]
    BY DEF Rename, At, Places
  <1>3. TextIn(file', names') = Text[w]
    BY <1>1, <1>2 DEF TextIn
  <1>4. Shown' = Text[w] /\ Kept' = Kept \cup {Text[w]}
    BY <1>1, <1>3 DEF Shown, Kept
  <1>5. pc[w] = "rename" /\ pc'[w] = "syncdir" /\ Moved(w)
    BY DEF Rename, At, Goto, Places, Procs, Moved
  <1>6. WriterCalls' = [WriterCalls EXCEPT ![w] = Call(w)']
    BY <1>5, OneAnswer
  <1>7. WriterCalls[w] = Call(w) /\ Call(w) = "busy" /\ Call(w)' = "replaced"
    BY <1>5, CallIs, CallBecomes DEF WriterCalls
  <1>8. Atomic!Replace(w)
    BY <1>4, <1>6, <1>7, Mapped DEF Atomic!Replace, WriterCalls
  <1> QED
    BY <1>8 DEF Atomic!Next

LEMMA CrashSimulated ==
    ASSUME FileAssumption, FileInv, Crash
    PROVE  Atomic!Next
  <1> USE DEF FileInv
  <1>1. \A f : Whole(f) => file'[f] = file[f]
    BY DEF Crash, Whole
  <1>2. names' \in past /\ past' = {names'}
    BY DEF Crash
  <1>3. TextIn(file', names') = TextIn(file, names')
    BY <1>1, <1>2 DEF TextIn, Published
  <1>4. Shown' \in Kept /\ Kept' = {Shown'}
    BY <1>2, <1>3 DEF Shown, Kept
  <1>5. ASSUME NEW w \in Writers
        PROVE  Call(w)' = IF Call(w) \in {"idle", "busy", "replaced"} THEN "dead" ELSE Call(w)
    <2>1. /\ pc'[w] = IF pc[w] = "done" THEN "done" ELSE "dead"
          /\ result'[w] = result[w]
      BY DEF Crash, At, Procs
    <2>2. pc[w] = "done" => result[w] \in {"ok", "failed", "uncertain"}
      BY DEF Places, At, Procs
    <2>3. pc[w] \in {"check", "create", "write", "sync", "rename", "cleanup",
                     "syncdir", "done", "dead"}
      BY DEF Places
    <2> QED
      BY <2>1, <2>2, <2>3, CallIs, CallBecomes
  <1>6. WriterCalls' = [w \in Writers |-> IF WriterCalls[w] \in {"idle", "busy", "replaced"}
                                          THEN "dead" ELSE WriterCalls[w]]
    BY <1>5 DEF WriterCalls
  <1>7. Atomic!Crash
    BY <1>4, <1>6, Mapped DEF Atomic!Crash, WriterCalls
  <1> QED
    BY <1>7 DEF Atomic!Next

LEMMA WriteSimulated ==
    ASSUME FileAssumption, FileInv, NEW w \in Writers, Write(w)
    PROVE  [Atomic!Next]_(Atomic!vars)
  <1> USE DEF FileAssumption, FileInv, At, Goto, End
  <1>1. w \in Procs /\ pc = [p \in Procs |-> pc[p]] /\ result = [p \in Procs |-> result[p]]
    BY DEF Procs, Places
  <1>2. CASE Check(w)
    <2>1. \/ pc'[w] = "done" /\ result'[w] = "failed"
          \/ pc'[w] = "create"
      BY <1>1, <1>2 DEF Check
    <2>2. Call(w) = "idle" /\ Call(w)' \in {"busy", "failed"}
      BY <1>2, <2>1, CallIs, CallBecomes DEF Check
    <2> QED
      BY <1>2, <2>2, CheckStep, CallSimulated DEF Check, SameNames
  <1>3. CASE Create(w) \/ WriteAll(w) \/ SyncFile(w) \/ WriteFails(w)
    <2>1. /\ pc[w] \in {"create", "write", "sync", "rename"}
          /\ pc'[w] \in {"write", "sync", "rename", "cleanup"}
      BY <1>1, <1>3 DEF Create, WriteAll, SyncFile, WriteFails
    <2>2. Call(w) = "busy" /\ Call(w)' = "busy"
      BY <2>1, CallIs, CallBecomes
    <2>3. past \subseteq past'
      BY <1>3 DEF Create, WriteAll, SyncFile, WriteFails, Bind, SameNames
    <2> QED
      BY <1>3, <2>2, <2>3, CreateStep, WriteAllStep, SyncFileStep, WriteFailsStep, CallSimulated
  <1>4. CASE Cleanup(w)
    <2>1. pc[w] = "cleanup" /\ pc'[w] = "done" /\ result'[w] = "failed"
      BY <1>1, <1>4 DEF Cleanup
    <2>2. Call(w) = "busy" /\ Call(w)' = "failed"
      BY <2>1, CallIs, CallBecomes
    <2>3. past \subseteq past'
      BY <1>4 DEF Cleanup, Bind, SameNames
    <2> QED
      BY <1>4, <2>2, <2>3, CleanupStep, CallSimulated
  <1>5. CASE SyncDirFails(w)
    <2>1. pc[w] = "syncdir" /\ pc'[w] = "done" /\ result'[w] = "uncertain"
      BY <1>1, <1>5 DEF SyncDirFails
    <2>2. Call(w) = "replaced" /\ Call(w)' = "uncertain"
      BY <2>1, CallIs, CallBecomes
    <2> QED
      BY <1>5, <2>2, SyncDirFailsStep, CallSimulated DEF SyncDirFails, SameNames
  <1> QED
    BY <1>2, <1>3, <1>4, <1>5, SyncDirSimulated, RenameSimulated DEF Write

\* A step of a remover that does not touch the path shows nothing new.
LEMMA PathKept ==
    ASSUME FileAssumption, FileInv, file' = file, names'["path"] = names["path"],
           past' \in {past, past \cup {names'}, {names'}}
    PROVE  Shown' = Shown /\ Kept' \in {Kept, {Shown}}
  <1>1. \A n : TextIn(file', n) = TextIn(file, n)
    OBVIOUS
  <1>2. Shown' = Shown /\ TextIn(file', names') = Shown
    BY DEF Shown, TextIn
  <1>3. names \in past /\ Shown \in Kept
    BY DEF FileInv, TemporaryNames, Shown, Kept
  <1>4. past' \in {past, past \cup {names'}} => Kept' = Kept
    BY <1>1, <1>2, <1>3 DEF Kept
  <1>5. past' = {names'} => Kept' = {Shown}
    BY <1>2 DEF Kept
  <1> QED
    BY <1>2, <1>4, <1>5

\* What a remover puts back is the document at first or that of a call whose
\* replacement has happened.
LEMMA PutBackIs ==
    ASSUME FileAssumption, FileInv, NEW f, Whole(f)
    PROVE  file[f].text \in {OldText} \cup
              {Text[c] : c \in {d \in Writers : Call(d) \notin {"idle", "busy", "failed"}}}
  <1>1. CASE f = "old"
    BY <1>1 DEF Whole, TextOf
  <1>2. CASE f \in Writers
    <2>1. file[f].text = Text[f] /\ ~BeforeRename(f)
      BY <1>2 DEF Whole, TextOf, FileAssumption, Procs
    <2>2. \/ pc[f] = "syncdir" \/ pc[f] = "dead"
          \/ pc[f] = "done" /\ result[f] \in {"ok", "uncertain"}
      BY <1>2, <2>1 DEF BeforeRename, FileInv, Places, Procs, At
    <2>3. Call(f) \in {"replaced", "dead", "ok", "uncertain"}
      BY <1>2, <2>2, CallIs
    <2> QED
      BY <1>2, <2>1, <2>3
  <1> QED
    BY <1>1, <1>2 DEF Whole, Files

\* A remover takes the document away, puts one back or settles what is shown.
LEMMA RemoveSimulated ==
    ASSUME FileAssumption, FileInv, NEW r \in Removers, Remove(r)
    PROVE  [Atomic!Next]_(Atomic!vars)
  <1>1. RemoverStep(r)
    BY CaptureStep, VerifyStep, UnlinkStep, SyncParentStep, RestoreStep, ForgetStep DEF Remove
  <1>2. file' = file /\ Removers # {}
    BY <1>1 DEF RemoverStep
  <1>3. WriterCalls' = WriterCalls
    <2>1. \A w \in Writers : pc'[w] = pc[w] /\ result'[w] = result[w]
      BY <1>1 DEF RemoverStep, Moved, Procs, FileAssumption
    <2>2. \A w \in Writers : Call(w)' = Call(w)
      BY <2>1 DEF Call
    <2> QED
      BY <2>2 DEF WriterCalls
  <1>4. "path" \in Names /\ r \in Names /\ r # "path" /\ names \in [Names -> Files \cup {NoFile}]
    BY DEF Names, Procs, FileAssumption, FileInv, TemporaryNames
  <1>5. ASSUME Shown' = Shown, Kept' \in {Kept, {Shown}}
        PROVE  [Atomic!Next]_(Atomic!vars)
    <2>1. CASE Kept' = Kept
      BY <1>3, <1>5, <2>1, Mapped DEF Atomic!vars, WriterCalls
    <2>2. CASE Kept' = {Shown}
      <3>1. Atomic!Settle
        BY <1>2, <1>3, <1>5, <2>2, Mapped DEF Atomic!Settle, WriterCalls
      <3> QED
        BY <3>1 DEF Atomic!Next
    <2> QED
      BY <1>5, <2>1, <2>2
  <1>6. ASSUME names'["path"] = names["path"], past' \in {past, past \cup {names'}, {names'}}
        PROVE  [Atomic!Next]_(Atomic!vars)
    BY <1>2, <1>5, <1>6, PathKept
  <1>7. ASSUME names'["path"] = NoFile, past' = past \cup {names'}
        PROVE  [Atomic!Next]_(Atomic!vars)
    <2>1. Shown' = NoText /\ Kept' = Kept \cup {NoText}
      BY <1>2, <1>7 DEF Shown, Kept, TextIn
    <2>2. Atomic!Take
      BY <1>2, <1>3, <2>1, Mapped DEF Atomic!Take, WriterCalls
    <2> QED
      BY <2>2 DEF Atomic!Next
  <1>8. ASSUME names["path"] = NoFile, names'["path"] = names[r], names[r] # NoFile,
               past' = past \cup {names'}
        PROVE  [Atomic!Next]_(Atomic!vars)
    <2>1. Shown = NoText /\ Shown' = file[names[r]].text
      BY <1>2, <1>8 DEF Shown, TextIn
    <2>2. Kept' = Kept \cup {Shown'}
      BY <1>2, <1>8 DEF Shown, Kept, TextIn
    <2>3. Whole(names[r])
      BY <1>8 DEF FileInv, TemporaryNames, Published
    <2>4. Shown' \in {OldText} \cup
            {Text[c] : c \in {d \in Writers : WriterCalls[d] \notin {"idle", "busy", "failed"}}}
      <3>1. \A d \in Writers : WriterCalls[d] = Call(d)
        BY DEF WriterCalls
      <3> QED
        BY <2>1, <2>3, <3>1, PutBackIs
    <2>5. Atomic!PutBack
      BY <1>2, <1>3, <2>1, <2>2, <2>4, Mapped DEF Atomic!PutBack, WriterCalls
    <2> QED
      BY <2>5 DEF Atomic!Next
  <1>9. CASE Capture(r)
    <2>1. \/ names' = names /\ past' = past
          \/ names'["path"] = NoFile /\ past' = past \cup {names'}
      BY <1>4, <1>9 DEF Capture, SameNames
    <2> QED
      BY <1>6, <1>7, <2>1
  <1>10. CASE Verify(r) \/ SyncParent(r)
    <2>1. names' = names /\ past' \in {past, {names'}}
      BY <1>10 DEF Verify, SyncParent, SameNames
    <2> QED
      BY <1>6, <2>1
  <1>11. CASE Unlink(r) \/ Forget(r)
    <2>1. names'["path"] = names["path"] /\ past' \in {past, past \cup {names'}}
      BY <1>4, <1>11 DEF Unlink, Forget, Bind, SameNames
    <2> QED
      BY <1>6, <2>1
  <1>12. CASE Restore(r)
    <2>1. names[r] # NoFile
      BY <1>12 DEF Restore, At, FileInv, Removing
    <2>2. \/ names' = names /\ past' = past
          \/ /\ names["path"] = NoFile /\ names'["path"] = names[r]
             /\ past' = past \cup {names'}
      BY <1>4, <1>12 DEF Restore, Bind, SameNames
    <2> QED
      BY <1>6, <1>8, <2>1, <2>2
  <1> QED
    BY <1>9, <1>10, <1>11, <1>12 DEF Remove

\* Creating, filling, flushing and renaming a temporary file is an atomic
\* replacement, for any number of writers, failures and crashes, and also while
\* removers take the file away and put it back.
THEOREM WritesAreAtomic ==
    ASSUME FileAssumption
    PROVE  FileSpec => WritesAtomically
  <1>1. FileInit => Atomic!Init
    <2> SUFFICES ASSUME FileInit PROVE Atomic!Init
      OBVIOUS
    <2>1. TextAt(names) = OldText /\ {TextAt(n) : n \in past} = {OldText}
      BY DEF FileInit, TextAt, Names, Files, NoFile
    <2>2. \A w \in Writers : Call(w) = "idle"
      BY CallIs DEF FileInit, Procs
    <2> QED
      BY <2>1, <2>2 DEF Atomic!Init
  <1>2. FileInv /\ [FileNext]_fileVars => [Atomic!Next]_(Atomic!vars)
    <2> SUFFICES ASSUME FileInv, [FileNext]_fileVars PROVE [Atomic!Next]_(Atomic!vars)
      OBVIOUS
    <2>1. ASSUME Open \/ Read \/ UNCHANGED fileVars
          PROVE  UNCHANGED Atomic!vars
      <3>1. UNCHANGED <<names, past, pc, result>>
        BY <2>1 DEF Open, Read, fileVars
      <3>2. file' = file
        BY <2>1 DEF Open, Read, fileVars
      <3> QED
        BY <3>1, <3>2 DEF Atomic!vars, TextAt, Call
    <2> QED
      BY <2>1, WriteSimulated, RemoveSimulated, CrashSimulated DEF FileNext
  <1> QED
    BY <1>1, <1>2, FileInvAlways, PTL DEF FileSpec, WritesAtomically, Atomic!Spec

=============================================================================
