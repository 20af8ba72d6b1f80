-------------------------- MODULE CredentialStore --------------------------
(***************************************************************************)
(* The client's directory of credential files on Unix (client.rs):         *)
(* finding and loading the one credential, and scanning for and repairing  *)
(* files that the private-file policy refuses, while somebody copies files *)
(* in and out.                                                             *)
(*                                                                         *)
(* A file is its document, who owns it, its mode, whether its group is the *)
(* user's, and whether it is linked twice or else too large; the policy of *)
(* config.rs is kept in full.  Neither finding nor repairing is atomic: a  *)
(* directory is walked name by name, and a repair reads the document, then *)
(* looks at the access of the file it will replace, then renames over it.  *)
(***************************************************************************)
EXTENDS Naturals, FiniteSets

CONSTANTS
    Me,         \* the effective user: "user" or "root"
    Others,     \* names of credential files besides the primary one
    Docs,       \* valid bundles, each of its own identity
    Junk,       \* a document that does not parse or validate
    MaxCopies   \* bound on files copied in or removed

StoreAssumption == Me \in {"user", "root"} /\ "none" \notin Others

CredentialNames == {"primary"} \cup Others
Absent == [doc |-> "none"]
Owners == {"user", "root"}
Modes == {"600", "640", "644"}
CredentialFiles ==
    [doc : Docs \cup {Junk}, owner : Owners, mode : Modes, mine : BOOLEAN,
     oddity : {"none", "big", "linked"}]

VARIABLES
    dir,        \* name -> file
    load,       \* load_portable_bundle at work: [pc "walk", left, cand], [pc "read", name]
    inUse,      \* the document the client runs with
    found,      \* scan_repairable_credentials: the candidates
    fix,        \* repair_credential_bundle at work: [pc "stat", name, doc], and
                \* [pc "rename", name, doc, access] with the access it will give
    put,        \* history: name -> the documents copied there
    steady,     \* history: names that have been present since the discovery began
    passing,    \* history: the other names that were present since then
    touched,    \* history: names copied to or emptied since the repair's read
    copies

storeVars == <<dir, load, inUse, found, fix, put, steady, passing, touched, copies>>

Present == {n \in CredentialNames : dir[n] # Absent}
AtRest == [pc |-> "idle"]

StoreInit ==
    /\ dir = [n \in CredentialNames |-> Absent]
    /\ load = AtRest /\ inUse = "none" /\ found = {} /\ fix = AtRest
    /\ put = [n \in CredentialNames |-> {}]
    /\ steady = {} /\ passing = {} /\ touched = {}
    /\ copies = 0

\* Somebody copies a file in, or takes it away.
Copy ==
    /\ copies < MaxCopies /\ copies' = copies + 1
    /\ \E n \in CredentialNames, f \in CredentialFiles \cup {Absent} :
          /\ f # dir[n] /\ dir' = [dir EXCEPT ![n] = f]
          /\ put' = [put EXCEPT ![n] = @ \cup {f.doc}]
          /\ steady' = IF f = Absent THEN steady \ {n} ELSE steady
          /\ passing' = IF load = AtRest THEN {} ELSE (passing \cup {n}) \ steady'
          /\ touched' = IF fix = AtRest THEN {} ELSE touched \cup {n}
    /\ UNCHANGED <<load, inUse, found, fix>>

-----------------------------------------------------------------------------
(* config.rs *)

\* open_private_file: owner-private, root's own, or root's for the service group.
Private(f) ==
    /\ f.oddity = "none"
    /\ \/ f.owner = Me /\ f.mode = "600"
       \/ Me = "root" /\ f.owner = "root" /\ f.mode \in {"600", "640"}
       \/ f.owner = "root" /\ f.mine /\ f.mode = "640"

\* What the system lets this user read at all.
Readable(f) ==
    Me = "root" \/ f.owner = Me \/ f.mode = "644" \/ (f.mode = "640" /\ f.mine)

\* unix_replacement_metadata
Replaceable(f) == f.oddity # "linked" /\ f.mode # "644" /\ (f.owner = Me \/ Me = "root")

Access(f) == [owner |-> f.owner, mode |-> f.mode, mine |-> f.mine]
NewAccess == [owner |-> Me, mode |-> "600", mine |-> TRUE]

\* Mutant: a replacement is readable by the group.
Replacement_Group(a, d) ==
    [doc |-> d, owner |-> a.owner, mode |-> "640", mine |-> (Me = "root" => a.mine),
     oddity |-> "none"]

\* write_private_toml: the new file has the owner and mode that were found, and
\* the group too when root can give it.
Replacement(a, d) ==
    [doc |-> d, owner |-> a.owner, mode |-> a.mode, mine |-> (Me = "root" => a.mine),
     oddity |-> "none"]

-----------------------------------------------------------------------------
(* Loading *)

Walking(left, cand) == [pc |-> "walk", left |-> left, cand |-> cand]

\* discover_credential_path: the primary name if there is such a file.
Discover ==
    /\ load = AtRest
    /\ load' = IF "primary" \in Present THEN [pc |-> "read", name |-> "primary"]
               ELSE Walking(Others, "none")
    /\ steady' = Present /\ passing' = {}
    /\ UNCHANGED <<dir, inUse, found, fix, put, touched, copies>>

\* The history of a discovery ends with it.
Watched ==
    /\ steady' = IF load' = AtRest THEN {} ELSE steady
    /\ passing' = IF load' = AtRest THEN {} ELSE passing

\* Mutant: the last of several is taken.
Ambiguous_Never(cand) == FALSE
Ambiguous(cand) == cand # "none"

\* The next entry of the directory: a second candidate ends the walk.  A name
\* that comes or goes during the walk is listed or not.
Visit ==
    /\ load.pc = "walk"
    /\ \E n \in load.left :
          \/ /\ n \notin steady
             /\ load' = Walking(load.left \ {n}, load.cand)
          \/ /\ n \in steady \cup passing
             /\ load' = IF Ambiguous(load.cand) THEN AtRest
                        ELSE Walking(load.left \ {n}, n)
    /\ Watched
    /\ UNCHANGED <<dir, inUse, found, fix, put, touched, copies>>

\* The only other one, or none at all.
WalkEnds ==
    /\ load.pc = "walk" /\ load.left = {}
    /\ load' = IF load.cand = "none" THEN AtRest ELSE [pc |-> "read", name |-> load.cand]
    /\ Watched
    /\ UNCHANGED <<dir, inUse, found, fix, put, touched, copies>>

\* load_credential_bundle: the policy, then the document.
Loadable(f) == f # Absent /\ Private(f) /\ f.doc \in Docs

\* load_credential_bundle and apply_credential_bundle on the chosen path.
Load ==
    /\ load.pc = "read"
    /\ LET f == dir[load.name] IN
       inUse' = IF Loadable(f) /\ Readable(f) THEN f.doc ELSE inUse
    /\ load' = AtRest
    /\ Watched
    /\ UNCHANGED <<dir, found, fix, put, touched, copies>>

-----------------------------------------------------------------------------
(* Repair *)

\* scan_repairable_credentials: valid bundles that cannot be loaded.
Scan ==
    /\ fix = AtRest
    /\ found' = {n \in Present : LET f == dir[n] IN
                   Readable(f) /\ f.doc \in Docs /\ ~Private(f)}
    /\ UNCHANGED <<dir, load, inUse, fix, put, steady, passing, touched, copies>>

\* repair_credential_bundle reads once more ...
RepairRead ==
    /\ fix = AtRest
    /\ \E n \in found :
          /\ found' = found \ {n}
          /\ fix' = IF dir[n] # Absent /\ Readable(dir[n]) /\ dir[n].doc \in Docs
                    THEN [pc |-> "stat", name |-> n, doc |-> dir[n].doc] ELSE AtRest
    /\ touched' = {}
    /\ UNCHANGED <<dir, load, inUse, put, steady, passing, copies>>

RepairTarget(n) == n

\* ... unix_replacement_metadata looks at what is there by then ...
RepairStat ==
    /\ fix.pc = "stat"
    /\ LET f == dir[RepairTarget(fix.name)] IN
       fix' = IF f # Absent /\ ~Replaceable(f) THEN AtRest
              ELSE [pc |-> "rename", name |-> fix.name, doc |-> fix.doc,
                    access |-> IF f = Absent THEN NewAccess ELSE Access(f)]
    /\ UNCHANGED <<dir, load, inUse, found, put, steady, passing, touched, copies>>

\* ... and the rename replaces what is there by then, unless a step fails.
RepairRename ==
    /\ fix.pc = "rename"
    /\ \E written \in BOOLEAN :
          dir' = IF written
                 THEN [dir EXCEPT ![RepairTarget(fix.name)] = Replacement(fix.access, fix.doc)]
                 ELSE dir
    /\ fix' = AtRest /\ touched' = {}
    /\ passing' = IF load = AtRest THEN {} ELSE passing \cup (Present' \ steady)
    /\ UNCHANGED <<load, inUse, found, put, steady, copies>>

StoreNext ==
    \/ Copy
    \/ Discover \/ Visit \/ WalkEnds \/ Load
    \/ Scan \/ RepairRead \/ RepairStat \/ RepairRename

StoreSpec == StoreInit /\ [][StoreNext]_storeVars

-----------------------------------------------------------------------------
(* Properties *)

\* A name other than the primary one is chosen only when no other credential was
\* there all the time the directory was walked, however files come and go
\* (README.md "客户端目录中只能保留一份凭据文件").
OnlyCertainPaths == load.pc = "read" => load.name = "primary" \/ steady \subseteq {load.name}

\* A file at a name only ever holds what somebody copied to that name: repairing
\* moves no identity to another name, also when the file changed meanwhile.
RepairInPlace == \A n \in Present : dir[n].doc \in put[n]

\* The step of a repair that may rename.
RepairEnds == fix.pc = "rename" /\ fix' = AtRest

\* A repair leaves every other name alone.  At its own name it changes no document
\* and makes no credential unloadable, but for a file that somebody put there after
\* the repair had read the old one: the code does not look again, and its older
\* text replaces that file.
RepairKeeps ==
    RepairEnds =>
        \A n \in Present \ (touched \cap {fix.name}) :
            /\ dir'[n].doc = dir[n].doc
            /\ Loadable(dir[n]) => Loadable(dir'[n])

RepairHarmless ==
    /\ [](OnlyCertainPaths /\ RepairInPlace)
    /\ [][RepairKeeps]_storeVars

-----------------------------------------------------------------------------
(* The inductive strengthening *)

\* Where a discovery and a repair can be.
Loading ==
    {AtRest} \cup [pc : {"walk"}, left : SUBSET Others, cand : Others \cup {"none"}]
             \cup [pc : {"read"}, name : CredentialNames]
Repairing ==
    {AtRest} \cup [pc : {"stat"}, name : CredentialNames, doc : Docs]
             \cup [pc : {"rename"}, name : CredentialNames, doc : Docs,
                   access : [owner : Owners, mode : Modes, mine : BOOLEAN]]

\* A walk that goes on has seen every steady name it no longer has to visit.
WalkKnown ==
    load.pc = "walk" => steady \subseteq load.left \cup ({load.cand} \ {"none"})

\* What a repair is about to write was copied to the name it writes to.  A name
\* not touched since still holds the document that was read, and still has the
\* access that was looked at.
RepairKnown ==
    fix # AtRest =>
        /\ fix.doc \in put[fix.name]
        /\ fix.name \in touched \/ (dir[fix.name] # Absent /\ dir[fix.name].doc = fix.doc)
AccessKnown ==
    fix.pc = "rename" => fix.name \in touched \/ fix.access = Access(dir[fix.name])

StoreInv ==
    /\ dir \in [CredentialNames -> CredentialFiles \cup {Absent}]
    /\ put \in [CredentialNames -> SUBSET (Docs \cup {Junk, "none"})]
    /\ load \in Loading /\ fix \in Repairing
    /\ found \subseteq CredentialNames /\ steady \subseteq CredentialNames
    /\ RepairInPlace /\ WalkKnown /\ RepairKnown /\ AccessKnown /\ OnlyCertainPaths

=============================================================================
