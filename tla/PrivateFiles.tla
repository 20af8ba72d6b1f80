---------------------------- MODULE PrivateFiles ----------------------------
(***************************************************************************)
(* Private files of the Unix build: write_private_toml and                 *)
(* read_private_text (config.rs) and remove_verified (private_file.rs) on  *)
(* one path, by several processes that may fail or crash at every step.    *)
(*                                                                         *)
(* Names and files are separate: a name is bound to a file, a file has a   *)
(* document and is gone when no name is bound to it.  A crash leaves the   *)
(* names of some moment since the directory was last synchronised and      *)
(* tears the files that were not (a file system with ordered metadata).    *)
(***************************************************************************)
EXTENDS Naturals, FiniteSets

CONSTANTS
    Writers, Removers,  \* calls of write_private_toml and remove_verified
    Text,               \* writer -> the document it writes
    Expected,           \* the document that remove_verified accepts
    OldText,            \* the document at the path at first
    NoText,             \* no document: an absent or an empty file
    MaxCrashes          \* bound on crashes

Procs == Writers \cup Removers
Names == {"path"} \cup Procs    \* a writer's temporary name, a remover's
                                \* quarantine: named after the process
Files == {"old"} \cup Writers   \* a file is named after who created it
Texts == {OldText} \cup {Text[w] : w \in Writers}
NoFile == "none"

\* Finitely many calls, whose names are none of the others.
FileAssumption ==
    /\ IsFiniteSet(Writers) /\ IsFiniteSet(Removers)
    /\ Writers \cap Removers = {}
    /\ "path" \notin Procs /\ "old" \notin Procs /\ NoFile \notin Procs

VARIABLES
    names,      \* name -> file or NoFile
    past,       \* the bindings of names since the last directory sync
    file,       \* file -> [text, synced]
    pc,         \* process -> where its call is
    result,     \* process -> how its call ended
    reader,     \* [file, got]: an open handle and what was read from it
    visible,    \* history: files that were at the path and not replaced there
    dropped,    \* history: files whose last name a remover took away
    crashes

fileVars == <<names, past, file, pc, result, reader, visible, dropped, crashes>>

FileInit ==
    /\ names = [n \in Names |-> IF n = "path" THEN "old" ELSE NoFile]
    /\ past = {names}
    /\ file = [f \in Files |-> IF f = "old" THEN [text |-> OldText, synced |-> TRUE]
                               ELSE [text |-> NoText, synced |-> FALSE]]
    /\ pc = [p \in Procs |-> IF p \in Writers THEN "check" ELSE "capture"]
    /\ result = [p \in Procs |-> "none"]
    /\ reader = [file |-> NoFile, got |-> NoText]
    /\ visible = {"old"} /\ dropped = {} /\ crashes = 0

Links(f) == Cardinality({n \in Names : names[n] = f})
At(p, c) == pc[p] = c
Goto(p, c) == pc' = [pc EXCEPT ![p] = c]
End(p, r) ==
    /\ pc' = [pc EXCEPT ![p] = "done"]
    /\ result' = [result EXCEPT ![p] = r]
Bind(n, f) ==
    /\ names' = [names EXCEPT ![n] = f]
    /\ past' = past \cup {names'}
SameNames == UNCHANGED <<names, past>>
Same == UNCHANGED <<reader, visible, dropped, crashes>>

-----------------------------------------------------------------------------
(* write_private_toml *)

\* unix_replacement_metadata: an entry with another link is not replaced.
Check(w) ==
    /\ At(w, "check")
    /\ IF names["path"] # NoFile /\ Links(names["path"]) # 1
       THEN End(w, "failed") ELSE Goto(w, "create") /\ UNCHANGED result
    /\ UNCHANGED file /\ SameNames /\ Same

Create(w) ==
    /\ At(w, "create")
    /\ Bind(w, w)
    /\ Goto(w, "write")
    /\ UNCHANGED <<file, result>> /\ Same

WriteAll(w) ==
    /\ At(w, "write")
    /\ file' = [file EXCEPT ![w].text = Text[w]]
    /\ Goto(w, "sync")
    /\ UNCHANGED result /\ SameNames /\ Same

\* Owner and mode are set on the handle, then the file is flushed.
SyncFile(w) ==
    /\ At(w, "sync")
    /\ file' = [file EXCEPT ![w].synced = TRUE]
    /\ Goto(w, "rename")
    /\ UNCHANGED result /\ SameNames /\ Same

Rename(w) ==
    /\ At(w, "rename")
    /\ names' = [names EXCEPT !["path"] = w, ![w] = NoFile]
    /\ past' = past \cup {names'}
    /\ visible' = (visible \ {names["path"]}) \cup {w}
    /\ Goto(w, "syncdir")
    /\ UNCHANGED <<file, result, reader, dropped, crashes>>

SyncDir(w) ==
    /\ At(w, "syncdir")
    /\ past' = {names}
    /\ End(w, "ok")
    /\ UNCHANGED <<names, file>> /\ Same

\* Any step up to the rename may fail, and then the temporary file is removed.
WriteFails(w) ==
    /\ pc[w] \in {"create", "write", "sync", "rename"}
    /\ Goto(w, "cleanup")
    /\ UNCHANGED <<file, result>> /\ SameNames /\ Same

\* The removal may fail too; the error is then a Cleanup around the first one.
Cleanup(w) ==
    /\ At(w, "cleanup")
    /\ \/ Bind(w, NoFile)
       \/ SameNames
    /\ End(w, "failed")
    /\ UNCHANGED file /\ Same

\* Mutant: a directory that cannot be synchronised is a failed write.
SyncDirFails_AsWrite(w) ==
    /\ At(w, "syncdir")
    /\ End(w, "failed")
    /\ UNCHANGED file /\ SameNames /\ Same

\* The Durability error: the replacement is visible (replacement_committed).
SyncDirFails(w) ==
    /\ At(w, "syncdir")
    /\ End(w, "uncertain")
    /\ UNCHANGED file /\ SameNames /\ Same

Write(w) ==
    \/ Check(w) \/ Create(w) \/ WriteAll(w) \/ SyncFile(w) \/ Rename(w)
    \/ SyncDir(w) \/ WriteFails(w) \/ Cleanup(w) \/ SyncDirFails(w)

-----------------------------------------------------------------------------
(* remove_verified *)

\* The entry is moved into a fresh private directory before it is looked at.
Capture(r) ==
    /\ At(r, "capture")
    /\ \/ /\ names["path"] = NoFile
          /\ End(r, "absent") /\ SameNames
       \/ End(r, "failed") /\ SameNames
       \/ /\ names["path"] # NoFile
          /\ names' = [names EXCEPT !["path"] = NoFile, ![r] = names["path"]]
          /\ past' = past \cup {names'}
          /\ Goto(r, "verify") /\ UNCHANGED result
    /\ UNCHANGED file /\ Same

\* open_private_file refuses a second link; the document must be the expected.
Accepts(f) == Links(f) = 1 /\ file[f].text = Expected

Verify(r) ==
    /\ At(r, "verify")
    /\ \/ Accepts(names[r]) /\ Goto(r, "unlink")
       \/ Goto(r, "restore")
    /\ UNCHANGED <<file, result>> /\ SameNames /\ Same

Unlink(r) ==
    /\ At(r, "unlink")
    /\ \/ /\ Bind(r, NoFile)
          /\ dropped' = dropped \cup {names[r]}
          /\ Goto(r, "syncparent")
       \/ Goto(r, "restore") /\ SameNames /\ UNCHANGED dropped
    /\ UNCHANGED <<file, result, reader, visible, crashes>>

SyncParent(r) ==
    /\ At(r, "syncparent")
    /\ \/ past' = {names} /\ End(r, "removed")
       \/ UNCHANGED past /\ End(r, "failed")
    /\ UNCHANGED <<names, file>> /\ Same

\* Mutant: the entry is moved back over whatever is at the path by now.
Restore_Renames(r) ==
    /\ At(r, "restore")
    /\ names' = [names EXCEPT !["path"] = names[r], ![r] = NoFile]
    /\ past' = past \cup {names'}
    /\ End(r, "rejected")
    /\ UNCHANGED file /\ Same

\* Mutant: an entry that cannot be put back is given up.
Restore_GivesUp(r) ==
    /\ At(r, "restore")
    /\ \/ /\ names["path"] = NoFile
          /\ Bind("path", names[r])
          /\ Goto(r, "forget") /\ UNCHANGED result
       \/ End(r, "retained") /\ Bind(r, NoFile)
    /\ UNCHANGED file /\ Same

\* A hard link never replaces an entry that appeared meanwhile: the original is
\* then left where it is, and the error names the place.
Restore(r) ==
    /\ At(r, "restore")
    /\ \/ /\ names["path"] = NoFile
          /\ Bind("path", names[r])
          /\ Goto(r, "forget") /\ UNCHANGED result
       \/ End(r, "retained") /\ SameNames
    /\ UNCHANGED file /\ Same

Forget(r) ==
    /\ At(r, "forget")
    /\ \/ Bind(r, NoFile)
       \/ SameNames
    /\ End(r, "rejected")
    /\ UNCHANGED file /\ Same

Remove(r) ==
    Capture(r) \/ Verify(r) \/ Unlink(r) \/ SyncParent(r) \/ Restore(r) \/ Forget(r)

-----------------------------------------------------------------------------
(* read_private_text, and the machine *)

\* All checks are made on the open handle; a torn file still opens.
Open ==
    /\ reader.file = NoFile /\ reader.got = NoText
    /\ names["path"] # NoFile /\ Links(names["path"]) = 1
    /\ reader' = [reader EXCEPT !.file = names["path"]]
    /\ UNCHANGED <<names, past, file, pc, result, visible, dropped, crashes>>

Read ==
    /\ reader.file # NoFile
    /\ reader' = [file |-> NoFile, got |-> file[reader.file].text]
    /\ UNCHANGED <<names, past, file, pc, result, visible, dropped, crashes>>

\* Every process ends where it stands.
Crash ==
    /\ crashes < MaxCrashes
    /\ names' \in past /\ past' = {names'}
    /\ file' = [f \in Files |-> IF file[f].synced THEN file[f]
                                ELSE [text |-> NoText, synced |-> TRUE]]
    /\ pc' = [p \in Procs |-> IF At(p, "done") THEN "done" ELSE "dead"]
    /\ reader' = [file |-> NoFile, got |-> NoText]
    /\ visible' = {names'[n] : n \in {"path"} \cup Removers} \ {NoFile}
    /\ crashes' = crashes + 1
    /\ UNCHANGED <<result, dropped>>

FileNext ==
    \/ \E w \in Writers : Write(w)
    \/ \E r \in Removers : Remove(r)
    \/ Open \/ Read \/ Crash

FileSpec == FileInit /\ [][FileNext]_fileVars

-----------------------------------------------------------------------------
(* Properties *)

\* Names refer to files, a temporary name to its writer's file and to nothing
\* after the rename; a call has ended exactly when it has an answer.
FileTypeOK ==
    /\ names \in [Names -> Files \cup {NoFile}]
    /\ \A w \in Writers : names[w] \in {w, NoFile}
    /\ \A w \in Writers : At(w, "syncdir") \/ result[w] = "ok" => names[w] = NoFile
    /\ \A p \in Procs : At(p, "done") <=> result[p] # "none"

\* A reader, concurrent or after a crash, finds a whole document.
NeverTorn ==
    /\ names["path"] # NoFile => file[names["path"]].text \in Texts
    /\ reader.file # NoFile => file[reader.file].text \in Texts

\* remove_verified never takes away a file other than the one it was asked to,
\* however the path is replaced while it works.
OnlyExpectedRemoved == \A f \in dropped : file[f].text = Expected

\* The file at the path is only ever replaced by a writer's rename or captured
\* by a remover: putting back a rejected file never overwrites another.
OverwrittenOnPurpose ==
    names["path"] # NoFile /\ names'["path"] # names["path"] /\ crashes' = crashes
        => \/ \E w \in Writers : At(w, "rename") /\ pc'[w] = "syncdir"
           \/ \E r \in Removers : names'[r] = names["path"]

\* A file that a remover has not accepted keeps a name through every failure
\* and crash, until a writer replaces it.
RejectedKept == \A f \in visible \ dropped : \E n \in Names : names[n] = f

DocumentsKept == FileTypeOK /\ NeverTorn /\ OnlyExpectedRemoved /\ RejectedKept
NothingOverwritten == [][OverwrittenOnPurpose]_fileVars

-----------------------------------------------------------------------------
(* The inductive strengthening: what is true of every moment a crash may    *)
(* bring back, and where each call is.                                      *)

\* A call that has not renamed its file, or never will.
BeforeRename(w) ==
    \/ pc[w] \in {"check", "create", "write", "sync", "rename", "cleanup"}
    \/ result[w] = "failed"

TextOf(f) == IF f = "old" THEN OldText ELSE Text[f]

\* A complete file that nobody writes to any more.
Whole(f) ==
    /\ f \in Files /\ file[f].text = TextOf(f) /\ file[f].synced
    /\ f \in Writers => ~BeforeRename(f)

\* Whatever a reader can reach, a remover holds or a history names is whole, at
\* every moment since the last directory sync.
Published ==
    /\ \A n \in past : \A x \in {"path"} \cup Removers : n[x] # NoFile => Whole(n[x])
    /\ reader.file # NoFile => Whole(reader.file)
    /\ \A f \in visible \cup dropped : Whole(f)

\* A temporary name is its writer's, and is gone for good once the call has
\* succeeded.
TemporaryNames ==
    /\ names \in past
    /\ \A n \in past : /\ n \in [Names -> Files \cup {NoFile}]
                       /\ \A w \in Writers : n[w] \in {w, NoFile}
    /\ \A w \in Writers : At(w, "syncdir") => names[w] = NoFile
    /\ \A w \in Writers : \A n \in past : result[w] = "ok" => n[w] = NoFile

Places ==
    /\ file \in [Files -> [text : Texts \cup {NoText}, synced : BOOLEAN]]
    /\ pc = [p \in Procs |-> pc[p]] /\ result = [p \in Procs |-> result[p]]
    /\ crashes \in Nat
    /\ \A p \in Procs : At(p, "done") <=> result[p] # "none"
    /\ \A w \in Writers :
        /\ pc[w] \in {"check", "create", "write", "sync", "rename", "cleanup",
                      "syncdir", "done", "dead"}
        /\ result[w] \in {"none", "ok", "failed", "uncertain"}
        /\ pc[w] \in {"sync", "rename"} => file[w].text = Text[w]
        /\ pc[w] = "rename" => file[w].synced

\* A remover that accepted a file holds its only name.
Removing ==
    \A r \in Removers :
        /\ pc[r] = "capture" => names[r] = NoFile
        /\ pc[r] \in {"verify", "unlink", "restore", "forget"} => names[r] # NoFile
        /\ pc[r] = "unlink" =>
              /\ file[names[r]].text = Expected
              /\ \A n \in Names \ {r} : names[n] # names[r]

\* A file that must keep a name keeps one that no pending removal takes away.
Anchored ==
    \A f \in visible \ dropped :
        \/ names["path"] = f
        \/ \E r \in Removers : names[r] = f /\ pc[r] # "forget"

DroppedExpected == \A f \in dropped : file[f].text = Expected

FileInv ==
    /\ TemporaryNames /\ Places /\ Published /\ Removing /\ Anchored /\ DroppedExpected

-----------------------------------------------------------------------------
(* What a caller of write_private_toml may rely on *)

TextAt(n) == IF n["path"] = NoFile THEN NoText ELSE file[n["path"]].text

Call(w) ==
    CASE pc[w] = "done" -> result[w]
      [] pc[w] = "dead" -> "dead"
      [] pc[w] = "check" -> "idle"
      [] pc[w] = "syncdir" -> "replaced"
      [] OTHER -> "busy"

Atomic == INSTANCE AtomicFile WITH
    Calls <- Writers, Doc <- Text, OldDoc <- OldText, NoDoc <- NoText,
    Removable <- Removers # {},
    shown <- TextAt(names),
    kept <- {TextAt(n) : n \in past},
    call <- [w \in Writers |-> Call(w)]

\* Creating, filling, flushing and renaming a temporary file, with failures,
\* clean-up, crashes and other writers, is an atomic replacement whose answer
\* tells whether it happened: replacement_committed can be relied on.
WritesAtomically == Atomic!Spec

=============================================================================
