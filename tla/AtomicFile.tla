----------------------------- MODULE AtomicFile -----------------------------
(***************************************************************************)
(* What write_private_toml promises of one private file: the document is   *)
(* replaced at one instant, the answer says on which side of it the call   *)
(* ended, and a crash leaves one of the documents the answers allow.       *)
(* Others may take the document away and put back one that was there.      *)
(***************************************************************************)
CONSTANTS Calls, Doc, OldDoc, NoDoc,
    Removable   \* others may take the document away

VARIABLES
    shown,      \* the document a reader finds
    kept,       \* the documents a crash may leave
    call        \* call -> "idle", "busy", "replaced", "dead" or its answer

vars == <<shown, kept, call>>

Init == shown = OldDoc /\ kept = {OldDoc} /\ call = [c \in Calls |-> "idle"]

Begin(c) ==
    /\ call[c] = "idle"
    /\ call' = [call EXCEPT ![c] = "busy"]
    /\ UNCHANGED <<shown, kept>>

\* Before the instant of the replacement the old document stands, in memory
\* and on disk, and nothing of the new one is seen.
Fail(c) ==
    /\ call[c] \in {"idle", "busy"}
    /\ call' = [call EXCEPT ![c] = "failed"]
    /\ UNCHANGED <<shown, kept>>

Replace(c) ==
    /\ call[c] = "busy"
    /\ shown' = Doc[c] /\ kept' = kept \cup {Doc[c]}
    /\ call' = [call EXCEPT ![c] = "replaced"]

\* After it the new one does; until the confirmation a crash may still bring
\* back an older one.
Confirm(c) ==
    /\ call[c] = "replaced"
    /\ \E a \in {"ok", "uncertain"} :
          /\ call' = [call EXCEPT ![c] = a]
          /\ kept' = IF a = "ok" THEN {shown} ELSE kept
    /\ UNCHANGED shown

Crash ==
    /\ shown' \in kept /\ kept' = {shown'}
    /\ call' = [c \in Calls |-> IF call[c] \in {"idle", "busy", "replaced"}
                                THEN "dead" ELSE call[c]]

\* Others: what they put back is never the document of a call that has failed
\* or has not come to the replacement.
Take ==
    /\ Removable
    /\ shown' = NoDoc /\ kept' = kept \cup {NoDoc}
    /\ UNCHANGED call

PutBack ==
    /\ Removable /\ shown = NoDoc
    /\ shown' \in {OldDoc} \cup
            {Doc[c] : c \in {d \in Calls : call[d] \notin {"idle", "busy", "failed"}}}
    /\ kept' = kept \cup {shown'}
    /\ UNCHANGED call

Settle == Removable /\ kept' = {shown} /\ UNCHANGED <<shown, call>>

Next ==
    \/ \E c \in Calls : Begin(c) \/ Fail(c) \/ Replace(c) \/ Confirm(c)
    \/ Crash \/ Take \/ PutBack \/ Settle
Spec == Init /\ [][Next]_vars

=============================================================================
