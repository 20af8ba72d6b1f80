----------------------------- MODULE MCOperator -----------------------------
(***************************************************************************)
(* The operator's side of the program, in four components that share no    *)
(* state: a private file on disk, the ACL and the credential files, the    *)
(* client's credential directory and the screens.  A behaviour follows one *)
(* of them and leaves the variables of the others at an initial state of   *)
(* theirs.  The properties are the components' own.                        *)
(***************************************************************************)
EXTENDS PrivateFiles, Credentials, CredentialStore, Console, TLC

CONSTANTS w1, w2, r1, c1, c2, h1, h2, o1, o2

VARIABLE part

vars == <<part, fileVars, aclVars, storeVars, screenVars>>

-----------------------------------------------------------------------------
\* Two writers, the first of which writes what the remover is after.
MCText == (w1 :> "mine") @@ (w2 :> "other")

ASSUME Constants ==
    /\ FileAssumption /\ StoreAssumption /\ ConsoleAssumption

Symmetry == Permutations({c1, c2}) \cup Permutations({h1, h2}) \cup Permutations({o1, o2})

-----------------------------------------------------------------------------
Init ==
    /\ part \in {"file", "acl", "store", "screens"}
    /\ FileInit /\ AclInit /\ StoreInit /\ ScreenInit
    /\ part # "screens" => role.mem = "none"

InFile == part = "file" /\ UNCHANGED <<part, aclVars, storeVars, screenVars>>
InAcl == part = "acl" /\ UNCHANGED <<part, fileVars, storeVars, screenVars>>
InStore == part = "store" /\ UNCHANGED <<part, fileVars, aclVars, screenVars>>
InScreens == part = "screens" /\ UNCHANGED <<part, fileVars, aclVars, storeVars>>

Next ==
    \/ InFile /\ FileNext
    \/ InAcl /\ AclNext
    \/ InStore /\ StoreNext
    \/ InScreens /\ ScreenNext

Spec == Init /\ [][Next]_vars
=============================================================================
