-------------------------- MODULE MCSessionPolicy --------------------------
(***************************************************************************)
(* Instances of SessionPolicy: two clients and two hosts; the operator's   *)
(* edits are a revocation, a narrower ACL with a changed target, and       *)
(* another listen port.  A behaviour has two sessions under one edit       *)
(* ("pair"), or one session under several ("edits").                       *)
(***************************************************************************)
EXTENDS SessionPolicy, TLC

CONSTANTS s1, c1, c2, h1, h2, t1, t2

VARIABLE scenario

MCBoot == [targets |-> (h1 :> t1) @@ (h2 :> t1), enrolled |-> {c1, c2},
           acl |-> (c1 :> {h1, h2}) @@ (c2 :> {h2}), listen |-> 1, secrets |-> 1]
MCRevoked == [MCBoot EXCEPT !.enrolled = {c2}]
MCChanged == [MCBoot EXCEPT !.acl[c1] = {h2}, !.targets[h2] = t2]
MCMoved == [MCBoot EXCEPT !.listen = 2, !.secrets = 2]
MCRetargeted == [MCBoot EXCEPT !.targets[h1] = t2]

MCEdits == {MCBoot, MCRevoked, MCChanged, MCMoved}
MCTargetEdits == {MCBoot, MCRetargeted}

MCInit == scenario \in {"pair", "edits"} /\ Init
PairNext == scenario = "pair" /\ Next /\ saves' <= 1 /\ UNCHANGED scenario
EditsNext ==
    /\ scenario = "edits" /\ Next /\ UNCHANGED scenario
    /\ \A s \in Sessions \ {s1} : sess'[s].pc = "closed"
MCSpec == MCInit /\ [][PairNext \/ EditsNext]_<<vars, scenario>> /\ Fairness
=============================================================================
