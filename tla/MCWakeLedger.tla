---------------------------- MODULE MCWakeLedger ----------------------------
(* Instances of WakeLedger for TLC.                                        *)
EXTENDS WakeLedgerRefinement, TLC

CONSTANTS s1, s2, c1, c2, h1, h2, o1, o2

\* Both sessions belong to one client, or each to a client of its own.
SameClient == [s \in Sessions |-> c1]
TwoClients == [s \in Sessions |-> IF s = s1 THEN c1 ELSE c2]

Symmetry == Permutations(Sessions) \cup Permutations(Hosts)

=============================================================================
