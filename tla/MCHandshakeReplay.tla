------------------------- MODULE MCHandshakeReplay -------------------------
(***************************************************************************)
(* Two scenarios of HandshakeReplay, one of which a behaviour follows: two *)
(* hellos of one client and much time ("late"), and three hellos of two    *)
(* clients, which fill the cache ("full").  ReplayTTL is the least value   *)
(* the proof allows for the skew and the hold limit, so that the boundary  *)
(* is met.                                                                 *)
(***************************************************************************)
EXTENDS HandshakeReplay, TLC

CONSTANTS c1, c2, m1, m2, m3

VARIABLE scenario

MCOwners == [h \in {m1, m2, m3} |-> IF h = m1 THEN c2 ELSE c1]
MCSymmetry == Permutations(Threads)

MCInit == scenario \in {"late", "full"} /\ Init
LateNext == scenario = "late" /\ Next /\ m1 \notin sent' /\ UNCHANGED scenario
FullNext == scenario = "full" /\ Next /\ clock' <= 2 /\ UNCHANGED scenario
MCSpec == MCInit /\ [][LateNext \/ FullNext]_<<vars, scenario>>
=============================================================================
