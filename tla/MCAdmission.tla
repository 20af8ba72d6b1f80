---------------------------- MODULE MCAdmission ----------------------------
(***************************************************************************)
(* Two instances of Admission, one of which a behaviour follows.  "tight"  *)
(* has fewer permits than connections, probes and a stop.  "room" keeps    *)
(* the order of the constants of server.rs (pending < ip < handshake) and  *)
(* has one address that tries to fill the handshake pool, while nobody     *)
(* stops the server.  The limits of "room" are the larger ones: they are   *)
(* those of the instance the properties speak of.                          *)
(***************************************************************************)
EXTENDS Admission, TLC

CONSTANTS n1, ip1, ip2, c1, c2

VARIABLE scenario

MCTightLimit == [connection |-> 2, ip |-> 1, pending |-> 1, handshake |-> 2,
                 client |-> 1]
MCRoomLimit == [connection |-> 3, ip |-> 2, pending |-> 1, handshake |-> 3,
                client |-> 1]
Tight == INSTANCE Admission WITH Limit <- MCTightLimit

MCInit == scenario \in {"tight", "room"} /\ Init
\* Addresses and clients can be told apart only by who has them: those of n1
\* are ip1 and c1.
TightNext ==
    /\ scenario = "tight" /\ Tight!Next /\ UNCHANGED scenario
    /\ conn'[n1].ip # ip2 /\ conn'[n1].client # c2
RoomNext ==
    /\ scenario = "room" /\ Next /\ UNCHANGED <<scenario, stopping>>
    /\ \A c \in Conns :
          conn'[c].ip # ip2 /\ conn'[c].client # c2 /\ conn'[c].probes = 0
MCSpec == MCInit /\ [][TightNext \/ RoomNext]_<<vars, scenario>> /\ Tight!Fairness
=============================================================================
