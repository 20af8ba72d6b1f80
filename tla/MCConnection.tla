---------------------------- MODULE MCConnection ----------------------------
(***************************************************************************)
(* The three layers of a connection, which share no state: the frames of   *)
(* Transport, the client actor against a peer (ClientPeer), and the host   *)
(* list and statuses (ClientCatalog).  A behaviour follows one of them and *)
(* leaves the variables of the others at their initial values.  The two    *)
(* runs differ in the bounds.                                              *)
(***************************************************************************)
EXTENDS Transport, ClientPeer, ClientCatalog, TLC

CONSTANTS h1, h2, o1

VARIABLE layer

vars == <<layer, frameVars, peerVars, catalogVars>>

-----------------------------------------------------------------------------
MCSends == [e \in Ends |-> IF e = "client" THEN 2 ELSE 0]
OneEach == [e \in Ends |-> 1]
TwoDelays == <<1, 2>>

\* A retry comes with ticket 1.  Only the ticket of a second receipt is compared
\* with anything: that of a first one is stored, and one value stands for all.
TwoAsks == {<<1, 0>>, <<2, 1>>}
ThreeLabels == {<<1, 1>>, <<2, 1>>, <<2, 2>>}

\* Two catalogs that list the same entries in another order, and a shorter one.
ThreeCatalogs == << <<"a", "b">>, <<"a", "b">>, <<"a">> >>

ASSUME Constants ==
    /\ TransportAssumption /\ PeerAssumption /\ CatalogAssumption

HostSymmetry == Permutations({h1, h2})

-----------------------------------------------------------------------------
Init ==
    /\ layer \in {"frames", "actor", "catalog"}
    /\ FrameInit /\ PeerInit /\ CatalogInit
    /\ layer # "frames" => garbled = 0

InFrames == layer = "frames" /\ UNCHANGED <<layer, peerVars, catalogVars>>
InPeer == layer = "actor" /\ UNCHANGED <<layer, frameVars, catalogVars>>
InCatalog == layer = "catalog" /\ UNCHANGED <<layer, frameVars, peerVars>>

Next ==
    \/ InFrames /\ FrameNext
    \/ InPeer /\ PeerNext
    \/ InCatalog /\ CatalogNext

Safe == Init /\ [][Next]_vars

\* The fairness of each component's specification.  At most one disjunct is ever
\* enabled in a behaviour, so fairness of the disjunction is that of each.
Time == (InFrames /\ TimePasses) \/ (InPeer /\ Tick) \/ (InCatalog /\ Client)
Runs == (InFrames /\ PollPayload("server")) \/ (InPeer /\ Actor /\ ActorRuns)
           \/ (InCatalog /\ Session)
Stops == InFrames /\ PollEnds("server")
Fairness ==
    /\ WF_vars(Time) /\ WF_vars(Runs) /\ WF_vars(Stops)
    /\ \A e \in Ends : WF_vars(InFrames /\ WriteFails(e))
    /\ WF_vars(InFrames /\ HelloFails("server"))
    /\ WF_vars(InFrames /\ conn["server"].closed /\ DropConnection("server"))

Spec == Safe /\ Fairness
=============================================================================
