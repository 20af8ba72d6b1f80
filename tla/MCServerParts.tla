--------------------------- MODULE MCServerParts ---------------------------
(***************************************************************************)
(* Four components of a server process that share no state: the rate       *)
(* limiter, the choice of the route of a packet, a probe and the logger    *)
(* (two workers whose lines are followed, and one for the shutdown).  A    *)
(* behaviour follows one of them and leaves the variables of the others at *)
(* an initial state of theirs.                                             *)
(***************************************************************************)
EXTENDS RateLimiter, WakeRoute, Probe, Logging, TLC

CONSTANTS i1, i2, c1, c2, w1, w2

VARIABLE part

vars == <<part, rateVars, routeVars, probeVars, logVars>>

-----------------------------------------------------------------------------
\* Two clients behind one address, and one of them at a second address.
MCSessions == {<<i1, c1>>, <<i1, c2>>, <<i2, c1>>}

\* A behaviour follows two of the sessions, which share an address or a client;
\* the third sends requests at the very beginning only.
Guest == [address |-> <<i2, c1>>, client |-> <<i1, c2>>]

\* Four-bit addresses: three subnets that overlap, two of them on two
\* interfaces, and entries the loop has to skip: down, without broadcast,
\* a mask with a hole, an empty mask, a reserved address, index 0.
Mask(n) == 16 - 2 ^ (4 - n)
Entry(index, address, mask) ==
    [index |-> index, address |-> address, netmask |-> mask, up |-> TRUE, broadcast |-> TRUE]
MCEntries ==
    {Entry(1, 5, Mask(2)), Entry(1, 6, Mask(2)), Entry(2, 5, Mask(2)),
     Entry(3, 3, Mask(1)), Entry(1, 6, Mask(3)), Entry(3, 2, Mask(4)),
     Entry(4, 14, Mask(2)), Entry(2, 6, 10), Entry(3, 6, 0),
     Entry(2, 12, Mask(2)), Entry(0, 6, Mask(2)),
     [Entry(3, 4, Mask(3)) EXCEPT !.up = FALSE],
     [Entry(3, 7, Mask(2)) EXCEPT !.broadcast = FALSE]}

ASSUME Constants ==
    /\ RateAssumption /\ ProbeAssumption
    /\ RouteAssumption /\ PowersAreNumbers
    /\ LoggingAssumption

-----------------------------------------------------------------------------
Init ==
    /\ part \in {"address", "client", "route", "probe", "lines", "closing"}
    /\ RateInit /\ RouteInit /\ ProbeInit /\ LogInit
    /\ part # "route" => system = {} /\ target = 2
    /\ part # "probe" => budget = MinTimeout /\ ports = 1
    /\ part \notin {"lines", "closing"} => th["main"].pc = "done"

InRate ==
    /\ part \in {"address", "client"}
    /\ now > 0 /\ call[Guest[part]] = Idle => call'[Guest[part]] = Idle
    /\ UNCHANGED <<part, routeVars, probeVars, logVars>>
InRoute == part = "route" /\ UNCHANGED <<part, rateVars, probeVars, logVars>>
InProbe == part = "probe" /\ UNCHANGED <<part, rateVars, routeVars, logVars>>
InLines == part = "lines" /\ UNCHANGED <<part, rateVars, routeVars, probeVars>>

InClosing == part = "closing" /\ UNCHANGED <<part, rateVars, routeVars, probeVars>>
\* The shutdown is followed for one worker that panics once at most.
OneWorker ==
    /\ th'[w2].pc = "new"
    /\ Cardinality({l \in said' : l[2] = "panic" /\ l[3] = 1}) <= 1

Next ==
    \/ RateNext /\ InRate
    \/ InRoute /\ RouteNext
    \/ InProbe /\ ProbeNext
    \/ InLines /\ LogNext
    \/ InClosing /\ LogNext /\ OneWorker

\* The fairness of Probe and of Logging.  At most one disjunct is ever enabled
\* in a behaviour, so fairness of the disjunction is that of each.
Fairness ==
    /\ WF_vars((InProbe /\ Connect) \/ (InClosing /\ Step("main")))
    /\ WF_vars((InProbe /\ Ping) \/ (InClosing /\ Step("server")))
    /\ WF_vars((InProbe /\ TryWait) \/ (InClosing /\ Step(w1)))
    /\ WF_vars(InClosing /\ Return(w1))
    /\ SF_vars(InClosing /\ Call("server", "closeFile"))
    /\ SF_vars(InClosing /\ Call("main", "closeSink"))

Spec == Init /\ [][Next]_vars /\ Fairness

-----------------------------------------------------------------------------
(* Properties: RatesBounded, LongestPrefixMatch, SharedBudget and        *)
(* NothingLost are the components' own.                                     *)

\* Every probe returns, with its ping process reaped even if that process
\* never ends by itself; and a panic, inside the logger too, does not keep the
\* process from shutting its logger down.
ThreadsEnd ==
    LET Busy == \/ part = "probe" /\ ~(step = "returned" /\ child = "none")
                \/ part = "closing" /\ ~AllDone
    IN Busy ~> ~Busy
=============================================================================
