------------------------------ MODULE WakeRoute ------------------------------
(***************************************************************************)
(* Sending a magic packet to an IPv4 target (wol.rs: send_ipv4_magic_packet*)
(* and select_ipv4_route; wol_network.rs: ipv4_interfaces).  The system's  *)
(* addresses are listed, in an order nobody promises, the loop picks the   *)
(* interface with the longest prefix that holds the target, the socket is  *)
(* bound to that source and interface, and the packet goes to the          *)
(* directed broadcast of the subnet.  The system's addresses may change    *)
(* between the listing and the bind.                                       *)
(*                                                                         *)
(* Addresses have Width bits instead of 32; a netmask is any bit pattern.  *)
(***************************************************************************)
EXTENDS Integers, Sequences, FiniteSets

CONSTANTS
    Width,       \* bits of an address (32)
    Reserved,    \* the loopback and multicast addresses
    Targets,     \* configured host addresses
    Entries,     \* the interface addresses the system may have: Ipv4Interface
    MaxEntries   \* bound: addresses of the system at one time

Top == 2^Width - 1          \* 255.255.255.255
Address == 0..Top
Ipv4Interface == [index : Nat, address : Address, netmask : Address,
                  up : BOOLEAN, broadcast : BOOLEAN]

RouteAssumption ==
    /\ Width \in Nat \ {0} /\ MaxEntries \in Nat
    /\ Reserved \subseteq Address /\ Targets \subseteq Address
    /\ Entries \subseteq Ipv4Interface /\ IsFiniteSet(Entries)

\* What induction would prove of 2^p, which the provers know nothing of.
PowersAreNumbers == \A p \in 0..Width : 2^p \in Nat \ {0}

VARIABLES
    system,     \* the addresses the system has now
    pc,         \* the sender: idle, scanning, routed, bound
    target,     \* the host to wake
    interfaces, \* the inventory, in the order it was listed
    at,         \* the loop: entries visited so far
    selected,   \* selected: Option<Ipv4Route>
    ambiguous,  \* ambiguous
    outcome     \* what the last call returned, and the packet it sent

routeVars == <<system, pc, target, interfaces, at, selected, ambiguous, outcome>>

NoRoute == [interface |-> 0, source |-> 0, broadcast |-> 0, prefixLen |-> 0]
Ipv4Route == [interface : Nat, source : Address, broadcast : Int, prefixLen : 0..Width]
Outcomes == {"none", "sent", "list_failed", "no_route", "ambiguous", "unusable", "bind_failed",
             "send_failed"}

\* The inventory, the selected route and the outcome keep their types.
RouteTypeOK ==
    /\ system \subseteq Entries
    /\ pc \in {"idle", "scanning", "routed", "bound"}
    /\ target \in Targets
    /\ interfaces \in Seq(Entries)
    /\ at \in 0..Len(interfaces)
    /\ selected \in Ipv4Route
    /\ ambiguous \in BOOLEAN
    /\ outcome \in Outcomes

RouteInit ==
    /\ system \in {s \in SUBSET Entries : Cardinality(s) <= MaxEntries}
    /\ target \in Targets
    /\ pc = "idle"
    /\ interfaces = <<>> /\ at = 0
    /\ selected = NoRoute /\ ambiguous = FALSE
    /\ outcome = "none"

-----------------------------------------------------------------------------
(* Masks and subnets *)

Block(p) == 2^(Width - p)                \* addresses under a prefix of length p
MaskOf(p) == 2^Width - Block(p)
\* leading_ones: meaningful once the mask is known to be contiguous.
IsNetmask(mask) == \E p \in 1..Width : mask = MaskOf(p)
PrefixLen(mask) == CHOOSE p \in 1..Width : mask = MaskOf(p)
Subnet(a, p) == a - (a % Block(p))
DirectedBroadcast(a, p) == Subnet(a, p) + Block(p) - 1

\* The entries the loop does not skip for what they are.
Eligible(i) ==
    /\ i.up /\ i.broadcast
    /\ i.index # 0
    /\ i.address \notin Reserved \cup {0, Top}
    /\ IsNetmask(i.netmask)

\* An eligible entry whose subnet holds the target.
Holds(i, t) ==
    /\ Eligible(i)
    /\ Subnet(t, PrefixLen(i.netmask)) = Subnet(i.address, PrefixLen(i.netmask))

RouteBy(i) ==
    LET p == PrefixLen(i.netmask) IN
    [interface |-> i.index, source |-> i.address,
     broadcast |-> DirectedBroadcast(i.address, p), prefixLen |-> p]

\* Mutant: a longer prefix does not clear the ambiguity of a shorter one.
Replaces_KeepsFlag(new) ==
    /\ new.prefixLen > selected.prefixLen
    /\ selected' = new
    /\ UNCHANGED ambiguous

\* The first match, or a longer prefix than the best so far.
Replaces(new) ==
    /\ new.prefixLen > selected.prefixLen
    /\ selected' = new
    /\ ambiguous' = FALSE

\* The same prefix length on another interface.
Collides(new) ==
    /\ new.prefixLen = selected.prefixLen
    /\ new.interface # selected.interface
    /\ ambiguous' = TRUE
    /\ UNCHANGED selected

\* Another address of the selected interface: the lower source wins.
Sibling(new) ==
    /\ new.prefixLen = selected.prefixLen
    /\ new.interface = selected.interface
    /\ selected' = IF new.source < selected.source THEN new ELSE selected
    /\ UNCHANGED ambiguous

\* A shorter prefix than the best so far.
Shorter(new) ==
    /\ new.prefixLen < selected.prefixLen
    /\ UNCHANGED <<selected, ambiguous>>

\* No directed broadcast, or the target is the network or broadcast address.
Unusable(route) ==
    \/ route.prefixLen >= Width - 1
    \/ target = Subnet(route.source, route.prefixLen)
    \/ target = route.broadcast
    \/ route.broadcast = Top

-----------------------------------------------------------------------------
(* send_ipv4_magic_packet *)

Fail(why) == pc' = "idle" /\ outcome' = why

\* network::ipv4_interfaces: one look at the system, in any order, or a failure.
Orders(s) == {f \in [1..Cardinality(s) -> s] : \A i, j \in DOMAIN f : i # j => f[i] # f[j]}
ListInterfaces ==
    /\ pc = "idle" /\ outcome = "none"
    /\ \/ /\ interfaces' \in Orders(system)
          /\ pc' = "scanning"
          /\ UNCHANGED outcome
       \/ /\ Fail("list_failed")
          /\ UNCHANGED interfaces
    /\ at' = 0
    /\ selected' = NoRoute /\ ambiguous' = FALSE
    /\ UNCHANGED <<system, target>>

\* One turn of the loop.
Visit ==
    /\ pc = "scanning" /\ at < Len(interfaces)
    /\ at' = at + 1
    /\ LET i == interfaces[at + 1] IN
        \/ /\ Holds(i, target)
           /\ LET new == RouteBy(i) IN
                Replaces(new) \/ Collides(new) \/ Sibling(new) \/ Shorter(new)
        \/ /\ ~Holds(i, target)
           /\ UNCHANGED <<selected, ambiguous>>
    /\ UNCHANGED <<system, pc, target, interfaces, outcome>>

\* After the loop.
Decide ==
    /\ pc = "scanning" /\ at = Len(interfaces)
    /\ \/ /\ selected = NoRoute
          /\ Fail("no_route")
       \/ /\ selected # NoRoute /\ ambiguous
          /\ Fail("ambiguous")
       \/ /\ selected # NoRoute /\ ~ambiguous /\ Unusable(selected)
          /\ Fail("unusable")
       \/ /\ selected # NoRoute /\ ~ambiguous /\ ~Unusable(selected)
          /\ pc' = "routed"
          /\ UNCHANGED outcome
    /\ UNCHANGED <<system, target, interfaces, at, selected, ambiguous>>

\* ipv4_socket: the source must still be an address of the system and the
\* interface must still exist.
Bind ==
    /\ pc = "routed"
    /\ \/ /\ \E i \in system : i.address = selected.source
          /\ \E i \in system : i.index = selected.interface
          /\ pc' = "bound"
          /\ UNCHANGED outcome
       \/ Fail("bind_failed")
    /\ UNCHANGED <<system, target, interfaces, at, selected, ambiguous>>

SendPacket ==
    /\ pc = "bound"
    /\ Fail("sent") \/ Fail("send_failed")
    /\ UNCHANGED <<system, target, interfaces, at, selected, ambiguous>>

\* An address goes away, or moves to another interface, after the listing.
SystemChanges ==
    /\ pc = "routed"
    /\ \E i \in system :
        \/ system' = system \ {i}
        \/ \E j \in Entries \ system :
            j.address = i.address /\ system' = (system \ {i}) \cup {j}
    /\ UNCHANGED <<pc, target, interfaces, at, selected, ambiguous, outcome>>

\* Another wake.
NextWake ==
    /\ pc = "idle" /\ outcome # "none"
    /\ outcome' = "none"
    /\ target' \in Targets
    /\ interfaces' = <<>> /\ at' = 0
    /\ selected' = NoRoute /\ ambiguous' = FALSE
    /\ UNCHANGED <<system, pc>>

RouteNext ==
    \/ ListInterfaces \/ Visit \/ Decide \/ Bind \/ SendPacket
    \/ SystemChanges \/ NextWake

RouteSpec == RouteInit /\ [][RouteNext]_routeVars

-----------------------------------------------------------------------------
(* Properties *)

\* The interfaces that match the target best, by definition.
Listed == {interfaces[k] : k \in DOMAIN interfaces}
Matching == {i \in Listed : i.up /\ Holds(i, target)}
Best == {i \in Matching :
            \A j \in Matching : PrefixLen(j.netmask) <= PrefixLen(i.netmask)}

\* The loop computes the longest prefix match whatever the order of the
\* inventory: a route is used only if one up and broadcast-capable interface
\* alone has the longest prefix that holds the target, and it is that
\* interface with its lowest address there; no route, and an ambiguous one,
\* are reported exactly when that is so (select_ipv4_route).
BestIsUsed ==
    /\ pc \in {"routed", "bound"} =>
        /\ \A i \in Best : i.index = selected.interface
        /\ \E i \in Best : RouteBy(i) = selected /\ \A j \in Best : i.address <= j.address
    /\ outcome = "no_route" => Best = {}
    /\ outcome = "ambiguous" => \E i, j \in Best : i.index # j.index
    /\ outcome = "unusable" => Cardinality({i.index : i \in Best}) = 1

\* A packet goes to the last address of a subnet of the source in which the
\* target is a host, neither its network nor its broadcast address, and never
\* to the limited broadcast.
DirectedNeverGlobal ==
    outcome = "sent" =>
        /\ selected.broadcast # Top
        /\ selected.prefixLen <= Width - 2
        /\ LET net == Subnet(selected.source, selected.prefixLen)
               last == net + Block(selected.prefixLen) - 1 IN
           selected.broadcast = last /\ target \in (net + 1)..(last - 1)

LongestPrefixMatch == RouteTypeOK /\ BestIsUsed /\ DirectedNeverGlobal

-----------------------------------------------------------------------------
(* The inductive strengthening *)

\* The entries of S that the loop is looking for, if S is what there is.
BestOf(S) ==
    {i \in S : /\ Holds(i, target)
               /\ \A j \in S : Holds(j, target) => PrefixLen(j.netmask) <= PrefixLen(i.netmask)}

\* The loop has the best of what it has visited: one of the longest prefixes,
\* whether another interface has one, and else the lowest source.
BestSoFar(S) ==
    /\ selected = NoRoute => (\A i \in S : ~Holds(i, target)) /\ ~ambiguous
    /\ selected # NoRoute =>
        /\ \E i \in BestOf(S) : RouteBy(i) = selected
        /\ ambiguous => \E i, j \in BestOf(S) : i.index # j.index
        /\ ~ambiguous => \A i \in BestOf(S) : i.index = selected.interface
                                             /\ selected.source <= i.address

\* An outcome, and a packet on its way, are what the loop has decided.
Decided ==
    /\ pc \in {"routed", "bound"} \/ outcome \in {"no_route", "ambiguous", "unusable", "sent"}
            => at = Len(interfaces)
    /\ pc \in {"routed", "bound"} \/ outcome = "sent"
            => selected # NoRoute /\ ~ambiguous /\ ~Unusable(selected)
    /\ outcome = "no_route" => selected = NoRoute
    /\ outcome = "ambiguous" => selected # NoRoute /\ ambiguous
    /\ outcome = "unusable" => selected # NoRoute /\ ~ambiguous

RouteInv == RouteTypeOK /\ BestSoFar({interfaces[k] : k \in 1..at}) /\ Decided

=============================================================================
