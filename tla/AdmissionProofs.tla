-------------------------- MODULE AdmissionProofs --------------------------
(***************************************************************************)
(* Proofs about Admission: every permit counter and the probe pool's       *)
(* counter are exact, the limits hold, and one address leaves room in the  *)
(* handshake pool, for any number of connections, addresses and clients    *)
(* and any limits that satisfy the assumptions of Admission.               *)
(*                                                                         *)
(* A step does one of three things to the permits: it leaves them alone,   *)
(* takes one or releases one; and one of three to the probe pool.  The     *)
(* lemmas follow that division, and the place of each thread (LocalPart)   *)
(* is shown action by action.                                              *)
(***************************************************************************)
EXTENDS Admission, FiniteSetTheorems, TLAPS

PermitPart ==
    /\ count \in [Counters -> Nat]
    /\ PermitsConserved /\ CountsBounded /\ AddressBounded
ProbePart == slots \in Nat /\ ProbesCounted
LocalPart ==
    /\ conn \in [Conns -> Conn]
    /\ stopping \in BOOLEAN
    /\ acceptor \in {"top", "poll", "busy", "left"}
    /\ OneArrival /\ OwnedWhere /\ HandshakeUnderIp /\ SlotSeen

LEMMA InvParts == AdmissionInv <=> LocalPart /\ PermitPart /\ ProbePart
  BY Zenon DEF AdmissionInv, CountersExact, TypeOK, LocalPart, PermitPart, ProbePart

LEMMA InvPartsNext == AdmissionInv' <=> LocalPart' /\ PermitPart' /\ ProbePart'
  BY InvParts, PTL

-----------------------------------------------------------------------------
(* Facts on cardinality, and on the model's operators *)

LEMMA CardinalityAdd ==
    ASSUME NEW S, IsFiniteSet(S), NEW x, x \notin S
    PROVE  /\ IsFiniteSet(S \cup {x})
           /\ Cardinality(S \cup {x}) = Cardinality(S) + 1
  BY FS_AddElement, Zenon

LEMMA CardinalityRemove ==
    ASSUME NEW S, IsFiniteSet(S), NEW x \in S
    PROVE  /\ IsFiniteSet(S \ {x})
           /\ Cardinality(S \ {x}) = Cardinality(S) - 1
  BY FS_RemoveElement, Zenon

LEMMA CardinalitySub ==
    ASSUME NEW S, IsFiniteSet(S), NEW T, T \subseteq S
    PROVE  /\ IsFiniteSet(T)
           /\ Cardinality(T) \in Nat
           /\ Cardinality(T) <= Cardinality(S)
  BY FS_Subset, FS_CardinalityType, Zenon

\* The threads of any description are finitely many.
LEMMA ConnsFinite ==
    ASSUME NEW T, T \subseteq Conns
    PROVE  IsFiniteSet(T) /\ Cardinality(T) \in Nat
  BY CardinalitySub, LimitsAssumption, Zenon

LEMMA LimitTypes == \A p \in Permits : Limit[p] \in Nat
  BY LimitsAssumption

LEMMA OrderOfAccept ==
    /\ DOMAIN AcceptOrder = {1, 2, 3, 4}
    /\ AcceptOrder[1] = "connection" /\ AcceptOrder[2] = "ip"
    /\ AcceptOrder[3] = "pending" /\ AcceptOrder[4] = "handshake"
  BY DEF AcceptOrder

\* What identifies the counter of a permit.
LEMMA KeyIs ==
    ASSUME NEW c \in Conns, NEW p \in Permits
    PROVE  /\ p \in {"connection", "handshake"} => Key(c, p) = NoIp /\ Keys(p) = {NoIp}
           /\ p \in {"ip", "pending"} => Key(c, p) = conn[c].ip /\ Keys(p) = Ips
           /\ p = "client" => Key(c, p) = conn[c].client /\ Keys(p) = Clients
  BY DEF Key, Keys, Permits

LEMMA KeyIsNext ==
    ASSUME NEW c \in Conns, NEW p \in Permits
    PROVE  /\ p \in {"connection", "handshake"} => Key(c, p)' = NoIp
           /\ p \in {"ip", "pending"} => Key(c, p)' = conn'[c].ip
           /\ p = "client" => Key(c, p)' = conn'[c].client
  BY DEF Key, Permits

LEMMA CounterOf ==
    ASSUME NEW p \in Permits, NEW k
    PROVE  <<p, k>> \in Counters <=> k \in Keys(p)
  <1>1. ASSUME k \in Keys(p) PROVE <<p, k>> \in Counters
    <2>1. <<p, k>> \in {p} \X Keys(p)
      BY <1>1
    <2> QED
      BY <2>1 DEF Counters
  <1>2. ASSUME <<p, k>> \in Counters PROVE k \in Keys(p)
    <2>1. PICK q \in Permits : <<p, k>> \in {q} \X Keys(q)
      BY <1>2 DEF Counters
    <2> QED
      BY <2>1
  <1> QED
    BY <1>1, <1>2

-----------------------------------------------------------------------------
(* The permits *)

\* A step that takes and drops nothing; an address or a client changes only
\* where no permit depends on it.
PermitsStay ==
    /\ count' = count
    /\ \A d \in Conns :
        /\ conn'[d].held = conn[d].held
        /\ conn'[d].ip = conn[d].ip \/ conn[d].held = {}
        /\ conn'[d].client = conn[d].client \/ "client" \notin conn[d].held

LEMMA StayKeepsPermits ==
    ASSUME PermitPart, PermitsStay
    PROVE  PermitPart'
  <1>1. ASSUME NEW p \in Permits, NEW k PROVE Holders(p, k)' = Holders(p, k)
    <2>1. ASSUME NEW d \in Conns, p \in conn[d].held
          PROVE  Key(d, p)' = Key(d, p)
      BY <2>1, KeyIs, KeyIsNext DEF PermitsStay, Permits
    <2> QED
      BY <2>1 DEF Holders, PermitsStay
  <1>2. ASSUME NEW ip PROVE Reserved(ip)' = Reserved(ip)
    BY DEF Reserved, PermitsStay
  <1>3. PermitsConserved'
    BY <1>1 DEF PermitPart, PermitsConserved, PermitsStay, Keys
  <1>4. CountsBounded'
    BY DEF PermitPart, CountsBounded, PermitsStay, Keys
  <1>5. AddressBounded'
    BY <1>2 DEF PermitPart, AddressBounded
  <1> QED
    BY <1>3, <1>4, <1>5 DEF PermitPart, PermitsStay, Counters, Keys

\* What a step of one connection does to the set of threads that hold p.
LEMMA TakeAdds ==
    ASSUME LocalPart, NEW c \in Conns, NEW p \in Permits, NEW pc, Take(c, p, pc),
           p \notin conn[c].held, NEW q \in Permits, NEW k
    PROVE  /\ c \notin Holders(p, Key(c, p))
           /\ Holders(q, k)' = IF q = p /\ k = Key(c, p)
                               THEN Holders(q, k) \cup {c} ELSE Holders(q, k)
  <1>1. \A d \in Conns : /\ conn'[d].ip = conn[d].ip
                         /\ conn'[d].client = conn[d].client
                         /\ conn'[d].held = IF d = c THEN conn[d].held \cup {p}
                                            ELSE conn[d].held
    BY DEF Take, LocalPart, Conn
  <1>2. ASSUME NEW d \in Conns PROVE Key(d, q)' = Key(d, q)
    <2>1. conn'[d].ip = conn[d].ip /\ conn'[d].client = conn[d].client
      BY <1>1
    <2> QED
      BY <2>1, Zenon DEF Key
  <1>3. c \notin Holders(p, Key(c, p))
    <2>1. \A x : c \in Holders(p, x) <=> p \in conn[c].held /\ Key(c, p) = x
      BY DEF Holders
    <2> QED
      BY <2>1
  <1>4. Holders(q, k)' = {d \in Conns : q \in conn'[d].held /\ Key(d, q) = k}
    BY <1>2 DEF Holders
  <1>5. CASE q = p /\ k = Key(c, p)
    <2>1. Holders(q, k)' = Holders(q, k) \cup {c}
      BY <1>1, <1>4, <1>5 DEF Holders
    <2> QED
      BY <2>1, <1>3, <1>5
  <1>6. CASE ~(q = p /\ k = Key(c, p))
    <2>1. Holders(q, k)' = Holders(q, k)
      BY <1>1, <1>4, <1>6 DEF Holders
    <2> QED
      BY <2>1, <1>3, <1>6
  <1> QED
    BY <1>5, <1>6

LEMMA ReleaseRemoves ==
    ASSUME LocalPart, NEW c \in Conns, NEW p \in Permits, Release(c, p),
           p \in conn[c].held, NEW q \in Permits, NEW k
    PROVE  /\ c \in Holders(p, Key(c, p))
           /\ Holders(q, k)' = IF q = p /\ k = Key(c, p)
                               THEN Holders(q, k) \ {c} ELSE Holders(q, k)
  <1>1. \A d \in Conns : /\ conn'[d].ip = conn[d].ip
                         /\ conn'[d].client = conn[d].client
                         /\ conn'[d].held = IF d = c THEN conn[d].held \ {p}
                                            ELSE conn[d].held
    BY DEF Release, LocalPart, Conn
  <1>2. ASSUME NEW d \in Conns PROVE Key(d, q)' = Key(d, q)
    <2>1. conn'[d].ip = conn[d].ip /\ conn'[d].client = conn[d].client
      BY <1>1
    <2> QED
      BY <2>1, Zenon DEF Key
  <1>3. c \in Holders(p, Key(c, p))
    <2>1. \A x : c \in Holders(p, x) <=> p \in conn[c].held /\ Key(c, p) = x
      BY DEF Holders
    <2> QED
      BY <2>1
  <1>4. Holders(q, k)' = {d \in Conns : q \in conn'[d].held /\ Key(d, q) = k}
    BY <1>2 DEF Holders
  <1>5. CASE q = p /\ k = Key(c, p)
    <2>1. Holders(q, k)' = Holders(q, k) \ {c}
      BY <1>1, <1>4, <1>5 DEF Holders
    <2> QED
      BY <2>1, <1>3, <1>5
  <1>6. CASE ~(q = p /\ k = Key(c, p))
    <2>1. Holders(q, k)' = Holders(q, k)
      BY <1>1, <1>4, <1>6 DEF Holders
    <2> QED
      BY <2>1, <1>3, <1>6
  <1> QED
    BY <1>5, <1>6

\* A permit that is taken while its counter is below the limit; a handshake
\* permit under the permit of its address.
LEMMA TakeKeepsPermits ==
    ASSUME LocalPart, PermitPart, NEW c \in Conns, NEW p \in Permits, NEW pc,
           Take(c, p, pc), Free(c, p), p \notin conn[c].held,
           Key(c, p) \in Keys(p),
           p = "ip" => conn[c].pc = "arriving",
           p = "handshake" => "ip" \in conn[c].held
    PROVE  PermitPart'
  <1>0. PICK k0 : k0 = Key(c, p)
    OBVIOUS
  <1>1. <<p, k0>> \in Counters
    BY <1>0, CounterOf
  <1>2. count' = [count EXCEPT ![<<p, k0>>] = @ + 1]
    BY <1>0 DEF Take
  <1>3. count' \in [Counters -> Nat]
    BY <1>1, <1>2 DEF PermitPart
  <1>4. ASSUME NEW q \in Permits, NEW k \in Keys(q)
        PROVE  count'[<<q, k>>] = IF q = p /\ k = k0 THEN count[<<q, k>>] + 1
                                  ELSE count[<<q, k>>]
    BY <1>1, <1>2, CounterOf DEF PermitPart
  <1>5. ASSUME NEW q \in Permits, NEW k \in Keys(q)
        PROVE  count'[<<q, k>>] = Cardinality(Holders(q, k)')
    <2>1. CASE q = p /\ k = k0
      <3>1. c \notin Holders(q, k) /\ Holders(q, k)' = Holders(q, k) \cup {c}
        BY <2>1, <1>0, TakeAdds
      <3>2. IsFiniteSet(Holders(q, k))
        BY ConnsFinite DEF Holders
      <3>3. Cardinality(Holders(q, k)') = Cardinality(Holders(q, k)) + 1
        BY <3>1, <3>2, CardinalityAdd
      <3> QED
        BY <3>3, <2>1, <1>4 DEF PermitPart, PermitsConserved
    <2>2. CASE ~(q = p /\ k = k0)
      <3>1. Holders(q, k)' = Holders(q, k)
        BY <2>2, <1>0, TakeAdds
      <3> QED
        BY <3>1, <2>2, <1>4 DEF PermitPart, PermitsConserved
    <2> QED
      BY <2>1, <2>2
  <1>6. PermitsConserved'
    BY <1>5 DEF PermitsConserved, Keys
  <1>7. CountsBounded'
    <2>1. count[<<p, k0>>] < Limit[p]
      BY <1>0 DEF Free
    <2>2. ASSUME NEW q \in Permits, NEW k \in Keys(q)
          PROVE  count'[<<q, k>>] <= Limit[q]
      <3>1. <<q, k>> \in Counters
        BY CounterOf
      <3>2. count[<<q, k>>] \in Nat /\ count[<<q, k>>] <= Limit[q] /\ Limit[q] \in Nat
        BY <3>1, LimitTypes DEF PermitPart, CountsBounded
      <3> QED
        BY <3>2, <2>1, <1>4
    <2> QED
      BY <2>2 DEF CountsBounded, Keys
  <1>8. AddressBounded'
    <2> SUFFICES ASSUME NEW ip \in Ips
                 PROVE  Cardinality(Reserved(ip)') <= Limit["ip"]
      BY DEF AddressBounded
    <2>1. \A d \in Conns : /\ conn'[d].ip = conn[d].ip
                           /\ conn'[d].held = IF d = c THEN conn[d].held \cup {p}
                                              ELSE conn[d].held
      BY DEF Take, LocalPart, Conn
    <2>2. CASE p = "ip" /\ conn[c].ip = ip
      <3>1. Reserved(ip) = Holders("ip", ip)
        <4>1. \A d \in Conns : "handshake" \in conn[d].held => "ip" \in conn[d].held
          BY <2>2 DEF LocalPart, HandshakeUnderIp, OneArrival, AcceptPcs
        <4>2. \A d \in Conns : Key(d, "ip") = conn[d].ip
          BY KeyIs DEF Permits
        <4> QED
          BY <4>1, <4>2 DEF Reserved, Holders
      <3>2. Reserved(ip)' = Holders("ip", ip)'
        <4>1. \A d \in Conns : "handshake" \in conn'[d].held => "ip" \in conn'[d].held
          BY <2>2, <2>1 DEF LocalPart, HandshakeUnderIp, OneArrival, AcceptPcs
        <4>2. \A d \in Conns : Key(d, "ip")' = conn'[d].ip
          BY KeyIsNext DEF Permits
        <4> QED
          BY <4>1, <4>2 DEF Reserved, Holders
      <3>3. Cardinality(Holders("ip", ip)') <= Limit["ip"]
        BY <1>5, <1>7 DEF CountsBounded, Keys, Permits
      <3> QED
        BY <3>2, <3>3
    <2>3. CASE ~(p = "ip" /\ conn[c].ip = ip)
      <3>1. Reserved(ip)' = Reserved(ip)
        BY <2>3, <2>1 DEF Reserved
      <3> QED
        BY <3>1 DEF PermitPart, AddressBounded
    <2> QED
      BY <2>2, <2>3
  <1> QED
    BY <1>3, <1>6, <1>7, <1>8 DEF PermitPart, Counters, Keys

LEMMA ReleaseKeepsPermits ==
    ASSUME LocalPart, PermitPart, NEW c \in Conns, NEW p \in Permits,
           Release(c, p), p \in conn[c].held, Key(c, p) \in Keys(p)
    PROVE  PermitPart'
  <1>0. PICK k0 : k0 = Key(c, p)
    OBVIOUS
  <1>1. <<p, k0>> \in Counters /\ k0 \in Keys(p)
    BY <1>0, CounterOf
  <1>2. count' = [count EXCEPT ![<<p, k0>>] = Decremented(@)]
    BY <1>0 DEF Release
  <1>3. Decremented(count[<<p, k0>>]) \in Nat
    BY <1>1 DEF PermitPart, Decremented
  <1>4. count' \in [Counters -> Nat]
    BY <1>1, <1>2, <1>3 DEF PermitPart
  <1>5. ASSUME NEW q \in Permits, NEW k \in Keys(q)
        PROVE  count'[<<q, k>>] = Cardinality(Holders(q, k)')
    <2>1. <<q, k>> \in Counters
      BY CounterOf
    <2>2. CASE q = p /\ k = k0
      <3>1. c \in Holders(q, k) /\ Holders(q, k)' = Holders(q, k) \ {c}
        BY <2>2, <1>0, ReleaseRemoves
      <3>2. IsFiniteSet(Holders(q, k))
        BY ConnsFinite DEF Holders
      <3>3. Cardinality(Holders(q, k)') = Cardinality(Holders(q, k)) - 1
        BY <3>1, <3>2, CardinalityRemove
      <3>4. Cardinality(Holders(q, k)') \in Nat
        BY ConnsFinite DEF Holders
      <3>5. count[<<q, k>>] = Cardinality(Holders(q, k)) /\ count[<<q, k>>] \in Nat
        BY <2>1 DEF PermitPart, PermitsConserved
      <3>6. count'[<<q, k>>] = Decremented(count[<<q, k>>])
        BY <2>1, <2>2, <1>2 DEF PermitPart
      <3> QED
        BY <3>3, <3>4, <3>5, <3>6 DEF Decremented
    <2>3. CASE ~(q = p /\ k = k0)
      <3>1. Holders(q, k)' = Holders(q, k)
        BY <2>3, <1>0, ReleaseRemoves
      <3>2. count'[<<q, k>>] = count[<<q, k>>]
        BY <2>1, <2>3, <1>2 DEF PermitPart
      <3> QED
        BY <3>1, <3>2 DEF PermitPart, PermitsConserved
    <2> QED
      BY <2>2, <2>3
  <1>6. PermitsConserved'
    BY <1>5 DEF PermitsConserved, Keys
  <1>7. CountsBounded'
    <2>1. ASSUME NEW q \in Permits, NEW k \in Keys(q)
          PROVE  count'[<<q, k>>] <= Limit[q]
      <3>1. <<q, k>> \in Counters
        BY CounterOf
      <3>2. count[<<q, k>>] \in Nat /\ count[<<q, k>>] <= Limit[q] /\ Limit[q] \in Nat
        BY <3>1, LimitTypes DEF PermitPart, CountsBounded
      <3>3. count'[<<q, k>>] = IF <<q, k>> = <<p, k0>> THEN Decremented(count[<<q, k>>])
                               ELSE count[<<q, k>>]
        BY <3>1, <1>1, <1>2 DEF PermitPart
      <3> QED
        BY <3>2, <3>3 DEF Decremented
    <2> QED
      BY <2>1 DEF CountsBounded, Keys
  <1>8. AddressBounded'
    <2> SUFFICES ASSUME NEW ip \in Ips
                 PROVE  Cardinality(Reserved(ip)') <= Limit["ip"]
      BY DEF AddressBounded
    <2>1. Reserved(ip)' \subseteq Reserved(ip)
      BY DEF Reserved, Release, LocalPart, Conn
    <2>2. IsFiniteSet(Reserved(ip)) /\ Cardinality(Reserved(ip)) \in Nat
      BY ConnsFinite DEF Reserved
    <2>3. /\ Cardinality(Reserved(ip)') \in Nat
          /\ Cardinality(Reserved(ip)') <= Cardinality(Reserved(ip))
      BY <2>1, <2>2, CardinalitySub
    <2> QED
      BY <2>2, <2>3, LimitTypes DEF PermitPart, AddressBounded, Permits
  <1> QED
    BY <1>4, <1>6, <1>7, <1>8 DEF PermitPart, Counters, Keys

-----------------------------------------------------------------------------
(* The probe pool *)

ProbesStay == slots' = slots /\ \A d \in Conns : conn'[d].probes = conn[d].probes

LEMMA StayKeepsProbes ==
    ASSUME ProbePart, ProbesStay
    PROVE  ProbePart'
  <1>1. ProbeThreads' = ProbeThreads
    BY DEF ProbeThreads, ProbesStay
  <1> QED
    BY <1>1 DEF ProbePart, ProbesCounted, ProbesStay

LEMMA ThreadsFinite == IsFiniteSet(ProbeThreads) /\ Cardinality(ProbeThreads) \in Nat
  <1>1. IsFiniteSet(1..ProbesPerConn)
    BY FS_Interval, LimitsAssumption
  <1>2. IsFiniteSet(Conns \X (1..ProbesPerConn))
    BY <1>1, FS_Product, LimitsAssumption
  <1> QED
    BY <1>2, CardinalitySub DEF ProbeThreads

\* A probe thread more takes the next number of its session, one less gives
\* back the last.
LEMMA StartKeepsProbes ==
    ASSUME LocalPart, ProbePart, NEW c \in Conns,
           conn[c].probes < ProbesPerConn, slots < ProbeLimit, slots' = slots + 1,
           \A d \in Conns : conn'[d].probes = IF d = c THEN conn[d].probes + 1
                                              ELSE conn[d].probes
    PROVE  ProbePart'
  <1>1. PICK n \in Nat : n = conn[c].probes + 1
    BY LimitsAssumption DEF LocalPart, Conn
  <1>2. \A d \in Conns : conn[d].probes \in Nat
    BY LimitsAssumption DEF LocalPart, Conn
  <1>3. <<c, n>> \notin ProbeThreads
    BY <1>1, <1>2 DEF ProbeThreads
  <1>4. ProbeThreads' = ProbeThreads \cup {<<c, n>>}
    <2>1. ASSUME NEW d \in Conns, NEW i \in 1..ProbesPerConn
          PROVE  i <= conn'[d].probes <=> i <= conn[d].probes \/ (d = c /\ i = n)
      BY <1>1, <1>2
    <2>2. n \in 1..ProbesPerConn
      BY <1>1, <1>2, LimitsAssumption
    <2> QED
      BY <2>1, <2>2 DEF ProbeThreads
  <1>5. Cardinality(ProbeThreads') = Cardinality(ProbeThreads) + 1
    BY <1>3, <1>4, ThreadsFinite, CardinalityAdd
  <1> QED
    BY <1>5, LimitsAssumption DEF ProbePart, ProbesCounted

LEMMA EndKeepsProbes ==
    ASSUME LocalPart, ProbePart, NEW c \in Conns,
           conn[c].probes > 0, slots' = Decremented(slots),
           \A d \in Conns : conn'[d].probes = IF d = c THEN conn[d].probes - 1
                                              ELSE conn[d].probes
    PROVE  ProbePart'
  <1>1. PICK n \in Nat : n = conn[c].probes
    BY LimitsAssumption DEF LocalPart, Conn
  <1>2. \A d \in Conns : conn[d].probes \in 0..ProbesPerConn
    BY DEF LocalPart, Conn
  <1>3. <<c, n>> \in ProbeThreads
    BY <1>1, <1>2, LimitsAssumption DEF ProbeThreads
  <1>4. ProbeThreads' = ProbeThreads \ {<<c, n>>}
    <2>1. ASSUME NEW d \in Conns, NEW i \in 1..ProbesPerConn
          PROVE  i <= conn'[d].probes <=> i <= conn[d].probes /\ ~(d = c /\ i = n)
      BY <1>1, <1>2, LimitsAssumption
    <2> QED
      BY <2>1 DEF ProbeThreads
  <1>5. /\ Cardinality(ProbeThreads') = Cardinality(ProbeThreads) - 1
        /\ Cardinality(ProbeThreads') \in Nat
    <2>1. IsFiniteSet(ProbeThreads') /\ Cardinality(ProbeThreads') \in Nat
      BY <1>4, ThreadsFinite, CardinalitySub
    <2> QED
      BY <2>1, <1>3, <1>4, ThreadsFinite, CardinalityRemove
  <1> QED
    BY <1>5, LimitsAssumption DEF ProbePart, ProbesCounted, Decremented

-----------------------------------------------------------------------------
(* The place of each thread *)

\* What LocalPart says of one connection's record.
Placed(n) ==
    /\ n \in Conn
    /\ n.pc = "none" => n.held = {}
    /\ n.pc # "none" => n.ip \in Ips
    /\ n.pc \in SessionPcs \cup {"shaken", "ended"} => n.client \in Clients
    /\ n.pc \notin SessionPcs \cup {"ended"} => "client" \notin n.held
    /\ n.pc \in SessionPcs \cup {"ended"} => n.held \cap {"pending", "handshake"} = {}
    /\ n.pc \notin SessionPcs => n.probes = 0
    /\ "handshake" \in n.held => "ip" \in n.held \/ n.pc = "unspawned"
    /\ n.pc = "cas" => n.seen < ProbeLimit /\ n.probes < ProbesPerConn

LEMMA LocalIsPlaced ==
    LocalPart <=> /\ conn \in [Conns -> Conn]
                  /\ \A d \in Conns : Placed(conn[d])
                  /\ stopping \in BOOLEAN
                  /\ acceptor \in {"top", "poll", "busy", "left"}
                  /\ OneArrival
  BY DEF LocalPart, Placed, OwnedWhere, HandshakeUnderIp, SlotSeen

LEMMA LocalIsPlacedNext ==
    LocalPart' <=> /\ conn' \in [Conns -> Conn]
                   /\ \A d \in Conns : Placed(conn'[d])
                   /\ stopping' \in BOOLEAN
                   /\ acceptor' \in {"top", "poll", "busy", "left"}
                   /\ OneArrival'
  BY DEF LocalPart, Placed, OwnedWhere, HandshakeUnderIp, SlotSeen

\* A step of one connection to a record that is in its place, with the accept
\* thread's place to match.
LEMMA MoveKeepsLocal ==
    ASSUME LocalPart, NEW c \in Conns, NEW n, conn' = [conn EXCEPT ![c] = n],
           Placed(n), UNCHANGED stopping,
           acceptor' \in {"top", "poll", "busy", "left"},
           n.pc \in AcceptPcs =>
               /\ acceptor' = "busy"
               /\ conn[c].pc \in AcceptPcs \/ acceptor # "busy",
           acceptor' = acceptor \/ acceptor # "busy" \/ conn[c].pc \in AcceptPcs
    PROVE  LocalPart'
  <1>1. conn' \in [Conns -> Conn] /\ \A d \in Conns : Placed(conn'[d])
    BY LocalIsPlaced DEF Placed
  <1>2. OneArrival'
    <2>1. \A d \in Conns : conn'[d] = IF d = c THEN n ELSE conn[d]
      BY DEF LocalPart
    <2> QED
      BY <2>1 DEF LocalPart, OneArrival
  <1> QED
    BY <1>1, <1>2, LocalIsPlaced, LocalIsPlacedNext

-----------------------------------------------------------------------------
(* The actions *)

LEMMA InitHolds == Init => AdmissionInv
  <1> SUFFICES ASSUME Init PROVE AdmissionInv
    OBVIOUS
  <1>1. LocalPart
    <2>1. NoConn \in Conn /\ Placed(NoConn)
      BY LimitsAssumption DEF NoConn, Conn, Placed, SessionPcs
    <2>2. OneArrival
      BY DEF Init, OneArrival, AcceptPcs, NoConn
    <2> QED
      BY <2>1, <2>2, LocalIsPlaced DEF Init
  <1>2. PermitPart
    <2>1. ASSUME NEW p \in Permits, NEW k \in Keys(p)
          PROVE  count[<<p, k>>] = 0
      BY CounterOf DEF Init
    <2>2. \A p \in Permits : \A k : Holders(p, k) = {}
      BY DEF Init, Holders, NoConn
    <2>3. \A ip : Reserved(ip) = {}
      BY DEF Init, Reserved, NoConn
    <2>4. Cardinality({}) = 0
      BY FS_EmptySet
    <2>5. PermitsConserved
      BY <2>1, <2>2, <2>4 DEF PermitsConserved
    <2>6. CountsBounded
      <3>1. ASSUME NEW p \in Permits, NEW k \in Keys(p)
            PROVE  count[<<p, k>>] <= Limit[p]
        BY <2>1, LimitTypes
      <3> QED
        BY <3>1 DEF CountsBounded
    <2>7. AddressBounded
      BY <2>3, <2>4, LimitsAssumption DEF AddressBounded, Permits
    <2> QED
      BY <2>5, <2>6, <2>7 DEF PermitPart, Init
  <1>3. ProbePart
    <2>1. ProbeThreads = {}
      BY LimitsAssumption DEF ProbeThreads, Init, NoConn
    <2> QED
      BY <2>1, FS_EmptySet, LimitsAssumption DEF ProbePart, ProbesCounted, Init
  <1> QED
    BY <1>1, <1>2, <1>3, InvParts

\* A step that only moves the accept thread, or one connection's place.
LEMMA IdleKeeps ==
    ASSUME AdmissionInv, UNCHANGED <<conn, count, slots>>, stopping' \in BOOLEAN,
           acceptor' \in {"top", "poll", "busy", "left"},
           acceptor' = acceptor \/ acceptor # "busy"
    PROVE  AdmissionInv'
  <1>1. LocalPart'
    BY InvParts, LocalIsPlaced, LocalIsPlacedNext DEF OneArrival
  <1>2. PermitPart'
    BY InvParts, StayKeepsPermits DEF PermitsStay
  <1>3. ProbePart'
    BY InvParts, StayKeepsProbes DEF ProbesStay
  <1> QED
    BY <1>1, <1>2, <1>3, InvPartsNext

LEMMA MoveKeeps ==
    ASSUME AdmissionInv, NEW c \in Conns, NEW n, conn' = [conn EXCEPT ![c] = n],
           UNCHANGED <<count, slots, stopping>>, Placed(n),
           n.held = conn[c].held, n.probes = conn[c].probes,
           n.ip = conn[c].ip \/ conn[c].held = {},
           n.client = conn[c].client \/ "client" \notin conn[c].held,
           acceptor' \in {"top", "poll", "busy", "left"},
           n.pc \in AcceptPcs =>
               /\ acceptor' = "busy"
               /\ conn[c].pc \in AcceptPcs \/ acceptor # "busy",
           acceptor' = acceptor \/ acceptor # "busy" \/ conn[c].pc \in AcceptPcs
    PROVE  AdmissionInv'
  <1>1. LocalPart /\ PermitPart /\ ProbePart
    BY InvParts
  <1>2. \A d \in Conns : conn'[d] = IF d = c THEN n ELSE conn[d]
    BY <1>1 DEF LocalPart
  <1>3. PermitsStay /\ ProbesStay
    BY <1>2 DEF PermitsStay, ProbesStay
  <1>4. LocalPart'
    BY <1>1, MoveKeepsLocal
  <1> QED
    BY <1>1, <1>3, <1>4, StayKeepsPermits, StayKeepsProbes, InvPartsNext

LEMMA PlacedNow ==
    ASSUME AdmissionInv, NEW c \in Conns
    PROVE  /\ Placed(conn[c]) /\ conn[c] \in Conn
           /\ acceptor \in {"top", "poll", "busy", "left"}
           /\ conn[c].pc \in AcceptPcs => acceptor = "busy"
  BY InvParts, LocalIsPlaced DEF Placed, OneArrival

LEMMA AcceptKeeps ==
    ASSUME AdmissionInv, NEW c \in Conns, Accept(c)
    PROVE  AdmissionInv'
  <1>1. PICK ip \in Ips :
            conn' = [conn EXCEPT ![c] = [NoConn EXCEPT !.pc = "arriving", !.ip = ip]]
    BY DEF Accept
  <1> DEFINE n == [NoConn EXCEPT !.pc = "arriving", !.ip = ip]
  <1>2. Placed(n) /\ n.held = {} /\ n.probes = 0 /\ n.client = NoClient
    <2>1. /\ NoConn \in Conn /\ NoConn.held = {} /\ NoConn.probes = 0
          /\ NoConn.client = NoClient
      BY LimitsAssumption DEF NoConn, Conn
    <2>2. /\ n \in Conn /\ n.pc = "arriving" /\ n.ip = ip /\ n.held = NoConn.held
          /\ n.probes = NoConn.probes /\ n.client = NoConn.client
      BY <2>1 DEF Conn
    <2> QED
      BY <2>1, <2>2 DEF Placed, SessionPcs
  <1>3. conn[c].held = {} /\ conn[c].probes = 0
    BY PlacedNow DEF Accept, Placed, SessionPcs
  <1> HIDE DEF n
  <1> QED
    BY <1>1, <1>2, <1>3, MoveKeeps DEF Accept, n

LEMMA AcquireNextKeeps ==
    ASSUME AdmissionInv, NEW c \in Conns, AcquireNext(c)
    PROVE  AdmissionInv'
  <1>0. LocalPart /\ PermitPart /\ ProbePart
    BY InvParts
  <1>1. PICK i \in {1, 2, 3, 4} :
            /\ Missing(c, AcceptOrder, i)
            /\ IF Free(c, AcceptOrder[i])
               THEN Take(c, AcceptOrder[i], "arriving")
               ELSE /\ conn' = [conn EXCEPT ![c] = [@ EXCEPT !.pc = "refused"]]
                    /\ UNCHANGED count
    BY OrderOfAccept DEF AcquireNext
  <1>2. PICK p : p = AcceptOrder[i]
    OBVIOUS
  <1>3. /\ p \in {"connection", "ip", "pending", "handshake"}
        /\ p \notin conn[c].held
        /\ p = "handshake" => "ip" \in conn[c].held
    BY <1>1, <1>2, OrderOfAccept DEF Missing
  <1>4. /\ conn[c].pc = "arriving" /\ UNCHANGED <<slots, stopping, acceptor>>
        /\ Placed(conn[c]) /\ conn[c] \in Conn /\ acceptor = "busy"
    BY PlacedNow DEF AcquireNext, AcceptPcs
  <1>5. CASE Free(c, p)
    <2>1. Take(c, p, "arriving")
      BY <1>1, <1>2, <1>5
    <2> DEFINE n == [conn[c] EXCEPT !.held = @ \cup {p}, !.pc = "arriving"]
    <2>2. conn' = [conn EXCEPT ![c] = n]
      BY <2>1, <1>0 DEF Take, LocalPart, Conn
    <2>3. Placed(n) /\ n.probes = conn[c].probes
      BY <1>3, <1>4 DEF Placed, Conn, SessionPcs, Permits
    <2>4. n.pc = "arriving"
      BY <1>4 DEF Conn
    <2> HIDE DEF n
    <2>5. LocalPart'
      BY <2>2, <2>3, <2>4, <1>0, <1>4, MoveKeepsLocal DEF AcceptPcs
    <2>6. PermitPart'
      <3>1. p \in Permits
        BY <1>3 DEF Permits
      <3>2. Key(c, p) \in Keys(p)
        <4>1. CASE p \in {"connection", "handshake"}
          BY <4>1, KeyIs, <3>1
        <4>2. CASE p \in {"ip", "pending"}
          BY <4>2, <1>4, KeyIs, <3>1 DEF Placed
        <4> QED
          BY <4>1, <4>2, <1>3
      <3> QED
        BY <2>1, <3>1, <3>2, <1>0, <1>3, <1>4, <1>5, TakeKeepsPermits
    <2>7. ProbesStay
      BY <2>2, <2>3, <1>0, <1>4 DEF ProbesStay, LocalPart
    <2> QED
      BY <2>5, <2>6, <2>7, <1>0, StayKeepsProbes, InvPartsNext
  <1>6. CASE ~Free(c, p)
    <2> DEFINE n == [conn[c] EXCEPT !.pc = "refused"]
    <2>1. conn' = [conn EXCEPT ![c] = n] /\ UNCHANGED count
      BY <1>1, <1>2, <1>6
    <2>2. /\ Placed(n) /\ n.pc = "refused" /\ n.held = conn[c].held
          /\ n.probes = conn[c].probes /\ n.ip = conn[c].ip
          /\ n.client = conn[c].client
      BY <1>4 DEF Placed, Conn, SessionPcs
    <2> HIDE DEF n
    <2> QED
      BY <2>1, <2>2, <1>4, MoveKeeps DEF AcceptPcs
  <1> QED
    BY <1>5, <1>6

\* Steps that set only the place of a connection.
LEMMA GoKeeps ==
    ASSUME AdmissionInv, NEW c \in Conns, NEW pc,
           conn' = [conn EXCEPT ![c] = [@ EXCEPT !.pc = pc]],
           UNCHANGED <<count, slots, stopping>>,
           Placed([conn[c] EXCEPT !.pc = pc]),
           acceptor' \in {"top", "poll", "busy", "left"},
           pc \in AcceptPcs => conn[c].pc \in AcceptPcs /\ UNCHANGED acceptor,
           acceptor' = acceptor \/ conn[c].pc \in AcceptPcs
    PROVE  AdmissionInv'
  <1> DEFINE n == [conn[c] EXCEPT !.pc = pc]
  <1>1. conn' = [conn EXCEPT ![c] = n] /\ Placed(n)
    OBVIOUS
  <1>2. conn[c] \in Conn /\ (conn[c].pc \in AcceptPcs => acceptor = "busy")
    BY PlacedNow
  <1>3. /\ n.pc = pc /\ n.held = conn[c].held /\ n.probes = conn[c].probes
        /\ n.ip = conn[c].ip /\ n.client = conn[c].client
    BY <1>2 DEF Conn
  <1> HIDE DEF n
  <1> QED
    BY <1>1, <1>2, <1>3, MoveKeeps

LEMMA SpawnKeeps ==
    ASSUME AdmissionInv, NEW c \in Conns, Spawn(c)
    PROVE  AdmissionInv'
  <1>1. /\ conn[c].pc = "arriving" /\ UNCHANGED <<count, slots, stopping>>
        /\ Placed(conn[c]) /\ conn[c] \in Conn /\ acceptor = "busy"
    BY PlacedNow DEF Spawn, AcceptPcs
  <1>2. ASSUME NEW pc \in {"shaking", "refused", "unspawned"}
        PROVE  Placed([conn[c] EXCEPT !.pc = pc])
    BY <1>1 DEF Placed, Conn, SessionPcs
  <1>3. CASE conn' = [conn EXCEPT ![c] = [@ EXCEPT !.pc = "shaking"]] /\ acceptor' = "top"
    BY <1>1, <1>2, <1>3, GoKeeps DEF AcceptPcs
  <1>4. ASSUME NEW pc \in {"refused", "unspawned"},
               conn' = [conn EXCEPT ![c] = [@ EXCEPT !.pc = pc]], UNCHANGED acceptor
        PROVE  AdmissionInv'
    BY <1>1, <1>2, <1>4, GoKeeps DEF AcceptPcs
  <1> QED
    BY <1>3, <1>4 DEF Spawn

\* A release: the permits of each place of the code stay in order.
LEMMA ReleaseKeeps ==
    ASSUME AdmissionInv, NEW c \in Conns, NEW p \in Permits, Release(c, p),
           p \in conn[c].held, UNCHANGED <<slots, stopping, acceptor>>,
           conn[c].pc # "none",
           p = "ip" => "handshake" \notin conn[c].held \/ conn[c].pc = "unspawned"
    PROVE  AdmissionInv'
  <1>0. LocalPart /\ PermitPart /\ ProbePart
    BY InvParts
  <1>1. /\ Placed(conn[c]) /\ conn[c] \in Conn
        /\ acceptor \in {"top", "poll", "busy", "left"}
        /\ conn[c].pc \in AcceptPcs => acceptor = "busy"
    BY PlacedNow
  <1>2. PermitPart'
    <2>1. Key(c, p) \in Keys(p)
      <3>1. CASE p \in {"connection", "handshake"}
        BY <3>1, KeyIs
      <3>2. CASE p \in {"ip", "pending"}
        BY <3>2, <1>1, KeyIs DEF Placed
      <3>3. CASE p = "client"
        <4>1. conn[c].client \in Clients
          BY <3>3, <1>1 DEF Placed
        <4> QED
          BY <3>3, <4>1, KeyIs
      <3> QED
        BY <3>1, <3>2, <3>3 DEF Permits
    <2> QED
      BY <2>1, <1>0, ReleaseKeepsPermits
  <1> DEFINE n == [conn[c] EXCEPT !.held = @ \ {p}]
  <1>3. conn' = [conn EXCEPT ![c] = n]
    BY <1>0 DEF Release, LocalPart, Conn
  <1>4. n.pc = conn[c].pc /\ n.probes = conn[c].probes
    BY <1>1 DEF Conn
  <1>5. Placed(n)
    BY <1>1 DEF Placed, Conn
  <1> HIDE DEF n
  <1>6. LocalPart'
    BY <1>0, <1>1, <1>3, <1>4, <1>5, MoveKeepsLocal
  <1>7. ProbesStay
    BY <1>0, <1>3, <1>4 DEF ProbesStay, LocalPart
  <1> QED
    BY <1>0, <1>2, <1>6, <1>7, StayKeepsProbes, InvPartsNext

LEMMA DropPermitKeeps ==
    ASSUME AdmissionInv, NEW c \in Conns, DropPermit(c)
    PROVE  AdmissionInv'
  <1>1. UNCHANGED <<slots, stopping, acceptor>> /\ Placed(conn[c]) /\ conn[c] \in Conn
    BY PlacedNow DEF DropPermit
  <1>2. CASE conn[c].pc = "unspawned" /\ \E p \in conn[c].held : Release(c, p)
    <2>1. PICK p \in conn[c].held : Release(c, p)
      BY <1>2
    <2>2. p \in Permits
      BY <1>1 DEF Conn
    <2> QED
      BY <1>1, <1>2, <2>1, <2>2, ReleaseKeeps
  <1>3. CASE /\ conn[c].pc \in DOMAIN DropOrder
             /\ \E i \in DOMAIN DropOrder[conn[c].pc] :
                   /\ First(c, DropOrder[conn[c].pc], i)
                   /\ Release(c, DropOrder[conn[c].pc][i])
    <2>1. PICK order : order = DropOrder[conn[c].pc]
      OBVIOUS
    <2>2. PICK i \in DOMAIN order : First(c, order, i) /\ Release(c, order[i])
      BY <1>3, <2>1
    <2>3. PICK p : p = order[i]
      OBVIOUS
    <2>4. conn[c].pc \in {"refused", "failed", "shaken", "ended"}
      BY <1>3 DEF DropOrder
    <2>5. p \in Permits
          /\ (p = "ip" => "handshake" \notin conn[c].held)
      <3>1. CASE conn[c].pc = "refused"
        <4>1. order = <<"handshake", "pending", "ip", "connection">>
          BY <2>1, <3>1 DEF DropOrder
        <4> QED
          BY <4>1, <2>2, <2>3 DEF First, Permits
      <3>2. CASE conn[c].pc = "failed"
        <4>1. order = <<"pending", "handshake", "ip", "connection">>
          BY <2>1, <3>2 DEF DropOrder
        <4> QED
          BY <4>1, <2>2, <2>3 DEF First, Permits
      <3>3. CASE conn[c].pc = "shaken"
        <4>1. order = <<"handshake", "pending">>
          BY <2>1, <3>3 DEF DropOrder
        <4> QED
          BY <4>1, <2>2, <2>3 DEF First, Permits
      <3>4. CASE conn[c].pc = "ended"
        <4>1. order = <<"client", "ip", "connection">>
          BY <2>1, <3>4 DEF DropOrder
        <4>2. "handshake" \notin conn[c].held
          BY <3>4, <1>1 DEF Placed
        <4> QED
          BY <4>1, <4>2, <2>2, <2>3 DEF First, Permits
      <3> QED
        BY <2>4, <3>1, <3>2, <3>3, <3>4
    <2>6. p \in conn[c].held /\ Release(c, p)
      BY <2>2, <2>3 DEF First
    <2> QED
      BY <1>1, <2>4, <2>5, <2>6, ReleaseKeeps
  <1> QED
    BY <1>2, <1>3 DEF DropPermit

LEMMA EndedKeeps ==
    ASSUME AdmissionInv, NEW c \in Conns, Ended(c)
    PROVE  AdmissionInv'
  <1>1. /\ Placed(conn[c]) /\ conn[c] \in Conn /\ conn[c].held = {}
        /\ acceptor \in {"top", "poll", "busy", "left"}
        /\ conn[c].pc \in {"refused", "unspawned", "failed", "ended"}
    BY PlacedNow DEF Ended
  <1>2. /\ Placed(NoConn) /\ NoConn.held = {} /\ NoConn.probes = 0
        /\ NoConn.pc = "none"
    BY LimitsAssumption DEF NoConn, Conn, Placed, SessionPcs
  <1>3. conn[c].probes = 0
    BY <1>1 DEF Placed, SessionPcs
  <1>4. /\ conn' = [conn EXCEPT ![c] = NoConn] /\ UNCHANGED <<count, slots, stopping>>
        /\ acceptor' = IF conn[c].pc \in {"refused", "unspawned"} THEN "top"
                       ELSE acceptor
    BY DEF Ended
  <1> QED
    BY <1>1, <1>2, <1>3, <1>4, MoveKeeps DEF AcceptPcs

LEMMA HandshakeKeeps ==
    ASSUME AdmissionInv, NEW c \in Conns, Handshake(c)
    PROVE  AdmissionInv'
  <1>1. /\ Placed(conn[c]) /\ conn[c] \in Conn /\ conn[c].pc = "shaking"
        /\ acceptor \in {"top", "poll", "busy", "left"}
        /\ UNCHANGED <<count, slots, stopping, acceptor>>
    BY PlacedNow DEF Handshake
  <1>2. ASSUME NEW k \in Clients,
               conn' = [conn EXCEPT ![c] = [@ EXCEPT !.pc = "shaken", !.client = k]]
        PROVE  AdmissionInv'
    <2> DEFINE n == [conn[c] EXCEPT !.pc = "shaken", !.client = k]
    <2>1. conn' = [conn EXCEPT ![c] = n]
      BY <1>2
    <2>2. /\ n \in Conn /\ n.pc = "shaken" /\ n.client = k /\ n.held = conn[c].held
          /\ n.probes = conn[c].probes /\ n.ip = conn[c].ip
      BY <1>1 DEF Conn
    <2>3. Placed(n) /\ "client" \notin conn[c].held
      BY <1>1, <2>2 DEF Placed, SessionPcs
    <2> HIDE DEF n
    <2> QED
      BY <2>1, <2>2, <2>3, <1>1, MoveKeeps DEF AcceptPcs
  <1>3. CASE conn' = [conn EXCEPT ![c] = [@ EXCEPT !.pc = "failed"]]
    <2>1. Placed([conn[c] EXCEPT !.pc = "failed"])
      BY <1>1 DEF Placed, Conn, SessionPcs
    <2> QED
      BY <2>1, <1>1, <1>3, GoKeeps DEF AcceptPcs
  <1> QED
    BY <1>2, <1>3 DEF Handshake

LEMMA AdmitKeeps ==
    ASSUME AdmissionInv, NEW c \in Conns, Admit(c)
    PROVE  AdmissionInv'
  <1>0. LocalPart /\ PermitPart /\ ProbePart
    BY InvParts
  <1>1. /\ Placed(conn[c]) /\ conn[c] \in Conn /\ conn[c].pc = "shaken"
        /\ conn[c].held \cap {"handshake", "pending"} = {}
        /\ acceptor \in {"top", "poll", "busy", "left"}
        /\ UNCHANGED <<slots, stopping, acceptor>>
    BY PlacedNow DEF Admit
  <1>2. "client" \notin conn[c].held /\ conn[c].client \in Clients
    BY <1>1 DEF Placed, SessionPcs
  <1>3. CASE Free(c, "client") /\ Take(c, "client", "open")
    <2> DEFINE n == [conn[c] EXCEPT !.held = @ \cup {"client"}, !.pc = "open"]
    <2>1. conn' = [conn EXCEPT ![c] = n]
      BY <1>3, <1>0 DEF Take, LocalPart, Conn
    <2>2. Placed(n) /\ n.probes = conn[c].probes /\ n.pc = "open"
      BY <1>1, <1>2 DEF Placed, Conn, SessionPcs, Permits
    <2> HIDE DEF n
    <2>3. LocalPart'
      BY <2>1, <2>2, <1>0, <1>1, MoveKeepsLocal DEF AcceptPcs
    <2>4. PermitPart'
      <3>1. "client" \in Permits
        BY DEF Permits
      <3>2. Key(c, "client") \in Keys("client")
        BY <3>1, <1>2, KeyIs
      <3> QED
        BY <3>1, <3>2, <1>0, <1>2, <1>3, TakeKeepsPermits
    <2>5. ProbesStay
      BY <2>1, <2>2, <1>0, <1>1 DEF ProbesStay, LocalPart
    <2> QED
      BY <2>3, <2>4, <2>5, <1>0, StayKeepsProbes, InvPartsNext
  <1>4. CASE conn' = [conn EXCEPT ![c] = [@ EXCEPT !.pc = "ended"]] /\ UNCHANGED count
    <2>1. Placed([conn[c] EXCEPT !.pc = "ended"])
      BY <1>1, <1>2 DEF Placed, Conn, SessionPcs
    <2> QED
      BY <2>1, <1>1, <1>4, GoKeeps DEF AcceptPcs
  <1> QED
    BY <1>3, <1>4 DEF Admit

\* The rounds of a session, and the join of its probes.
LEMMA RoundKeeps ==
    ASSUME AdmissionInv, NEW c \in Conns,
           StartRound(c) \/ EndRound(c) \/ JoinProbes(c)
    PROVE  AdmissionInv'
  <1>1. /\ Placed(conn[c]) /\ conn[c] \in Conn
        /\ acceptor \in {"top", "poll", "busy", "left"}
        /\ UNCHANGED <<count, slots, stopping, acceptor>>
    BY PlacedNow DEF StartRound, EndRound, JoinProbes
  <1>2. ASSUME NEW pc \in {"open", "serving", "closing"},
               conn[c].pc \in {"open", "serving"},
               conn' = [conn EXCEPT ![c] = [@ EXCEPT !.pc = pc]]
        PROVE  AdmissionInv'
    <2>1. Placed([conn[c] EXCEPT !.pc = pc])
      BY <1>1, <1>2 DEF Placed, Conn, SessionPcs
    <2> QED
      BY <2>1, <1>1, <1>2, GoKeeps DEF AcceptPcs
  <1>3. CASE JoinProbes(c)
    <2>1. Placed([conn[c] EXCEPT !.pc = "ended"])
      BY <1>1, <1>3 DEF JoinProbes, Placed, Conn, SessionPcs
    <2> QED
      BY <2>1, <1>1, <1>3, GoKeeps DEF AcceptPcs, JoinProbes
  <1> QED
    BY <1>2, <1>3 DEF StartRound, EndRound

LEMMA LoadSlotsKeeps ==
    ASSUME AdmissionInv, NEW c \in Conns, LoadSlots(c)
    PROVE  AdmissionInv'
  <1>1. /\ Placed(conn[c]) /\ conn[c] \in Conn /\ conn[c].pc = "serving"
        /\ acceptor \in {"top", "poll", "busy", "left"}
        /\ conn[c].probes < ProbesPerConn /\ slots < ProbeLimit /\ slots \in Nat
        /\ UNCHANGED <<count, slots, stopping, acceptor>>
    BY PlacedNow, InvParts DEF LoadSlots, ProbePart
  <1> DEFINE n == [conn[c] EXCEPT !.pc = "cas", !.seen = slots]
  <1>2. conn' = [conn EXCEPT ![c] = n]
    BY DEF LoadSlots
  <1>3. /\ n \in Conn /\ n.pc = "cas" /\ n.seen = slots /\ n.held = conn[c].held
        /\ n.probes = conn[c].probes /\ n.ip = conn[c].ip /\ n.client = conn[c].client
    BY <1>1 DEF Conn
  <1>4. Placed(n)
    BY <1>1, <1>3 DEF Placed, SessionPcs
  <1> HIDE DEF n
  <1> QED
    BY <1>1, <1>2, <1>3, <1>4, MoveKeeps DEF AcceptPcs

LEMMA ExchangeSlotsKeeps ==
    ASSUME AdmissionInv, NEW c \in Conns, ExchangeSlots(c)
    PROVE  AdmissionInv'
  <1>0. LocalPart /\ PermitPart /\ ProbePart
    BY InvParts
  <1>1. /\ Placed(conn[c]) /\ conn[c] \in Conn /\ conn[c].pc = "cas"
        /\ acceptor \in {"top", "poll", "busy", "left"}
        /\ conn[c].seen < ProbeLimit /\ conn[c].probes < ProbesPerConn
        /\ conn[c].probes \in Nat /\ slots \in Nat
        /\ UNCHANGED <<count, stopping, acceptor>>
    BY <1>0, PlacedNow, LimitsAssumption DEF ExchangeSlots, Placed, ProbePart, Conn
  <1>2. ASSUME slots = conn[c].seen, slots' = slots + 1,
               NEW pc \in {"serving", "closing"},
               conn' = [conn EXCEPT ![c].pc = pc, ![c].seen = 0,
                                    ![c].probes = @ + 1]
        PROVE  AdmissionInv'
    <2> DEFINE n == [conn[c] EXCEPT !.pc = pc, !.seen = 0, !.probes = @ + 1]
    <2>1. conn' = [conn EXCEPT ![c] = n]
      BY <1>2, <1>0 DEF LocalPart, Conn
    <2>2. /\ n \in Conn /\ n.pc = pc /\ n.held = conn[c].held
          /\ n.probes = conn[c].probes + 1 /\ n.ip = conn[c].ip
          /\ n.client = conn[c].client
      <3>1. PICK m \in 0..ProbesPerConn : m = conn[c].probes + 1
        BY <1>1, LimitsAssumption
      <3>2. n = [conn[c] EXCEPT !.pc = pc, !.seen = 0, !.probes = m]
        BY <3>1
      <3> HIDE DEF n
      <3> QED
        BY <3>1, <3>2, <1>1 DEF Conn
    <2>3. Placed(n)
      BY <1>1, <2>2 DEF Placed, SessionPcs
    <2> HIDE DEF n
    <2>4. LocalPart'
      BY <2>1, <2>2, <2>3, <1>0, <1>1, MoveKeepsLocal DEF AcceptPcs
    <2>5. \A d \in Conns : conn'[d] = IF d = c THEN n ELSE conn[d]
      BY <2>1, <1>0 DEF LocalPart
    <2>6. PermitsStay
      BY <2>2, <2>5, <1>1 DEF PermitsStay
    <2>7. ProbePart'
      <3>1. \A d \in Conns : conn'[d].probes = IF d = c THEN conn[d].probes + 1
                                               ELSE conn[d].probes
        BY <2>2, <2>5
      <3>2. slots < ProbeLimit
        BY <1>1, <1>2
      <3> QED
        BY <3>1, <3>2, <1>0, <1>1, <1>2, StartKeepsProbes
    <2> QED
      BY <2>4, <2>6, <2>7, <1>0, StayKeepsPermits, InvPartsNext
  <1>3. CASE slots # conn[c].seen
    <2>1. PICK n : n = IF slots < ProbeLimit THEN [conn[c] EXCEPT !.seen = slots]
                       ELSE [conn[c] EXCEPT !.pc = "serving", !.seen = 0]
      OBVIOUS
    <2>2. conn' = [conn EXCEPT ![c] = n] /\ UNCHANGED slots
      BY <1>3, <2>1 DEF ExchangeSlots
    <2>3. /\ n \in Conn /\ n.held = conn[c].held
          /\ n.probes = conn[c].probes /\ n.ip = conn[c].ip
          /\ n.client = conn[c].client
          /\ (n.pc = "cas" /\ n.seen < ProbeLimit) \/ n.pc = "serving"
      BY <1>1, <2>1 DEF Conn
    <2>4. Placed(n)
      BY <1>1, <2>3 DEF Placed, SessionPcs
    <2> QED
      BY <1>1, <2>2, <2>3, <2>4, MoveKeeps DEF AcceptPcs
  <1> QED
    BY <1>2, <1>3 DEF ExchangeSlots

LEMMA EndProbeKeeps ==
    ASSUME AdmissionInv, NEW c \in Conns, EndProbe(c)
    PROVE  AdmissionInv'
  <1>0. LocalPart /\ PermitPart /\ ProbePart
    BY InvParts
  <1>1. /\ Placed(conn[c]) /\ conn[c] \in Conn /\ conn[c].probes > 0
        /\ acceptor \in {"top", "poll", "busy", "left"}
        /\ conn[c].pc \in AcceptPcs => acceptor = "busy"
        /\ conn[c].probes \in 0..ProbesPerConn
        /\ UNCHANGED <<count, stopping, acceptor>>
    BY PlacedNow DEF EndProbe, Conn
  <1> DEFINE n == [conn[c] EXCEPT !.probes = @ - 1]
  <1>2. conn' = [conn EXCEPT ![c] = n]
    BY <1>0 DEF EndProbe, LocalPart, Conn
  <1>3. /\ n \in Conn /\ n.pc = conn[c].pc /\ n.held = conn[c].held
        /\ n.seen = conn[c].seen
        /\ n.probes = conn[c].probes - 1 /\ n.ip = conn[c].ip
        /\ n.client = conn[c].client
    BY <1>1, LimitsAssumption DEF Conn
  <1>4. Placed(n)
    BY <1>1, <1>3, LimitsAssumption DEF Placed
  <1> HIDE DEF n
  <1>5. LocalPart'
    BY <1>2, <1>3, <1>4, <1>0, <1>1, MoveKeepsLocal
  <1>6. \A d \in Conns : conn'[d] = IF d = c THEN n ELSE conn[d]
    BY <1>2, <1>0 DEF LocalPart
  <1>7. PermitsStay
    BY <1>3, <1>6, <1>1 DEF PermitsStay
  <1>8. ProbePart'
    BY <1>3, <1>6, <1>0, <1>1, EndKeepsProbes DEF EndProbe
  <1> QED
    BY <1>5, <1>7, <1>8, <1>0, StayKeepsPermits, InvPartsNext

-----------------------------------------------------------------------------
(* The theorems *)

LEMMA AdmissionStep == AdmissionInv /\ [Next]_vars => AdmissionInv'
  <1> SUFFICES ASSUME AdmissionInv, [Next]_vars PROVE AdmissionInv'
    OBVIOUS
  <1>0. stopping \in BOOLEAN /\ acceptor \in {"top", "poll", "busy", "left"}
    BY InvParts DEF LocalPart
  <1>1. CASE UNCHANGED vars
    BY <1>0, <1>1, IdleKeeps DEF vars
  <1>2. CASE Top \/ NoPeer \/ RequestStop
    BY <1>0, <1>2, IdleKeeps DEF Top, NoPeer, RequestStop
  <1>3. ASSUME NEW c \in Conns, AcceptThread(c) \/ ConnThread(c) \/ EndProbe(c)
        PROVE  AdmissionInv'
    BY <1>3, AcceptKeeps, AcquireNextKeeps, SpawnKeeps, DropPermitKeeps, EndedKeeps,
       HandshakeKeeps, AdmitKeeps, RoundKeeps, LoadSlotsKeeps, ExchangeSlotsKeeps,
       EndProbeKeeps
       DEF AcceptThread, ConnThread
  <1> QED
    BY <1>1, <1>2, <1>3 DEF Next

LEMMA AdmissionInvariant == Spec => []AdmissionInv
  BY InitHolds, AdmissionStep, PTL DEF Spec, Safe

\* Every permit counter is the number of permits of its kind and key that some
\* thread owns, and the probe pool's is the number of probe threads: no step
\* of the accept loop, of a connection or of a probe loses or returns one twice.
THEOREM CountersAreExact == Spec => []CountersExact
  <1>1. AdmissionInv => CountersExact
    BY DEF AdmissionInv
  <1> QED
    BY <1>1, AdmissionInvariant, PTL

\* The limits hold for every address and client, and no address fills the
\* handshake pool: its threads with a permit of the address or of a handshake
\* stay within the limit per address, which is below the pool's.
THEOREM RoomIsLeft == Spec => []RoomLeft
  <1>1. ASSUME AdmissionInv PROVE RoomLeft
    <2>1. LimitsHold
      BY <1>1 DEF AdmissionInv, CountersExact, PermitsConserved, CountsBounded, LimitsHold
    <2>2. OneAddressLeavesRoom
      <3> SUFFICES ASSUME NEW ip \in Ips
                   PROVE  Cardinality({c \in Conns : "handshake" \in conn[c].held
                                                     /\ conn[c].ip = ip})
                              < Limit["handshake"]
        BY DEF OneAddressLeavesRoom
      <3> DEFINE S == {c \in Conns : "handshake" \in conn[c].held /\ conn[c].ip = ip}
      <3>1. S \subseteq Reserved(ip)
        BY DEF Reserved
      <3>2. IsFiniteSet(Reserved(ip)) /\ Cardinality(Reserved(ip)) \in Nat
        BY ConnsFinite DEF Reserved
      <3>3. Cardinality(S) \in Nat /\ Cardinality(S) <= Cardinality(Reserved(ip))
        BY <3>1, <3>2, CardinalitySub
      <3>4. Cardinality(Reserved(ip)) <= Limit["ip"]
        BY <1>1 DEF AdmissionInv, AddressBounded
      <3>5. Limit["ip"] \in Nat /\ Limit["handshake"] \in Nat
        BY LimitTypes DEF Permits
      <3> HIDE DEF S
      <3> QED
        BY <3>2, <3>3, <3>4, <3>5, HandshakeAssumption DEF S
    <2> QED
      BY <2>1, <2>2 DEF RoomLeft
  <1> QED
    BY <1>1, AdmissionInvariant, PTL
=============================================================================
