-------------------------- MODULE ServerPartsProofs --------------------------
(***************************************************************************)
(* Proofs about four components of a server process that share no state:   *)
(* the rate limiter, the choice of the route of a packet, a probe and the  *)
(* process-wide logger.                                                    *)
(***************************************************************************)
EXTENDS RateLimiter, WakeRoute, Probe, Logging, FiniteSetTheorems, TLAPS

-----------------------------------------------------------------------------
(* RateLimiter *)

LEMMA RateStarts ==
    ASSUME RateAssumption, RateInit
    PROVE  RateInv
  <1> USE DEF RateAssumption, RateInit
  <1>1. DOMAIN buckets = {} /\ IsFiniteSet(DOMAIN buckets) /\ Cardinality(DOMAIN buckets) = 0
    BY FS_EmptySet
  <1>2. RateTypeOK
    BY <1>1 DEF RateTypeOK
  <1>3. CallsTimely
    BY DEF CallsTimely, Idle
  <1>4. Counted(buckets)
    <2>1. ASSUME NEW k \in Keys, NEW a \in Ages
          PROVE  Total(k, a) = 0
      <3>1. Pending(k, 0) = {}
        BY DEF Pending, Idle
      <3>2. Cardinality(Pending(k, 0)) = 0
        BY <3>1, FS_EmptySet
      <3>3. served[k][a] = 0
        OBVIOUS
      <3> QED
        BY <3>2, <3>3 DEF Total
    <2> QED
      BY <1>1, <2>1 DEF Counted
  <1> QED
    BY <1>1, <1>2, <1>3, <1>4 DEF RateInv, RoomForTheActive

\* What is pending is finite, and none of it was charged after now.
LEMMA PendingFinite ==
    ASSUME RateAssumption, NEW k, NEW t
    PROVE  IsFiniteSet(Pending(k, t)) /\ Cardinality(Pending(k, t)) \in Nat
  <1>1. Pending(k, t) \subseteq Sessions
    BY DEF Pending
  <1> QED
    BY <1>1, FS_Subset, FS_CardinalityType DEF RateAssumption

LEMMA LoadsAreNumbers ==
    ASSUME RateAssumption, CallsTimely, NEW k \in Keys
    PROVE  /\ \A t \in Nat : Load(k, t) \in Nat /\ Recent(k, t) \in Nat
           /\ \A a \in Ages : Total(k, a) \in Nat /\ served[k][a] \in Nat
  <1>1. \A t \in Nat : Cardinality(Pending(k, t)) \in Nat
    BY PendingFinite
  <1> QED
    BY <1>1 DEF CallsTimely, Load, Recent, Total

LEMMA NextLoadsAreNumbers ==
    ASSUME RateAssumption, CallsTimely', NEW k \in Keys
    PROVE  /\ \A t \in Nat : Load(k, t)' \in Nat /\ Recent(k, t)' \in Nat
           /\ \A a \in Ages : Total(k, a)' \in Nat /\ served'[k][a] \in Nat
  <1>1. ASSUME NEW t \in Nat
        PROVE  Cardinality(Pending(k, t)') \in Nat
    <2>1. Pending(k, t)' \subseteq Sessions
      BY DEF Pending
    <2> QED
      BY <2>1, FS_Subset, FS_CardinalityType DEF RateAssumption
  <1>2. \A t \in Nat : Recent(k, t)' \in Nat
    BY DEF CallsTimely, Recent
  <1> QED
    BY <1>1, <1>2 DEF CallsTimely, Load, Total

\* Once the window of a bucket is over, its first request is older than the ages
\* looked at, and so is what the bucket before it has left.
LEMMA ExpiredRest ==
    ASSUME RateAssumption, CallsTimely, RateTypeOK, Counted(buckets),
           NEW k \in DOMAIN buckets, now >= buckets[k].started + Window,
           NEW a \in Ages
    PROVE  Total(k, a) < Limit
  <1> USE DEF RateAssumption, RateTypeOK
  <1>1. k \in Keys /\ buckets[k].started \in Nat /\ buckets[k].count \in Nat /\ now \in Nat
        /\ buckets[k].count <= Limit
    OBVIOUS
  <1> DEFINE t == now - a - Lag
  <1>2. a \in Nat /\ t \in 0..now /\ t > buckets[k].started + Lag
        /\ t <= now - Lag /\ now - t - Lag = a
    BY <1>1 DEF Ages
  <1> HIDE DEF t
  <1>3. Pending(k, 0) = Pending(k, t)
    BY <1>1, <1>2 DEF Pending, CallsTimely
  <1>4. Recent(k, t) = served[k][a]
    BY <1>2 DEF Recent
  <1>5. Load(k, t) < buckets[k].count
    BY <1>1, <1>2 DEF Counted
  <1>6. Total(k, a) = Load(k, t)
    BY <1>3, <1>4 DEF Total, Load
  <1> QED
    BY <1>1, <1>2, <1>5, <1>6, LoadsAreNumbers

\* The table that retain leaves counts as well as the one before.
LEMMA RetainedCounts ==
    ASSUME RateAssumption, RateInv, NEW when \in Nat, when <= now
    PROVE  LET r == Retained(buckets, when) IN
           /\ Counted(r)
           /\ DOMAIN r \subseteq DOMAIN buckets
           /\ \A k \in DOMAIN r : r[k] = buckets[k] /\ Since(when, buckets[k].started) < Window
           /\ IsFiniteSet(DOMAIN r) /\ Cardinality(DOMAIN r) <= MaxKeys
  <1> DEFINE r == Retained(buckets, when)
  <1>1. /\ DOMAIN r \subseteq DOMAIN buckets
        /\ \A k \in DOMAIN r : r[k] = buckets[k] /\ Since(when, buckets[k].started) < Window
        /\ \A k \in DOMAIN buckets \ DOMAIN r : ~(Since(when, buckets[k].started) < Window)
    BY DEF Retained
  <1>2. IsFiniteSet(DOMAIN r) /\ Cardinality(DOMAIN r) <= MaxKeys
    <2>1. IsFiniteSet(DOMAIN r) /\ Cardinality(DOMAIN r) <= Cardinality(DOMAIN buckets)
      BY <1>1, FS_Subset DEF RateInv
    <2>2. Cardinality(DOMAIN r) \in Nat /\ Cardinality(DOMAIN buckets) \in Nat
      BY <2>1, FS_CardinalityType DEF RateInv
    <2> QED
      BY <2>1, <2>2 DEF RateInv, RateTypeOK, RateAssumption
  <1> HIDE DEF r
  <1>3. ASSUME NEW k \in DOMAIN buckets \ DOMAIN r, NEW a \in Ages
        PROVE  Total(k, a) < Limit
    <2>1. now >= buckets[k].started + Window
      BY <1>1, <1>3 DEF Since, RateInv, RateTypeOK, RateAssumption
    <2> QED
      BY <2>1, <1>3, ExpiredRest DEF RateInv
  <1>4. Counted(r)
    BY <1>1, <1>3 DEF Counted, RateInv
  <1> QED
    BY <1>1, <1>2, <1>4 DEF r

\* A charge leaves every request counted, if what waits or was let through has
\* grown by no more than the one request that was allowed.
LEMMA ChargeCounts ==
    ASSUME RateAssumption, RateInv, NEW key \in Keys, NEW when \in Nat,
           when <= now, now - when <= Lag, now' = now, Charge(key, when), CallsTimely',
           \A k \in Keys :
              /\ \A t \in 0..now : Load(k, t)' <= Load(k, t)
                    + (IF k = key /\ Allows(buckets, key, when) THEN 1 ELSE 0)
              /\ \A a \in Ages : Total(k, a)' <= Total(k, a)
                    + (IF k = key /\ Allows(buckets, key, when) THEN 1 ELSE 0)
    PROVE  RateInv'
  <1> DEFINE r == Retained(buckets, when)
             u == Bucket(r, key, when)
  <1>1. /\ Counted(r) /\ DOMAIN r \subseteq DOMAIN buckets
        /\ \A k \in DOMAIN r : r[k] = buckets[k] /\ Since(when, buckets[k].started) < Window
        /\ IsFiniteSet(DOMAIN r) /\ Cardinality(DOMAIN r) <= MaxKeys
    BY RetainedCounts
  <1>2. buckets' = IF Full(r, key) THEN r
                   ELSE [x \in DOMAIN r \cup {key} |->
                           IF x # key THEN r[x]
                           ELSE [u EXCEPT !.count = IF @ < Limit THEN @ + 1 ELSE @]]
    BY DEF Charge, After
  <1>3. held' = (held \/ (Full(r, key) /\ Stale(r)))
    BY DEF Charge
  <1>4. Allows(buckets, key, when) <=> ~Full(r, key) /\ u.count < Limit
    BY DEF Allows
  <1>5. u = IF key \in DOMAIN r THEN r[key] ELSE [started |-> when, count |-> 0]
    BY DEF Bucket
  <1>6. Full(r, key) <=> Cardinality(DOMAIN r) >= MaxKeys /\ key \notin DOMAIN r
    BY DEF Full
  <1> HIDE DEF r, u
  <1>7. /\ \A k \in DOMAIN r : k \in Keys /\ r[k].started \in 0..now /\ r[k].count \in 1..Limit
        /\ now \in 0..MaxTime /\ now \in Nat /\ Limit \in Nat \ {0}
    BY <1>1 DEF RateInv, RateTypeOK, RateAssumption
  <1>8. u.started \in 0..now /\ u.count \in 0..Limit /\ u.started <= now
    BY <1>5, <1>7
  <1>9. u \in [started : Nat, count : Nat] /\ r \in [DOMAIN r -> [started : Nat, count : Nat]]
    <2>1. r \in [DOMAIN r -> [started : Nat, count : Nat]]
      BY <1>1 DEF RateInv, r, Retained
    <2> QED
      BY <1>5, <2>1
  <1>10. RoomForTheActive'
    <2>1. ~Stale(r)
      BY <1>1, <1>7 DEF Stale, Since, RateAssumption
    <2> QED
      BY <1>3, <2>1 DEF RoomForTheActive, RateInv
  <1>11. ASSUME ~Full(r, key)
        PROVE  /\ DOMAIN buckets' = DOMAIN r \cup {key}
               /\ \A x \in DOMAIN r \ {key} : buckets'[x] = r[x]
               /\ buckets'[key].started = u.started
               /\ buckets'[key].count = IF u.count < Limit THEN u.count + 1 ELSE u.count
    <2>1. buckets' = [x \in DOMAIN r \cup {key} |->
                           IF x # key THEN r[x]
                           ELSE [u EXCEPT !.count = IF u.count < Limit THEN u.count + 1 ELSE u.count]]
      BY <1>2, <1>11
    <2>2. buckets'[key] = [u EXCEPT !.count = IF u.count < Limit THEN u.count + 1 ELSE u.count]
      BY <2>1
    <2> QED
      BY <1>1, <1>9, <2>1, <2>2
  <1>12. ASSUME NEW k \in Keys
         PROVE  /\ \A t \in 0..now : Load(k, t) \in Nat /\ Load(k, t)' \in Nat
                /\ \A a \in Ages : Total(k, a) \in Nat /\ Total(k, a)' \in Nat
    BY <1>12, LoadsAreNumbers, NextLoadsAreNumbers DEF RateInv
  <1>13. CASE Full(r, key)
    <2>1. buckets' = r /\ ~Allows(buckets, key, when)
      BY <1>2, <1>4, <1>13
    <2>2. Counted(buckets)'
      <3> SUFFICES ASSUME NEW k \in Keys
                   PROVE  IF k \in DOMAIN r
                          THEN /\ \A t \in 0..now : t > r[k].started + Lag => Load(k, t)' < r[k].count
                               /\ \A a \in Ages : Total(k, a)' < r[k].count + Limit
                          ELSE \A a \in Ages : Total(k, a)' < Limit
        BY <2>1 DEF Counted
      <3> QED
        BY <1>1, <1>7, <1>12, <2>1 DEF Counted
    <2>3. RateTypeOK' /\ IsFiniteSet(DOMAIN buckets') /\ buckets' \in [DOMAIN buckets' -> [started : Nat, count : Nat]]
      BY <1>1, <1>7, <1>9, <2>1 DEF RateTypeOK
    <2> QED
      BY <1>10, <2>2, <2>3 DEF RateInv
  <1>14. CASE ~Full(r, key)
    <2>1. /\ DOMAIN buckets' = DOMAIN r \cup {key}
          /\ \A x \in DOMAIN r \ {key} : buckets'[x] = r[x]
          /\ buckets'[key].started = u.started
          /\ buckets'[key].count = IF u.count < Limit THEN u.count + 1 ELSE u.count
      BY <1>11, <1>14
    <2>2. Allows(buckets, key, when) <=> u.count < Limit
      BY <1>4, <1>14
    <2>3. ASSUME NEW k \in Keys, k # key
          PROVE  IF k \in DOMAIN buckets'
                 THEN /\ \A t \in 0..now : t > buckets'[k].started + Lag => Load(k, t)' < buckets'[k].count
                      /\ \A a \in Ages : Total(k, a)' < buckets'[k].count + Limit
                 ELSE \A a \in Ages : Total(k, a)' < Limit
      <3>1. /\ \A t \in 0..now : Load(k, t)' <= Load(k, t)
            /\ \A a \in Ages : Total(k, a)' <= Total(k, a)
        BY <1>12, <2>3
      <3>2. k \in DOMAIN buckets' <=> k \in DOMAIN r
        BY <2>1, <2>3
      <3> QED
        BY <1>1, <1>7, <1>12, <2>1, <2>3, <3>1, <3>2 DEF Counted
    <2>4. /\ \A t \in 0..now : t > buckets'[key].started + Lag => Load(key, t)' < buckets'[key].count
          /\ \A a \in Ages : Total(key, a)' < buckets'[key].count + Limit
      <3>1. CASE key \in DOMAIN r
        <4>1. /\ \A t \in 0..now : t > u.started + Lag => Load(key, t) < u.count
              /\ \A a \in Ages : Total(key, a) < u.count + Limit
          BY <1>1, <1>5, <3>1 DEF Counted
        <4> QED
          BY <1>7, <1>8, <1>12, <2>1, <2>2, <4>1
      <3>2. CASE key \notin DOMAIN r
        <4>1. u.started = when /\ u.count = 0
          BY <1>5, <3>2
        <4>2. \A a \in Ages : Total(key, a) < Limit
          BY <1>1, <3>2 DEF Counted
        <4> QED
          BY <1>7, <1>12, <2>1, <2>2, <4>1, <4>2 DEF RateAssumption
      <3> QED
        BY <3>1, <3>2
    <2>5. Counted(buckets)'
      BY <2>1, <2>3, <2>4 DEF Counted
    <2>6. IsFiniteSet(DOMAIN buckets') /\ Cardinality(DOMAIN buckets') <= MaxKeys
      <3>1. CASE key \in DOMAIN r
        <4>1. DOMAIN buckets' = DOMAIN r
          BY <2>1, <3>1
        <4> QED
          BY <1>1, <4>1
      <3>2. CASE key \notin DOMAIN r
        <4>1. Cardinality(DOMAIN r) \in Nat /\ Cardinality(DOMAIN r) < MaxKeys
          BY <1>1, <1>6, <1>14, <3>2, FS_CardinalityType DEF RateAssumption
        <4>2. /\ IsFiniteSet(DOMAIN r \cup {key})
              /\ Cardinality(DOMAIN r \cup {key}) = Cardinality(DOMAIN r) + 1
          BY <1>1, <3>2, FS_AddElement
        <4> QED
          BY <2>1, <4>1, <4>2 DEF RateAssumption
      <3> QED
        BY <3>1, <3>2
    <2>7. buckets' \in [DOMAIN buckets' -> [started : Nat, count : Nat]]
      <3>1. [u EXCEPT !.count = IF u.count < Limit THEN u.count + 1 ELSE u.count]
                \in [started : Nat, count : Nat]
        BY <1>7, <1>8, <1>9
      <3>2. buckets' = [x \in DOMAIN r \cup {key} |->
                           IF x # key THEN r[x]
                           ELSE [u EXCEPT !.count = IF u.count < Limit THEN u.count + 1 ELSE u.count]]
        BY <1>2, <1>14
      <3> QED
        BY <1>9, <3>1, <3>2
    <2>8. RateTypeOK'
      BY <1>7, <1>8, <2>1, <2>6 DEF RateTypeOK
    <2> QED
      BY <1>10, <2>5, <2>6, <2>7, <2>8 DEF RateInv
  <1> QED
    BY <1>13, <1>14

\* The address is charged first; a request that it lets through waits for the
\* answer about its client.
LEMMA AllowIpKeeps ==
    ASSUME RateAssumption, RateInv, NEW s \in Sessions, AllowIp(s)
    PROVE  RateInv'
  <1> DEFINE when == call[s].at
             ok == Allows(buckets, s[1], when)
  <1>1. s[1] \in Ips /\ s[1] \in Keys /\ when \in Nat /\ when <= now /\ now - when <= Lag /\ now \in Nat
    BY DEF AllowIp, RateAssumption, RateInv, CallsTimely, RateTypeOK, Keys
  <1>2. Charge(s[1], when) /\ now' = now /\ served' = served
    BY DEF AllowIp
  <1>3. /\ call' = [call EXCEPT ![s] = [pc |-> "client", at |-> now, ok |-> ok]]
        /\ call[s].pc = "ip"
    BY DEF AllowIp, Read
  <1>4. ok \in BOOLEAN
    BY DEF Allows
  <1> HIDE DEF when, ok
  <1>5. /\ call'[s] = [pc |-> "client", at |-> now, ok |-> ok]
        /\ \A x \in Sessions \ {s} : call'[x] = call[x]
    BY <1>3 DEF RateInv, CallsTimely
  <1>6. CallsTimely'
    BY <1>1, <1>2, <1>3, <1>4, <1>5 DEF RateInv, CallsTimely, RateAssumption
  <1>7. ASSUME NEW k \in Keys, NEW t \in 0..now
        PROVE  Cardinality(Pending(k, t)') <= Cardinality(Pending(k, t))
                                                + (IF k = s[1] /\ ok THEN 1 ELSE 0)
    <2>1. s \notin Pending(k, t)
      BY <1>3 DEF Pending
    <2>2. IsFiniteSet(Pending(k, t)) /\ Cardinality(Pending(k, t)) \in Nat
      BY PendingFinite
    <2>3. CASE k = s[1] /\ ok
      <3>1. Pending(k, t)' = Pending(k, t) \cup {s}
        BY <1>1, <1>5, <1>7, <2>3 DEF Pending
      <3>2. Cardinality(Pending(k, t) \cup {s}) = Cardinality(Pending(k, t)) + 1
        BY <2>1, <2>2, FS_AddElement
      <3> QED
        BY <2>2, <2>3, <3>1, <3>2
    <2>4. CASE ~(k = s[1] /\ ok)
      <3>1. Pending(k, t)' = Pending(k, t)
        BY <1>5, <2>1, <2>4 DEF Pending
      <3> QED
        BY <2>2, <2>4, <3>1
    <2> QED
      BY <2>3, <2>4
  <1>8. ASSUME NEW k \in Keys
        PROVE  /\ \A t \in 0..now : Load(k, t)' <= Load(k, t) + (IF k = s[1] /\ ok THEN 1 ELSE 0)
               /\ \A a \in Ages : Total(k, a)' <= Total(k, a) + (IF k = s[1] /\ ok THEN 1 ELSE 0)
    <2>1. \A t \in Nat : Recent(k, t)' = Recent(k, t)
      BY <1>2 DEF Recent
    <2>2. \A t \in Nat : /\ Cardinality(Pending(k, t)) \in Nat /\ Recent(k, t) \in Nat
                         /\ Cardinality(Pending(k, t)') \in Nat
      <3>1. ASSUME NEW t \in Nat PROVE Cardinality(Pending(k, t)') \in Nat
        <4>1. Pending(k, t)' \subseteq Sessions
          BY DEF Pending
        <4> QED
          BY <4>1, FS_Subset, FS_CardinalityType DEF RateAssumption
      <3> QED
        BY <3>1, PendingFinite, LoadsAreNumbers DEF RateInv
    <2>3. \A a \in Ages : served[k][a] \in Nat
      BY LoadsAreNumbers DEF RateInv
    <2>4. \A t \in 0..now : Load(k, t)' <= Load(k, t) + (IF k = s[1] /\ ok THEN 1 ELSE 0)
      BY <1>1, <1>7, <2>1, <2>2 DEF Load
    <2>5. Cardinality(Pending(k, 0)') <= Cardinality(Pending(k, 0)) + (IF k = s[1] /\ ok THEN 1 ELSE 0)
      BY <1>1, <1>7
    <2>6. ASSUME NEW a \in Ages
          PROVE  Total(k, a)' <= Total(k, a) + (IF k = s[1] /\ ok THEN 1 ELSE 0)
      BY <1>2, <2>2, <2>3, <2>5 DEF Total
    <2> QED
      BY <2>4, <2>6
  <1> QED
    BY <1>1, <1>2, <1>6, <1>8, ChargeCounts DEF ok

\* A request that is let through no longer waits: for its address it only
\* changes from one to the other, for its client it is new, and charged now.
LEMMA AllowClientKeeps ==
    ASSUME RateAssumption, RateInv, NEW s \in Sessions, AllowClient(s)
    PROVE  RateInv'
  <1> DEFINE when == call[s].at
             allowed == Allows(buckets, s[2], when)
             ok == Both(call[s].ok, allowed)
  <1>1. /\ s[1] \in Ips /\ s[1] \in Keys /\ s[2] \in Keys /\ s[1] # s[2]
        /\ when \in Nat /\ when <= now /\ now - when <= Lag /\ now \in Nat
    BY DEF AllowClient, RateAssumption, RateInv, CallsTimely, RateTypeOK, Keys
  <1>2. /\ Charge(s[2], when) /\ now' = now
        /\ served' = [k \in Keys |-> IF ok /\ k \in {s[1], s[2]}
                                     THEN [a \in Ages |-> served[k][a] + 1] ELSE served[k]]
    BY DEF AllowClient
  <1>3. call' = [call EXCEPT ![s] = Idle] /\ call[s].pc = "client"
    BY DEF AllowClient
  <1>4. ok => call[s].ok /\ allowed
    BY DEF Both
  <1>5. ok => s \in Pending(s[1], 0) /\ \A t \in Nat : t <= when => s \in Pending(s[1], t)
    BY <1>1, <1>3, <1>4 DEF Pending
  <1> HIDE DEF when, ok, allowed
  <1>6. /\ call'[s].pc = "idle"
        /\ \A x \in Sessions \ {s} : call'[x] = call[x]
        /\ call' \in [Sessions -> [pc : {"idle", "ip", "client"}, at : Nat, ok : BOOLEAN]]
    BY <1>3 DEF RateInv, CallsTimely, Idle
  <1>7. /\ served' \in [Keys -> [Ages -> Nat]]
        /\ \A k \in Keys : \A a \in Ages :
              /\ served[k][a] \in Nat
              /\ served'[k][a] = served[k][a] + (IF ok /\ k \in {s[1], s[2]} THEN 1 ELSE 0)
    BY <1>2 DEF RateInv, CallsTimely
  <1>8. CallsTimely'
    BY <1>2, <1>6, <1>7 DEF RateInv, CallsTimely
  <1>9. ASSUME NEW k \in Keys, NEW t \in Nat
        PROVE  /\ Cardinality(Pending(k, t)) \in Nat /\ Cardinality(Pending(k, t)') \in Nat
               /\ Cardinality(Pending(k, t)') <= Cardinality(Pending(k, t))
               /\ s \in Pending(k, t) => Cardinality(Pending(k, t)') = Cardinality(Pending(k, t)) - 1
    <2>1. Pending(k, t)' = Pending(k, t) \ {s}
      BY <1>6 DEF Pending
    <2>2. IsFiniteSet(Pending(k, t)) /\ Cardinality(Pending(k, t)) \in Nat
      BY PendingFinite
    <2>3. Cardinality(Pending(k, t) \ {s}) = IF s \in Pending(k, t) THEN Cardinality(Pending(k, t)) - 1
                                             ELSE Cardinality(Pending(k, t))
      BY <2>2, FS_RemoveElement
    <2>4. IsFiniteSet(Pending(k, t) \ {s})
      BY <2>2, FS_RemoveElement
    <2>5. Cardinality(Pending(k, t) \ {s}) \in Nat
      BY <2>4, FS_CardinalityType
    <2> QED
      BY <2>1, <2>2, <2>3, <2>5
  <1>10. ASSUME NEW k \in Keys, NEW t \in 0..now
         PROVE  Load(k, t)' <= Load(k, t) + (IF k = s[2] /\ allowed THEN 1 ELSE 0)
    <2>1. t \in Nat /\ Recent(k, t) \in Nat
      BY <1>1, LoadsAreNumbers DEF RateInv
    <2>2. Recent(k, t)' = Recent(k, t) + (IF ok /\ k \in {s[1], s[2]} /\ now - t - Lag \in Ages THEN 1 ELSE 0)
      BY <1>1, <1>2, <1>7 DEF Recent
    <2>3. now - t - Lag \in Ages => t <= when
      BY <1>1 DEF Ages, RateAssumption
    <2>4. ok /\ k = s[1] /\ now - t - Lag \in Ages => s \in Pending(k, t)
      BY <1>5, <2>1, <2>3
    <2> QED
      BY <1>1, <1>4, <1>9, <2>1, <2>2, <2>4, SMTT(30) DEF Load
  <1>11. ASSUME NEW k \in Keys, NEW a \in Ages
         PROVE  Total(k, a)' <= Total(k, a) + (IF k = s[2] /\ allowed THEN 1 ELSE 0)
    <2>1. ok /\ k = s[1] => s \in Pending(k, 0)
      BY <1>5
    <2> QED
      BY <1>1, <1>4, <1>7, <1>9, <2>1 DEF Total
  <1> QED
    BY <1>1, <1>2, <1>8, <1>10, <1>11, ChargeCounts DEF allowed

LEMMA TickKeeps ==
    ASSUME RateAssumption, RateInv, Tick
    PROVE  RateInv'
  <1> USE DEF RateAssumption
  <1>1. /\ now' = now + 1 /\ now \in Nat /\ now' \in 0..MaxTime
        /\ buckets' = buckets /\ call' = call /\ held' = held
    BY DEF Tick, RateInv, RateTypeOK
  <1>2. \A k \in Keys : \A a \in Ages :
           /\ served[k][a] \in Nat
           /\ served'[k][a] = IF a = 0 THEN 0 ELSE served[k][a - 1]
    BY DEF Tick, RateInv, CallsTimely
  <1>3. Ages \subseteq Nat /\ \A a \in Ages : a # 0 => a - 1 \in Ages
    BY DEF Ages
  <1>4. CallsTimely'
    <2>1. served' \in [Keys -> [Ages -> Nat]]
      BY <1>2, <1>3 DEF Tick
    <2>2. \A s \in Sessions : call[s].pc # "idle" => call[s].at <= now /\ now - call[s].at < Lag
                                                     /\ call[s].at \in Nat
      BY DEF Tick, RateInv, CallsTimely
    <2> QED
      BY <1>1, <2>1, <2>2 DEF RateInv, CallsTimely
  <1>5. RateTypeOK' /\ RoomForTheActive' /\ IsFiniteSet(DOMAIN buckets')
        /\ buckets' \in [DOMAIN buckets' -> [started : Nat, count : Nat]]
    BY <1>1 DEF RateInv, RateTypeOK, RoomForTheActive
  <1>6. ASSUME NEW k \in Keys
        PROVE  /\ \A t \in Nat : Pending(k, t)' = Pending(k, t)
               /\ \A t \in Nat : Cardinality(Pending(k, t)) \in Nat
               /\ \A t \in Nat : t = now + 1 => Cardinality(Pending(k, t)) = 0
    <2>1. \A t \in Nat : t = now + 1 => Pending(k, t) = {}
      BY <1>1 DEF Pending, RateInv, CallsTimely
    <2>2. \A t \in Nat : Pending(k, t)' = Pending(k, t)
      BY <1>1 DEF Pending
    <2> QED
      BY <2>1, <2>2, PendingFinite, FS_EmptySet
  <1>7. ASSUME NEW k \in Keys, NEW t \in 0..now
        PROVE  Load(k, t)' <= Load(k, t) /\ Load(k, t) \in Nat /\ Load(k, t)' \in Nat
    <2>1. t \in Nat /\ Recent(k, t) \in Nat /\ Load(k, t) \in Nat /\ Load(k, t)' \in Nat
      BY <1>1, <1>4, LoadsAreNumbers, NextLoadsAreNumbers DEF RateInv
    <2>2. Recent(k, t)' <= Recent(k, t) /\ Recent(k, t)' \in Nat
      BY <1>1, <1>2, <1>3, <2>1 DEF Recent, Ages
    <2> QED
      BY <1>6, <2>1, <2>2 DEF Load
  <1>8. ASSUME NEW k \in Keys, NEW t \in Nat, t = now + 1
        PROVE  Load(k, t)' = 0
    <2>1. Recent(k, t)' = 0
      BY <1>1, <1>2, <1>8 DEF Recent, Ages
    <2> QED
      BY <1>1, <1>6, <1>8, <2>1 DEF Load
  <1>9. ASSUME NEW k \in Keys, NEW a \in Ages
        PROVE  \E b \in Ages : Total(k, a)' <= Total(k, b) /\ Total(k, b) \in Nat /\ Total(k, a)' \in Nat
    <2>1. CASE a = 0
      <3>1. Total(k, a)' <= Total(k, a)
        BY <1>2, <1>6, <2>1 DEF Total
      <3> QED
        BY <1>4, <3>1, LoadsAreNumbers, NextLoadsAreNumbers DEF RateInv
    <2>2. CASE a # 0
      <3>1. Total(k, a)' = Total(k, a - 1) /\ a - 1 \in Ages
        BY <1>2, <1>3, <1>6, <2>2 DEF Total
      <3> QED
        BY <1>4, <3>1, LoadsAreNumbers, NextLoadsAreNumbers DEF RateInv
    <2> QED
      BY <2>1, <2>2
  <1>10. Counted(buckets)'
    <2> SUFFICES ASSUME NEW k \in Keys
                 PROVE  IF k \in DOMAIN buckets
                        THEN /\ \A t \in 0..now' : t > buckets[k].started + Lag => Load(k, t)' < buckets[k].count
                             /\ \A a \in Ages : Total(k, a)' < buckets[k].count + Limit
                        ELSE \A a \in Ages : Total(k, a)' < Limit
      BY <1>1 DEF Counted
    <2>1. CASE k \in DOMAIN buckets
      <3>1. buckets[k].count \in Nat \ {0} /\ buckets[k].started \in Nat
        BY <2>1 DEF RateInv, RateTypeOK
      <3>2. ASSUME NEW t \in 0..now', t > buckets[k].started + Lag
            PROVE  Load(k, t)' < buckets[k].count
        <4>1. CASE t = now + 1
          BY <1>1, <1>8, <3>1, <4>1
        <4>2. CASE t # now + 1
          <5>1. t \in 0..now
            BY <1>1, <4>2
          <5>2. Load(k, t) < buckets[k].count
            BY <2>1, <3>2, <5>1 DEF RateInv, Counted
          <5> QED
            BY <1>7, <3>1, <5>1, <5>2
        <4> QED
          BY <4>1, <4>2
      <3>3. \A b \in Ages : Total(k, b) < buckets[k].count + Limit
        BY <2>1 DEF RateInv, Counted
      <3>4. \A a \in Ages : Total(k, a)' < buckets[k].count + Limit
        BY <1>9, <3>1, <3>3
      <3> QED
        BY <2>1, <3>2, <3>4
    <2>2. CASE k \notin DOMAIN buckets
      <3>1. \A b \in Ages : Total(k, b) < Limit
        BY <2>2 DEF RateInv, Counted
      <3> QED
        BY <1>9, <2>2, <3>1
    <2> QED
      BY <2>1, <2>2
  <1> QED
    BY <1>4, <1>5, <1>10 DEF RateInv

LEMMA ArriveKeeps ==
    ASSUME RateAssumption, RateInv, NEW s \in Sessions, Arrive(s)
    PROVE  RateInv'
  <1> USE DEF RateAssumption
  <1>1. /\ now' = now /\ buckets' = buckets /\ served' = served /\ held' = held /\ now \in Nat
        /\ call' = [call EXCEPT ![s] = [pc |-> "ip", at |-> now, ok |-> TRUE]]
        /\ call[s].pc = "idle"
    BY DEF Arrive, Read, RateInv, RateTypeOK
  <1>2. /\ call'[s] = [pc |-> "ip", at |-> now, ok |-> TRUE]
        /\ \A x \in Sessions \ {s} : call'[x] = call[x]
    BY <1>1 DEF RateInv, CallsTimely
  <1>3. CallsTimely'
    BY <1>1, <1>2 DEF RateInv, CallsTimely
  <1>4. \A k \in Keys : \A t \in Nat : Pending(k, t)' = Pending(k, t)
    BY <1>1, <1>2 DEF Pending
  <1>5. \A k \in Keys : /\ \A t \in Nat : Load(k, t)' = Load(k, t)
                        /\ \A a \in Ages : Total(k, a)' = Total(k, a)
    BY <1>1, <1>4 DEF Load, Total, Recent
  <1>6. Counted(buckets)'
    BY <1>1, <1>5 DEF RateInv, Counted
  <1> QED
    BY <1>1, <1>3, <1>6 DEF RateInv, RateTypeOK, RoomForTheActive

LEMMA RateStutters ==
    ASSUME RateInv, UNCHANGED rateVars
    PROVE  RateInv'
  BY DEF RateInv, RateTypeOK, CallsTimely, Counted, RoomForTheActive, Load, Total, Recent, Pending, rateVars

\* Whatever addresses a client comes from and however calls are held up at the
\* mutex, less than two full bursts pass in any Window - 2 * Lag ticks; and a key is
\* refused for lack of room only by keys in use.
THEOREM RatesAreLimited ==
    ASSUME RateAssumption
    PROVE  RateSpec => []RatesBounded
  <1>1. RateInit => RateInv
    BY RateStarts
  <1>2. RateInv /\ [RateNext]_rateVars => RateInv'
    BY ArriveKeeps, AllowIpKeeps, AllowClientKeeps, TickKeeps, RateStutters DEF RateNext
  <1>3. RateInv => RatesBounded
    <2> SUFFICES ASSUME RateInv, NEW k \in Keys, NEW a \in Ages
                 PROVE  served[k][a] < 2 * Limit
      BY DEF RateInv, RatesBounded, NeverTwoBursts
    <2>1. Cardinality(Pending(k, 0)) \in Nat /\ served[k][a] \in Nat /\ Limit \in Nat
      BY PendingFinite, LoadsAreNumbers DEF RateInv, RateAssumption
    <2>2. Total(k, a) < 2 * Limit
      <3>1. CASE k \in DOMAIN buckets
        <4>1. buckets[k].count \in Nat /\ buckets[k].count <= Limit
              /\ Total(k, a) < buckets[k].count + Limit
          BY <3>1 DEF RateInv, RateTypeOK, Counted
        <4> QED
          BY <2>1, <4>1 DEF Total
      <3>2. CASE k \notin DOMAIN buckets
        BY <2>1, <3>2 DEF RateInv, Counted, Total
      <3> QED
        BY <3>1, <3>2
    <2> QED
      BY <2>1, <2>2 DEF Total
  <1> QED
    BY <1>1, <1>2, <1>3, PTL DEF RateSpec

-----------------------------------------------------------------------------
(* Probe *)

LEMMA ProbeSteps ==
    ASSUME ProbeAssumption, ProbeInv, [ProbeNext]_(probeVars)
    PROVE  ProbeInv'
  <1> DEFINE half == budget \div 2
             connecting == Connecting
             elapsed1 == elapsed'
             deadline1 == deadline'
             connecting1 == Connecting'
  <1>1. ProbeTypeOK /\ InTime
    BY DEF ProbeInv
  <1>2. /\ budget \in Nat /\ elapsed \in Nat /\ deadline \in Nat /\ ports \in Nat /\ perProbe \in Nat
        /\ SpawnTime \in Nat /\ PollStep \in Nat \ {0} /\ MinPing \in Nat \ {0}
    BY <1>1 DEF ProbeTypeOK, ProbeAssumption
  <1>3. half \in Nat /\ half <= budget
    BY <1>2
  <1>4. /\ step = "connecting" => elapsed + connecting <= half
        /\ step = "waiting" => deadline <= budget + SpawnTime /\ elapsed <= deadline + PollStep
        /\ step = "returned" => elapsed <= budget + SpawnTime + PollStep
    BY <1>1 DEF InTime
  <1>5. connecting \in Nat
    BY <1>2 DEF Connecting
  <1>6. ASSUME ProbeTypeOK', UNCHANGED budget,
               \/ step' = "connecting" /\ elapsed1 + connecting1 <= half
               \/ step' = "waiting" /\ deadline1 <= budget + SpawnTime /\ elapsed1 <= deadline1 + PollStep
               \/ step' = "returned" /\ elapsed1 <= budget + SpawnTime + PollStep
        PROVE  ProbeInv'
    BY <1>6 DEF ProbeInv, InTime
  <1> HIDE DEF half, connecting, elapsed1, deadline1, connecting1
  <1>7. CASE Connect
    <2>1. PICK d \in 0..perProbe : elapsed1 = elapsed + d
      BY <1>7 DEF Connect, elapsed1
    <2>2. /\ ports' = ports - 1 /\ ports > 0 /\ step = "connecting"
          /\ UNCHANGED <<budget, perProbe, deadline, child>>
          /\ \/ step' = "returned" /\ answer' = TRUE
             \/ step' = step /\ answer' = answer
      BY <1>7 DEF Connect, Answer
    <2>3. connecting1 = connecting - perProbe /\ connecting1 \in Nat
      <3>1. connecting1 = (ports - 1) * perProbe
        BY <2>2 DEF Connecting, connecting1
      <3> QED
        BY <1>2, <2>2, <3>1 DEF Connecting, connecting
    <2>4. elapsed1 \in Nat /\ elapsed1 + connecting1 <= half /\ elapsed1 <= half
      BY <1>2, <1>3, <1>4, <1>5, <2>1, <2>2, <2>3
    <2>5. ProbeTypeOK'
      <3>1. ports - 1 \in Nat
        BY <1>2, <2>2
      <3> QED
        BY <1>1, <2>2, <2>4, <3>1 DEF ProbeTypeOK, elapsed1
    <2>6. elapsed1 <= budget + SpawnTime + PollStep
      BY <1>2, <1>3, <2>4
    <2> QED
      BY <1>6, <2>2, <2>4, <2>5, <2>6
  <1>8. CASE Ping
    <2>1. step = "connecting" /\ UNCHANGED <<budget, ports, perProbe>>
      BY <1>8 DEF Ping
    <2>2. elapsed <= half
      BY <1>2, <1>3, <1>4, <1>5, <2>1
    <2>3. CASE Answer(FALSE) /\ UNCHANGED <<elapsed, deadline, child>>
      <3>1. elapsed1 <= budget + SpawnTime + PollStep
        BY <1>2, <1>3, <2>2, <2>3 DEF elapsed1
      <3>2. ProbeTypeOK' /\ step' = "returned"
        BY <1>1, <2>1, <2>3 DEF Answer, ProbeTypeOK
      <3> QED
        BY <1>6, <2>1, <3>1, <3>2
    <2>4. CASE ~(Answer(FALSE) /\ UNCHANGED <<elapsed, deadline, child>>)
      <3>1. PICK d \in 0..SpawnTime : elapsed1 = elapsed + d /\ deadline1 = elapsed + d + Remaining
        BY <1>8, <2>4 DEF Ping, elapsed1, deadline1
      <3>2. step' = "waiting" /\ child' = "running" /\ answer' = answer
        BY <1>8, <2>4 DEF Ping
      <3>3. Remaining = budget - elapsed
        BY <1>2, <1>3, <2>2 DEF Remaining
      <3>4. /\ elapsed1 \in Nat /\ deadline1 \in Nat
            /\ deadline1 <= budget + SpawnTime /\ elapsed1 <= deadline1 + PollStep
        BY <1>2, <1>3, <2>2, <3>1, <3>3
      <3>5. ProbeTypeOK'
        BY <1>1, <2>1, <3>2, <3>4 DEF ProbeTypeOK, elapsed1, deadline1
      <3> QED
        BY <1>6, <2>1, <3>2, <3>4, <3>5
    <2> QED
      BY <2>3, <2>4
  <1>9. CASE TryWait
    <2>1. step = "waiting" /\ UNCHANGED <<budget, ports, perProbe, deadline>>
      BY <1>9 DEF TryWait
    <2>2. CASE step' = "returned" /\ elapsed1 = elapsed /\ answer' \in BOOLEAN /\ child' = "none"
      <3>1. elapsed1 <= budget + SpawnTime + PollStep
        BY <1>2, <1>4, <2>1, <2>2
      <3>2. ProbeTypeOK'
        BY <1>1, <2>1, <2>2 DEF ProbeTypeOK, elapsed1
      <3> QED
        BY <1>6, <2>1, <2>2, <3>1, <3>2
    <2>3. CASE /\ step' = step /\ elapsed < deadline /\ elapsed1 = elapsed + PollStep
               /\ answer' = answer /\ child' = child
      <3>1. elapsed1 \in Nat /\ elapsed1 <= deadline1 + PollStep /\ deadline1 <= budget + SpawnTime
        BY <1>2, <1>4, <2>1, <2>3 DEF deadline1
      <3>2. ProbeTypeOK'
        BY <1>1, <2>1, <2>3, <3>1 DEF ProbeTypeOK, elapsed1
      <3> QED
        BY <1>6, <2>1, <2>3, <3>1, <3>2
    <2> QED
      BY <1>9, <2>2, <2>3 DEF TryWait, Answer, AfterKill, elapsed1
  <1>10. CASE ChildExits
    BY <1>1, <1>10 DEF ChildExits, ProbeInv, ProbeTypeOK, InTime, Connecting
  <1>11. CASE UNCHANGED probeVars
    BY <1>1, <1>11 DEF probeVars, ProbeInv, ProbeTypeOK, InTime, Connecting
  <1> QED
    BY <1>7, <1>8, <1>9, <1>10, <1>11 DEF ProbeNext

LEMMA ProbeStarts ==
    ASSUME ProbeAssumption, ProbeInit
    PROVE  ProbeInv
  <1> USE DEF ProbeAssumption, ProbeInit
  <1>1. budget \in MinTimeout..MaxTimeout /\ budget \in Nat
    BY DEF Clamped
  <1>2. ports \in Nat \ {0} /\ budget \div 2 \in Nat /\ budget \div 2 <= MaxTimeout \div 2
    BY <1>1
  <1>3. /\ (budget \div 2) \div ports \in Nat
        /\ (budget \div 2) \div ports <= budget \div 2
        /\ ports * ((budget \div 2) \div ports) <= budget \div 2
    BY <1>2
  <1>4. perProbe \in 0..(MaxTimeout \div 2)
    BY <1>1, <1>2, <1>3
  <1>5. ProbeTypeOK
    BY <1>1, <1>2, <1>4 DEF ProbeTypeOK
  <1>6. InTime
    BY <1>2, <1>3 DEF InTime, Connecting
  <1> QED
    BY <1>5, <1>6 DEF ProbeInv

\* TCP and ping share the host's budget, for every configured timeout, number of
\* ports and speed of the network: a probe takes no longer than the budget, apart
\* from starting the ping process and the last sleep.
THEOREM BudgetIsShared ==
    ASSUME ProbeAssumption
    PROVE  ProbeSpec => []SharedBudget
  <1>1. ProbeInv => SharedBudget
    <2> SUFFICES ASSUME ProbeInv PROVE BudgetKept
      BY DEF ProbeInv, SharedBudget
    <2> DEFINE half == budget \div 2
               connecting == Connecting
    <2>1. /\ budget \in Nat /\ elapsed \in Nat /\ deadline \in Nat /\ ports \in Nat /\ perProbe \in Nat
          /\ SpawnTime \in Nat /\ PollStep \in Nat
      BY DEF ProbeInv, ProbeTypeOK, ProbeAssumption
    <2>2. half \in Nat /\ half <= budget /\ connecting \in Nat
      BY <2>1 DEF Connecting
    <2>3. \/ elapsed + connecting <= half
          \/ deadline <= budget + SpawnTime /\ elapsed <= deadline + PollStep
          \/ elapsed <= budget + SpawnTime + PollStep
      BY DEF ProbeInv, ProbeTypeOK, InTime
    <2> HIDE DEF half, connecting
    <2> QED
      BY <2>1, <2>2, <2>3 DEF BudgetKept
  <1> QED
    BY <1>1, ProbeStarts, ProbeSteps, PTL DEF ProbeSpec

-----------------------------------------------------------------------------
(* WakeRoute *)

LEMMA PrefixIs ==
    ASSUME NEW i, NEW t, Holds(i, t)
    PROVE  PrefixLen(i.netmask) \in 1..Width
  BY DEF Holds, Eligible, IsNetmask, PrefixLen

LEMMA RouteFields ==
    ASSUME NEW i
    PROVE  /\ RouteBy(i).interface = i.index
           /\ RouteBy(i).source = i.address
           /\ RouteBy(i).prefixLen = PrefixLen(i.netmask)
           /\ RouteBy(i).broadcast = DirectedBroadcast(i.address, PrefixLen(i.netmask))
  BY DEF RouteBy

\* The route by an interface that holds a target is one.
LEMMA RouteTypes ==
    ASSUME RouteAssumption, PowersAreNumbers
    PROVE  /\ NoRoute \in Ipv4Route
           /\ \A i \in Entries : \A t : Holds(i, t) => RouteBy(i) \in Ipv4Route
  <1>1. 2^Width \in Nat \ {0} /\ Width \in Nat
    BY DEF RouteAssumption, PowersAreNumbers
  <1>2. NoRoute \in Ipv4Route
    BY <1>1 DEF NoRoute, Ipv4Route, Address, Top
  <1>3. ASSUME NEW i \in Entries, NEW t, Holds(i, t)
        PROVE  RouteBy(i) \in Ipv4Route
    <2> DEFINE p == PrefixLen(i.netmask)
               b == Block(p)
    <2>1. p \in 1..Width
      BY <1>3, PrefixIs
    <2>2. b \in Nat \ {0}
      <3>1. Width - p \in 0..Width
        BY <1>1, <2>1
      <3> QED
        BY <3>1 DEF PowersAreNumbers, Block
    <2>3. i.index \in Nat /\ i.address \in Address /\ i.address \in Nat
      BY <1>1 DEF RouteAssumption, Ipv4Interface, Address
    <2>4. i.address % b \in Int
      BY <2>2, <2>3
    <2>5. DirectedBroadcast(i.address, p) \in Int
      BY <2>2, <2>3, <2>4 DEF DirectedBroadcast, Subnet
    <2>6. RouteBy(i) = [interface |-> i.index, source |-> i.address,
                        broadcast |-> DirectedBroadcast(i.address, p), prefixLen |-> p]
      BY DEF RouteBy
    <2>7. p \in 0..Width
      BY <1>1, <2>1
    <2> HIDE DEF p, b
    <2> QED
      BY <2>3, <2>5, <2>6, <2>7 DEF Ipv4Route
  <1> QED
    BY <1>2, <1>3

\* One turn of the loop keeps the best of what was visited.
LEMMA TurnKeepsBest ==
    ASSUME RouteAssumption, NEW S \in SUBSET Entries, NEW i \in Entries,
           BestSoFar(S), target' = target,
           \/ /\ Holds(i, target)
              /\ \/ Replaces(RouteBy(i)) \/ Collides(RouteBy(i))
                 \/ Sibling(RouteBy(i)) \/ Shorter(RouteBy(i))
           \/ /\ ~Holds(i, target)
              /\ UNCHANGED <<selected, ambiguous>>
    PROVE  /\ selected' = NoRoute =>
                (\A j \in S \cup {i} : ~Holds(j, target)) /\ ~ambiguous'
           /\ selected' # NoRoute =>
                /\ \E j \in BestOf(S \cup {i}) : RouteBy(j) = selected'
                /\ ambiguous' => \E j, k \in BestOf(S \cup {i}) : j.index # k.index
                /\ ~ambiguous' => \A j \in BestOf(S \cup {i}) :
                                    j.index = selected'.interface /\ selected'.source <= j.address
  <1> DEFINE new == RouteBy(i)
             len == PrefixLen(i.netmask)
             T == S \cup {i}
  <1>1. /\ new.interface = i.index /\ new.source = i.address /\ new.prefixLen = len
    BY RouteFields
  <1>2. Holds(i, target) => len \in 1..Width
    BY PrefixIs
  <1>3. NoRoute.prefixLen = 0
    BY DEF NoRoute
  <1>4. \A j \in Entries : j.address \in Int
    BY DEF RouteAssumption, Ipv4Interface, Address
  <1>5. \A j \in Entries : Holds(j, target) => PrefixLen(j.netmask) \in 1..Width
    BY PrefixIs
  <1>6. Width \in Nat
    BY DEF RouteAssumption
  <1> HIDE DEF new, len
  <1>7. CASE ~Holds(i, target)
    <2>1. BestOf(T) = BestOf(S)
      BY <1>7 DEF BestOf
    <2> QED
      BY <1>7, <2>1 DEF BestSoFar
  <1>8. CASE Holds(i, target) /\ Replaces(new)
    <2>1. \A j \in S : Holds(j, target) => PrefixLen(j.netmask) < len
      <3>1. CASE selected = NoRoute
        BY <3>1 DEF BestSoFar
      <3>2. CASE selected # NoRoute
        <4>1. PICK b \in BestOf(S) : RouteBy(b) = selected
          BY <3>2 DEF BestSoFar
        <4>2. PrefixLen(b.netmask) = selected.prefixLen
          BY <4>1, RouteFields
        <4>3. b \in Entries /\ Holds(b, target)
              /\ \A j \in S : Holds(j, target) => PrefixLen(j.netmask) <= PrefixLen(b.netmask)
          BY <4>1 DEF BestOf
        <4>4. len > selected.prefixLen
          BY <1>1, <1>8 DEF Replaces
        <4> QED
          BY <1>2, <1>5, <1>6, <1>8, <4>2, <4>3, <4>4
      <3> QED
        BY <3>1, <3>2
    <2>2. BestOf(T) = {i}
      BY <1>2, <1>5, <1>6, <1>8, <2>1 DEF BestOf, len
    <2>3. selected' = new /\ ambiguous' = FALSE
      BY <1>8 DEF Replaces
    <2>4. new # NoRoute
      BY <1>1, <1>2, <1>3, <1>8
    <2>5. \A j \in BestOf(T) : j.index = selected'.interface /\ selected'.source <= j.address
      BY <1>1, <1>4, <2>2, <2>3
    <2>6. \E j \in BestOf(T) : RouteBy(j) = selected'
      BY <2>2, <2>3 DEF new
    <2> HIDE DEF new
    <2> QED
      BY <2>3, <2>4, <2>5, <2>6
  <1>9. ASSUME Holds(i, target), selected # NoRoute
        PROVE  \E b \in BestOf(S) :
                  /\ RouteBy(b) = selected /\ b \in Entries /\ Holds(b, target)
                  /\ PrefixLen(b.netmask) = selected.prefixLen
                  /\ PrefixLen(b.netmask) \in 1..Width
                  /\ b.index = selected.interface /\ b.address = selected.source
                  /\ \A j \in S : Holds(j, target) =>
                        PrefixLen(j.netmask) <= PrefixLen(b.netmask)
    <2>1. PICK b \in BestOf(S) : RouteBy(b) = selected
      BY <1>9 DEF BestSoFar
    <2>2. /\ PrefixLen(b.netmask) = selected.prefixLen
          /\ b.index = selected.interface /\ b.address = selected.source
      BY <2>1, RouteFields
    <2>3. b \in Entries /\ Holds(b, target)
          /\ \A j \in S : Holds(j, target) => PrefixLen(j.netmask) <= PrefixLen(b.netmask)
      BY <2>1 DEF BestOf
    <2> QED
      BY <1>5, <2>1, <2>2, <2>3
  <1>10. ASSUME Holds(i, target), new.prefixLen = selected.prefixLen
         PROVE  selected # NoRoute /\ BestOf(T) = BestOf(S) \cup {i}
    <2>1. len = selected.prefixLen /\ len \in 1..Width
      BY <1>1, <1>2, <1>10
    <2>2. selected # NoRoute
      BY <1>3, <1>6, <2>1
    <2>3. PICK b \in BestOf(S) :
            /\ b \in S /\ Holds(b, target) /\ PrefixLen(b.netmask) = len
            /\ \A j \in S : Holds(j, target) => PrefixLen(j.netmask) <= len
      BY <1>9, <1>10, <2>1, <2>2 DEF BestOf
    <2>4. \A x \in S : x \in BestOf(S) <=> x \in BestOf(T)
      BY <1>1, <1>2, <1>5, <1>6, <2>3 DEF BestOf, len
    <2>5. i \in BestOf(T)
      BY <1>2, <1>6, <1>10, <2>3 DEF BestOf, len
    <2>6. BestOf(S) \subseteq S /\ BestOf(T) \subseteq T
      BY DEF BestOf
    <2> QED
      BY <2>2, <2>4, <2>5, <2>6
  <1>11. CASE Holds(i, target) /\ Collides(new)
    <2>1. selected # NoRoute /\ BestOf(T) = BestOf(S) \cup {i}
      BY <1>10, <1>11 DEF Collides
    <2>2. PICK b \in BestOf(S) : RouteBy(b) = selected /\ b.index = selected.interface
      BY <1>9, <1>11, <2>1
    <2>3. i.index # selected.interface /\ ambiguous' = TRUE /\ selected' = selected
      BY <1>1, <1>11 DEF Collides
    <2> QED
      BY <2>1, <2>2, <2>3
  <1>12. CASE Holds(i, target) /\ Sibling(new)
    <2>1. selected # NoRoute /\ BestOf(T) = BestOf(S) \cup {i}
      BY <1>10, <1>12 DEF Sibling
    <2>2. PICK b \in BestOf(S) : /\ RouteBy(b) = selected /\ b.index = selected.interface
                                       /\ b \in Entries /\ b.address = selected.source
      BY <1>9, <1>12, <2>1
    <2>3. /\ i.index = selected.interface /\ ambiguous' = ambiguous
          /\ selected' = IF i.address < selected.source THEN new ELSE selected
      BY <1>1, <1>12 DEF Sibling
    <2>4. new # NoRoute
      BY <1>1, <1>2, <1>3, <1>12
    <2>5. selected' # NoRoute
      BY <2>1, <2>3, <2>4
    <2>6. \E j \in BestOf(T) : RouteBy(j) = selected'
      BY <2>1, <2>2, <2>3 DEF new
    <2>7. ambiguous' => \E j, k \in BestOf(T) : j.index # k.index
      BY <2>1, <2>3 DEF BestSoFar
    <2>8. ASSUME ~ambiguous', NEW j \in BestOf(T)
          PROVE  j.index = selected'.interface /\ selected'.source <= j.address
      <3>1. /\ selected'.interface = selected.interface
            /\ selected'.source <= selected.source /\ selected'.source <= i.address
            /\ selected'.source \in Int
        BY <1>1, <1>4, <2>2, <2>3
      <3>2. CASE j = i
        BY <2>3, <3>1, <3>2
      <3>3. CASE j \in BestOf(S)
        <4>1. j.index = selected.interface /\ selected.source <= j.address
          BY <2>1, <2>3, <2>8, <3>3 DEF BestSoFar
        <4>2. j.address \in Int /\ selected.source \in Int
          BY <1>4, <2>2, <3>3 DEF BestOf
        <4> QED
          BY <3>1, <4>1, <4>2
      <3> QED
        BY <2>1, <2>8, <3>2, <3>3
    <2> QED
      BY <2>5, <2>6, <2>7, <2>8
  <1>13. CASE Holds(i, target) /\ Shorter(new)
    <2>1. len < selected.prefixLen /\ selected' = selected /\ ambiguous' = ambiguous
      BY <1>1, <1>13 DEF Shorter
    <2>2. selected # NoRoute
      BY <1>2, <1>3, <1>6, <1>13, <2>1
    <2>3. PICK b \in BestOf(S) :
            b \in S /\ Holds(b, target) /\ PrefixLen(b.netmask) = selected.prefixLen
            /\ PrefixLen(b.netmask) \in 1..Width
      BY <1>9, <1>13, <2>2 DEF BestOf
    <2>4. \A x \in T : x \in BestOf(S) <=> x \in BestOf(T)
      BY <1>2, <1>5, <1>6, <1>13, <2>1, <2>3 DEF BestOf, len
    <2>5. BestOf(S) \subseteq T /\ BestOf(T) \subseteq T
      BY DEF BestOf
    <2>6. BestOf(T) = BestOf(S)
      BY <2>4, <2>5
    <2> QED
      BY <2>1, <2>2, <2>6 DEF BestSoFar
  <1> QED
    BY <1>7, <1>8, <1>11, <1>12, <1>13 DEF new

LEMMA RouteStarts ==
    ASSUME RouteAssumption, PowersAreNumbers, RouteInit
    PROVE  RouteInv
  <1>1. {interfaces[k] : k \in 1..at} = {}
    BY DEF RouteInit
  <1>2. BestSoFar({})
    BY DEF RouteInit, BestSoFar
  <1>3. RouteTypeOK
    <2>1. interfaces \in Seq(Entries) /\ at \in 0..Len(interfaces)
      BY DEF RouteInit
    <2>2. system \subseteq Entries /\ selected \in Ipv4Route
      BY RouteTypes DEF RouteInit
    <2> QED
      BY <2>1, <2>2 DEF RouteInit, RouteTypeOK, Outcomes
  <1>4. Decided
    BY DEF RouteInit, Decided
  <1> QED
    BY <1>1, <1>2, <1>3, <1>4 DEF RouteInv

\* Before the first turn there is nothing to be the best of.
LEMMA FreshStart ==
    ASSUME at' = 0, selected' = NoRoute, ambiguous' = FALSE
    PROVE  BestSoFar({interfaces[k] : k \in 1..at})'
  <1>1. {interfaces'[k] : k \in 1..at'} = {}
    OBVIOUS
  <1> QED
    BY <1>1 DEF BestSoFar

LEMMA ListKeeps ==
    ASSUME RouteAssumption, PowersAreNumbers, RouteInv, ListInterfaces
    PROVE  RouteInv'
  <1>1. Cardinality(system) \in Nat
    <2>1. system \subseteq Entries /\ IsFiniteSet(Entries)
      BY DEF RouteInv, RouteTypeOK, RouteAssumption
    <2>2. IsFiniteSet(system)
      BY <2>1, FS_Subset
    <2> QED
      BY <2>2, FS_CardinalityType
  <1>2. \/ interfaces' \in [1..Cardinality(system) -> system]
        \/ interfaces' = interfaces
    BY DEF ListInterfaces, Orders
  <1>3. interfaces' \in Seq(Entries)
    BY <1>1, <1>2 DEF RouteInv, RouteTypeOK
  <1>4. at' = 0 /\ at' \in 0..Len(interfaces')
    BY <1>3 DEF ListInterfaces
  <1>5. BestSoFar({interfaces[k] : k \in 1..at})'
    BY FreshStart DEF ListInterfaces
  <1>6. Decided'
    BY DEF ListInterfaces, Fail, Decided
  <1>7. RouteTypeOK'
    BY <1>3, <1>4, RouteTypes DEF ListInterfaces, Fail, Outcomes, RouteInv, RouteTypeOK
  <1> QED
    BY <1>5, <1>6, <1>7 DEF RouteInv

LEMMA VisitKeeps ==
    ASSUME RouteAssumption, PowersAreNumbers, RouteInv, Visit
    PROVE  RouteInv'
  <1> DEFINE S == {interfaces[k] : k \in 1..at}
             i == interfaces[at + 1]
  <1>1. /\ interfaces \in Seq(Entries) /\ at \in 0..Len(interfaces) /\ at < Len(interfaces)
        /\ interfaces' = interfaces /\ at' = at + 1 /\ target' = target
    BY DEF RouteInv, RouteTypeOK, Visit
  <1>2. Len(interfaces) \in Nat /\ \A k \in 1..Len(interfaces) : interfaces[k] \in Entries
    BY <1>1
  <1>3. S \in SUBSET Entries /\ i \in Entries
    BY <1>1, <1>2
  <1>4. {interfaces'[k] : k \in 1..at'} = S \cup {i}
    BY <1>1, <1>2
  <1>5. \/ /\ Holds(i, target)
           /\ \/ Replaces(RouteBy(i)) \/ Collides(RouteBy(i))
              \/ Sibling(RouteBy(i)) \/ Shorter(RouteBy(i))
        \/ ~Holds(i, target) /\ UNCHANGED <<selected, ambiguous>>
    BY DEF Visit
  <1>6. BestSoFar(S)
    BY DEF RouteInv
  <1> HIDE DEF S, i
  <1>7. BestSoFar({interfaces[k] : k \in 1..at})'
    <2> DEFINE T == S \cup {i}
    <2>1. /\ selected' = NoRoute =>
                (\A j \in T : ~Holds(j, target)) /\ ~ambiguous'
          /\ selected' # NoRoute =>
                /\ \E j \in BestOf(T) : RouteBy(j) = selected'
                /\ ambiguous' => \E j, k \in BestOf(T) : j.index # k.index
                /\ ~ambiguous' => \A j \in BestOf(T) :
                                    j.index = selected'.interface /\ selected'.source <= j.address
      BY <1>1, <1>3, <1>5, <1>6, TurnKeepsBest
    <2>2. BestOf({interfaces[k] : k \in 1..at})' = BestOf(T)
      BY <1>1, <1>4 DEF BestOf
    <2> HIDE DEF T
    <2> QED
      BY <1>1, <1>4, <2>1, <2>2 DEF BestSoFar, T
  <1>8. Decided'
    BY <1>1 DEF Visit, RouteInv, RouteTypeOK, Decided
  <1>9. at' \in 0..Len(interfaces')
    BY <1>1, <1>2
  <1>10. selected' \in Ipv4Route /\ ambiguous' \in BOOLEAN
    <2>1. Holds(i, target) => RouteBy(i) \in Ipv4Route
      BY <1>3, RouteTypes
    <2>2. selected \in Ipv4Route /\ ambiguous \in BOOLEAN
      BY DEF RouteInv, RouteTypeOK
    <2> QED
      BY <1>5, <2>1, <2>2 DEF Replaces, Collides, Sibling, Shorter
  <1>11. RouteTypeOK'
    BY <1>1, <1>9, <1>10 DEF Visit, RouteInv, RouteTypeOK
  <1> QED
    BY <1>7, <1>8, <1>11 DEF RouteInv

\* Steps that leave the loop's variables alone keep what the loop computed.
LEMMA LoopIdle ==
    ASSUME RouteInv, UNCHANGED <<target, interfaces, at, selected, ambiguous>>,
           RouteTypeOK', Decided'
    PROVE  RouteInv'
  <1>1. BestSoFar({interfaces[k] : k \in 1..at})'
    BY DEF RouteInv, BestSoFar, BestOf
  <1> QED
    BY <1>1 DEF RouteInv

LEMMA RouteSteps ==
    ASSUME RouteAssumption, PowersAreNumbers, RouteInv, [RouteNext]_(routeVars)
    PROVE  RouteInv'
  <1>1. CASE ListInterfaces
    BY <1>1, ListKeeps
  <1>2. CASE Visit
    BY <1>2, VisitKeeps
  <1>3. CASE Decide
    <2>1. Decided'
      BY <1>3 DEF Decide, Fail, RouteInv, RouteTypeOK, Decided, Unusable
    <2>2. RouteTypeOK'
      BY <1>3 DEF Decide, Fail, RouteInv, RouteTypeOK, Outcomes
    <2> QED
      BY <1>3, <2>1, <2>2, LoopIdle DEF Decide
  <1>4. CASE Bind
    <2>1. Decided'
      BY <1>4 DEF Bind, Fail, RouteInv, RouteTypeOK, Decided, Unusable
    <2>2. RouteTypeOK'
      BY <1>4 DEF Bind, Fail, RouteInv, RouteTypeOK, Outcomes
    <2> QED
      BY <1>4, <2>1, <2>2, LoopIdle DEF Bind
  <1>5. CASE SendPacket
    <2>1. Decided'
      BY <1>5 DEF SendPacket, Fail, RouteInv, RouteTypeOK, Decided, Unusable
    <2>2. RouteTypeOK'
      BY <1>5 DEF SendPacket, Fail, RouteInv, RouteTypeOK, Outcomes
    <2> QED
      BY <1>5, <2>1, <2>2, LoopIdle DEF SendPacket
  <1>6. CASE SystemChanges
    <2>1. Decided'
      BY <1>6 DEF SystemChanges, RouteInv, Decided, Unusable
    <2>2. RouteTypeOK'
      BY <1>6 DEF SystemChanges, RouteInv, RouteTypeOK
    <2> QED
      BY <1>6, <2>1, <2>2, LoopIdle DEF SystemChanges
  <1>7. CASE NextWake
    <2>1. BestSoFar({interfaces[k] : k \in 1..at})'
      BY <1>7, FreshStart DEF NextWake
    <2>2. Decided'
      BY <1>7 DEF NextWake, Decided
    <2>3. RouteTypeOK'
      <3>1. interfaces' \in Seq(Entries) /\ at' \in 0..Len(interfaces')
        BY <1>7 DEF NextWake
      <3>2. selected' \in Ipv4Route
        BY <1>7, RouteTypes DEF NextWake
      <3> QED
        BY <1>7, <3>1, <3>2 DEF NextWake, RouteInv, RouteTypeOK, Outcomes
    <2> QED
      BY <2>1, <2>2, <2>3 DEF RouteInv
  <1>8. CASE UNCHANGED routeVars
    <2>1. Decided'
      BY <1>8 DEF routeVars, RouteInv, Decided, Unusable
    <2>2. RouteTypeOK'
      BY <1>8 DEF routeVars, RouteInv, RouteTypeOK
    <2> QED
      BY <1>8, <2>1, <2>2, LoopIdle DEF routeVars
  <1> QED
    BY <1>1, <1>2, <1>3, <1>4, <1>5, <1>6, <1>7, <1>8 DEF RouteNext

\* Once the loop is over, the best of what it visited is the best of the listing.
LEMMA WholeListing ==
    ASSUME RouteInv, at = Len(interfaces)
    PROVE  BestSoFar(Listed) /\ Best = BestOf(Listed)
  <1>1. {interfaces[k] : k \in 1..at} = Listed
    BY DEF RouteInv, RouteTypeOK, Listed
  <1>2. Best = BestOf(Listed)
    BY DEF Best, Matching, BestOf, Holds, Eligible
  <1> QED
    BY <1>1, <1>2 DEF RouteInv

\* What is decided after the loop is right of all that was listed.
LEMMA DecisionIsBest ==
    ASSUME RouteInv
    PROVE  BestIsUsed
  <1>1. ASSUME pc \in {"routed", "bound"}
        PROVE  /\ \A i \in Best : i.index = selected.interface
               /\ \E i \in Best : RouteBy(i) = selected
                                    /\ \A j \in Best : i.address <= j.address
    <2>1. at = Len(interfaces) /\ selected # NoRoute /\ ~ambiguous
      BY <1>1 DEF RouteInv, Decided
    <2>2. /\ \A i \in Best : i.index = selected.interface /\ selected.source <= i.address
          /\ \E i \in Best : RouteBy(i) = selected
      BY <2>1, WholeListing DEF BestSoFar
    <2> QED
      BY <2>2, RouteFields
  <1>2. ASSUME outcome = "no_route" PROVE Best = {}
    <2>1. at = Len(interfaces) /\ selected = NoRoute
      BY <1>2 DEF RouteInv, Decided
    <2> QED
      BY <2>1, WholeListing DEF BestSoFar, BestOf
  <1>3. ASSUME outcome = "ambiguous" PROVE \E i, j \in Best : i.index # j.index
    <2>1. at = Len(interfaces) /\ selected # NoRoute /\ ambiguous
      BY <1>3 DEF RouteInv, Decided
    <2> QED
      BY <2>1, WholeListing DEF BestSoFar
  <1>4. ASSUME outcome = "unusable"
        PROVE  Cardinality({i.index : i \in Best}) = 1
    <2>1. at = Len(interfaces) /\ selected # NoRoute /\ ~ambiguous
      BY <1>4 DEF RouteInv, Decided
    <2>2. /\ \A i \in Best : i.index = selected.interface
          /\ \E i \in Best : TRUE
      BY <2>1, WholeListing DEF BestSoFar
    <2>3. {i.index : i \in Best} = {selected.interface}
      BY <2>2
    <2>4. Cardinality({selected.interface}) = 1
      BY FS_Singleton
    <2> QED
      BY <2>3, <2>4
  <1> QED
    BY <1>1, <1>2, <1>3, <1>4 DEF BestIsUsed

\* What a remainder says of a number and the multiple below it.
LEMMA Remainder ==
    ASSUME NEW t \in Nat, NEW b \in Nat \ {0}
    PROVE  t % b \in 0..(b - 1)
  OBVIOUS

\* A packet that was sent is a directed broadcast of a subnet in which the
\* target is a host.
LEMMA PacketIsDirected ==
    ASSUME RouteAssumption, PowersAreNumbers, RouteInv
    PROVE  DirectedNeverGlobal
  <1>1. ASSUME outcome = "sent"
        PROVE  /\ selected.broadcast # Top
               /\ selected.prefixLen <= Width - 2
               /\ LET net == Subnet(selected.source, selected.prefixLen)
                      last == net + Block(selected.prefixLen) - 1 IN
                  selected.broadcast = last /\ target \in (net + 1)..(last - 1)
    <2> DEFINE p == selected.prefixLen
               net == Subnet(selected.source, p)
               b == Block(p)
    <2>1. at = Len(interfaces) /\ selected # NoRoute /\ ~Unusable(selected)
      BY <1>1 DEF RouteInv, Decided
    <2>2. PICK i \in Listed : Holds(i, target) /\ RouteBy(i) = selected
      BY <1>1, <2>1, WholeListing DEF BestSoFar, BestOf
    <2>3. p \in 1..Width /\ Width \in Nat
      BY <2>2, PrefixIs, RouteFields DEF RouteAssumption
    <2>4. /\ Subnet(target, p) = net
          /\ selected.broadcast = net + b - 1
      BY <2>2, RouteFields DEF Holds, DirectedBroadcast
    <2>5. /\ p < Width - 1 /\ target # net /\ target # selected.broadcast
          /\ selected.broadcast # Top
      BY <2>1, <2>3 DEF Unusable
    <2>6. b \in Nat \ {0}
      <3>1. Width - p \in 0..Width
        BY <2>3
      <3> QED
        BY <3>1 DEF PowersAreNumbers, Block
    <2>7. target \in Nat
      BY DEF RouteInv, RouteTypeOK, RouteAssumption, Address, Top
    <2>8. target % b \in 0..(b - 1) /\ net = target - (target % b)
      BY <2>4, <2>6, <2>7, Remainder DEF Subnet
    <2> DEFINE last == net + b - 1
               m == target % b
    <2>9. m \in 0..(b - 1) /\ net = target - m
      BY <2>8
    <2> HIDE DEF m, b, net
    <2>10. target \in (net + 1)..(last - 1) /\ selected.broadcast = last
      BY <2>4, <2>5, <2>6, <2>7, <2>9
    <2>11. p <= Width - 2
      BY <2>3, <2>5
    <2> QED
      BY <2>5, <2>10, <2>11 DEF net, b
  <1> QED
    BY <1>1 DEF DirectedNeverGlobal

\* The route of a packet is the longest prefix match, and the packet goes to the
\* directed broadcast of a subnet in which the target is a host, for every width
\* of an address, every set of interfaces and every order of their listing.
THEOREM RouteIsLongestPrefix ==
    ASSUME RouteAssumption, PowersAreNumbers
    PROVE  RouteSpec => []LongestPrefixMatch
  <1>1. RouteInv => LongestPrefixMatch
    BY DecisionIsBest, PacketIsDirected DEF RouteInv, LongestPrefixMatch
  <1> QED
    BY <1>1, RouteStarts, RouteSteps, PTL DEF RouteSpec

-----------------------------------------------------------------------------
(* Logging *)

LEMMA BothLines ==
    ASSUME NEW S, NEW a \in Seq(S), NEW b \in Seq(S)
    PROVE  ToSet(a \o b) = ToSet(a) \cup ToSet(b)
  <1> PICK c : c = a \o b
    OBVIOUS
  <1>1. c \in Seq(S) /\ Len(a) \in Nat /\ Len(b) \in Nat /\ Len(c) = Len(a) + Len(b)
    OBVIOUS
  <1>2. /\ DOMAIN a = 1..Len(a) /\ DOMAIN b = 1..Len(b) /\ DOMAIN c = 1..Len(c)
    BY <1>1
  <1>3. \A i \in 1..Len(c) : c[i] = IF i <= Len(a) THEN a[i] ELSE b[i - Len(a)]
    BY <1>1
  <1>4. \A i \in 1..Len(c) : i <= Len(a) => i \in DOMAIN a /\ c[i] = a[i] /\ c[i] \in ToSet(a)
    BY <1>1, <1>2, <1>3 DEF ToSet
  <1>5. \A i \in 1..Len(c) : ~(i <= Len(a)) =>
          i - Len(a) \in DOMAIN b /\ c[i] = b[i - Len(a)] /\ c[i] \in ToSet(b)
    BY <1>1, <1>2, <1>3 DEF ToSet
  <1>6. ToSet(c) \subseteq ToSet(a) \cup ToSet(b)
    BY <1>2, <1>4, <1>5 DEF ToSet
  <1>7. ToSet(a) \subseteq ToSet(c)
    <2> SUFFICES ASSUME NEW i \in 1..Len(a) PROVE a[i] \in ToSet(c)
      BY <1>2 DEF ToSet
    <2>1. i \in 1..Len(c) /\ i <= Len(a)
      BY <1>1
    <2> QED
      BY <1>2, <1>4, <2>1 DEF ToSet
  <1>8. ToSet(b) \subseteq ToSet(c)
    <2> SUFFICES ASSUME NEW i \in 1..Len(b) PROVE b[i] \in ToSet(c)
      BY <1>2 DEF ToSet
    <2> PICK k : k = i + Len(a)
      OBVIOUS
    <2>1. k \in 1..Len(c) /\ ~(k <= Len(a)) /\ k - Len(a) = i
      BY <1>1
    <2> QED
      BY <1>2, <1>5, <2>1 DEF ToSet
  <1> QED
    BY <1>6, <1>7, <1>8

\* Two sequences without a line in common, one behind the other.
LEMMA Joined ==
    ASSUME NEW S, NEW a \in Seq(S), NEW b \in Seq(S), IsInjective(a), IsInjective(b),
           ToSet(a) \cap ToSet(b) = {}
    PROVE  /\ a \o b \in Seq(S) /\ IsInjective(a \o b) /\ Len(a \o b) = Len(a) + Len(b)
           /\ ToSet(a \o b) = ToSet(a) \cup ToSet(b)
  <1> PICK c : c = a \o b
    OBVIOUS
  <1>1. c \in Seq(S) /\ Len(a) \in Nat /\ Len(b) \in Nat /\ Len(c) = Len(a) + Len(b)
    OBVIOUS
  <1>2. /\ DOMAIN a = 1..Len(a) /\ DOMAIN b = 1..Len(b) /\ DOMAIN c = 1..Len(c)
    BY <1>1
  <1>3. \A i \in 1..Len(c) : c[i] = IF i <= Len(a) THEN a[i] ELSE b[i - Len(a)]
    BY <1>1
  <1>4. \A i \in 1..Len(c) : i <= Len(a) => i \in DOMAIN a /\ c[i] = a[i] /\ c[i] \in ToSet(a)
    BY <1>1, <1>2, <1>3 DEF ToSet
  <1>5. \A i \in 1..Len(c) : ~(i <= Len(a)) =>
          i - Len(a) \in DOMAIN b /\ c[i] = b[i - Len(a)] /\ c[i] \in ToSet(b)
    BY <1>1, <1>2, <1>3 DEF ToSet
  <1>6. IsInjective(c)
    <2> SUFFICES ASSUME NEW i \in 1..Len(c), NEW j \in 1..Len(c), c[i] = c[j]
                 PROVE  i = j
      BY <1>2 DEF IsInjective
    <2>1. CASE i <= Len(a) /\ j <= Len(a)
      BY <1>4, <2>1 DEF IsInjective
    <2>2. CASE ~(i <= Len(a)) /\ ~(j <= Len(a))
      <3>1. i - Len(a) = j - Len(a)
        BY <1>5, <2>2 DEF IsInjective
      <3> QED
        BY <1>1, <3>1
    <2>3. CASE i <= Len(a) /\ ~(j <= Len(a))
      BY <1>4, <1>5, <2>3
    <2>4. CASE ~(i <= Len(a)) /\ j <= Len(a)
      BY <1>4, <1>5, <2>4
    <2> QED
      BY <2>1, <2>2, <2>3, <2>4
  <1>7. ToSet(c) = ToSet(a) \cup ToSet(b)
    BY BothLines
  <1> QED
    BY <1>1, <1>6, <1>7

\* A sequence cut behind its first k lines.
LEMMA DividedTyped ==
    ASSUME NEW S, NEW s \in Seq(S), NEW k \in 0..Len(s),
           NEW a, NEW b, a = SubSeq(s, 1, k), b = SubSeq(s, k + 1, Len(s))
    PROVE  /\ a \in Seq(S) /\ b \in Seq(S) /\ Len(a) = k /\ Len(b) = Len(s) - k
           /\ \A i \in 1..k : a[i] = s[i]
  <1>0. Len(s) \in Nat /\ k \in Nat /\ k <= Len(s)
    OBVIOUS
  <1> QED
    BY <1>0

LEMMA Divided ==
    ASSUME NEW S, NEW s \in Seq(S), IsInjective(s), NEW k \in 0..Len(s)
    PROVE  /\ IsInjective(SubSeq(s, 1, k)) /\ IsInjective(SubSeq(s, k + 1, Len(s)))
           /\ ToSet(SubSeq(s, 1, k)) \cup ToSet(SubSeq(s, k + 1, Len(s))) = ToSet(s)
           /\ ToSet(SubSeq(s, 1, k)) \cap ToSet(SubSeq(s, k + 1, Len(s))) = {}
  <1> PICK a : a = SubSeq(s, 1, k)
    OBVIOUS
  <1> PICK b : b = SubSeq(s, k + 1, Len(s))
    OBVIOUS
  <1>0. Len(s) \in Nat /\ k \in Nat /\ k <= Len(s)
    OBVIOUS
  <1>1. a \in Seq(S) /\ b \in Seq(S) /\ Len(a) = k /\ Len(b) = Len(s) - k
    BY <1>0
  <1>2. DOMAIN a = 1..k /\ DOMAIN b = 1..(Len(s) - k) /\ DOMAIN s = 1..Len(s)
    BY <1>0, <1>1
  <1>3. \A i \in 1..k : i \in 1..Len(s) /\ a[i] = s[i]
    BY <1>0
  <1>4. \A i \in 1..(Len(s) - k) : k + i \in 1..Len(s) /\ b[i] = s[k + i]
    BY <1>0
  <1>5. IsInjective(a)
    BY <1>2, <1>3 DEF IsInjective
  <1>6. IsInjective(b)
    <2> SUFFICES ASSUME NEW i \in 1..(Len(s) - k), NEW j \in 1..(Len(s) - k), b[i] = b[j]
                 PROVE  i = j
      BY <1>2 DEF IsInjective
    <2> PICK x : x = k + i
      OBVIOUS
    <2> PICK y : y = k + j
      OBVIOUS
    <2>1. x \in DOMAIN s /\ y \in DOMAIN s /\ s[x] = s[y]
      BY <1>2, <1>4
    <2>2. x = y
      BY <2>1 DEF IsInjective
    <2> QED
      BY <1>0, <2>2
  <1>7. ToSet(a) = {s[i] : i \in 1..k}
    BY <1>2, <1>3 DEF ToSet
  <1>8. ToSet(b) = {s[k + i] : i \in 1..(Len(s) - k)}
    BY <1>2, <1>4 DEF ToSet
  <1>9. ToSet(a) \cup ToSet(b) = ToSet(s)
    <2>1. ToSet(a) \cup ToSet(b) \subseteq ToSet(s)
      BY <1>2, <1>3, <1>4, <1>7, <1>8 DEF ToSet
    <2>2. ASSUME NEW i \in 1..Len(s) PROVE s[i] \in ToSet(a) \cup ToSet(b)
      <3>1. CASE i <= k
        BY <1>0, <1>7, <3>1
      <3>2. CASE ~(i <= k)
        <4> PICK j : j = i - k
          OBVIOUS
        <4>1. j \in 1..(Len(s) - k) /\ k + j = i
          BY <1>0, <3>2
        <4> QED
          BY <1>8, <4>1
      <3> QED
        BY <3>1, <3>2
    <2> QED
      BY <1>2, <2>1, <2>2 DEF ToSet
  <1>10. ToSet(a) \cap ToSet(b) = {}
    <2> SUFFICES ASSUME NEW i \in 1..k, NEW j \in 1..(Len(s) - k), s[i] = s[k + j]
                 PROVE  FALSE
      BY <1>7, <1>8
    <2>1. i = k + j
      BY <1>2, <1>3, <1>4 DEF IsInjective
    <2> QED
      BY <1>0, <2>1
  <1> QED
    BY <1>1, <1>3, <1>5, <1>6, <1>9, <1>10

LEMMA QueueFields ==
    ASSUME NEW S, NEW k \in Seq(S), NEW n \in Nat,
           NEW r, r = [lines |-> k, omitted |-> n]
    PROVE  r \in [lines : Seq(S), omitted : Nat] /\ r.lines = k /\ r.omitted = n
  OBVIOUS

\* LogQueue::push: what is kept and what is given up are the lines there were,
\* each once, and omitted counts those given up.
LEMMA PushKeeps ==
    ASSUME LoggingAssumption, NEW S, NEW q \in [lines : Seq(S), omitted : Nat],
           NEW ls \in Seq(S), IsInjective(q.lines), IsInjective(ls),
           ToSet(q.lines) \cap ToSet(ls) = {},
           NEW r, NEW g, r = PushAll(q, ls), g = GivenUp(q, ls)
    PROVE  /\ r \in [lines : Seq(S), omitted : Nat] /\ Len(r.lines) <= MAX_TERMINAL_LOGS
           /\ IsInjective(r.lines)
           /\ ToSet(r.lines) \cup g = ToSet(q.lines) \cup ToSet(ls)
           /\ ToSet(r.lines) \cap g = {}
           /\ IsFiniteSet(g) /\ r.omitted = q.omitted + Cardinality(g)
  <1> PICK m : m = MAX_TERMINAL_LOGS
    OBVIOUS
  <1> PICK all : all = q.lines \o ls
    OBVIOUS
  <1>0. m \in Nat \ {0}
    BY DEF LoggingAssumption
  <1>1. /\ all \in Seq(S) /\ IsInjective(all)
        /\ ToSet(all) = ToSet(q.lines) \cup ToSet(ls)
    BY Joined
  <1>2. Len(all) \in Nat /\ q.omitted \in Nat
    BY <1>1
  <1>3. PICK over \in 0..Len(all) :
          /\ Len(all) - over <= m
          /\ r = [lines |-> SubSeq(all, over + 1, Len(all)), omitted |-> q.omitted + over]
    <2>1. CASE Len(all) > m
      <3>1. Len(all) - m \in 0..Len(all)
        BY <1>0, <1>2, <2>1
      <3>2. r = [lines |-> SubSeq(all, (Len(all) - m) + 1, Len(all)),
                 omitted |-> q.omitted + (Len(all) - m)]
        BY <2>1 DEF PushAll
      <3>3. Len(all) - (Len(all) - m) <= m
        BY <1>0, <1>2
      <3> QED
        BY <3>1, <3>2, <3>3
    <2>2. CASE ~(Len(all) > m)
      <3>1. r = [lines |-> SubSeq(all, 0 + 1, Len(all)), omitted |-> q.omitted + 0]
        BY <2>2 DEF PushAll
      <3>2. 0 \in 0..Len(all) /\ Len(all) - 0 <= m
        BY <1>0, <1>2, <2>2
      <3> QED
        BY <3>1, <3>2
    <2> QED
      BY <2>1, <2>2
  <1> PICK head : head = SubSeq(all, 1, over)
    OBVIOUS
  <1> PICK kept : kept = SubSeq(all, over + 1, Len(all))
    OBVIOUS
  <1>5. /\ head \in Seq(S) /\ kept \in Seq(S)
        /\ Len(head) = over /\ Len(kept) = Len(all) - over
        /\ \A i \in 1..over : head[i] = all[i]
    BY <1>1, DividedTyped, SMTT(30)
  <1>12. /\ IsInjective(kept)
         /\ ToSet(head) \cup ToSet(kept) = ToSet(all)
         /\ ToSet(head) \cap ToSet(kept) = {}
    <2>1. /\ all \in Seq(S) /\ IsInjective(all) /\ over \in 0..Len(all)
          /\ head = SubSeq(all, 1, over) /\ kept = SubSeq(all, over + 1, Len(all))
      BY <1>1
    <2>2. /\ IsInjective(SubSeq(all, over + 1, Len(all)))
          /\ ToSet(SubSeq(all, 1, over)) \cup ToSet(SubSeq(all, over + 1, Len(all))) = ToSet(all)
          /\ ToSet(SubSeq(all, 1, over)) \cap ToSet(SubSeq(all, over + 1, Len(all))) = {}
      BY ONLY <2>1, Divided
    <2> QED
      BY <2>1, <2>2, Zenon
  <1>6. over \in Nat
    BY <1>2, <1>3
  <1>10. /\ r \in [lines : Seq(S), omitted : Nat]
         /\ r.lines = kept /\ r.omitted = q.omitted + over
    <2>1. r = [lines |-> kept, omitted |-> q.omitted + over]
      BY <1>3, Zenon
    <2>2. q.omitted + over \in Nat
      BY <1>2, <1>6
    <2>3. kept \in Seq(S)
      BY <1>5
    <2> QED
      BY ONLY <2>1, <2>2, <2>3, QueueFields
  <1>7. Len(all) - Len(r.lines) = over
    BY <1>2, <1>5, <1>6, <1>10
  <1>8. g = {all[i] : i \in 1..over} /\ g = ToSet(head)
    <2>1. g = {all[i] : i \in 1..over}
      BY <1>7 DEF GivenUp
    <2>2. DOMAIN head = 1..over
      BY <1>5
    <2>3. \A i \in 1..over : head[i] = all[i]
      BY <1>5
    <2> QED
      BY ONLY <2>1, <2>2, <2>3 DEF ToSet
  <1>9. IsFiniteSet(g) /\ Cardinality(g) = over
    <2> DEFINE f == [i \in 1..over |-> all[i]]
    <2>1. 1..over \subseteq DOMAIN all
      BY <1>1, <1>2, <1>3
    <2>2. f \in Bijection(1..over, g)
      <3>1. f \in [1..over -> g]
        BY <1>8
      <3>2. IsInjective(f)
        BY <1>1, <2>1 DEF IsInjective
      <3>3. \A y \in g : \E i \in 1..over : f[i] = y
        BY <1>8
      <3> QED
        BY <3>1, <3>2, <3>3 DEF Bijection, Injection, Surjection
    <2>3. ExistsBijection(1..over, g)
      BY <2>2 DEF ExistsBijection
    <2>4. IsFiniteSet(1..over) /\ Cardinality(1..over) = over
      <3>1. over \in Nat
        BY <1>6
      <3>2. /\ IsFiniteSet(1..over)
            /\ Cardinality(1..over) = IF 1 > over THEN 0 ELSE over - 1 + 1
        <4>1. 1 \in Int /\ over \in Int
          BY <3>1
        <4> QED
          BY <4>1, FS_Interval, Zenon
      <3> QED
        BY <3>1, <3>2
    <2> QED
      BY <2>3, <2>4, FS_Bijection
  <1>11. Len(r.lines) <= MAX_TERMINAL_LOGS
    BY <1>3, <1>5, <1>10
  <1> QED
    BY <1>1, <1>8, <1>9, <1>10, <1>11, <1>12

-----------------------------------------------------------------------------
\* What a thread is doing, when its lines are among S; and a queue of lines of S.
ThreadState(S) ==
    [pc : Pcs, job : Jobs, todo : Seq(S), to : {"none", "open", "taken"}]
QueueOf(S) == {q \in [lines : Seq(S), omitted : Nat] : Len(q.lines) <= MAX_TERMINAL_LOGS}

\* The lines a step of p may move.
Held(p) == Waiting \cup ToSet(th[p].todo)

\* A step of p: N is what it logs, and lines go from one place to another.
StaysTyped(p) ==
    /\ lock' \in Threads \cup {None} /\ sink' \in {"none", "open", "taken"}
    /\ file' \in BOOLEAN /\ told' \in Nat
    /\ th' \in [Threads -> ThreadState(said')]
    /\ \A r \in Threads : r # p => th'[r] = th[r]
    /\ queue' \in QueueOf(said') /\ emergency' \in QueueOf(said')
    /\ disk' \cup shown' \cup out' \cup dropped' \cup cut' \subseteq said'
Logs(N) ==
    /\ said' = said \cup N /\ N \cap said = {}
    /\ IsFiniteSet(N) /\ N \subseteq Threads \X Kinds \X Nat
MovesOnce(p, N) ==
    /\ IsInjective(queue'.lines) /\ IsInjective(emergency'.lines) /\ IsInjective(th'[p].todo)
    /\ ToSet(queue'.lines) \cap ToSet(emergency'.lines) = {}
    /\ ToSet(th'[p].todo) \cap Waiting' = {}
    /\ Held(p)' \subseteq Held(p) \cup N
    /\ dropped' \subseteq dropped \cup Held(p) \cup N /\ dropped' \cap Held(p)' = {}
LosesNone(p, N) ==
    /\ Seen \subseteq Seen' /\ cut \subseteq cut' /\ dropped \subseteq dropped'
    /\ Held(p) \cup N \subseteq Held(p)' \cup Seen' \cup dropped' \cup cut'
    /\ Cardinality(dropped') = queue'.omitted + emergency'.omitted + told'

LinesKept == LoggerTyped /\ OnePlace /\ EveryLineSomewhere

LEMMA TypedMoves ==
    ASSUME LoggingAssumption, LoggerTyped, NEW p \in Threads, NEW N, StaysTyped(p), Logs(N)
    PROVE  LoggerTyped'
  <1>1. IsFiniteSet(said') /\ said' \subseteq Threads \X Kinds \X Nat
    <2>1. IsFiniteSet(said \cup N)
      BY FS_Union DEF LoggerTyped, Logs
    <2> QED
      BY <2>1 DEF LoggerTyped, Logs
  <1>2. /\ queue' \in [lines : Seq(said'), omitted : Nat]
        /\ Len(queue'.lines) <= MAX_TERMINAL_LOGS
        /\ emergency' \in [lines : Seq(said'), omitted : Nat]
        /\ Len(emergency'.lines) <= MAX_TERMINAL_LOGS
    BY DEF StaysTyped, QueueOf
  <1> QED
    BY <1>1, <1>2 DEF LoggerTyped, StaysTyped, ThreadState

\* What the other threads hold is still theirs, and nowhere else.
LEMMA OncePlaceMoves ==
    ASSUME LoggingAssumption, LoggerTyped, OnePlace, NEW p \in Threads, NEW N,
           StaysTyped(p), Logs(N), MovesOnce(p, N)
    PROVE  OnePlace'
  <1>0. \A r \in Threads : ToSet(th[r].todo) \subseteq said
    <2> SUFFICES ASSUME NEW r \in Threads PROVE ToSet(th[r].todo) \subseteq said
      OBVIOUS
    <2>1. th[r].todo \in Seq(said)
      BY DEF LoggerTyped
    <2> QED
      BY <2>1 DEF ToSet
  <1>1. \A r \in Threads : r # p => th'[r].todo = th[r].todo
    BY DEF StaysTyped
  <1>2. \A r \in Threads : IsInjective(th'[r].todo)
    BY <1>1 DEF OnePlace, MovesOnce
  <1> PICK X : X = Held(p)
    OBVIOUS
  <1> PICK Y : Y = Held(p)'
    OBVIOUS
  <1>3. \A r \in Threads : r # p => ToSet(th[r].todo) \cap X = {}
    <2> SUFFICES ASSUME NEW r \in Threads, r # p PROVE ToSet(th[r].todo) \cap X = {}
      OBVIOUS
    <2>1. ToSet(th[r].todo) \cap ToSet(th[p].todo) = {}
      BY DEF OnePlace
    <2>2. ToSet(th[r].todo) \subseteq InFlight
      BY DEF InFlight
    <2>3. ToSet(th[r].todo) \cap Waiting = {}
      BY <2>2 DEF OnePlace
    <2> QED
      BY <2>1, <2>3 DEF Held
  <1>4. Y \subseteq X \cup N /\ dropped' \subseteq dropped \cup X \cup N /\ dropped' \cap Y = {}
    BY DEF MovesOnce
  <1>5. Waiting' \subseteq Y /\ ToSet(th'[p].todo) \subseteq Y
    BY DEF Held
  <1>6. \A r \in Threads : r # p =>
          ToSet(th'[r].todo) \cap Y = {} /\ ToSet(th'[r].todo) \cap dropped' = {}
    <2> SUFFICES ASSUME NEW r \in Threads, r # p
                 PROVE  ToSet(th[r].todo) \cap Y = {} /\ ToSet(th[r].todo) \cap dropped' = {}
      BY <1>1
    <2>1. ToSet(th[r].todo) \cap X = {} /\ ToSet(th[r].todo) \cap N = {}
      BY <1>0, <1>3 DEF Logs
    <2>2. ToSet(th[r].todo) \cap dropped = {}
      <3>1. ToSet(th[r].todo) \subseteq InFlight
        BY DEF InFlight
      <3> QED
        BY <3>1 DEF OnePlace
    <2> QED
      BY <1>4, <2>1, <2>2
  <1>7. InFlight' = UNION {ToSet(th'[r].todo) : r \in Threads}
    BY DEF InFlight
  <1>8. InFlight' \cap Waiting' = {}
    <2> SUFFICES ASSUME NEW r \in Threads PROVE ToSet(th'[r].todo) \cap Waiting' = {}
      BY <1>7
    <2>1. CASE r = p
      BY <2>1 DEF MovesOnce
    <2>2. CASE r # p
      BY <1>5, <1>6, <2>2
    <2> QED
      BY <2>1, <2>2
  <1>9. (InFlight' \cup Waiting') \cap dropped' = {}
    <2>1. ASSUME NEW r \in Threads PROVE ToSet(th'[r].todo) \cap dropped' = {}
      <3>1. CASE r = p
        BY <1>4, <1>5, <3>1
      <3>2. CASE r # p
        BY <1>6, <3>2
      <3> QED
        BY <3>1, <3>2
    <2>2. InFlight' \cap dropped' = {}
      BY <1>7, <2>1
    <2> QED
      BY <1>4, <1>5, <2>2
  <1>10. ASSUME NEW r \in Threads, NEW s \in Threads, r # s
         PROVE  ToSet(th'[r].todo) \cap ToSet(th'[s].todo) = {}
    <2>1. CASE r = p
      BY <1>5, <1>6, <1>10, <2>1
    <2>2. CASE s = p
      BY <1>5, <1>6, <1>10, <2>2
    <2>3. CASE r # p /\ s # p
      BY <1>1, <1>10, <2>3 DEF OnePlace
    <2> QED
      BY <2>1, <2>2, <2>3
  <1> QED
    BY <1>2, <1>8, <1>9, <1>10 DEF OnePlace, MovesOnce

LEMMA NothingIsLost ==
    ASSUME LoggingAssumption, LinesKept, NEW p \in Threads, NEW N,
           StaysTyped(p), Logs(N), LosesNone(p, N)
    PROVE  EveryLineSomewhere'
  <1>1. \A r \in Threads : r # p => ToSet(th[r].todo) \subseteq InFlight'
    BY DEF StaysTyped, InFlight
  <1>2. Held(p)' \subseteq InFlight' \cup Waiting'
    BY DEF Held, InFlight
  <1>3. InFlight \subseteq InFlight' \cup Held(p)
    <2> SUFFICES ASSUME NEW r \in Threads
                 PROVE  ToSet(th[r].todo) \subseteq InFlight' \cup Held(p)
      BY DEF InFlight
    <2> QED
      BY <1>1 DEF Held
  <1>4. Waiting \subseteq Held(p)
    BY DEF Held
  <1> QED
    BY <1>2, <1>3, <1>4 DEF LinesKept, EveryLineSomewhere, Logs, LosesNone

LEMMA LinesMove ==
    ASSUME LoggingAssumption, LinesKept, NEW p \in Threads, NEW N,
           StaysTyped(p), Logs(N), MovesOnce(p, N), LosesNone(p, N)
    PROVE  LinesKept'
  <1>1. LoggerTyped'
    BY TypedMoves DEF LinesKept
  <1>2. OnePlace'
    BY OncePlaceMoves DEF LinesKept
  <1>3. EveryLineSomewhere'
    BY NothingIsLost
  <1> QED
    BY <1>1, <1>2, <1>3 DEF LinesKept

-----------------------------------------------------------------------------
AllNumbered == \A l \in said : Numbered(l)
AllStages == \A p \in Threads : Stage(p)

LEMMA LogInvIs == LogInv <=> LinesKept /\ AllNumbered /\ AllStages /\ Nested
  BY DEF LogInv, LinesKept, AllNumbered, AllStages

LEMMA Names ==
    ASSUME LoggingAssumption
    PROVE  /\ Main \in Threads /\ Server \in Threads /\ Main # Server
           /\ Main \notin Workers /\ Server \notin Workers
           /\ \A w \in Workers : w \in Threads /\ w # Main /\ w # Server
           /\ \A p \in Threads : p \in Workers \/ p = Main \/ p = Server
  BY DEF LoggingAssumption, Threads, Main, Server

LEMMA LogStarts ==
    ASSUME LoggingAssumption, LogInit
    PROVE  LogInv
  <1> PICK tui \in BOOLEAN :
        th = [p \in Threads |-> Quiet(IF p = Main /\ ~tui THEN "done" ELSE "new")]
    BY DEF LogInit
  <1>1. \A p \in Threads :
          /\ th[p].todo = <<>> /\ th[p].job = None /\ th[p].to = None
          /\ th[p].pc \in {"new", "done"} /\ (p # Main => th[p].pc = "new")
    BY DEF Quiet
  <1>2. \A p \in Threads : ToSet(th[p].todo) = {}
    BY <1>1 DEF ToSet
  <1>3. /\ queue = EmptyQueue /\ emergency = EmptyQueue /\ said = {} /\ dropped = {}
        /\ disk = {} /\ shown = {} /\ out = {} /\ cut = {} /\ told = 0
        /\ sink = "none" /\ file = FALSE /\ lock = None
    BY DEF LogInit
  <1>4. /\ queue.lines = <<>> /\ emergency.lines = <<>>
        /\ queue.omitted = 0 /\ emergency.omitted = 0
    BY <1>3 DEF EmptyQueue
  <1>5. /\ Len(queue.lines) = 0 /\ Len(emergency.lines) = 0
        /\ ToSet(queue.lines) = {} /\ ToSet(emergency.lines) = {}
    BY <1>4 DEF ToSet
  <1>6. InFlight = {} /\ Waiting = {}
    BY <1>2, <1>5 DEF InFlight, Waiting
  <1>7. IsFiniteSet({}) /\ Cardinality({}) = 0
    BY FS_EmptySet
  <1>8. LoggerTyped
    <2>1. EmptyQueue \in [lines : Seq(said), omitted : Nat]
      BY DEF EmptyQueue
    <2>2. th \in [Threads -> [pc : Pcs, job : Jobs, todo : Seq(said),
                              to : {"none", "open", "taken"}]]
      BY DEF Quiet, Pcs, Jobs, None
    <2>3. 0 <= MAX_TERMINAL_LOGS
      BY DEF LoggingAssumption
    <2> QED
      BY <1>3, <1>5, <1>7, <2>1, <2>2, <2>3 DEF LoggerTyped
  <1>9. OnePlace
    <2>1. \A p \in Threads : IsInjective(th[p].todo)
      BY <1>1 DEF IsInjective
    <2>2. IsInjective(queue.lines) /\ IsInjective(emergency.lines)
      BY <1>4 DEF IsInjective
    <2> QED
      BY <1>2, <1>5, <1>6, <2>1, <2>2 DEF OnePlace
  <1>10. EveryLineSomewhere
    BY <1>3, <1>4, <1>7 DEF EveryLineSomewhere
  <1>11. AllNumbered
    BY <1>3 DEF AllNumbered
  <1>12. AllStages
    BY <1>1 DEF AllStages, Stage, None
  <1>13. Nested
    BY <1>1, <1>3, <1>4, Names DEF Nested, Early, Late, Working, None
  <1> QED
    BY <1>8, <1>9, <1>10, <1>11, <1>12, <1>13, LogInvIs DEF LinesKept

\* Numbers only grow, so earlier lines keep theirs.
LEMMA NumbersMove ==
    ASSUME LoggingAssumption, LoggerTyped, LoggerTyped', AllNumbered, NEW N, Logs(N),
           \A r \in Threads : th[r].pc \in {"hook", "defer", "done"} =>
                              th'[r].pc \in {"hook", "defer", "done"},
           th[Server].pc # "new" /\ th[Server].job # "openFile" =>
             th'[Server].pc # "new" /\ th'[Server].job # "openFile",
           \A l \in N : Numbered(l)'
    PROVE  AllNumbered'
  <1> SUFFICES ASSUME NEW l \in said PROVE Numbered(l)'
    BY DEF AllNumbered, Logs
  <1>0. Numbered(l) /\ l[1] \in Threads
    BY DEF AllNumbered, LoggerTyped
  <1>1. IsFiniteSet(said) /\ IsFiniteSet(said') /\ said \subseteq said'
    BY DEF LoggerTyped, Logs
  <1>2. Cardinality(said) \in Nat /\ Cardinality(said') \in Nat
        /\ Cardinality(said) <= Cardinality(said')
    BY <1>1, FS_Subset, FS_CardinalityType
  <1> PICK A : A = LogLines(l[1])
    OBVIOUS
  <1> PICK B : B = LogLines(l[1])'
    OBVIOUS
  <1>3. A \subseteq B /\ B \subseteq said'
    BY <1>1 DEF LogLines
  <1>4. IsFiniteSet(A) /\ IsFiniteSet(B) /\ Cardinality(A) <= Cardinality(B)
    BY <1>1, <1>3, FS_Subset
  <1>5. Cardinality(A) \in Nat /\ Cardinality(B) \in Nat
    BY <1>4, FS_CardinalityType
  <1>6. l[3] \in Nat
    BY DEF LoggerTyped
  <1>7. l[2] \in {"omitted", "log file disabled"} => l[3] < Cardinality(said')
    <2> PICK c : c = Cardinality(said)
      OBVIOUS
    <2> PICK d : d = Cardinality(said')
      OBVIOUS
    <2>1. l[2] \in {"omitted", "log file disabled"} => l[3] < c
      BY <1>0 DEF Numbered
    <2>2. c \in Nat /\ d \in Nat /\ c <= d
      BY <1>2
    <2> PICK x : x = l[3]
      OBVIOUS
    <2>3. x < c => x < d
      BY <1>6, <2>2
    <2> QED
      BY <2>1, <2>3
  <1>8. l[2] = "log" => l[3] <= Cardinality(B)
    <2> PICK c : c = Cardinality(A)
      OBVIOUS
    <2> PICK d : d = Cardinality(B)
      OBVIOUS
    <2>1. l[2] = "log" => l[3] <= c
      BY <1>0 DEF Numbered
    <2>2. c \in Nat /\ d \in Nat /\ c <= d
      BY <1>4, <1>5
    <2> PICK x : x = l[3]
      OBVIOUS
    <2>3. x <= c => x <= d
      BY <1>6, <2>2
    <2> QED
      BY <2>1, <2>3
  <1> QED
    BY <1>0, <1>7, <1>8 DEF Numbered

LEMMA StagesMove ==
    ASSUME AllStages, NEW p \in Threads, \A r \in Threads : r # p => th'[r] = th[r],
           sink = "open" =>
             sink' = "open" \/ \A r \in Threads : r # p => th[r].pc # "push",
           Stage(p)'
    PROVE  AllStages'
  <1> SUFFICES ASSUME NEW r \in Threads PROVE Stage(r)'
    BY DEF AllStages
  <1>1. CASE r = p
    BY <1>1
  <1>2. CASE r # p
    <2>1. th'[r] = th[r] /\ Stage(r)
      BY <1>2 DEF AllStages
    <2> QED
      BY <1>2, <2>1 DEF Stage
  <1> QED
    BY <1>1, <1>2

\* A step of a thread that has begun and not ended.
LEMMA NestedMoves ==
    ASSUME LoggingAssumption, AllStages, Nested, NEW p \in Threads,
           \A r \in Threads : r # p => th'[r] = th[r],
           th[p].pc \notin {"new", "done"}, th'[p].pc # "new",
           \/ th'[p].job = th[p].job
           \/ p \in Workers
           \/ th[p].pc = "idle" /\ th'[p].job = "log" /\ th'[p].pc = "flush" /\ p # Main,
           th'[p].pc = "done" => p \in Workers \/ th[p].job = "fail",
           sink' = sink, sink # "open" => queue' = queue,
           \/ p \in Workers
           \/ emergency' = emergency /\ (p = Server => th[p].pc # "flush")
           \/ emergency'.lines = <<>>
    PROVE  Nested'
  <1>1. CASE p \in Workers
    <2>1. th'[Server] = th[Server] /\ th'[Main] = th[Main]
      BY <1>1, Names
    <2>2. ~Early /\ ~Late
      BY <1>1 DEF Nested, Working
    <2>3. ~Early' /\ ~Late'
      BY <2>1, <2>2 DEF Early, Late
    <2> QED
      BY <2>1, <2>3 DEF Nested
  <1>2. CASE p = Main
    <2>1. th'[Server] = th[Server] /\ \A w \in Workers : th'[w] = th[w]
      BY <1>2, Names
    <2>2. (Early' <=> Early) /\ (Late' <=> Late) /\ Working' = Working
      BY <2>1 DEF Early, Late, Working
    <2>3. th'[Main].job = th[Main].job /\ th'[Main].pc # "done"
      BY <1>2, Names DEF Nested, None
    <2>4. emergency.lines = <<>> => emergency'.lines = <<>>
      BY <1>2, Names
    <2> QED
      BY <2>1, <2>2, <2>3, <2>4 DEF Nested
  <1>3. CASE p = Server
    <2>1. th'[Main] = th[Main] /\ \A w \in Workers : th'[w] = th[w]
      BY <1>3, Names
    <2>2. Working' = Working
      BY <2>1 DEF Working
    <2>3. th[Main].job # "closeSink"
      BY <1>3 DEF Nested
    <2>4. CASE th'[Server].job = th[Server].job
      <3>1. Early' <=> Early
        BY <1>3, <2>4 DEF Early
      <3>2. Late' => Late \/ Early
        BY <1>3, <2>4, Names DEF Early, Late
      <3>3. Early => Working = {}
        BY DEF Nested, Working
      <3>4. Late' => Working' = {}
        BY <2>2, <3>2, <3>3 DEF Nested
      <3>5. Early' \/ (Late' /\ th'[Server].pc # "flush") => emergency'.lines = <<>>
        <4>1. CASE emergency'.lines = <<>>
          BY <4>1
        <4>2. CASE emergency' = emergency /\ th[Server].pc # "flush"
          BY <3>1, <3>2, <4>2 DEF Nested
        <4> QED
          BY <1>3, <4>1, <4>2, Names
      <3> QED
        BY <2>1, <2>3, <2>4, <3>1, <3>4, <3>5 DEF Nested
    <2>5. CASE th[Server].pc = "idle" /\ th'[Server].job = "log" /\ th'[Server].pc = "flush"
      <3>1. ~Early' /\ ~Late'
        BY <2>5 DEF Early, Late
      <3> QED
        BY <2>1, <2>3, <2>5, <3>1 DEF Nested
    <2> QED
      BY <1>3, <2>4, <2>5, Names
  <1> QED
    BY <1>1, <1>2, <1>3, Names

-----------------------------------------------------------------------------
(* Steps that move no line. *)

LEMMA ThreadTyped ==
    ASSUME LoggerTyped, said \subseteq said', NEW p \in Threads,
           NEW x \in ThreadState(said'), th' = [th EXCEPT ![p] = x]
    PROVE  /\ th' \in [Threads -> ThreadState(said')] /\ th'[p] = x
           /\ \A r \in Threads : r # p => th'[r] = th[r]
  <1>1. \A r \in Threads : th[r] \in ThreadState(said')
    <2> SUFFICES ASSUME NEW r \in Threads PROVE th[r] \in ThreadState(said')
      OBVIOUS
    <2>1. th[r] \in [pc : Pcs, job : Jobs, todo : Seq(said), to : {"none", "open", "taken"}]
      BY DEF LoggerTyped
    <2>2. th[r].todo \in Seq(said')
      BY <2>1
    <2> QED
      BY <2>1, <2>2 DEF ThreadState
  <1>2. th \in [Threads -> ThreadState(said')]
    BY <1>1 DEF LoggerTyped
  <1> QED
    BY <1>2

LEMMA ThreadIs ==
    ASSUME LoggerTyped, NEW p \in Threads
    PROVE  /\ th[p] \in ThreadState(said) /\ th[p].pc \in Pcs /\ th[p].job \in Jobs
           /\ th[p].todo \in Seq(said) /\ th[p].to \in {"none", "open", "taken"}
           /\ th[p] = [pc |-> th[p].pc, job |-> th[p].job,
                       todo |-> th[p].todo, to |-> th[p].to]
  BY DEF LoggerTyped, ThreadState

LEMMA NothingLogged ==
    ASSUME UNCHANGED said
    PROVE  Logs({})
  BY FS_EmptySet DEF Logs

LEMMA Unmoved ==
    ASSUME LoggingAssumption, LinesKept, NEW p \in Threads,
           th' \in [Threads -> ThreadState(said')],
           \A r \in Threads : r # p => th'[r] = th[r],
           th'[p].todo = th[p].todo,
           UNCHANGED <<queue, emergency, disk, shown, out, said, dropped, told, cut>>,
           lock' \in Threads \cup {None}, sink' \in {"none", "open", "taken"},
           file' \in BOOLEAN
    PROVE  LinesKept'
  <1>1. Held(p)' = Held(p) /\ Waiting' = Waiting /\ Seen' = Seen
    BY DEF Held, Waiting, Seen
  <1>2. StaysTyped(p)
    <2>1. queue' \in QueueOf(said') /\ emergency' \in QueueOf(said')
      BY DEF LinesKept, LoggerTyped, QueueOf
    <2> QED
      BY <2>1 DEF StaysTyped, LinesKept, LoggerTyped
  <1>3. ToSet(th[p].todo) \subseteq InFlight
    BY DEF InFlight
  <1>4. Held(p) \cap dropped = {} /\ ToSet(th[p].todo) \cap Waiting = {}
    BY <1>3 DEF Held, LinesKept, OnePlace
  <1>5. MovesOnce(p, {})
    BY <1>1, <1>4 DEF MovesOnce, LinesKept, OnePlace
  <1>6. LosesNone(p, {})
    BY <1>1 DEF LosesNone, LinesKept, EveryLineSomewhere
  <1> QED
    BY <1>2, <1>5, <1>6, LinesMove, NothingLogged

LEMMA QuietStep ==
    ASSUME LoggingAssumption, LogInv, NEW p \in Threads, NEW x \in ThreadState(said),
           th' = [th EXCEPT ![p] = x], x.todo = th[p].todo,
           UNCHANGED <<queue, emergency, disk, shown, out, said, dropped, told, cut>>,
           lock' \in Threads \cup {None}, sink' \in {"none", "open", "taken"},
           file' \in BOOLEAN,
           th[p].pc \in {"hook", "defer", "done"} => x.pc \in {"hook", "defer", "done"},
           p = Server /\ th[p].pc # "new" /\ th[p].job # "openFile" =>
             x.pc # "new" /\ x.job # "openFile",
           sink = "open" => sink' = "open" \/ \A r \in Threads : r # p => th[r].pc # "push",
           Stage(p)', Nested'
    PROVE  LogInv'
  <1>0. LinesKept /\ AllNumbered /\ AllStages /\ LoggerTyped
    BY LogInvIs DEF LinesKept
  <1>1. /\ th' \in [Threads -> ThreadState(said')] /\ th'[p] = x
        /\ \A r \in Threads : r # p => th'[r] = th[r]
    BY <1>0, ThreadTyped
  <1>2. LinesKept' /\ LoggerTyped'
    <2>1. LinesKept'
      BY <1>0, <1>1, Unmoved
    <2> QED
      BY <2>1 DEF LinesKept
  <1>3. AllStages'
    BY <1>0, <1>1, StagesMove
  <1>4. AllNumbered'
    <2>1. \A r \in Threads : th[r].pc \in {"hook", "defer", "done"} =>
                             th'[r].pc \in {"hook", "defer", "done"}
      BY <1>1
    <2>2. th[Server].pc # "new" /\ th[Server].job # "openFile" =>
            th'[Server].pc # "new" /\ th'[Server].job # "openFile"
      BY <1>1, Names
    <2>3. \A l \in {} : Numbered(l)'
      OBVIOUS
    <2> QED
      BY <1>0, <1>2, <2>1, <2>2, <2>3, NumbersMove, NothingLogged
  <1>5. LogInv' <=> LinesKept' /\ AllNumbered' /\ AllStages' /\ Nested'
    BY DEF LogInv, LinesKept, AllNumbered, AllStages
  <1> QED
    BY <1>2, <1>3, <1>4, <1>5

LEMMA GotoIs ==
    ASSUME LoggerTyped, NEW p \in Threads, NEW s \in Pcs, Goto(p, s)
    PROVE  \E x \in ThreadState(said) :
             /\ th' = [th EXCEPT ![p] = x] /\ x.pc = s /\ x.job = th[p].job
             /\ x.todo = th[p].todo /\ x.to = th[p].to
  <1> PICK x : x = [th[p] EXCEPT !.pc = s]
    OBVIOUS
  <1>1. x \in ThreadState(said)
    BY ThreadIs DEF ThreadState
  <1>2. /\ x.pc = s /\ x.job = th[p].job
        /\ x.todo = th[p].todo /\ x.to = th[p].to
    BY ThreadIs
  <1>3. th' = [th EXCEPT ![p] = x]
    BY DEF Goto
  <1> QED
    BY <1>1, <1>2, <1>3

LEMMA QuietIs ==
    ASSUME NEW s \in Pcs
    PROVE  /\ Quiet(s) \in ThreadState(said) /\ Quiet(s).pc = s /\ Quiet(s).job = None
           /\ Quiet(s).todo = <<>> /\ Quiet(s).to = None
  BY DEF Quiet, ThreadState, None, Jobs

LEMMA OpenSinkKeeps ==
    ASSUME LoggingAssumption, LogInv, OpenSink
    PROVE  LogInv'
  <1>0. LoggerTyped /\ AllStages /\ Nested /\ Main \in Threads
    BY LogInvIs, Names DEF LinesKept
  <1>1. PICK x \in ThreadState(said) :
          /\ th' = [th EXCEPT ![Main] = x] /\ x.pc = "want" /\ x.job = "openSink"
          /\ x.todo = <<>> /\ x.to = "none"
    <2> PICK x : x = [pc |-> "want", job |-> "openSink", todo |-> <<>>, to |-> "none"]
      OBVIOUS
    <2>1. x \in ThreadState(said)
      BY DEF ThreadState, Pcs, Jobs
    <2>2. th' = [th EXCEPT ![Main] = x]
      BY DEF OpenSink, Enter, None
    <2> QED
      BY <2>1, <2>2
  <1>2. th[Main].todo = <<>> /\ th[Main].pc = "new"
    BY <1>0 DEF OpenSink, AllStages, Stage
  <1>3. th'[Main] = x /\ \A r \in Threads : r # Main => th'[r] = th[r]
    BY <1>0, <1>1, ThreadTyped DEF OpenSink
  <1>4. Stage(Main)'
    BY <1>1, <1>3, Names DEF Stage
  <1>5. Nested'
    <2>1. th'[Server] = th[Server] /\ \A w \in Workers : th'[w] = th[w]
      BY <1>3, Names
    <2>2. (Early' <=> Early) /\ (Late' <=> Late) /\ Working' = Working
      BY <2>1 DEF Early, Late, Working
    <2> QED
      BY <1>0, <1>1, <1>3, <2>1, <2>2 DEF Nested, OpenSink
  <1>6. lock' \in Threads \cup {None} /\ sink' \in {"none", "open", "taken"}
        /\ file' \in BOOLEAN /\ sink' = sink
    BY <1>0 DEF OpenSink, LoggerTyped
  <1>7. UNCHANGED <<queue, emergency, disk, shown, out, said, dropped, told, cut>>
    BY DEF OpenSink
  <1> QED
    BY <1>0, <1>1, <1>2, <1>4, <1>5, <1>6, <1>7, QuietStep, Names

LEMMA OpenFileKeeps ==
    ASSUME LoggingAssumption, LogInv, OpenFile
    PROVE  LogInv'
  <1>0. LoggerTyped /\ AllStages /\ Nested /\ Server \in Threads
    BY LogInvIs, Names DEF LinesKept
  <1>1. PICK x \in ThreadState(said) :
          /\ th' = [th EXCEPT ![Server] = x] /\ x.pc = "want" /\ x.job = "openFile"
          /\ x.todo = <<>> /\ x.to = "none"
    <2> PICK x : x = [pc |-> "want", job |-> "openFile", todo |-> <<>>, to |-> "none"]
      OBVIOUS
    <2>1. x \in ThreadState(said)
      BY DEF ThreadState, Pcs, Jobs
    <2>2. th' = [th EXCEPT ![Server] = x]
      BY DEF OpenFile, Enter, None
    <2> QED
      BY <2>1, <2>2
  <1>2. th[Server].todo = <<>> /\ th[Server].pc = "new"
    BY <1>0 DEF OpenFile, AllStages, Stage
  <1>3. th'[Server] = x /\ \A r \in Threads : r # Server => th'[r] = th[r]
    BY <1>0, <1>1, ThreadTyped DEF OpenFile
  <1>4. Stage(Server)'
    BY <1>1, <1>3, Names DEF Stage
  <1>5. Nested'
    <2>1. th'[Main] = th[Main] /\ \A w \in Workers : th'[w] = th[w]
      BY <1>3, Names
    <2>2. Early /\ Early' /\ ~Late'
      BY <1>1, <1>2, <1>3 DEF Early, Late
    <2> QED
      BY <1>0, <1>1, <1>2, <1>3, <2>1, <2>2 DEF Nested, OpenFile
  <1>6. lock' \in Threads \cup {None} /\ sink' \in {"none", "open", "taken"}
        /\ file' \in BOOLEAN /\ sink' = sink
    BY <1>0 DEF OpenFile, LoggerTyped
  <1>7. UNCHANGED <<queue, emergency, disk, shown, out, said, dropped, told, cut>>
    BY DEF OpenFile
  <1> QED
    BY <1>0, <1>1, <1>2, <1>4, <1>5, <1>6, <1>7, QuietStep, Names

LEMMA SpawnKeeps ==
    ASSUME LoggingAssumption, LogInv, NEW w \in Workers, Spawn(w)
    PROVE  LogInv'
  <1>0. LoggerTyped /\ AllStages /\ Nested /\ w \in Threads /\ w # Server /\ w # Main
    BY LogInvIs, Names DEF LinesKept
  <1>1. PICK x \in ThreadState(said) :
          /\ th' = [th EXCEPT ![w] = x] /\ x.pc = "idle" /\ x.job = th[w].job
          /\ x.todo = th[w].todo /\ x.to = th[w].to
    BY <1>0, GotoIs DEF Spawn, Pcs
  <1>2. th[w].todo = <<>> /\ th[w].pc = "new" /\ th[w].job \in {None, "log"}
    BY <1>0 DEF Spawn, AllStages, Stage
  <1>3. th'[w] = x /\ \A r \in Threads : r # w => th'[r] = th[r]
    BY <1>0, <1>1, ThreadTyped DEF Spawn
  <1>4. Stage(w)'
    BY <1>1, <1>2, <1>3 DEF Stage
  <1>5. Nested'
    <2>1. th'[Main] = th[Main] /\ th'[Server] = th[Server]
      BY <1>0, <1>3, Names
    <2>2. th[Server].pc = "idle" /\ th[Server].job \in {None, "log"}
      BY <1>0, Names DEF Spawn, AllStages, Stage
    <2>3. ~Early' /\ ~Late'
      BY <2>1, <2>2 DEF Early, Late, None
    <2> QED
      BY <1>0, <2>1, <2>3 DEF Nested, Spawn
  <1>6. lock' \in Threads \cup {None} /\ sink' \in {"none", "open", "taken"}
        /\ file' \in BOOLEAN /\ sink' = sink
    BY <1>0 DEF Spawn, LoggerTyped
  <1>7. UNCHANGED <<queue, emergency, disk, shown, out, said, dropped, told, cut>>
    BY DEF Spawn
  <1> QED
    BY <1>0, <1>1, <1>2, <1>4, <1>5, <1>6, <1>7, QuietStep

LEMMA ReturnKeeps ==
    ASSUME LoggingAssumption, LogInv, NEW w, Return(w)
    PROVE  LogInv'
  <1>0. LoggerTyped /\ AllStages /\ Nested /\ w \in Workers /\ w \in Threads
        /\ w # Server /\ w # Main
    BY LogInvIs, Names DEF LinesKept, Return
  <1>1. PICK x \in ThreadState(said) :
          /\ th' = [th EXCEPT ![w] = x] /\ x.pc = "done" /\ x.job = th[w].job
          /\ x.todo = th[w].todo /\ x.to = th[w].to
    BY <1>0, GotoIs DEF Return, Pcs
  <1>2. th[w].todo = <<>> /\ th[w].pc = "idle" /\ th[w].job \in {None, "log"}
    BY <1>0 DEF Return, AllStages, Stage
  <1>3. th'[w] = x /\ \A r \in Threads : r # w => th'[r] = th[r]
    BY <1>0, <1>1, ThreadTyped DEF Return
  <1>4. Stage(w)'
    BY <1>1, <1>2, <1>3 DEF Stage
  <1>5. Nested'
    BY <1>0, <1>1, <1>2, <1>3, NestedMoves DEF Return
  <1>6. lock' \in Threads \cup {None} /\ sink' \in {"none", "open", "taken"}
        /\ file' \in BOOLEAN /\ sink' = sink
    BY <1>0 DEF Return, LoggerTyped
  <1>7. UNCHANGED <<queue, emergency, disk, shown, out, said, dropped, told, cut>>
    BY DEF Return
  <1> QED
    BY <1>0, <1>1, <1>2, <1>4, <1>5, <1>6, <1>7, QuietStep

LEMMA AcquireKeeps ==
    ASSUME LoggingAssumption, LogInv, NEW p \in Threads, Acquire(p)
    PROVE  LogInv'
  <1>0. LoggerTyped /\ AllStages /\ Nested
    BY LogInvIs DEF LinesKept
  <1>1. PICK x \in ThreadState(said) :
          /\ th' = [th EXCEPT ![p] = x] /\ x.pc = "holding" /\ x.job = th[p].job
          /\ x.todo = th[p].todo /\ x.to = th[p].to
    BY <1>0, GotoIs DEF Acquire, Pcs
  <1>2. th[p].pc = "want" /\ Stage(p)
    BY <1>0 DEF Acquire, AllStages
  <1>3. th'[p] = x /\ \A r \in Threads : r # p => th'[r] = th[r]
    BY <1>0, <1>1, ThreadTyped DEF Acquire
  <1>4. Stage(p)'
    BY <1>1, <1>2, <1>3 DEF Stage
  <1>5. Nested'
    BY <1>0, <1>1, <1>2, <1>3, NestedMoves DEF Acquire
  <1>6. lock' \in Threads \cup {None} /\ sink' \in {"none", "open", "taken"}
        /\ file' \in BOOLEAN /\ sink' = sink
    BY <1>0 DEF Acquire, LoggerTyped
  <1>7. UNCHANGED <<queue, emergency, disk, shown, out, said, dropped, told, cut>>
    BY DEF Acquire
  <1> QED
    BY <1>0, <1>1, <1>2, <1>4, <1>5, <1>6, <1>7, QuietStep

LEMMA CallKeeps ==
    ASSUME LoggingAssumption, LogInv, NEW p \in {Main, Server},
           NEW job \in {"drain", "closeFile", "closeSink"}, Call(p, job)
    PROVE  LogInv'
  <1>0. LoggerTyped /\ AllStages /\ Nested /\ p \in Threads
    BY LogInvIs, Names DEF LinesKept
  <1>1. PICK x \in ThreadState(said) :
          /\ th' = [th EXCEPT ![p] = x] /\ x.pc = "flush" /\ x.job = job
          /\ x.todo = <<>> /\ x.to = "none"
    <2> PICK x : x = [pc |-> "flush", job |-> job, todo |-> <<>>, to |-> "none"]
      OBVIOUS
    <2>1. x \in ThreadState(said)
      BY DEF ThreadState, Pcs, Jobs
    <2>2. th' = [th EXCEPT ![p] = x]
      BY DEF Call, Enter, None
    <2> QED
      BY <2>1, <2>2
  <1>2. th[p].todo = <<>> /\ th[p].pc = "idle" /\ th[p].job \in {None, "log"}
    BY <1>0 DEF Call, Enterable, AllStages, Stage
  <1>3. th'[p] = x /\ \A r \in Threads : r # p => th'[r] = th[r]
    BY <1>0, <1>1, ThreadTyped DEF Call
  <1>4. Stage(p)'
    BY <1>1, <1>3, Names DEF Stage
  <1>5. Nested'
    <2>1. \A w \in Workers : th'[w] = th[w]
      BY <1>3, Names
    <2>2. Working' = Working
      BY <2>1 DEF Working
    <2>3. UNCHANGED <<emergency, queue, sink>>
      BY DEF Call
    <2>4. CASE p = Main
      <3>1. th'[Server] = th[Server]
        BY <1>3, <2>4, Names
      <3>2. (Early' <=> Early) /\ (Late' <=> Late)
        BY <3>1 DEF Early, Late
      <3>3. job # "closeFile" /\ (job = "closeSink" => th[Server].pc = "done")
        BY <2>4, Names DEF Call, Enterable
      <3> QED
        BY <1>0, <1>1, <1>3, <2>1, <2>2, <2>3, <2>4, <3>1, <3>2, <3>3 DEF Nested
    <2>5. CASE p = Server
      <3>1. th'[Main] = th[Main]
        BY <1>3, <2>5, Names
      <3>2. job = "closeFile" /\ Working = {}
        BY <2>5, Names DEF Call, Enterable
      <3>3. ~Early'
        BY <1>1, <1>3, <2>5, <3>2 DEF Early
      <3>4. th[Main].job # "closeSink"
        BY <1>0, <1>2, <2>5 DEF Nested
      <3> QED
        BY <1>0, <1>1, <1>3, <2>1, <2>2, <2>3, <2>5, <3>1, <3>2, <3>3, <3>4 DEF Nested
    <2> QED
      BY <2>4, <2>5
  <1>6. lock' \in Threads \cup {None} /\ sink' \in {"none", "open", "taken"}
        /\ file' \in BOOLEAN /\ sink' = sink
    BY <1>0 DEF Call, LoggerTyped
  <1>7. UNCHANGED <<queue, emergency, disk, shown, out, said, dropped, told, cut>>
    BY DEF Call
  <1> QED
    BY <1>0, <1>1, <1>2, <1>4, <1>5, <1>6, <1>7, QuietStep

LEMMA SinkOpenedKeeps ==
    ASSUME LoggingAssumption, LogInv, SinkOpened
    PROVE  LogInv'
  <1>0. LoggerTyped /\ AllStages /\ Nested /\ Main \in Threads
    BY LogInvIs, Names DEF LinesKept
  <1>1. PICK x \in ThreadState(said) :
          /\ th' = [th EXCEPT ![Main] = x] /\ x.pc = "idle" /\ x.job = None
          /\ x.todo = <<>> /\ x.to = None
    <2>1. "idle" \in Pcs /\ th' = [th EXCEPT ![Main] = Quiet("idle")]
      BY DEF Pcs, SinkOpened, Unlocks
    <2> QED
      BY <1>0, <2>1, QuietIs
  <1>2. /\ th[Main].todo = <<>> /\ th[Main].pc = "holding"
        /\ th[Main].job = "openSink" /\ sink' = "open"
    BY DEF SinkOpened, HoldsLock
  <1>3. th'[Main] = x /\ \A r \in Threads : r # Main => th'[r] = th[r]
    BY <1>0, <1>1, ThreadTyped DEF SinkOpened
  <1>4. Stage(Main)'
    BY <1>1, <1>3, Names DEF Stage
  <1>5. Nested'
    <2>1. th'[Server] = th[Server] /\ \A w \in Workers : th'[w] = th[w]
      BY <1>3, Names
    <2>2. (Early' <=> Early) /\ (Late' <=> Late) /\ Working' = Working
      BY <2>1 DEF Early, Late, Working
    <2>3. UNCHANGED <<emergency, queue>>
      BY DEF SinkOpened
    <2> QED
      BY <1>0, <1>1, <1>2, <1>3, <2>1, <2>2, <2>3 DEF Nested, None
  <1>6. lock' \in Threads \cup {None} /\ sink' \in {"none", "open", "taken"}
        /\ file' \in BOOLEAN
    BY <1>0 DEF SinkOpened, LoggerTyped, Unlocks
  <1>7. UNCHANGED <<queue, emergency, disk, shown, out, said, dropped, told, cut>>
    BY DEF SinkOpened
  <1> QED
    BY <1>0, <1>1, <1>2, <1>4, <1>5, <1>6, <1>7, QuietStep, Names

LEMMA FileClosedKeeps ==
    ASSUME LoggingAssumption, LogInv, FileClosed
    PROVE  LogInv'
  <1>0. LoggerTyped /\ AllStages /\ Nested /\ Server \in Threads
    BY LogInvIs, Names DEF LinesKept
  <1>1. PICK x \in ThreadState(said) :
          /\ th' = [th EXCEPT ![Server] = x] /\ x.pc = "done" /\ x.job = None
          /\ x.todo = <<>> /\ x.to = None
    <2>1. "done" \in Pcs /\ th' = [th EXCEPT ![Server] = Quiet("done")]
      BY DEF Pcs, FileClosed, Unlocks
    <2> QED
      BY <1>0, <2>1, QuietIs
  <1>2. /\ th[Server].todo = <<>> /\ th[Server].pc = "holding"
        /\ th[Server].job = "closeFile"
    BY DEF FileClosed, HoldsLock
  <1>3. th'[Server] = x /\ \A r \in Threads : r # Server => th'[r] = th[r]
    BY <1>0, <1>1, ThreadTyped DEF FileClosed
  <1>4. Stage(Server)'
    BY <1>1, <1>3, Names DEF Stage
  <1>5. Nested'
    <2>1. th'[Main] = th[Main] /\ \A w \in Workers : th'[w] = th[w]
      BY <1>3, Names
    <2>2. Late /\ Working' = Working
      BY <1>2, <2>1 DEF Late, Working
    <2>3. UNCHANGED <<emergency, queue, sink>>
      BY DEF FileClosed
    <2>4. ~Early'
      BY <1>1, <1>3 DEF Early, None
    <2> QED
      BY <1>0, <1>1, <1>2, <1>3, <2>1, <2>2, <2>3, <2>4 DEF Nested, None
  <1>6. lock' \in Threads \cup {None} /\ sink' \in {"none", "open", "taken"}
        /\ file' \in BOOLEAN /\ sink' = sink
    BY <1>0 DEF FileClosed, LoggerTyped, Unlocks
  <1>7. UNCHANGED <<queue, emergency, disk, shown, out, said, dropped, told, cut>>
    BY DEF FileClosed
  <1>8. x.pc # "new" /\ x.job # "openFile"
    BY <1>1 DEF None
  <1> QED
    BY <1>0, <1>1, <1>2, <1>4, <1>5, <1>6, <1>7, <1>8, QuietStep, Names

LEMMA FileOpenedKeeps ==
    ASSUME LoggingAssumption, LogInv, FileOpened(TRUE)
    PROVE  LogInv'
  <1>0. LoggerTyped /\ AllStages /\ Nested /\ Server \in Threads
    BY LogInvIs, Names DEF LinesKept
  <1>1. PICK x \in ThreadState(said) :
          /\ th' = [th EXCEPT ![Server] = x] /\ x.pc = "idle" /\ x.job = None
          /\ x.todo = <<>> /\ x.to = None
    <2>1. "idle" \in Pcs /\ th' = [th EXCEPT ![Server] = Quiet("idle")]
      BY DEF Pcs, FileOpened
    <2> QED
      BY <1>0, <2>1, QuietIs
  <1>2. /\ th[Server].todo = <<>> /\ th[Server].pc = "holding"
        /\ th[Server].job = "openFile"
    BY DEF FileOpened, HoldsLock
  <1>3. th'[Server] = x /\ \A r \in Threads : r # Server => th'[r] = th[r]
    BY <1>0, <1>1, ThreadTyped DEF FileOpened
  <1>4. Stage(Server)'
    BY <1>1, <1>3, Names DEF Stage
  <1>5. Nested'
    <2>1. th'[Main] = th[Main] /\ \A w \in Workers : th'[w] = th[w]
      BY <1>3, Names
    <2>2. ~Early' /\ ~Late'
      BY <1>1, <1>3 DEF Early, Late, None
    <2>3. UNCHANGED <<emergency, queue, sink>>
      BY DEF FileOpened
    <2> QED
      BY <1>0, <1>1, <1>2, <1>3, <2>1, <2>2, <2>3 DEF Nested, None
  <1>6. lock' \in Threads \cup {None} /\ sink' \in {"none", "open", "taken"}
        /\ file' \in BOOLEAN /\ sink' = sink
    BY <1>0 DEF FileOpened, LoggerTyped
  <1>7. UNCHANGED <<queue, emergency, disk, shown, out, said, dropped, told, cut>>
    BY DEF FileOpened
  <1> QED
    BY <1>0, <1>1, <1>2, <1>4, <1>5, <1>6, <1>7, QuietStep, Names

-----------------------------------------------------------------------------
(* Steps that log lines or move them. *)

LEMMA PlacesAre ==
    ASSUME LinesKept, NEW p \in Threads
    PROVE  /\ queue.lines \in Seq(said) /\ emergency.lines \in Seq(said)
           /\ th[p].todo \in Seq(said)
           /\ queue.omitted \in Nat /\ emergency.omitted \in Nat /\ told \in Nat
           /\ ToSet(queue.lines) \subseteq said /\ ToSet(emergency.lines) \subseteq said
           /\ ToSet(th[p].todo) \subseteq said
           /\ IsInjective(queue.lines) /\ IsInjective(emergency.lines)
           /\ IsInjective(th[p].todo)
           /\ ToSet(queue.lines) \cap ToSet(emergency.lines) = {}
           /\ ToSet(queue.lines) \cap ToSet(th[p].todo) = {}
           /\ ToSet(emergency.lines) \cap ToSet(th[p].todo) = {}
           /\ ToSet(queue.lines) \cap dropped = {} /\ ToSet(emergency.lines) \cap dropped = {}
           /\ ToSet(th[p].todo) \cap dropped = {}
           /\ IsFiniteSet(dropped) /\ Cardinality(dropped) \in Nat
           /\ Cardinality(dropped) = queue.omitted + emergency.omitted + told
           /\ Held(p) = ToSet(queue.lines) \cup ToSet(emergency.lines) \cup ToSet(th[p].todo)
           /\ Seen \cup dropped \cup cut \subseteq said
  <1>1. /\ queue.lines \in Seq(said) /\ emergency.lines \in Seq(said)
        /\ th[p].todo \in Seq(said)
        /\ queue.omitted \in Nat /\ emergency.omitted \in Nat /\ told \in Nat
    BY DEF LinesKept, LoggerTyped
  <1>2. /\ ToSet(queue.lines) \subseteq said /\ ToSet(emergency.lines) \subseteq said
        /\ ToSet(th[p].todo) \subseteq said
    BY <1>1 DEF ToSet
  <1>3. ToSet(th[p].todo) \subseteq InFlight
    BY DEF InFlight
  <1>4. IsFiniteSet(dropped) /\ Cardinality(dropped) \in Nat
    <2>1. IsFiniteSet(dropped)
      BY FS_Subset DEF LinesKept, LoggerTyped
    <2> QED
      BY <2>1, FS_CardinalityType
  <1>5. /\ ToSet(queue.lines) \cap ToSet(emergency.lines) = {}
        /\ (InFlight \cup Waiting) \cap dropped = {} /\ InFlight \cap Waiting = {}
        /\ IsInjective(queue.lines) /\ IsInjective(emergency.lines)
        /\ IsInjective(th[p].todo)
    BY DEF LinesKept, OnePlace
  <1>6. Waiting = ToSet(queue.lines) \cup ToSet(emergency.lines)
    BY DEF Waiting
  <1>7. Cardinality(dropped) = queue.omitted + emergency.omitted + told
    BY DEF LinesKept, EveryLineSomewhere
  <1>8. Seen \cup dropped \cup cut \subseteq said
    BY DEF LinesKept, LoggerTyped, Seen
  <1> QED
    BY <1>1, <1>2, <1>3, <1>4, <1>5, <1>6, <1>7, <1>8 DEF Held

LEMMA LogStep ==
    ASSUME LoggingAssumption, LogInv, NEW p \in Threads, NEW N, NEW x \in ThreadState(said'),
           th' = [th EXCEPT ![p] = x], Logs(N), MovesOnce(p, N), LosesNone(p, N),
           lock' \in Threads \cup {None}, sink' \in {"none", "open", "taken"},
           file' \in BOOLEAN, told' \in Nat,
           queue' \in QueueOf(said'), emergency' \in QueueOf(said'),
           disk' \cup shown' \cup out' \cup dropped' \cup cut' \subseteq said',
           th[p].pc \in {"hook", "defer", "done"} => x.pc \in {"hook", "defer", "done"},
           p = Server /\ th[p].pc # "new" /\ th[p].job # "openFile" =>
             x.pc # "new" /\ x.job # "openFile",
           \A l \in N : Numbered(l)',
           sink = "open" => sink' = "open" \/ \A r \in Threads : r # p => th[r].pc # "push",
           Stage(p)', Nested'
    PROVE  LogInv'
  <1>0. LinesKept /\ AllNumbered /\ AllStages /\ LoggerTyped
    BY LogInvIs DEF LinesKept
  <1>1. /\ th' \in [Threads -> ThreadState(said')] /\ th'[p] = x
        /\ \A r \in Threads : r # p => th'[r] = th[r]
    BY <1>0, ThreadTyped DEF Logs
  <1>2. LinesKept' /\ LoggerTyped'
    <2>1. StaysTyped(p)
      BY <1>1 DEF StaysTyped
    <2>2. LinesKept'
      BY <1>0, <2>1, LinesMove
    <2> QED
      BY <2>2 DEF LinesKept
  <1>3. AllStages'
    BY <1>0, <1>1, StagesMove
  <1>4. AllNumbered'
    <2>1. \A r \in Threads : th[r].pc \in {"hook", "defer", "done"} =>
                             th'[r].pc \in {"hook", "defer", "done"}
      BY <1>1
    <2>2. th[Server].pc # "new" /\ th[Server].job # "openFile" =>
            th'[Server].pc # "new" /\ th'[Server].job # "openFile"
      BY <1>1, Names
    <2> QED
      BY <1>0, <1>2, <2>1, <2>2, NumbersMove
  <1>5. LogInv' <=> LinesKept' /\ AllNumbered' /\ AllStages' /\ Nested'
    BY DEF LogInv, LinesKept, AllNumbered, AllStages
  <1> QED
    BY <1>2, <1>3, <1>4, <1>5

\* The queues of lines that do not move.
LEMMA QueuesStay ==
    ASSUME LinesKept, said \subseteq said'
    PROVE  /\ queue \in QueueOf(said') /\ emergency \in QueueOf(said')
           /\ disk \cup shown \cup out \cup dropped \cup cut \subseteq said'
  <1>1. queue \in [lines : Seq(said), omitted : Nat] /\ emergency \in [lines : Seq(said), omitted : Nat]
        /\ Len(queue.lines) <= MAX_TERMINAL_LOGS /\ Len(emergency.lines) <= MAX_TERMINAL_LOGS
    BY DEF LinesKept, LoggerTyped
  <1>2. queue.lines \in Seq(said') /\ emergency.lines \in Seq(said')
    BY <1>1
  <1> QED
    BY <1>1, <1>2 DEF QueueOf, LinesKept, LoggerTyped

\* One line of its own before those a thread has yet to emit.
LEMMA Ahead ==
    ASSUME NEW S, NEW T, S \subseteq T, NEW l \in T, l \notin S, NEW s \in Seq(S), IsInjective(s)
    PROVE  /\ <<l>> \o s \in Seq(T) /\ IsInjective(<<l>> \o s)
           /\ ToSet(<<l>> \o s) = {l} \cup ToSet(s)
  <1>1. PICK u \in Seq(T) : u = <<l>> /\ IsInjective(u) /\ ToSet(u) = {l}
    <2>1. IsInjective(<<l>>) /\ ToSet(<<l>>) = {l}
      BY DEF IsInjective, ToSet
    <2>2. <<l>> \in Seq(T)
      OBVIOUS
    <2> QED
      BY <2>1, <2>2
  <1>2. s \in Seq(T)
    OBVIOUS
  <1>3. ToSet(s) \subseteq S
    BY DEF ToSet
  <1>4. ToSet(u) \cap ToSet(s) = {}
    BY <1>1, <1>3
  <1>5. u \o s \in Seq(T) /\ IsInjective(u \o s) /\ ToSet(u \o s) = ToSet(u) \cup ToSet(s)
    <2>1. IsInjective(u) /\ IsInjective(s)
      BY <1>1
    <2> QED
      BY ONLY u \in Seq(T), <1>2, <1>4, <2>1, Joined
  <1> QED
    BY <1>1, <1>5

LEMMA LogKeeps ==
    ASSUME LoggingAssumption, LogInv, NEW p \in Threads, Log(p)
    PROVE  LogInv'
  <1>0. LinesKept /\ AllNumbered /\ AllStages /\ Nested /\ LoggerTyped
    BY LogInvIs DEF LinesKept
  <1> PICK c : c = Cardinality(LogLines(p))
    OBVIOUS
  <1>3. PICK l : l = <<p, "log", c + 1>> /\ l[1] = p /\ l[2] = "log" /\ l[3] = c + 1
    <2> PICK l : l = <<p, "log", c + 1>>
      OBVIOUS
    <2>1. l[1] = p /\ l[2] = "log" /\ l[3] = c + 1
      OBVIOUS
    <2> QED
      BY <2>1
  <1>1. IsFiniteSet(LogLines(p)) /\ c \in Nat
    <2>1. LogLines(p) \in SUBSET said /\ IsFiniteSet(said)
      BY <1>0 DEF LogLines, LoggerTyped
    <2>2. IsFiniteSet(LogLines(p))
      BY <2>1, FS_Subset
    <2> QED
      BY <2>2, FS_CardinalityType
  <1>2. /\ p \in Loggers /\ th[p].pc = "idle" /\ said' = said \cup {l}
        /\ th' = [th EXCEPT ![p] = [pc |-> "flush", job |-> "log", todo |-> <<l>>, to |-> None]]
        /\ UNCHANGED <<lock, sink, queue, emergency, file, disk, shown, out, dropped, told, cut>>
    BY <1>3 DEF Log, Enter, Line, LogLines
  <1>4. l \notin said
    <2> SUFFICES ASSUME l \in said PROVE FALSE
      OBVIOUS
    <2>1. c + 1 <= c
      BY <1>0, <1>3 DEF AllNumbered, Numbered
    <2> QED
      BY <1>1, <2>1
  <1>5. Logs({l})
    <2>1. IsFiniteSet({l})
      BY FS_Singleton
    <2>2. {l} \subseteq Threads \X Kinds \X Nat
      <3>1. c + 1 \in Nat /\ "log" \in Kinds
        BY <1>1 DEF Kinds
      <3>2. l \in Threads \X Kinds \X Nat
        BY <1>3, <3>1
      <3> QED
        BY <3>2
    <2> QED
      BY <1>2, <1>4, <2>1, <2>2 DEF Logs
  <1>6. Numbered(l)'
    <2> PICK B : B = LogLines(p)'
      OBVIOUS
    <2>1. B = LogLines(p) \cup {l}
      BY <1>2, <1>3 DEF LogLines
    <2>2. l \notin LogLines(p)
      BY <1>4 DEF LogLines
    <2>3. Cardinality(B) = c + 1
      BY <1>1, <2>1, <2>2, FS_AddElement
    <2>4. Numbered(l)' <=> l[3] <= Cardinality(B)
      BY <1>3 DEF Numbered
    <2> QED
      BY <1>1, <1>3, <2>3, <2>4
  <1>7. PICK x \in ThreadState(said') :
          /\ th' = [th EXCEPT ![p] = x] /\ x.pc = "flush" /\ x.job = "log" /\ x.todo = <<l>>
    <2> PICK x : x = [pc |-> "flush", job |-> "log", todo |-> <<l>>, to |-> None]
      OBVIOUS
    <2>1. <<l>> \in Seq(said')
      BY <1>2
    <2>2. x \in ThreadState(said')
      BY <2>1 DEF ThreadState, Pcs, Jobs, None
    <2> QED
      BY <1>2, <2>2
  <1>9. th'[p] = x /\ \A r \in Threads : r # p => th'[r] = th[r]
    BY <1>0, <1>2, <1>7, ThreadTyped
  <1>10. th[p].todo = <<>> /\ ToSet(th[p].todo) = {}
    BY <1>0, <1>2 DEF AllStages, Stage, ToSet
  <1>11. ToSet(x.todo) = {l} /\ IsInjective(x.todo)
    BY <1>7 DEF ToSet, IsInjective
  <1>12. Held(p)' = Waiting \cup {l} /\ Waiting' = Waiting /\ Held(p) = Waiting /\ Seen' = Seen
    BY <1>2, <1>9, <1>10, <1>11 DEF Held, Waiting, Seen
  <1>13. MovesOnce(p, {l})
    <2>1. Waiting \subseteq said /\ dropped \subseteq said /\ Waiting \cap dropped = {}
      BY <1>0, PlacesAre DEF Waiting
    <2>2. ToSet(th'[p].todo) \cap Waiting' = {}
      BY <1>4, <1>9, <1>11, <1>12, <2>1
    <2>3. /\ IsInjective(queue'.lines) /\ IsInjective(emergency'.lines)
          /\ IsInjective(th'[p].todo) /\ ToSet(queue'.lines) \cap ToSet(emergency'.lines) = {}
      BY <1>0, <1>2, <1>9, <1>11, PlacesAre
    <2>4. /\ Held(p)' \subseteq Held(p) \cup {l}
          /\ dropped' \subseteq dropped \cup Held(p) \cup {l} /\ dropped' \cap Held(p)' = {}
      BY <1>2, <1>4, <1>12, <2>1
    <2> QED
      BY <2>2, <2>3, <2>4 DEF MovesOnce
  <1>14. LosesNone(p, {l})
    BY <1>0, <1>2, <1>12, PlacesAre DEF LosesNone
  <1>15. Stage(p)'
    BY <1>7, <1>9 DEF Stage
  <1>16. Nested'
    <2>1. p # Main
      BY <1>2, Names DEF LoggingAssumption
    <2> QED
      BY <1>0, <1>2, <1>7, <1>9, <2>1, NestedMoves
  <1>17. /\ queue' \in QueueOf(said') /\ emergency' \in QueueOf(said')
         /\ disk' \cup shown' \cup out' \cup dropped' \cup cut' \subseteq said'
    BY <1>0, <1>2, QueuesStay
  <1>18. /\ lock' \in Threads \cup {None} /\ sink' \in {"none", "open", "taken"}
         /\ file' \in BOOLEAN /\ told' \in Nat /\ sink' = sink
    BY <1>0, <1>2 DEF LoggerTyped
  <1>19. \A k \in {l} : Numbered(k)'
    BY <1>6
  <1>20. /\ th[p].pc \notin {"hook", "defer", "done"}
         /\ x.pc # "new" /\ x.job # "openFile"
    BY <1>2, <1>7
  <1>21. th' = [th EXCEPT ![p] = x]
    BY <1>7
  <1> QED
    BY ONLY LoggingAssumption, LogInv, p \in Threads, x \in ThreadState(said'), <1>5, <1>13,
            <1>14, <1>15, <1>16, <1>17, <1>18, <1>19, <1>20, <1>21, LogStep

\* What is logged joins what the thread has yet to emit; nothing else moves.
LEMMA LineLogged ==
    ASSUME LinesKept, NEW p \in Threads, NEW N, Logs(N),
           UNCHANGED <<queue, emergency, dropped, told, cut>>, Seen \subseteq Seen',
           IsInjective(th'[p].todo), ToSet(th'[p].todo) = N \cup ToSet(th[p].todo)
    PROVE  MovesOnce(p, N) /\ LosesNone(p, N)
  <1>1. Waiting' = Waiting /\ Held(p) = Waiting \cup ToSet(th[p].todo)
    BY DEF Held, Waiting
  <1>2. Held(p)' = Held(p) \cup N
    BY <1>1 DEF Held
  <1>3. N \cap said = {}
    BY DEF Logs
  <1>4. /\ Held(p) \subseteq said /\ dropped \subseteq said /\ Held(p) \cap dropped = {}
        /\ ToSet(th[p].todo) \cap Waiting = {}
    BY PlacesAre DEF Waiting
  <1>5. ToSet(th'[p].todo) \cap Waiting' = {}
    BY <1>1, <1>3, <1>4
  <1>6. dropped' \cap Held(p)' = {} /\ dropped' \subseteq dropped \cup Held(p) \cup N
    BY <1>2, <1>3, <1>4
  <1>7. /\ IsInjective(queue'.lines) /\ IsInjective(emergency'.lines)
        /\ ToSet(queue'.lines) \cap ToSet(emergency'.lines) = {}
    BY PlacesAre
  <1>8. MovesOnce(p, N)
    BY <1>2, <1>5, <1>6, <1>7 DEF MovesOnce
  <1>9. LosesNone(p, N)
    BY <1>2, PlacesAre DEF LosesNone
  <1> QED
    BY <1>8, <1>9

LEMMA Larger == \A n \in Nat : ~(n < n) /\ n < n + 1
  OBVIOUS

\* A line numbered by how many there are is new.
LEMMA Fresh ==
    ASSUME LoggerTyped, AllNumbered, NEW p \in Threads,
           NEW k \in {"omitted", "log file disabled"}, NEW c, NEW l,
           c = Cardinality(said), l = <<p, k, c>>, said' = said \cup {l}
    PROVE  l \notin said /\ Logs({l}) /\ Numbered(l)'
  <1>1. IsFiniteSet(said) /\ c \in Nat
    BY FS_CardinalityType DEF LoggerTyped
  <1>2. l[1] = p /\ l[2] = k /\ l[3] = c
    OBVIOUS
  <1>3. l \notin said
    <2> SUFFICES ASSUME l \in said PROVE FALSE
      OBVIOUS
    <2>1. c < c
      BY <1>2 DEF AllNumbered, Numbered
    <2> QED
      BY <1>1, <2>1, Larger, Zenon
  <1>4. Logs({l})
    <2>1. IsFiniteSet({l})
      BY FS_Singleton
    <2>2. k \in Kinds
      BY DEF Kinds
    <2>3. l \in Threads \X Kinds \X Nat
      BY <1>1, <2>2
    <2> QED
      BY <1>3, <2>1, <2>3 DEF Logs
  <1>5. Numbered(l)'
    <2>1. Cardinality(said \cup {l}) = c + 1
      BY <1>1, <1>3, FS_AddElement
    <2>2. Cardinality(said') = c + 1
      BY <2>1
    <2>3. c < c + 1
      BY <1>1, Larger, Zenon
    <2>4. l[3] < Cardinality(said')
      BY ONLY <1>2, <2>2, <2>3
    <2> QED
      BY <1>2, <2>4 DEF Numbered
  <1> QED
    BY <1>3, <1>4, <1>5

LEMMA FailIs ==
    ASSUME NEW S, NEW t \in Seq(S)
    PROVE  \E x \in ThreadState(S) :
             /\ x = [Quiet("flush") EXCEPT !.job = "fail", !.todo = t]
             /\ x.pc = "flush" /\ x.job = "fail" /\ x.todo = t
  <1> PICK x : x = [Quiet("flush") EXCEPT !.job = "fail", !.todo = t]
    OBVIOUS
  <1>1. x.pc = "flush" /\ x.job = "fail" /\ x.todo = t /\ x \in ThreadState(S)
    BY DEF Quiet, ThreadState, Pcs, Jobs, None
  <1> QED
    BY <1>1

LEMMA FileRefusedKeeps ==
    ASSUME LoggingAssumption, LogInv, FileOpened(FALSE)
    PROVE  LogInv'
  <1>0. /\ LinesKept /\ AllNumbered /\ AllStages /\ Nested /\ LoggerTyped
        /\ Server \in Threads
    BY LogInvIs, Names DEF LinesKept
  <1>1. PICK l \in Threads \X Kinds \X Nat :
          /\ l[1] = Server /\ l[2] = "initialization failed"
          /\ l = <<Server, "initialization failed", 1>>
    BY <1>0 DEF Kinds
  <1>2. /\ th[Server].pc = "holding" /\ th[Server].todo = <<>> /\ th[Server].job = "openFile"
        /\ lock' = None /\ file' = FALSE /\ said' = said \cup {l}
        /\ th' = [th EXCEPT ![Server] = [Quiet("flush") EXCEPT !.job = "fail", !.todo = <<l>>]]
        /\ UNCHANGED <<sink, queue, emergency, disk, shown, out, dropped, told, cut>>
    BY <1>1 DEF FileOpened, HoldsLock, Line
  <1>3. l \notin said
    BY <1>0, <1>1, <1>2 DEF AllNumbered, Numbered
  <1>4. Logs({l})
    <2>1. IsFiniteSet({l})
      BY FS_Singleton
    <2> QED
      BY <1>2, <1>3, <2>1 DEF Logs
  <1>5. PICK x \in ThreadState(said') :
          /\ x = [Quiet("flush") EXCEPT !.job = "fail", !.todo = <<l>>]
          /\ x.pc = "flush" /\ x.job = "fail" /\ x.todo = <<l>>
    <2>1. l \in said'
      BY <1>2
    <2>2. <<l>> \in Seq(said')
      BY <2>1
    <2> QED
      BY <2>2, FailIs
  <1>6. th' = [th EXCEPT ![Server] = x]
    BY <1>2, <1>5
  <1>7. th'[Server] = x /\ \A r \in Threads : r # Server => th'[r] = th[r]
    BY <1>0, <1>2, <1>5, <1>6, ThreadTyped
  <1>8. IsInjective(th'[Server].todo) /\ ToSet(th'[Server].todo) = {l} \cup ToSet(th[Server].todo)
    <2>1. IsInjective(<<l>>) /\ ToSet(<<l>>) = {l}
      BY DEF IsInjective, ToSet
    <2>2. ToSet(th[Server].todo) = {}
      BY <1>2 DEF ToSet
    <2> QED
      BY <1>5, <1>7, <2>1, <2>2
  <1>9. MovesOnce(Server, {l}) /\ LosesNone(Server, {l})
    <2>1. Seen' = Seen
      BY <1>2 DEF Seen
    <2> QED
      BY <1>0, <1>2, <1>4, <1>8, <2>1, LineLogged
  <1>10. Numbered(l)'
    BY <1>1, <1>5, <1>7 DEF Numbered
  <1>11. Stage(Server)'
    BY <1>5, <1>7, Names DEF Stage
  <1>12. Nested'
    <2>1. th'[Main] = th[Main] /\ \A w \in Workers : th'[w] = th[w]
      BY <1>7, Names
    <2>2. Early /\ Early' /\ ~Late'
      BY <1>2, <1>5, <1>7 DEF Early, Late
    <2> QED
      BY <1>0, <1>2, <1>5, <1>7, <2>1, <2>2 DEF Nested
  <1>13. /\ queue' \in QueueOf(said') /\ emergency' \in QueueOf(said')
         /\ disk' \cup shown' \cup out' \cup dropped' \cup cut' \subseteq said'
    BY <1>0, <1>2, QueuesStay
  <1>14. /\ lock' \in Threads \cup {None} /\ sink' \in {"none", "open", "taken"}
         /\ file' \in BOOLEAN /\ told' \in Nat /\ sink' = sink
    BY <1>0, <1>2 DEF LoggerTyped
  <1> QED
    BY <1>0, <1>2, <1>4, <1>5, <1>6, <1>9, <1>10, <1>11, <1>12, <1>13, <1>14, LogStep

\* emit's critical section, when the line is written or there is no file.
LEMMA EmitWritesKeeps ==
    ASSUME LoggingAssumption, LogInv, NEW p \in Threads, EmitWrites(p, TRUE)
    PROVE  LogInv'
  <1>0. LinesKept /\ AllNumbered /\ AllStages /\ Nested /\ LoggerTyped
    BY LogInvIs DEF LinesKept
  <1>1. /\ th[p].pc = "holding" /\ th[p].todo # <<>>
        /\ disk' = (IF file THEN disk \cup {Head(th[p].todo)} ELSE disk)
        /\ file' = file /\ said' = said /\ lock' = None
        /\ UNCHANGED <<sink, queue, emergency, shown, out, dropped, told, cut>>
    BY <1>0 DEF EmitWrites, LoggerTyped
  <1>2. th[p] \in ThreadState(said) /\ th[p].todo \in Seq(said) /\ "push" \in Pcs
        /\ sink \in {"none", "open", "taken"}
    BY <1>0, ThreadIs DEF Pcs, LoggerTyped
  <1>3. PICK x \in ThreadState(said) :
          /\ x = [[[th[p] EXCEPT !.pc = "push"] EXCEPT !.to = sink] EXCEPT !.todo = th[p].todo]
          /\ x.pc = "push" /\ x.to = sink /\ x.todo = th[p].todo /\ x.job = th[p].job
    <2> PICK x : x = [[[th[p] EXCEPT !.pc = "push"] EXCEPT !.to = sink]
                        EXCEPT !.todo = th[p].todo]
      OBVIOUS
    <2>1. /\ x.pc = "push" /\ x.to = sink /\ x.todo = th[p].todo /\ x.job = th[p].job
          /\ x \in ThreadState(said)
      BY <1>2 DEF ThreadState
    <2> QED
      BY <2>1
  <1>13. th' = [th EXCEPT ![p] = x] /\ x \in ThreadState(said')
    <2>1. th' = [th EXCEPT ![p] = [[[th[p] EXCEPT !.pc = "push"] EXCEPT !.to = sink]
                                      EXCEPT !.todo = th[p].todo]]
      BY DEF EmitWrites
    <2> QED
      BY <1>1, <1>3, <2>1
  <1>4. th'[p] = x /\ \A r \in Threads : r # p => th'[r] = th[r]
    BY <1>0, <1>1, <1>3, <1>13, ThreadTyped
  <1>5. Logs({})
    BY <1>1, NothingLogged
  <1>6. Head(th[p].todo) \in said
    <2>1. th[p].todo \in Seq(said)
      BY <1>0, ThreadIs
    <2> QED
      BY <1>1, <2>1
  <1>7. MovesOnce(p, {}) /\ LosesNone(p, {})
    <2>1. Seen \subseteq Seen'
      BY <1>1 DEF Seen
    <2>2. IsInjective(th'[p].todo) /\ ToSet(th'[p].todo) = {} \cup ToSet(th[p].todo)
      BY <1>0, <1>3, <1>4, PlacesAre
    <2> QED
      BY <1>0, <1>1, <1>5, <2>1, <2>2, LineLogged
  <1>8. Stage(p)'
    BY <1>0, <1>1, <1>3, <1>4 DEF Stage, AllStages
  <1>9. Nested'
    BY <1>0, <1>1, <1>3, <1>4, NestedMoves
  <1>10. /\ queue' \in QueueOf(said') /\ emergency' \in QueueOf(said')
         /\ disk' \cup shown' \cup out' \cup dropped' \cup cut' \subseteq said'
    <2>1. /\ queue \in QueueOf(said') /\ emergency \in QueueOf(said')
          /\ disk \cup shown \cup out \cup dropped \cup cut \subseteq said'
      BY <1>0, <1>1, QueuesStay
    <2> QED
      BY <1>1, <1>6, <2>1
  <1>11. /\ lock' \in Threads \cup {None} /\ sink' \in {"none", "open", "taken"}
         /\ file' \in BOOLEAN /\ told' \in Nat /\ sink' = sink
    BY <1>0, <1>1 DEF LoggerTyped
  <1>12. \A l \in {} : Numbered(l)'
    OBVIOUS
  <1> QED
    BY <1>1, <1>3, <1>5, <1>7, <1>8, <1>9, <1>10, <1>11, <1>12, <1>13, LogStep

LEMMA LinesAhead ==
    ASSUME NEW S, NEW l, NEW e \in Seq(S)
    PROVE  ToSet(<<l>> \o e) = {l} \cup ToSet(e)
  <1>1. <<l>> \in Seq(S \cup {l}) /\ e \in Seq(S \cup {l})
    OBVIOUS
  <1> PICK s : s = <<l>> \o e
    OBVIOUS
  <1>2. /\ DOMAIN s = 1..(Len(e) + 1) /\ s[1] = l
        /\ \A i \in 1..Len(e) : s[i + 1] = e[i]
        /\ Len(e) \in Nat
    BY <1>1
  <1>3. ToSet(e) \subseteq ToSet(s) /\ l \in ToSet(s)
    <2>1. 1 \in DOMAIN s /\ \A i \in 1..Len(e) : i + 1 \in DOMAIN s
      BY <1>2
    <2>2. l \in ToSet(s)
      BY <1>2, <2>1 DEF ToSet
    <2>3. \A i \in 1..Len(e) : e[i] \in ToSet(s)
      BY <1>2, <2>1 DEF ToSet
    <2>4. DOMAIN e = 1..Len(e)
      OBVIOUS
    <2> QED
      BY <2>2, <2>3, <2>4 DEF ToSet
  <1>4. ToSet(s) \subseteq {l} \cup ToSet(e)
    <2> SUFFICES ASSUME NEW i \in DOMAIN s, i # 1 PROVE s[i] \in ToSet(e)
      BY <1>2 DEF ToSet
    <2> PICK j : j = i - 1
      OBVIOUS
    <2>1. j \in 1..Len(e) /\ j + 1 = i
      BY <1>2
    <2> QED
      BY <1>2, <2>1 DEF ToSet
  <1> QED
    BY <1>3, <1>4

LEMMA NoLines == ToSet(<<>>) = {}
  BY DEF ToSet

\* emit's critical section, when the write fails: the file is given up.
LEMMA EmitFailsKeeps ==
    ASSUME LoggingAssumption, LogInv, NEW p \in Threads, EmitWrites(p, FALSE)
    PROVE  LogInv'
  <1>0. LinesKept /\ AllNumbered /\ AllStages /\ Nested /\ LoggerTyped
    BY LogInvIs DEF LinesKept
  <1>1. /\ th[p].pc = "holding" /\ th[p].todo # <<>>
        /\ disk' = disk /\ file' = FALSE /\ lock' = None
        /\ UNCHANGED <<sink, queue, emergency, shown, out, dropped, told, cut>>
    BY <1>0 DEF EmitWrites, LoggerTyped
  <1>2. PICK l :
          /\ l \notin said /\ Logs({l}) /\ Numbered(l)' /\ said' = said \cup {l}
          /\ th' = [th EXCEPT ![p] = [[[th[p] EXCEPT !.pc = "push"] EXCEPT !.to = sink]
                                       EXCEPT !.todo = <<l>> \o th[p].todo]]
    <2> PICK c : c = Cardinality(said)
      OBVIOUS
    <2> PICK l : l = <<p, "log file disabled", c>>
      OBVIOUS
    <2>1. said' = said \cup {l}
      BY DEF EmitWrites, FailureLine, Line
    <2>2. th' = [th EXCEPT ![p] = [[[th[p] EXCEPT !.pc = "push"] EXCEPT !.to = sink]
                                       EXCEPT !.todo = <<l>> \o th[p].todo]]
      BY DEF EmitWrites, FailureLine, Line
    <2>3. l \notin said /\ Logs({l}) /\ Numbered(l)'
      BY <1>0, <2>1, Fresh
    <2> QED
      BY <2>1, <2>2, <2>3
  <1> PICK t : t = <<l>> \o th[p].todo
    OBVIOUS
  <1>3. /\ t \in Seq(said') /\ IsInjective(t) /\ ToSet(t) = {l} \cup ToSet(th[p].todo)
    <2>1. /\ said \subseteq said' /\ l \in said' /\ th[p].todo \in Seq(said)
          /\ IsInjective(th[p].todo)
      BY <1>0, <1>2, PlacesAre
    <2>2. <<l>> \o th[p].todo \in Seq(said') /\ IsInjective(<<l>> \o th[p].todo)
      BY <1>2, <2>1, Ahead
    <2>3. ToSet(<<l>> \o th[p].todo) = {l} \cup ToSet(th[p].todo)
      BY <2>1, LinesAhead, Zenon
    <2> QED
      BY <2>2, <2>3, Zenon
  <1>4. PICK x \in ThreadState(said') :
          /\ x = [[[th[p] EXCEPT !.pc = "push"] EXCEPT !.to = sink] EXCEPT !.todo = t]
          /\ x.pc = "push" /\ x.to = sink /\ x.todo = t /\ x.job = th[p].job
    <2> PICK x : x = [[[th[p] EXCEPT !.pc = "push"] EXCEPT !.to = sink] EXCEPT !.todo = t]
      OBVIOUS
    <2>1. th[p] \in ThreadState(said) /\ sink \in {"none", "open", "taken"}
      BY <1>0, ThreadIs DEF LoggerTyped
    <2>2. /\ x.pc = "push" /\ x.to = sink /\ x.todo = t /\ x.job = th[p].job
          /\ x \in ThreadState(said')
      BY <1>3, <2>1 DEF ThreadState, Pcs
    <2> QED
      BY <2>2
  <1>5. th' = [th EXCEPT ![p] = x]
    BY <1>2, <1>4
  <1>6. th'[p] = x /\ \A r \in Threads : r # p => th'[r] = th[r]
    BY <1>0, <1>2, <1>4, <1>5, ThreadTyped
  <1>7. MovesOnce(p, {l}) /\ LosesNone(p, {l})
    <2>1. Seen \subseteq Seen'
      BY <1>1 DEF Seen
    <2>2. IsInjective(th'[p].todo) /\ ToSet(th'[p].todo) = {l} \cup ToSet(th[p].todo)
      BY <1>3, <1>4, <1>6
    <2> QED
      BY <1>0, <1>1, <1>2, <2>1, <2>2, LineLogged
  <1>8. Stage(p)'
    <2>1. t # <<>>
      BY <1>3, NoLines, Zenon
    <2> QED
      BY <1>0, <1>1, <1>4, <1>6, <2>1 DEF Stage, AllStages
  <1>9. Nested'
    BY <1>0, <1>1, <1>4, <1>6, NestedMoves
  <1>10. /\ queue' \in QueueOf(said') /\ emergency' \in QueueOf(said')
         /\ disk' \cup shown' \cup out' \cup dropped' \cup cut' \subseteq said'
    BY <1>0, <1>1, <1>2, QueuesStay
  <1>11. /\ lock' \in Threads \cup {None} /\ sink' \in {"none", "open", "taken"}
         /\ file' \in BOOLEAN /\ told' \in Nat /\ sink' = sink
    BY <1>0, <1>1 DEF LoggerTyped
  <1> QED
    BY <1>1, <1>2, <1>4, <1>5, <1>7, <1>8, <1>9, <1>10, <1>11, LogStep

\* What a drain of EMERGENCY returns.
LEMMA DrainedIs ==
    ASSUME LinesKept, AllNumbered, NEW p \in Threads,
           said' = said \cup ToSet(Drained(p, emergency))
    PROVE  \E N : /\ Logs(N) /\ (\A l \in N : Numbered(l)')
                  /\ said' = said \cup N
                  /\ Drained(p, emergency) \in Seq(said') /\ IsInjective(Drained(p, emergency))
                  /\ ToSet(Drained(p, emergency)) = N \cup ToSet(emergency.lines)
  <1>0. /\ LoggerTyped /\ emergency.lines \in Seq(said) /\ IsInjective(emergency.lines)
        /\ ToSet(emergency.lines) \subseteq said
    BY PlacesAre DEF LinesKept
  <1>3. ASSUME NEW k PROVE ToSet(<<k>> \o emergency.lines) = {k} \cup ToSet(emergency.lines)
    BY <1>0, LinesAhead, Zenon
  <1>1. CASE emergency.omitted = 0
    <2>1. Drained(p, emergency) = emergency.lines
      BY <1>1 DEF Drained
    <2>2. said' = said
      BY <1>0, <2>1
    <2>3. Logs({}) /\ \A l \in {} : Numbered(l)'
      BY <2>2, NothingLogged
    <2> QED
      BY <1>0, <2>1, <2>2, <2>3
  <1>2. CASE emergency.omitted # 0
    <2> PICK c : c = Cardinality(said)
      OBVIOUS
    <2> PICK l : l = <<p, "omitted", c>>
      OBVIOUS
    <2>1. Drained(p, emergency) = <<l>> \o emergency.lines
      BY <1>2 DEF Drained, Line
    <2>2. ToSet(<<l>> \o emergency.lines) = {l} \cup ToSet(emergency.lines)
      BY <1>3, Zenon
    <2>3. said' = said \cup {l}
      BY <1>0, <2>1, <2>2
    <2>4. l \notin said /\ Logs({l}) /\ Numbered(l)'
      BY <1>0, <2>3, Fresh
    <2>5. <<l>> \o emergency.lines \in Seq(said') /\ IsInjective(<<l>> \o emergency.lines)
      <3>1. said \subseteq said' /\ l \in said'
        BY <2>3
      <3> QED
        BY <1>0, <2>4, <3>1, Ahead
    <2>6. \A k \in {l} : Numbered(k)'
      BY <2>4
    <2> QED
      BY <2>1, <2>2, <2>3, <2>4, <2>5, <2>6
  <1> QED
    BY <1>1, <1>2

LEMMA AfterEmitIs ==
    ASSUME NEW job \in Jobs
    PROVE  /\ AfterEmit(job) \in {"idle", "drain", "done", "want"}
           /\ AfterEmit(job) = "done" <=> job = "fail"
           /\ AfterEmit(job) = "idle" <=> job = "log"
  BY DEF AfterEmit, Jobs, None

\* A call's next step, when it has the lines t left.
Emitted(y, t) ==
    [[y EXCEPT !.todo = t] EXCEPT !.pc = IF t = <<>> THEN AfterEmit(y.job) ELSE "want"]

LEMMA EmittedIs ==
    ASSUME NEW S, NEW y \in ThreadState(S), NEW T, NEW t \in Seq(T)
    PROVE  \E x \in ThreadState(T) :
             /\ x = Emitted(y, t)
             /\ x.todo = t /\ x.job = y.job /\ x.to = y.to
             /\ x.pc \in {"idle", "drain", "done", "want"}
             /\ x.pc # "want" => t = <<>>
             /\ x.pc = "done" => x.job = "fail"
             /\ x.pc = "idle" => x.job = "log"
  <1> PICK s : s = IF t = <<>> THEN AfterEmit(y.job) ELSE "want"
    OBVIOUS
  <1> PICK x : x = [[y EXCEPT !.todo = t] EXCEPT !.pc = s]
    OBVIOUS
  <1>1. y.job \in Jobs
    BY DEF ThreadState
  <1>2. /\ s \in {"idle", "drain", "done", "want"} /\ (s # "want" => t = <<>>)
        /\ (s = "done" => y.job = "fail") /\ (s = "idle" => y.job = "log")
    BY <1>1, AfterEmitIs
  <1>3. x.todo = t /\ x.job = y.job /\ x.to = y.to /\ x.pc = s
    BY DEF ThreadState
  <1>5. x = Emitted(y, t)
    BY DEF Emitted
  <1>4. x \in ThreadState(T)
    <2>1. s \in Pcs
      BY <1>2 DEF Pcs
    <2> QED
      BY <2>1 DEF ThreadState
  <1> QED
    BY <1>2, <1>3, <1>4, <1>5

LEMMA EmptyIs ==
    ASSUME LoggingAssumption, NEW S
    PROVE  /\ EmptyQueue \in QueueOf(S) /\ EmptyQueue.lines = <<>> /\ EmptyQueue.omitted = 0
           /\ IsInjective(<<>>)
  <1>1. EmptyQueue.lines = <<>> /\ EmptyQueue.omitted = 0
    BY DEF EmptyQueue
  <1>2. EmptyQueue \in [lines : Seq(S), omitted : Nat]
    BY DEF EmptyQueue
  <1>3. Len(EmptyQueue.lines) <= MAX_TERMINAL_LOGS
    <2>1. Len(EmptyQueue.lines) = 0
      BY <1>1
    <2> QED
      BY <2>1 DEF LoggingAssumption
  <1> QED
    BY <1>1, <1>2, <1>3 DEF QueueOf, IsInjective

LEMMA FlushKeeps ==
    ASSUME LoggingAssumption, LogInv, NEW p \in Threads, Flush(p)
    PROVE  LogInv'
  <1>0. LinesKept /\ AllNumbered /\ AllStages /\ Nested /\ LoggerTyped
    BY LogInvIs DEF LinesKept
  <1> PICK d : d = Drained(p, emergency)
    OBVIOUS
  <1>20. /\ th[p].pc = "flush" /\ emergency' = EmptyQueue
         /\ told' = told + emergency.omitted /\ said' = said \cup ToSet(d \o th[p].todo)
         /\ th' = [th EXCEPT ![p] = Emitted(th[p], d \o th[p].todo)]
         /\ UNCHANGED <<lock, sink, queue, file, disk, shown, out, dropped, cut>>
    BY DEF Flush, Emitted
  <1>2. ToSet(d \o th[p].todo) = ToSet(d) \cup ToSet(th[p].todo)
    <2> PICK T : T = said \cup {Line(p, "omitted", Cardinality(said))}
      OBVIOUS
    <2>1. emergency.lines \in Seq(T) /\ th[p].todo \in Seq(T)
      BY <1>0, PlacesAre
    <2>2. d \in Seq(T)
      <3>1. CASE emergency.omitted = 0
        BY <2>1, <3>1 DEF Drained
      <3>2. CASE emergency.omitted # 0
        <4>1. d = <<Line(p, "omitted", Cardinality(said))>> \o emergency.lines
          BY <3>2 DEF Drained
        <4>2. <<Line(p, "omitted", Cardinality(said))>> \in Seq(T)
          OBVIOUS
        <4> QED
          BY ONLY <2>1, <4>1, <4>2
      <3> QED
        BY <3>1, <3>2
    <2> QED
      BY <2>1, <2>2, BothLines
  <1>3. said' = said \cup ToSet(d)
    BY <1>0, <1>2, <1>20, PlacesAre
  <1>4. PICK N : /\ Logs(N) /\ (\A l \in N : Numbered(l)') /\ said' = said \cup N
                 /\ d \in Seq(said') /\ IsInjective(d)
                 /\ ToSet(d) = N \cup ToSet(emergency.lines)
    BY <1>0, <1>3, DrainedIs
  <1>1. PICK t :
        /\ th[p].pc = "flush" /\ emergency' = EmptyQueue
        /\ told' = told + emergency.omitted
        /\ th' = [th EXCEPT ![p] = Emitted(th[p], t)]
        /\ UNCHANGED <<lock, sink, queue, file, disk, shown, out, dropped, cut>>
        /\ t \in Seq(said') /\ IsInjective(t)
        /\ ToSet(t) = N \cup ToSet(emergency.lines) \cup ToSet(th[p].todo)
    <2>1. th[p].todo \in Seq(said') /\ IsInjective(th[p].todo)
      BY <1>0, <1>4, PlacesAre
    <2>2. ToSet(d) \cap ToSet(th[p].todo) = {}
      BY <1>0, <1>4, PlacesAre DEF Logs
    <2>3. d \o th[p].todo \in Seq(said') /\ IsInjective(d \o th[p].todo)
      BY <1>4, <2>1, <2>2, Joined
    <2>4. ToSet(d \o th[p].todo) = N \cup ToSet(emergency.lines) \cup ToSet(th[p].todo)
      BY <1>2, <1>4
    <2> QED
      BY <1>20, <2>3, <2>4, Zenon
  <1>6. PICK x \in ThreadState(said') :
          /\ x = Emitted(th[p], t)
          /\ x.todo = t /\ x.job = th[p].job /\ x.to = th[p].to
          /\ x.pc \in {"idle", "drain", "done", "want"}
          /\ x.pc # "want" => t = <<>>
          /\ x.pc = "done" => x.job = "fail"
          /\ x.pc = "idle" => x.job = "log"
    <2>1. th[p] \in ThreadState(said)
      BY <1>0, ThreadIs
    <2> QED
      BY <1>1, <2>1, EmittedIs
  <1>7. th' = [th EXCEPT ![p] = x]
    BY <1>1, <1>6
  <1>8. th'[p] = x /\ \A r \in Threads : r # p => th'[r] = th[r]
    BY <1>0, <1>4, <1>6, <1>7, ThreadTyped
  <1>9. emergency'.lines = <<>> /\ emergency'.omitted = 0
    BY <1>1 DEF EmptyQueue
  <1>10. /\ Held(p) = ToSet(queue.lines) \cup ToSet(emergency.lines) \cup ToSet(th[p].todo)
         /\ Waiting' = ToSet(queue.lines) /\ Seen' = Seen
         /\ Held(p)' = Held(p) \cup N
    <2>1. Held(p) = ToSet(queue.lines) \cup ToSet(emergency.lines) \cup ToSet(th[p].todo)
      BY <1>0, PlacesAre
    <2>2. Waiting' = ToSet(queue.lines)
      BY <1>1, <1>9, NoLines DEF Waiting
    <2>3. Held(p)' = ToSet(queue.lines) \cup ToSet(t)
      BY <1>6, <1>8, <2>2 DEF Held
    <2>4. Seen' = Seen
      BY <1>1 DEF Seen
    <2> QED
      BY <1>1, <2>1, <2>2, <2>3, <2>4
  <1>11. MovesOnce(p, N)
    <2>1. N \cap said = {}
      BY <1>4 DEF Logs
    <2>2. /\ IsInjective(queue'.lines) /\ IsInjective(emergency'.lines)
          /\ IsInjective(th'[p].todo)
      BY <1>0, <1>1, <1>6, <1>8, <1>9, PlacesAre DEF IsInjective
    <2>3. ToSet(queue'.lines) \cap ToSet(emergency'.lines) = {}
      BY <1>9, NoLines
    <2>4. ToSet(th'[p].todo) \cap Waiting' = {}
      BY <1>0, <1>1, <1>6, <1>8, <1>10, <2>1, PlacesAre
    <2>5. Held(p)' \subseteq Held(p) \cup N /\ dropped' \subseteq dropped \cup Held(p) \cup N
          /\ dropped' \cap Held(p)' = {}
      BY <1>0, <1>1, <1>10, <2>1, PlacesAre
    <2> QED
      BY <2>2, <2>3, <2>4, <2>5 DEF MovesOnce
  <1>12. LosesNone(p, N)
    <2>1. Cardinality(dropped) = queue.omitted + emergency.omitted + told
          /\ queue.omitted \in Nat /\ emergency.omitted \in Nat /\ told \in Nat
      BY <1>0, PlacesAre
    <2>2. Cardinality(dropped') = queue'.omitted + emergency'.omitted + told'
      BY <1>1, <1>9, <2>1
    <2> QED
      BY <1>1, <1>10, <2>2 DEF LosesNone
  <1>13. Stage(p)'
    BY <1>0, <1>1, <1>6, <1>8 DEF Stage, AllStages
  <1>14. Nested'
    BY <1>0, <1>1, <1>6, <1>8, <1>9, NestedMoves
  <1>15. /\ queue' \in QueueOf(said') /\ emergency' \in QueueOf(said')
         /\ disk' \cup shown' \cup out' \cup dropped' \cup cut' \subseteq said'
    <2>1. queue \in QueueOf(said')
          /\ disk \cup shown \cup out \cup dropped \cup cut \subseteq said'
      BY <1>0, <1>4, QueuesStay
    <2>2. EmptyQueue \in QueueOf(said')
      BY EmptyIs
    <2> QED
      BY <1>1, <2>1, <2>2
  <1>16. /\ lock' \in Threads \cup {None} /\ sink' \in {"none", "open", "taken"}
         /\ file' \in BOOLEAN /\ told' \in Nat /\ sink' = sink
    BY <1>0, <1>1, PlacesAre DEF LoggerTyped
  <1>17. x.pc \notin {"new", "hook", "defer"} /\ (th[p].job # "openFile" => x.job # "openFile")
    BY <1>6
  <1> QED
    BY <1>1, <1>4, <1>6, <1>7, <1>11, <1>12, <1>13, <1>14, <1>15, <1>16, <1>17, LogStep

LEMMA BothCounted ==
    ASSUME NEW a, NEW b, IsFiniteSet(a), IsFiniteSet(b), a \cap b = {}
    PROVE  /\ IsFiniteSet(a \cup b) /\ Cardinality(a) \in Nat /\ Cardinality(b) \in Nat
           /\ Cardinality(a \cup b) = Cardinality(a) + Cardinality(b)
  <1>1. Cardinality(a \cap b) = 0
    BY FS_EmptySet
  <1>2. Cardinality(a) \in Nat /\ Cardinality(b) \in Nat
    BY FS_CardinalityType
  <1>3. /\ IsFiniteSet(a \cup b)
        /\ Cardinality(a \cup b) = Cardinality(a) + Cardinality(b) - Cardinality(a \cap b)
    BY FS_Union
  <1> QED
    BY <1>1, <1>2, <1>3

\* Lines the thread held, or logs, go to the sink's queue.
LEMMA QueuePushed ==
    ASSUME LoggingAssumption, LinesKept, NEW p \in Threads, NEW N, Logs(N),
           NEW ls \in Seq(said'), IsInjective(ls), IsInjective(th'[p].todo),
           ToSet(ls) \cup ToSet(th'[p].todo) = N \cup ToSet(th[p].todo),
           ToSet(ls) \cap ToSet(th'[p].todo) = {},
           queue' = PushAll(queue, ls), dropped' = dropped \cup GivenUp(queue, ls),
           UNCHANGED <<emergency, told, cut>>, Seen \subseteq Seen'
    PROVE  /\ MovesOnce(p, N) /\ LosesNone(p, N)
           /\ queue' \in QueueOf(said') /\ dropped' \subseteq said'
  <1> PICK g : g = GivenUp(queue, ls)
    OBVIOUS
  <1> PICK r : r = PushAll(queue, ls)
    OBVIOUS
  <1>1. N \cap said = {} /\ said' = said \cup N
    BY DEF Logs
  <1>2. queue \in [lines : Seq(said'), omitted : Nat]
    BY <1>1, QueuesStay DEF QueueOf
  <1>3. ToSet(queue.lines) \cap ToSet(ls) = {} /\ IsInjective(queue.lines)
    BY <1>1, PlacesAre
  <1>4. /\ r \in [lines : Seq(said'), omitted : Nat] /\ Len(r.lines) <= MAX_TERMINAL_LOGS
        /\ IsInjective(r.lines)
        /\ ToSet(r.lines) \cup g = ToSet(queue.lines) \cup ToSet(ls)
        /\ ToSet(r.lines) \cap g = {}
        /\ IsFiniteSet(g) /\ r.omitted = queue.omitted + Cardinality(g)
    BY <1>2, <1>3, PushKeeps
  <1>5. queue' = r /\ dropped' = dropped \cup g
    OBVIOUS
  <1>6. g \cap dropped = {} /\ g \subseteq said'
    BY <1>1, <1>4, PlacesAre
  <1>7. /\ Held(p)' = ToSet(r.lines) \cup ToSet(emergency.lines) \cup ToSet(th'[p].todo)
        /\ Waiting' = ToSet(r.lines) \cup ToSet(emergency.lines)
    BY <1>5 DEF Held, Waiting
  <1>8. MovesOnce(p, N)
    <2>1. ToSet(r.lines) \cap ToSet(emergency.lines) = {}
      BY <1>1, <1>4, PlacesAre
    <2>2. ToSet(th'[p].todo) \cap Waiting' = {}
      BY <1>1, <1>4, <1>7, PlacesAre
    <2>3. Held(p)' \subseteq Held(p) \cup N /\ dropped' \subseteq dropped \cup Held(p) \cup N
      BY <1>4, <1>5, <1>7, PlacesAre
    <2>4. dropped' \cap Held(p)' = {}
      <3>1. g \cap Held(p)' = {}
        BY <1>1, <1>4, <1>7, PlacesAre
      <3>2. dropped \cap Held(p)' = {}
        BY <1>1, <1>4, <1>7, PlacesAre
      <3> QED
        BY <1>5, <3>1, <3>2
    <2>5. IsInjective(emergency'.lines)
      BY PlacesAre
    <2> QED
      BY <1>4, <1>5, <2>1, <2>2, <2>3, <2>4, <2>5 DEF MovesOnce
  <1>9. LosesNone(p, N)
    <2>1. /\ IsFiniteSet(dropped)
          /\ Cardinality(dropped) = queue.omitted + emergency.omitted + told
          /\ queue.omitted \in Nat /\ emergency.omitted \in Nat /\ told \in Nat
      BY PlacesAre
    <2>2. /\ Cardinality(dropped \cup g) = Cardinality(dropped) + Cardinality(g)
          /\ Cardinality(g) \in Nat
      BY <1>4, <1>6, <2>1, BothCounted
    <2>3. Cardinality(dropped') = queue'.omitted + emergency'.omitted + told'
      BY <1>4, <1>5, <2>1, <2>2
    <2>4. Held(p) \cup N \subseteq Held(p)' \cup dropped'
      BY <1>4, <1>5, <1>7, PlacesAre
    <2> QED
      BY <1>5, <2>3, <2>4 DEF LosesNone
  <1>10. queue' \in QueueOf(said') /\ dropped' \subseteq said'
    BY <1>1, <1>4, <1>5, <1>6, PlacesAre DEF QueueOf
  <1> QED
    BY <1>8, <1>9, <1>10

\* Lines the thread held, or logs, are printed.
LEMMA LinesPrinted ==
    ASSUME LinesKept, NEW p \in Threads, NEW N, Logs(N), NEW ls,
           IsInjective(th'[p].todo), ls \cup ToSet(th'[p].todo) = N \cup ToSet(th[p].todo),
           UNCHANGED <<queue, emergency, dropped, told, cut>>,
           Seen \subseteq Seen', ls \subseteq Seen'
    PROVE  MovesOnce(p, N) /\ LosesNone(p, N)
  <1>1. N \cap said = {} /\ said' = said \cup N
    BY DEF Logs
  <1>2. /\ Held(p)' = Waiting \cup ToSet(th'[p].todo)
        /\ Waiting' = ToSet(queue.lines) \cup ToSet(emergency.lines)
        /\ Waiting = ToSet(queue.lines) \cup ToSet(emergency.lines)
    BY DEF Held, Waiting
  <1>3. MovesOnce(p, N)
    <2>1. ToSet(th'[p].todo) \cap Waiting' = {}
      BY <1>1, <1>2, PlacesAre
    <2>2. /\ Held(p)' \subseteq Held(p) \cup N /\ dropped' \cap Held(p)' = {}
          /\ dropped' \subseteq dropped \cup Held(p) \cup N
      BY <1>1, <1>2, PlacesAre
    <2>3. /\ IsInjective(queue'.lines) /\ IsInjective(emergency'.lines)
          /\ ToSet(queue'.lines) \cap ToSet(emergency'.lines) = {}
      BY PlacesAre
    <2> QED
      BY <2>1, <2>2, <2>3 DEF MovesOnce
  <1>4. LosesNone(p, N)
    <2>1. Held(p) \cup N \subseteq Held(p)' \cup Seen'
      BY <1>2, PlacesAre
    <2>2. Cardinality(dropped') = queue'.omitted + emergency'.omitted + told'
      BY PlacesAre
    <2> QED
      BY <2>1, <2>2 DEF LosesNone
  <1> QED
    BY <1>3, <1>4

LEMMA FirstLines ==
    ASSUME NEW S, NEW t \in Seq(S), t # <<>>
    PROVE  /\ Len(t) \in Nat /\ 1 \in 1..Len(t) /\ (Len(t) > 1 => 2 \in 1..Len(t))
           /\ SubSeq(t, 1, 1) = <<Head(t)>> /\ Len(<<Head(t)>>) = 1
           /\ Len(t) > 1 => Len(SubSeq(t, 1, 2)) = 2
  <1>1. Len(t) \in Nat /\ Len(t) >= 1 /\ Head(t) = t[1] /\ t[1] \in S
    OBVIOUS
  <1>2. SubSeq(t, 1, 1) = <<Head(t)>>
    <2>1. SubSeq(t, 1, 1) = [i \in 1..1 |-> t[i]]
      BY <1>1
    <2>2. <<t[1]>> = [i \in 1..1 |-> t[1]]
      OBVIOUS
    <2>3. [i \in 1..1 |-> t[i]] = [i \in 1..1 |-> t[1]]
      OBVIOUS
    <2>4. Head(t) = t[1]
      BY <1>1
    <2> QED
      BY ONLY <2>1, <2>2, <2>3, <2>4, Zenon
  <1> QED
    BY <1>1, <1>2

\* emit delivers its next line, with its own report of the file before it.
LEMMA DeliveredIs ==
    ASSUME NEW p \in Threads, NEW S, th[p].todo \in Seq(S), th[p].todo # <<>>
    PROVE  \E k \in 1..Len(th[p].todo) :
             Delivered(p) = SubSeq(th[p].todo, 1, k) /\ Len(Delivered(p)) = k
  <1>0. /\ 1 \in 1..Len(th[p].todo)
        /\ Len(th[p].todo) > 1 => 2 \in 1..Len(th[p].todo)
        /\ SubSeq(th[p].todo, 1, 1) = <<Head(th[p].todo)>> /\ Len(<<Head(th[p].todo)>>) = 1
        /\ Len(th[p].todo) > 1 => Len(SubSeq(th[p].todo, 1, 2)) = 2
    BY FirstLines
  <1>1. \/ Delivered(p) = <<Head(th[p].todo)>>
        \/ Len(th[p].todo) > 1 /\ Delivered(p) = SubSeq(th[p].todo, 1, 2)
    BY DEF Delivered
  <1> QED
    BY <1>0, <1>1

LEMMA EmitPushesKeeps ==
    ASSUME LoggingAssumption, LogInv, NEW p \in Threads, EmitPushes(p)
    PROVE  LogInv'
  <1>0. LinesKept /\ AllNumbered /\ AllStages /\ Nested /\ LoggerTyped
    BY LogInvIs DEF LinesKept
  <1>1. /\ th[p].pc = "push" /\ said' = said
        /\ UNCHANGED <<lock, sink, emergency, file, disk, shown, told, cut>>
    BY DEF EmitPushes
  <1>2. Stage(p) /\ th[p].todo # <<>>
    BY <1>0, <1>1 DEF AllStages, Stage
  <1>3. PICK ls, rest :
          /\ ls \in Seq(said) /\ rest \in Seq(said) /\ IsInjective(ls) /\ IsInjective(rest)
          /\ ToSet(ls) \cup ToSet(rest) = ToSet(th[p].todo) /\ ToSet(ls) \cap ToSet(rest) = {}
          /\ ls = Delivered(p) /\ th' = [th EXCEPT ![p] = Emitted(th[p], rest)]
    <2>1. th[p].todo \in Seq(said) /\ IsInjective(th[p].todo)
      BY <1>0, PlacesAre
    <2>2. PICK k \in 1..Len(th[p].todo) :
            Delivered(p) = SubSeq(th[p].todo, 1, k) /\ Len(Delivered(p)) = k
      BY <1>2, <2>1, DeliveredIs
    <2>3. k \in 0..Len(th[p].todo)
      BY <2>1
    <2>4. /\ IsInjective(SubSeq(th[p].todo, 1, k))
          /\ IsInjective(SubSeq(th[p].todo, k + 1, Len(th[p].todo)))
          /\ ToSet(SubSeq(th[p].todo, 1, k))
               \cup ToSet(SubSeq(th[p].todo, k + 1, Len(th[p].todo))) = ToSet(th[p].todo)
          /\ ToSet(SubSeq(th[p].todo, 1, k))
               \cap ToSet(SubSeq(th[p].todo, k + 1, Len(th[p].todo))) = {}
      BY ONLY <2>1, <2>3, Divided
    <2>5. /\ SubSeq(th[p].todo, 1, k) \in Seq(said)
          /\ SubSeq(th[p].todo, k + 1, Len(th[p].todo)) \in Seq(said)
      BY ONLY <2>1, <2>3, DividedTyped
    <2>6. th' = [th EXCEPT ![p] = Emitted(th[p], SubSeq(th[p].todo, k + 1, Len(th[p].todo)))]
      BY <2>2 DEF EmitPushes, Emitted
    <2> QED
      BY <2>2, <2>4, <2>5, <2>6, Zenon
  <1>4. \/ /\ th[p].to = "open" /\ queue' = PushAll(queue, ls)
           /\ dropped' = dropped \cup GivenUp(queue, ls) /\ out' = out
        \/ out' = out \cup ToSet(ls) /\ queue' = queue /\ dropped' = dropped
    BY <1>3 DEF EmitPushes
  <1>5. PICK x \in ThreadState(said') :
          /\ x = Emitted(th[p], rest)
          /\ x.todo = rest /\ x.job = th[p].job /\ x.to = th[p].to
          /\ x.pc \in {"idle", "drain", "done", "want"}
          /\ x.pc # "want" => rest = <<>>
          /\ x.pc = "done" => x.job = "fail"
          /\ x.pc = "idle" => x.job = "log"
    <2>1. th[p] \in ThreadState(said) /\ rest \in Seq(said')
      BY <1>0, <1>1, <1>3, ThreadIs
    <2> QED
      BY <2>1, EmittedIs
  <1>6. th' = [th EXCEPT ![p] = x]
    BY <1>3, <1>5
  <1>7. th'[p] = x /\ \A r \in Threads : r # p => th'[r] = th[r]
    BY <1>0, <1>1, <1>5, <1>6, ThreadTyped
  <1>8. Logs({})
    BY <1>1, NothingLogged
  <1>9. /\ IsInjective(th'[p].todo) /\ ToSet(ls) \cap ToSet(th'[p].todo) = {}
        /\ ToSet(ls) \cup ToSet(th'[p].todo) = {} \cup ToSet(th[p].todo)
    BY <1>3, <1>5, <1>7
  <1>10. ToSet(ls) \subseteq said
    BY <1>0, <1>3, PlacesAre
  <1>11. /\ MovesOnce(p, {}) /\ LosesNone(p, {}) /\ queue' \in QueueOf(said')
         /\ dropped' \cup out' \subseteq said' /\ (sink # "open" => queue' = queue)
    <2>0. /\ queue \in QueueOf(said')
          /\ disk \cup shown \cup out \cup dropped \cup cut \subseteq said'
      BY <1>0, <1>1, QueuesStay
    <2>1. CASE /\ th[p].to = "open" /\ queue' = PushAll(queue, ls)
               /\ dropped' = dropped \cup GivenUp(queue, ls) /\ out' = out
      <3>1. Seen \subseteq Seen'
        BY <1>1, <2>1 DEF Seen
      <3>2. sink = "open"
        BY <1>1, <1>2, <2>1 DEF Stage
      <3>3. ls \in Seq(said') /\ IsInjective(ls)
        BY <1>1, <1>3
      <3>4. /\ MovesOnce(p, {}) /\ LosesNone(p, {})
            /\ queue' \in QueueOf(said') /\ dropped' \subseteq said'
        BY <1>0, <1>1, <1>8, <1>9, <2>1, <3>1, <3>3, QueuePushed
      <3> QED
        BY <2>0, <2>1, <3>2, <3>4
    <2>2. CASE out' = out \cup ToSet(ls) /\ queue' = queue /\ dropped' = dropped
      <3>1. Seen \subseteq Seen' /\ ToSet(ls) \subseteq Seen'
        BY <1>1, <2>2 DEF Seen
      <3>2. MovesOnce(p, {}) /\ LosesNone(p, {})
        BY <1>0, <1>1, <1>8, <1>9, <2>2, <3>1, LinesPrinted
      <3> QED
        BY <1>1, <1>10, <2>0, <2>2, <3>2
    <2> QED
      BY <1>4, <2>1, <2>2
  <1>12. Stage(p)'
    BY <1>0, <1>1, <1>2, <1>5, <1>7 DEF Stage
  <1>13. Nested'
    BY <1>0, <1>1, <1>5, <1>7, <1>11, NestedMoves
  <1>14. /\ emergency' \in QueueOf(said')
         /\ disk' \cup shown' \cup out' \cup dropped' \cup cut' \subseteq said'
    <2>1. /\ emergency \in QueueOf(said')
          /\ disk \cup shown \cup out \cup dropped \cup cut \subseteq said'
      BY <1>0, <1>1, QueuesStay
    <2> QED
      BY <1>1, <1>11, <2>1
  <1>15. /\ lock' \in Threads \cup {None} /\ sink' \in {"none", "open", "taken"}
         /\ file' \in BOOLEAN /\ told' \in Nat /\ sink' = sink
    BY <1>0, <1>1, PlacesAre DEF LoggerTyped
  <1>16. x.pc \notin {"new", "hook", "defer"} /\ (th[p].job # "openFile" => x.job # "openFile")
    BY <1>5
  <1>17. \A l \in {} : Numbered(l)'
    OBVIOUS
  <1> QED
    BY <1>1, <1>5, <1>6, <1>8, <1>11, <1>12, <1>13, <1>14, <1>15, <1>16, <1>17, LogStep

\* What a drain takes from the sink's queue is shown or printed.
LEMMA QueueTaken ==
    ASSUME LoggingAssumption, LinesKept, NEW p \in Threads, UNCHANGED said,
           th[p].todo = <<>>, th'[p].todo = <<>>, queue' = EmptyQueue,
           told' = told + queue.omitted, UNCHANGED <<emergency, dropped, cut>>,
           Seen \subseteq Seen', ToSet(queue.lines) \subseteq Seen'
    PROVE  MovesOnce(p, {}) /\ LosesNone(p, {})
  <1>1. queue'.lines = <<>> /\ queue'.omitted = 0 /\ IsInjective(<<>>)
    BY EmptyIs
  <1>2. /\ Held(p) = ToSet(queue.lines) \cup ToSet(emergency.lines)
        /\ Held(p)' = ToSet(emergency.lines) /\ Waiting' = ToSet(emergency.lines)
    BY <1>1, NoLines DEF Held, Waiting
  <1>3. MovesOnce(p, {})
    BY <1>1, <1>2, NoLines, PlacesAre DEF MovesOnce
  <1>4. LosesNone(p, {})
    <2>1. Cardinality(dropped') = queue'.omitted + emergency'.omitted + told'
      BY <1>1, PlacesAre
    <2> QED
      BY <1>2, <2>1 DEF LosesNone
  <1> QED
    BY <1>3, <1>4

LEMMA DrainKeeps ==
    ASSUME LoggingAssumption, LogInv, Drain
    PROVE  LogInv'
  <1>0. LinesKept /\ AllNumbered /\ AllStages /\ Nested /\ LoggerTyped /\ Main \in Threads
    BY LogInvIs, Names DEF LinesKept
  <1>1. /\ th[Main].pc = "drain" /\ shown' = shown \cup ToSet(queue.lines)
        /\ told' = told + queue.omitted /\ queue' = EmptyQueue
        /\ th' = [th EXCEPT ![Main] = Quiet("idle")]
        /\ UNCHANGED <<lock, sink, emergency, file, disk, out, said, dropped, cut>>
    BY DEF Drain
  <1>2. PICK x \in ThreadState(said) :
          /\ th' = [th EXCEPT ![Main] = x] /\ x.pc = "idle" /\ x.job = None
          /\ x.todo = <<>> /\ x.to = None
    <2>1. "idle" \in Pcs
      BY DEF Pcs
    <2> QED
      BY <1>1, <2>1, QuietIs
  <1>3. x \in ThreadState(said') /\ th[Main].todo = <<>>
    BY <1>0, <1>1, <1>2 DEF AllStages, Stage
  <1>4. th'[Main] = x /\ \A r \in Threads : r # Main => th'[r] = th[r]
    BY <1>0, <1>1, <1>2, <1>3, ThreadTyped
  <1>5. MovesOnce(Main, {}) /\ LosesNone(Main, {})
    <2>1. Seen \subseteq Seen' /\ ToSet(queue.lines) \subseteq Seen'
      BY <1>1 DEF Seen
    <2>2. th'[Main].todo = <<>>
      BY <1>2, <1>4
    <2> QED
      BY <1>0, <1>1, <1>3, <2>1, <2>2, QueueTaken
  <1>6. Stage(Main)'
    BY <1>2, <1>4, Names DEF Stage
  <1>7. Nested'
    <2>1. th'[Server] = th[Server] /\ \A w \in Workers : th'[w] = th[w]
      BY <1>4, Names
    <2>2. (Early' <=> Early) /\ (Late' <=> Late) /\ Working' = Working
      BY <2>1 DEF Early, Late, Working
    <2>3. queue'.lines = <<>>
      BY <1>1, EmptyIs
    <2> QED
      BY <1>0, <1>1, <1>2, <1>4, <2>1, <2>2, <2>3 DEF Nested, None
  <1>8. /\ queue' \in QueueOf(said') /\ emergency' \in QueueOf(said')
        /\ disk' \cup shown' \cup out' \cup dropped' \cup cut' \subseteq said'
    <2>1. /\ emergency \in QueueOf(said')
          /\ disk \cup shown \cup out \cup dropped \cup cut \subseteq said'
      BY <1>0, <1>1, QueuesStay
    <2>2. EmptyQueue \in QueueOf(said') /\ ToSet(queue.lines) \subseteq said
      BY <1>0, EmptyIs, PlacesAre
    <2> QED
      BY <1>1, <2>1, <2>2
  <1>9. /\ lock' \in Threads \cup {None} /\ sink' \in {"none", "open", "taken"}
        /\ file' \in BOOLEAN /\ told' \in Nat /\ sink' = sink
    BY <1>0, <1>1, PlacesAre DEF LoggerTyped
  <1>10. Logs({}) /\ \A l \in {} : Numbered(l)'
    BY <1>1, NothingLogged
  <1> QED
    BY <1>0, <1>1, <1>2, <1>3, <1>5, <1>6, <1>7, <1>8, <1>9, <1>10, LogStep, Names

\* Nobody else is between emit's lock and its push: the others are joined.
LEMMA SinkClosedKeeps ==
    ASSUME LoggingAssumption, LogInv, SinkClosed
    PROVE  LogInv'
  <1>0. LinesKept /\ AllNumbered /\ AllStages /\ Nested /\ LoggerTyped /\ Main \in Threads
    BY LogInvIs, Names DEF LinesKept
  <1>1. /\ th[Main].pc = "holding" /\ th[Main].todo = <<>> /\ th[Main].job = "closeSink"
        /\ sink' = "taken" /\ lock' = None /\ out' = out \cup ToSet(queue.lines)
        /\ told' = told + queue.omitted /\ queue' = EmptyQueue
        /\ th' = [th EXCEPT ![Main] = Quiet("done")]
        /\ UNCHANGED <<emergency, file, disk, shown, said, dropped, cut>>
    BY DEF SinkClosed, HoldsLock, Unlocks
  <1>2. PICK x \in ThreadState(said) :
          /\ th' = [th EXCEPT ![Main] = x] /\ x.pc = "done" /\ x.job = None
          /\ x.todo = <<>> /\ x.to = None
    <2>1. "done" \in Pcs
      BY DEF Pcs
    <2> QED
      BY <1>1, <2>1, QuietIs
  <1>3. x \in ThreadState(said')
    BY <1>1
  <1>4. th'[Main] = x /\ \A r \in Threads : r # Main => th'[r] = th[r]
    BY <1>0, <1>1, <1>2, <1>3, ThreadTyped
  <1>5. MovesOnce(Main, {}) /\ LosesNone(Main, {})
    <2>1. Seen \subseteq Seen' /\ ToSet(queue.lines) \subseteq Seen'
      BY <1>1 DEF Seen
    <2>2. th'[Main].todo = <<>>
      BY <1>2, <1>4
    <2> QED
      BY <1>0, <1>1, <2>1, <2>2, QueueTaken
  <1>6. Stage(Main)'
    BY <1>2, <1>4, Names DEF Stage
  <1>7. Nested'
    <2>1. th'[Server] = th[Server] /\ \A w \in Workers : th'[w] = th[w]
      BY <1>4, Names
    <2>2. (Early' <=> Early) /\ (Late' <=> Late) /\ Working' = Working
      BY <2>1 DEF Early, Late, Working
    <2>3. queue'.lines = <<>>
      BY <1>1, EmptyIs
    <2> QED
      BY <1>0, <1>1, <1>2, <1>4, <2>1, <2>2, <2>3 DEF Nested, None
  <1>8. /\ queue' \in QueueOf(said') /\ emergency' \in QueueOf(said')
        /\ disk' \cup shown' \cup out' \cup dropped' \cup cut' \subseteq said'
    <2>1. /\ emergency \in QueueOf(said')
          /\ disk \cup shown \cup out \cup dropped \cup cut \subseteq said'
      BY <1>0, <1>1, QueuesStay
    <2>2. EmptyQueue \in QueueOf(said') /\ ToSet(queue.lines) \subseteq said
      BY <1>0, EmptyIs, PlacesAre
    <2> QED
      BY <1>1, <2>1, <2>2
  <1>9. /\ lock' \in Threads \cup {None} /\ sink' \in {"none", "open", "taken"}
        /\ file' \in BOOLEAN /\ told' \in Nat
    BY <1>0, <1>1, PlacesAre DEF LoggerTyped
  <1>10. Logs({}) /\ \A l \in {} : Numbered(l)'
    BY <1>1, NothingLogged
  <1>11. \A r \in Threads : r # Main => th[r].pc # "push"
    <2>1. th[Server].pc = "done" /\ Working = {}
      BY <1>0, <1>1 DEF Nested, Late
    <2>2. \A w \in Workers : th[w].pc \in {"new", "done"}
      BY <2>1 DEF Working
    <2> QED
      BY <2>1, <2>2, Names
  <1> QED
    BY <1>0, <1>1, <1>2, <1>3, <1>5, <1>6, <1>7, <1>8, <1>9, <1>10, <1>11, LogStep, Names

-----------------------------------------------------------------------------
(* A panic reports. *)

\* The lines of a panic, which are new when it starts.
LEMMA PanicLinesAre ==
    ASSUME LoggerTyped, AllNumbered, NEW p \in Threads,
           th[p].pc \notin {"hook", "defer", "done"},
           said' = said \cup ToSet(PanicLines(p)), th'[p].pc \in {"hook", "defer", "done"}
    PROVE  /\ Logs(ToSet(PanicLines(p))) /\ \A l \in ToSet(PanicLines(p)) : Numbered(l)'
           /\ PanicLines(p) \in Seq(said') /\ IsInjective(PanicLines(p))
           /\ Len(PanicLines(p)) = 2
  <1>1. PICK a \in Threads \X Kinds \X Nat :
          a = <<p, "panic", 1>> /\ a[1] = p /\ a[2] = "panic" /\ a[3] = 1
    <2> PICK a : a = <<p, "panic", 1>>
      OBVIOUS
    <2>1. a \in Threads \X Kinds \X Nat
      BY DEF Kinds
    <2>2. a[1] = p /\ a[2] = "panic" /\ a[3] = 1
      OBVIOUS
    <2> QED
      BY <2>1, <2>2
  <1>2. PICK b \in Threads \X Kinds \X Nat :
          b = <<p, "panic", 2>> /\ b[1] = p /\ b[2] = "panic" /\ b[3] = 2
    <2> PICK b : b = <<p, "panic", 2>>
      OBVIOUS
    <2>1. b \in Threads \X Kinds \X Nat
      BY DEF Kinds
    <2>2. b[1] = p /\ b[2] = "panic" /\ b[3] = 2
      OBVIOUS
    <2> QED
      BY <2>1, <2>2
  <1>3. PanicLines(p) = <<a, b>>
    BY <1>1, <1>2, Zenon DEF PanicLines, Line
  <1>4. a # b
    BY <1>1, <1>2
  <1>5. ToSet(<<a, b>>) = {a, b} /\ IsInjective(<<a, b>>) /\ Len(<<a, b>>) = 2
    BY ONLY <1>4 DEF ToSet, IsInjective
  <1>6. a \notin said /\ b \notin said
    BY <1>1, <1>2 DEF AllNumbered, Numbered
  <1>7. said' = said \cup {a, b}
    BY <1>3, <1>5, Zenon
  <1>8. Logs({a, b})
    <2>1. IsFiniteSet({a, b})
      <3>1. IsFiniteSet({a}) /\ IsFiniteSet({b})
        BY FS_Singleton
      <3>2. IsFiniteSet({a} \cup {b})
        BY <3>1, FS_Union
      <3>3. {a} \cup {b} = {a, b}
        OBVIOUS
      <3> QED
        BY <3>2, <3>3
    <2> QED
      BY <1>6, <1>7, <2>1 DEF Logs
  <1>9. \A l \in {a, b} : Numbered(l)'
    BY <1>1, <1>2 DEF Numbered
  <1>10. <<a, b>> \in Seq(said')
    BY <1>7
  <1> QED
    BY ONLY <1>3, <1>5, <1>8, <1>9, <1>10, Zenon

LEMMA TryReportKeeps ==
    ASSUME LoggingAssumption, LogInv, NEW p \in Threads, TryReport(p)
    PROVE  LogInv'
  <1>0. LinesKept /\ AllNumbered /\ AllStages /\ Nested /\ LoggerTyped
    BY LogInvIs DEF LinesKept
  <1>1. /\ p \in Workers /\ th[p].pc \in {"idle", "holding"}
        /\ said' = said \cup ToSet(PanicLines(p)) /\ cut' = cut \cup ToSet(th[p].todo)
        /\ UNCHANGED <<sink, queue, emergency, file, disk, shown, out, dropped, told>>
        /\ lock' \in Threads \cup {None}
    BY <1>0 DEF TryReport, Panics, LoggingAssumption, LoggerTyped
  <1>2. PICK s \in {"hook", "defer"} :
          th' = [th EXCEPT ![p] = [pc |-> s, job |-> None, todo |-> PanicLines(p), to |-> None]]
    BY DEF TryReport, Enter
  <1>3. th'[p] = [pc |-> s, job |-> None, todo |-> PanicLines(p), to |-> None]
    BY <1>0, <1>2 DEF LoggerTyped
  <1>4. /\ Logs(ToSet(PanicLines(p))) /\ \A l \in ToSet(PanicLines(p)) : Numbered(l)'
        /\ PanicLines(p) \in Seq(said') /\ IsInjective(PanicLines(p))
        /\ Len(PanicLines(p)) = 2
    BY <1>0, <1>1, <1>3, PanicLinesAre
  <1>5. PICK x \in ThreadState(said') :
          /\ th' = [th EXCEPT ![p] = x]
          /\ x.pc = s /\ x.job = None /\ x.todo = PanicLines(p)
    <2> PICK x : x = [pc |-> s, job |-> None, todo |-> PanicLines(p), to |-> None]
      OBVIOUS
    <2>1. x \in ThreadState(said')
      BY <1>4 DEF ThreadState, Pcs, Jobs, None
    <2> QED
      BY <1>2, <2>1
  <1> PICK N : N = ToSet(PanicLines(p))
    OBVIOUS
  <1>6. th'[p] = x /\ \A r \in Threads : r # p => th'[r] = th[r]
    BY <1>0, <1>1, <1>5, ThreadTyped
  <1>7. /\ Held(p)' = Waiting \cup N /\ Waiting' = Waiting /\ Seen' = Seen
        /\ Waiting = ToSet(queue.lines) \cup ToSet(emergency.lines)
    BY <1>1, <1>5, <1>6 DEF Held, Waiting, Seen
  <1>8. N \cap said = {}
    BY <1>4 DEF Logs
  <1>9. MovesOnce(p, N)
    <2>1. ToSet(th'[p].todo) \cap Waiting' = {}
      BY <1>0, <1>5, <1>6, <1>7, <1>8, PlacesAre
    <2>2. /\ Held(p)' \subseteq Held(p) \cup N /\ dropped' \cap Held(p)' = {}
          /\ dropped' \subseteq dropped \cup Held(p) \cup N
      BY <1>0, <1>1, <1>7, <1>8, PlacesAre
    <2>3. /\ IsInjective(queue'.lines) /\ IsInjective(emergency'.lines)
          /\ ToSet(queue'.lines) \cap ToSet(emergency'.lines) = {}
          /\ IsInjective(th'[p].todo)
      BY <1>0, <1>1, <1>4, <1>5, <1>6, PlacesAre
    <2> QED
      BY <2>1, <2>2, <2>3 DEF MovesOnce
  <1>10. LosesNone(p, N)
    <2>1. Cardinality(dropped') = queue'.omitted + emergency'.omitted + told'
      BY <1>0, <1>1, PlacesAre
    <2>2. Held(p) \cup N \subseteq Held(p)' \cup cut'
      BY <1>0, <1>1, <1>7, PlacesAre
    <2> QED
      BY <1>1, <1>7, <2>1, <2>2 DEF LosesNone
  <1>11. Stage(p)'
    <2>1. x.todo # <<>> /\ Len(x.todo) = Len(PanicLines(p))
      <3>1. x.todo = PanicLines(p) /\ Len(PanicLines(p)) = 2
        BY <1>4, <1>5
      <3>2. Len(x.todo) = Len(PanicLines(p)) /\ Len(x.todo) = 2
        BY ONLY <3>1, Zenon
      <3>3. x.todo = <<>> => Len(x.todo) = 0
        BY ONLY TRUE
      <3> QED
        BY ONLY <3>2, <3>3
    <2> QED
      BY <1>1, <1>5, <1>6, <2>1 DEF Stage
  <1>12. Nested'
    <2>1. x.pc \notin {"new"}
      BY <1>5
    <2> QED
      BY <1>0, <1>1, <1>6, <2>1, NestedMoves
  <1>13. /\ queue' \in QueueOf(said') /\ emergency' \in QueueOf(said')
         /\ disk' \cup shown' \cup out' \cup dropped' \cup cut' \subseteq said'
    <2>1. /\ queue \in QueueOf(said') /\ emergency \in QueueOf(said')
          /\ disk \cup shown \cup out \cup dropped \cup cut \subseteq said'
      BY <1>0, <1>1, QueuesStay
    <2>2. ToSet(th[p].todo) \subseteq said'
      BY <1>0, <1>1, PlacesAre
    <2> QED
      BY <1>1, <2>1, <2>2
  <1>14. /\ sink' \in {"none", "open", "taken"}
         /\ file' \in BOOLEAN /\ told' \in Nat /\ sink' = sink
    BY <1>0, <1>1 DEF LoggerTyped
  <1>15. Logs(N) /\ \A l \in N : Numbered(l)'
    BY <1>4
  <1>16. p # Server /\ th[p].pc \notin {"hook", "defer", "done"}
    BY <1>1, Names
  <1> QED
    BY <1>1, <1>5, <1>9, <1>10, <1>11, <1>12, <1>13, <1>14, <1>15, <1>16, LogStep

\* A line between two sequences that do not have it.
Mended(a, l, b) == a \o <<l>> \o b

LEMMA Between ==
    ASSUME NEW T, NEW a \in Seq(T), NEW b \in Seq(T), NEW l \in T,
           IsInjective(a), IsInjective(b), ToSet(a) \cap ToSet(b) = {},
           l \notin ToSet(a), l \notin ToSet(b)
    PROVE  /\ Mended(a, l, b) \in Seq(T) /\ IsInjective(Mended(a, l, b))
           /\ ToSet(Mended(a, l, b)) = {l} \cup ToSet(a) \cup ToSet(b)
  <1>1. PICK u \in Seq(T) : u = <<l>> /\ IsInjective(u) /\ ToSet(u) = {l}
    <2>1. IsInjective(<<l>>) /\ ToSet(<<l>>) = {l}
      BY DEF IsInjective, ToSet
    <2>2. <<l>> \in Seq(T)
      OBVIOUS
    <2> QED
      BY <2>1, <2>2
  <1>2. IsInjective(u) /\ ToSet(u) = {l}
    BY <1>1
  <1>3. a \o u \in Seq(T) /\ IsInjective(a \o u) /\ ToSet(a \o u) = ToSet(a) \cup {l}
    <2>1. ToSet(a) \cap ToSet(u) = {}
      BY <1>2
    <2> QED
      BY ONLY u \in Seq(T), <1>2, <2>1, a \in Seq(T), IsInjective(a), Joined
  <1>4. PICK c \in Seq(T) : c = a \o u /\ IsInjective(c) /\ ToSet(c) = ToSet(a) \cup {l}
    BY <1>3
  <1>5. /\ c \o b \in Seq(T) /\ IsInjective(c \o b)
        /\ ToSet(c \o b) = ToSet(a) \cup {l} \cup ToSet(b)
    <2>1. IsInjective(c) /\ ToSet(c) = ToSet(a) \cup {l} /\ ToSet(c) \cap ToSet(b) = {}
      BY <1>4
    <2> QED
      BY ONLY c \in Seq(T), b \in Seq(T), IsInjective(b), <2>1, Joined
  <1>6. c \o b = Mended(a, l, b)
    BY <1>1, <1>4, Zenon DEF Mended
  <1> QED
    BY <1>5, <1>6

\* The report of the file's failure among the lines it followed.
FailureAfter(s, k, l) == Mended(SubSeq(s, 1, k), l, SubSeq(s, k + 1, Len(s)))

LEMMA FailureBetween ==
    ASSUME NEW S, NEW s \in Seq(S), IsInjective(s), NEW k \in 0..Len(s),
           NEW T, S \subseteq T, NEW l \in T, l \notin S
    PROVE  /\ FailureAfter(s, k, l) \in Seq(T) /\ IsInjective(FailureAfter(s, k, l))
           /\ ToSet(FailureAfter(s, k, l)) = {l} \cup ToSet(s)
  <1>1. /\ IsInjective(SubSeq(s, 1, k)) /\ IsInjective(SubSeq(s, k + 1, Len(s)))
        /\ ToSet(SubSeq(s, 1, k)) \cup ToSet(SubSeq(s, k + 1, Len(s))) = ToSet(s)
        /\ ToSet(SubSeq(s, 1, k)) \cap ToSet(SubSeq(s, k + 1, Len(s))) = {}
    BY ONLY s \in Seq(S), IsInjective(s), k \in 0..Len(s), Divided
  <1>2. s \in Seq(T) /\ ToSet(s) \subseteq S
    BY DEF ToSet
  <1>3. SubSeq(s, 1, k) \in Seq(T) /\ SubSeq(s, k + 1, Len(s)) \in Seq(T)
    BY ONLY <1>2, k \in 0..Len(s), DividedTyped
  <1>4. PICK a, b :
          /\ a \in Seq(T) /\ b \in Seq(T) /\ IsInjective(a) /\ IsInjective(b)
          /\ ToSet(a) \cup ToSet(b) = ToSet(s) /\ ToSet(a) \cap ToSet(b) = {}
          /\ FailureAfter(s, k, l) = Mended(a, l, b)
    BY <1>1, <1>3, Zenon DEF FailureAfter
  <1>5. /\ a \in Seq(T) /\ b \in Seq(T) /\ IsInjective(a) /\ IsInjective(b)
        /\ ToSet(a) \cap ToSet(b) = {} /\ ToSet(a) \cup ToSet(b) = ToSet(s)
        /\ l \notin ToSet(a) /\ l \notin ToSet(b)
    BY <1>2, <1>4
  <1>6. /\ Mended(a, l, b) \in Seq(T) /\ IsInjective(Mended(a, l, b))
        /\ ToSet(Mended(a, l, b)) = {l} \cup ToSet(a) \cup ToSet(b)
    BY ONLY <1>5, l \in T, Between
  <1>7. ToSet(Mended(a, l, b)) = {l} \cup ToSet(s)
    BY ONLY <1>5, <1>6
  <1> QED
    BY ONLY <1>4, <1>6, <1>7, Zenon

\* What the hook delivers: the panic's lines, and the report of a failed write.
LEMMA HookDelivers ==
    ASSUME LoggingAssumption, LogInv, NEW p \in Threads, NEW n \in 0..2, HookWrites(p, n)
    PROVE  \E N, ls :
             /\ Logs(N) /\ (\A l \in N : Numbered(l)')
             /\ ls \in Seq(said') /\ IsInjective(ls) /\ ToSet(ls) = N \cup ToSet(th[p].todo)
             /\ \/ /\ sink = "open" /\ queue' = PushAll(queue, ls)
                   /\ dropped' = dropped \cup GivenUp(queue, ls) /\ out' = out
                \/ out' = out \cup ToSet(ls) /\ queue' = queue /\ dropped' = dropped
  <1>0. LinesKept /\ AllNumbered /\ AllStages /\ LoggerTyped
    BY LogInvIs DEF LinesKept
  <1>1. th[p].pc = "hook" /\ Len(th[p].todo) = 2
    <2>1. th[p].pc = "hook" /\ Stage(p)
      BY <1>0 DEF HookWrites, AllStages
    <2>2. Len(PanicLines(p)) = 2
      BY DEF PanicLines
    <2> QED
      BY <2>1, <2>2 DEF Stage
  <1>2. th[p].todo \in Seq(said) /\ IsInjective(th[p].todo) /\ n \in 0..Len(th[p].todo)
    BY <1>0, <1>1, PlacesAre
  <1>3. CASE file /\ n < Len(th[p].todo)
    <2> PICK c : c = Cardinality(said)
      OBVIOUS
    <2> PICK l : l = <<p, "log file disabled", c>>
      OBVIOUS
    <2>1. said' = said \cup {l}
      BY <1>3 DEF HookWrites, FailureLine, Line
    <2>2. l \notin said /\ Logs({l}) /\ Numbered(l)'
      BY <1>0, <2>1, Fresh
    <2>3. \/ /\ sink = "open"
             /\ queue' = PushAll(queue, FailureAfter(th[p].todo, n, l))
             /\ dropped' = dropped \cup GivenUp(queue, FailureAfter(th[p].todo, n, l))
             /\ out' = out
          \/ /\ out' = out \cup ToSet(FailureAfter(th[p].todo, n, l))
             /\ queue' = queue /\ dropped' = dropped
      BY <1>3, Zenon DEF HookWrites, FailureLine, Line, FailureAfter, Mended
    <2>4. said \subseteq said' /\ l \in said' /\ l \notin said
      BY <2>1, <2>2
    <2>5. /\ FailureAfter(th[p].todo, n, l) \in Seq(said')
          /\ IsInjective(FailureAfter(th[p].todo, n, l))
          /\ ToSet(FailureAfter(th[p].todo, n, l)) = {l} \cup ToSet(th[p].todo)
      BY ONLY <1>2, <2>4, FailureBetween
    <2>6. \A k \in {l} : Numbered(k)'
      BY <2>2
    <2> QED
      BY ONLY <2>2, <2>3, <2>5, <2>6, Zenon
  <1>4. CASE ~(file /\ n < Len(th[p].todo))
    <2>1. said' = said
      BY <1>4 DEF HookWrites
    <2>2. \/ /\ sink = "open" /\ queue' = PushAll(queue, th[p].todo)
             /\ dropped' = dropped \cup GivenUp(queue, th[p].todo) /\ out' = out
          \/ out' = out \cup ToSet(th[p].todo) /\ queue' = queue /\ dropped' = dropped
      BY <1>4, Zenon DEF HookWrites
    <2>3. /\ Logs({}) /\ \A l \in {} : Numbered(l)'
      BY <2>1, NothingLogged
    <2>4. th[p].todo \in Seq(said') /\ ToSet(th[p].todo) = {} \cup ToSet(th[p].todo)
      BY <1>2, <2>1
    <2> QED
      BY ONLY <1>2, <2>2, <2>3, <2>4, Zenon
  <1> QED
    BY <1>3, <1>4

LEMMA HookWritesKeeps ==
    ASSUME LoggingAssumption, LogInv, NEW p \in Threads, NEW n \in 0..2, HookWrites(p, n)
    PROVE  LogInv'
  <1>0. LinesKept /\ AllNumbered /\ AllStages /\ Nested /\ LoggerTyped
    BY LogInvIs DEF LinesKept
  <1>1. /\ th[p].pc = "hook" /\ lock' = None /\ file' \in BOOLEAN
        /\ disk' = (IF file THEN disk \cup ToSet(SubSeq(th[p].todo, 1, n)) ELSE disk)
        /\ th' = [th EXCEPT ![p] = Quiet("done")]
        /\ UNCHANGED <<sink, emergency, shown, told, cut>>
    BY <1>0 DEF HookWrites, Unlocks, LoggerTyped
  <1>2. PICK N, ls :
          /\ Logs(N) /\ (\A l \in N : Numbered(l)')
          /\ ls \in Seq(said') /\ IsInjective(ls) /\ ToSet(ls) = N \cup ToSet(th[p].todo)
          /\ \/ /\ sink = "open" /\ queue' = PushAll(queue, ls)
                /\ dropped' = dropped \cup GivenUp(queue, ls) /\ out' = out
             \/ out' = out \cup ToSet(ls) /\ queue' = queue /\ dropped' = dropped
    BY HookDelivers
  <1>3. said \subseteq said' /\ p \in Workers /\ Stage(p)
    BY <1>0, <1>1, <1>2 DEF Logs, AllStages, Stage
  <1>4. PICK x \in ThreadState(said') :
          /\ th' = [th EXCEPT ![p] = x] /\ x.pc = "done" /\ x.job = None /\ x.todo = <<>>
    <2> PICK x : x = Quiet("done")
      OBVIOUS
    <2>1. x \in ThreadState(said') /\ x.pc = "done" /\ x.job = None /\ x.todo = <<>>
      BY DEF Quiet, ThreadState, Pcs, Jobs, None
    <2> QED
      BY <1>1, <2>1
  <1>5. th'[p] = x /\ \A r \in Threads : r # p => th'[r] = th[r]
    BY <1>0, <1>3, <1>4, ThreadTyped
  <1>6. th'[p].todo = <<>> /\ IsInjective(th'[p].todo) /\ ToSet(th'[p].todo) = {}
    BY <1>4, <1>5, EmptyIs, NoLines
  <1>7. /\ ToSet(ls) \cap ToSet(th'[p].todo) = {}
        /\ ToSet(ls) \cup ToSet(th'[p].todo) = N \cup ToSet(th[p].todo)
    BY <1>2, <1>6
  <1>8. ToSet(ls) \subseteq said'
    BY <1>0, <1>2, PlacesAre DEF Logs
  <1>9. disk \subseteq disk' /\ disk' \subseteq said'
    <2>1. disk \subseteq said /\ th[p].todo \in Seq(said) /\ IsInjective(th[p].todo)
      BY <1>0, PlacesAre DEF LoggerTyped
    <2>2. n \in 0..Len(th[p].todo)
      <3>1. Len(PanicLines(p)) = 2
        BY DEF PanicLines
      <3> QED
        BY <1>1, <1>3, <3>1 DEF Stage
    <2>3. ToSet(SubSeq(th[p].todo, 1, n)) \subseteq ToSet(th[p].todo)
      BY <2>1, <2>2, Divided
    <2> QED
      BY <1>0, <1>1, <1>3, <2>1, <2>3, PlacesAre
  <1>10. /\ MovesOnce(p, N) /\ LosesNone(p, N) /\ queue' \in QueueOf(said')
         /\ dropped' \cup out' \subseteq said' /\ (sink # "open" => queue' = queue)
    <2>0. /\ queue \in QueueOf(said')
          /\ disk \cup shown \cup out \cup dropped \cup cut \subseteq said'
      BY <1>0, <1>3, QueuesStay
    <2>1. CASE /\ sink = "open" /\ queue' = PushAll(queue, ls)
               /\ dropped' = dropped \cup GivenUp(queue, ls) /\ out' = out
      <3>1. Seen \subseteq Seen'
        BY <1>1, <1>9, <2>1 DEF Seen
      <3>2. ls \in Seq(said') /\ IsInjective(ls) /\ Logs(N)
        BY <1>2
      <3>3. /\ MovesOnce(p, N) /\ LosesNone(p, N)
            /\ queue' \in QueueOf(said') /\ dropped' \subseteq said'
        BY <1>0, <1>1, <1>6, <1>7, <2>1, <3>1, <3>2, QueuePushed
      <3> QED
        BY <2>0, <2>1, <3>3
    <2>2. CASE out' = out \cup ToSet(ls) /\ queue' = queue /\ dropped' = dropped
      <3>1. Seen \subseteq Seen' /\ ToSet(ls) \subseteq Seen'
        BY <1>1, <1>9, <2>2 DEF Seen
      <3>2. MovesOnce(p, N) /\ LosesNone(p, N)
        BY <1>0, <1>1, <1>2, <1>6, <1>7, <2>2, <3>1, LinesPrinted
      <3> QED
        BY <1>8, <2>0, <2>2, <3>2
    <2> QED
      BY <1>2, <2>1, <2>2
  <1>11. Stage(p)'
    BY <1>3, <1>4, <1>5 DEF Stage
  <1>12. Nested'
    BY <1>0, <1>1, <1>3, <1>4, <1>5, <1>10, NestedMoves
  <1>13. /\ emergency' \in QueueOf(said')
         /\ disk' \cup shown' \cup out' \cup dropped' \cup cut' \subseteq said'
    <2>1. /\ emergency \in QueueOf(said')
          /\ disk \cup shown \cup out \cup dropped \cup cut \subseteq said'
      BY <1>0, <1>3, QueuesStay
    <2> QED
      BY <1>1, <1>9, <1>10, <2>1
  <1>14. /\ lock' \in Threads \cup {None} /\ sink' \in {"none", "open", "taken"}
         /\ told' \in Nat /\ sink' = sink
    BY <1>0, <1>1 DEF LoggerTyped
  <1>15. p # Server
    BY <1>3, Names
  <1> QED
    BY <1>1, <1>2, <1>4, <1>10, <1>11, <1>12, <1>13, <1>14, <1>15, LogStep

\* The lines a panicking thread defers wait in EMERGENCY.
LEMMA EmergencyPushed ==
    ASSUME LoggingAssumption, LinesKept, NEW p \in Threads, NEW N, Logs(N),
           NEW ls \in Seq(said'), IsInjective(ls), IsInjective(th'[p].todo),
           ToSet(ls) \cup ToSet(th'[p].todo) = N \cup ToSet(th[p].todo),
           ToSet(ls) \cap ToSet(th'[p].todo) = {},
           emergency' = PushAll(emergency, ls), dropped' = dropped \cup GivenUp(emergency, ls),
           UNCHANGED <<queue, told, cut>>, Seen \subseteq Seen'
    PROVE  /\ MovesOnce(p, N) /\ LosesNone(p, N)
           /\ emergency' \in QueueOf(said') /\ dropped' \subseteq said'
  <1> PICK g : g = GivenUp(emergency, ls)
    OBVIOUS
  <1> PICK r : r = PushAll(emergency, ls)
    OBVIOUS
  <1>1. N \cap said = {} /\ said' = said \cup N
    BY DEF Logs
  <1>2. emergency \in [lines : Seq(said'), omitted : Nat]
    BY <1>1, QueuesStay DEF QueueOf
  <1>3. ToSet(emergency.lines) \cap ToSet(ls) = {} /\ IsInjective(emergency.lines)
    BY <1>1, PlacesAre
  <1>4. /\ r \in [lines : Seq(said'), omitted : Nat] /\ Len(r.lines) <= MAX_TERMINAL_LOGS
        /\ IsInjective(r.lines)
        /\ ToSet(r.lines) \cup g = ToSet(emergency.lines) \cup ToSet(ls)
        /\ ToSet(r.lines) \cap g = {}
        /\ IsFiniteSet(g) /\ r.omitted = emergency.omitted + Cardinality(g)
    BY <1>2, <1>3, PushKeeps
  <1>5. emergency' = r /\ dropped' = dropped \cup g
    OBVIOUS
  <1>6. g \cap dropped = {} /\ g \subseteq said'
    BY <1>1, <1>4, PlacesAre
  <1>7. /\ Held(p)' = ToSet(r.lines) \cup ToSet(queue.lines) \cup ToSet(th'[p].todo)
        /\ Waiting' = ToSet(r.lines) \cup ToSet(queue.lines)
    BY <1>5 DEF Held, Waiting
  <1>8. MovesOnce(p, N)
    <2>1. ToSet(r.lines) \cap ToSet(queue.lines) = {}
      BY <1>1, <1>4, PlacesAre
    <2>2. ToSet(th'[p].todo) \cap Waiting' = {}
      BY <1>1, <1>4, <1>7, PlacesAre
    <2>3. Held(p)' \subseteq Held(p) \cup N /\ dropped' \subseteq dropped \cup Held(p) \cup N
      BY <1>4, <1>5, <1>7, PlacesAre
    <2>4. dropped' \cap Held(p)' = {}
      <3>1. g \cap Held(p)' = {}
        BY <1>1, <1>4, <1>7, PlacesAre
      <3>2. dropped \cap Held(p)' = {}
        BY <1>1, <1>4, <1>7, PlacesAre
      <3> QED
        BY <1>5, <3>1, <3>2
    <2>5. IsInjective(queue'.lines)
      BY PlacesAre
    <2> QED
      BY <1>4, <1>5, <2>1, <2>2, <2>3, <2>4, <2>5 DEF MovesOnce
  <1>9. LosesNone(p, N)
    <2>1. /\ IsFiniteSet(dropped)
          /\ Cardinality(dropped) = queue.omitted + emergency.omitted + told
          /\ emergency.omitted \in Nat /\ queue.omitted \in Nat /\ told \in Nat
      BY PlacesAre
    <2>2. /\ Cardinality(dropped \cup g) = Cardinality(dropped) + Cardinality(g)
          /\ Cardinality(g) \in Nat
      BY <1>4, <1>6, <2>1, BothCounted
    <2>3. Cardinality(dropped') = queue'.omitted + emergency'.omitted + told'
      BY <1>4, <1>5, <2>1, <2>2
    <2>4. Held(p) \cup N \subseteq Held(p)' \cup dropped'
      BY <1>4, <1>5, <1>7, PlacesAre
    <2> QED
      BY <1>5, <2>3, <2>4 DEF LosesNone
  <1>10. emergency' \in QueueOf(said') /\ dropped' \subseteq said'
    BY <1>1, <1>4, <1>5, <1>6, PlacesAre DEF QueueOf
  <1> QED
    BY <1>8, <1>9, <1>10

LEMMA TailIs ==
    ASSUME NEW S, NEW t \in Seq(S), t # <<>>
    PROVE  /\ Tail(t) = SubSeq(t, 1 + 1, Len(t)) /\ Tail(t) \in Seq(S)
           /\ Len(t) \in Nat /\ Len(Tail(t)) = Len(t) - 1
           /\ Tail(t) = <<>> <=> Len(t) = 1
  <1>1. /\ Tail(t) = SubSeq(t, 1 + 1, Len(t)) /\ Tail(t) \in Seq(S)
        /\ Len(t) \in Nat /\ Len(Tail(t)) = Len(t) - 1
    OBVIOUS
  <1>2. ASSUME NEW u \in Seq(S) PROVE u = <<>> <=> Len(u) = 0
    OBVIOUS
  <1>3. Tail(t) = <<>> <=> Len(Tail(t)) = 0
    BY <1>1, <1>2, Zenon
  <1>4. Len(t) - 1 = 0 <=> Len(t) = 1
    BY <1>1
  <1> QED
    BY ONLY <1>1, <1>3, <1>4

LEMMA DeferKeeps ==
    ASSUME LoggingAssumption, LogInv, NEW p \in Threads, Defer(p)
    PROVE  LogInv'
  <1>0. LinesKept /\ AllNumbered /\ AllStages /\ Nested /\ LoggerTyped
    BY LogInvIs DEF LinesKept
  <1>1. /\ th[p].pc = "defer" /\ lock' \in Threads \cup {None}
        /\ UNCHANGED <<sink, queue, file, disk, shown, said, told, cut>>
    BY <1>0 DEF Defer, LoggerTyped
  <1>2. p \in Workers /\ p # Server /\ Stage(p) /\ th[p].todo # <<>>
    BY <1>0, <1>1, Names DEF AllStages, Stage
  <1>3. PICK ls, rest :
          /\ ls \in Seq(said) /\ rest \in Seq(said) /\ IsInjective(ls) /\ IsInjective(rest)
          /\ ToSet(ls) \cup ToSet(rest) = ToSet(th[p].todo) /\ ToSet(ls) \cap ToSet(rest) = {}
          /\ emergency' = PushAll(emergency, ls)
          /\ dropped' = dropped \cup GivenUp(emergency, ls)
          /\ out' = out \/ out' = out \cup ToSet(ls)
          /\ \/ rest = <<>> /\ th' = [th EXCEPT ![p] = Quiet("done")]
             \/ rest # <<>> /\ th' = [th EXCEPT ![p] = [th[p] EXCEPT !.todo = rest]]
    <2>1. th[p].todo \in Seq(said) /\ IsInjective(th[p].todo)
      BY <1>0, PlacesAre
    <2>2. /\ Len(th[p].todo) \in Nat /\ 1 \in 1..Len(th[p].todo)
          /\ SubSeq(th[p].todo, 1, 1) = <<Head(th[p].todo)>>
      BY <1>2, <2>1, FirstLines
    <2>3. 1 \in 0..Len(th[p].todo)
      BY <2>2
    <2>4. /\ IsInjective(SubSeq(th[p].todo, 1, 1))
          /\ IsInjective(SubSeq(th[p].todo, 1 + 1, Len(th[p].todo)))
          /\ ToSet(SubSeq(th[p].todo, 1, 1))
               \cup ToSet(SubSeq(th[p].todo, 1 + 1, Len(th[p].todo))) = ToSet(th[p].todo)
          /\ ToSet(SubSeq(th[p].todo, 1, 1))
               \cap ToSet(SubSeq(th[p].todo, 1 + 1, Len(th[p].todo))) = {}
      BY ONLY <2>1, <2>3, Divided
    <2>5. SubSeq(th[p].todo, 1, 1) \in Seq(said)
      BY ONLY <2>1, <2>3, DividedTyped
    <2>6. /\ Tail(th[p].todo) = SubSeq(th[p].todo, 1 + 1, Len(th[p].todo))
          /\ Tail(th[p].todo) \in Seq(said)
          /\ Tail(th[p].todo) = <<>> <=> Len(th[p].todo) = 1
      BY <1>2, <2>1, TailIs
    <2>8. /\ emergency' = PushAll(emergency, <<Head(th[p].todo)>>)
          /\ dropped' = dropped \cup GivenUp(emergency, <<Head(th[p].todo)>>)
          /\ out' = out \/ out' = out \cup ToSet(<<Head(th[p].todo)>>)
          /\ \/ Len(th[p].todo) = 1 /\ th' = [th EXCEPT ![p] = Quiet("done")]
             \/ /\ Len(th[p].todo) # 1
                /\ th' = [th EXCEPT ![p] = [th[p] EXCEPT !.todo = Tail(th[p].todo)]]
      BY DEF Defer
    <2>9. \/ Tail(th[p].todo) = <<>> /\ th' = [th EXCEPT ![p] = Quiet("done")]
          \/ /\ Tail(th[p].todo) # <<>>
             /\ th' = [th EXCEPT ![p] = [th[p] EXCEPT !.todo = Tail(th[p].todo)]]
      BY ONLY <2>6, <2>8
    <2>10. /\ IsInjective(<<Head(th[p].todo)>>) /\ <<Head(th[p].todo)>> \in Seq(said)
           /\ IsInjective(Tail(th[p].todo)) /\ Tail(th[p].todo) \in Seq(said)
           /\ ToSet(<<Head(th[p].todo)>>) \cup ToSet(Tail(th[p].todo)) = ToSet(th[p].todo)
           /\ ToSet(<<Head(th[p].todo)>>) \cap ToSet(Tail(th[p].todo)) = {}
      <3>1. /\ IsInjective(<<Head(th[p].todo)>>) /\ <<Head(th[p].todo)>> \in Seq(said)
            /\ ToSet(<<Head(th[p].todo)>>) = ToSet(SubSeq(th[p].todo, 1, 1))
        BY ONLY <2>2, <2>4, <2>5
      <3>2. /\ IsInjective(Tail(th[p].todo)) /\ Tail(th[p].todo) \in Seq(said)
            /\ ToSet(Tail(th[p].todo)) = ToSet(SubSeq(th[p].todo, 1 + 1, Len(th[p].todo)))
        BY ONLY <2>4, <2>6
      <3> QED
        BY ONLY <2>4, <3>1, <3>2
    <2> QED
      BY ONLY <2>8, <2>9, <2>10, Zenon
  <1>4. PICK x \in ThreadState(said) :
          /\ th' = [th EXCEPT ![p] = x] /\ x.todo = rest /\ x.job \in {None, "log"}
          /\ (x.pc = "done" /\ rest = <<>>) \/ (x.pc = "defer" /\ rest # <<>>)
    <2>1. CASE rest = <<>> /\ th' = [th EXCEPT ![p] = Quiet("done")]
      <3>1. "done" \in Pcs
        BY DEF Pcs
      <3>2. /\ Quiet("done") \in ThreadState(said) /\ Quiet("done").pc = "done"
            /\ Quiet("done").job = None /\ Quiet("done").todo = <<>>
        BY <3>1, QuietIs
      <3> QED
        BY <2>1, <3>2
    <2>2. CASE rest # <<>> /\ th' = [th EXCEPT ![p] = [th[p] EXCEPT !.todo = rest]]
      <3> PICK x : x = [th[p] EXCEPT !.todo = rest]
        OBVIOUS
      <3>1. th[p] \in ThreadState(said) /\ th[p].job \in {None, "log"}
        BY <1>0, <1>2, ThreadIs DEF Stage
      <3>2. /\ x \in ThreadState(said) /\ x.todo = rest /\ x.pc = "defer"
            /\ x.job \in {None, "log"}
        BY <1>1, <1>3, <3>1 DEF ThreadState
      <3> QED
        BY <2>2, <3>2
    <2> QED
      BY <1>3, <2>1, <2>2
  <1>5. x \in ThreadState(said')
    BY <1>1
  <1>6. th'[p] = x /\ \A r \in Threads : r # p => th'[r] = th[r]
    BY <1>0, <1>1, <1>4, <1>5, ThreadTyped
  <1>7. Logs({}) /\ \A l \in {} : Numbered(l)'
    BY <1>1, NothingLogged
  <1>8. /\ MovesOnce(p, {}) /\ LosesNone(p, {})
        /\ emergency' \in QueueOf(said') /\ dropped' \subseteq said'
    <2>1. /\ IsInjective(th'[p].todo) /\ ToSet(ls) \cap ToSet(th'[p].todo) = {}
          /\ ToSet(ls) \cup ToSet(th'[p].todo) = {} \cup ToSet(th[p].todo)
      BY <1>3, <1>4, <1>6
    <2>2. Seen \subseteq Seen'
      BY <1>1, <1>3 DEF Seen
    <2>3. /\ ls \in Seq(said') /\ IsInjective(ls)
          /\ emergency' = PushAll(emergency, ls)
          /\ dropped' = dropped \cup GivenUp(emergency, ls)
          /\ UNCHANGED <<queue, told, cut>>
      BY <1>1, <1>3
    <2> QED
      BY <1>0, <1>7, <2>1, <2>2, <2>3, EmergencyPushed
  <1>9. Stage(p)'
    BY <1>2, <1>4, <1>6 DEF Stage
  <1>10. Nested'
    BY <1>0, <1>1, <1>2, <1>4, <1>6, NestedMoves
  <1>11. /\ queue' \in QueueOf(said')
         /\ disk' \cup shown' \cup out' \cup dropped' \cup cut' \subseteq said'
    <2>1. /\ queue \in QueueOf(said')
          /\ disk \cup shown \cup out \cup dropped \cup cut \subseteq said'
      BY <1>0, <1>1, QueuesStay
    <2>2. ToSet(ls) \subseteq said'
      BY <1>0, <1>1, <1>3, PlacesAre
    <2> QED
      BY <1>1, <1>3, <1>8, <2>1, <2>2
  <1>12. /\ sink' \in {"none", "open", "taken"}
         /\ file' \in BOOLEAN /\ told' \in Nat /\ sink' = sink
    BY <1>0, <1>1 DEF LoggerTyped
  <1>13. x.pc \in {"hook", "defer", "done"}
    BY <1>4
  <1> QED
    BY <1>1, <1>2, <1>4, <1>5, <1>7, <1>8, <1>9, <1>10, <1>11, <1>12, <1>13, LogStep

-----------------------------------------------------------------------------
LEMMA LogInvKept ==
    ASSUME LoggingAssumption, LogInv, [LogNext]_logVars
    PROVE  LogInv'
  <1>1. ASSUME NEW p \in Threads, Step(p) PROVE LogInv'
    <2>1. CASE Flush(p)
      BY <2>1, FlushKeeps
    <2>2. CASE Acquire(p)
      BY <2>2, AcquireKeeps
    <2>3. CASE EmitPushes(p)
      BY <2>3, EmitPushesKeeps
    <2>4. CASE Defer(p)
      BY <2>4, DeferKeeps
    <2>5. ASSUME NEW ok \in BOOLEAN, EmitWrites(p, ok) PROVE LogInv'
      <3>1. CASE ok = TRUE
        BY <2>5, <3>1, EmitWritesKeeps
      <3>2. CASE ok = FALSE
        BY <2>5, <3>2, EmitFailsKeeps
      <3> QED
        BY <3>1, <3>2
    <2>6. ASSUME NEW n \in 0..2, HookWrites(p, n) PROVE LogInv'
      BY <2>6, HookWritesKeeps
    <2>7. CASE OpenSink \/ SinkOpened \/ SinkClosed \/ Drain
      BY <2>7, OpenSinkKeeps, SinkOpenedKeeps, SinkClosedKeeps, DrainKeeps
    <2>8. CASE OpenFile \/ FileClosed
      BY <2>8, OpenFileKeeps, FileClosedKeeps
    <2>9. ASSUME NEW ok \in BOOLEAN, FileOpened(ok) PROVE LogInv'
      <3>1. CASE ok = TRUE
        BY <2>9, <3>1, FileOpenedKeeps
      <3>2. CASE ok = FALSE
        BY <2>9, <3>2, FileRefusedKeeps
      <3> QED
        BY <3>1, <3>2
    <2> QED
      BY <1>1, <2>1, <2>2, <2>3, <2>4, <2>5, <2>6, <2>7, <2>8, <2>9 DEF Step
  <1>2. ASSUME NEW p \in Threads, Log(p) \/ Return(p) \/ TryReport(p) PROVE LogInv'
    BY <1>2, LogKeeps, ReturnKeeps, TryReportKeeps
  <1>3. ASSUME NEW w \in Workers, Spawn(w) PROVE LogInv'
    BY <1>3, SpawnKeeps
  <1>4. ASSUME NEW p \in {Main, Server}, NEW job \in {"drain", "closeFile", "closeSink"},
               Call(p, job)
        PROVE  LogInv'
    BY <1>4, CallKeeps
  <1>5. CASE UNCHANGED logVars
    <2>1. UNCHANGED <<lock, sink, queue, emergency, file, disk, shown, out, th,
                      said, dropped, told, cut>>
      BY <1>5 DEF logVars
    <2>2. LoggerTyped'
      BY <2>1 DEF LogInv, LoggerTyped
    <2>3. InFlight' = InFlight /\ Waiting' = Waiting /\ Seen' = Seen /\ Working' = Working
      BY <2>1 DEF InFlight, Waiting, Seen, Working
    <2>4. OnePlace'
      BY <2>1, <2>3 DEF LogInv, OnePlace
    <2>5. EveryLineSomewhere'
      BY <2>1, <2>3 DEF LogInv, EveryLineSomewhere
    <2>6. Nested'
      BY <2>1, <2>3 DEF LogInv, Nested, Early, Late
    <2>7. \A l \in said' : Numbered(l)'
      BY <2>1 DEF LogInv, Numbered, LogLines
    <2>8. \A p \in Threads : Stage(p)'
      BY <2>1 DEF LogInv, Stage
    <2> QED
      BY <2>2, <2>4, <2>5, <2>6, <2>7, <2>8 DEF LogInv
  <1> QED
    BY <1>1, <1>2, <1>3, <1>4, <1>5 DEF LogNext, Terminated

\* When both owners are done, what every thread held has been delivered.
LEMMA LogInvSays ==
    ASSUME LoggingAssumption, LogInv
    PROVE  NothingLost
  <1>0. LinesKept /\ AllStages /\ Nested /\ LoggerTyped /\ EveryLineSomewhere
    BY LogInvIs DEF LinesKept
  <1>1. LogTypeOK
    <2>1. \A p \in Threads : th[p].pc \in Pcs
      BY <1>0, ThreadIs
    <2>2. queue.omitted \in Nat /\ emergency.omitted \in Nat
      BY <1>0 DEF LoggerTyped
    <2> QED
      BY <1>0, <2>1, <2>2 DEF LogTypeOK, LoggerTyped, Pcs
  <1>2. ASSUME AllDone PROVE said \subseteq Seen \cup dropped \cup cut
    <2>1. th[Main].pc = "done" /\ th[Server].pc = "done"
      BY <1>2 DEF AllDone
    <2>2. Working = {} /\ emergency.lines = <<>> /\ queue.lines = <<>>
      BY <1>0, <2>1 DEF Nested, Late
    <2>3. \A w \in Workers : th[w].pc \in {"new", "done"}
      BY <2>2 DEF Working
    <2>4. \A p \in Threads : th[p].todo = <<>>
      BY <1>0, <2>1, <2>3, Names DEF AllStages, Stage
    <2>5. InFlight = {} /\ Waiting = {}
      BY <2>2, <2>4, NoLines DEF InFlight, Waiting
    <2> QED
      BY <1>0, <2>5 DEF EveryLineSomewhere
  <1> QED
    BY <1>0, <1>1, <1>2 DEF NothingLost, NothingLeft

\* Every line a thread hands to the logger is on its way, waits in a queue, is
\* in the service log or before the operator, or was given up by a full queue
\* that counts it; and when both guards are dropped none waits any more: log,
\* emit, flush_emergency, drain, the panic hook and the drops of the guards.
THEOREM LinesAreNotLost ==
    ASSUME LoggingAssumption
    PROVE  LogSpec => []NothingLost
  <1>1. LogInit => LogInv
    BY LogStarts
  <1>2. LogInv /\ [LogNext]_logVars => LogInv'
    BY LogInvKept
  <1>3. LogInv => NothingLost
    BY LogInvSays
  <1> QED
    BY <1>1, <1>2, <1>3, PTL DEF LogSpec

=============================================================================
