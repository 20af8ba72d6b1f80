---------------------------- MODULE ClientProofs ----------------------------
(***************************************************************************)
(* Proofs about the client's side of a connection.  The first half is the  *)
(* actor between any driver and any peer (ClientPeer): its invariant       *)
(* PeerInv ties the table of pending operations to what was sent and what  *)
(* was told.  The second half is the host list and the statuses            *)
(* (ClientCatalog): CatalogInv says that every request waited for is in    *)
(* one place, on its way out, in a job or on its way back.                 *)
(***************************************************************************)
EXTENDS ClientPeer, ClientCatalog, SequenceTheorems, FiniteSetTheorems, TLAPS

-----------------------------------------------------------------------------
(* Queues *)

\* Taking the head off a queue moves every other entry one place down.
LEMMA HeadTaken ==
    ASSUME NEW S, NEW s \in Seq(S), s # <<>>
    PROVE  /\ Tail(s) \in Seq(S) /\ 1 \in DOMAIN s /\ Head(s) = s[1] /\ Head(s) \in S
           /\ \A k \in DOMAIN Tail(s) : k + 1 \in DOMAIN s /\ k + 1 # 1 /\ Tail(s)[k] = s[k + 1]
           /\ \A k \in DOMAIN Tail(s) : \A l \in DOMAIN Tail(s) : k + 1 = l + 1 => k = l
           /\ \A k \in DOMAIN s : k # 1 => k - 1 \in DOMAIN Tail(s) /\ Tail(s)[k - 1] = s[k]
  <1>1. Len(s) \in Nat /\ Len(s) # 0 /\ DOMAIN s = 1..Len(s)
    BY EmptySeq
  <1>2. /\ Tail(s) \in Seq(S) /\ Len(Tail(s)) = Len(s) - 1
        /\ \A i \in 1..Len(Tail(s)) : Tail(s)[i] = s[i + 1]
        /\ Head(s) = s[1]
    BY HeadTailProperties
  <1>3. DOMAIN Tail(s) = 1..(Len(s) - 1)
    BY <1>2, LenProperties
  <1>4. s[1] \in S
    BY <1>1, ElementOfSeq
  <1> QED
    BY <1>1, <1>2, <1>3, <1>4

\* Appending to a queue keeps its entries and adds one place, which holds the new one.
LEMMA Added ==
    ASSUME NEW S, NEW s \in Seq(S), NEW x \in S
    PROVE  /\ Append(s, x) \in Seq(S)
           /\ DOMAIN Append(s, x) = DOMAIN s \cup {Len(s) + 1} /\ Len(s) + 1 \notin DOMAIN s
           /\ Append(s, x)[Len(s) + 1] = x
           /\ \A k \in DOMAIN s : Append(s, x)[k] = s[k]
  <1>1. Len(s) \in Nat /\ DOMAIN s = 1..Len(s)
    BY LenProperties
  <1>2. /\ Append(s, x) \in Seq(S) /\ Len(Append(s, x)) = Len(s) + 1
        /\ \A i \in 1..Len(s) : Append(s, x)[i] = s[i]
        /\ Append(s, x)[Len(s) + 1] = x
    BY AppendProperties
  <1>3. DOMAIN Append(s, x) = 1..(Len(s) + 1)
    BY <1>2, LenProperties
  <1> QED
    BY <1>1, <1>2, <1>3

-----------------------------------------------------------------------------
(* The event queue and what the driver was told *)

\* Posting an event keeps the queue within its capacity; what the driver is told grows
\* by exactly the replies that found room (emit_event).
LEMMA Posted ==
    ASSUME ActorAssumption, PeerTyped, NEW x \in Remarks \cup Replies, Post(x), told' = Told
    PROVE  /\ events' \in Seq(Remarks \cup Replies) /\ Len(events') <= EventCap
           /\ told' \in Seq(Replies)
           /\ Room => /\ events' = Append(events, x)
                      /\ told' = IF x.kind = "connected" THEN <<>>
                                 ELSE IF x.kind \in {"receipt", "online"} THEN Append(told, x) ELSE told
           /\ ~Room => events' = events /\ told' = told
  <1>0. events \in Seq(Remarks \cup Replies) /\ Len(events) <= EventCap /\ told \in Seq(Replies)
    BY DEF PeerTyped
  <1>1. Len(events) \in Nat
    BY <1>0, LenProperties
  <1>2. CASE ~Room
    BY <1>0, <1>2 DEF Post, Told
  <1>3. CASE Room
    <2>1. events' = Append(events, x)
      BY <1>3 DEF Post
    <2>2. /\ events' \in Seq(Remarks \cup Replies) /\ Len(events') = Len(events) + 1
          /\ events'[Len(events) + 1] = x
      BY <1>0, <2>1, AppendProperties
    <2>3. Len(events') <= EventCap
      <3>1. EventCap \in Nat
        BY DEF ActorAssumption
      <3> QED
        BY <1>1, <1>3, <2>2, <3>1 DEF Room
    <2>4. told' = IF x.kind = "connected" THEN <<>>
                  ELSE IF x.kind \in {"receipt", "online"} THEN Append(told, x) ELSE told
      BY <1>1, <2>2 DEF Told
    <2>5. told' \in Seq(Replies)
      <3>1. x.kind \in {"receipt", "online"} => x \in Replies
        BY DEF Remarks, Note, ConnectionEvents
      <3>2. x \in Replies => Append(told, x) \in Seq(Replies)
        BY <1>0, Added
      <3> QED
        BY <1>0, <2>4, <3>1, <3>2
    <2> QED
      BY <1>3, <2>1, <2>2, <2>3, <2>4, <2>5
  <1> QED
    BY <1>2, <1>3

\* An actor's step that posts nothing tells nothing.
LEMMA Unposted ==
    ASSUME UNCHANGED events, told' = Told
    PROVE  told' = told
  BY DEF Told

\* Events that are no connection events leave what was last heard.
LEMMA HeardKept ==
    ASSUME events \in Seq(Remarks \cup Replies), NEW x \in Remarks \cup Replies, view' = view,
           events' = Append(events, x), x.kind \notin ConnectionEvents, NEW v, LastHeard(v)
    PROVE  LastHeard(v)'
  <1> DEFINE t == events'
  <1>1. /\ DOMAIN t = DOMAIN events \cup {Len(events) + 1} /\ Len(events) + 1 \notin DOMAIN events
        /\ t[Len(events) + 1] = x
        /\ \A k \in DOMAIN events : t[k] = events[k]
    BY Added
  <1> HIDE DEF t
  <1> QED
    BY <1>1 DEF LastHeard, ConnectionEvents, t

\* A connection event that is posted is the last one heard.
LEMMA HeardNow ==
    ASSUME events \in Seq(Remarks \cup Replies), NEW x \in Remarks \cup Replies, view' = view,
           events' = Append(events, x), x.kind \in ConnectionEvents
    PROVE  LastHeard(x.kind)'
  <1> DEFINE t == events'
             p == Len(events) + 1
  <1>1. DOMAIN t = DOMAIN events \cup {p} /\ t[p] = x
    BY Added
  <1>2. Len(events) \in Nat /\ DOMAIN events = 1..Len(events)
    BY LenProperties
  <1>3. \A j \in DOMAIN t : ~(j > p)
    <2> HIDE DEF t
    <2> QED
      BY <1>1, <1>2
  <1> HIDE DEF t, p
  <1> QED
    BY <1>1, <1>3 DEF LastHeard, t

\* Reading an event moves the last one heard from the queue to the driver, at most.
LEMMA HeardRead ==
    ASSUME events \in Seq(Remarks \cup Replies), Read, NEW v, LastHeard(v)
    PROVE  LastHeard(v)'
  <1> DEFINE t == Tail(events)
  <1>1. events # <<>> /\ events' = t
        /\ view' = IF Head(events).kind \in ConnectionEvents THEN Head(events).kind ELSE view
    BY DEF Read
  <1>2. /\ 1 \in DOMAIN events /\ Head(events) = events[1]
        /\ \A k \in DOMAIN t : k + 1 \in DOMAIN events /\ k + 1 # 1 /\ t[k] = events[k + 1]
        /\ \A k \in DOMAIN events : k # 1 => k - 1 \in DOMAIN t /\ t[k - 1] = events[k]
    BY <1>1, HeadTaken
  <1>3. DOMAIN events = 1..Len(events) /\ DOMAIN t = 1..Len(t)
    <2>1. t \in Seq(Remarks \cup Replies)
      BY <1>1, HeadTaken
    <2> QED
      BY <2>1, LenProperties
  <1> HIDE DEF t
  <1>4. CASE view = v /\ \A i \in DOMAIN events : events[i].kind \notin ConnectionEvents
    BY <1>1, <1>2, <1>4 DEF LastHeard
  <1>5. ASSUME NEW i \in DOMAIN events, events[i].kind = v, v \in ConnectionEvents,
               \A j \in DOMAIN events : j > i => events[j].kind \notin ConnectionEvents
        PROVE  LastHeard(v)'
    <2>1. CASE i = 1
      <3>1. \A k \in DOMAIN t : k + 1 > i
        BY <1>3, <2>1
      <3>2. \A k \in DOMAIN t : t[k].kind \notin ConnectionEvents
        BY <1>2, <1>5, <3>1
      <3>3. view' = v
        BY <1>1, <1>2, <1>5, <2>1
      <3> QED
        BY <1>1, <3>2, <3>3 DEF LastHeard, ConnectionEvents
    <2>2. CASE i # 1
      <3>1. i - 1 \in DOMAIN t /\ t[i - 1] = events[i]
        BY <1>2, <2>2
      <3>2. \A k \in DOMAIN t : k > i - 1 => k + 1 > i
        BY <1>3
      <3>3. \A k \in DOMAIN t : k > i - 1 => t[k].kind \notin ConnectionEvents
        BY <1>2, <1>5, <3>2
      <3> QED
        BY <1>1, <1>5, <3>1, <3>3 DEF LastHeard, ConnectionEvents
    <2> QED
      BY <2>1, <2>2
  <1> QED
    BY <1>4, <1>5 DEF LastHeard

\* Who neither posts nor reads leaves what was last heard.
LEMMA HeardSame ==
    ASSUME UNCHANGED <<events, view>>, NEW v, LastHeard(v)
    PROVE  LastHeard(v)'
  BY DEF LastHeard

-----------------------------------------------------------------------------
(* What was sent and told *)

\* Requests are only added to what was sent.
LEMMA SentStays ==
    ASSUME link.out \in Seq(Sendable),
           link'.out = link.out \/ \E q \in Sendable : link'.out = Append(link.out, q),
           NEW o, NEW x, WasSent(o, x)
    PROVE  WasSent(o, x)'
  <1>1. CASE link'.out = link.out
    BY <1>1 DEF WasSent
  <1>2. ASSUME NEW q \in Sendable, link'.out = Append(link.out, q) PROVE WasSent(o, x)'
    <2> DEFINE s == link'.out
    <2>1. DOMAIN s = DOMAIN link.out \cup {Len(link.out) + 1} /\ \A k \in DOMAIN link.out : s[k] = link.out[k]
      BY <1>2, Added
    <2> HIDE DEF s
    <2> QED
      BY <2>1 DEF WasSent, s
  <1> QED
    BY <1>1, <1>2

\* While nothing is told, what was told keeps answering what was sent.
LEMMA SoundStays ==
    ASSUME PeerTyped, ToldSound, told' = told,
           link'.out = link.out \/ \E q \in Sendable : link'.out = Append(link.out, q)
    PROVE  ToldSound'
  <1>1. link.out \in Seq(Sendable)
    BY DEF PeerTyped, Links
  <1>2. ASSUME NEW i \in DOMAIN told, told[i].kind = "receipt" PROVE WasSent(told[i].op, told[i])'
    <2> PICK x : x = told[i]
      OBVIOUS
    <2> PICK o : o = x.op
      OBVIOUS
    <2>1. WasSent(o, x)
      BY <1>2 DEF ToldSound
    <2>2. WasSent(o, x)'
      BY <1>1, <2>1, SentStays
    <2>3. told'[i] = x
      OBVIOUS
    <2> QED
      BY <2>2, <2>3 DEF WasSent
  <1> QED
    BY <1>2 DEF ToldSound, LastIs

\* A reply that is told next, of a request sent or of a receipt told.
LEMMA SoundMore ==
    ASSUME PeerTyped, ToldSound, link'.out = link.out, NEW x \in Replies, told' = Append(told, x),
           x.kind = "receipt" => WasSent(x.op, x),
           x.kind = "online" =>
              \E r \in 1..Len(told) :
                  /\ LastIs(x.op, r, Len(told) + 1)
                  /\ told[r].attempt = x.attempt /\ x.host \in told[r].accepted
                  /\ \A k \in (r + 1)..Len(told) : told[k] # x
    PROVE  ToldSound'
  <1> DEFINE n == Len(told)
             t == told'
  <1>0. told \in Seq(Replies) /\ link.out \in Seq(Sendable)
    BY DEF PeerTyped, Links
  <1>1. n \in Nat /\ DOMAIN told = 1..n
    BY <1>0, LenProperties
  <1>2. /\ t \in Seq(Replies) /\ DOMAIN t = DOMAIN told \cup {n + 1} /\ t[n + 1] = x
        /\ \A k \in DOMAIN told : t[k] = told[k]
    BY <1>0, Added
  <1>3. Len(t) = n + 1
    BY <1>0, AppendProperties
  <1> DEFINE Last(o, r, i) ==
                /\ r \in 1..(i - 1) /\ t[r].kind = "receipt" /\ t[r].op = o
                /\ \A k \in (r + 1)..(i - 1) : ~(t[k].kind = "receipt" /\ t[k].op = o)
             Follows(e, i) ==
                \E r \in 1..Len(t) :
                    /\ Last(e.op, r, i)
                    /\ t[r].attempt = e.attempt /\ e.host \in t[r].accepted
                    /\ \A k \in (r + 1)..(i - 1) : t[k] # e
  <1> HIDE DEF n, t
  <1>4. ASSUME NEW e, NEW i \in 1..(n + 1),
               \E r \in 1..n :
                  /\ LastIs(e.op, r, i)
                  /\ told[r].attempt = e.attempt /\ e.host \in told[r].accepted
                  /\ \A k \in (r + 1)..(i - 1) : told[k] # e
        PROVE  Follows(e, i)
    <2>1. PICK r \in 1..n :
                  /\ LastIs(e.op, r, i)
                  /\ told[r].attempt = e.attempt /\ e.host \in told[r].accepted
                  /\ \A k \in (r + 1)..(i - 1) : told[k] # e
      BY <1>4
    <2>2. r \in 1..(i - 1) /\ r \in 1..Len(t) /\ \A k \in (r + 1)..(i - 1) : k \in DOMAIN told
      BY <1>1, <1>3, <2>1 DEF LastIs
    <2>3. t[r] = told[r] /\ \A k \in (r + 1)..(i - 1) : t[k] = told[k]
      BY <1>1, <1>2, <2>2
    <2>4. Last(e.op, r, i)
      BY <2>1, <2>2, <2>3 DEF LastIs
    <2> HIDE DEF Last
    <2> QED
      BY <2>1, <2>2, <2>3, <2>4
  <1>5. ASSUME NEW i \in DOMAIN told
        PROVE  /\ t[i].kind = "receipt" => WasSent(t[i].op, t[i])
               /\ t[i].kind = "online" => Follows(t[i], i)
    <2>1. i \in 1..(n + 1) /\ t[i] = told[i]
      BY <1>1, <1>2
    <2>2. told[i].kind = "receipt" => WasSent(told[i].op, told[i])
      BY DEF ToldSound
    <2>3. told[i].kind = "online" =>
              \E r \in 1..n :
                  /\ LastIs(told[i].op, r, i)
                  /\ told[r].attempt = told[i].attempt /\ told[i].host \in told[r].accepted
                  /\ \A k \in (r + 1)..(i - 1) : told[k] # told[i]
      BY Zenon DEF ToldSound, n
    <2> HIDE DEF Follows
    <2> QED
      BY <1>4, <2>1, <2>2, <2>3
  <1>6. ASSUME x.kind = "online" PROVE Follows(x, n + 1)
    <2> DEFINE p == n + 1
    <2>1. p \in 1..(n + 1) /\ p - 1 = n
      BY <1>1
    <2>2. \E r \in 1..n :
                  /\ LastIs(x.op, r, p)
                  /\ told[r].attempt = x.attempt /\ x.host \in told[r].accepted
                  /\ \A k \in (r + 1)..n : told[k] # x
      BY <1>6 DEF n
    <2> HIDE DEF p, Follows
    <2>3. Follows(x, p)
      BY <1>4, <2>1, <2>2
    <2> QED
      BY <2>3 DEF p
  <1>7. ASSUME NEW i \in DOMAIN t
        PROVE  /\ t[i].kind = "receipt" => WasSent(t[i].op, t[i])
               /\ t[i].kind = "online" => Follows(t[i], i)
    <2> HIDE DEF Follows
    <2> QED
      BY <1>2, <1>5, <1>6
  <1>8. ASSUME NEW i \in DOMAIN told'
        PROVE  told'[i].kind = "receipt" => WasSent(told[i].op, told[i])'
    <2>1. told'[i].kind = "receipt" => WasSent(told'[i].op, told'[i])
      BY <1>7 DEF t
    <2> QED
      BY <2>1 DEF WasSent
  <1>9. ASSUME NEW i \in DOMAIN told', told'[i].kind = "online"
        PROVE  \E r \in 1..Len(told') :
                    /\ LastIs(told[i].op, r, i)'
                    /\ told'[r].attempt = told'[i].attempt /\ told'[i].host \in told'[r].accepted
                    /\ \A k \in (r + 1)..(i - 1) : told'[k] # told'[i]
    <2>1. Follows(t[i], i)
      BY <1>7, <1>9 DEF t
    <2> QED
      BY <2>1, Zenon DEF t, LastIs
  <1> QED
    BY <1>8, <1>9 DEF ToldSound

\* A remembered receipt is still the last told of its operation when nothing is told.
LEMMA ReceiptStays ==
    ASSUME told' = told, NEW o, NEW x, ReceiptTold(o, x), NEW y,
           y.attempt = x.attempt, y.accepted = x.accepted, y.online = x.online
    PROVE  ReceiptTold(o, y)'
  BY DEF ReceiptTold, LastIs

\* It also is when a reply of another operation, or an online event of its own that is
\* remembered, is told.
LEMMA ReceiptMore ==
    ASSUME told \in Seq(Replies), NEW e \in Replies, told' = Append(told, e),
           NEW o, NEW x, ReceiptTold(o, x), NEW y,
           y.attempt = x.attempt, y.accepted = x.accepted, x.online \subseteq y.online,
           ~(e.kind = "receipt" /\ e.op = o),
           e.kind = "online" /\ e.op = o => e.host \in y.online
    PROVE  ReceiptTold(o, y)'
  <1> DEFINE n == Len(told)
             t == told'
  <1>1. n \in Nat /\ DOMAIN told = 1..n
    BY LenProperties
  <1>2. Len(t) = n + 1 /\ t[n + 1] = e /\ \A k \in 1..n : t[k] = told[k]
    BY AppendProperties
  <1> HIDE DEF n, t
  <1>3. PICK r \in 1..n :
            /\ LastIs(o, r, n + 1)
            /\ told[r].attempt = x.attempt /\ told[r].accepted = x.accepted
            /\ \A k \in (r + 1)..n :
                  told[k].kind = "online" /\ told[k].op = o => told[k].host \in x.online
    BY DEF ReceiptTold, n
  <1>4. r \in 1..Len(t) /\ (Len(t) + 1) - 1 = n + 1 /\ (n + 1) - 1 = n
        /\ (\A k \in (r + 1)..(n + 1) : k \in (r + 1)..n \/ k = n + 1)
        /\ \A k \in (r + 1)..n : k \in 1..n
    BY <1>1, <1>2
  <1>5. told[r].kind = "receipt" /\ told[r].op = o
        /\ \A k \in (r + 1)..n : ~(told[k].kind = "receipt" /\ told[k].op = o)
    BY <1>3, <1>4 DEF LastIs
  <1>6. /\ r \in 1..((Len(t) + 1) - 1) /\ t[r].kind = "receipt" /\ t[r].op = o
        /\ \A k \in (r + 1)..((Len(t) + 1) - 1) : ~(t[k].kind = "receipt" /\ t[k].op = o)
    BY <1>1, <1>2, <1>4, <1>5
  <1>7. LastIs(o, r, Len(told) + 1)'
    BY <1>6 DEF LastIs, t
  <1>8. \A k \in (r + 1)..Len(t) : t[k].kind = "online" /\ t[k].op = o => t[k].host \in y.online
    BY <1>1, <1>2, <1>3, <1>4
  <1>9. t[r].attempt = y.attempt /\ t[r].accepted = y.accepted
    BY <1>2, <1>3
  <1> QED
    BY <1>4, <1>7, <1>8, <1>9 DEF ReceiptTold, t

\* A receipt that is told is the last one of its operation.
LEMMA ReceiptFirst ==
    ASSUME told \in Seq(Replies), NEW e \in Replies, told' = Append(told, e),
           e.kind = "receipt", NEW y, y.attempt = e.attempt, y.accepted = e.accepted
    PROVE  ReceiptTold(e.op, y)'
  <1> DEFINE n == Len(told)
             t == told'
  <1>1. n \in Nat
    BY LenProperties
  <1>2. Len(t) = n + 1 /\ t[n + 1] = e
    BY AppendProperties
  <1> HIDE DEF n, t
  <1> PICK o : o = e.op
    OBVIOUS
  <1> PICK r : r = n + 1
    OBVIOUS
  <1>3. r \in 1..Len(t) /\ r \in 1..((Len(t) + 1) - 1)
        /\ (\A k \in (r + 1)..Len(t) : FALSE) /\ \A k \in (r + 1)..((Len(t) + 1) - 1) : FALSE
    BY <1>1, <1>2
  <1>4. t[r] = e
    BY <1>2
  <1>5. t[r].kind = "receipt" /\ t[r].op = o /\ t[r].attempt = y.attempt /\ t[r].accepted = y.accepted
    BY <1>4
  <1>6. LastIs(o, r, Len(told) + 1)'
    <2>1. /\ r \in 1..((Len(t) + 1) - 1) /\ t[r].kind = "receipt" /\ t[r].op = o
          /\ \A k \in (r + 1)..((Len(t) + 1) - 1) : ~(t[k].kind = "receipt" /\ t[k].op = o)
      BY <1>3, <1>5
    <2> QED
      BY <2>1 DEF LastIs, t
  <1>7. ReceiptTold(o, y)'
    <2>1. \A k \in (r + 1)..Len(t) : t[k].kind = "online" /\ t[k].op = o => t[k].host \in y.online
      BY <1>3
    <2> QED
      BY <1>3, <1>5, <1>6, <2>1 DEF ReceiptTold, t
  <1> QED
    BY <1>7 DEF ReceiptTold, LastIs

-----------------------------------------------------------------------------
(* The steps *)

\* While nothing is sent, attempts stay in order.
LEMMA OrderStays ==
    ASSUME AttemptsInOrder, link'.out = link.out
    PROVE  AttemptsInOrder'
  BY DEF AttemptsInOrder

\* Forgetting what has expired keeps what is known of the rest.
LEMMA Forgotten ==
    ASSUME ActorAssumption, PeerTyped, now' = now, link'.out = link.out, NEW p, Tables(p), Remembered(p)', LatelySent(p)',
           NEW r, r = [o \in {q \in DOMAIN p : p[q].expires > now} |-> p[o]]
    PROVE  Tables(r) /\ Remembered(r)' /\ LatelySent(r)'
  <1>1. DOMAIN r = {q \in DOMAIN p : p[q].expires > now} /\ \A o \in DOMAIN r : r[o] = p[o]
    OBVIOUS
  <1>2. Tables(r)
    <2>1. \A o \in DOMAIN r : r[o] \in Operations
      BY <1>1 DEF Tables
    <2> QED
      BY <1>1, <2>1 DEF Tables
  <1>3. Remembered(r)'
    BY <1>1, Zenon DEF Remembered
  <1>4. LatelySent(r)'
    <2> SUFFICES ASSUME NEW i \in DOMAIN link'.out
                 PROVE  /\ link'.out[i].wireTime <= now'
                        /\ now' < link'.out[i].wireTime + PendingOpTTL =>
                              /\ link'.out[i].op \in DOMAIN r
                              /\ link'.out[i].attempt <= r[link'.out[i].op].attempt
                              /\ link'.out[i].wireTime + PendingOpTTL <= r[link'.out[i].op].expires
      BY DEF LatelySent
    <2>0. now \in Nat
      BY DEF PeerTyped
    <2> PICK q : q = link'.out[i]
      OBVIOUS
    <2>1. /\ q.wireTime <= now
          /\ now < q.wireTime + PendingOpTTL =>
                /\ q.op \in DOMAIN p /\ q.attempt <= p[q.op].attempt
                /\ q.wireTime + PendingOpTTL <= p[q.op].expires
      BY DEF LatelySent
    <2>2. ASSUME now < q.wireTime + PendingOpTTL PROVE p[q.op].expires > now
      <3>1. q.wireTime \in Nat
        <4>1. link.out \in Seq(Sendable) /\ i \in DOMAIN link.out /\ q = link.out[i]
          BY DEF PeerTyped, Links
        <4>2. q \in Sendable
          BY <4>1, ElementOfSeq, LenProperties
        <4> QED
          BY <4>2 DEF Sendable
      <3>2. p[q.op].expires \in Nat
        BY <2>1, <2>2 DEF Tables, Operations
      <3>3. PendingOpTTL \in Nat
        BY DEF ActorAssumption
      <3> QED
        BY <2>0, <2>1, <2>2, <3>1, <3>2, <3>3
    <2> QED
      BY <1>1, <2>1, <2>2
  <1> QED
    BY <1>2, <1>3, <1>4

\* A step after which there is no connection.
LEMMA Leaves ==
    ASSUME PeerInv, PeerTyped', ~Connected', link'.out = link.out, told' = told, PhaseHeard'
    PROVE  PeerInv'
  <1>1. ToldSound'
    BY SoundStays DEF PeerInv
  <1>2. AttemptsInOrder'
    BY OrderStays DEF PeerInv
  <1> QED
    BY <1>1, <1>2 DEF PeerInv

\* The loop goes round with the table p, less what has expired.
LEMMA GoesRound ==
    ASSUME ActorAssumption, PeerInv, Connected, NEW p, Tables(p), Remembered(p)', LatelySent(p)', NextRound(p),
           UNCHANGED <<now, commands, view>>, (link' = [link EXCEPT !.in = Tail(@)] /\ link.in # <<>>) \/ link' = link,
           ToldSound', events' \in Seq(Remarks \cup Replies), Len(events') <= EventCap,
           told' \in Seq(Replies), LastHeard("connected")'
    PROVE  PeerInv'
  <1>0. PeerTyped /\ link.up /\ AttemptsInOrder
    BY DEF PeerInv
  <1>1. link' \in Links /\ link'.out = link.out /\ link'.up = link.up
    <2>1. link.in \in Seq(Receivable) /\ (link.in # <<>> => Tail(link.in) \in Seq(Receivable))
      BY <1>0, HeadTaken DEF PeerTyped, Links
    <2> QED
      BY <1>0, <2>1 DEF PeerTyped, Links
  <1>2. Tables(pending') /\ Remembered(pending)' /\ LatelySent(pending)'
    <2> PICK r : r = pending'
      OBVIOUS
    <2>1. r = [o \in {q \in DOMAIN p : p[q].expires > now} |-> p[o]]
      BY DEF NextRound
    <2>2. Tables(r) /\ Remembered(r)' /\ LatelySent(r)'
      BY <1>0, <1>1, <2>1, Forgotten
    <2> QED
      BY <2>2, Zenon DEF Remembered, LatelySent
  <1>3. actor' \in Actors
        /\ actor'.pc = "drain"
    BY <1>0 DEF PeerTyped, NextRound, Goto, Actors, ActorPlaces
  <1>4. PeerTyped'
    <2>1. Tables(pending)'
      BY <1>2 DEF Tables
    <2> QED
      BY <1>0, <1>1, <1>3, <2>1 DEF PeerTyped
  <1>5. AttemptsInOrder'
    BY <1>0, <1>1, OrderStays
  <1>6. PhaseHeard'
    BY <1>3 DEF PhaseHeard, Connected
  <1> QED
    BY <1>0, <1>1, <1>2, <1>4, <1>5, <1>6 DEF PeerInv

\* Knowing the same of the same requests.
LEMMA LatelyStays ==
    ASSUME LatelySent(pending), UNCHANGED <<now, link.out>>, NEW p, DOMAIN p = DOMAIN pending,
           \A o \in DOMAIN p : p[o].attempt = pending[o].attempt /\ p[o].expires = pending[o].expires
    PROVE  LatelySent(p)'
  BY DEF LatelySent

\* The actor moves to a place of client_actor.
LEMMA ActorTyped ==
    ASSUME PeerTyped, NEW pc \in ActorPlaces,
           Goto(pc)
    PROVE  /\ actor' \in Actors
           /\ actor'.pc = pc
  BY DEF PeerTyped, Goto, Actors, ActorPlaces

\* Closing the connection keeps what was sent on it.
LEMMA LinkTyped ==
    ASSUME PeerTyped, CloseLink \/ link' = link
    PROVE  link' \in Links /\ link'.out = link.out
  <1>1. link \in Links /\ <<>> \in Seq(Receivable)
    BY DEF PeerTyped
  <1> QED
    BY <1>1 DEF CloseLink, Links

\* reject_server_event: an answer to nothing ends the connection and tells no reply.
LEMMA Rejected ==
    ASSUME ActorAssumption, PeerInv, Reject, told' = Told, UNCHANGED <<now, commands, view>>
    PROVE  PeerInv'
  <1>0. PeerTyped
    BY DEF PeerInv
  <1>1. Note("error") \in Remarks \cup Replies /\ Note("error").kind = "error"
    BY DEF Note, Remarks
  <1>2. /\ events' \in Seq(Remarks \cup Replies) /\ Len(events') <= EventCap
        /\ told' \in Seq(Replies) /\ told' = told
    BY <1>0, <1>1, Posted DEF Reject
  <1>3. actor' \in Actors
        /\ actor'.pc = "lost"
    BY <1>0, ActorTyped DEF Reject, Actors, ActorPlaces
  <1>4. link' \in Links /\ link'.out = link.out
    BY <1>0, LinkTyped DEF Reject
  <1>5. PeerTyped'
    BY <1>0, <1>2, <1>3, <1>4 DEF PeerTyped, Reject, Tables
  <1>6. ~Connected' /\ PhaseHeard'
    BY <1>3 DEF Connected, PhaseHeard
  <1> QED
    BY <1>2, <1>4, <1>5, <1>6, Leaves

\* A repeated receipt or online event is not told again; at most its deadline counts.
LEMMA Ignored ==
    ASSUME ActorAssumption, PeerInv, Connected, link.in # <<>>, NEW p, Ignore(p), told' = Told,
           UNCHANGED <<now, commands, view>>, Tables(p), DOMAIN p = DOMAIN pending,
           \A o \in DOMAIN p :
              /\ p[o].attempt = pending[o].attempt /\ p[o].expires = pending[o].expires
              /\ p[o].seen = pending[o].seen /\ p[o].hosts = pending[o].hosts
              /\ p[o].ticket = pending[o].ticket /\ p[o].accepted = pending[o].accepted
              /\ p[o].online = pending[o].online
    PROVE  PeerInv'
  <1>0. PeerTyped /\ ToldSound /\ Remembered(pending) /\ LatelySent(pending) /\ LastHeard("connected")
    BY DEF PeerInv, PhaseHeard
  <1>1. told' = told /\ events' = events
    BY Unposted DEF Ignore
  <1>2. link' = [link EXCEPT !.in = Tail(@)] /\ link'.out = link.out
    BY <1>0 DEF Ignore, PeerTyped
  <1>3. LatelySent(p)'
    BY <1>0, <1>2, LatelyStays
  <1>4. Remembered(p)'
    <2> SUFFICES ASSUME NEW o \in DOMAIN p PROVE WasSent(o, p[o])' /\ (p[o].seen => ReceiptTold(o, p[o])')
      BY DEF Remembered
    <2> PICK x : x = pending[o]
      OBVIOUS
    <2> PICK y : y = p[o]
      OBVIOUS
    <2>1. WasSent(o, x) /\ (x.seen => ReceiptTold(o, x))
      BY <1>0 DEF Remembered
    <2>2. WasSent(o, y)'
      BY <1>2, <2>1 DEF WasSent
    <2>3. y.seen => ReceiptTold(o, y)'
      BY <1>1, <2>1, ReceiptStays
    <2> QED
      BY <2>2, <2>3
  <1>5. ToldSound'
    BY <1>0, <1>1, <1>2, SoundStays
  <1>6. LastHeard("connected")'
    BY <1>0, <1>1, HeardSame
  <1> QED
    <2>1. /\ events' \in Seq(Remarks \cup Replies) /\ Len(events') <= EventCap /\ told' \in Seq(Replies)
      BY <1>0, <1>1 DEF PeerTyped
    <2>2. NextRound(p)
      BY DEF Ignore
    <2> QED
      BY <1>2, <1>3, <1>4, <1>5, <1>6, <2>1, <2>2, GoesRound

\* A reply of the peer that is told: with no room for it the connection ends.
LEMMA Delivered ==
    ASSUME ActorAssumption, PeerInv, Connected, link.in # <<>>, NEW e \in Remarks \cup Replies,
           e.kind \notin ConnectionEvents, NEW p, Deliver(e, p), told' = Told,
           UNCHANGED <<now, commands, view>>, Tables(p), DOMAIN p = DOMAIN pending,
           \A o \in DOMAIN p : p[o].attempt = pending[o].attempt /\ p[o].expires = pending[o].expires,
           Room => ToldSound' /\ Remembered(p)'
    PROVE  PeerInv'
  <1>0. PeerTyped /\ LatelySent(pending) /\ LastHeard("connected")
    BY DEF PeerInv, PhaseHeard
  <1>1. Post(e)
    BY DEF Deliver
  <1>2. /\ events' \in Seq(Remarks \cup Replies) /\ Len(events') <= EventCap
        /\ told' \in Seq(Replies)
        /\ Room => events' = Append(events, e)
        /\ ~Room => told' = told
    BY <1>0, <1>1, Posted
  <1>3. CASE Room
    <2>1. NextRound(p) /\ link' = [link EXCEPT !.in = Tail(@)]
      BY <1>3 DEF Deliver
    <2>2. link'.out = link.out
      BY <1>0, <2>1 DEF PeerTyped
    <2>3. LatelySent(p)'
      BY <1>0, <2>2, LatelyStays
    <2>4. LastHeard("connected")'
      BY <1>0, <1>2, <1>3, HeardKept DEF PeerTyped
    <2> QED
      BY <1>2, <1>3, <2>1, <2>3, <2>4, GoesRound
  <1>4. CASE ~Room
    <2>1. Goto("lost") /\ pending' = p /\ CloseLink
      BY <1>4 DEF Deliver
    <2>2. actor' \in Actors
          /\ actor'.pc = "lost"
      BY <1>0, <2>1, ActorTyped DEF Actors, ActorPlaces
    <2>3. link' \in Links /\ link'.out = link.out
      BY <1>0, <2>1, LinkTyped
    <2>4. PeerTyped'
      BY <1>0, <1>2, <2>1, <2>2, <2>3 DEF PeerTyped, Tables
    <2>5. ~Connected' /\ PhaseHeard'
      BY <2>2 DEF Connected, PhaseHeard
    <2> QED
      BY <1>2, <1>4, <2>3, <2>4, <2>5, Leaves
  <1> QED
    BY <1>3, <1>4

-----------------------------------------------------------------------------
(* What the peer says *)

\* handle_server_event, CommandExecuted: a receipt is told once, of a request's attempt,
\* targets and ticket.
LEMMA ReceiptHandled ==
    ASSUME ActorAssumption, PeerInv, Connected, link.in # <<>>, NEW m \in Receivable, m.kind = "executed",
           HandleReceipt(m), told' = Told, UNCHANGED <<now, commands, view>>
    PROVE  PeerInv'
  <1>0. PeerTyped /\ ToldSound /\ Remembered(pending) /\ Tables(pending)
    BY DEF PeerInv, PeerTyped
  <1>1. m \in [kind : {"executed"}, op : Ops, attempt : {1, 2}, ticket : Nat, hosts : SUBSET Hosts,
               accepted : SUBSET Hosts, deadline : Nat, wireTime : Nat] /\ m.accepted \subseteq m.hosts
    BY DEF Receivable
  <1>2. CASE ~ReceiptValid(m)
    BY <1>2, Rejected DEF HandleReceipt
  <1>3. CASE ReceiptValid(m)
    <2> PICK q : q = pending
      OBVIOUS
    <2> PICK o : o = m.op
      OBVIOUS
    <2> PICK x : x = q[o]
      OBVIOUS
    <2>0. /\ o \in DOMAIN q /\ m.attempt = x.attempt /\ (m.attempt = 2 => m.ticket = x.ticket)
          /\ m.hosts = x.hosts
      BY <1>3 DEF ReceiptValid
    <2>1. q \in [DOMAIN q -> Operations] /\ DOMAIN q \subseteq Ops /\ x \in Operations
      BY <1>0, <2>0 DEF Tables
    <2>2. x \in [hosts : SUBSET Hosts, attempt : {1, 2}, ticket : Nat, seen : BOOLEAN,
                 accepted : SUBSET Hosts, online : SUBSET Hosts, deadline : Nat, expires : Nat]
          /\ x.accepted \subseteq x.hosts
      BY <2>1 DEF Operations
    <2>3. CASE x.seen
      <3> DEFINE y == [x EXCEPT !.deadline = m.deadline]
                 p == [q EXCEPT ![o] = y]
      <3>1. Ignore(p)
        <4>1. Ignore([pending EXCEPT ![m.op].deadline = m.deadline])
          BY <1>3, <2>3 DEF HandleReceipt
        <4>2. [pending EXCEPT ![m.op].deadline = m.deadline] = p
          OBVIOUS
        <4> HIDE DEF p
        <4> QED
          BY <4>1, <4>2
      <3>2. /\ y \in Operations /\ y.attempt = x.attempt /\ y.expires = x.expires /\ y.seen = x.seen
            /\ y.hosts = x.hosts /\ y.ticket = x.ticket /\ y.accepted = x.accepted /\ y.online = x.online
        BY <1>1, <2>2 DEF Operations
      <3> HIDE DEF y
      <3>3. DOMAIN p = DOMAIN q /\ \A z \in DOMAIN q : p[z] = IF z = o THEN y ELSE q[z]
        OBVIOUS
      <3> HIDE DEF p
      <3>4. p \in [DOMAIN q -> Operations]
        <4>1. \A z \in DOMAIN q : p[z] \in Operations
          BY <2>1, <3>2, <3>3
        <4>2. p = [z \in DOMAIN q |-> p[z]]
          BY <3>3 DEF p
        <4> QED
          BY <4>1, <4>2
      <3>5. Tables(p)
        BY <2>1, <3>3, <3>4 DEF Tables
      <3>6. \A z \in DOMAIN p :
              /\ p[z].attempt = pending[z].attempt /\ p[z].expires = pending[z].expires
              /\ p[z].seen = pending[z].seen /\ p[z].hosts = pending[z].hosts
              /\ p[z].ticket = pending[z].ticket /\ p[z].accepted = pending[z].accepted
              /\ p[z].online = pending[z].online
        BY <3>2, <3>3
      <3>7. DOMAIN p = DOMAIN pending
        BY <3>3
      <3> QED
        BY <3>1, <3>5, <3>6, <3>7, Ignored
    <2>4. CASE ~x.seen
      <3> DEFINE y == [x EXCEPT !.ticket = IF m.attempt = 1 THEN m.ticket ELSE @,
                                !.accepted = m.accepted, !.seen = TRUE, !.deadline = m.deadline]
                 p == [q EXCEPT ![o] = y]
                 e == ReceiptEvent(m)
      <3>1. Deliver(e, p)
        <4>1. Deliver(ReceiptEvent(m),
                 [pending EXCEPT ![m.op] =
                     [x EXCEPT !.ticket = IF m.attempt = 1 THEN m.ticket ELSE @,
                               !.accepted = m.accepted, !.seen = TRUE,
                               !.deadline = m.deadline]])
          BY <1>3, <2>4 DEF HandleReceipt
        <4>2. [pending EXCEPT ![m.op] =
                     [x EXCEPT !.ticket = IF m.attempt = 1 THEN m.ticket ELSE @,
                               !.accepted = m.accepted, !.seen = TRUE,
                               !.deadline = m.deadline]] = p
          OBVIOUS
        <4> HIDE DEF p, e
        <4> QED
          BY <4>1, <4>2 DEF e
      <3>2. /\ y \in Operations /\ y.attempt = x.attempt /\ y.expires = x.expires
            /\ y.hosts = x.hosts /\ (x.attempt = 2 => y.ticket = x.ticket) /\ y.accepted = m.accepted
        <4> DEFINE t == IF m.attempt = 1 THEN m.ticket ELSE x.ticket
        <4>1. t \in Nat /\ (x.attempt = 2 => t = x.ticket)
          BY <1>1, <2>0, <2>2
        <4>e. y = [x EXCEPT !.ticket = t, !.accepted = m.accepted, !.seen = TRUE, !.deadline = m.deadline]
          BY Zenon
        <4> HIDE DEF t, y
        <4>2. y = [hosts |-> x.hosts, attempt |-> x.attempt, ticket |-> t, seen |-> TRUE, accepted |-> m.accepted,
                   online |-> x.online, deadline |-> m.deadline, expires |-> x.expires]
          BY <2>2, <4>e
        <4>3. y \in [hosts : SUBSET Hosts, attempt : {1, 2}, ticket : Nat, seen : BOOLEAN,
                     accepted : SUBSET Hosts, online : SUBSET Hosts, deadline : Nat, expires : Nat]
          BY <1>1, <2>2, <4>1, <4>2
        <4>4. y.accepted \subseteq y.hosts
          BY <1>1, <2>0, <4>2
        <4>5. y \in Operations
          BY <4>3, <4>4 DEF Operations
        <4> QED
          BY <4>1, <4>2, <4>5
      <3> HIDE DEF y
      <3>3. DOMAIN p = DOMAIN q /\ \A z \in DOMAIN q : p[z] = IF z = o THEN y ELSE q[z]
        OBVIOUS
      <3>p. p = [z \in DOMAIN q |-> p[z]]
        OBVIOUS
      <3> HIDE DEF p
      <3>4. p \in [DOMAIN q -> Operations]
        <4>1. \A z \in DOMAIN q : p[z] \in Operations
          BY <2>1, <3>2, <3>3
        <4> QED
          BY <4>1, <3>p
      <3>5. Tables(p)
        BY <2>1, <3>3, <3>4 DEF Tables
      <3>6. \A z \in DOMAIN p : p[z].attempt = pending[z].attempt /\ p[z].expires = pending[z].expires
        BY <3>2, <3>3
      <3>7. DOMAIN p = DOMAIN pending
        BY <3>3
      <3>8. /\ e \in Replies /\ e.kind = "receipt" /\ e.op = o /\ e.attempt = m.attempt /\ e.hosts = m.hosts
            /\ e.ticket = m.ticket /\ e.accepted = m.accepted
        BY <1>1 DEF ReceiptEvent, Replies
      <3> HIDE DEF e
      <3>9. ASSUME Room PROVE ToldSound' /\ Remembered(p)'
        <4>1. Post(e) /\ link'.out = link.out
          BY <1>0, <3>1, <3>9 DEF Deliver, PeerTyped, Links
        <4>2. told' = Append(told, e) /\ told \in Seq(Replies)
          BY <1>0, <3>8, <3>9, <4>1, Posted DEF PeerTyped
        <4>3. WasSent(o, x)
          BY <1>0, <2>0 DEF Remembered
        <4>4. WasSent(e.op, e)
          BY <2>0, <3>8, <4>3 DEF WasSent
        <4>5. ToldSound'
          BY <1>0, <3>8, <4>1, <4>2, <4>4, SoundMore
        <4>6. ASSUME NEW z \in DOMAIN p PROVE WasSent(z, p[z])' /\ (p[z].seen => ReceiptTold(z, p[z])')
          <5>1. CASE z = o
            <6>1. p[z] = y
              BY <3>3, <5>1
            <6>2. WasSent(o, y)'
              BY <3>2, <4>1, <4>3 DEF WasSent
            <6>3. ReceiptTold(e.op, y)'
              BY <3>2, <3>8, <2>0, <4>2, ReceiptFirst
            <6> QED
              BY <3>8, <5>1, <6>1, <6>2, <6>3
          <5>2. CASE z # o
            <6> PICK w : w = q[z]
              OBVIOUS
            <6>1. p[z] = w /\ z \in DOMAIN pending /\ w = pending[z]
              BY <3>3, <5>2
            <6>2. WasSent(z, w) /\ (w.seen => ReceiptTold(z, w))
              BY <1>0, <6>1 DEF Remembered
            <6>3. WasSent(z, w)'
              BY <4>1, <6>2 DEF WasSent
            <6>4. ~(e.kind = "receipt" /\ e.op = z) /\ ~(e.kind = "online" /\ e.op = z)
              BY <3>8, <5>2
            <6>5. w.seen => ReceiptTold(z, w)'
              BY <3>8, <4>2, <6>2, <6>4, ReceiptMore
            <6> QED
              BY <6>1, <6>3, <6>5
          <5> QED
            BY <5>1, <5>2
        <4> QED
          BY <4>5, <4>6 DEF Remembered
      <3>10. e.kind \notin ConnectionEvents
        BY <3>8 DEF ConnectionEvents
      <3> QED
        BY <3>1, <3>5, <3>6, <3>7, <3>8, <3>9, <3>10, Delivered
    <2> QED
      BY <2>3, <2>4
  <1> QED
    BY <1>2, <1>3

\* handle_server_event, TargetOnline: a host is told online once, after the receipt that
\* accepted it.
LEMMA OnlineHandled ==
    ASSUME ActorAssumption, PeerInv, Connected, link.in # <<>>, NEW m \in Receivable, m.kind = "online",
           HandleOnline(m), told' = Told, UNCHANGED <<now, commands, view>>
    PROVE  PeerInv'
  <1>0. PeerTyped /\ ToldSound /\ Remembered(pending) /\ Tables(pending)
    BY DEF PeerInv, PeerTyped
  <1>1. m \in [kind : {"online"}, op : Ops, attempt : {1, 2}, host : Hosts, wireTime : Nat]
    BY DEF Receivable
  <1>2. CASE ~OnlineValid(m)
    BY <1>2, Rejected DEF HandleOnline
  <1>3. CASE OnlineValid(m)
    <2> PICK q : q = pending
      OBVIOUS
    <2> PICK o : o = m.op
      OBVIOUS
    <2> PICK x : x = q[o]
      OBVIOUS
    <2>0. o \in DOMAIN q /\ m.attempt = x.attempt /\ x.seen /\ m.host \in x.accepted
      BY <1>3 DEF OnlineValid
    <2>1. q \in [DOMAIN q -> Operations] /\ DOMAIN q \subseteq Ops /\ x \in Operations
      BY <1>0, <2>0 DEF Tables
    <2>2. x \in [hosts : SUBSET Hosts, attempt : {1, 2}, ticket : Nat, seen : BOOLEAN,
                 accepted : SUBSET Hosts, online : SUBSET Hosts, deadline : Nat, expires : Nat]
          /\ x.accepted \subseteq x.hosts
      BY <2>1 DEF Operations
    <2>3. CASE m.host \in x.online
      <3>1. Ignore(pending)
        BY <1>3, <2>3 DEF HandleOnline
      <3>2. \A z \in DOMAIN q :
              /\ q[z].attempt = pending[z].attempt /\ q[z].expires = pending[z].expires
              /\ q[z].seen = pending[z].seen /\ q[z].hosts = pending[z].hosts
              /\ q[z].ticket = pending[z].ticket /\ q[z].accepted = pending[z].accepted
              /\ q[z].online = pending[z].online
        OBVIOUS
      <3>3. Ignore(q) /\ Tables(q) /\ DOMAIN q = DOMAIN pending
        BY <1>0, <3>1
      <3> QED
        BY <3>2, <3>3, Ignored
    <2>4. CASE m.host \notin x.online
      <3> DEFINE y == [x EXCEPT !.online = @ \cup {m.host}]
                 p == [q EXCEPT ![o] = y]
                 e == OnlineEvent(m)
      <3>1. Deliver(e, p)
        <4>1. Deliver(OnlineEvent(m), [pending EXCEPT ![m.op].online = @ \cup {m.host}])
          BY <1>3, <2>4 DEF HandleOnline
        <4>2. [pending EXCEPT ![m.op].online = @ \cup {m.host}] = p
          OBVIOUS
        <4> HIDE DEF p, e
        <4> QED
          BY <4>1, <4>2 DEF e
      <3>2. /\ y \in Operations /\ y.attempt = x.attempt /\ y.expires = x.expires /\ y.seen = x.seen
            /\ y.hosts = x.hosts /\ y.ticket = x.ticket /\ y.accepted = x.accepted
            /\ y.online = x.online \cup {m.host}
        BY <1>1, <2>2 DEF Operations
      <3> HIDE DEF y
      <3>3. DOMAIN p = DOMAIN q /\ \A z \in DOMAIN q : p[z] = IF z = o THEN y ELSE q[z]
        OBVIOUS
      <3>p. p = [z \in DOMAIN q |-> p[z]]
        OBVIOUS
      <3> HIDE DEF p
      <3>4. p \in [DOMAIN q -> Operations]
        <4>1. \A z \in DOMAIN q : p[z] \in Operations
          BY <2>1, <3>2, <3>3
        <4> QED
          BY <4>1, <3>p
      <3>5. Tables(p)
        BY <2>1, <3>3, <3>4 DEF Tables
      <3>6. \A z \in DOMAIN p : p[z].attempt = pending[z].attempt /\ p[z].expires = pending[z].expires
        BY <3>2, <3>3
      <3>7. DOMAIN p = DOMAIN pending
        BY <3>3
      <3>8. e \in Replies /\ e.kind = "online" /\ e.op = o /\ e.attempt = m.attempt /\ e.host = m.host
        BY <1>1 DEF OnlineEvent, Replies
      <3> HIDE DEF e
      <3>9. ASSUME Room PROVE ToldSound' /\ Remembered(p)'
        <4>1. Post(e) /\ link'.out = link.out
          BY <1>0, <3>1, <3>9 DEF Deliver, PeerTyped, Links
        <4>2. told' = Append(told, e) /\ told \in Seq(Replies)
          BY <1>0, <3>8, <3>9, <4>1, Posted DEF PeerTyped
        <4>3. WasSent(o, x) /\ ReceiptTold(o, x)
          BY <1>0, <2>0 DEF Remembered
        <4>4. \E r \in 1..Len(told) :
                  /\ LastIs(e.op, r, Len(told) + 1)
                  /\ told[r].attempt = e.attempt /\ e.host \in told[r].accepted
                  /\ \A k \in (r + 1)..Len(told) : told[k] # e
          <5>1. PICK r \in 1..Len(told) :
                  /\ LastIs(o, r, Len(told) + 1)
                  /\ told[r].attempt = x.attempt /\ told[r].accepted = x.accepted
                  /\ \A k \in (r + 1)..Len(told) :
                        told[k].kind = "online" /\ told[k].op = o => told[k].host \in x.online
            BY <4>3 DEF ReceiptTold
          <5>2. \A k \in (r + 1)..Len(told) : told[k] # e
            BY <2>4, <3>8, <5>1
          <5> QED
            BY <2>0, <3>8, <5>1, <5>2
        <4>5. ToldSound'
          BY <1>0, <3>8, <4>1, <4>2, <4>4, SoundMore
        <4>6. ASSUME NEW z \in DOMAIN p PROVE WasSent(z, p[z])' /\ (p[z].seen => ReceiptTold(z, p[z])')
          <5>1. CASE z = o
            <6>1. p[z] = y
              BY <3>3, <5>1
            <6>2. WasSent(o, y)'
              BY <3>2, <4>1, <4>3 DEF WasSent
            <6>3. e.host \in y.online /\ x.online \subseteq y.online
              BY <3>2, <3>8
            <6>4. ReceiptTold(o, y)'
              BY <3>2, <3>8, <4>2, <4>3, <6>3, ReceiptMore
            <6> QED
              BY <5>1, <6>1, <6>2, <6>4
          <5>2. CASE z # o
            <6> PICK w : w = q[z]
              OBVIOUS
            <6>1. p[z] = w /\ z \in DOMAIN pending /\ w = pending[z]
              BY <3>3, <5>2
            <6>2. WasSent(z, w) /\ (w.seen => ReceiptTold(z, w))
              BY <1>0, <6>1 DEF Remembered
            <6>3. WasSent(z, w)'
              BY <4>1, <6>2 DEF WasSent
            <6>4. ~(e.kind = "receipt" /\ e.op = z) /\ ~(e.kind = "online" /\ e.op = z)
              BY <3>8, <5>2
            <6>5. w.seen => ReceiptTold(z, w)'
              BY <3>8, <4>2, <6>2, <6>4, ReceiptMore
            <6> QED
              BY <6>1, <6>3, <6>5
          <5> QED
            BY <5>1, <5>2
        <4> QED
          BY <4>5, <4>6 DEF Remembered
      <3>10. e.kind \notin ConnectionEvents
        BY <3>8 DEF ConnectionEvents
      <3> QED
        BY <3>1, <3>5, <3>6, <3>7, <3>8, <3>9, <3>10, Delivered
    <2> QED
      BY <2>3, <2>4
  <1> QED
    BY <1>2, <1>3

\* What is remembered outlives an event that is no reply.
LEMMA RememberedStays ==
    ASSUME Remembered(pending), told' = told, link'.out = link.out, NEW p, p = pending
    PROVE  Remembered(p)'
  <1> SUFFICES ASSUME NEW o \in DOMAIN p PROVE WasSent(o, p[o])' /\ (p[o].seen => ReceiptTold(o, p[o])')
    BY DEF Remembered
  <1> PICK x : x = p[o]
    OBVIOUS
  <1>1. WasSent(o, x) /\ (x.seen => ReceiptTold(o, x))
    BY DEF Remembered
  <1>2. WasSent(o, x)' /\ (x.seen => ReceiptTold(o, x)')
    BY <1>1, ReceiptStays DEF WasSent
  <1> QED
    BY <1>2

\* handle_server_event, Error: a refusal of a remembered operation is no reply.
LEMMA ErrorHandled ==
    ASSUME ActorAssumption, PeerInv, Connected, link.in # <<>>, NEW m, HandleError(m),
           told' = Told, UNCHANGED <<now, commands, view>>
    PROVE  PeerInv'
  <1>0. PeerTyped /\ ToldSound /\ Remembered(pending) /\ Tables(pending)
    BY DEF PeerInv, PeerTyped
  <1>1. CASE m.op \notin DOMAIN pending
    BY <1>1, Rejected DEF HandleError
  <1>2. CASE m.op \in DOMAIN pending
    <2> PICK e : e = Note("error")
      OBVIOUS
    <2> PICK q : q = pending
      OBVIOUS
    <2>1. e \in Remarks \cup Replies /\ e.kind = "error" /\ e.kind \notin ConnectionEvents
      BY DEF Note, Remarks, ConnectionEvents
    <2>2. Deliver(e, q)
      BY <1>2 DEF HandleError
    <2>3. ASSUME Room PROVE ToldSound' /\ Remembered(q)'
      <3>1. Post(e) /\ link'.out = link.out
        BY <1>0, <2>2, <2>3 DEF Deliver, PeerTyped, Links
      <3>2. told' = told
        BY <1>0, <2>1, <3>1, Posted
      <3> QED
        BY <1>0, <3>1, <3>2, SoundStays, RememberedStays
    <2>4. Tables(q) /\ DOMAIN q = DOMAIN pending
          /\ \A o \in DOMAIN q : q[o].attempt = pending[o].attempt /\ q[o].expires = pending[o].expires
      BY <1>0
    <2> QED
      BY <2>1, <2>2, <2>3, <2>4, Delivered
  <1> QED
    BY <1>1, <1>2

\* poll_server_envelope keeps the invariant, whatever the peer sends.
LEMMA PollMessageKeeps ==
    ASSUME ActorAssumption, PeerInv, PollMessage, told' = Told, UNCHANGED <<now, view>>
    PROVE  PeerInv'
  <1> PICK m : m = Head(link.in)
    OBVIOUS
  <1>1. link.in # <<>> /\ link.in \in Seq(Receivable) /\ UNCHANGED commands
    BY DEF PollMessage, PeerInv, PeerTyped, Links
  <1>2. m \in Receivable
    BY <1>1, HeadTaken
  <1>3. Connected
    BY DEF PollMessage, Connected
  <1>4. \/ Reject
        \/ m.kind = "executed" /\ HandleReceipt(m)
        \/ m.kind = "online" /\ HandleOnline(m)
        \/ m.kind = "error" /\ HandleError(m)
    BY Zenon DEF PollMessage
  <1> QED
    BY <1>1, <1>2, <1>3, <1>4, Rejected, ReceiptHandled, OnlineHandled, ErrorHandled

\* A round without a message only forgets what has expired.
LEMMA PollNothingKeeps ==
    ASSUME ActorAssumption, PeerInv, PollNothing, told' = Told, UNCHANGED <<now, view>>
    PROVE  PeerInv'
  <1>0. PeerTyped /\ ToldSound /\ Remembered(pending) /\ LatelySent(pending) /\ Tables(pending) /\ Connected
        /\ LastHeard("connected")
    BY DEF PeerInv, PeerTyped, PollNothing, Connected, PhaseHeard
  <1> PICK q : q = pending
    OBVIOUS
  <1>1. NextRound(q) /\ UNCHANGED <<commands, events, link>>
    BY DEF PollNothing
  <1>2. told' = told
    BY <1>1, Unposted
  <1>3. ToldSound' /\ Remembered(q)' /\ LastHeard("connected")'
    BY <1>0, <1>1, <1>2, SoundStays, RememberedStays, HeardSame
  <1>4. LatelySent(q)' /\ Tables(q)
    BY <1>0, <1>1 DEF LatelySent
  <1>5. events' \in Seq(Remarks \cup Replies) /\ Len(events') <= EventCap /\ told' \in Seq(Replies)
    BY <1>0, <1>1, <1>2 DEF PeerTyped
  <1> QED
    BY <1>0, <1>1, <1>3, <1>4, <1>5, GoesRound

-----------------------------------------------------------------------------
(* The driver's commands *)

\* A command taken off the queue is one the driver may queue.
LEMMA CommandTaken ==
    ASSUME PeerTyped, commands # <<>>
    PROVE  Tail(commands) \in Seq(Commands) /\ Head(commands) \in Commands
  BY HeadTaken DEF PeerTyped

\* A request that may be sent is no older than what was sent lately.
LEMMA RequestSent ==
    ASSUME ActorAssumption, PeerInv, Connected, NEW c \in Commands, c.kind = "wake", MaySend(c),
           UNCHANGED <<now, actor, events, view, told>>, commands' \in Seq(Commands),
           pending' = Put(pending, c.op, Sent(c)), link' = [link EXCEPT !.out = Append(@, Request(c))]
    PROVE  PeerInv'
  <1>0. PeerTyped /\ ToldSound /\ AttemptsInOrder /\ PhaseHeard /\ link.up /\ Remembered(pending) /\ LatelySent(pending)
    BY DEF PeerInv
  <1>1. /\ now \in Nat /\ link \in Links
        /\ pending \in [DOMAIN pending -> Operations] /\ DOMAIN pending \subseteq Ops
    BY <1>0 DEF PeerTyped, Tables
  <1>2. c.op \in Ops /\ c.hosts \in SUBSET Hosts /\ c.attempt \in {1, 2} /\ c.ticket \in Nat
    BY DEF Commands, Shutdown
  <1>3. PendingOpTTL \in Nat
    BY DEF ActorAssumption
  <1> PICK e : e = Request(c)
    OBVIOUS
  <1> PICK x : x = Sent(c)
    OBVIOUS
  <1>4. /\ e \in Sendable /\ e.op = c.op /\ e.hosts = c.hosts /\ e.attempt = c.attempt /\ e.ticket = c.ticket
        /\ e.wireTime = now
    BY <1>1, <1>2 DEF Request, Sendable
  <1>5. /\ x \in Operations /\ x.hosts = c.hosts /\ x.attempt = c.attempt /\ x.ticket = c.ticket /\ x.seen = FALSE
        /\ x.expires = now + PendingOpTTL
    BY <1>1, <1>2, <1>3 DEF Sent, Operations
  <1> DEFINE p == pending'
             s == link'.out
             n == Len(link.out) + 1
  <1>6. DOMAIN p = DOMAIN pending \cup {c.op} /\ \A o \in DOMAIN p : p[o] = IF o = c.op THEN x ELSE pending[o]
    BY DEF Put
  <1>7. p \in [DOMAIN p -> Operations]
    <2>1. \A o \in DOMAIN p : p[o] \in Operations
      BY <1>1, <1>5, <1>6
    <2>2. p = [o \in DOMAIN p |-> p[o]]
      BY DEF Put
    <2> QED
      BY <2>1, <2>2
  <1>8. /\ s \in Seq(Sendable) /\ DOMAIN s = DOMAIN link.out \cup {n} /\ n \notin DOMAIN link.out /\ s[n] = e
        /\ \A k \in DOMAIN link.out : s[k] = link.out[k]
    <2>1. s = Append(link.out, e) /\ link.out \in Seq(Sendable)
      BY <1>1 DEF Links
    <2> QED
      BY <1>4, <2>1, Added
  <1>9. Len(link.out) \in Nat /\ DOMAIN link.out = 1..Len(link.out)
    BY <1>1, LenProperties
  <1>10. \A i \in DOMAIN link.out : link.out[i].wireTime \in Nat /\ link.out[i].attempt \in {1, 2} /\ link.out[i].op \in Ops
    <2>1. \A i \in DOMAIN link.out : link.out[i] \in Sendable
      BY <1>1, <1>9, ElementOfSeq DEF Links
    <2> QED
      BY <2>1 DEF Sendable
  <1>11. link' \in Links /\ link'.up
    BY <1>0, <1>1, <1>8 DEF Links
  <1>12. PeerTyped'
    <2>1. Tables(pending)'
      BY <1>1, <1>2, <1>6, <1>7 DEF Tables
    <2> QED
      BY <1>0, <1>11, <2>1 DEF PeerTyped
  <1> HIDE DEF p, s, n
  <1>13. ToldSound'
    <2>1. link'.out = Append(link.out, e)
      BY <1>1
    <2> QED
      BY <1>0, <1>4, <2>1, SoundStays
  <1>14. \A i \in DOMAIN link.out :
            /\ link.out[i].wireTime <= now
            /\ now < link.out[i].wireTime + PendingOpTTL =>
                  /\ link.out[i].op \in DOMAIN pending
                  /\ link.out[i].attempt <= pending[link.out[i].op].attempt
                  /\ link.out[i].wireTime + PendingOpTTL <= pending[link.out[i].op].expires
    BY <1>0 DEF LatelySent
  <1>15. c.op \in DOMAIN pending => pending[c.op].attempt <= c.attempt /\ pending[c.op].attempt \in {1, 2}
    <2>1. c.op \in DOMAIN pending => pending[c.op].attempt \in {1, 2}
      BY <1>1 DEF Operations
    <2> QED
      BY <1>2, <2>1 DEF MaySend
  <1>16. ASSUME NEW i \in DOMAIN link.out, now < link.out[i].wireTime + PendingOpTTL, link.out[i].op = c.op
         PROVE  link.out[i].attempt <= c.attempt
    <2> PICK a : a = link.out[i].attempt
      OBVIOUS
    <2> PICK b : b = pending[c.op].attempt
      OBVIOUS
    <2>1. a <= b /\ b <= c.attempt /\ a \in {1, 2} /\ b \in {1, 2}
      BY <1>10, <1>14, <1>15, <1>16
    <2> QED
      BY <1>2, <2>1
  <1>17. AttemptsInOrder'
    <2> SUFFICES ASSUME NEW i \in DOMAIN s, NEW j \in DOMAIN s, i < j, s[i].op = s[j].op,
                        s[j].wireTime < s[i].wireTime + PendingOpTTL
                 PROVE  s[i].attempt <= s[j].attempt
      BY DEF AttemptsInOrder, s
    <2>1. CASE i \in DOMAIN link.out /\ j \in DOMAIN link.out
      BY <1>0, <1>8, <2>1 DEF AttemptsInOrder
    <2>2. CASE i \in DOMAIN link.out /\ j = n
      <3>1. now < link.out[i].wireTime + PendingOpTTL /\ link.out[i].op = c.op
        BY <1>4, <1>8, <2>2
      <3> QED
        BY <1>4, <1>8, <1>16, <2>2, <3>1
    <2>3. CASE i = n
      BY <1>8, <1>9, <2>3 DEF n
    <2> QED
      BY <1>8, <2>1, <2>2, <2>3
  <1>18. PhaseHeard'
    BY <1>0 DEF PhaseHeard, Connected, LastHeard
  <1>19. Remembered(pending)'
    <2> PICK r : r = p
      OBVIOUS
    <2>1. ASSUME NEW o \in DOMAIN r, o = c.op PROVE WasSent(o, r[o])' /\ (r[o].seen => ReceiptTold(o, r[o])')
      <3>1. s[n].op = o /\ s[n].attempt = x.attempt /\ s[n].hosts = x.hosts /\ s[n].ticket = x.ticket /\ n \in DOMAIN s
        BY <1>4, <1>5, <1>8, <2>1
      <3>2. WasSent(o, x)'
        BY <3>1 DEF WasSent, s
      <3>3. r[o] = x /\ ~x.seen
        BY <1>5, <1>6, <2>1
      <3> QED
        BY <3>2, <3>3
    <2>2. ASSUME NEW o \in DOMAIN r, o # c.op PROVE WasSent(o, r[o])' /\ (r[o].seen => ReceiptTold(o, r[o])')
      <3> PICK y : y = r[o]
        OBVIOUS
      <3>1. o \in DOMAIN pending /\ y = pending[o]
        BY <1>6, <2>2
      <3>2. WasSent(o, y) /\ (y.seen => ReceiptTold(o, y))
        BY <1>0, <3>1 DEF Remembered
      <3>3. WasSent(o, y)'
        BY <1>8, <3>2 DEF WasSent, s
      <3>4. y.seen => ReceiptTold(o, y)'
        BY <3>2, ReceiptStays
      <3> QED
        BY <3>3, <3>4
    <2>3. Remembered(r)'
      BY <2>1, <2>2 DEF Remembered
    <2> QED
      BY <2>3, Zenon DEF Remembered, p
  <1>20. LatelySent(pending)'
    <2> SUFFICES ASSUME NEW i \in DOMAIN s
                 PROVE  /\ s[i].wireTime <= now
                        /\ now < s[i].wireTime + PendingOpTTL =>
                              /\ s[i].op \in DOMAIN p /\ s[i].attempt <= p[s[i].op].attempt
                              /\ s[i].wireTime + PendingOpTTL <= p[s[i].op].expires
      BY Zenon DEF LatelySent, s, p
    <2>1. CASE i = n
      <3>1. s[i].wireTime = now /\ s[i].op = c.op /\ s[i].attempt = c.attempt /\ p[c.op] = x /\ c.op \in DOMAIN p
        BY <1>4, <1>6, <1>8, <2>1
      <3> QED
        BY <1>1, <1>2, <1>3, <1>5, <3>1
    <2>2. CASE i \in DOMAIN link.out /\ link.out[i].op = c.op
      <3>1. s[i] = link.out[i] /\ p[c.op] = x /\ c.op \in DOMAIN p
        BY <1>6, <1>8, <2>2
      <3>2. link.out[i].wireTime <= now /\ link.out[i].wireTime \in Nat
        BY <1>10, <1>14, <2>2
      <3>3. link.out[i].wireTime + PendingOpTTL <= now + PendingOpTTL
        BY <1>1, <1>3, <3>2
      <3> QED
        BY <1>5, <1>16, <2>2, <3>1, <3>2, <3>3
    <2>3. CASE i \in DOMAIN link.out /\ link.out[i].op # c.op
      <3>1. s[i] = link.out[i]
        BY <1>8, <2>3
      <3>2. s[i].op \in DOMAIN pending => s[i].op \in DOMAIN p /\ p[s[i].op] = pending[s[i].op]
        BY <1>6, <2>3, <3>1
      <3> QED
        BY <1>14, <2>3, <3>1, <3>2
    <2> QED
      BY <1>8, <2>1, <2>2, <2>3
  <1> QED
    BY <1>11, <1>12, <1>13, <1>17, <1>18, <1>19, <1>20 DEF PeerInv

\* One command of the drain loop keeps the invariant: a shutdown, a wake that is sent, one
\* that is refused and one whose send fails (send_wake).
LEMMA TakeCommandKeeps ==
    ASSUME ActorAssumption, PeerInv, TakeCommand, told' = Told, UNCHANGED <<now, view>>
    PROVE  PeerInv'
  <1>0. PeerTyped /\ ToldSound /\ AttemptsInOrder /\ link.up /\ Remembered(pending) /\ LatelySent(pending) /\ Connected
        /\ LastHeard("connected")
    BY DEF PeerInv, TakeCommand, Connected, PhaseHeard
  <1> PICK c : c = Head(commands)
    OBVIOUS
  <1>1. commands # <<>> /\ commands' = Tail(commands) /\ actor.pc = "drain"
    BY DEF TakeCommand
  <1>2. c \in Commands /\ commands' \in Seq(Commands)
    BY <1>0, <1>1, CommandTaken
  <1>3. \/ /\ Goto("exit") \/ Goto("lost")
           /\ CloseLink /\ UNCHANGED <<events, pending>>
        \/ /\ Post(Note("error")) /\ UNCHANGED pending
           /\ IF Room THEN UNCHANGED <<actor, link>> ELSE Goto("exit") /\ CloseLink
        \/ /\ c.kind = "wake" /\ MaySend(c)
           /\ pending' = Put(pending, c.op, Sent(c))
           /\ link' = [link EXCEPT !.out = Append(@, Request(c))]
           /\ UNCHANGED <<actor, events>>
    BY <1>0, Zenon DEF TakeCommand
  <1>4. CASE (Goto("exit") \/ Goto("lost")) /\ CloseLink /\ UNCHANGED <<events, pending>>
    <2>1. told' = told
      BY <1>4, Unposted
    <2>2. actor' \in Actors
          /\ actor'.pc \in {"exit", "lost"}
      BY <1>0, <1>4 DEF PeerTyped, Goto, Actors, ActorPlaces
    <2>3. link' \in Links /\ link'.out = link.out
      BY <1>0, <1>4, LinkTyped
    <2>4. PeerTyped'
      BY <1>0, <1>2, <1>4, <2>1, <2>2, <2>3 DEF PeerTyped, Tables
    <2>5. ~Connected' /\ PhaseHeard'
      BY <2>2 DEF Connected, PhaseHeard
    <2> QED
      BY <2>1, <2>3, <2>4, <2>5, Leaves
  <1>5. CASE /\ Post(Note("error")) /\ UNCHANGED pending
             /\ IF Room THEN UNCHANGED <<actor, link>> ELSE Goto("exit") /\ CloseLink
    <2> PICK e : e = Note("error")
      OBVIOUS
    <2>1. e \in Remarks \cup Replies /\ e.kind = "error" /\ e.kind \notin ConnectionEvents
      BY DEF Note, Remarks, ConnectionEvents
    <2>2. /\ events' \in Seq(Remarks \cup Replies) /\ Len(events') <= EventCap
          /\ told' \in Seq(Replies) /\ told' = told
          /\ Room => events' = Append(events, e)
      BY <1>0, <1>5, <2>1, Posted
    <2>3. CASE Room
      <3>0. UNCHANGED <<actor, link, pending>>
        BY <1>5, <2>3
      <3>1. PeerTyped'
        BY <1>0, <1>2, <2>2, <3>0 DEF PeerTyped, Tables
      <3>2. LastHeard("connected")'
        BY <1>0, <2>1, <2>2, <2>3, HeardKept DEF PeerTyped
      <3>3. PhaseHeard'
        BY <1>1, <3>0, <3>2 DEF PhaseHeard
      <3>4. ToldSound' /\ AttemptsInOrder'
        BY <1>0, <2>2, <3>0, SoundStays, OrderStays
      <3>5. Remembered(pending)' /\ LatelySent(pending)'
        <4> PICK q : q = pending
          OBVIOUS
        <4>1. Remembered(q)' /\ LatelySent(q)'
          BY <1>0, <2>2, <3>0, RememberedStays DEF LatelySent
        <4> QED
          BY <3>0, <4>1 DEF Remembered, LatelySent
      <3> QED
        BY <1>0, <3>0, <3>1, <3>3, <3>4, <3>5 DEF PeerInv
    <2>4. CASE ~Room
      <3>1. Goto("exit") /\ CloseLink
        BY <1>5, <2>4
      <3>2. actor' \in Actors
            /\ actor'.pc = "exit"
        BY <1>0, <3>1, ActorTyped DEF Actors, ActorPlaces
      <3>3. link' \in Links /\ link'.out = link.out
        BY <1>0, <3>1, LinkTyped
      <3>4. PeerTyped'
        BY <1>0, <1>2, <1>5, <2>2, <3>2, <3>3 DEF PeerTyped, Tables
      <3>5. ~Connected' /\ PhaseHeard'
        BY <3>2 DEF Connected, PhaseHeard
      <3> QED
        BY <2>2, <3>3, <3>4, <3>5, Leaves
    <2> QED
      BY <2>3, <2>4
  <1>6. CASE /\ c.kind = "wake" /\ MaySend(c)
             /\ pending' = Put(pending, c.op, Sent(c))
             /\ link' = [link EXCEPT !.out = Append(@, Request(c))]
             /\ UNCHANGED <<actor, events>>
    <2>1. told' = told
      BY <1>6, Unposted
    <2> QED
      BY <1>0, <1>2, <1>6, <2>1, RequestSent
  <1> QED
    BY <1>3, <1>4, <1>5, <1>6

\* The end of the drain loop keeps the invariant.
LEMMA DrainDoneKeeps ==
    ASSUME ActorAssumption, PeerInv, DrainDone, told' = Told, UNCHANGED <<now, view>>
    PROVE  PeerInv'
  <1>0. PeerTyped /\ ToldSound /\ AttemptsInOrder /\ link.up /\ Remembered(pending) /\ LatelySent(pending) /\ Connected
        /\ LastHeard("connected")
    BY DEF PeerInv, DrainDone, Connected, PhaseHeard
  <1>1. actor' \in Actors /\ actor'.pc = "poll"
    BY <1>0, ActorTyped DEF DrainDone, ActorPlaces
  <1>2. UNCHANGED <<now, view, told, commands, events, pending, link>>
    BY Unposted DEF DrainDone
  <1>3. PeerTyped'
    BY <1>0, <1>1, <1>2 DEF PeerTyped, Tables
  <1>4. ToldSound' /\ AttemptsInOrder'
    BY <1>0, <1>2, SoundStays, OrderStays
  <1>5. PhaseHeard'
    BY <1>0, <1>1, <1>2 DEF PhaseHeard, LastHeard
  <1>6. Remembered(pending)' /\ LatelySent(pending)'
    <2> PICK q : q = pending
      OBVIOUS
    <2>1. Remembered(q)' /\ LatelySent(q)'
      BY <1>0, <1>2, RememberedStays DEF LatelySent
    <2> QED
      BY <1>2, <2>1 DEF Remembered, LatelySent
  <1> QED
    BY <1>0, <1>2, <1>3, <1>4, <1>5, <1>6 DEF PeerInv

-----------------------------------------------------------------------------
(* Steps that leave the actor without a connection *)

\* A step after which the actor has no connection, with or without an event.
LEMMA Away ==
    ASSUME PeerInv, actor' \in Actors, ~Connected', commands' \in Seq(Commands), events' \in Seq(Remarks \cup Replies),
           Len(events') <= EventCap, UNCHANGED <<now, pending, told>>, CloseLink \/ link' = link, PhaseHeard'
    PROVE  PeerInv'
  <1>0. PeerTyped
    BY DEF PeerInv
  <1>1. link' \in Links /\ link'.out = link.out
    BY <1>0, LinkTyped
  <1>2. PeerTyped'
    BY <1>0, <1>1 DEF PeerTyped, Tables
  <1> QED
    BY <1>1, <1>2, Leaves

\* An event that is no reply tells the driver nothing.
LEMMA Noted ==
    ASSUME ActorAssumption, PeerInv, NEW k \in (ConnectionEvents \ {"connected"}) \cup {"error"}, Post(Note(k)), told' = Told,
           view' = view
    PROVE  /\ events' \in Seq(Remarks \cup Replies) /\ Len(events') <= EventCap /\ told' = told
           /\ Room /\ k # "error" => LastHeard(k)'
           /\ \A v : Room /\ k = "error" /\ LastHeard(v) => LastHeard(v)'
  <1>0. PeerTyped
    BY DEF PeerInv
  <1> PICK e : e = Note(k)
    OBVIOUS
  <1>1. e \in Remarks \cup Replies /\ e.kind = k
    BY DEF Note, Remarks
  <1>2. Post(e)
    OBVIOUS
  <1>3. /\ events' \in Seq(Remarks \cup Replies) /\ Len(events') <= EventCap
        /\ Room => /\ events' = Append(events, e)
                   /\ told' = IF e.kind = "connected" THEN <<>>
                              ELSE IF e.kind \in {"receipt", "online"} THEN Append(told, e) ELSE told
        /\ ~Room => told' = told
    BY <1>0, <1>1, <1>2, Posted
  <1>4. told' = told
    BY <1>1, <1>3 DEF ConnectionEvents
  <1>5. Room /\ k # "error" => LastHeard(k)'
    <2> SUFFICES ASSUME Room, k # "error" PROVE LastHeard(k)'
      OBVIOUS
    <2>1. LastHeard(e.kind)'
      BY <1>0, <1>1, <1>3, HeardNow DEF PeerTyped
    <2> QED
      BY <1>1, <2>1
  <1>6. \A v : Room /\ k = "error" /\ LastHeard(v) => LastHeard(v)'
    <2> SUFFICES ASSUME NEW v, Room, k = "error", LastHeard(v) PROVE LastHeard(v)'
      OBVIOUS
    <2>1. e.kind \notin ConnectionEvents
      BY <1>1 DEF ConnectionEvents
    <2> QED
      BY <1>0, <1>1, <1>3, <2>1, HeardKept DEF PeerTyped
  <1> QED
    BY <1>3, <1>4, <1>5, <1>6

\* A step after which the actor has no connection and that posts nothing.
LEMMA QuietStep ==
    ASSUME PeerInv, actor' \in Actors, ~Connected', commands' \in Seq(Commands), UNCHANGED <<events, now, pending, view>>,
           told' = Told, CloseLink \/ link' = link, PhaseHeard'
    PROVE  PeerInv'
  <1>1. events' \in Seq(Remarks \cup Replies) /\ Len(events') <= EventCap
    BY DEF PeerInv, PeerTyped
  <1>2. told' = told
    BY Unposted
  <1> QED
    BY <1>1, <1>2, Away

\* client_actor announces a connection attempt before it makes it.
LEMMA AnnounceKeeps ==
    ASSUME ActorAssumption, PeerInv, Announce, told' = Told, UNCHANGED <<now, view>>
    PROVE  PeerInv'
  <1>0. PeerTyped /\ commands \in Seq(Commands)
    BY DEF PeerInv, PeerTyped
  <1>1. /\ events' \in Seq(Remarks \cup Replies) /\ Len(events') <= EventCap /\ told' = told
        /\ Room => LastHeard("connecting")'
    BY Noted DEF Announce, ConnectionEvents
  <1>2. PICK pc \in {"connect", "lost", "gone"} : Goto(pc) /\ (pc = "connect" => Room)
    BY DEF Announce
  <1>3. actor' \in Actors /\ actor'.pc = pc
    BY <1>0, <1>2, ActorTyped DEF ActorPlaces
  <1>4. PhaseHeard' /\ ~Connected'
    BY <1>1, <1>2, <1>3 DEF PhaseHeard, Connected
  <1> QED
    BY <1>0, <1>1, <1>3, <1>4, Away DEF Announce

\* connect_endpoints takes a command before each try and keeps the invariant.
LEMMA TryEndpointKeeps ==
    ASSUME ActorAssumption, PeerInv, TryEndpoint, told' = Told, UNCHANGED <<now, view>>
    PROVE  PeerInv'
  <1>0. PeerTyped /\ commands \in Seq(Commands) /\ LastHeard("connecting")
    BY DEF PeerInv, PeerTyped, TryEndpoint, PhaseHeard
  <1>1. commands' \in Seq(Commands)
    <2>1. commands' = IF commands = <<>> THEN commands ELSE Tail(commands)
      BY DEF TryEndpoint
    <2> QED
      BY <1>0, <2>1, CommandTaken
  <1>2. PICK pc \in {"handshake", "connect", "lost", "exit"} : Goto(pc)
    BY DEF TryEndpoint
  <1>3. actor' \in Actors /\ actor'.pc = pc
    BY <1>0, <1>2, ActorTyped DEF ActorPlaces
  <1>4. LastHeard("connecting")'
    BY <1>0, HeardSame DEF TryEndpoint
  <1>5. PhaseHeard' /\ ~Connected'
    BY <1>3, <1>4 DEF PhaseHeard, Connected
  <1> QED
    BY <1>1, <1>3, <1>5, QuietStep DEF TryEndpoint

\* A failed handshake and a lost connection keep the invariant.
LEMMA FailureKeeps ==
    ASSUME ActorAssumption, PeerInv, HandshakeFails \/ LinkLost, told' = Told, UNCHANGED <<now, view>>
    PROVE  PeerInv'
  <1>0. PeerTyped /\ commands \in Seq(Commands)
    BY DEF PeerInv, PeerTyped
  <1>1. actor' \in Actors /\ actor'.pc = "lost"
    BY <1>0, ActorTyped DEF HandshakeFails, LinkLost, ActorPlaces
  <1>2. PhaseHeard' /\ ~Connected'
    BY <1>1 DEF PhaseHeard, Connected
  <1> QED
    BY <1>0, <1>1, <1>2, QuietStep DEF HandshakeFails, LinkLost

\* report_connection_failure: the driver hears of the failure before the wait begins.
LEMMA ReportFailureKeeps ==
    ASSUME ActorAssumption, PeerInv, ReportFailure, told' = Told, UNCHANGED <<now, view>>
    PROVE  PeerInv'
  <1>0. PeerTyped /\ commands \in Seq(Commands) /\ actor \in Actors /\ now \in Nat
    BY DEF PeerInv, PeerTyped
  <1>1. /\ events' \in Seq(Remarks \cup Replies) /\ Len(events') <= EventCap /\ told' = told
        /\ Room => LastHeard("failed")'
    BY Noted DEF ReportFailure, ConnectionEvents
  <1>2. ReconnectDelay(actor.attempt) \in Nat
    <2> PICK n : n = actor.attempt
      OBVIOUS
    <2>1. n \in Nat \ {0} /\ BackOff \in Seq(Nat) /\ BackOff # <<>>
      BY <1>0 DEF Actors, ActorAssumption
    <2>2. Len(BackOff) \in Nat /\ Len(BackOff) # 0 /\ DOMAIN BackOff = 1..Len(BackOff)
      BY <2>1, EmptySeq, LenProperties
    <2>3. Len(BackOff) \in 1..Len(BackOff) /\ (n <= Len(BackOff) => n \in 1..Len(BackOff))
      BY <2>1, <2>2
    <2>4. BackOff[Len(BackOff)] \in Nat /\ (n <= Len(BackOff) => BackOff[n] \in Nat)
      BY <2>1, <2>3, ElementOfSeq
    <2> QED
      BY <2>4 DEF ReconnectDelay
  <1>3. now + ReconnectDelay(actor.attempt) \in Nat
    BY <1>0, <1>2
  <1>4. (actor'.pc = "wait" /\ Room) \/ actor'.pc = "exit"
    BY <1>0, <1>3 DEF ReportFailure, Actors, ActorPlaces
  <1>5. actor' \in Actors
    BY <1>0, <1>3 DEF ReportFailure, Actors, ActorPlaces
  <1>6. PhaseHeard' /\ ~Connected'
    BY <1>1, <1>4 DEF PhaseHeard, Connected
  <1> QED
    BY <1>0, <1>1, <1>5, <1>6, Away DEF ReportFailure

\* wait_for_reconnect answers a wake with an error and obeys a shutdown.
LEMMA WaitCommandKeeps ==
    ASSUME ActorAssumption, PeerInv, WaitCommand, told' = Told, UNCHANGED <<now, view>>
    PROVE  PeerInv'
  <1>0. PeerTyped /\ LastHeard("failed")
    BY DEF PeerInv, WaitCommand, PhaseHeard
  <1>1. commands' \in Seq(Commands)
    BY <1>0, CommandTaken DEF WaitCommand
  <1>2. CASE Goto("exit") /\ UNCHANGED events
    <2>1. actor' \in Actors /\ actor'.pc = "exit"
      BY <1>0, <1>2, ActorTyped DEF ActorPlaces
    <2>2. PhaseHeard' /\ ~Connected'
      BY <2>1 DEF PhaseHeard, Connected
    <2> QED
      BY <1>1, <1>2, <2>1, <2>2, QuietStep DEF WaitCommand
  <1>3. CASE Post(Note("error")) /\ Goto(IF Room THEN "wait" ELSE "exit")
    <2>1. /\ events' \in Seq(Remarks \cup Replies) /\ Len(events') <= EventCap /\ told' = told
          /\ Room => LastHeard("failed")'
      BY <1>0, <1>3, Noted
    <2>2. actor' \in Actors /\ actor'.pc = (IF Room THEN "wait" ELSE "exit")
      BY <1>0, <1>3, ActorTyped DEF ActorPlaces
    <2>3. PhaseHeard' /\ ~Connected'
      BY <2>1, <2>2 DEF PhaseHeard, Connected
    <2> QED
      BY <1>1, <2>1, <2>2, <2>3, Away DEF WaitCommand
  <1> QED
    BY <1>2, <1>3 DEF WaitCommand

\* The end of the wait keeps the invariant.
LEMMA WaitOverKeeps ==
    ASSUME ActorAssumption, PeerInv, WaitOver, told' = Told, UNCHANGED <<now, view>>
    PROVE  PeerInv'
  <1>0. actor \in Actors /\ commands \in Seq(Commands)
    BY DEF PeerInv, PeerTyped
  <1>1. actor' \in Actors /\ actor'.pc = "announce"
    <2> PICK n : n = actor.attempt
      OBVIOUS
    <2>1. n \in Nat \ {0} /\ n + 1 \in Nat \ {0} /\ actor.until \in Nat
      BY <1>0 DEF Actors
    <2>2. PICK k \in {n, n + 1} : actor' = [actor EXCEPT !.pc = "announce", !.attempt = k]
      BY DEF WaitOver
    <2>3. k \in Nat \ {0}
      BY <2>1
    <2> QED
      BY <1>0, <2>2, <2>3 DEF Actors, ActorPlaces
  <1>2. PhaseHeard' /\ ~Connected'
    BY <1>1 DEF PhaseHeard, Connected
  <1> QED
    BY <1>0, <1>1, <1>2, QuietStep DEF WaitOver

\* The end of the thread keeps the invariant.
LEMMA ExitKeeps ==
    ASSUME ActorAssumption, PeerInv, Exit, told' = Told, UNCHANGED <<now, view>>
    PROVE  PeerInv'
  <1>0. PeerTyped /\ commands \in Seq(Commands)
    BY DEF PeerInv, PeerTyped
  <1>1. events' \in Seq(Remarks \cup Replies) /\ Len(events') <= EventCap /\ told' = told
    BY Noted DEF Exit, ConnectionEvents
  <1>2. actor' \in Actors /\ actor'.pc = "gone"
    BY <1>0, ActorTyped DEF Exit, ActorPlaces
  <1>3. PhaseHeard' /\ ~Connected'
    BY <1>2 DEF PhaseHeard, Connected
  <1> QED
    BY <1>0, <1>1, <1>2, <1>3, Away DEF Exit

\* A new connection starts with nothing sent, nothing remembered and nothing told.
LEMMA HandshakeDoneKeeps ==
    ASSUME ActorAssumption, PeerInv, HandshakeDone, told' = Told, UNCHANGED <<now, view>>
    PROVE  PeerInv'
  <1>0. PeerTyped
    BY DEF PeerInv
  <1> PICK e : e = Note("connected")
    OBVIOUS
  <1>1. e \in Remarks \cup Replies /\ e.kind = "connected" /\ e.kind \in ConnectionEvents
    BY DEF Note, Remarks, ConnectionEvents
  <1>2. Post(e) /\ UNCHANGED commands
    BY DEF HandshakeDone
  <1>3. /\ events' \in Seq(Remarks \cup Replies) /\ Len(events') <= EventCap /\ told' \in Seq(Replies)
        /\ Room => events' = Append(events, e) /\ told' = <<>>
        /\ ~Room => told' = told
    BY <1>0, <1>1, <1>2, Posted
  <1>4. DOMAIN pending' = {} /\ Tables(pending)'
    BY DEF HandshakeDone, Tables
  <1>5. CASE Room
    <2>1. actor' \in Actors /\ actor'.pc = "drain"
      <3>1. actor \in Actors /\ actor' = [actor EXCEPT !.pc = "drain", !.attempt = 1]
        BY <1>0, <1>5 DEF HandshakeDone, PeerTyped
      <3>2. 1 \in Nat \ {0} /\ actor.until \in Nat /\ "drain" \in ActorPlaces
        BY <3>1 DEF Actors, ActorPlaces
      <3>3. actor' = [pc |-> "drain", attempt |-> 1, until |-> actor.until]
        BY <3>1 DEF Actors
      <3> QED
        BY <3>2, <3>3 DEF Actors
    <2>2. link' = [up |-> TRUE, out |-> <<>>, in |-> <<>>]
      BY <1>5 DEF HandshakeDone, Closed
    <2>3. PeerTyped'
      BY <1>0, <1>2, <1>3, <1>4, <2>1, <2>2 DEF PeerTyped, Links
    <2>4. LastHeard("connected")'
      BY <1>0, <1>1, <1>3, <1>5, HeardNow DEF PeerTyped
    <2>5. PhaseHeard'
      BY <2>1, <2>4 DEF PhaseHeard, Connected
    <2>6. DOMAIN told' = {} /\ DOMAIN link'.out = {} /\ link'.up
      BY <1>3, <1>5, <2>2
    <2>7. ToldSound' /\ AttemptsInOrder' /\ LatelySent(pending)' /\ Remembered(pending)'
      BY <1>4, <2>6 DEF ToldSound, AttemptsInOrder, LatelySent, Remembered
    <2> QED
      BY <2>3, <2>5, <2>6, <2>7 DEF PeerInv
  <1>6. CASE ~Room
    <2>1. actor' \in Actors /\ actor'.pc = "gone" /\ link' = link
      BY <1>0, <1>6 DEF HandshakeDone, PeerTyped, Actors, ActorPlaces
    <2>2. PeerTyped'
      BY <1>0, <1>2, <1>3, <1>4, <2>1 DEF PeerTyped
    <2>3. PhaseHeard' /\ ~Connected'
      BY <2>1 DEF PhaseHeard, Connected
    <2> QED
      BY <1>3, <1>6, <2>1, <2>2, <2>3, Leaves
  <1> QED
    BY <1>5, <1>6

-----------------------------------------------------------------------------
(* The driver, the peer and time *)

\* Steps of the environment touch neither what was sent nor what was told.
LEMMA Around ==
    ASSUME PeerInv, PeerTyped', UNCHANGED <<now, actor, pending, told, link.up, link.out>>,
           \A v : LastHeard(v) => LastHeard(v)'
    PROVE  PeerInv'
  <1>0. PeerTyped /\ ToldSound /\ AttemptsInOrder /\ PhaseHeard
    BY DEF PeerInv
  <1>1. ToldSound' /\ AttemptsInOrder'
    BY <1>0, SoundStays, OrderStays
  <1>2. PhaseHeard'
    BY <1>0 DEF PhaseHeard, Connected
  <1>3. ASSUME Connected' PROVE link'.up /\ Remembered(pending)' /\ LatelySent(pending)'
    <2>1. link.up /\ Remembered(pending) /\ LatelySent(pending)
      BY <1>3 DEF PeerInv, Connected
    <2> PICK q : q = pending
      OBVIOUS
    <2>2. Remembered(q)' /\ LatelySent(q)'
      BY <2>1, RememberedStays DEF LatelySent
    <2> QED
      BY <2>1, <2>2 DEF Remembered, LatelySent
  <1> QED
    BY <1>1, <1>2, <1>3 DEF PeerInv

\* Queueing a command keeps the invariant.
LEMMA SendKeeps ==
    ASSUME PeerInv, NEW c \in Commands, Send(c), UNCHANGED <<now, actor, events, pending, link, view, told>>
    PROVE  PeerInv'
  <1>0. PeerTyped
    BY DEF PeerInv
  <1>1. commands' \in Seq(Commands)
    BY <1>0, Added DEF PeerTyped, Send
  <1>2. PeerTyped'
    BY <1>0, <1>1 DEF PeerTyped, Tables
  <1>3. \A v : LastHeard(v) => LastHeard(v)'
    BY HeardSame
  <1> QED
    BY <1>2, <1>3, Around

\* The driver may queue any wake at any time.
LEMMA QueueWakeKeeps ==
    ASSUME PeerAssumption, PeerInv, QueueWake
    PROVE  PeerInv'
  <1>1. PICK o \in Ops, hs \in (SUBSET Hosts) \ {{}}, w \in Asks :
                Send(WakeCmd(o, hs, w[1], w[2], 0))
    BY DEF QueueWake
  <1>2. WakeCmd(o, hs, w[1], w[2], 0) \in Commands
    <2>1. w[1] \in {1, 2} /\ w[2] \in Nat
      BY DEF PeerAssumption
    <2> QED
      BY <2>1 DEF WakeCmd, Commands
  <1> QED
    BY <1>1, <1>2, SendKeeps DEF QueueWake

\* The driver may ask for a shutdown at any time.
LEMMA QuitKeeps ==
    ASSUME PeerInv, Quit
    PROVE  PeerInv'
  <1>1. Shutdown \in Commands
    BY DEF Commands
  <1> QED
    BY <1>1, SendKeeps DEF Quit

\* The driver may read events as slowly as it likes.
LEMMA ReadKeeps ==
    ASSUME ActorAssumption, PeerInv, Read
    PROVE  PeerInv'
  <1>0. PeerTyped /\ events \in Seq(Remarks \cup Replies) /\ Len(events) <= EventCap /\ events # <<>>
    BY DEF PeerInv, PeerTyped, Read
  <1>1. UNCHANGED <<now, actor, commands, pending, link, told>> /\ events' = Tail(events)
    BY DEF Read
  <1>2. events' \in Seq(Remarks \cup Replies) /\ Len(events') = Len(events) - 1 /\ Len(events) \in Nat
    BY <1>0, <1>1, HeadTailProperties, LenProperties
  <1>3. PeerTyped'
    <2>1. Len(events') <= EventCap
      <3>1. EventCap \in Nat
        BY DEF ActorAssumption
      <3> QED
        BY <1>0, <1>2, <3>1
    <2> QED
      BY <1>0, <1>1, <1>2, <2>1 DEF PeerTyped, Tables
  <1>4. \A v : LastHeard(v) => LastHeard(v)'
    BY <1>0, HeardRead
  <1> QED
    BY <1>1, <1>3, <1>4, Around

\* The peer may send any well-formed message.
LEMMA PeerSendsKeeps ==
    ASSUME PeerAssumption, PeerInv, PeerSends
    PROVE  PeerInv'
  <1>0. PeerTyped /\ now \in Nat /\ link \in Links
    BY DEF PeerInv, PeerTyped
  <1>1. PICK m \in Messages : link' = [link EXCEPT !.in = Append(@, m)]
    BY DEF PeerSends
  <1>2. m \in Receivable
    <2>2. CASE m \in {Executed(o, l[1], l[2], r[1], r[2], now + d) :
                        o \in Ops, l \in Labels, r \in Results, d \in Deadlines}
      <3>1. PICK o \in Ops, l \in Labels, r \in Results, d \in Deadlines :
                    m = Executed(o, l[1], l[2], r[1], r[2], now + d)
        BY <2>2
      <3>2. l[1] \in {1, 2} /\ l[2] \in Nat /\ now + d \in Nat
        BY <1>0 DEF PeerAssumption
      <3>3. r[1] \in SUBSET Hosts /\ r[2] \in SUBSET Hosts /\ r[2] \subseteq r[1]
        BY DEF Results
      <3> QED
        BY <1>0, <3>1, <3>2, <3>3 DEF Executed, Receivable
    <2>3. CASE m \in {Online(o, a, h) : o \in Ops, a \in 1..2, h \in Hosts}
      BY <1>0, <2>3 DEF Online, Receivable
    <2>4. CASE m \in {Refused(o) : o \in Ops}
      BY <1>0, <2>4 DEF Refused, Receivable
    <2> QED
      BY <2>2, <2>3, <2>4 DEF Messages
  <1>3. Append(link.in, m) \in Seq(Receivable)
    BY <1>0, <1>2, Added DEF Links
  <1>4. link' \in Links /\ link'.out = link.out /\ link'.up = link.up
    BY <1>0, <1>1, <1>3 DEF Links
  <1>5. UNCHANGED <<now, actor, commands, events, pending, view, told>>
    BY DEF PeerSends
  <1>6. PeerTyped'
    BY <1>0, <1>4, <1>5 DEF PeerTyped, Tables
  <1>7. \A v : LastHeard(v) => LastHeard(v)'
    BY <1>5, HeardSame
  <1> QED
    BY <1>4, <1>5, <1>6, <1>7, Around

\* What was sent lately only becomes less.
LEMMA TickKeeps ==
    ASSUME ActorAssumption, PeerInv, Tick
    PROVE  PeerInv'
  <1>0. PeerTyped /\ ToldSound /\ AttemptsInOrder /\ PhaseHeard /\ now \in Nat /\ link \in Links
    BY DEF PeerInv, PeerTyped
  <1>1. UNCHANGED <<actor, commands, events, pending, link, view, told>> /\ now' = now + 1
    BY DEF Tick, actorVars
  <1>2. PeerTyped'
    BY <1>0, <1>1 DEF PeerTyped, Tables
  <1>3. ToldSound' /\ AttemptsInOrder'
    BY <1>0, <1>1, SoundStays, OrderStays
  <1>4. PhaseHeard'
    BY <1>0, <1>1 DEF PhaseHeard, Connected, LastHeard
  <1>5. ASSUME Connected' PROVE link'.up /\ Remembered(pending)' /\ LatelySent(pending)'
    <2>1. link.up /\ Remembered(pending) /\ LatelySent(pending)
      BY <1>1, <1>5 DEF PeerInv, Connected
    <2> PICK q : q = pending
      OBVIOUS
    <2>2. Remembered(q)'
      BY <1>1, <2>1, RememberedStays
    <2>3. LatelySent(q)'
      <3> SUFFICES ASSUME NEW i \in DOMAIN link.out
                   PROVE  /\ link.out[i].wireTime <= now'
                          /\ now' < link.out[i].wireTime + PendingOpTTL =>
                                /\ link.out[i].op \in DOMAIN q
                                /\ link.out[i].attempt <= q[link.out[i].op].attempt
                                /\ link.out[i].wireTime + PendingOpTTL <= q[link.out[i].op].expires
        BY <1>1 DEF LatelySent
      <3>1. /\ link.out[i].wireTime <= now
            /\ now < link.out[i].wireTime + PendingOpTTL =>
                                /\ link.out[i].op \in DOMAIN q
                                /\ link.out[i].attempt <= q[link.out[i].op].attempt
                                /\ link.out[i].wireTime + PendingOpTTL <= q[link.out[i].op].expires
        BY <2>1 DEF LatelySent
      <3>2. link.out[i].wireTime \in Nat
        <4>1. link.out \in Seq(Sendable)
          BY <1>0 DEF Links
        <4>2. link.out[i] \in Sendable
          BY <4>1, ElementOfSeq, LenProperties
        <4> QED
          BY <4>2 DEF Sendable
      <3> PICK w : w = link.out[i].wireTime
        OBVIOUS
      <3>3. PendingOpTTL \in Nat
        BY DEF ActorAssumption
      <3>4. w <= now' /\ (now' < w + PendingOpTTL => now < w + PendingOpTTL)
        BY <1>0, <1>1, <3>1, <3>2, <3>3
      <3> QED
        BY <3>1, <3>4
    <2> QED
      BY <1>1, <2>1, <2>2, <2>3 DEF Remembered, LatelySent
  <1> QED
    BY <1>2, <1>3, <1>4, <1>5 DEF PeerInv

-----------------------------------------------------------------------------
(* The invariant *)

\* The invariant holds of an actor that has not connected yet.
LEMMA PeerInvInit ==
    ASSUME ActorAssumption, PeerInit
    PROVE  PeerInv
  <1>1. PeerTyped
    <2>1. DOMAIN pending = {} /\ Tables(pending)
      BY DEF PeerInit, ActorInit, Tables
    <2>2. actor \in Actors /\ link \in Links
      BY DEF PeerInit, ActorInit, Actors, ActorPlaces, Links, Closed
    <2>3. Len(events) <= EventCap
      BY DEF PeerInit, ActorInit, ActorAssumption
    <2> QED
      BY <2>1, <2>2, <2>3 DEF PeerInit, ActorInit, PeerTyped
  <1>2. DOMAIN told = {} /\ DOMAIN link.out = {}
    BY DEF PeerInit, ActorInit, Closed
  <1>3. ToldSound /\ AttemptsInOrder
    BY <1>2 DEF ToldSound, AttemptsInOrder
  <1>4. ~Connected /\ PhaseHeard
    BY DEF PeerInit, ActorInit, PhaseHeard, Connected
  <1> QED
    BY <1>1, <1>3, <1>4 DEF PeerInv

\* Every step of the actor, the driver, the peer and the clock keeps the invariant.
LEMMA PeerInvStep ==
    ASSUME PeerAssumption, PeerInv, [PeerNext]_peerVars
    PROVE  PeerInv'
  <1>1. CASE UNCHANGED peerVars
    <2>1. UNCHANGED <<now, actor, commands, events, pending, link, view, told>>
      BY <1>1 DEF peerVars, actorVars
    <2>2. PeerTyped'
      BY <2>1 DEF PeerInv, PeerTyped, Tables
    <2>3. \A v : LastHeard(v) => LastHeard(v)'
      BY <2>1, HeardSame
    <2> QED
      BY <2>1, <2>2, <2>3, Around
  <1>2. CASE QueueWake
    BY <1>2, QueueWakeKeeps
  <1>3. CASE Quit
    BY <1>3, QuitKeeps
  <1>4. CASE Read
    BY <1>4, ReadKeeps DEF PeerAssumption
  <1>5. CASE PeerSends
    BY <1>5, PeerSendsKeeps
  <1>6. CASE Tick
    BY <1>6, TickKeeps DEF PeerAssumption
  <1>7. CASE Actor
    <2>1. ActorStep /\ told' = Told /\ UNCHANGED <<now, view>>
      BY <1>7 DEF Actor
    <2> QED
      BY <2>1, AnnounceKeeps, TryEndpointKeeps, FailureKeeps, HandshakeDoneKeeps, ReportFailureKeeps, WaitCommandKeeps,
         WaitOverKeeps, ExitKeeps, TakeCommandKeeps, DrainDoneKeeps, PollMessageKeeps, PollNothingKeeps
         DEF ActorStep, PeerAssumption
  <1> QED
    BY <1>1, <1>2, <1>3, <1>4, <1>5, <1>6, <1>7 DEF PeerNext

-----------------------------------------------------------------------------
(* What it says *)

\* The place of the last receipt is the one LastReceipt chooses.
LEMMA LastIsLast ==
    ASSUME NEW o, NEW i \in Nat, NEW r, LastIs(o, r, i)
    PROVE  LastReceipt(o, i) = r
  <1> DEFINE R == {j \in 1..(i - 1) : told[j].kind = "receipt" /\ told[j].op = o}
  <1>1. r \in R
    BY DEF LastIs
  <1>2. \A k \in R : k <= r
    BY DEF LastIs
  <1>3. \A k \in R : k \in Int
    OBVIOUS
  <1>4. LastReceipt(o, i) = CHOOSE j \in R : \A k \in R : k <= j
    BY <1>1, Zenon DEF LastReceipt
  <1> HIDE DEF R
  <1>5. \A j \in R : (\A k \in R : k <= j) => j = r
    BY <1>1, <1>2, <1>3
  <1> QED
    BY <1>1, <1>2, <1>4, <1>5

\* The invariant says that both directions of the relay make sense.
LEMMA AnswersOnly ==
    ASSUME PeerInv
    PROVE  OnlyAnswers
  <1>0. PeerTyped /\ ToldSound /\ AttemptsInOrder
    BY DEF PeerInv
  <1>1. PeerTypeOK
    <2>1. actor.pc \in ActorPlaces
      BY <1>0 DEF PeerTyped, Actors
    <2>2. \A o \in DOMAIN pending : pending[o].accepted \subseteq pending[o].hosts
      BY <1>0 DEF PeerTyped, Tables, Operations
    <2> QED
      BY <1>0, <2>1, <2>2 DEF PeerTypeOK, PeerTyped, Tables
  <1>2. ToldAnswers
    <2> SUFFICES ASSUME NEW i \in DOMAIN told
                 PROVE  /\ told[i].kind = "receipt" => WasSent(told[i].op, told[i])
                        /\ told[i].kind = "online" =>
                              /\ LastReceipt(told[i].op, i) # 0
                              /\ told[LastReceipt(told[i].op, i)].attempt = told[i].attempt
                              /\ told[i].host \in told[LastReceipt(told[i].op, i)].accepted
                              /\ \A k \in (LastReceipt(told[i].op, i) + 1)..(i - 1) : told[k] # told[i]
      BY Zenon DEF ToldAnswers
    <2> PICK e : e = told[i]
      OBVIOUS
    <2>0. i \in Nat
      BY <1>0, LenProperties DEF PeerTyped
    <2>1. e.kind = "receipt" => WasSent(e.op, e)
      BY <1>0 DEF ToldSound
    <2>2. ASSUME e.kind = "online"
          PROVE  /\ LastReceipt(e.op, i) # 0
                 /\ told[LastReceipt(e.op, i)].attempt = e.attempt
                 /\ e.host \in told[LastReceipt(e.op, i)].accepted
                 /\ \A k \in (LastReceipt(e.op, i) + 1)..(i - 1) : told[k] # e
      <3>1. PICK r \in 1..Len(told) :
                  /\ LastIs(e.op, r, i)
                  /\ told[r].attempt = e.attempt /\ e.host \in told[r].accepted
                  /\ \A k \in (r + 1)..(i - 1) : told[k] # e
        BY <1>0, <2>2 DEF ToldSound
      <3>2. LastReceipt(e.op, i) = r /\ r # 0
        BY <2>0, <3>1, LastIsLast
      <3> QED
        BY <3>1, <3>2
    <2> QED
      BY <2>1, <2>2
  <1> QED
    BY <1>0, <1>1, <1>2 DEF OnlyAnswers

\* The event last heard is the one Reported computes.
LEMMA HeardIsReported ==
    ASSUME events \in Seq(Remarks \cup Replies), NEW v, LastHeard(v)
    PROVE  Reported = v
  <1> DEFINE Q == {i \in DOMAIN events : events[i].kind \in ConnectionEvents}
  <1>0. DOMAIN events \subseteq Nat
    BY LenProperties
  <1>1. CASE view = v /\ \A i \in DOMAIN events : events[i].kind \notin ConnectionEvents
    <2>1. Q = {}
      BY <1>1
    <2> QED
      BY <1>1, <2>1, Zenon DEF Reported
  <1>2. ASSUME NEW i \in DOMAIN events, events[i].kind = v, v \in ConnectionEvents,
               \A j \in DOMAIN events : j > i => events[j].kind \notin ConnectionEvents
        PROVE  Reported = v
    <2>1. i \in Q /\ \A j \in Q : j \in Nat /\ ~(j > i)
      BY <1>0, <1>2
    <2>2. Reported = events[CHOOSE k \in Q : \A j \in Q : j <= k].kind
      BY <2>1, Zenon DEF Reported
    <2> HIDE DEF Q
    <2>3. i \in Nat /\ (\A j \in Q : j <= i) /\ \A k \in Q : (\A j \in Q : j <= k) => k = i
      BY <2>1
    <2>4. (CHOOSE k \in Q : \A j \in Q : j <= k) = i
      BY <2>1, <2>3
    <2> QED
      BY <1>2, <2>2, <2>4
  <1> QED
    BY <1>1, <1>2 DEF LastHeard

\* The invariant says that no event is lost between the actor and the driver.
LEMMA AnsweredTold ==
    ASSUME PeerInv
    PROVE  AnsweredWasTold
  <1>0. PeerTyped /\ PhaseHeard /\ told \in Seq(Replies) /\ events \in Seq(Remarks \cup Replies)
    BY DEF PeerInv, PeerTyped
  <1>1. SeenWasTold
    <2> SUFFICES ASSUME Connected, NEW o \in DOMAIN pending, pending[o].seen
                 PROVE  \E i \in DOMAIN told :
                            /\ told[i].kind = "receipt" /\ told[i].op = o
                            /\ told[i].attempt = pending[o].attempt
      BY DEF SeenWasTold
    <2> PICK x : x = pending[o]
      OBVIOUS
    <2>1. ReceiptTold(o, x)
      BY DEF PeerInv, Remembered
    <2>2. PICK r \in 1..Len(told) : LastIs(o, r, Len(told) + 1) /\ told[r].attempt = x.attempt
      BY <2>1 DEF ReceiptTold
    <2>3. r \in DOMAIN told
      BY <1>0, LenProperties
    <2> QED
      BY <2>2, <2>3 DEF LastIs
  <1>2. PhaseReported
    BY <1>0, HeardIsReported DEF PhaseReported, PhaseHeard
  <1> QED
    BY <1>1, <1>2 DEF AnsweredWasTold

\* The invariant the two theorems rest on.
LEMMA PeerAlways ==
    PeerAssumption => (PeerSpec => []PeerInv)
  <1> SUFFICES ASSUME PeerAssumption PROVE PeerSpec => []PeerInv
    OBVIOUS
  <1>1. PeerInit => PeerInv
    BY PeerInvInit DEF PeerAssumption
  <1>2. PeerInv /\ [PeerNext]_peerVars => PeerInv'
    BY PeerInvStep
  <1> QED
    BY <1>1, <1>2, PTL DEF PeerSpec

\* Whatever the peer sends and the driver queues, the driver only hears answers to what was
\* sent on this connection, hosts come online once and only after the receipt that accepted
\* them, and attempts go out in order (handle_server_event, send_wake), for every number of
\* hosts and operations, capacity, timeout and table of delays.
THEOREM AnswersAreSound ==
    PeerAssumption => (PeerSpec => []OnlyAnswers)
  <1>1. PeerInv => OnlyAnswers
    BY AnswersOnly
  <1> QED
    BY <1>1, PeerAlways, PTL

\* What the actor counts as answered was told, and a driver that reads its events knows
\* whether there is a connection, although the event queue is bounded and never waited for
\* (emit_event).
THEOREM AnswersAreTold ==
    PeerAssumption => (PeerSpec => []AnsweredWasTold)
  <1>1. PeerInv => AnsweredWasTold
    BY AnsweredTold
  <1> QED
    BY <1>1, PeerAlways, PTL


-----------------------------------------------------------------------------
(* Requests and the places of their messages *)

\* A request that is taken off its way out leaves the other requests in their places.
LEMMA TakeOutgoing ==
    ASSUME NEW S, NEW o \in Seq(S), NEW n, NEW ws, NEW rs, o # <<>>,
           ForRequests(rs, o, n, ws), InOnePlace(rs, o, n, ws)
    PROVE  LET i == Head(o).id IN
           /\ ForRequests(Without(rs, i), Tail(o), n, ws) /\ InOnePlace(Without(rs, i), Tail(o), n, ws)
           /\ i \in DOMAIN rs /\ rs[i].kind = Head(o).kind
           /\ Head(o).kind = "status" =>
                 rs[i].hosts = Head(o).hosts /\ rs[i].catalog = Head(o).catalog
  <1> DEFINE i == Head(o).id
             t == Tail(o)
             less == Without(rs, i)
  <1>1. /\ 1 \in DOMAIN o /\ Head(o) = o[1]
        /\ \A k \in DOMAIN t : k + 1 \in DOMAIN o /\ k + 1 # 1 /\ t[k] = o[k + 1]
        /\ \A k \in DOMAIN t : \A l \in DOMAIN t : k + 1 = l + 1 => k = l
        /\ \A k \in DOMAIN o : k # 1 => k - 1 \in DOMAIN t /\ t[k - 1] = o[k]
    BY HeadTaken
  <1>2. DOMAIN less = DOMAIN rs \ {i} /\ \A y \in DOMAIN rs \ {i} : less[y] = rs[y]
    BY DEF Without
  <1> HIDE DEF t, less
  <1>3. i = o[1].id /\ i \in DOMAIN rs
    BY <1>1 DEF ForRequests
  <1>4. ForRequests(less, t, n, ws)
    BY <1>1, <1>2, <1>3 DEF ForRequests, InOnePlace, AnswersA
  <1>5. InOnePlace(less, t, n, ws)
    <2>1. ASSUME NEW x \in DOMAIN less
          PROVE  \/ \E k \in DOMAIN t : t[k].id = x
                 \/ \E k \in DOMAIN n : n[k].id = x
                 \/ \E w \in ws : w.id = x
      BY <1>1, <1>2, <1>3, <2>1 DEF InOnePlace
    <2> QED
      BY <1>1, <2>1 DEF InOnePlace
  <1> QED
    BY <1>1, <1>3, <1>4, <1>5 DEF ForRequests, less, t

\* An answer that is read leaves the other requests in their places, and is one its request
\* asked for.
LEMMA TakeIncoming ==
    ASSUME NEW S, NEW n \in Seq(S), NEW o, NEW ws, NEW rs, n # <<>>,
           ForRequests(rs, o, n, ws), InOnePlace(rs, o, n, ws)
    PROVE  LET m == Head(n) IN
           /\ ForRequests(Without(rs, m.id), o, Tail(n), ws)
           /\ InOnePlace(Without(rs, m.id), o, Tail(n), ws)
           /\ AnswersA(rs, m)
  <1> DEFINE i == Head(n).id
             t == Tail(n)
             less == Without(rs, i)
  <1>1. /\ 1 \in DOMAIN n /\ Head(n) = n[1]
        /\ \A k \in DOMAIN t : k + 1 \in DOMAIN n /\ k + 1 # 1 /\ t[k] = n[k + 1]
        /\ \A k \in DOMAIN t : \A l \in DOMAIN t : k + 1 = l + 1 => k = l
        /\ \A k \in DOMAIN n : k # 1 => k - 1 \in DOMAIN t /\ t[k - 1] = n[k]
    BY HeadTaken
  <1>2. DOMAIN less = DOMAIN rs \ {i} /\ \A y \in DOMAIN rs \ {i} : less[y] = rs[y]
    BY DEF Without
  <1> HIDE DEF t, less
  <1>3. i = n[1].id /\ i \in DOMAIN rs
    BY <1>1 DEF ForRequests, AnswersA
  <1>4. ForRequests(less, o, t, ws)
    BY <1>1, <1>2, <1>3 DEF ForRequests, InOnePlace, AnswersA
  <1>5. InOnePlace(less, o, t, ws)
    <2>1. ASSUME NEW x \in DOMAIN less
          PROVE  \/ \E k \in DOMAIN o : o[k].id = x
                 \/ \E k \in DOMAIN t : t[k].id = x
                 \/ \E w \in ws : w.id = x
      BY <1>1, <1>2, <1>3, <2>1 DEF InOnePlace
    <2> QED
      BY <1>1, <2>1 DEF InOnePlace
  <1> QED
    BY <1>1, <1>3, <1>4, <1>5 DEF ForRequests, less, t

\* A job that ends, and an answer that is sent, leave the other requests in their places.
LEMMA TakeWork ==
    ASSUME NEW o, NEW n, NEW ws, NEW w \in ws, NEW rs,
           ForRequests(rs, o, n, ws), InOnePlace(rs, o, n, ws)
    PROVE  /\ ForRequests(Without(rs, w.id), o, n, ws \ {w})
           /\ InOnePlace(Without(rs, w.id), o, n, ws \ {w})
           /\ AnswersA(rs, w)
  <1> DEFINE i == w.id
             less == Without(rs, i)
  <1>1. DOMAIN less = DOMAIN rs \ {i} /\ \A y \in DOMAIN rs \ {i} : less[y] = rs[y]
    BY DEF Without
  <1> HIDE DEF less
  <1>2. ForRequests(less, o, n, ws \ {w})
    BY <1>1 DEF ForRequests, InOnePlace, AnswersA
  <1>3. InOnePlace(less, o, n, ws \ {w})
    BY <1>1 DEF InOnePlace
  <1> QED
    BY <1>2, <1>3 DEF ForRequests, less

\* A request that is sent is in one place.
LEMMA PutOutgoing ==
    ASSUME NEW S, NEW o \in Seq(S), NEW q \in S, NEW n, NEW ws, NEW rs, NEW v, q.id \notin DOMAIN rs,
           ForRequests(rs, o, n, ws), InOnePlace(rs, o, n, ws),
           v.kind = q.kind, q.kind = "status" => v.hosts = q.hosts /\ v.catalog = q.catalog
    PROVE  /\ ForRequests(With(rs, q.id, v), Append(o, q), n, ws)
           /\ InOnePlace(With(rs, q.id, v), Append(o, q), n, ws)
  <1> DEFINE i == q.id
             p == Len(o) + 1
             t == Append(o, q)
             more == With(rs, i, v)
  <1>1. /\ DOMAIN t = DOMAIN o \cup {p} /\ p \notin DOMAIN o /\ t[p] = q
        /\ \A k \in DOMAIN o : t[k] = o[k]
    BY Added
  <1>2. DOMAIN more = DOMAIN rs \cup {i} /\ more[i] = v /\ \A y \in DOMAIN rs : more[y] = rs[y]
    BY DEF With
  <1> HIDE DEF t, more, p
  <1>3. ForRequests(more, t, n, ws)
    BY <1>1, <1>2 DEF ForRequests, AnswersA
  <1>4. InOnePlace(more, t, n, ws)
    <2>1. ASSUME NEW x \in DOMAIN more
          PROVE  \/ \E k \in DOMAIN t : t[k].id = x
                 \/ \E k \in DOMAIN n : n[k].id = x
                 \/ \E w \in ws : w.id = x
      BY <1>1, <1>2, <2>1 DEF InOnePlace
    <2>2. (\A k \in DOMAIN o : o[k].id # i) /\ (\A k \in DOMAIN n : n[k].id # i) /\ \A w \in ws : w.id # i
      BY DEF ForRequests, AnswersA
    <2> QED
      BY <1>1, <2>1, <2>2 DEF InOnePlace
  <1> QED
    BY <1>3, <1>4 DEF more, t

\* A request that is answered is in one place.
LEMMA PutIncoming ==
    ASSUME NEW S, NEW n \in Seq(S), NEW m \in S, NEW o, NEW ws, NEW rs, NEW v, m.id \notin DOMAIN rs,
           ForRequests(rs, o, n, ws), InOnePlace(rs, o, n, ws),
           m.kind = "hosts" => v.kind = "list",
           m.kind \in {"job", "statuses"} => v.kind = "status" /\ v.hosts = m.hosts
    PROVE  /\ ForRequests(With(rs, m.id, v), o, Append(n, m), ws)
           /\ InOnePlace(With(rs, m.id, v), o, Append(n, m), ws)
  <1> DEFINE i == m.id
             p == Len(n) + 1
             t == Append(n, m)
             more == With(rs, i, v)
  <1>1. /\ DOMAIN t = DOMAIN n \cup {p} /\ p \notin DOMAIN n /\ t[p] = m
        /\ \A k \in DOMAIN n : t[k] = n[k]
    BY Added
  <1>2. DOMAIN more = DOMAIN rs \cup {i} /\ more[i] = v /\ \A y \in DOMAIN rs : more[y] = rs[y]
    BY DEF With
  <1> HIDE DEF t, more, p
  <1>3. ForRequests(more, o, t, ws)
    BY <1>1, <1>2 DEF ForRequests, AnswersA
  <1>4. InOnePlace(more, o, t, ws)
    <2>1. ASSUME NEW x \in DOMAIN more
          PROVE  \/ \E k \in DOMAIN o : o[k].id = x
                 \/ \E k \in DOMAIN t : t[k].id = x
                 \/ \E w \in ws : w.id = x
      BY <1>1, <1>2, <2>1 DEF InOnePlace
    <2>2. (\A k \in DOMAIN o : o[k].id # i) /\ (\A k \in DOMAIN n : n[k].id # i) /\ \A w \in ws : w.id # i
      BY DEF ForRequests, AnswersA
    <2> QED
      BY <1>1, <2>1, <2>2 DEF InOnePlace
  <1> QED
    BY <1>3, <1>4 DEF more, t

\* A request that becomes a job of the session, or an answer in its hand, is in one place.
LEMMA PutWork ==
    ASSUME NEW o, NEW n, NEW ws, NEW w, NEW rs, NEW v, w.id \notin DOMAIN rs,
           ForRequests(rs, o, n, ws), InOnePlace(rs, o, n, ws),
           w.kind = "hosts" => v.kind = "list",
           w.kind \in {"job", "statuses"} => v.kind = "status" /\ v.hosts = w.hosts
    PROVE  /\ ForRequests(With(rs, w.id, v), o, n, ws \cup {w})
           /\ InOnePlace(With(rs, w.id, v), o, n, ws \cup {w})
  <1> DEFINE i == w.id
             more == With(rs, i, v)
  <1>1. DOMAIN more = DOMAIN rs \cup {i} /\ more[i] = v /\ \A y \in DOMAIN rs : more[y] = rs[y]
    BY DEF With
  <1> HIDE DEF more
  <1>2. ForRequests(more, o, n, ws \cup {w})
    BY <1>1 DEF ForRequests, AnswersA
  <1>3. (\A k \in DOMAIN o : o[k].id # i) /\ (\A k \in DOMAIN n : n[k].id # i) /\ \A x \in ws : x.id # i
    BY DEF ForRequests, AnswersA
  <1>4. InOnePlace(more, o, n, ws \cup {w})
    BY <1>1, <1>3 DEF InOnePlace
  <1> QED
    BY <1>2, <1>4 DEF more

\* A request that is taken out and put back is the same.
LEMMA Moved ==
    ASSUME NEW rs, NEW i \in DOMAIN rs, rs = [x \in DOMAIN rs |-> rs[x]]
    PROVE  With(Without(rs, i), i, rs[i]) = rs /\ i \notin DOMAIN Without(rs, i)
  BY DEF With, Without

------------------------------------------------------\* The catalogs of answers and jobs are those of their requests as long as these stay.
LEMMA OneCatalogKept ==
    ASSUME NEW d, NEW rs, NEW rs2, NEW o, NEW n, NEW ws, NEW c, NEW moved,
           ForRequests(d, o, n, ws), \A y \in DOMAIN d : rs2[y] = rs[y],
           OfOneCatalog(rs, n, ws, c, moved)
    PROVE  OfOneCatalog(rs2, n, ws, c, moved)
  BY DEF ForRequests, AnswersA, OfOneCatalog

-----------------------
(* The steps *)

\* Request ids are fresh, and what has an id keeps it.
LEMMA IdsGrow ==
    ASSUME nextId \in Nat \ {0}, nextId' = nextId \/ nextId' = nextId + 1
    PROVE  /\ nextId' \in Nat \ {0} /\ Ids \subseteq Ids'
           /\ Requests \subseteq Requests' /\ Answers \subseteq Answers' /\ Jobs \subseteq Jobs'
           /\ Seq(Requests) \subseteq Seq(Requests') /\ Seq(Answers) \subseteq Seq(Answers')
           /\ nextId' = nextId + 1 => nextId \in Ids' /\ nextId \notin Ids
  <1>1. nextId' \in Nat \ {0} /\ Ids \subseteq Ids' /\ (nextId' = nextId + 1 => nextId \in Ids' /\ nextId \notin Ids)
    BY DEF Ids
  <1>2. Requests \subseteq Requests'
    BY <1>1 DEF Requests
  <1>3. Answers \subseteq Answers'
    BY <1>1 DEF Answers
  <1>4. Jobs \subseteq Jobs'
    BY <1>1 DEF Jobs
  <1> QED
    BY <1>1, <1>2, <1>3, <1>4, SeqMonotonic

\* Asking for the next batch of statuses keeps the tables and their places
\* (send_status_batch), also when there is no room or the send fails.
LEMMA AskKeeps ==
    ASSUME nextId \in Nat \ {0}, NEW rs, NEW l, NEW ws, NEW batches \in Seq(SUBSET Directory),
           NEW b \in Catalogs, NEW c, NEW moved,
           Ask(rs, l, b, batches),
           DOMAIN rs \subseteq Ids, rs \in [DOMAIN rs -> Asked], OneList(rs),
           l \in [up : BOOLEAN, out : Seq(Requests), in : Seq(Answers)],
           Consistent(rs, l, ws), OfOneCatalog(rs, l.in, ws, c, moved)
    PROVE  /\ nextId' = nextId \/ nextId' = nextId + 1
           /\ DOMAIN reqs' \subseteq Ids' /\ reqs' \in [DOMAIN reqs' -> Asked] /\ OneList(reqs')
           /\ session' \in [up : BOOLEAN, out : Seq(Requests'), in : Seq(Answers')]
           /\ session'.up => /\ Consistent(reqs', session', ws)
                             /\ OfOneCatalog(reqs', session'.in, ws, c, moved)
           /\ session'.in = l.in
  <1>1. CASE UNCHANGED nextId /\ reqs' = rs /\ (session' = l \/ session' = [l EXCEPT !.up = FALSE])
    <2>1. Ids' = Ids /\ Requests' = Requests /\ Answers' = Answers
      BY <1>1 DEF Ids, Requests, Answers
    <2> QED
      BY <1>1, <2>1
  <1>2. ASSUME batches # <<>>,
               reqs' = With(rs, nextId, [kind |-> "status", catalog |-> b, hosts |-> Head(batches),
                                         rest |-> Tail(batches)]),
               nextId' = nextId + 1,
               session' = [l EXCEPT !.out = Append(@, [id |-> nextId, kind |-> "status",
                                                       catalog |-> b, hosts |-> Head(batches)])]
        PROVE  /\ DOMAIN reqs' \subseteq Ids' /\ reqs' \in [DOMAIN reqs' -> Asked] /\ OneList(reqs')
               /\ session' \in [up : BOOLEAN, out : Seq(Requests'), in : Seq(Answers')]
               /\ Consistent(reqs', session', ws)
               /\ OfOneCatalog(reqs', session'.in, ws, c, moved)
               /\ session'.in = l.in
    <2> DEFINE v == [kind |-> "status", catalog |-> b, hosts |-> Head(batches), rest |-> Tail(batches)]
               q == [id |-> nextId, kind |-> "status", catalog |-> b, hosts |-> Head(batches)]
    <2>1. Head(batches) \in SUBSET Directory /\ Tail(batches) \in Seq(SUBSET Directory)
      BY <1>2, HeadTaken
    <2>2. /\ Ids \subseteq Ids' /\ nextId \in Ids' /\ nextId \notin Ids
          /\ Seq(Requests) \subseteq Seq(Requests') /\ Seq(Answers) \subseteq Seq(Answers')
      BY <1>2, IdsGrow
    <2>3. v \in Asked /\ v.kind = "status" /\ v.hosts = q.hosts /\ v.catalog = q.catalog
      BY <2>1 DEF Asked
    <2>4. q \in Requests' /\ q.id = nextId /\ q.kind = "status"
      BY <2>1, <2>2 DEF Requests
    <2> DEFINE more == With(rs, nextId, v)
               o == Append(l.out, q)
    <2>5. reqs' = more /\ session' = [l EXCEPT !.out = o]
      BY <1>2
    <2> HIDE DEF v, q
    <2>6. l.out \in Seq(Requests') /\ l.in \in Seq(Answers')
      BY <2>2
    <2>7. o \in Seq(Requests')
      BY <2>4, <2>6, Added
    <2>8. /\ DOMAIN more = DOMAIN rs \cup {nextId} /\ more \in [DOMAIN more -> Asked]
          /\ more[nextId] = v /\ \A y \in DOMAIN rs : more[y] = rs[y]
      <3>1. DOMAIN more = DOMAIN rs \cup {nextId}
        BY DEF With
      <3>2. more[nextId] = v /\ \A y \in DOMAIN rs : more[y] = rs[y]
        BY <2>2 DEF With
      <3>3. more = [y \in DOMAIN more |-> more[y]]
        BY DEF With
      <3> HIDE DEF more
      <3> QED
        BY <2>3, <3>1, <3>2, <3>3
    <2>9. OneList(more)
      BY <2>3, <2>8 DEF OneList
    <2>10. ForRequests(more, o, l.in, ws) /\ InOnePlace(more, o, l.in, ws)
      <3>1. nextId \notin DOMAIN rs
        BY <2>2
      <3> QED
        BY <2>3, <2>4, <2>6, <3>1, PutOutgoing DEF Consistent
    <2> HIDE DEF more, o
    <2>12. OfOneCatalog(more, l.in, ws, c, moved)
      BY <2>8, OneCatalogKept DEF Consistent
    <2>11. /\ session' \in [up : BOOLEAN, out : Seq(Requests'), in : Seq(Answers')]
           /\ session'.out = o /\ session'.in = l.in
      BY <2>5, <2>6, <2>7
    <2> QED
      BY <2>2, <2>5, <2>8, <2>9, <2>10, <2>11, <2>12 DEF Consistent
  <1> QED
    BY <1>1, <1>2 DEF Ask

\* An answer that arrives answers a request of its kind and hosts, and of its catalog unless
\* the session moved while the job ran.
LEMMA AnswerTaken ==
    ASSUME CatalogInv, session.up, session.in # <<>>
    PROVE  LET m == Head(session.in)
               l == [session EXCEPT !.in = Tail(@)]
               rs == Without(reqs, m.id) IN
           /\ m \in Answers /\ AnswersA(reqs, m)
           /\ m.kind = "statuses" => reqs[m.id].catalog = m.catalog \/ m.id \in overtaken
           /\ DOMAIN rs \subseteq Ids /\ rs \in [DOMAIN rs -> Asked] /\ OneList(rs)
           /\ l \in [up : BOOLEAN, out : Seq(Requests), in : Seq(Answers)] /\ l.up
           /\ Consistent(rs, l, Work) /\ OfOneCatalog(rs, l.in, Work, catalog, overtaken)
           /\ l.in = Tail(session.in) /\ Len(l.in) <= Len(session.in)
  <1> DEFINE m == Head(session.in)
             n == session.in
             o == session.out
             t == Tail(session.in)
             l == [session EXCEPT !.in = t]
             rs == Without(reqs, m.id)
  <1>1. /\ CatalogTyped /\ OneList(reqs) /\ Consistent(reqs, session, Work)
        /\ OfOneCatalog(reqs, n, Work, catalog, overtaken)
    BY DEF CatalogInv
  <1>2. n \in Seq(Answers) /\ o \in Seq(Requests) /\ n # <<>>
    BY <1>1 DEF CatalogTyped
  <1>3. /\ m \in Answers /\ t \in Seq(Answers) /\ 1 \in DOMAIN n /\ m = n[1]
        /\ \A k \in DOMAIN t : k + 1 \in DOMAIN n /\ t[k] = n[k + 1]
    BY <1>2, HeadTaken
  <1>4. Len(t) <= Len(n)
    <2> HIDE DEF n
    <2>1. Len(n) \in Nat /\ Len(n) # 0 /\ Len(Tail(n)) = Len(n) - 1
      BY <1>2, HeadTailProperties, EmptySeq
    <2> QED
      BY <2>1 DEF n
  <1>5. ForRequests(rs, o, t, Work) /\ InOnePlace(rs, o, t, Work) /\ AnswersA(reqs, m)
    BY <1>1, <1>2, TakeIncoming DEF Consistent
  <1>6. DOMAIN rs \subseteq Ids /\ rs \in [DOMAIN rs -> Asked] /\ OneList(rs)
    BY <1>1 DEF CatalogTyped, Without, OneList
  <1>7. l \in [up : BOOLEAN, out : Seq(Requests), in : Seq(Answers)] /\ l.up /\ l.out = o /\ l.in = t
    BY <1>1, <1>3 DEF CatalogTyped
  <1>8. \A y \in DOMAIN rs : rs[y] = reqs[y]
    BY DEF Without
  <1> HIDE DEF rs, l, t, o, n, m
  <1>9. /\ OfOneCatalog(reqs, t, Work, catalog, overtaken)
        /\ m.kind = "statuses" => reqs[m.id].catalog = m.catalog \/ m.id \in overtaken
    BY <1>1, <1>3 DEF OfOneCatalog
  <1>10. OfOneCatalog(rs, t, Work, catalog, overtaken)
    BY <1>5, <1>8, <1>9, OneCatalogKept
  <1> QED
    BY <1>3, <1>4, <1>5, <1>6, <1>7, <1>9, <1>10 DEF Consistent, rs, l, t, n, m

\* The batches of a directory are sets of its hosts.
LEMMA BatchesKnown ==
    ASSUME CatalogAssumption, NEW hs \in SUBSET Directory
    PROVE  Batches(hs) \in Seq(SUBSET Directory)
  <1> DEFINE c == Cardinality(hs)
             top == (c + BatchSize - 1) \div BatchSize
  <1>1. c \in Nat
    <2>1. IsFiniteSet(hs)
      BY FS_Subset DEF CatalogAssumption
    <2> QED
      BY <2>1, FS_CardinalityType
  <1>2. top \in Nat
    <2> HIDE DEF c
    <2>1. c + BatchSize - 1 \in Nat /\ BatchSize \in Nat \ {0}
      BY <1>1 DEF CatalogAssumption
    <2> QED
      BY <2>1
  <1>3. Batches(hs) \in [1..top -> SUBSET Directory]
    BY DEF Batches
  <1> QED
    BY <1>2, <1>3

\* handle_server_event of a list, of statuses and of an error keeps the invariant, and
\* rejects nothing but statuses the session's move has overtaken.
LEMMA PollAnswerKeeps ==
    ASSUME CatalogAssumption, CatalogInv, PollAnswer
    PROVE  CatalogInv' /\ Len(session'.in) <= Len(session.in)
  <1> DEFINE m == Head(session.in)
             l == [session EXCEPT !.in = Tail(@)]
             rs == Without(reqs, m.id)
  <1>1. /\ CatalogTyped /\ AnswersAccepted /\ nextId \in Nat \ {0}
        /\ OneList(reqs) /\ ReadAllowed(hand, policy.hosts, revoked)
    BY DEF CatalogInv, CatalogTyped
  <1>2. /\ session.up /\ session.in # <<>>
        /\ \/ m.kind = "hosts" /\ HandleHosts(m, l)
           \/ m.kind = "statuses" /\ HandleStatuses(m, l)
           \/ m.kind = "error" /\ HandleRefusal(m, l)
        /\ UNCHANGED <<jobs, hand, catalog, policy, revoked, overtaken>> /\ Work' = Work
    BY DEF PollAnswer, serverVars, Work
  <1>3. /\ m \in Answers /\ AnswersA(reqs, m)
        /\ m.kind = "statuses" => reqs[m.id].catalog = m.catalog \/ m.id \in overtaken
        /\ DOMAIN rs \subseteq Ids /\ rs \in [DOMAIN rs -> Asked] /\ OneList(rs)
        /\ l \in [up : BOOLEAN, out : Seq(Requests), in : Seq(Answers)] /\ l.up
        /\ Consistent(rs, l, Work) /\ OfOneCatalog(rs, l.in, Work, catalog, overtaken)
        /\ Len(l.in) <= Len(session.in)
    BY <1>2, AnswerTaken
  <1> HIDE DEF m, l, rs
  <1>4. /\ shown'.known \subseteq shown'.hosts
        /\ \/ /\ rejected' = rejected
              /\ \E b \in Catalogs, batches \in Seq(SUBSET Directory) : Ask(rs, l, b, batches)
           \/ rejected' = rejected /\ reqs' = rs /\ session' = l /\ UNCHANGED nextId
           \/ RejectAnswer(m) /\ m.id \in overtaken
    <2>1. CASE m.kind = "hosts" /\ HandleHosts(m, l)
      <3>1. m.hosts \in SUBSET Directory /\ m.catalog \in Catalogs
        BY <1>3, <2>1 DEF Answers
      <3> QED
        BY <1>3, <2>1, <3>1, BatchesKnown DEF HandleHosts, AnswersA, rs
    <2>2. CASE m.kind = "statuses" /\ HandleStatuses(m, l)
      <3>1. reqs[m.id] \in Asked /\ reqs[m.id].kind = "status"
        BY <1>1, <1>3, <2>2 DEF CatalogTyped, AnswersA
      <3>2. reqs[m.id].rest \in Seq(SUBSET Directory)
        BY <3>1 DEF Asked
      <3>3. m.catalog \in Catalogs
        BY <1>3, <2>2 DEF Answers
      <3>4. CASE Unexpected(m)
        <4>1. m.id \in overtaken
          BY <1>3, <2>2, <3>4 DEF Unexpected, AnswersA
        <4>2. RejectAnswer(m)
          BY <2>2, <3>4 DEF HandleStatuses
        <4> QED
          BY <1>1, <4>1, <4>2 DEF RejectAnswer, CatalogTyped
      <3>5. CASE ~Unexpected(m)
        <4>1. shown' = Known(m) /\ Ask(rs, l, m.catalog, reqs[m.id].rest) /\ rejected' = rejected
          BY <2>2, <3>5 DEF HandleStatuses, rs
        <4>2. shown'.known \subseteq shown'.hosts
          BY <1>1, <4>1 DEF CatalogTyped, Known
        <4> QED
          BY <3>2, <3>3, <4>1, <4>2
      <3> QED
        BY <3>4, <3>5
    <2>3. CASE m.kind = "error" /\ HandleRefusal(m, l)
      <3>1. /\ shown' = [shown EXCEPT !.error = TRUE]
            /\ reqs' = rs /\ session' = l /\ UNCHANGED <<nextId, rejected>>
        BY <1>3, <2>3 DEF HandleRefusal, AnswersA, rs
      <3>2. shown'.known \subseteq shown'.hosts
        BY <1>1, <3>1 DEF CatalogTyped
      <3> QED
        BY <3>1, <3>2
    <2> QED
      BY <1>2, <2>1, <2>2, <2>3
  <1>5. /\ nextId' = nextId \/ nextId' = nextId + 1
        /\ DOMAIN reqs' \subseteq Ids' /\ reqs' \in [DOMAIN reqs' -> Asked] /\ OneList(reqs')
        /\ session' \in [up : BOOLEAN, out : Seq(Requests'), in : Seq(Answers')]
        /\ session'.up => /\ Consistent(reqs', session', Work)
                          /\ OfOneCatalog(reqs', session'.in, Work, catalog, overtaken)
        /\ session'.in = l.in \/ session'.in = session.in
        /\ rejected' \subseteq overtaken
    <2>1. CASE /\ rejected' = rejected
               /\ \E b \in Catalogs, batches \in Seq(SUBSET Directory) : Ask(rs, l, b, batches)
      BY <1>1, <1>3, <2>1, AskKeeps DEF AnswersAccepted
    <2>2. CASE rejected' = rejected /\ reqs' = rs /\ session' = l /\ UNCHANGED nextId
      BY <1>1, <1>3, <2>2 DEF Ids, Requests, Answers, AnswersAccepted
    <2>3. CASE RejectAnswer(m) /\ m.id \in overtaken
      <3>1. /\ rejected' = rejected \cup {m.id} /\ session' = [session EXCEPT !.up = FALSE]
            /\ UNCHANGED <<reqs, nextId>>
        BY <2>3 DEF RejectAnswer, CloseSession
      <3>2. Ids' = Ids /\ Requests' = Requests /\ Answers' = Answers
        BY <3>1 DEF Ids, Requests, Answers
      <3> QED
        BY <1>1, <2>3, <3>1, <3>2 DEF CatalogTyped, AnswersAccepted
    <2> QED
      BY <1>4, <2>1, <2>2, <2>3
  <1>6. CatalogTyped'
    BY <1>1, <1>2, <1>4, <1>5, IdsGrow DEF CatalogTyped
  <1> QED
    BY <1>1, <1>2, <1>3, <1>5, <1>6 DEF CatalogInv, AnswersAccepted

\* Sending the list request keeps the invariant.
LEMMA SendListKeeps ==
    ASSUME CatalogInv, SendList
    PROVE  CatalogInv' /\ session'.in = session.in
  <1>1. /\ CatalogTyped /\ OneList(reqs) /\ AnswersAccepted /\ Consistent(reqs, session, Work)
        /\ OfOneCatalog(reqs, session.in, Work, catalog, overtaken)
        /\ ReadAllowed(hand, policy.hosts, revoked) /\ nextId \in Nat \ {0}
    BY DEF CatalogInv, CatalogTyped, SendList
  <1>2. UNCHANGED <<jobs, hand, catalog, policy, revoked, overtaken, shown, rejected>> /\ Work' = Work
    BY DEF SendList, serverVars, Work
  <1>3. CASE UNCHANGED <<reqs, nextId>> /\ (UNCHANGED session \/ CloseSession)
    <2>1. Ids' = Ids /\ Requests' = Requests /\ Answers' = Answers /\ Jobs' = Jobs
      BY <1>3 DEF Ids, Requests, Answers, Jobs
    <2>2. CatalogTyped' /\ session'.in = session.in
      BY <1>1, <1>2, <1>3, <2>1 DEF CatalogTyped, CloseSession
    <2>3. session'.up => /\ Consistent(reqs', session', Work)
                         /\ OfOneCatalog(reqs', session'.in, Work, catalog, overtaken)
      BY <1>1, <1>2, <1>3 DEF CloseSession, CatalogTyped
    <2> QED
      BY <1>1, <1>2, <1>3, <2>2, <2>3 DEF CatalogInv, AnswersAccepted
  <1>4. ASSUME ~Listing,
               reqs' = With(reqs, nextId, [kind |-> "list"]), nextId' = nextId + 1,
               session' = [session EXCEPT !.out = Append(@, [id |-> nextId, kind |-> "list"])]
        PROVE  CatalogInv' /\ session'.in = session.in
    <2> DEFINE v == [kind |-> "list"]
               q == [id |-> nextId, kind |-> "list"]
               more == With(reqs, nextId, v)
               o == Append(session.out, q)
    <2>1. /\ nextId' \in Nat \ {0} /\ Ids \subseteq Ids' /\ nextId \in Ids' /\ nextId \notin Ids
          /\ Jobs \subseteq Jobs' /\ Answers \subseteq Answers'
          /\ Seq(Requests) \subseteq Seq(Requests') /\ Seq(Answers) \subseteq Seq(Answers')
      BY <1>1, <1>4, IdsGrow
    <2>2. v \in Asked /\ v.kind = "list"
      BY DEF Asked
    <2>3. q \in Requests' /\ q.id = nextId /\ q.kind = "list"
      BY <2>1 DEF Requests
    <2>4. reqs' = more /\ session' = [session EXCEPT !.out = o]
      BY <1>4
    <2> HIDE DEF v, q
    <2>5. session.out \in Seq(Requests') /\ session.in \in Seq(Answers')
      BY <1>1, <2>1 DEF CatalogTyped
    <2>6. o \in Seq(Requests')
      BY <2>3, <2>5, Added
    <2>7. /\ DOMAIN more = DOMAIN reqs \cup {nextId} /\ more \in [DOMAIN more -> Asked]
          /\ more[nextId] = v /\ \A y \in DOMAIN reqs : more[y] = reqs[y]
      <3>1. DOMAIN more = DOMAIN reqs \cup {nextId}
        BY DEF With
      <3>2. more[nextId] = v /\ \A y \in DOMAIN reqs : more[y] = reqs[y]
        BY <1>1, <2>1 DEF With, CatalogTyped
      <3>3. more = [y \in DOMAIN more |-> more[y]]
        BY DEF With
      <3> HIDE DEF more
      <3> QED
        BY <1>1, <2>2, <3>1, <3>2, <3>3 DEF CatalogTyped
    <2>8. OneList(more)
      BY <1>4, <2>2, <2>7 DEF OneList, Listing
    <2>9. ForRequests(more, o, session.in, Work) /\ InOnePlace(more, o, session.in, Work)
      <3>1. nextId \notin DOMAIN reqs
        BY <1>1, <2>1 DEF CatalogTyped
      <3> QED
        BY <1>1, <2>2, <2>3, <2>5, <3>1, PutOutgoing DEF Consistent
    <2> HIDE DEF more, o
    <2>10. /\ session' \in [up : BOOLEAN, out : Seq(Requests'), in : Seq(Answers')]
           /\ session'.out = o /\ session'.in = session.in
      BY <1>1, <2>4, <2>5, <2>6 DEF CatalogTyped
    <2>11. DOMAIN reqs' \subseteq Ids' /\ reqs' \in [DOMAIN reqs' -> Asked]
      BY <1>1, <2>1, <2>4, <2>7 DEF CatalogTyped
    <2>12. CatalogTyped'
      BY <1>1, <1>2, <2>1, <2>10, <2>11 DEF CatalogTyped
    <2>13. OfOneCatalog(reqs', session'.in, Work', catalog', overtaken')
      <3>1. OfOneCatalog(more, session.in, Work, catalog, overtaken)
        BY <1>1, <2>7, OneCatalogKept DEF Consistent
      <3> QED
        BY <1>2, <2>4, <2>10, <3>1
    <2>14. Consistent(reqs', session', Work')
      BY <1>2, <2>4, <2>9, <2>10 DEF Consistent
    <2>15. ReadAllowed(hand', policy'.hosts, revoked') /\ rejected' \subseteq overtaken'
      BY <1>1, <1>2 DEF AnswersAccepted
    <2> QED
      BY <2>4, <2>8, <2>10, <2>12, <2>13, <2>14, <2>15 DEF CatalogInv, AnswersAccepted
  <1> QED
    BY <1>3, <1>4 DEF SendList

\* The session's steps draw no ids and touch no request.
LEMMA SessionKeeps ==
    ASSUME CatalogInv, session.up,
           UNCHANGED <<clientVars, catalog, policy, overtaken>>,
           jobs' \subseteq Jobs, hand' \subseteq Answers,
           session' \in [up : BOOLEAN, out : Seq(Requests), in : Seq(Answers)],
           Consistent(reqs, session', Work'),
           OfOneCatalog(reqs, session'.in, Work', catalog, overtaken),
           ReadAllowed(hand', policy.hosts, revoked')
    PROVE  CatalogInv'
  <1>1. /\ Ids' = Ids /\ Requests' = Requests /\ Answers' = Answers /\ Jobs' = Jobs
        /\ UNCHANGED <<nextId, reqs, shown, rejected>>
    BY DEF Ids, Requests, Answers, Jobs, clientVars
  <1>2. CatalogTyped'
    BY <1>1 DEF CatalogInv, CatalogTyped
  <1> QED
    BY <1>1, <1>2 DEF CatalogInv, AnswersAccepted

\* A thread that is idle holds jobs only.
LEMMA IdleWork ==
    ASSUME CatalogInv, Idle
    PROVE  /\ CatalogTyped /\ OneList(reqs) /\ AnswersAccepted /\ Consistent(reqs, session, Work)
           /\ OfOneCatalog(reqs, session.in, Work, catalog, overtaken)
           /\ session.up /\ session.out \in Seq(Requests) /\ session.in \in Seq(Answers)
           /\ hand = {} /\ Work = jobs /\ jobs \subseteq Jobs
           /\ reqs = [x \in DOMAIN reqs |-> reqs[x]]
  BY DEF CatalogInv, CatalogTyped, Idle, Work

\* The session takes a request in hand: it is answered, and a status may become a job.
LEMMA ServeRequestKeeps ==
    ASSUME CatalogInv, ServeRequest
    PROVE  CatalogInv' /\ session'.in = session.in
  <1> DEFINE q == Head(session.out)
             o == Tail(session.out)
             n == session.in
             less == Without(reqs, q.id)
  <1>1. /\ CatalogTyped /\ OneList(reqs) /\ AnswersAccepted /\ Consistent(reqs, session, Work)
        /\ OfOneCatalog(reqs, session.in, Work, catalog, overtaken)
        /\ session.up /\ session.out \in Seq(Requests) /\ n \in Seq(Answers)
        /\ hand = {} /\ Work = jobs /\ jobs \subseteq Jobs
        /\ reqs = [x \in DOMAIN reqs |-> reqs[x]]
    BY IdleWork DEF ServeRequest
  <1>2. /\ session.out # <<>> /\ session' = [session EXCEPT !.out = o]
        /\ UNCHANGED <<clientVars, catalog, policy, overtaken, revoked>>
        /\ ServeList(q) \/ ServeStatuses(q)
    BY DEF ServeRequest
  <1>3. q \in Requests /\ o \in Seq(Requests)
    BY <1>1, <1>2, HeadTaken
  <1>4. /\ ForRequests(less, o, n, jobs) /\ InOnePlace(less, o, n, jobs)
        /\ q.id \in DOMAIN reqs /\ reqs[q.id].kind = q.kind
        /\ q.kind = "status" => reqs[q.id].hosts = q.hosts /\ reqs[q.id].catalog = q.catalog
    BY <1>1, <1>2, TakeOutgoing DEF Consistent
  <1>5. With(less, q.id, reqs[q.id]) = reqs /\ q.id \notin DOMAIN less
    BY <1>1, <1>4, Moved
  <1>6. /\ session' \in [up : BOOLEAN, out : Seq(Requests), in : Seq(Answers)]
        /\ session'.out = o /\ session'.in = n
    BY <1>1, <1>2, <1>3 DEF CatalogTyped
  <1>7. \E w \in Answers \cup Jobs :
            /\ w.id = q.id
            /\ w.kind = "hosts" => q.kind = "list" /\ w.hosts \subseteq policy.hosts
            /\ w.kind # "statuses"
            /\ w.kind = "job" => q.kind = "status" /\ w.hosts = q.hosts /\ q.catalog = catalog
            /\ \/ w \in Answers /\ hand' = {w} /\ jobs' = jobs
               \/ w \in Jobs /\ hand' = {} /\ jobs' = jobs \cup {w}
    <2>1. q.id \in Ids /\ policy.hosts \subseteq HostsOf(policy.catalog) /\ catalog \in Catalogs
          /\ HostsOf(catalog) \subseteq Directory
      BY <1>1, <1>4 DEF CatalogTyped, Directory
    <2>2. CASE ServeList(q)
      <3> DEFINE h == Hosts_(q.id, catalog, HostsOf(catalog) \cap policy.hosts)
      <3>1. /\ h \in Answers /\ h.kind = "hosts" /\ h.id = q.id /\ h.hosts \subseteq policy.hosts
            /\ Error_(q.id) \in Answers /\ Error_(q.id).kind = "error" /\ Error_(q.id).id = q.id
        BY <2>1 DEF Hosts_, Error_, Answers
      <3>2. q.kind = "list" /\ hand' \in {{h}, {Error_(q.id)}} /\ jobs' = jobs
        BY <2>2 DEF ServeList
      <3> HIDE DEF h, q
      <3> QED
        BY <3>1, <3>2
    <2>3. CASE ServeStatuses(q)
      <3> DEFINE j == [kind |-> "job", id |-> q.id, hosts |-> q.hosts]
      <3>1. q.kind = "status"
        BY <2>3 DEF ServeStatuses
      <3>2. /\ Error_(q.id) \in Answers /\ Error_(q.id).kind = "error" /\ Error_(q.id).id = q.id
            /\ j \in Jobs /\ j.kind = "job" /\ j.id = q.id /\ j.hosts = q.hosts
        BY <1>3, <2>1, <3>1 DEF Error_, Answers, Requests, Jobs
      <3>3. \/ hand' = {Error_(q.id)} /\ jobs' = jobs
            \/ q.catalog = catalog /\ jobs' = jobs \cup {j} /\ hand' = {}
        BY <1>1, <2>3 DEF ServeStatuses, Probed
      <3> HIDE DEF j, q
      <3> QED
        BY <3>1, <3>2, <3>3
    <2> QED
      BY <1>2, <2>2, <2>3
  <1> HIDE DEF q, o, n, less
  <1>8. PICK w \in Answers \cup Jobs :
            /\ w.id = q.id
            /\ w.kind = "hosts" => q.kind = "list" /\ w.hosts \subseteq policy.hosts
            /\ w.kind # "statuses"
            /\ w.kind = "job" => q.kind = "status" /\ w.hosts = q.hosts /\ q.catalog = catalog
            /\ \/ w \in Answers /\ hand' = {w} /\ jobs' = jobs
               \/ w \in Jobs /\ hand' = {} /\ jobs' = jobs \cup {w}
    BY <1>7
  <1>9. Work' = jobs \cup {w}
    BY <1>8 DEF Work
  <1>10. /\ w.kind = "hosts" => reqs[w.id].kind = "list"
         /\ w.kind \in {"job", "statuses"} => reqs[w.id].kind = "status" /\ reqs[w.id].hosts = w.hosts
         /\ w.kind = "job" => reqs[w.id].catalog = catalog
    BY <1>4, <1>8
  <1>11. ForRequests(reqs, o, n, Work') /\ InOnePlace(reqs, o, n, Work')
    <2> DEFINE v == reqs[q.id]
    <2>1. /\ With(less, w.id, v) = reqs /\ w.id \notin DOMAIN less
          /\ w.kind = "hosts" => v.kind = "list"
          /\ w.kind \in {"job", "statuses"} => v.kind = "status" /\ v.hosts = w.hosts
      BY <1>5, <1>8, <1>10
    <2> HIDE DEF v
    <2>2. ForRequests(With(less, w.id, v), o, n, jobs \cup {w})
      BY <1>4, <2>1, PutWork
    <2>3. InOnePlace(With(less, w.id, v), o, n, jobs \cup {w})
      BY <1>4, <2>1, PutWork
    <2> QED
      BY <1>9, <2>1, <2>2, <2>3
  <1>12. OfOneCatalog(reqs, n, Work', catalog, overtaken)
    BY <1>1, <1>8, <1>9, <1>10 DEF OfOneCatalog, n
  <1>13. jobs' \subseteq Jobs /\ hand' \subseteq Answers
    BY <1>1, <1>8
  <1>14. ReadAllowed(hand', policy.hosts, revoked')
    <2>1. w \in Answers => w.kind \in {"hosts", "statuses", "error"}
      BY DEF Answers
    <2> QED
      BY <1>8, <2>1 DEF ReadAllowed
  <1>15. CatalogInv'
    BY <1>1, <1>2, <1>6, <1>11, <1>12, <1>13, <1>14, SessionKeeps DEF Consistent
  <1> QED
    BY <1>6, <1>15 DEF n

\* A finished or interrupted job leaves an answer, of hosts that are allowed at that moment
\* (service_status_jobs).
LEMMA FinishJobKeeps ==
    ASSUME CatalogInv, FinishJob
    PROVE  CatalogInv' /\ session'.in = session.in
  <1>1. /\ CatalogTyped /\ OneList(reqs) /\ AnswersAccepted /\ Consistent(reqs, session, Work)
        /\ OfOneCatalog(reqs, session.in, Work, catalog, overtaken)
        /\ session.up /\ session.out \in Seq(Requests) /\ session.in \in Seq(Answers)
        /\ hand = {} /\ Work = jobs /\ jobs \subseteq Jobs
        /\ reqs = [x \in DOMAIN reqs |-> reqs[x]]
    BY IdleWork DEF FinishJob
  <1>2. PICK j \in jobs : jobs' = jobs \ {j} /\ hand' \in {{JobAnswer(j)}, {Error_(j.id)}}
    BY DEF FinishJob
  <1>3. UNCHANGED <<clientVars, catalog, policy, overtaken, session, revoked>>
    BY DEF FinishJob
  <1> DEFINE n == session.in
             o == session.out
             less == Without(reqs, j.id)
             rest == jobs \ {j}
  <1>4. j.id \in Ids /\ j.hosts \in SUBSET Directory /\ j.kind = "job" /\ catalog \in Catalogs
    BY <1>1 DEF CatalogTyped, Jobs
  <1>5. PICK a \in {Statuses_(j.id, catalog, j.hosts), Error_(j.id)} :
            hand' = {a} /\ (a = Error_(j.id) \/ j.hosts \subseteq policy.hosts)
    BY <1>2 DEF JobAnswer
  <1>6. /\ a \in Answers /\ a.id = j.id /\ a.kind \in {"statuses", "error"}
        /\ a.kind = "statuses" => /\ a.hosts = j.hosts /\ a.catalog = catalog
                                  /\ j.hosts \subseteq policy.hosts
    BY <1>4, <1>5 DEF Statuses_, Error_, Answers
  <1>7. /\ ForRequests(less, o, n, rest) /\ InOnePlace(less, o, n, rest)
        /\ j.id \in DOMAIN reqs /\ reqs[j.id].kind = "status" /\ reqs[j.id].hosts = j.hosts
    <2>1. ForRequests(reqs, o, n, jobs) /\ InOnePlace(reqs, o, n, jobs)
      BY <1>1 DEF Consistent
    <2> HIDE DEF o, n, less, rest
    <2>2. ForRequests(Without(reqs, j.id), o, n, jobs \ {j})
      BY <2>1, TakeWork
    <2>3. InOnePlace(Without(reqs, j.id), o, n, jobs \ {j})
      BY <2>1, TakeWork
    <2>4. j.id \in DOMAIN reqs /\ reqs[j.id].kind = "status" /\ reqs[j.id].hosts = j.hosts
      BY <1>4, <2>1 DEF ForRequests, AnswersA
    <2> QED
      BY <2>2, <2>3, <2>4 DEF less, rest
  <1>8. With(less, j.id, reqs[j.id]) = reqs /\ j.id \notin DOMAIN less
    BY <1>1, <1>7, Moved
  <1>9. Work' = rest \cup {a}
    BY <1>2, <1>5 DEF Work
  <1> HIDE DEF less, rest, o, n
  <1>10. ForRequests(reqs, o, n, rest \cup {a}) /\ InOnePlace(reqs, o, n, rest \cup {a})
    <2> DEFINE v == reqs[j.id]
    <2>1. /\ With(less, a.id, v) = reqs /\ a.id \notin DOMAIN less
          /\ a.kind = "hosts" => v.kind = "list"
          /\ a.kind \in {"job", "statuses"} => v.kind = "status" /\ v.hosts = a.hosts
      BY <1>6, <1>7, <1>8
    <2> HIDE DEF v
    <2>2. ForRequests(With(less, a.id, v), o, n, rest \cup {a})
      BY <1>7, <2>1, PutWork
    <2>3. InOnePlace(With(less, a.id, v), o, n, rest \cup {a})
      BY <1>7, <2>1, PutWork
    <2> QED
      BY <2>1, <2>2, <2>3
  <1>11. OfOneCatalog(reqs, n, rest \cup {a}, catalog, overtaken)
    BY <1>1, <1>4, <1>6 DEF OfOneCatalog, n, rest
  <1>12. jobs' \subseteq Jobs /\ hand' \subseteq Answers
    BY <1>1, <1>2, <1>5, <1>6
  <1>13. ReadAllowed(hand', policy.hosts, revoked')
    BY <1>5, <1>6 DEF ReadAllowed
  <1>14. session' \in [up : BOOLEAN, out : Seq(Requests), in : Seq(Answers)]
    BY <1>1, <1>3 DEF CatalogTyped
  <1>15. CatalogInv'
    BY <1>1, <1>3, <1>9, <1>10, <1>11, <1>12, <1>13, <1>14, SessionKeeps DEF Consistent, o, n
  <1> QED
    BY <1>3, <1>15

\* The answer in hand goes out, of hosts that are allowed or were when it was begun.
LEMMA SendAnswerKeeps ==
    ASSUME CatalogInv, SendAnswer
    PROVE  /\ CatalogInv'
           /\ \E a \in Answers : /\ a.kind # "error" => a.hosts \subseteq policy.hosts \cup revoked
                                 /\ session'.in = Append(session.in, a)
  <1>1. /\ CatalogTyped /\ Consistent(reqs, session, Work)
        /\ OfOneCatalog(reqs, session.in, Work, catalog, overtaken)
        /\ ReadAllowed(hand, policy.hosts, revoked)
        /\ session.up /\ session.out \in Seq(Requests) /\ session.in \in Seq(Answers)
        /\ hand \subseteq Answers /\ jobs \subseteq Jobs /\ reqs = [x \in DOMAIN reqs |-> reqs[x]]
    BY DEF CatalogInv, CatalogTyped, SendAnswer
  <1>2. PICK a \in hand : session' = [session EXCEPT !.in = Append(@, a)]
    BY DEF SendAnswer
  <1>3. hand' = {} /\ revoked' = {} /\ jobs' = jobs /\ UNCHANGED <<clientVars, catalog, policy, overtaken>>
    BY DEF SendAnswer
  <1> DEFINE n == session.in
             o == session.out
             less == Without(reqs, a.id)
             n2 == Append(n, a)
  <1>4. /\ a \in Answers /\ a.kind # "job" /\ a \notin jobs
        /\ hand = {a} /\ (a.kind # "error" => a.hosts \subseteq policy.hosts \cup revoked)
    <2>1. a \in Answers /\ (\A j \in jobs : j.kind = "job")
      BY <1>1 DEF Jobs
    <2>2. a.kind \in {"hosts", "statuses", "error"}
      BY <2>1 DEF Answers
    <2> QED
      BY <1>1, <2>1, <2>2 DEF ReadAllowed
  <1>5. Work = jobs \cup {a} /\ Work \ {a} = jobs /\ Work' = jobs /\ a \in Work
    BY <1>3, <1>4 DEF Work
  <1>6. /\ ForRequests(less, o, n, jobs) /\ InOnePlace(less, o, n, jobs) /\ AnswersA(reqs, a)
    <2>1. ForRequests(reqs, o, n, Work) /\ InOnePlace(reqs, o, n, Work)
      BY <1>1 DEF Consistent
    <2> HIDE DEF o, n, less
    <2>2. ForRequests(Without(reqs, a.id), o, n, Work \ {a})
      BY <1>5, <2>1, TakeWork
    <2>3. InOnePlace(Without(reqs, a.id), o, n, Work \ {a})
      BY <1>5, <2>1, TakeWork
    <2>4. AnswersA(reqs, a)
      BY <1>5, <2>1 DEF ForRequests
    <2> QED
      BY <1>5, <2>2, <2>3, <2>4 DEF less
  <1>7. With(less, a.id, reqs[a.id]) = reqs /\ a.id \notin DOMAIN less
    BY <1>1, <1>6, Moved DEF AnswersA
  <1>8. n2 \in Seq(Answers) /\ DOMAIN n2 = DOMAIN n \cup {Len(n) + 1} /\ n2[Len(n) + 1] = a
        /\ \A k \in DOMAIN n : n2[k] = n[k]
    BY <1>1, <1>4, Added
  <1>9. /\ session' \in [up : BOOLEAN, out : Seq(Requests), in : Seq(Answers)]
        /\ session'.out = o /\ session'.in = n2
    BY <1>1, <1>2, <1>8 DEF CatalogTyped
  <1> HIDE DEF less, o
  <1>10. ForRequests(reqs, o, n2, jobs) /\ InOnePlace(reqs, o, n2, jobs)
    <2> DEFINE v == reqs[a.id]
    <2>1. /\ With(less, a.id, v) = reqs /\ a.id \notin DOMAIN less
          /\ a.kind = "hosts" => v.kind = "list"
          /\ a.kind \in {"job", "statuses"} => v.kind = "status" /\ v.hosts = a.hosts
      BY <1>6, <1>7 DEF AnswersA
    <2> HIDE DEF v, n, n2
    <2>2. ForRequests(With(less, a.id, v), o, Append(n, a), jobs)
      BY <1>1, <1>4, <1>6, <2>1, PutIncoming DEF n
    <2>3. InOnePlace(With(less, a.id, v), o, Append(n, a), jobs)
      BY <1>1, <1>4, <1>6, <2>1, PutIncoming DEF n
    <2> QED
      BY <2>1, <2>2, <2>3 DEF n2
  <1> HIDE DEF n2
  <1>11. OfOneCatalog(reqs, n2, jobs, catalog, overtaken)
    BY <1>1, <1>5, <1>8 DEF OfOneCatalog
  <1>12. ReadAllowed(hand', policy.hosts, revoked')
    BY <1>3 DEF ReadAllowed
  <1>13. CatalogInv'
    BY <1>1, <1>3, <1>5, <1>9, <1>10, <1>11, <1>12, SessionKeeps DEF Consistent
  <1> QED
    BY <1>4, <1>9, <1>13 DEF n2

\* Refreshes, reconnects, policies, the session's checks and lost connections keep the
\* invariant: a session that moves leaves no running job behind that it does not note.
LEMMA OthersKeep ==
    ASSUME CatalogInv,
           Refresh \/ Reconnect \/ Reload \/ Check \/ Adopt \/ Lose \/ UNCHANGED catalogVars
    PROVE  CatalogInv' /\ (session'.in = session.in \/ session'.in = <<>>)
  <1>1. /\ CatalogTyped /\ OneList(reqs) /\ AnswersAccepted
        /\ ReadAllowed(hand, policy.hosts, revoked)
    BY DEF CatalogInv
  <1>2. /\ UNCHANGED <<nextId, shown, rejected>>
        /\ Ids' = Ids /\ Requests' = Requests /\ Answers' = Answers /\ Jobs' = Jobs
    BY DEF Refresh, Reconnect, Reload, Check, Adopt, Lose, catalogVars, clientVars, serverVars,
           Ids, Requests, Answers, Jobs
  <1>3. CASE Reconnect
    <2>1. /\ reqs' = NoReqs /\ jobs' = {} /\ hand' = {} /\ session' = Fresh
          /\ catalog' = policy.catalog /\ UNCHANGED <<policy, overtaken>>
      BY <1>3 DEF Reconnect
    <2>2. DOMAIN NoReqs = {} /\ NoReqs \in [DOMAIN NoReqs -> Asked] /\ OneList(NoReqs)
      BY DEF NoReqs, OneList
    <2>3. /\ Fresh \in [up : BOOLEAN, out : Seq(Requests), in : Seq(Answers)]
          /\ Fresh.out = <<>> /\ Fresh.in = <<>>
      BY DEF Fresh
    <2>4. /\ Work' = {} /\ Consistent(NoReqs, Fresh, {}) /\ ReadAllowed({}, policy.hosts, revoked')
          /\ OfOneCatalog(NoReqs, <<>>, {}, catalog', overtaken)
      BY <2>1, <2>2, <2>3 DEF Consistent, ForRequests, InOnePlace, OfOneCatalog, ReadAllowed, Work
    <2>5. CatalogTyped'
      BY <1>1, <1>2, <2>1, <2>2, <2>3 DEF CatalogTyped
    <2> QED
      BY <1>1, <1>2, <2>1, <2>2, <2>3, <2>4, <2>5 DEF CatalogInv, AnswersAccepted
  <1>4. CASE Refresh \/ UNCHANGED catalogVars
    <2>1. UNCHANGED <<reqs, session, jobs, hand, catalog, policy, revoked, overtaken>> /\ Work' = Work
      BY <1>4 DEF Refresh, catalogVars, clientVars, serverVars, Work
    <2>2. CatalogTyped'
      BY <1>1, <1>2, <2>1 DEF CatalogTyped
    <2> QED
      BY <1>1, <1>2, <2>1, <2>2 DEF CatalogInv, AnswersAccepted
  <1>5. CASE Reload
    <2>1. /\ UNCHANGED <<reqs, session, jobs, hand, catalog, overtaken>> /\ Work' = Work
          /\ policy'.catalog \in Catalogs /\ policy'.hosts \subseteq HostsOf(policy'.catalog)
      BY <1>5 DEF Reload, Published, clientVars, Work
    <2>2. CatalogTyped'
      BY <1>1, <1>2, <2>1 DEF CatalogTyped
    <2>3. ReadAllowed(hand', policy'.hosts, revoked')
      <3>1. hand = {} \/ revoked' = revoked \cup (policy.hosts \ policy'.hosts)
        BY <1>5 DEF Reload
      <3> QED
        BY <1>1, <2>1, <3>1 DEF ReadAllowed
    <2> QED
      BY <1>1, <1>2, <2>1, <2>2, <2>3 DEF CatalogInv, AnswersAccepted
  <1>6. CASE Adopt
    <2>1. /\ UNCHANGED <<reqs, session, jobs, hand, revoked>> /\ Work' = Work
          /\ hand = {} /\ session.up /\ Work = jobs
          /\ policy'.catalog \in Catalogs /\ policy'.hosts \subseteq HostsOf(policy'.catalog)
      <3>1. Published \/ UNCHANGED policy
        BY <1>6 DEF Adopt
      <3> QED
        BY <1>1, <1>6, <3>1 DEF Adopt, Idle, Published, clientVars, Work, CatalogTyped
    <2>2. catalog' = policy'.catalog /\ overtaken \subseteq overtaken'
          /\ (catalog' = catalog \/ \A j \in jobs : j.id \in overtaken')
      BY <1>6 DEF Adopt
    <2>3. CatalogTyped'
      BY <1>1, <1>2, <2>1, <2>2 DEF CatalogTyped
    <2>4. OfOneCatalog(reqs, session.in, Work, catalog', overtaken')
      <3>1. OfOneCatalog(reqs, session.in, Work, catalog, overtaken) /\ \A w \in Work : w.kind = "job"
        BY <1>1, <2>1 DEF CatalogInv, CatalogTyped, Jobs
      <3> QED
        BY <2>1, <2>2, <3>1 DEF OfOneCatalog
    <2> QED
      BY <1>1, <1>2, <2>1, <2>2, <2>3, <2>4 DEF CatalogInv, AnswersAccepted, ReadAllowed
  <1>7. CASE Lose \/ Check
    <2>1. /\ session' = [session EXCEPT !.up = FALSE]
          /\ UNCHANGED <<reqs, jobs, hand, catalog, policy, revoked, overtaken>>
      BY <1>7 DEF Lose, Check, CloseSession, clientVars, serverVars
    <2>2. /\ session' \in [up : BOOLEAN, out : Seq(Requests), in : Seq(Answers)]
          /\ ~session'.up /\ session'.in = session.in
      BY <1>1, <2>1 DEF CatalogTyped
    <2>3. CatalogTyped'
      BY <1>1, <1>2, <2>1, <2>2 DEF CatalogTyped
    <2> QED
      BY <1>1, <1>2, <2>1, <2>2, <2>3 DEF CatalogInv, AnswersAccepted
  <1> QED
    BY <1>3, <1>4, <1>5, <1>6, <1>7

\* The invariant holds before the first request.
LEMMA CatalogInvInit ==
    ASSUME CatalogAssumption, CatalogInit
    PROVE  CatalogInv
  <1>1. /\ reqs = NoReqs /\ nextId = 1 /\ session = Fresh /\ jobs = {} /\ hand = {}
        /\ catalog = FirstCatalog
        /\ policy = [catalog |-> FirstCatalog, hosts |-> HostsOf(FirstCatalog)]
        /\ shown = [hosts |-> {}, known |-> {}, error |-> FALSE]
        /\ revoked = {} /\ overtaken = {} /\ rejected = {}
    BY DEF CatalogInit
  <1>2. DOMAIN NoReqs = {} /\ NoReqs \in [DOMAIN NoReqs -> Asked] /\ OneList(NoReqs)
    BY DEF NoReqs, OneList
  <1>3. /\ Fresh \in [up : BOOLEAN, out : Seq(Requests), in : Seq(Answers)]
        /\ Fresh.out = <<>> /\ Fresh.in = <<>>
    BY DEF Fresh
  <1>4. /\ Work = {} /\ Consistent(NoReqs, Fresh, {}) /\ ReadAllowed({}, policy.hosts, {})
        /\ OfOneCatalog(NoReqs, <<>>, {}, catalog, {})
    BY <1>1, <1>2, <1>3 DEF Consistent, ForRequests, InOnePlace, OfOneCatalog, ReadAllowed, Work
  <1>5. CatalogTyped
    BY <1>1, <1>2, <1>3 DEF CatalogTyped, CatalogAssumption
  <1> QED
    BY <1>1, <1>2, <1>3, <1>4, <1>5 DEF CatalogInv, AnswersAccepted

\* Every step of the client, the server and the operator keeps the invariant.
LEMMA CatalogInvStep ==
    ASSUME CatalogAssumption, CatalogInv, [CatalogNext]_catalogVars
    PROVE  CatalogInv'
  BY PollAnswerKeeps, SendListKeeps, ServeRequestKeeps, FinishJobKeeps, SendAnswerKeeps, OthersKeep
     DEF CatalogNext, Client, Session

\* No step sends a host that is not allowed and was not when the answer was begun.
LEMMA AnswersAllowed ==
    ASSUME CatalogAssumption, CatalogInv, [CatalogNext]_catalogVars
    PROVE  AllowedWhenSent
  <1> DEFINE n == session.in
  <1>1. n \in Seq(Answers)
    BY DEF CatalogInv, CatalogTyped
  <1>2. Len(n) \in Nat
    BY <1>1, LenProperties
  <1>3. CASE ~SendAnswer
    <2>1. Len(session'.in) <= Len(n) /\ session'.in \in Seq(Answers')
      <3>1. session'.in = n \/ session'.in = <<>> \/ Len(session'.in) <= Len(n)
        BY <1>3, PollAnswerKeeps, SendListKeeps, ServeRequestKeeps, FinishJobKeeps, OthersKeep
           DEF CatalogNext, Client, Session
      <3>2. CatalogInv'
        BY CatalogInvStep
      <3>3. session'.in \in Seq(Answers')
        BY <3>2 DEF CatalogInv, CatalogTyped
      <3> HIDE DEF n
      <3> QED
        BY <1>2, <3>1, <3>3
    <2> DEFINE x == session'.in
    <2>2. DOMAIN x = 1..Len(x) /\ Len(x) \in Nat
      BY <2>1, LenProperties
    <2> HIDE DEF n, x
    <2>3. \A i \in DOMAIN x : ~(i > Len(n))
      BY <1>2, <2>1, <2>2 DEF x
    <2> QED
      BY <2>3 DEF AllowedWhenSent, x, n
  <1>4. CASE SendAnswer
    <2>1. PICK a \in Answers : /\ a.kind # "error" => a.hosts \subseteq policy.hosts \cup revoked
                               /\ session'.in = Append(n, a)
      BY <1>4, SendAnswerKeeps
    <2>2. DOMAIN Append(n, a) = DOMAIN n \cup {Len(n) + 1} /\ Append(n, a)[Len(n) + 1] = a
      BY <1>1, Added
    <2>3. DOMAIN n = 1..Len(n)
      BY <1>1, LenProperties
    <2> DEFINE x == session'.in
    <2>4. DOMAIN x = 1..Len(n) \cup {Len(n) + 1} /\ x[Len(n) + 1] = a
      BY <2>1, <2>2, <2>3
    <2> HIDE DEF n, x
    <2>5. \A i \in DOMAIN x : i > Len(n) => x[i] = a
      BY <1>2, <2>4
    <2> QED
      BY <2>1, <2>5 DEF AllowedWhenSent, x, n
  <1> QED
    BY <1>3, <1>4

\* A set of one thing has one element.
LEMMA OneCounted ==
    ASSUME NEW T, NEW x \in T, \A y \in T : y = x
    PROVE  Cardinality(T) = 1
  <1>1. T = {x}
    OBVIOUS
  <1> QED
    BY <1>1, FS_Singleton

\* An empty set has none.
LEMMA NoneCounted ==
    ASSUME NEW T, \A y \in T : FALSE
    PROVE  Cardinality(T) = 0
  <1>1. T = {}
    OBVIOUS
  <1> QED
    BY <1>1, FS_EmptySet

\* A request that is in one place is counted once.
LEMMA PlacedOnce ==
    ASSUME CatalogInv, session.up, NEW i \in DOMAIN reqs
    PROVE  Places(i) = 1
  <1> DEFINE O == {k \in DOMAIN session.out : session.out[k].id = i}
             N == {k \in DOMAIN session.in : session.in[k].id = i}
             J == {w \in Work : w.id = i}
  <1>1. InOnePlace(reqs, session.out, session.in, Work)
    BY DEF CatalogInv, Consistent
  <1>2. CASE \E k \in DOMAIN session.out : session.out[k].id = i
    <2>1. PICK k \in DOMAIN session.out : session.out[k].id = i
      BY <1>2
    <2>2. (\A y \in N : FALSE) /\ (\A y \in J : FALSE)
      BY <1>1, <2>1 DEF InOnePlace
    <2>3. k \in O /\ \A y \in O : y = k
      BY <1>1, <2>1 DEF InOnePlace
    <2> HIDE DEF O, N, J
    <2>4. Cardinality(O) = 1 /\ Cardinality(N) = 0 /\ Cardinality(J) = 0
      BY <2>2, <2>3, OneCounted, NoneCounted
    <2> QED
      BY <2>4 DEF Places, O, N, J
  <1>3. CASE \E k \in DOMAIN session.in : session.in[k].id = i
    <2>1. PICK k \in DOMAIN session.in : session.in[k].id = i
      BY <1>3
    <2>2. (\A y \in O : FALSE) /\ (\A y \in J : FALSE)
      BY <1>1, <2>1 DEF InOnePlace
    <2>3. k \in N /\ \A y \in N : y = k
      BY <1>1, <2>1 DEF InOnePlace
    <2> HIDE DEF O, N, J
    <2>4. Cardinality(O) = 0 /\ Cardinality(N) = 1 /\ Cardinality(J) = 0
      BY <2>2, <2>3, OneCounted, NoneCounted
    <2> QED
      BY <2>4 DEF Places, O, N, J
  <1>4. CASE \E j \in Work : j.id = i
    <2>1. PICK j \in Work : j.id = i
      BY <1>4
    <2>2. (\A y \in O : FALSE) /\ (\A y \in N : FALSE)
      BY <1>1, <2>1 DEF InOnePlace
    <2>3. j \in J /\ \A y \in J : y = j
      BY <1>1, <2>1 DEF InOnePlace
    <2> HIDE DEF O, N, J
    <2>4. Cardinality(O) = 0 /\ Cardinality(N) = 0 /\ Cardinality(J) = 1
      BY <2>2, <2>3, OneCounted, NoneCounted
    <2> QED
      BY <2>4 DEF Places, O, N, J
  <1> QED
    BY <1>1, <1>2, <1>3, <1>4 DEF InOnePlace

\* The invariant says that every request waited for is answered once and accepted.
LEMMA CatalogSafe ==
    ASSUME CatalogInv
    PROVE  CatalogTypeOK /\ OneAnswerEach /\ AnswersAccepted
  <1>1. /\ CatalogTyped /\ OneList(reqs) /\ AnswersAccepted
        /\ \A m, n \in hand : m = n
    BY DEF CatalogInv, ReadAllowed
  <1>2. \A i \in DOMAIN reqs : i < nextId
    BY <1>1 DEF CatalogTyped, Ids
  <1>3. jobs \subseteq [kind : {"job"}, id : 1..nextId, hosts : SUBSET Directory]
    <2>1. Ids \subseteq 1..nextId
      BY <1>1 DEF CatalogTyped, Ids
    <2> QED
      BY <1>1, <2>1 DEF CatalogTyped, Jobs
  <1>4. Cardinality({i \in DOMAIN reqs : reqs[i].kind = "list"}) <= 1
    <2> DEFINE T == {i \in DOMAIN reqs : reqs[i].kind = "list"}
    <2>1. \A x, y \in T : x = y
      BY <1>1 DEF OneList
    <2> HIDE DEF T
    <2>2. CASE \E x \in T : TRUE
      <3>1. PICK x \in T : TRUE
        BY <2>2
      <3>2. Cardinality(T) = 1
        BY <2>1, <3>1, OneCounted
      <3> QED
        BY <3>2 DEF T
    <2>3. CASE ~\E x \in T : TRUE
      <3>1. Cardinality(T) = 0
        BY <2>3, NoneCounted
      <3> QED
        BY <3>1 DEF T
    <2> QED
      BY <2>2, <2>3
  <1> QED
    BY <1>1, <1>2, <1>3, <1>4, PlacedOnce DEF CatalogTypeOK, CatalogTyped, OneAnswerEach

\* Every request is answered once, with an answer the client accepts unless the
\* session moved to another catalog while its job ran, and hosts and statuses go
\* out only for hosts that are allowed or were when the answer was begun, for any
\* catalogs and any limits (handle_server_event, service_status_jobs).
THEOREM CatalogIsSound ==
    CatalogAssumption => (CatalogSpec => CatalogSound)
  <1> SUFFICES ASSUME CatalogAssumption PROVE CatalogSpec => CatalogSound
    OBVIOUS
  <1>1. CatalogInit => CatalogInv
    BY CatalogInvInit
  <1>2. CatalogInv /\ [CatalogNext]_catalogVars => CatalogInv'
    BY CatalogInvStep
  <1>3. CatalogInv => CatalogTypeOK /\ OneAnswerEach /\ AnswersAccepted
    BY CatalogSafe
  <1>4. CatalogInv /\ [CatalogNext]_catalogVars => [AllowedWhenSent]_catalogVars
    BY AnswersAllowed
  <1> QED
    BY <1>1, <1>2, <1>3, <1>4, PTL DEF CatalogSpec, CatalogSound

=============================================================================
