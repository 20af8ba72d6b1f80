--------------------------- MODULE SecurityProofs ---------------------------
(***************************************************************************)
(* Proofs about security.rs: the frames of an encrypted connection         *)
(* (Transport) and the handshake replay cache (HandshakeReplay).           *)
(*                                                                         *)
(* Transport.  While the path is faithful, the cells that an end has not   *)
(* taken yet are the frames of the other end in order, from the next one   *)
(* on, the last perhaps cut short by a failed write (InOrder).  A step is  *)
(* first shown to keep what concerns one end (its sequence numbers and its *)
(* deadline, ...Local), then the order of the cells (...Order).  A frame   *)
(* is a run of cells given by the place it starts at, so that no lemma     *)
(* needs induction over the frames.                                        *)
(*                                                                         *)
(* HandshakeReplay, for any number of threads and hellos and any cache     *)
(* limits, from ReplayTTL > 2 * Skew + HoldLimit alone.  A hello stamped i *)
(* is validated between i - Skew and i + Skew, and its copies are out of   *)
(* use after Horizon = i + Skew + HoldLimit.  Its nonce is confirmed at    *)
(* i - Skew or later and then kept for ReplayTTL, which is past the        *)
(* horizon.  The limits of the cache follow from the guard of reserve,     *)
(* since a confirmation never adds an entry.                               *)
(***************************************************************************)
EXTENDS Transport, HandshakeReplay, SequenceTheorems, FiniteSetTheorems, TLAPS

-----------------------------------------------------------------------------
(* Frames in order *)

\* No cells hold no frames.
LEMMA OrderedStart ==
    ASSUME NEW sizes, NEW n \in Int
    PROVE  Ordered(sizes, <<>>, n, n - 1, TRUE)
  <1> DEFINE start == [k \in n..n |-> 1]
  <1>1. start \in [n..n -> Nat] /\ start[n] = 1
    OBVIOUS
  <1>2. n - 1 + 1 = n /\ n..(n - 1) = {}
    OBVIOUS
  <1> HIDE DEF start
  <1>3. Chain(sizes, <<>>, start, n, n - 1)
    BY <1>1, <1>2 DEF Chain
  <1> QED
    BY <1>1, <1>2, <1>3 DEF Ordered

\* The first cells are those of the first frame.
LEMMA OrderedHead ==
    ASSUME NEW sizes, NEW cells \in Seq(Cell), NEW n \in Nat, NEW m \in Int, NEW whole,
           \A k \in n..m : sizes[k] \in 1..MaxBody,
           Ordered(sizes, cells, n, m, whole), cells # <<>>
    PROVE  /\ n <= m
           /\ \A i \in 1..(PrefixCells + sizes[n]) :
                 i <= Len(cells) => cells[i] = [frame |-> n, at |-> i, whole |-> TRUE]
  <1>p. PICK start :
            /\ start \in [n..(m + 1) -> Nat]
            /\ Chain(sizes, cells, start, n, m)
    BY DEF Ordered
  <1>1. /\ \A k \in n..(m + 1) : start[k] \in Nat
        /\ Chain(sizes, cells, start, n, m)
    BY <1>p
  <1>2. Len(cells) \in Nat \ {0} /\ n <= m + 1
    BY EmptySeq DEF Ordered
  <1>3. n <= m
    BY <1>1, <1>2 DEF Chain
  <1>4. start[n] = 1 /\ n \in n..m
    BY <1>1, <1>3 DEF Chain
  <1>5. ASSUME NEW i \in 1..(PrefixCells + sizes[n]), i <= Len(cells)
        PROVE  cells[i] = [frame |-> n, at |-> i, whole |-> TRUE]
    <2>1. start[n] + i - 1 = i
      BY <1>4
    <2> QED
      BY <1>1, <1>4, <1>5, <2>1 DEF Chain
  <1> QED
    BY <1>3, <1>5

\* Without the first frame, the cells hold the rest.
LEMMA OrderedCut ==
    ASSUME NEW sizes, NEW cells \in Seq(Cell), NEW n \in Nat, NEW m \in Int, NEW whole \in BOOLEAN,
           \A k \in n..m : sizes[k] \in 1..MaxBody,
           Ordered(sizes, cells, n, m, whole), n <= m,
           PrefixCells + sizes[n] <= Len(cells), MaxBody \in Nat
    PROVE  Ordered(sizes, SubSeq(cells, PrefixCells + sizes[n] + 1, Len(cells)), n + 1, m, whole)
  <1> DEFINE L == PrefixCells + sizes[n]
             rest == SubSeq(cells, L + 1, Len(cells))
  <1>0. L \in Nat /\ L >= 3 /\ sizes[n] \in Nat /\ L <= Len(cells) /\ Len(cells) \in Nat
    BY DEF PrefixCells
  <1>p. PICK start :
            /\ start \in [n..(m + 1) -> Nat]
            /\ Chain(sizes, cells, start, n, m)
            /\ whole => Len(cells) + 1 = start[m + 1]
    BY DEF Ordered
  <1>1. /\ \A k \in n..(m + 1) : start[k] \in Nat
        /\ Chain(sizes, cells, start, n, m)
        /\ whole => Len(cells) + 1 = start[m + 1]
    BY <1>p
  <1>2. start[n + 1] = 1 + L /\ start[n] = 1
    <2>1. start[n] = 1 /\ start[n + 1] = start[n] + PrefixCells + sizes[n]
      BY <1>1 DEF Chain
    <2> QED
      BY <2>1, <1>0 DEF PrefixCells
  <1>3. \A j \in (n + 1)..(m + 1) : start[j] \in Nat /\ start[j] >= 1 + L
    BY <1>1, <1>2 DEF Chain
  <1> DEFINE st == [j \in (n + 1)..(m + 1) |-> start[j] - L]
  <1>9. st \in [(n + 1)..(m + 1) -> Nat]
    BY <1>3, <1>0
  <1>4. \A j \in (n + 1)..(m + 1) : st[j] = start[j] - L
    OBVIOUS
  <1>5. /\ Len(rest) = Len(cells) - L
        /\ \A i \in 1..(Len(cells) - L) : rest[i] = cells[i + L]
    <2>1. \A i \in (L + 1)..Len(cells) : cells[i] \in Cell
      BY <1>0, ElementOfSeq
    <2> HIDE DEF L
    <2>2. /\ Len(rest) = IF L + 1 <= Len(cells) THEN Len(cells) - (L + 1) + 1 ELSE 0
          /\ \A i \in 1..(Len(cells) - (L + 1) + 1) : rest[i] = cells[L + 1 + i - 1]
      BY <2>1, <1>0, SubSeqProperties
    <2> QED
      BY <2>2, <1>0
  <1> HIDE DEF st, rest, L
  <1>6. Chain(sizes, rest, st, n + 1, m)
    <2>1. st[n + 1] = 1
      BY <1>0, <1>2, <1>4
    <2>2. \A k \in (n + 1)..m : st[k + 1] = st[k] + PrefixCells + sizes[k]
      <3> SUFFICES ASSUME NEW k \in (n + 1)..m
                   PROVE  st[k + 1] = st[k] + PrefixCells + sizes[k]
        OBVIOUS
      <3>1. start[k + 1] = start[k] + PrefixCells + sizes[k] /\ start[k] \in Nat /\ sizes[k] \in Nat
        BY <1>1 DEF Chain
      <3>2. st[k + 1] = start[k + 1] - L /\ st[k] = start[k] - L
        BY <1>4
      <3> QED
        BY <3>1, <3>2, <1>0, SMTT(30) DEF PrefixCells
    <2>3. \A k \in (n + 1)..m, j \in (n + 1)..(m + 1) : k < j => st[k + 1] <= st[j]
      <3> SUFFICES ASSUME NEW k \in (n + 1)..m, NEW j \in (n + 1)..(m + 1), k < j
                   PROVE  st[k + 1] <= st[j]
        OBVIOUS
      <3>1. start[k + 1] <= start[j] /\ start[j] \in Nat /\ start[k + 1] \in Nat
        BY <1>1 DEF Chain
      <3>2. st[k + 1] = start[k + 1] - L /\ st[j] = start[j] - L
        BY <1>4
      <3> QED
        BY <3>1, <3>2, <1>0
    <2>4. Len(rest) < st[m + 1]
      <3>1. Len(cells) < start[m + 1] /\ start[m + 1] \in Nat
        BY <1>1 DEF Chain
      <3>2. st[m + 1] = start[m + 1] - L
        BY <1>4
      <3> QED
        BY <3>1, <3>2, <1>0, <1>5
    <2>5. ASSUME NEW k \in (n + 1)..m, NEW i \in 1..(PrefixCells + sizes[k]),
                 st[k] + i - 1 <= Len(rest)
          PROVE  rest[st[k] + i - 1] = [frame |-> k, at |-> i, whole |-> TRUE]
      <3>0. sizes[k] \in Nat /\ i \in Nat /\ i >= 1 /\ start[k] \in Nat
        BY <1>1 DEF PrefixCells
      <3>1. start[k] + i - 1 <= Len(cells) =>
                 cells[start[k] + i - 1] = [frame |-> k, at |-> i, whole |-> TRUE]
        <4>1. \A c \in n..m : \A j \in 1..(PrefixCells + sizes[c]) :
                 start[c] + j - 1 <= Len(cells) =>
                    cells[start[c] + j - 1] = [frame |-> c, at |-> j, whole |-> TRUE]
          BY <1>1, Zenon DEF Chain
        <4>2. k \in n..m
          BY <1>0
        <4> QED
          BY <4>1, <4>2, Zenon
      <3>2. st[k] = start[k] - L /\ start[k] >= 1 + L
        BY <1>3, <1>4
      <3>3. start[k] + i - 1 <= Len(cells)
        <4>1. st[k] + i - 1 <= Len(cells) - L
          BY <2>5, <1>5
        <4> QED
          BY <4>1, <3>0, <3>2, <1>0
      <3>4. /\ st[k] + i - 1 \in 1..(Len(cells) - L)
            /\ (st[k] + i - 1) + L = start[k] + i - 1
        <4> DEFINE p == start[k]
        <4>1. p \in Nat /\ p >= 1 + L /\ st[k] = p - L /\ p + i - 1 <= Len(cells)
          BY <3>0, <3>2, <3>3
        <4>2. /\ st[k] + i - 1 = p - L + i - 1
              /\ i \in Nat /\ i >= 1 /\ L \in Nat /\ Len(cells) \in Nat
          BY <4>1, <3>0, <1>0
        <4> DEFINE q == st[k]
        <4>3. q = p - L
          BY <4>1
        <4> HIDE DEF p, q
        <4>4. q + i - 1 \in 1..(Len(cells) - L) /\ (q + i - 1) + L = p + i - 1
          BY <4>1, <4>2, <4>3
        <4> QED
          BY <4>4 DEF p, q
      <3>5. rest[st[k] + i - 1] = cells[start[k] + i - 1]
        BY <3>4, <1>5
      <3> QED
        BY <3>1, <3>3, <3>5
    <2> QED
      BY <2>1, <2>2, <2>3, <2>4, <2>5 DEF Chain
  <1>7. whole => Len(rest) + 1 = st[m + 1]
    <2>1. st[m + 1] = start[m + 1] - L /\ start[m + 1] \in Nat
      BY <1>1, <1>4
    <2> QED
      BY <2>1, <1>0, <1>1, <1>5
  <1>8. Ordered(sizes, rest, n + 1, m, whole)
    BY <1>6, <1>7, <1>9, SMTT(30) DEF Ordered
  <1> QED
    BY <1>8 DEF rest, L

\* With the cells of the next frame, they hold one more.
LEMMA OrderedAdd ==
    ASSUME NEW sizes, NEW cells \in Seq(Cell), NEW n \in Nat, NEW m \in Int, NEW more,
           \A k \in n..(m + 1) : more[k] \in 1..MaxBody,
           \A k \in n..m : more[k] = sizes[k],
           Ordered(sizes, cells, n, m, TRUE), MaxBody \in Nat
    PROVE  Ordered(more, cells \o Frame(m + 1, more[m + 1]), n, m + 1, TRUE)
  <1> DEFINE L == PrefixCells + more[m + 1]
             frame == Frame(m + 1, more[m + 1])
             all == cells \o frame
  <1>0. n <= m + 1 /\ L \in Nat /\ L >= 3 /\ Len(cells) \in Nat /\ more[m + 1] \in Nat
    BY DEF PrefixCells, Ordered
  <1>p. PICK start :
            /\ start \in [n..(m + 1) -> Nat]
            /\ Chain(sizes, cells, start, n, m)
            /\ Len(cells) + 1 = start[m + 1]
    BY DEF Ordered
  <1>1. /\ \A k \in n..(m + 1) : start[k] \in Nat
        /\ Chain(sizes, cells, start, n, m)
        /\ Len(cells) + 1 = start[m + 1]
    BY <1>p
  <1>2. /\ frame \in Seq(Cell) /\ Len(frame) = L
        /\ \A i \in 1..L : frame[i] = [frame |-> m + 1, at |-> i, whole |-> TRUE]
    <2>1. \A i \in 1..L : [frame |-> m + 1, at |-> i, whole |-> TRUE] \in Cell
      BY <1>0 DEF Cell
    <2>2. frame = [i \in 1..L |-> [frame |-> m + 1, at |-> i, whole |-> TRUE]]
      BY DEF Frame
    <2>3. frame \in [1..L -> Cell]
      BY <2>1, <2>2
    <2> HIDE DEF L
    <2>4. frame \in Seq(Cell) /\ Len(frame) = L
      BY <2>3, <1>0
    <2> QED
      BY <2>2, <2>4
  <1> HIDE DEF frame
  <1>3. /\ Len(all) = Len(cells) + L
        /\ \A i \in 1..(Len(cells) + L) :
              all[i] = IF i <= Len(cells) THEN cells[i] ELSE frame[i - Len(cells)]
    <2>1. \A a, b \in Seq(Cell) :
            /\ Len(a \o b) = Len(a) + Len(b)
            /\ \A i \in 1..(Len(a) + Len(b)) : (a \o b)[i] = IF i <= Len(a) THEN a[i] ELSE b[i - Len(a)]
      BY ConcatProperties
    <2> QED
      BY <1>2, <2>1
  <1> DEFINE st == [k \in n..(m + 2) |-> IF k = m + 2 THEN Len(cells) + 1 + L ELSE start[k]]
  <1>8. st \in [n..(m + 2) -> Nat]
    BY <1>0, <1>1
  <1>4. st[m + 2] = Len(cells) + 1 + L /\ \A k \in n..(m + 1) : st[k] = start[k]
    BY <1>0
  <1> HIDE DEF st, all, L
  <1>5. Chain(more, all, st, n, m + 1)
    <2>1. st[n] = 1
      BY <1>0, <1>1, <1>4 DEF Chain
    <2>2. \A k \in n..(m + 1) : st[k + 1] = st[k] + PrefixCells + more[k]
      <3> SUFFICES ASSUME NEW k \in n..(m + 1)
                   PROVE  st[k + 1] = st[k] + PrefixCells + more[k]
        OBVIOUS
      <3>1. CASE k = m + 1
        BY <3>1, <1>0, <1>1, <1>4 DEF L, PrefixCells
      <3>2. CASE k # m + 1
        <4>1. k \in n..m /\ start[k + 1] = start[k] + PrefixCells + sizes[k]
          BY <3>2, <1>1 DEF Chain
        <4> QED
          BY <4>1, <1>4
      <3> QED
        BY <3>1, <3>2
    <2>3. \A k \in n..(m + 1), j \in n..(m + 2) : k < j => st[k + 1] <= st[j]
      <3> SUFFICES ASSUME NEW k \in n..(m + 1), NEW j \in n..(m + 2), k < j
                   PROVE  st[k + 1] <= st[j]
        OBVIOUS
      <3>1. CASE k = m + 1
        BY <3>1, <1>0, <1>4
      <3>2. CASE k # m + 1 /\ j # m + 2
        <4>1. k \in n..m /\ start[k + 1] <= start[j]
          BY <3>2, <1>1 DEF Chain
        <4> QED
          BY <4>1, <3>2, <1>4
      <3>3. CASE k # m + 1 /\ j = m + 2
        <4>1. start[k + 1] <= start[m + 1] /\ start[k + 1] \in Nat
          BY <3>3, <1>1, <1>0 DEF Chain
        <4> QED
          BY <4>1, <3>3, <1>0, <1>1, <1>4
      <3> QED
        BY <3>1, <3>2, <3>3
    <2>4. Len(all) < st[m + 2]
      BY <1>0, <1>3, <1>4
    <2>5. ASSUME NEW k \in n..(m + 1), NEW i \in 1..(PrefixCells + more[k]),
                 st[k] + i - 1 <= Len(all)
          PROVE  all[st[k] + i - 1] = [frame |-> k, at |-> i, whole |-> TRUE]
      <3>0. more[k] \in Nat /\ i \in Nat /\ i >= 1 /\ start[k] \in Nat /\ st[k] = start[k]
        BY <1>1, <1>4 DEF PrefixCells
      <3>1. CASE k = m + 1
        <4>1. i \in 1..L
          BY <3>1 DEF L
        <4>2. st[k] + i - 1 = Len(cells) + i
          BY <3>0, <3>1, <1>0, <1>1
        <4>3. all[Len(cells) + i] = frame[i]
          BY <4>1, <1>0, <1>3, SMTT(30)
        <4> QED
          BY <3>1, <4>1, <4>2, <4>3, <1>2
      <3>2. CASE k # m + 1
        <4>0. k \in n..m /\ m + 1 \in n..(m + 1) /\ k < m + 1 /\ sizes[k] = more[k]
          BY <3>2, <1>0
        <4>1. /\ k \in n..m
              /\ i \in 1..(PrefixCells + sizes[k])
              /\ start[k + 1] = start[k] + PrefixCells + sizes[k]
              /\ start[k + 1] <= start[m + 1]
          <5>1. i \in 1..(PrefixCells + sizes[k])
            BY <4>0
          <5>2. start[k + 1] = start[k] + PrefixCells + sizes[k]
            BY <4>0, <1>1 DEF Chain
          <5>3. start[k + 1] <= start[m + 1]
            BY <4>0, <1>1 DEF Chain
          <5> QED
            BY <4>0, <5>1, <5>2, <5>3
        <4>2. start[k] + i - 1 <= Len(cells)
          <5> DEFINE a == start[k]
                     b == start[k + 1]
          <5>1. /\ a \in Nat /\ b = a + 2 + sizes[k] /\ b <= Len(cells) + 1
                /\ i <= 2 + sizes[k] /\ sizes[k] \in Nat
            BY <4>0, <4>1, <3>0, <1>1 DEF PrefixCells
          <5> HIDE DEF a, b
          <5>2. a + i - 1 <= Len(cells)
            BY <5>1, <3>0, <1>0
          <5> QED
            BY <5>2 DEF a
        <4>3. cells[start[k] + i - 1] = [frame |-> k, at |-> i, whole |-> TRUE]
          BY <4>1, <4>2, <1>1 DEF Chain
        <4>4. start[k] >= 1
          <5>1. CASE k = n
            BY <5>1, <1>1 DEF Chain
          <5>2. CASE k # n
            <6>0. n \in n..m /\ k \in n..(m + 1) /\ n < k
              BY <5>2, <4>1, <1>0
            <6> DEFINE a == start[n]
                       b == start[n + 1]
                       c == start[k]
                       l == sizes[n]
            <6>1. b <= c
              BY <6>0, <1>1, Zenon DEF Chain
            <6>2. b = a + PrefixCells + l
              BY <6>0, <1>1, Zenon DEF Chain
            <6>3. a = 1
              BY <1>1, Zenon DEF Chain
            <6>4. l \in Nat
              BY <6>0, <1>0
            <6>5. c \in Nat
              BY <3>0
            <6> HIDE DEF a, b, c, l
            <6>6. c >= 1
              BY <6>1, <6>2, <6>3, <6>4, <6>5 DEF PrefixCells
            <6> QED
              BY <6>6 DEF c
          <5> QED
            BY <5>1, <5>2
        <4>5. start[k] + i - 1 \in 1..(Len(cells) + L)
          BY <4>2, <4>4, <3>0, <1>0
        <4>6. all[start[k] + i - 1] = cells[start[k] + i - 1]
          BY <4>2, <4>5, <1>3
        <4> QED
          BY <4>3, <4>6, <3>0
      <3> QED
        BY <3>1, <3>2
    <2>6. m + 1 + 1 = m + 2
      OBVIOUS
    <2> QED
      BY <2>1, <2>2, <2>3, <2>4, <2>5, <2>6 DEF Chain
  <1>6. Len(all) + 1 = st[m + 2]
    BY <1>0, <1>3, <1>4
  <1>7. Ordered(more, all, n, m + 1, TRUE)
    <2>1. m + 1 + 1 = m + 2 /\ n <= m + 2
      BY <1>0
    <2> QED
      BY <2>1, <1>8, <1>5, <1>6 DEF Ordered
  <1> QED
    BY <1>7 DEF all, frame

\* A prefix of the cells holds the same frames, the last perhaps cut short.
LEMMA OrderedPrefix ==
    ASSUME NEW sizes, NEW cells \in Seq(Cell), NEW some \in Seq(Cell), NEW n \in Nat, NEW m \in Int,
           NEW whole, NEW same,
           \A k \in n..m : same[k] = sizes[k] /\ sizes[k] \in 1..MaxBody,
           Ordered(sizes, cells, n, m, whole), MaxBody \in Nat,
           Len(some) <= Len(cells), \A i \in 1..Len(some) : some[i] = cells[i]
    PROVE  Ordered(same, some, n, m, FALSE)
  <1>p. PICK start :
            /\ start \in [n..(m + 1) -> Nat]
            /\ Chain(sizes, cells, start, n, m)
    BY DEF Ordered
  <1>1. /\ \A k \in n..(m + 1) : start[k] \in Nat
        /\ Chain(sizes, cells, start, n, m)
    BY <1>p
  <1>2. n <= m + 1 /\ Len(some) \in Nat /\ Len(cells) \in Nat
    BY DEF Ordered
  <1>3. Chain(same, some, start, n, m)
    <2>1. Len(some) < start[m + 1]
      BY <1>1, <1>2 DEF Chain
    <2>2. ASSUME NEW k \in n..m, NEW i \in 1..(PrefixCells + same[k]), start[k] + i - 1 <= Len(some)
          PROVE  some[start[k] + i - 1] = [frame |-> k, at |-> i, whole |-> TRUE]
      <3>0. sizes[k] \in Nat /\ same[k] = sizes[k] /\ i \in Nat /\ i >= 1 /\ start[k] \in Nat
        BY <1>1 DEF PrefixCells
      <3>1. start[k] >= 1
        <4>1. CASE k = n
          BY <4>1, <1>1 DEF Chain
        <4>2. CASE k # n
          <5>1. start[n] = 1 /\ sizes[n] \in Nat /\ start[n + 1] = start[n] + PrefixCells + sizes[n]
            BY <4>2, <1>1, <1>2, SMTT(30) DEF Chain
          <5>2. start[n + 1] <= start[k]
            BY <4>2, <1>1, <1>2, SMTT(30) DEF Chain
          <5> QED
            BY <5>1, <5>2, <3>0 DEF PrefixCells
        <4> QED
          BY <4>1, <4>2
      <3>2. start[k] + i - 1 \in 1..Len(some) /\ start[k] + i - 1 <= Len(cells)
        BY <2>2, <3>0, <3>1, <1>2
      <3>3. cells[start[k] + i - 1] = [frame |-> k, at |-> i, whole |-> TRUE]
        BY <3>0, <3>2, <1>1 DEF Chain
      <3> QED
        BY <3>2, <3>3
    <2> QED
      BY <1>1, <2>1, <2>2 DEF Chain
  <1> QED
    BY <1>p, <1>2, <1>3 DEF Ordered

\* The same cells and sizes.
LEMMA OrderedSame ==
    ASSUME NEW sizes, NEW cells, NEW n \in Nat, NEW m \in Int, NEW whole \in BOOLEAN, NEW same,
           \A k \in n..m : same[k] = sizes[k],
           Ordered(sizes, cells, n, m, whole)
    PROVE  Ordered(same, cells, n, m, whole)
  <1>p. PICK start :
            /\ start \in [n..(m + 1) -> Nat]
            /\ Chain(sizes, cells, start, n, m)
            /\ whole => Len(cells) + 1 = start[m + 1]
    BY DEF Ordered
  <1>1. /\ \A k \in n..(m + 1) : start[k] \in Nat
        /\ Chain(sizes, cells, start, n, m)
        /\ whole => Len(cells) + 1 = start[m + 1]
    BY <1>p
  <1>2. Chain(same, cells, start, n, m)
    BY <1>1 DEF Chain
  <1> QED
    BY <1>p, <1>2 DEF Ordered

\* Cells that end with a frame also are cells whose last frame may be cut short.
LEMMA OrderedWeaken ==
    ASSUME NEW sizes, NEW cells, NEW n, NEW m, NEW whole \in BOOLEAN, NEW less \in BOOLEAN, less => whole,
           Ordered(sizes, cells, n, m, whole)
    PROVE  Ordered(sizes, cells, n, m, less)
  BY DEF Ordered

-----------------------------------------------------------------------------
(* Each end *)

\* There are two ends, each the other of the other.
LEMMA TwoEnds ==
    /\ Ends = {"client", "server"}
    /\ \A e \in Ends : Other(e) \in Ends /\ Other(e) # e /\ Other(Other(e)) = e
  BY DEF Ends, Other

\* A frame has its prefix and its body, cell by cell.
LEMMA FrameCells ==
    ASSUME NEW n \in Nat, NEW size \in Nat, NEW top \in Nat, n <= top
    PROVE  /\ Frame(n, size) \in Seq([frame : 0..top, at : Nat, whole : BOOLEAN])
           /\ Len(Frame(n, size)) = PrefixCells + size
  <1> DEFINE C == [frame : 0..top, at : Nat, whole : BOOLEAN]
             L == PrefixCells + size
  <1>1. L \in Nat
    BY DEF PrefixCells
  <1>2. \A i \in 1..L : [frame |-> n, at |-> i, whole |-> TRUE] \in C
    BY <1>1
  <1>3. Frame(n, size) \in [1..L -> C]
    BY <1>2 DEF Frame
  <1> HIDE DEF L, C
  <1>4. Frame(n, size) \in Seq(C) /\ Len(Frame(n, size)) = L
    BY <1>1, <1>3
  <1> QED
    BY <1>4 DEF L, C

\* A sequence is cut in two parts of known length.
LEMMA Parts ==
    ASSUME NEW S, NEW s \in Seq(S), NEW k \in 0..Len(s)
    PROVE  /\ SubSeq(s, 1, k) \in Seq(S) /\ Len(SubSeq(s, 1, k)) = k
           /\ SubSeq(s, k + 1, Len(s)) \in Seq(S) /\ Len(SubSeq(s, k + 1, Len(s))) = Len(s) - k
           /\ \A i \in 1..k : SubSeq(s, 1, k)[i] = s[i]
           /\ \A i \in 1..(Len(s) - k) : SubSeq(s, k + 1, Len(s))[i] = s[i + k]
  <1>1. Len(s) \in Nat /\ k \in Nat /\ k <= Len(s)
    OBVIOUS
  <1>2. \A i \in 1..Len(s) : s[i] \in S
    BY ElementOfSeq
  <1>3. \A i \in 1..k : s[i] \in S
    BY <1>1, <1>2
  <1>4. \A i \in (k + 1)..Len(s) : s[i] \in S
    BY <1>1, <1>2
  <1>5. /\ SubSeq(s, 1, k) \in Seq(S)
        /\ Len(SubSeq(s, 1, k)) = IF 1 <= k THEN k - 1 + 1 ELSE 0
        /\ \A i \in 1..(k - 1 + 1) : SubSeq(s, 1, k)[i] = s[1 + i - 1]
    BY <1>1, <1>3, SubSeqProperties
  <1>6. /\ SubSeq(s, k + 1, Len(s)) \in Seq(S)
        /\ Len(SubSeq(s, k + 1, Len(s))) = IF k + 1 <= Len(s) THEN Len(s) - (k + 1) + 1 ELSE 0
        /\ \A i \in 1..(Len(s) - (k + 1) + 1) : SubSeq(s, k + 1, Len(s))[i] = s[k + 1 + i - 1]
    BY <1>1, <1>4, SubSeqProperties
  <1>7. \A i \in 1..k : SubSeq(s, 1, k)[i] = s[i]
    BY <1>1, <1>5
  <1>8. \A i \in 1..(Len(s) - k) : SubSeq(s, k + 1, Len(s))[i] = s[i + k]
    BY <1>1, <1>6
  <1> QED
    BY <1>1, <1>5, <1>6, <1>7, <1>8

\* Two sequences are joined to one of known length.
LEMMA Joined ==
    ASSUME NEW S, NEW s \in Seq(S), NEW t \in Seq(S)
    PROVE  /\ s \o t \in Seq(S) /\ Len(s \o t) = Len(s) + Len(t)
           /\ \A i \in 1..Len(s) : (s \o t)[i] = s[i]
           /\ \A i \in 1..Len(t) : (s \o t)[i + Len(s)] = t[i]
  <1>1. Len(s) \in Nat /\ Len(t) \in Nat
    OBVIOUS
  <1>2. /\ s \o t \in Seq(S) /\ Len(s \o t) = Len(s) + Len(t)
        /\ \A i \in 1..(Len(s) + Len(t)) : (s \o t)[i] = IF i <= Len(s) THEN s[i] ELSE t[i - Len(s)]
    BY ConcatProperties
  <1>3. ASSUME NEW i \in 1..Len(t) PROVE (s \o t)[i + Len(s)] = t[i]
    <2> DEFINE j == i + Len(s)
    <2>1. j \in 1..(Len(s) + Len(t)) /\ ~(j <= Len(s)) /\ j - Len(s) = i
      BY <1>1
    <2> HIDE DEF j
    <2>2. (s \o t)[j] = t[i]
      BY <1>2, <2>1
    <2> QED
      BY <2>2 DEF j
  <1> QED
    BY <1>1, <1>2, <1>3

\* The cells of an end's frames are cells.
LEMMA CellsAreCells ==
    ASSUME NEW e
    PROVE  Cells(e) \subseteq Cell
  BY DEF Cells, Cell

\* What the type invariant says of one end.
LEMMA Typed ==
    ASSUME FrameTypeOK, NEW e \in Ends
    PROVE  /\ pc[e] \in {"hello_out", "hello_in", "open", "writing", "gone"}
           /\ conn[e] \in [sendSeq : 0..MaxSeq, recvSeq : 0..MaxSeq, closed : BOOLEAN]
           /\ buffer[e] \in Seq(Cell) /\ Len(buffer[e]) \in Nat
           /\ out[e] \in Seq(Cell) /\ Len(out[e]) \in Nat
           /\ wire[e] \in Seq(Cell) /\ Len(wire[e]) \in Nat
           /\ sealed[e] \in Seq([seq : 0..MaxSeq, size : 1..MaxBody]) /\ Len(sealed[e]) \in Nat
           /\ \A n \in 1..Len(sealed[e]) : sealed[e][n] \in [seq : 0..MaxSeq, size : 1..MaxBody]
           /\ delivered[e] \in Nat /\ age[e] \in Nat
           /\ timer[e] \in 0..(WriteTimeout + HandshakeTimeout)
  <1>1. /\ sealed[e] \in Seq([seq : 0..MaxSeq, size : 1..MaxBody]) /\ wire[e] \in Seq(Cell)
        /\ out[e] \in Seq(Cell) /\ buffer[e] \in Seq(Cell)
    BY DEF FrameTypeOK
  <1>2. /\ Len(sealed[e]) \in Nat /\ Len(wire[e]) \in Nat /\ Len(out[e]) \in Nat
        /\ Len(buffer[e]) \in Nat
    BY <1>1, LenProperties
  <1>3. \A n \in 1..Len(sealed[e]) : sealed[e][n] \in [seq : 0..MaxSeq, size : 1..MaxBody]
    BY <1>1, ElementOfSeq
  <1> QED
    BY <1>1, <1>2, <1>3 DEF FrameTypeOK

\* Writing a cell keeps each end's counters and deadline.
LEMMA WriteLocal ==
    ASSUME TransportAssumption, EachEnd, NEW e \in Ends, Write(e)
    PROVE  /\ EachEnd'
           /\ \A d \in Ends : d # e => pc'[d] = pc[d] /\ conn'[d] = conn[d]
           /\ \/ pc'[e] = pc[e]
              \/ pc[e] = "hello_out" /\ pc'[e] = IF e = "client" THEN "hello_in" ELSE "open"
              \/ pc[e] = "writing" /\ pc'[e] = "open"
           /\ conn'[e].closed = conn[e].closed
  <1> USE TwoEnds
  <1>1. PICK k \in 1..Len(out[e]) :
            /\ Len(wire[e]) + k <= WireCells
            /\ wire' = [wire EXCEPT ![e] = @ \o SubSeq(out[e], 1, k)]
            /\ out' = [out EXCEPT ![e] = SubSeq(@, k + 1, Len(@))]
            /\ timer' = timer
            /\ IF k = Len(out[e]) THEN WriteDone(e) ELSE UNCHANGED <<pc, conn>>
    BY DEF Write, TimerAfterWrite
  <1>2. /\ pc[e] \in {"hello_out", "writing"}
        /\ UNCHANGED <<buffer, partial, sealed, delivered, garbled, faults, refused, failed, age>>
    BY DEF Write, history
  <1>3. /\ SubSeq(out[e], 1, k) \in Seq(Cells(e)) /\ Len(SubSeq(out[e], 1, k)) = k
        /\ SubSeq(out[e], k + 1, Len(out[e])) \in Seq(Cells(e))
        /\ Len(SubSeq(out[e], k + 1, Len(out[e]))) = Len(out[e]) - k
        /\ wire[e] \in Seq(Cells(e))
    BY Parts DEF EachEnd, CellsKnown
  <1>4. /\ wire[e] \o SubSeq(out[e], 1, k) \in Seq(Cells(e))
        /\ Len(wire[e] \o SubSeq(out[e], 1, k)) = Len(wire[e]) + k
    BY <1>3, Joined
  <1>5. /\ SubSeq(out[e], k + 1, Len(out[e])) \in Seq(Cell)
        /\ wire[e] \o SubSeq(out[e], 1, k) \in Seq(Cell)
    BY <1>3, <1>4, CellsAreCells, SeqMonotonic
  <1> DEFINE X == SubSeq(out[e], k + 1, Len(out[e]))
             Y == wire[e] \o SubSeq(out[e], 1, k)
  <1>6. /\ out' = [out EXCEPT ![e] = X] /\ wire' = [wire EXCEPT ![e] = Y]
        /\ X \in Seq(Cell) /\ Y \in Seq(Cell) /\ X \in Seq(Cells(e)) /\ Y \in Seq(Cells(e))
        /\ Len(Y) <= WireCells /\ Len(X) = Len(out[e]) - k
    BY <1>1, <1>3, <1>4, <1>5
  <1> HIDE DEF X, Y
  <1>7. /\ pc' \in [Ends -> {"hello_out", "hello_in", "open", "writing", "gone"}]
        /\ \A d \in Ends : d # e => pc'[d] = pc[d] /\ conn'[d] = conn[d]
        /\ pc'[e] = pc[e] \/ (pc[e] = "hello_out" /\ pc'[e] \in {"hello_in", "open"})
              \/ (pc[e] = "writing" /\ pc'[e] = "open")
        /\ pc'[e] # pc[e] <=> k = Len(out[e])
        /\ pc'[e] = "hello_in" => e = "client"
        /\ pc[e] = "hello_out" /\ pc'[e] = "open" => e = "server"
    <2>0. pc \in [Ends -> {"hello_out", "hello_in", "open", "writing", "gone"}]
          /\ conn \in [Ends -> [sendSeq : 0..MaxSeq, recvSeq : 0..MaxSeq, closed : BOOLEAN]]
      BY DEF EachEnd, FrameTypeOK
    <2>1. CASE k = Len(out[e]) /\ pc[e] = "writing"
      BY <1>1, <1>2, <2>0, <2>1 DEF WriteDone
    <2>2. CASE k = Len(out[e]) /\ pc[e] = "hello_out"
      BY <1>1, <1>2, <2>0, <2>2 DEF WriteDone, Ends
    <2>3. CASE k # Len(out[e])
      BY <1>1, <1>2, <2>0, <2>3
    <2> QED
      BY <1>2, <2>1, <2>2, <2>3
  <1>8. /\ conn' \in [Ends -> [sendSeq : 0..MaxSeq, recvSeq : 0..MaxSeq, closed : BOOLEAN]]
        /\ conn'[e].recvSeq = conn[e].recvSeq /\ conn'[e].closed = conn[e].closed
        /\ conn'[e].sendSeq = IF pc[e] = "writing" /\ pc'[e] = "open" THEN conn[e].sendSeq + 1
                              ELSE conn[e].sendSeq
    <2>1. CASE conn' = conn /\ ~(pc[e] = "writing" /\ pc'[e] = "open")
      BY <2>1 DEF EachEnd, FrameTypeOK
    <2>2. CASE pc[e] = "writing" /\ pc'[e] = "open" /\ conn' = [conn EXCEPT ![e].sendSeq = @ + 1]
      <3>0. sealed[e] # <<>> /\ Len(sealed[e]) \in Nat /\ ~conn[e].closed
        <4>1. sealed[e] # <<>> /\ ~conn[e].closed
          BY <2>2 DEF EachEnd, Progress
        <4> QED
          BY <4>1, Typed DEF EachEnd
      <3>1. /\ sealed[e] # <<>> /\ Len(sealed[e]) \in Nat
            /\ \A n \in 1..Len(sealed[e]) : n <= MaxSeq
            /\ conn[e].sendSeq = Len(sealed[e]) - 1
        BY <2>2, <3>0 DEF EachEnd, InSequence
      <3>2. Len(sealed[e]) \in 1..Len(sealed[e])
        BY <3>1, Typed, EmptySeq, SMTT(30) DEF EachEnd
      <3>3. conn[e].sendSeq + 1 \in 0..MaxSeq
        BY <3>1, <3>2 DEF TransportAssumption
      <3> DEFINE c == [conn[e] EXCEPT !.sendSeq = conn[e].sendSeq + 1]
      <3>4. conn' = [conn EXCEPT ![e] = c] /\ conn[e] \in [sendSeq : 0..MaxSeq, recvSeq : 0..MaxSeq, closed : BOOLEAN]
        BY <2>2 DEF EachEnd, FrameTypeOK
      <3>5. /\ c \in [sendSeq : 0..MaxSeq, recvSeq : 0..MaxSeq, closed : BOOLEAN]
            /\ c.recvSeq = conn[e].recvSeq /\ c.closed = conn[e].closed
            /\ c.sendSeq = conn[e].sendSeq + 1
        BY <3>3, <3>4
      <3> HIDE DEF c
      <3>6. conn'[e] = c
        BY <3>4 DEF EachEnd, FrameTypeOK
      <3>7. conn' \in [Ends -> [sendSeq : 0..MaxSeq, recvSeq : 0..MaxSeq, closed : BOOLEAN]]
        BY <3>4, <3>5 DEF EachEnd, FrameTypeOK
      <3> QED
        BY <2>2, <3>5, <3>6, <3>7
    <2> QED
      BY <1>1, <1>2, <1>7, <2>1, <2>2 DEF WriteDone
  <1>9. FrameTypeOK'
    <2>1. out' \in [Ends -> Seq(Cell)] /\ wire' \in [Ends -> Seq(Cell)]
      BY <1>6 DEF EachEnd, FrameTypeOK
    <2>2. \A d \in Ends : Len(wire'[d]) <= WireCells + MaxFaults
      <3> SUFFICES ASSUME NEW d \in Ends PROVE Len(wire'[d]) <= WireCells + MaxFaults
        OBVIOUS
      <3>1. CASE d = e
        BY <3>1, <1>6, EmptySeq DEF EachEnd, FrameTypeOK, TransportAssumption
      <3>2. CASE d # e
        BY <3>2, <1>6 DEF EachEnd, FrameTypeOK
      <3> QED
        BY <3>1, <3>2
    <2> QED
      BY <1>1, <1>2, <1>7, <1>8, <2>1, <2>2 DEF EachEnd, FrameTypeOK
  <1>10. CellsKnown'
    <2> SUFFICES ASSUME NEW d \in Ends
                 PROVE  /\ wire'[d] \in Seq(Cells(d)) /\ out'[d] \in Seq(Cells(d))
                        /\ buffer'[Other(d)] \in Seq(Cells(d))
      BY <1>2 DEF CellsKnown, Cells
    <2> QED
      BY <1>2, <1>6 DEF EachEnd, FrameTypeOK, CellsKnown
  <1>11. ASSUME NEW d \in Ends PROVE Progress(d)' /\ OneDeadline(d)' /\ InSequence(d)'
    <2>0. Progress(d) /\ OneDeadline(d) /\ InSequence(d) /\ FrameTypeOK
      BY DEF EachEnd
    <2>1. CASE d # e
      <3>1. out'[d] = out[d]
        BY <1>6, <2>1 DEF EachEnd, FrameTypeOK
      <3> QED
        BY <1>1, <1>2, <1>7, <2>0, <2>1, <3>1 DEF Progress, OneDeadline, InSequence, Blocked
    <2>2. CASE d = e
      <3>1. k = Len(out[e]) => out'[e] = <<>>
        BY <1>6, EmptySeq DEF EachEnd, FrameTypeOK
      <3>2. Progress(e)'
        BY <1>2, <1>7, <1>8, <2>0, <2>2, <3>1 DEF Progress
      <3>3. OneDeadline(e)'
        BY <1>1, <1>2, <1>7, <2>0, <2>2 DEF OneDeadline, Blocked
      <3>4. InSequence(e)'
        <4>1. Len(sealed[e]) \in Nat /\ (pc[e] = "writing" => ~conn[e].closed)
          BY <2>0, <2>2, Typed DEF Progress
        <4>2. /\ \A n \in 1..Len(sealed[e]) : sealed[e][n].seq = n - 1 /\ n <= MaxSeq
              /\ conn[e].recvSeq = delivered[e]
              /\ pc[e] # "gone" /\ ~conn[e].closed =>
                    conn[e].sendSeq = IF pc[e] = "writing" THEN Len(sealed[e]) - 1 ELSE Len(sealed[e])
          BY <2>0, <2>2 DEF InSequence
        <4>3. pc'[e] # "gone" /\ ~conn'[e].closed =>
                  conn'[e].sendSeq = IF pc'[e] = "writing" THEN Len(sealed[e]) - 1 ELSE Len(sealed[e])
          BY <1>2, <1>7, <1>8, <4>1, <4>2
        <4> QED
          BY <1>2, <1>8, <4>2, <4>3 DEF InSequence
      <3> QED
        BY <2>2, <3>2, <3>3, <3>4
    <2> QED
      BY <2>1, <2>2
  <1>12. \/ pc'[e] = pc[e]
         \/ pc[e] = "hello_out" /\ pc'[e] = IF e = "client" THEN "hello_in" ELSE "open"
         \/ pc[e] = "writing" /\ pc'[e] = "open"
    BY <1>7 DEF Ends
  <1> QED
    BY <1>7, <1>8, <1>9, <1>10, <1>11, <1>12 DEF EachEnd

\* An end that a step leaves alone.
LEMMA OtherKept ==
    ASSUME NEW d, Progress(d), OneDeadline(d), InSequence(d),
           pc'[d] = pc[d], conn'[d] = conn[d], out'[d] = out[d], buffer'[d] = buffer[d],
           timer'[d] = timer[d], age'[d] = age[d], sealed'[d] = sealed[d],
           delivered'[d] = delivered[d],
           d \in failed' \cup refused' => d \in failed \cup refused
    PROVE  Progress(d)' /\ OneDeadline(d)' /\ InSequence(d)'
  BY DEF Progress, OneDeadline, InSequence, Blocked

\* Closing keeps what was received.
LEMMA Closed ==
    ASSUME FrameTypeOK, NEW e \in Ends, Close(e)
    PROVE  /\ conn' \in [Ends -> [sendSeq : 0..MaxSeq, recvSeq : 0..MaxSeq, closed : BOOLEAN]]
           /\ conn'[e].closed /\ conn'[e].recvSeq = conn[e].recvSeq
           /\ \A d \in Ends : d # e => conn'[d] = conn[d]
  <1> DEFINE c == [conn[e] EXCEPT !.closed = TRUE]
  <1>1. /\ conn' = [conn EXCEPT ![e] = c] /\ conn[e] \in [sendSeq : 0..MaxSeq, recvSeq : 0..MaxSeq, closed : BOOLEAN]
        /\ conn \in [Ends -> [sendSeq : 0..MaxSeq, recvSeq : 0..MaxSeq, closed : BOOLEAN]]
    BY DEF Close, FrameTypeOK
  <1>2. /\ c \in [sendSeq : 0..MaxSeq, recvSeq : 0..MaxSeq, closed : BOOLEAN]
        /\ c.recvSeq = conn[e].recvSeq /\ c.closed
    BY <1>1
  <1> HIDE DEF c
  <1> QED
    BY <1>1, <1>2

\* A failed write ends the connection or the handshake and keeps each end's counters.
LEMMA WriteFailsLocal ==
    ASSUME TransportAssumption, EachEnd, NEW e \in Ends, WriteFails(e)
    PROVE  EachEnd'
  <1> USE TwoEnds
  <1>0. FrameTypeOK /\ CellsKnown /\ \A d \in Ends : Progress(d) /\ OneDeadline(d) /\ InSequence(d)
    BY DEF EachEnd
  <1>1. /\ out' = [out EXCEPT ![e] = <<>>] /\ failed' = failed \cup {e}
        /\ UNCHANGED <<buffer, timer, partial, wire, sealed, delivered, garbled, faults, refused, age>>
        /\ pc[e] \in {"hello_out", "writing"}
    BY DEF WriteFails
  <1>2. /\ pc' \in [Ends -> {"hello_out", "hello_in", "open", "writing", "gone"}]
        /\ conn' \in [Ends -> [sendSeq : 0..MaxSeq, recvSeq : 0..MaxSeq, closed : BOOLEAN]]
        /\ conn'[e].recvSeq = conn[e].recvSeq
        /\ pc'[e] = "gone" \/ (pc'[e] = "open" /\ conn'[e].closed /\ pc[e] = "writing")
        /\ \A d \in Ends : d # e => pc'[d] = pc[d] /\ conn'[d] = conn[d]
    <2>1. CASE pc[e] = "writing"
      <3>1. pc' = [pc EXCEPT ![e] = "open"] /\ Close(e)
        BY <2>1 DEF WriteFails, AfterFailedWrite
      <3>2. pc' \in [Ends -> {"hello_out", "hello_in", "open", "writing", "gone"}]
            /\ pc'[e] = "open" /\ \A d \in Ends : d # e => pc'[d] = pc[d]
        BY <1>0, <3>1 DEF FrameTypeOK
      <3> QED
        BY <1>0, <2>1, <3>1, <3>2, Closed
    <2>2. CASE pc[e] = "hello_out"
      BY <1>0, <2>2, SMTT(30) DEF WriteFails, Leave, FrameTypeOK
    <2> QED
      BY <1>1, <2>1, <2>2
  <1>3. FrameTypeOK'
    <2>1. out' \in [Ends -> Seq(Cell)]
      BY <1>0, <1>1, SMTT(30) DEF FrameTypeOK
    <2> QED
      BY <1>0, <1>1, <1>2, <2>1 DEF FrameTypeOK
  <1>4. CellsKnown'
    <2> SUFFICES ASSUME NEW d \in Ends
                 PROVE  /\ wire'[d] \in Seq(Cells(d)) /\ out'[d] \in Seq(Cells(d))
                        /\ buffer'[Other(d)] \in Seq(Cells(d))
      BY <1>1 DEF CellsKnown, Cells
    <2>1. out'[d] = <<>> \/ out'[d] = out[d]
      BY <1>0, <1>1 DEF FrameTypeOK
    <2>2. <<>> \in Seq(Cells(d))
      OBVIOUS
    <2> QED
      BY <1>0, <1>1, <2>1, <2>2 DEF CellsKnown
  <1>5. ASSUME NEW d \in Ends PROVE Progress(d)' /\ OneDeadline(d)' /\ InSequence(d)'
    <2>1. CASE d # e
      BY <1>0, <1>1, <1>2, <2>1, OtherKept DEF FrameTypeOK
    <2>2. CASE d = e
      <3>1. out'[e] = <<>>
        BY <1>0, <1>1 DEF FrameTypeOK
      <3> QED
        BY <1>0, <1>1, <1>2, <2>2, <3>1 DEF Progress, OneDeadline, InSequence, Blocked
    <2> QED
      BY <2>1, <2>2
  <1> QED
    BY <1>3, <1>4, <1>5 DEF EachEnd

\* The thread of an end that waits for no answer any more.
LEMMA LeaveLocal ==
    ASSUME TransportAssumption, EachEnd, NEW e \in Ends, HelloFails(e) \/ DropConnection(e)
    PROVE  EachEnd'
  <1> USE TwoEnds
  <1>0. FrameTypeOK /\ CellsKnown /\ \A d \in Ends : Progress(d) /\ OneDeadline(d) /\ InSequence(d)
    BY DEF EachEnd
  <1>1. /\ pc' = [pc EXCEPT ![e] = "gone"] /\ pc[e] \in {"hello_in", "open"}
        /\ UNCHANGED <<conn, buffer, out, timer, partial, wire, sealed, delivered, garbled,
                       faults, refused, failed, age>>
    BY DEF HelloFails, DropConnection, Leave, history
  <1>2. FrameTypeOK' /\ CellsKnown'
    BY <1>0, <1>1 DEF FrameTypeOK, CellsKnown, Cells
  <1>3. ASSUME NEW d \in Ends PROVE Progress(d)' /\ OneDeadline(d)' /\ InSequence(d)'
    <2>1. CASE d # e
      BY <1>0, <1>1, <2>1, OtherKept DEF FrameTypeOK
    <2>2. CASE d = e
      <3>1. pc'[e] = "gone"
        BY <1>0, <1>1 DEF FrameTypeOK
      <3> QED
        BY <1>0, <1>1, <2>2, <3>1 DEF Progress, OneDeadline, InSequence, Blocked
    <2> QED
      BY <2>1, <2>2
  <1> QED
    BY <1>2, <1>3 DEF EachEnd

\* The connection closes while its thread stays.
LEMMA CloseLocal ==
    ASSUME TransportAssumption, EachEnd, NEW e \in Ends, SendExhausted(e) \/ PollEnds(e)
    PROVE  EachEnd'
  <1> USE TwoEnds
  <1>0. FrameTypeOK /\ CellsKnown /\ \A d \in Ends : Progress(d) /\ OneDeadline(d) /\ InSequence(d)
    BY DEF EachEnd
  <1>1. /\ Close(e) /\ pc[e] = "open"
        /\ UNCHANGED <<pc, buffer, out, timer, partial, wire, sealed, delivered, garbled,
                       faults, refused, failed, age>>
    BY DEF SendExhausted, PollEnds, history
  <1>2. /\ conn' \in [Ends -> [sendSeq : 0..MaxSeq, recvSeq : 0..MaxSeq, closed : BOOLEAN]]
        /\ conn'[e].closed /\ conn'[e].recvSeq = conn[e].recvSeq
        /\ \A d \in Ends : d # e => conn'[d] = conn[d]
    BY <1>0, <1>1, Closed
  <1>3. FrameTypeOK' /\ CellsKnown'
    BY <1>0, <1>1, <1>2 DEF FrameTypeOK, CellsKnown, Cells
  <1>4. ASSUME NEW d \in Ends PROVE Progress(d)' /\ OneDeadline(d)' /\ InSequence(d)'
    <2>1. CASE d # e
      BY <1>0, <1>1, <1>2, <2>1, OtherKept
    <2>2. CASE d = e
      BY <1>0, <1>1, <1>2, <2>2 DEF Progress, OneDeadline, InSequence, Blocked
    <2> QED
      BY <2>1, <2>2
  <1> QED
    BY <1>3, <1>4 DEF EachEnd

\* send_payload encrypts one record with the next sequence number.
LEMMA SendLocal ==
    ASSUME TransportAssumption, EachEnd, NEW e \in Ends, SendPayload(e)
    PROVE  /\ EachEnd'
           /\ \E s \in Sizes :
                /\ sealed' = [sealed EXCEPT ![e] = Append(@, [seq |-> conn[e].sendSeq, size |-> s])]
                /\ out' = [out EXCEPT ![e] = Frame(Len(sealed[e]) + 1, s)]
                /\ Len(sealed'[e]) = Len(sealed[e]) + 1
                /\ sealed'[e][Len(sealed[e]) + 1].size = s
                /\ \A n \in 1..Len(sealed[e]) : sealed'[e][n] = sealed[e][n]
                /\ s \in 1..MaxBody
  <1> USE TwoEnds
  <1>0. FrameTypeOK /\ CellsKnown /\ \A d \in Ends : Progress(d) /\ OneDeadline(d) /\ InSequence(d)
    BY DEF EachEnd
  <1>1. PICK s \in Sizes :
           /\ sealed' = [sealed EXCEPT ![e] = Append(@, [seq |-> conn[e].sendSeq, size |-> s])]
           /\ out' = [out EXCEPT ![e] = Frame(Len(sealed[e]) + 1, s)]
    BY DEF SendPayload
  <1>2. /\ pc[e] = "open" /\ ~conn[e].closed /\ conn[e].sendSeq < MaxSeq
        /\ pc' = [pc EXCEPT ![e] = "writing"]
        /\ timer' = [timer EXCEPT ![e] = WriteTimeout]
        /\ age' = [age EXCEPT ![e] = 0]
        /\ UNCHANGED <<conn, buffer, partial, wire, delivered, garbled, faults, refused, failed>>
    BY DEF SendPayload, history
  <1> DEFINE r == [seq |-> conn[e].sendSeq, size |-> s]
             R == [seq : 0..MaxSeq, size : 1..MaxBody]
             longer == Append(sealed[e], r)
             frame == Frame(Len(sealed[e]) + 1, s)
  <1>3. /\ sealed[e] \in Seq(R) /\ Len(sealed[e]) \in Nat /\ s \in 1..MaxBody
        /\ conn[e].sendSeq \in Nat /\ conn[e].sendSeq = Len(sealed[e]) /\ MaxSeq \in Nat
    <2>1. /\ sealed[e] \in Seq(R) /\ Len(sealed[e]) \in Nat
          /\ conn[e] \in [sendSeq : 0..MaxSeq, recvSeq : 0..MaxSeq, closed : BOOLEAN]
      BY <1>0, Typed
    <2>2. conn[e].sendSeq = Len(sealed[e])
      BY <1>0, <1>2 DEF InSequence
    <2>3. s \in 1..MaxBody /\ MaxSeq \in Nat
      BY DEF TransportAssumption
    <2> QED
      BY <2>1, <2>2, <2>3
  <1>4. r \in R /\ r.seq = conn[e].sendSeq /\ r.size = s
    BY <1>2, <1>3
  <1> HIDE DEF r, R
  <1>5. /\ longer \in Seq(R) /\ Len(longer) = Len(sealed[e]) + 1
        /\ \A n \in 1..Len(sealed[e]) : longer[n] = sealed[e][n]
        /\ longer[Len(sealed[e]) + 1] = r
    BY <1>3, <1>4, AppendProperties
  <1>6. /\ frame \in Seq([frame : 0..Len(longer), at : Nat, whole : BOOLEAN])
        /\ frame \in Seq(Cell)
    <2>1. /\ Len(sealed[e]) + 1 \in Nat /\ s \in Nat /\ Len(longer) \in Nat
          /\ Len(sealed[e]) + 1 <= Len(longer)
      BY <1>3, <1>5
    <2>2. frame \in Seq([frame : 0..Len(longer), at : Nat, whole : BOOLEAN])
      BY <2>1, FrameCells
    <2>3. [frame : 0..Len(longer), at : Nat, whole : BOOLEAN] \subseteq Cell
      BY <2>1 DEF Cell
    <2> QED
      BY <2>2, <2>3, SeqMonotonic
  <1>7. /\ sealed' = [sealed EXCEPT ![e] = longer] /\ out' = [out EXCEPT ![e] = frame]
        /\ sealed'[e] = longer /\ out'[e] = frame
        /\ \A d \in Ends : d # e => sealed'[d] = sealed[d] /\ out'[d] = out[d]
    BY <1>0, <1>1 DEF FrameTypeOK, r
  <1> HIDE DEF longer, frame
  <1>8. FrameTypeOK'
    <2>1. sealed' \in [Ends -> Seq(R)]
      BY <1>0, <1>5, <1>7 DEF FrameTypeOK, R
    <2>2. out' \in [Ends -> Seq(Cell)]
      BY <1>0, <1>6, <1>7 DEF FrameTypeOK
    <2>3. timer' \in [Ends -> 0..(WriteTimeout + HandshakeTimeout)]
      <3>1. WriteTimeout \in 0..(WriteTimeout + HandshakeTimeout)
        BY DEF TransportAssumption
      <3> QED
        BY <1>0, <1>2, <3>1 DEF FrameTypeOK
    <2>4. age' \in [Ends -> Nat] /\ pc' \in [Ends -> {"hello_out", "hello_in", "open", "writing", "gone"}]
      BY <1>0, <1>2 DEF FrameTypeOK
    <2> QED
      BY <1>0, <1>2, <2>1, <2>2, <2>3, <2>4 DEF FrameTypeOK, R
  <1>9. CellsKnown'
    <2> SUFFICES ASSUME NEW d \in Ends
                 PROVE  /\ wire'[d] \in Seq(Cells(d)') /\ out'[d] \in Seq(Cells(d)')
                        /\ buffer'[Other(d)] \in Seq(Cells(d)')
      BY DEF CellsKnown
    <2>1. Cells(d) \subseteq Cells(d)'
      BY <1>3, <1>5, <1>7 DEF Cells
    <2>2. wire'[d] \in Seq(Cells(d)') /\ buffer'[Other(d)] \in Seq(Cells(d)')
      BY <1>0, <1>2, <2>1, SeqMonotonic DEF CellsKnown
    <2>3. CASE d # e
      BY <1>0, <1>7, <2>1, <2>2, <2>3, SeqMonotonic DEF CellsKnown
    <2>4. CASE d = e
      BY <1>6, <1>7, <2>2, <2>4 DEF Cells
    <2> QED
      BY <2>3, <2>4
  <1>10. ASSUME NEW d \in Ends PROVE Progress(d)' /\ OneDeadline(d)' /\ InSequence(d)'
    <2>1. CASE d # e
      BY <1>0, <1>2, <1>7, <2>1, OtherKept DEF FrameTypeOK
    <2>2. CASE d = e
      <3>0. pc'[e] = "writing" /\ timer'[e] = WriteTimeout /\ age'[e] = 0
        BY <1>0, <1>2 DEF FrameTypeOK
      <3>1. Progress(e)'
        <4>1. longer # <<>>
          BY <1>3, <1>5, EmptySeq
        <4> QED
          BY <1>0, <1>2, <1>7, <3>0, <4>1 DEF Progress
      <3>2. OneDeadline(e)'
        BY <1>0, <3>0 DEF OneDeadline, TransportAssumption
      <3>3. InSequence(e)'
        <4>1. ASSUME NEW n \in 1..Len(longer) PROVE longer[n].seq = n - 1 /\ n <= MaxSeq
          <5>1. CASE n \in 1..Len(sealed[e])
            BY <1>0, <1>5, <5>1 DEF InSequence
          <5>2. CASE n = Len(sealed[e]) + 1
            BY <1>2, <1>3, <1>4, <1>5, <5>2
          <5> QED
            BY <1>3, <1>5, <5>1, <5>2
        <4>2. conn[e].sendSeq = Len(longer) - 1
          BY <1>3, <1>5
        <4> QED
          BY <1>0, <1>2, <1>7, <3>0, <4>1, <4>2 DEF InSequence
      <3> QED
        BY <2>2, <3>1, <3>2, <3>3
    <2> QED
      BY <2>1, <2>2
  <1>11. EachEnd'
    BY <1>8, <1>9, <1>10 DEF EachEnd
  <1>12. /\ Len(sealed'[e]) = Len(sealed[e]) + 1
         /\ sealed'[e][Len(sealed[e]) + 1].size = s
         /\ \A n \in 1..Len(sealed[e]) : sealed'[e][n] = sealed[e][n]
         /\ s \in 1..MaxBody
    BY <1>3, <1>4, <1>5, <1>7
  <1> QED
    BY <1>1, <1>11, <1>12

\* Time takes from the one deadline what it adds to the age.
LEMMA TimeLocal ==
    ASSUME TransportAssumption, EachEnd, TimePasses
    PROVE  EachEnd'
  <1> USE TwoEnds
  <1>0. FrameTypeOK /\ CellsKnown /\ \A d \in Ends : Progress(d) /\ OneDeadline(d) /\ InSequence(d)
    BY DEF EachEnd
  <1>1. /\ \A d \in Ends : ~Due(d)
        /\ timer' = [d \in Ends |-> IF Blocked(d) THEN timer[d] - 1 ELSE 0]
        /\ age' = [d \in Ends |-> IF Blocked(d) THEN age[d] + 1 ELSE 0]
        /\ partial' = IF partial \in 0..(FrameIdleTimeout - 1) THEN partial + 1 ELSE partial
        /\ UNCHANGED <<pc, conn, buffer, out, wire, sealed, delivered, garbled, faults, refused, failed>>
    BY DEF TimePasses, history
  <1>2. ASSUME NEW d \in Ends
        PROVE  /\ timer[d] \in 0..(WriteTimeout + HandshakeTimeout) /\ age[d] \in Nat
               /\ Blocked(d) => timer[d] # 0
               /\ timer'[d] \in 0..(WriteTimeout + HandshakeTimeout) /\ age'[d] \in Nat
               /\ Blocked(d) => timer'[d] = timer[d] - 1 /\ age'[d] = age[d] + 1
    <2>1. timer[d] \in 0..(WriteTimeout + HandshakeTimeout) /\ age[d] \in Nat
      BY <1>0, Typed
    <2>2. Blocked(d) => timer[d] # 0
      BY <1>1 DEF Due
    <2>3. timer'[d] = (IF Blocked(d) THEN timer[d] - 1 ELSE 0) /\ age'[d] = (IF Blocked(d) THEN age[d] + 1 ELSE 0)
      BY <1>1
    <2>4. WriteTimeout \in Nat /\ HandshakeTimeout \in Nat
      BY DEF TransportAssumption
    <2> QED
      BY <2>1, <2>2, <2>3, <2>4
  <1>3. FrameTypeOK'
    <2>1. timer' \in [Ends -> 0..(WriteTimeout + HandshakeTimeout)] /\ age' \in [Ends -> Nat]
      BY <1>1, <1>2
    <2>2. partial' \in {None} \cup 0..FrameIdleTimeout
      BY <1>0, <1>1 DEF FrameTypeOK, TransportAssumption, None
    <2> QED
      BY <1>0, <1>1, <2>1, <2>2 DEF FrameTypeOK
  <1>4. CellsKnown'
    BY <1>0, <1>1 DEF CellsKnown, Cells
  <1>5. ASSUME NEW d \in Ends PROVE Progress(d)' /\ OneDeadline(d)' /\ InSequence(d)'
    <2>1. Progress(d)' /\ InSequence(d)'
      BY <1>0, <1>1 DEF Progress, InSequence
    <2>2. OneDeadline(d)'
      <3>1. Blocked(d)' = Blocked(d) /\ pc'[d] = pc[d]
        BY <1>1 DEF Blocked
      <3>2. ASSUME Blocked(d) PROVE age'[d] + timer'[d] = age[d] + timer[d]
        BY <1>2, <3>2
      <3> QED
        BY <1>0, <3>1, <3>2 DEF OneDeadline
    <2> QED
      BY <2>1, <2>2
  <1> QED
    BY <1>3, <1>4, <1>5 DEF EachEnd

\* A fault of the path keeps each end's counters, and is counted.
LEMMA FaultLocal ==
    ASSUME TransportAssumption, EachEnd, NEW e \in Ends, Fault(e)
    PROVE  EachEnd' /\ faults' # 0
  <1> USE TwoEnds
  <1>0. FrameTypeOK /\ CellsKnown /\ \A d \in Ends : Progress(d) /\ OneDeadline(d) /\ InSequence(d)
    BY DEF EachEnd
  <1> DEFINE s == wire[e]
             C == [frame : 0..Len(sealed[e]), at : Nat, whole : BOOLEAN]
  <1>1. /\ faults' = faults + 1 /\ faults < MaxFaults
        /\ UNCHANGED <<pc, conn, buffer, out, timer, partial, sealed, delivered, garbled, refused, failed, age>>
    BY DEF Fault
  <1>2. s \in Seq(C) /\ Len(s) \in Nat /\ Len(s) <= WireCells + MaxFaults
    BY <1>0, Typed DEF CellsKnown, Cells, FrameTypeOK
  <1>3. \E t \in Seq(C) : wire' = [wire EXCEPT ![e] = t] /\ Len(t) <= WireCells + MaxFaults
    <2>0. WireCells + MaxFaults \in Nat
      BY DEF TransportAssumption
    <2>1. PICK i \in 1..Len(s) :
            \/ wire' = [wire EXCEPT ![e] = SubSeq(s, 1, i - 1) \o SubSeq(s, i + 1, Len(s))]
            \/ wire' = [wire EXCEPT ![e][i].whole = FALSE]
            \/ \E j \in i..Len(s) :
                 /\ Len(s) + j - i < WireCells + MaxFaults
                 /\ wire' = [wire EXCEPT ![e] = SubSeq(s, 1, j) \o SubSeq(s, i, Len(s))]
      BY DEF Fault
    <2>2. i \in 0..Len(s) /\ i - 1 \in 0..Len(s) /\ i - 1 + 1 = i
      BY <1>2
    <2> HIDE DEF s, C
    <2>3. /\ SubSeq(s, 1, i - 1) \in Seq(C) /\ Len(SubSeq(s, 1, i - 1)) = i - 1
          /\ SubSeq(s, i, Len(s)) \in Seq(C) /\ Len(SubSeq(s, i, Len(s))) = Len(s) - (i - 1)
          /\ SubSeq(s, i + 1, Len(s)) \in Seq(C) /\ Len(SubSeq(s, i + 1, Len(s))) = Len(s) - i
      <3>1. /\ SubSeq(s, 1, i - 1) \in Seq(C) /\ Len(SubSeq(s, 1, i - 1)) = i - 1
            /\ SubSeq(s, i - 1 + 1, Len(s)) \in Seq(C) /\ Len(SubSeq(s, i - 1 + 1, Len(s))) = Len(s) - (i - 1)
        BY <1>2, <2>2, Parts
      <3>2. SubSeq(s, i + 1, Len(s)) \in Seq(C) /\ Len(SubSeq(s, i + 1, Len(s))) = Len(s) - i
        BY <1>2, <2>2, Parts
      <3> QED
        BY <2>2, <3>1, <3>2
    <2>4. CASE wire' = [wire EXCEPT ![e] = SubSeq(s, 1, i - 1) \o SubSeq(s, i + 1, Len(s))]
      <3> DEFINE a == SubSeq(s, 1, i - 1)
                 b == SubSeq(s, i + 1, Len(s))
                 t == a \o b
      <3>0. a \in Seq(C) /\ b \in Seq(C) /\ Len(a) = i - 1 /\ Len(b) = Len(s) - i
        BY <2>3
      <3>1. t \in Seq(C) /\ Len(t) = (i - 1) + (Len(s) - i)
        <4> HIDE DEF a, b
        <4>1. \A x, y \in Seq(C) : x \o y \in Seq(C) /\ Len(x \o y) = Len(x) + Len(y)
          BY ConcatProperties
        <4>2. t \in Seq(C) /\ Len(t) = Len(a) + Len(b)
          BY <3>0, <4>1
        <4> QED
          BY <3>0, <4>2
      <3> HIDE DEF t
      <3>2. Len(t) <= WireCells + MaxFaults
        BY <1>2, <2>0, <2>2, <3>1
      <3> QED
        BY <2>4, <3>1, <3>2 DEF t
    <2>5. CASE wire' = [wire EXCEPT ![e][i].whole = FALSE]
      <3> DEFINE c == [s[i] EXCEPT !.whole = FALSE]
      <3>1. s[i] \in C
        BY <1>2, ElementOfSeq
      <3>2. c \in C
        BY <3>1 DEF C
      <3> HIDE DEF c
      <3>3. [s EXCEPT ![i] = c] \in Seq(C) /\ Len([s EXCEPT ![i] = c]) = Len(s)
        BY <1>2, <3>2, ExceptSeq
      <3>4. wire' = [wire EXCEPT ![e] = [s EXCEPT ![i] = c]]
        BY <2>5 DEF s, c
      <3> QED
        BY <1>2, <3>3, <3>4
    <2>6. ASSUME NEW j \in i..Len(s), Len(s) + j - i < WireCells + MaxFaults,
                 wire' = [wire EXCEPT ![e] = SubSeq(s, 1, j) \o SubSeq(s, i, Len(s))]
          PROVE  \E t \in Seq(C) : wire' = [wire EXCEPT ![e] = t] /\ Len(t) <= WireCells + MaxFaults
      <3> DEFINE t == SubSeq(s, 1, j) \o SubSeq(s, i, Len(s))
      <3>1. j \in 0..Len(s)
        BY <1>2
      <3>2. SubSeq(s, 1, j) \in Seq(C) /\ Len(SubSeq(s, 1, j)) = j
        BY <1>2, <3>1, Parts
      <3>3. t \in Seq(C) /\ Len(t) = j + (Len(s) - (i - 1))
        BY <2>3, <3>2, Joined
      <3> HIDE DEF t
      <3>4. Len(t) <= WireCells + MaxFaults
        BY <1>2, <2>0, <2>6, <3>1, <3>3
      <3> QED
        BY <2>6, <3>3, <3>4 DEF t
    <2> QED
      BY <2>1, <2>4, <2>5, <2>6
  <1>4. PICK t \in Seq(C) : wire' = [wire EXCEPT ![e] = t] /\ Len(t) <= WireCells + MaxFaults
    BY <1>3
  <1>5. t \in Seq(Cells(e)) /\ t \in Seq(Cell)
    <2>1. t \in Seq(Cells(e))
      BY DEF Cells
    <2> QED
      BY <2>1, CellsAreCells, SeqMonotonic
  <1>6. wire' \in [Ends -> Seq(Cell)] /\ wire'[e] = t /\ \A d \in Ends : d # e => wire'[d] = wire[d]
    BY <1>0, <1>4, <1>5 DEF FrameTypeOK
  <1>7. faults' \in 0..MaxFaults /\ faults' # 0
    BY <1>0, <1>1 DEF FrameTypeOK, TransportAssumption
  <1>8. FrameTypeOK'
    <2>1. \A d \in Ends : Len(wire'[d]) <= WireCells + MaxFaults
      BY <1>0, <1>4, <1>6 DEF FrameTypeOK
    <2> QED
      BY <1>0, <1>1, <1>6, <1>7, <2>1 DEF FrameTypeOK
  <1>9. CellsKnown'
    <2> SUFFICES ASSUME NEW d \in Ends
                 PROVE  /\ wire'[d] \in Seq(Cells(d)) /\ out'[d] \in Seq(Cells(d))
                        /\ buffer'[Other(d)] \in Seq(Cells(d))
      BY <1>1 DEF CellsKnown, Cells
    <2> QED
      BY <1>0, <1>1, <1>5, <1>6 DEF CellsKnown
  <1>10. \A d \in Ends : Progress(d)' /\ OneDeadline(d)' /\ InSequence(d)'
    BY <1>0, <1>1 DEF Progress, OneDeadline, InSequence, Blocked
  <1> QED
    BY <1>7, <1>8, <1>9, <1>10 DEF EachEnd

\* A length prefix is one of a frame of its end, or what the torn one decodes to.
LEMMA LengthKnown ==
    ASSUME TransportAssumption, FrameTypeOK, NEW e \in Ends, NEW cells \in Seq(Cells(e))
    PROVE  /\ Len(cells) \in Nat
           /\ HasLength(cells) => LengthOf(e, cells) \in Nat
           /\ Complete(e, cells) => /\ LengthOf(e, cells) \in 1..MaxBody
                                    /\ PrefixCells + LengthOf(e, cells) \in 0..Len(cells)
           /\ ~BadLength(e, cells) /\ ~Complete(e, cells) => Len(cells) < PrefixCells + MaxBody
  <1>0. Len(cells) \in Nat /\ MaxBody \in Nat \ {0}
    BY LenProperties DEF TransportAssumption
  <1>1. ASSUME HasLength(cells) PROVE LengthOf(e, cells) \in Nat
    <2>1. garbled \in Nat
      BY <1>0 DEF FrameTypeOK
    <2>2. cells[1] \in Cells(e)
      BY <1>0, <1>1, ElementOfSeq DEF HasLength, PrefixCells
    <2>3. cells[1].frame \in 0..Len(sealed[e]) /\ Len(sealed[e]) \in Nat
      BY <2>2, Typed DEF Cells
    <2>4. SizeOf(e, cells[1].frame) \in Nat
      <3>1. CASE cells[1].frame = Hello
        BY <3>1 DEF SizeOf
      <3>2. CASE cells[1].frame # Hello
        <4>1. cells[1].frame \in 1..Len(sealed[e])
          BY <2>3, <3>2 DEF Hello
        <4>2. sealed[e][cells[1].frame].size \in 1..MaxBody
          BY <4>1, Typed
        <4> QED
          BY <3>2, <4>2, <1>0 DEF SizeOf
      <3> QED
        BY <3>1, <3>2
    <2> QED
      BY <2>1, <2>4 DEF LengthOf
  <1> DEFINE l == LengthOf(e, cells)
  <1>2. HasLength(cells) => l \in Nat
    BY <1>1
  <1>3. /\ BadLength(e, cells) <=> HasLength(cells) /\ (l = 0 \/ l > MaxBody)
        /\ Complete(e, cells) <=> HasLength(cells) /\ ~BadLength(e, cells) /\ Len(cells) >= PrefixCells + l
        /\ HasLength(cells) <=> Len(cells) >= PrefixCells
    BY DEF BadLength, Complete, HasLength
  <1> HIDE DEF l
  <1>4. /\ Complete(e, cells) => l \in 1..MaxBody /\ PrefixCells + l \in 0..Len(cells)
        /\ ~BadLength(e, cells) /\ ~Complete(e, cells) => Len(cells) < PrefixCells + MaxBody
    BY <1>0, <1>2, <1>3 DEF PrefixCells
  <1> QED
    BY <1>0, <1>2, <1>4 DEF l

\* Reading a handshake message keeps each end's counters.
LEMMA ReadHelloLocal ==
    ASSUME TransportAssumption, EachEnd, NEW e \in Ends, ReadHello(e)
    PROVE  EachEnd'
  <1> USE TwoEnds
  <1>0. FrameTypeOK /\ CellsKnown /\ \A d \in Ends : Progress(d) /\ OneDeadline(d) /\ InSequence(d)
    BY DEF EachEnd
  <1> DEFINE from == Other(e)
             cells == Append(buffer[e], Head(wire[from]))
  <1>1. /\ pc[e] = "hello_in" /\ wire[from] # <<>>
        /\ wire' = [wire EXCEPT ![from] = Tail(@)]
        /\ UNCHANGED <<conn, timer, partial, sealed, delivered, garbled, faults, failed, age>>
    BY DEF ReadHello
  <1>2. /\ wire[from] \in Seq(Cells(from)) /\ buffer[e] \in Seq(Cells(from))
        /\ Len(wire[from]) \in Nat /\ Len(wire[from]) <= WireCells + MaxFaults
    BY <1>0, Typed DEF CellsKnown, FrameTypeOK
  <1>3. /\ Head(wire[from]) \in Cells(from) /\ Tail(wire[from]) \in Seq(Cells(from))
        /\ Len(Tail(wire[from])) = Len(wire[from]) - 1
    BY <1>1, <1>2, HeadTailProperties
  <1>4. cells \in Seq(Cells(from))
    BY <1>2, <1>3, AppendProperties
  <1>5. cells \in Seq(Cell) /\ Tail(wire[from]) \in Seq(Cell)
    BY <1>3, <1>4, CellsAreCells, SeqMonotonic
  <1>6. /\ Frame(Hello, 1) \in Seq(Cells(e)) /\ Frame(Hello, 1) \in Seq(Cell)
    <2>1. Frame(Hello, 1) \in Seq(Cells(e))
      <3>1. Hello \in Nat /\ 1 \in Nat /\ Len(sealed[e]) \in Nat /\ Hello <= Len(sealed[e])
        BY <1>0, Typed, SMTT(30) DEF Hello
      <3> QED
        BY <3>1, FrameCells DEF Cells
    <2> QED
      BY <2>1, CellsAreCells, SeqMonotonic
  <1> DEFINE hello == Frame(Hello, 1)
             rest == Tail(wire[from])
  <1>7. /\ buffer' = buffer \/ (buffer' = [buffer EXCEPT ![e] = cells] /\ ~BadLength(from, cells) /\ ~Complete(from, cells))
           \/ buffer' = [buffer EXCEPT ![e] = <<>>]
        /\ out' = out \/ out' = [out EXCEPT ![e] = hello]
        /\ pc' = pc \/ pc' = [pc EXCEPT ![e] = "hello_out"] \/ pc' = [pc EXCEPT ![e] = "open"]
           \/ pc' = [pc EXCEPT ![e] = "gone"]
        /\ refused' = refused \/ (refused' = refused \cup {e} /\ pc' = [pc EXCEPT ![e] = "gone"])
        /\ pc' = [pc EXCEPT ![e] = "hello_out"] => buffer' = [buffer EXCEPT ![e] = <<>>]
        /\ out' # out => pc' = [pc EXCEPT ![e] = "hello_out"]
        /\ wire' = [wire EXCEPT ![from] = rest]
    <2> HIDE DEF cells, hello, rest
    <2>1. \/ /\ ~BadLength(from, cells) /\ ~Complete(from, cells)
             /\ buffer' = [buffer EXCEPT ![e] = cells]
             /\ UNCHANGED <<pc, out, refused>>
          \/ /\ buffer' = [buffer EXCEPT ![e] = <<>>]
             /\ \/ pc' = [pc EXCEPT ![e] = "hello_out"] /\ out' = [out EXCEPT ![e] = hello]
                \/ pc' = [pc EXCEPT ![e] = "open"] /\ UNCHANGED out
             /\ UNCHANGED refused
          \/ pc' = [pc EXCEPT ![e] = "gone"] /\ UNCHANGED <<buffer, out, refused>>
          \/ /\ refused' = refused \cup {e} /\ pc' = [pc EXCEPT ![e] = "gone"]
             /\ UNCHANGED <<buffer, out>>
      BY DEF ReadHello, Leave, cells, hello
    <2>2. wire' = [wire EXCEPT ![from] = rest]
      BY <1>1 DEF rest
    <2>3. /\ pc' = [pc EXCEPT ![e] = "open"] => pc' # [pc EXCEPT ![e] = "hello_out"]
          /\ pc' = [pc EXCEPT ![e] = "gone"] => pc' # [pc EXCEPT ![e] = "hello_out"]
          /\ pc' = pc => pc' # [pc EXCEPT ![e] = "hello_out"]
      BY <1>0, <1>1 DEF FrameTypeOK
    <2>4. CASE /\ ~BadLength(from, cells) /\ ~Complete(from, cells)
               /\ buffer' = [buffer EXCEPT ![e] = cells]
               /\ UNCHANGED <<pc, out, refused>>
      BY <2>2, <2>3, <2>4
    <2>5. CASE /\ buffer' = [buffer EXCEPT ![e] = <<>>]
               /\ \/ pc' = [pc EXCEPT ![e] = "hello_out"] /\ out' = [out EXCEPT ![e] = hello]
                  \/ pc' = [pc EXCEPT ![e] = "open"] /\ UNCHANGED out
               /\ UNCHANGED refused
      BY <2>2, <2>3, <2>5
    <2>6. CASE pc' = [pc EXCEPT ![e] = "gone"] /\ UNCHANGED <<buffer, out>>
               /\ refused' \in {refused, refused \cup {e}}
      BY <2>2, <2>3, <2>6
    <2> QED
      BY <2>1, <2>4, <2>5, <2>6
  <1>8. Len(cells) \in Nat /\ (~BadLength(from, cells) /\ ~Complete(from, cells) => Len(cells) <= PrefixCells + MaxBody)
    <2> HIDE DEF cells
    <2>1. Len(cells) \in Nat /\ (~BadLength(from, cells) /\ ~Complete(from, cells) => Len(cells) < PrefixCells + MaxBody)
      BY <1>0, <1>4, LengthKnown
    <2>2. MaxBody \in Nat
      BY DEF TransportAssumption
    <2> QED
      BY <2>1, <2>2 DEF PrefixCells
  <1> HIDE DEF cells, hello, rest
  <1>9. /\ buffer' \in [Ends -> Seq(Cell)] /\ buffer'[e] \in Seq(Cells(from))
        /\ Len(buffer'[e]) <= PrefixCells + MaxBody
        /\ buffer'[from] = buffer[from]
    <2>1. CASE buffer' = buffer
      BY <1>0, <1>2, <2>1 DEF FrameTypeOK
    <2>2. CASE buffer' = [buffer EXCEPT ![e] = cells] /\ ~BadLength(from, cells) /\ ~Complete(from, cells)
      BY <1>0, <1>4, <1>5, <1>8, <2>2 DEF FrameTypeOK, cells
    <2>3. CASE buffer' = [buffer EXCEPT ![e] = <<>>]
      <3>1. Len(<<>>) = 0 /\ MaxBody \in Nat
        BY DEF TransportAssumption
      <3> QED
        BY <1>0, <2>3, <3>1, SMTT(30) DEF FrameTypeOK, PrefixCells
    <2> QED
      BY <1>7, <2>1, <2>2, <2>3
  <1>10. /\ out' \in [Ends -> Seq(Cell)] /\ out'[e] \in Seq(Cells(e)) /\ out'[from] = out[from]
         /\ wire' \in [Ends -> Seq(Cell)] /\ wire'[from] = rest /\ wire'[e] = wire[e]
         /\ pc' \in [Ends -> {"hello_out", "hello_in", "open", "writing", "gone"}] /\ pc'[from] = pc[from]
         /\ pc'[e] \in {"hello_in", "hello_out", "open", "gone"}
         /\ pc'[e] = "hello_out" => buffer'[e] = <<>>
         /\ pc'[e] # "hello_out" => out'[e] = out[e]
         /\ e \in failed \cup refused' => e \in failed \cup refused \/ pc'[e] = "gone"
         /\ from \in failed \cup refused' => from \in failed \cup refused
         /\ refused' \subseteq Ends
    <2>1. out' \in [Ends -> Seq(Cell)] /\ out'[e] \in Seq(Cells(e)) /\ out'[from] = out[from]
      <3>1. hello \in Seq(Cell) /\ hello \in Seq(Cells(e))
        BY <1>6 DEF hello
      <3> QED
        BY <1>0, <1>7, <3>1, SMTT(30) DEF FrameTypeOK, CellsKnown
    <2>2. wire' \in [Ends -> Seq(Cell)] /\ wire'[from] = rest /\ wire'[e] = wire[e]
      <3>1. rest \in Seq(Cell)
        BY <1>5 DEF rest
      <3> QED
        BY <1>0, <1>7, <3>1 DEF FrameTypeOK
    <2>3. /\ pc' \in [Ends -> {"hello_out", "hello_in", "open", "writing", "gone"}] /\ pc'[from] = pc[from]
          /\ pc'[e] \in {"hello_in", "hello_out", "open", "gone"}
          /\ pc' = [pc EXCEPT ![e] = "hello_out"] <=> pc'[e] = "hello_out"
          /\ pc' = [pc EXCEPT ![e] = "gone"] => pc'[e] = "gone"
      <3>1. \/ pc' = pc \/ pc' = [pc EXCEPT ![e] = "hello_out"]
            \/ pc' = [pc EXCEPT ![e] = "open"] \/ pc' = [pc EXCEPT ![e] = "gone"]
        BY <1>7
      <3>2. pc \in [Ends -> {"hello_out", "hello_in", "open", "writing", "gone"}] /\ pc[e] = "hello_in"
        BY <1>0, <1>1 DEF FrameTypeOK
      <3> QED
        BY <1>0, <3>1, <3>2, SMTT(30)
    <2>4. pc'[e] = "hello_out" => buffer'[e] = <<>>
      BY <1>0, <1>7, <2>3 DEF FrameTypeOK
    <2>5. /\ e \in failed \cup refused' => e \in failed \cup refused \/ pc'[e] = "gone"
          /\ from \in failed \cup refused' => from \in failed \cup refused
          /\ refused' \subseteq Ends
      BY <1>0, <1>7, <2>3 DEF FrameTypeOK
    <2> QED
      BY <1>7, <2>1, <2>2, <2>3, <2>4, <2>5
  <1>11. FrameTypeOK'
    <2>1. \A d \in Ends : Len(wire'[d]) <= WireCells + MaxFaults
      <3>1. Len(rest) <= WireCells + MaxFaults
        <4>1. Len(rest) = Len(wire[from]) - 1
          BY <1>3 DEF rest
        <4>2. WireCells + MaxFaults \in Nat
          BY DEF TransportAssumption
        <4> QED
          BY <4>1, <4>2, <1>2
      <3> QED
        BY <1>0, <1>10, <3>1 DEF FrameTypeOK, Ends, Other
    <2>2. \A d \in Ends : Len(buffer'[d]) <= PrefixCells + MaxBody
      BY <1>0, <1>9 DEF FrameTypeOK, Ends, Other
    <2> QED
      BY <1>0, <1>1, <1>9, <1>10, <2>1, <2>2 DEF FrameTypeOK
  <1>12. CellsKnown'
    <2> SUFFICES ASSUME NEW d \in Ends
                 PROVE  /\ wire'[d] \in Seq(Cells(d)) /\ out'[d] \in Seq(Cells(d))
                        /\ buffer'[Other(d)] \in Seq(Cells(d))
      BY <1>1 DEF CellsKnown, Cells
    <2>1. CASE d = e
      BY <1>0, <1>9, <1>10, <2>1 DEF CellsKnown
    <2>2. CASE d = from
      <3>1. rest \in Seq(Cells(from))
        BY <1>3 DEF rest
      <3> QED
        BY <1>0, <1>9, <1>10, <2>2, <3>1 DEF CellsKnown
    <2> QED
      BY <2>1, <2>2 DEF Ends, Other
  <1>13. ASSUME NEW d \in Ends PROVE Progress(d)' /\ OneDeadline(d)' /\ InSequence(d)'
    <2>1. CASE d = from
      BY <1>0, <1>1, <1>9, <1>10, <2>1, OtherKept
    <2>2. CASE d = e
      BY <1>0, <1>1, <1>10, <2>2 DEF Progress, OneDeadline, InSequence, Blocked
    <2> QED
      BY <2>1, <2>2 DEF Ends, Other
  <1> QED
    BY <1>11, <1>12, <1>13 DEF EachEnd

\* One poll: what it takes from the stream and what it makes of it.
PollTakes(e, k, cells) ==
    LET from == Other(e) IN
    /\ cells = buffer[e] \o SubSeq(wire[from], 1, k)
    /\ Len(cells) \in Nat /\ Len(cells) <= PrefixCells + MaxBody
    /\ Len(cells) = Len(buffer[e]) + k
    /\ wire' = [wire EXCEPT ![from] = SubSeq(wire[from], k + 1, Len(wire[from]))]
    /\ \/ /\ ~BadLength(from, cells) /\ ~Complete(from, cells)
          /\ buffer' = [buffer EXCEPT ![e] = cells]
          /\ pc' = pc \/ pc' = [pc EXCEPT ![e] = "gone"]
          /\ partial' \in {None} \cup 0..FrameIdleTimeout
          /\ UNCHANGED <<conn, delivered, refused>>
       \/ /\ Complete(from, cells) /\ Accepts(e, cells)
          /\ buffer' = [buffer EXCEPT ![e] = Rest(from, cells)]
          /\ conn' = [conn EXCEPT ![e].recvSeq = @ + 1]
          /\ delivered' = [delivered EXCEPT ![e] = delivered[e] + 1]
          /\ partial' \in {None} \cup 0..FrameIdleTimeout
          /\ UNCHANGED <<pc, refused>>
       \/ /\ \/ BadLength(from, cells)
             \/ Complete(from, cells) /\ ~Accepts(e, cells)
             \/ ~Complete(from, cells) /\ ~(Len(cells) < PrefixCells + MaxBody)
          /\ buffer' = [buffer EXCEPT ![e] = cells] /\ Close(e)
          /\ refused' = refused \cup {e}
          /\ UNCHANGED <<pc, delivered, partial>>

\* poll_payload takes some cells and has one of its three outcomes.
LEMMA PollOutcome ==
    ASSUME TransportAssumption, EachEnd, NEW e \in Ends, PollPayload(e)
    PROVE  \E k \in 0..Len(wire[Other(e)]) : \E cells \in Seq(Cells(Other(e))) :
              PollTakes(e, k, cells)
  <1> USE TwoEnds
  <1>0. FrameTypeOK /\ CellsKnown
    BY DEF EachEnd
  <1> DEFINE from == Other(e)
             w == wire[from]
             b == buffer[e]
  <1>1. PICK k \in Polled(e) :
            /\ wire' = [wire EXCEPT ![from] = SubSeq(w, k + 1, Len(w))]
            /\ \/ /\ ~BadLength(from, b \o SubSeq(w, 1, k)) /\ ~Complete(from, b \o SubSeq(w, 1, k))
                  /\ BufferRoom(e) > k
                  /\ buffer' = [buffer EXCEPT ![e] = b \o SubSeq(w, 1, k)]
                  /\ IF e = "server"
                     THEN /\ partial' = PartialNow(b \o SubSeq(w, 1, k))
                          /\ IF partial' = FrameIdleTimeout THEN Leave(e) ELSE UNCHANGED pc
                     ELSE UNCHANGED <<pc, partial>>
                  /\ UNCHANGED <<conn, delivered, refused>>
               \/ /\ Complete(from, b \o SubSeq(w, 1, k)) /\ Accepts(e, b \o SubSeq(w, 1, k))
                  /\ buffer' = [buffer EXCEPT ![e] = Rest(from, b \o SubSeq(w, 1, k))]
                  /\ conn' = [conn EXCEPT ![e].recvSeq = @ + 1]
                  /\ delivered' = [delivered EXCEPT ![e] = delivered[e] + 1]
                  /\ partial' = IF e = "server" THEN None ELSE partial
                  /\ UNCHANGED <<pc, refused>>
               \/ /\ \/ BadLength(from, b \o SubSeq(w, 1, k))
                     \/ Complete(from, b \o SubSeq(w, 1, k)) /\ ~Accepts(e, b \o SubSeq(w, 1, k))
                     \/ ~Complete(from, b \o SubSeq(w, 1, k)) /\ BufferRoom(e) <= k
                  /\ OnRefusal(e, b \o SubSeq(w, 1, k))
                  /\ refused' = refused \cup {e}
                  /\ UNCHANGED <<pc, delivered, partial>>
    BY Zenon DEF PollPayload
  <1>2. /\ w \in Seq(Cells(from)) /\ b \in Seq(Cells(from)) /\ Len(w) \in Nat /\ Len(b) \in Nat
        /\ Len(b) <= PrefixCells + MaxBody /\ PrefixCells + MaxBody \in Nat
    <2>1. w \in Seq(Cells(from)) /\ b \in Seq(Cells(from)) /\ Len(b) <= PrefixCells + MaxBody
      BY <1>0 DEF CellsKnown, FrameTypeOK
    <2>2. Len(w) \in Nat /\ Len(b) \in Nat
      BY <2>1, LenProperties
    <2>3. PrefixCells + MaxBody \in Nat
      BY DEF TransportAssumption, PrefixCells
    <2> QED
      BY <2>1, <2>2, <2>3
  <1> DEFINE top == PrefixCells + MaxBody
  <1>5. BufferRoom(e) = top - Len(b)
    <2>1. MaxBody \in Nat /\ Len(b) \in Nat
      BY <1>2 DEF TransportAssumption
    <2> HIDE DEF b
    <2>2. PrefixCells + (MaxBody - Len(b)) = top - Len(b)
      BY <2>1 DEF PrefixCells
    <2> QED
      BY <2>2 DEF BufferRoom, b
  <1>3. k \in 0..Len(w) /\ Len(b) + k <= PrefixCells + MaxBody
    <2>1. k = 0 \/ (k \in 0..Len(w) /\ k <= top - Len(b))
      <3>1. Polled(e) \subseteq {0} \cup {j \in 0..Len(w) : j <= BufferRoom(e)}
        BY DEF Polled
      <3>2. BufferRoom(e) = top - Len(b)
        BY <1>5
      <3>3. k \in {0} \cup {j \in 0..Len(w) : j <= BufferRoom(e)}
        BY <3>1
      <3> HIDE DEF top, b, w
      <3> QED
        BY <3>2, <3>3
    <2>2. Len(w) \in Nat /\ Len(b) \in Nat /\ Len(b) <= top /\ top \in Nat
      BY <1>2
    <2> HIDE DEF top, w, b
    <2>3. k \in 0..Len(w) /\ Len(b) + k <= top
      BY <2>1, <2>2
    <2> QED
      BY <2>3 DEF top
  <1> DEFINE cells == b \o SubSeq(w, 1, k)
  <1>4. cells \in Seq(Cells(from)) /\ Len(cells) = Len(b) + k
    <2>1. SubSeq(w, 1, k) \in Seq(Cells(from)) /\ Len(SubSeq(w, 1, k)) = k
      BY <1>2, <1>3, Parts
    <2> QED
      BY <1>2, <2>1, Joined
  <1> HIDE DEF cells
  <1>6. /\ Len(cells) \in Nat /\ Len(cells) <= PrefixCells + MaxBody
        /\ BufferRoom(e) <= k <=> ~(Len(cells) < PrefixCells + MaxBody)
    <2>1. /\ Len(b) \in Nat /\ top \in Nat /\ k \in Nat /\ Len(b) + k <= top
          /\ Len(cells) = Len(b) + k /\ BufferRoom(e) = top - Len(b)
      <3>1. Len(b) \in Nat /\ top \in Nat /\ Len(b) + k <= top /\ Len(w) \in Nat /\ k \in 0..Len(w)
        BY <1>2, <1>3
      <3>2. k \in Nat
        <4> HIDE DEF w, b, top
        <4> QED
          BY <3>1
      <3>3. Len(cells) = Len(b) + k
        BY <1>4
      <3>4. BufferRoom(e) = top - Len(b)
        BY <1>5
      <3> QED
        BY <3>1, <3>2, <3>3, <3>4
    <2> HIDE DEF w, b, top
    <2>2. Len(cells) \in Nat /\ Len(cells) <= top /\ (BufferRoom(e) <= k <=> ~(Len(cells) < top))
      BY <2>1
    <2> QED
      BY <2>2 DEF top
  <1>7. partial \in {None} \cup 0..FrameIdleTimeout /\ 0 \in 0..FrameIdleTimeout
    BY <1>0 DEF FrameTypeOK, TransportAssumption
  <1>8. CASE /\ ~BadLength(from, cells) /\ ~Complete(from, cells)
             /\ buffer' = [buffer EXCEPT ![e] = cells]
             /\ IF e = "server"
                THEN /\ partial' = PartialNow(cells)
                     /\ IF partial' = FrameIdleTimeout THEN Leave(e) ELSE UNCHANGED pc
                ELSE UNCHANGED <<pc, partial>>
             /\ UNCHANGED <<conn, delivered, refused>>
    <2>1. pc' = pc \/ pc' = [pc EXCEPT ![e] = "gone"]
      BY <1>8 DEF Leave
    <2>2. partial' \in {None} \cup 0..FrameIdleTimeout
      BY <1>7, <1>8 DEF PartialNow
    <2> QED
      BY <1>1, <1>3, <1>4, <1>6, <1>8, <2>1, <2>2 DEF cells, PollTakes
  <1>9. CASE /\ Complete(from, cells) /\ Accepts(e, cells)
             /\ buffer' = [buffer EXCEPT ![e] = Rest(from, cells)]
             /\ conn' = [conn EXCEPT ![e].recvSeq = @ + 1]
             /\ delivered' = [delivered EXCEPT ![e] = delivered[e] + 1]
             /\ partial' = IF e = "server" THEN None ELSE partial
             /\ UNCHANGED <<pc, refused>>
    <2>1. partial' \in {None} \cup 0..FrameIdleTimeout
      BY <1>7, <1>9
    <2> QED
      BY <1>1, <1>3, <1>4, <1>6, <1>9, <2>1 DEF cells, PollTakes
  <1>10. CASE /\ \/ BadLength(from, cells)
                 \/ Complete(from, cells) /\ ~Accepts(e, cells)
                 \/ ~Complete(from, cells) /\ BufferRoom(e) <= k
              /\ OnRefusal(e, cells)
              /\ refused' = refused \cup {e}
              /\ UNCHANGED <<pc, delivered, partial>>
    <2>1. /\ \/ BadLength(from, cells)
             \/ Complete(from, cells) /\ ~Accepts(e, cells)
             \/ ~Complete(from, cells) /\ ~(Len(cells) < PrefixCells + MaxBody)
          /\ buffer' = [buffer EXCEPT ![e] = cells] /\ Close(e)
          /\ refused' = refused \cup {e}
          /\ UNCHANGED <<pc, delivered, partial>>
      BY <1>6, <1>10 DEF OnRefusal
    <2> QED
      BY <1>1, <1>3, <1>4, <1>6, <2>1 DEF cells, PollTakes
  <1> QED
    BY <1>1, <1>8, <1>9, <1>10 DEF cells

\* What is left behind an accepted frame.
LEMMA RestKnown ==
    ASSUME TransportAssumption, FrameTypeOK, NEW e \in Ends, NEW cells \in Seq(Cells(e)),
           Complete(e, cells)
    PROVE  /\ Rest(e, cells) \in Seq(Cells(e)) /\ Len(Rest(e, cells)) \in Nat
           /\ Len(Rest(e, cells)) <= Len(cells)
  <1> DEFINE l == PrefixCells + LengthOf(e, cells)
  <1>1. l \in 0..Len(cells) /\ Len(cells) \in Nat
    BY LengthKnown
  <1> HIDE DEF l
  <1>2. /\ SubSeq(cells, l + 1, Len(cells)) \in Seq(Cells(e))
        /\ Len(SubSeq(cells, l + 1, Len(cells))) = Len(cells) - l
    BY <1>1, Parts
  <1>3. Rest(e, cells) = SubSeq(cells, l + 1, Len(cells))
    BY DEF Rest, l
  <1> QED
    BY <1>1, <1>2, <1>3

\* poll_payload keeps each end's counters.
LEMMA PollLocal ==
    ASSUME TransportAssumption, EachEnd, NEW e \in Ends, PollPayload(e)
    PROVE  EachEnd'
  <1> USE TwoEnds
  <1>0. FrameTypeOK /\ CellsKnown /\ \A d \in Ends : Progress(d) /\ OneDeadline(d) /\ InSequence(d)
    BY DEF EachEnd
  <1> DEFINE from == Other(e)
             rest(k) == SubSeq(wire[from], k + 1, Len(wire[from]))
             C == [sendSeq : 0..MaxSeq, recvSeq : 0..MaxSeq, closed : BOOLEAN]
  <1>1. PICK k \in 0..Len(wire[from]) : \E cells \in Seq(Cells(from)) : PollTakes(e, k, cells)
    BY PollOutcome
  <1>p. PICK cells \in Seq(Cells(from)) : PollTakes(e, k, cells)
    BY <1>1
  <1>q. /\ Len(cells) \in Nat /\ Len(cells) <= PrefixCells + MaxBody
        /\ wire' = [wire EXCEPT ![from] = rest(k)]
    BY <1>p DEF PollTakes
  <1>2. /\ pc[e] = "open" /\ ~conn[e].closed
        /\ UNCHANGED <<out, timer, sealed, garbled, faults, failed, age>>
    BY DEF PollPayload
  <1> DEFINE r == rest(k)
  <1>3. /\ wire' = [wire EXCEPT ![from] = r]
        /\ r \in Seq(Cells(from)) /\ r \in Seq(Cell)
        /\ Len(r) <= WireCells + MaxFaults
    <2>1. wire[from] \in Seq(Cells(from)) /\ Len(wire[from]) <= WireCells + MaxFaults /\ Len(wire[from]) \in Nat
      BY <1>0, Typed DEF CellsKnown, FrameTypeOK
    <2>2. r \in Seq(Cells(from)) /\ Len(r) = Len(wire[from]) - k
      BY <2>1, Parts
    <2>3. r \in Seq(Cell)
      BY <2>2, CellsAreCells, SeqMonotonic
    <2>4. WireCells + MaxFaults \in Nat
      BY DEF TransportAssumption
    <2> HIDE DEF r
    <2>5. Len(r) <= WireCells + MaxFaults
      BY <2>1, <2>2, <2>4
    <2> QED
      BY <1>q, <2>2, <2>3, <2>5 DEF r
  <1>4. /\ cells \in Seq(Cell)
        /\ Complete(from, cells) => /\ Rest(from, cells) \in Seq(Cells(from))
                                    /\ Rest(from, cells) \in Seq(Cell)
                                    /\ Len(Rest(from, cells)) <= PrefixCells + MaxBody
    <2>1. cells \in Seq(Cell)
      BY CellsAreCells, SeqMonotonic
    <2>2. ASSUME Complete(from, cells)
          PROVE  /\ Rest(from, cells) \in Seq(Cells(from))
                 /\ Rest(from, cells) \in Seq(Cell)
                 /\ Len(Rest(from, cells)) <= PrefixCells + MaxBody
      <3>1. /\ Rest(from, cells) \in Seq(Cells(from)) /\ Len(Rest(from, cells)) \in Nat
            /\ Len(Rest(from, cells)) <= Len(cells)
        BY <1>0, <2>2, RestKnown
      <3>2. PrefixCells + MaxBody \in Nat
        BY DEF TransportAssumption, PrefixCells
      <3>3. Rest(from, cells) \in Seq(Cell)
        BY <3>1, CellsAreCells, SeqMonotonic
      <3>4. Len(Rest(from, cells)) <= PrefixCells + MaxBody
        BY <1>q, <3>1, <3>2
      <3> QED
        BY <3>1, <3>3, <3>4
    <2> QED
      BY <2>1, <2>2
  <1> HIDE DEF r, rest
  <1>5. /\ buffer' \in [Ends -> Seq(Cell)] /\ buffer'[e] \in Seq(Cells(from))
        /\ buffer'[from] = buffer[from]
        /\ Len(buffer'[e]) <= PrefixCells + MaxBody
    <2>1. \E x : x \in Seq(Cell) /\ x \in Seq(Cells(from)) /\ Len(x) <= PrefixCells + MaxBody
                 /\ buffer' = [buffer EXCEPT ![e] = x]
      BY <1>p, <1>q, <1>4 DEF PollTakes
    <2>2. PICK x : x \in Seq(Cell) /\ x \in Seq(Cells(from)) /\ Len(x) <= PrefixCells + MaxBody
                   /\ buffer' = [buffer EXCEPT ![e] = x]
      BY <2>1
    <2> QED
      BY <1>0, <2>2 DEF FrameTypeOK
  <1>6. /\ pc' \in [Ends -> {"hello_out", "hello_in", "open", "writing", "gone"}]
        /\ pc'[e] \in {"open", "gone"} /\ pc'[from] = pc[from]
    BY <1>0, <1>p, <1>2 DEF FrameTypeOK, PollTakes
  <1>7. /\ conn' \in [Ends -> C] /\ delivered' \in [Ends -> Nat]
        /\ conn'[from] = conn[from] /\ delivered'[from] = delivered[from]
        /\ conn'[e].recvSeq = delivered'[e]
        /\ \/ conn'[e].closed
           \/ conn'[e].sendSeq = conn[e].sendSeq /\ conn'[e].closed = conn[e].closed /\ refused' = refused
        /\ refused' \subseteq Ends
        /\ from \in refused' => from \in refused
        /\ e \in refused' => e \in refused \/ (conn'[e].closed /\ pc'[e] = "open")
    <2>0. conn[e].recvSeq = delivered[e] /\ conn \in [Ends -> C] /\ delivered \in [Ends -> Nat]
          /\ refused \subseteq Ends
      BY <1>0 DEF InSequence, FrameTypeOK
    <2>1. CASE UNCHANGED <<conn, delivered, refused>>
      BY <2>0, <2>1
    <2>2. CASE /\ Complete(from, cells) /\ Accepts(e, cells)
               /\ conn' = [conn EXCEPT ![e].recvSeq = @ + 1]
               /\ delivered' = [delivered EXCEPT ![e] = delivered[e] + 1]
               /\ UNCHANGED refused
      <3>1. delivered[e] + 1 <= Len(sealed[from])
        BY <2>2 DEF Accepts, Opens
      <3>2. delivered[e] + 1 \in 1..Len(sealed[from])
        <4>1. Len(sealed[from]) \in Nat /\ delivered[e] \in Nat
          BY <1>0, Typed
        <4> QED
          BY <3>1, <4>1
      <3>3. delivered[e] + 1 <= MaxSeq
        BY <1>0, <3>2 DEF InSequence
      <3>4. conn[e].recvSeq + 1 \in 0..MaxSeq
        BY <2>0, <3>3 DEF TransportAssumption
      <3> DEFINE c == [conn[e] EXCEPT !.recvSeq = conn[e].recvSeq + 1]
      <3>5. conn' = [conn EXCEPT ![e] = c] /\ conn[e] \in C
        BY <2>0, <2>2
      <3>6. /\ c \in C /\ c.recvSeq = conn[e].recvSeq + 1 /\ c.closed = conn[e].closed
            /\ c.sendSeq = conn[e].sendSeq
        BY <3>4, <3>5
      <3> HIDE DEF c, C
      <3>7. conn' \in [Ends -> C] /\ conn'[e] = c /\ conn'[from] = conn[from]
        BY <2>0, <3>5, <3>6
      <3>8. delivered' \in [Ends -> Nat] /\ delivered'[e] = delivered[e] + 1 /\ delivered'[from] = delivered[from]
        BY <2>0, <2>2
      <3> QED
        BY <2>0, <2>2, <3>6, <3>7, <3>8
    <2>3. CASE Close(e) /\ refused' = refused \cup {e} /\ UNCHANGED <<pc, delivered>>
      <3>1. /\ conn' \in [Ends -> C] /\ conn'[e].closed /\ conn'[e].recvSeq = conn[e].recvSeq
            /\ conn'[from] = conn[from]
        BY <1>0, <2>3, Closed
      <3> QED
        BY <1>2, <2>0, <2>3, <3>1
    <2> QED
      BY <1>p, <2>1, <2>2, <2>3 DEF PollTakes
  <1>8. FrameTypeOK'
    <2>1. partial' \in {None} \cup 0..FrameIdleTimeout
      BY <1>0, <1>p DEF FrameTypeOK, PollTakes
    <2>2. wire' \in [Ends -> Seq(Cell)] /\ \A d \in Ends : Len(wire'[d]) <= WireCells + MaxFaults
      BY <1>0, <1>3 DEF FrameTypeOK
    <2>3. \A d \in Ends : Len(buffer'[d]) <= PrefixCells + MaxBody
      BY <1>0, <1>5 DEF FrameTypeOK, Ends, Other
    <2> QED
      BY <1>0, <1>2, <1>5, <1>6, <1>7, <2>1, <2>2, <2>3 DEF FrameTypeOK
  <1>9. CellsKnown'
    <2> SUFFICES ASSUME NEW d \in Ends
                 PROVE  /\ wire'[d] \in Seq(Cells(d)) /\ out'[d] \in Seq(Cells(d))
                        /\ buffer'[Other(d)] \in Seq(Cells(d))
      BY <1>2 DEF CellsKnown, Cells
    <2>1. wire'[d] \in Seq(Cells(d))
      BY <1>0, <1>3 DEF CellsKnown, FrameTypeOK
    <2>2. buffer'[Other(d)] \in Seq(Cells(d))
      <3>1. d = from => Other(d) = e
        BY DEF Ends, Other
      <3>2. d = e \/ d = from
        BY DEF Ends, Other
      <3> QED
        BY <1>0, <1>5, <3>1, <3>2 DEF CellsKnown
    <2> QED
      BY <1>0, <1>2, <2>1, <2>2 DEF CellsKnown
  <1>10. ASSUME NEW d \in Ends PROVE Progress(d)' /\ OneDeadline(d)' /\ InSequence(d)'
    <2>1. CASE d = from
      BY <1>0, <1>2, <1>5, <1>6, <1>7, <2>1, OtherKept
    <2>2. CASE d = e
      <3>1. Progress(e)'
        BY <1>0, <1>2, <1>6, <1>7 DEF Progress
      <3>2. OneDeadline(e)'
        BY <1>6 DEF OneDeadline, Blocked
      <3>3. InSequence(e)'
        BY <1>0, <1>2, <1>6, <1>7, SMTT(30) DEF InSequence
      <3> QED
        BY <2>2, <3>1, <3>2, <3>3
    <2> QED
      BY <2>1, <2>2 DEF Ends, Other
  <1> QED
    BY <1>8, <1>9, <1>10 DEF EachEnd

-----------------------------------------------------------------------------
(* Cells that move along the stream *)

\* What was cut can be joined again.
LEMMA SplitJoin ==
    ASSUME NEW S, NEW s \in Seq(S), NEW k \in 0..Len(s)
    PROVE  SubSeq(s, 1, k) \o SubSeq(s, k + 1, Len(s)) = s
  <1>2. Len(s) \in Nat /\ k \in Nat /\ k <= Len(s)
    OBVIOUS
  <1>0. \A u, v \in Seq(S) :
            /\ u \o v \in Seq(S) /\ Len(u \o v) = Len(u) + Len(v)
            /\ \A i \in 1..Len(u) : (u \o v)[i] = u[i]
            /\ \A i \in 1..Len(v) : (u \o v)[i + Len(u)] = v[i]
    <2> TAKE u, v \in Seq(S)
    <2> QED
      BY Joined
  <1> DEFINE a == SubSeq(s, 1, k)
             b == SubSeq(s, k + 1, Len(s))
  <1>1. /\ a \in Seq(S) /\ Len(a) = k /\ b \in Seq(S) /\ Len(b) = Len(s) - k
        /\ \A i \in 1..k : a[i] = s[i]
        /\ \A i \in 1..(Len(s) - k) : b[i] = s[i + k]
    BY Parts
  <1> HIDE DEF a, b
  <1>3. /\ a \o b \in Seq(S) /\ Len(a \o b) = Len(a) + Len(b)
        /\ \A i \in 1..Len(a) : (a \o b)[i] = a[i]
        /\ \A i \in 1..Len(b) : (a \o b)[i + Len(a)] = b[i]
    BY <1>0, <1>1
  <1>4. Len(a \o b) = Len(s)
    BY <1>1, <1>2, <1>3
  <1>5. ASSUME NEW i \in 1..Len(s) PROVE (a \o b)[i] = s[i]
    <2>1. CASE i <= k
      BY <1>1, <1>2, <1>3, <2>1
    <2>2. CASE i > k
      <3> DEFINE j == i - k
      <3>1. j \in 1..(Len(s) - k) /\ j + k = i
        BY <1>2, <2>2
      <3> HIDE DEF j
      <3>2. (a \o b)[j + k] = b[j] /\ b[j] = s[j + k]
        BY <1>1, <1>3, <3>1
      <3> QED
        BY <3>1, <3>2
    <2>3. i <= k \/ i > k
      BY <1>2
    <2> QED
      BY <2>1, <2>2, <2>3
  <1>6. a \o b = s
    BY <1>3, <1>4, <1>5, SeqEqual
  <1> QED
    BY <1>6 DEF a, b

\* Joining cells is associative.
LEMMA CellsAssociate ==
    \A a, b, c \in Seq(Cell) : (a \o b) \o c = a \o (b \o c)
  BY ConcatAssociative

\* Reading one cell off the wire moves it into the buffer and keeps the stream.
LEMMA HeadMoved ==
    ASSUME NEW S, NEW a \in Seq(S), NEW w \in Seq(S), NEW o \in Seq(S), w # <<>>
    PROVE  (Append(a, Head(w)) \o Tail(w)) \o o = (a \o w) \o o
  <1> DEFINE h == <<Head(w)>>
             t == Tail(w)
  <1>1. Head(w) \in S /\ t \in Seq(S) /\ h \in Seq(S)
    BY HeadTailProperties
  <1>2. Append(a, Head(w)) = a \o h
    BY <1>1, AppendIsConcat
  <1>3. h \o t = w
    <2>1. Len(w) \in Nat \ {0}
      BY EmptySeq
    <2>2. SubSeq(w, 1, 1) \o SubSeq(w, 2, Len(w)) = w
      <3>1. 1 \in 0..Len(w) /\ 1 + 1 = 2
        BY <2>1
      <3> QED
        BY <3>1, SplitJoin
    <2>3. SubSeq(w, 2, Len(w)) = t
      BY TailIsSubSeq
    <2>4. SubSeq(w, 1, 1) = h
      <3>1. \A i \in 1..1 : w[i] \in S
        BY <2>1, ElementOfSeq
      <3>2. /\ SubSeq(w, 1, 1) \in Seq(S) /\ Len(SubSeq(w, 1, 1)) = 1
            /\ SubSeq(w, 1, 1)[1] = w[1]
        <4>1. 1 \in 0..Len(w) /\ 1 \in 1..1
          BY <2>1
        <4> QED
          BY <4>1, Parts
      <3>3. Len(h) = 1 /\ h[1] = w[1]
        BY HeadTailProperties
      <3> DEFINE u == SubSeq(w, 1, 1)
      <3>4. u \in Seq(S) /\ Len(u) = 1 /\ u[1] = w[1]
        BY <3>2
      <3> HIDE DEF h, u
      <3>5. \A i \in 1..Len(u) : u[i] = h[i]
        BY <3>3, <3>4
      <3>6. u = h
        BY <1>1, <3>3, <3>4, <3>5, SeqEqual
      <3> QED
        BY <3>6 DEF u, h
    <2> QED
      BY <2>2, <2>3, <2>4
  <1> HIDE DEF h, t
  <1>a. \A p, q, r \in Seq(S) : (p \o q) \o r = p \o (q \o r)
    BY ConcatAssociative, SMTT(30)
  <1>4. (a \o h) \o t = a \o w
    BY <1>1, <1>3, <1>a, ZenonT(30)
  <1> QED
    BY <1>2, <1>4 DEF t

\* Taking cells off the front does not touch what follows.
LEMMA CutJoined ==
    ASSUME NEW S, NEW c \in Seq(S), NEW r \in Seq(S), NEW l \in 0..Len(c)
    PROVE  SubSeq(c \o r, l + 1, Len(c \o r)) = SubSeq(c, l + 1, Len(c)) \o r
  <1> DEFINE x == SubSeq(c, l + 1, Len(c))
             all == c \o r
             y == SubSeq(all, l + 1, Len(all))
  <1>0. Len(c) \in Nat /\ Len(r) \in Nat /\ l \in Nat /\ l <= Len(c)
    OBVIOUS
  <1>1. /\ x \in Seq(S) /\ Len(x) = Len(c) - l
        /\ \A i \in 1..(Len(c) - l) : x[i] = c[i + l]
    BY Parts
  <1>2. /\ all \in Seq(S) /\ Len(all) = Len(c) + Len(r)
        /\ \A i \in 1..Len(c) : all[i] = c[i]
        /\ \A i \in 1..Len(r) : all[i + Len(c)] = r[i]
    BY Joined
  <1> HIDE DEF all
  <1>3. l \in 0..Len(all)
    BY <1>0, <1>2
  <1>4. /\ y \in Seq(S) /\ Len(y) = Len(all) - l
        /\ \A i \in 1..(Len(all) - l) : y[i] = all[i + l]
    BY <1>2, <1>3, Parts
  <1> HIDE DEF x, y
  <1>5. /\ x \o r \in Seq(S) /\ Len(x \o r) = Len(x) + Len(r)
        /\ \A i \in 1..Len(x) : (x \o r)[i] = x[i]
        /\ \A i \in 1..Len(r) : (x \o r)[i + Len(x)] = r[i]
    <2>1. \A p, q \in Seq(S) :
             /\ p \o q \in Seq(S) /\ Len(p \o q) = Len(p) + Len(q)
             /\ \A i \in 1..Len(p) : (p \o q)[i] = p[i]
             /\ \A i \in 1..Len(q) : (p \o q)[i + Len(p)] = q[i]
      BY Joined
    <2> QED
      BY <1>1, <2>1
  <1>6. Len(x \o r) = Len(y)
    BY <1>0, <1>1, <1>2, <1>4, <1>5
  <1>7. ASSUME NEW i \in 1..Len(y) PROVE y[i] = (x \o r)[i]
    <2>0. i \in 1..(Len(all) - l) /\ Len(y) = Len(c) + Len(r) - l /\ Len(x) = Len(c) - l
      BY <1>0, <1>1, <1>2, <1>4
    <2>1. CASE i <= Len(x)
      <3>1. i \in 1..(Len(c) - l) /\ i + l \in 1..Len(c) /\ i \in 1..Len(x)
        BY <1>0, <2>0, <2>1
      <3> QED
        BY <1>1, <1>2, <1>4, <1>5, <2>0, <3>1
    <2>2. CASE i > Len(x)
      <3> DEFINE j == i - Len(x)
      <3>1. j \in 1..Len(r) /\ j + Len(x) = i /\ j + Len(c) = i + l
        BY <1>0, <2>0, <2>2
      <3> HIDE DEF j
      <3>2. y[i] = all[i + l] /\ (x \o r)[j + Len(x)] = r[j] /\ all[j + Len(c)] = r[j]
        BY <1>2, <1>4, <1>5, <2>0, <3>1
      <3> QED
        BY <3>1, <3>2
    <2> QED
      BY <1>0, <2>0, <2>1, <2>2
  <1>8. y = x \o r
    BY <1>4, <1>5, <1>6, <1>7, SeqEqual
  <1> QED
    BY <1>8 DEF x, y, all

\* The same for the cells of a stream.
LEMMA CellsMoved ==
    /\ \A a, w, o \in Seq(Cell) : w # <<>> => (Append(a, Head(w)) \o Tail(w)) \o o = (a \o w) \o o
    /\ \A c, r \in Seq(Cell) : \A l \in 0..Len(c) :
          SubSeq(c \o r, l + 1, Len(c \o r)) = SubSeq(c, l + 1, Len(c)) \o r
  <1>1. \A a, w, o \in Seq(Cell) : w # <<>> => (Append(a, Head(w)) \o Tail(w)) \o o = (a \o w) \o o
    BY HeadMoved
  <1>2. \A c, r \in Seq(Cell) : \A l \in 0..Len(c) :
            SubSeq(c \o r, l + 1, Len(c \o r)) = SubSeq(c, l + 1, Len(c)) \o r
    BY CutJoined
  <1> QED
    BY <1>1, <1>2

-----------------------------------------------------------------------------
(* The frame at the head of the stream *)

\* The sizes of an end's frames are those of its records.
LEMMA SizesKnown ==
    ASSUME TransportAssumption, FrameTypeOK, NEW e \in Ends
    PROVE  \A k \in 0..Len(sealed[e]) : SizesOf(e)[k] = SizeOf(e, k) /\ SizesOf(e)[k] \in 1..MaxBody
  <1> SUFFICES ASSUME NEW k \in 0..Len(sealed[e])
               PROVE  SizeOf(e, k) \in 1..MaxBody
    BY DEF SizesOf
  <1>1. CASE k = Hello
    BY <1>1 DEF SizeOf, TransportAssumption
  <1>2. CASE k # Hello
    <2>1. k \in 1..Len(sealed[e])
      BY <1>2, Typed DEF Hello
    <2>2. sealed[e][k].size \in 1..MaxBody
      BY <2>1, Typed
    <2> QED
      BY <1>2, <2>2 DEF SizeOf
  <1> QED
    BY <1>1, <1>2

\* Whole cells in order are the body of their frame.
LEMMA BodyEqual ==
    ASSUME NEW cells \in Seq(Cell), NEW n \in Nat, NEW l \in Nat, PrefixCells + l <= Len(cells),
           \A i \in 1..(PrefixCells + l) : cells[i] = [frame |-> n, at |-> i, whole |-> TRUE]
    PROVE  SubSeq(cells, PrefixCells + 1, PrefixCells + l) = BodyOf(n, l)
  <1> DEFINE f == Frame(n, l)
             top == PrefixCells + l
             a == SubSeq(cells, PrefixCells + 1, top)
             b == SubSeq(f, PrefixCells + 1, top)
  <1>0. Len(cells) \in Nat /\ top \in Nat /\ top <= Len(cells) /\ top = 2 + l
    BY LenProperties DEF PrefixCells
  <1>1. f \in Seq(Cell) /\ Len(f) = top
    <2>1. /\ f \in Seq([frame : 0..n, at : Nat, whole : BOOLEAN])
          /\ Len(f) = PrefixCells + l
      BY FrameCells
    <2>2. [frame : 0..n, at : Nat, whole : BOOLEAN] \subseteq Cell
      BY DEF Cell
    <2> HIDE DEF f
    <2> QED
      BY <2>1, <2>2, SeqMonotonic
  <1>2. \A i \in 1..top : f[i] = [frame |-> n, at |-> i, whole |-> TRUE] /\ cells[i] = f[i]
    BY DEF Frame
  <1> HIDE DEF f, top
  <1>3. ASSUME NEW s \in Seq(Cell), top <= Len(s)
        PROVE  /\ SubSeq(s, 3, top) \in Seq(Cell) /\ Len(SubSeq(s, 3, top)) = l
               /\ \A i \in 1..l : SubSeq(s, 3, top)[i] = s[i + 2]
    <2>0. Len(s) \in Nat
      BY LenProperties
    <2>1. \A i \in 3..top : s[i] \in Cell
      <3>1. \A i \in 1..Len(s) : s[i] \in Cell
        BY ElementOfSeq
      <3> QED
        BY <1>0, <1>3, <2>0, <3>1
    <2>2. /\ SubSeq(s, 3, top) \in Seq(Cell)
          /\ Len(SubSeq(s, 3, top)) = IF 3 <= top THEN top - 3 + 1 ELSE 0
          /\ \A i \in 1..(top - 3 + 1) : SubSeq(s, 3, top)[i] = s[3 + i - 1]
      BY <1>0, <2>1, SubSeqProperties
    <2>3. top - 3 + 1 = l /\ (IF 3 <= top THEN top - 3 + 1 ELSE 0) = l
      BY <1>0
    <2>4. \A i \in 1..l : 3 + i - 1 = i + 2
      OBVIOUS
    <2> QED
      BY <2>2, <2>3, <2>4
  <1>4. PrefixCells + 1 = 3
    BY DEF PrefixCells
  <1>5. /\ a \in Seq(Cell) /\ Len(a) = l /\ \A i \in 1..l : a[i] = cells[i + 2]
    BY <1>0, <1>3, <1>4
  <1>6. /\ b \in Seq(Cell) /\ Len(b) = l /\ \A i \in 1..l : b[i] = f[i + 2]
    <2>1. top <= Len(f)
      BY <1>0, <1>1
    <2> QED
      BY <1>1, <1>3, <1>4, <2>1
  <1>7. \A i \in 1..l : a[i] = b[i]
    <2> SUFFICES ASSUME NEW i \in 1..l PROVE a[i] = b[i]
      OBVIOUS
    <2>1. i + 2 \in 1..top
      BY <1>0
    <2>2. cells[i + 2] = f[i + 2]
      BY <1>2, <2>1
    <2> QED
      BY <1>5, <1>6, <2>2
  <1> HIDE DEF a, b
  <1>8. a = b
    BY <1>5, <1>6, <1>7, SeqEqual
  <1> QED
    BY <1>8 DEF a, b, f, top, BodyOf

\* What an end has read, while the frames of its peer are in order.
LEMMA HeadFrame ==
    ASSUME TransportAssumption, FrameTypeOK, NEW e \in Ends, NEW stream \in Seq(Cell),
           NEW n \in 0..(Len(sealed[e]) + 1), NEW m \in Int, m <= Len(sealed[e]), NEW whole,
           Ordered(SizesOf(e), stream, n, m, whole),
           NEW cells \in Seq(Cells(e)), Len(cells) <= Len(stream),
           \A i \in 1..Len(cells) : cells[i] = stream[i]
    PROVE  /\ ~BadLength(e, cells)
           /\ HasLength(cells) => n <= m /\ LengthOf(e, cells) = SizeOf(e, n)
           /\ Complete(e, cells) => n <= Len(sealed[e]) /\ BodyIn(e, cells) = BodyOf(n, SizeOf(e, n))
  <1>0. Len(cells) \in Nat /\ Len(sealed[e]) \in Nat /\ cells \in Seq(Cell) /\ Len(stream) \in Nat
    <2>1. Len(cells) \in Nat /\ Len(stream) \in Nat
      BY LenProperties
    <2> QED
      BY <2>1, Typed, CellsAreCells, SeqMonotonic
  <1> SUFFICES ASSUME HasLength(cells)
               PROVE  /\ n <= m /\ LengthOf(e, cells) = SizeOf(e, n) /\ ~BadLength(e, cells)
                      /\ Complete(e, cells) => n <= Len(sealed[e]) /\ BodyIn(e, cells) = BodyOf(n, SizeOf(e, n))
    BY DEF BadLength, Complete
  <1>1. Len(cells) >= 2
    BY DEF HasLength, PrefixCells
  <1>2. stream # <<>>
    BY <1>0, <1>1, EmptySeq
  <1>3. \A k \in n..m : SizesOf(e)[k] \in 1..MaxBody
    <2>1. \A k \in n..m : k \in 0..Len(sealed[e])
      BY <1>0
    <2> QED
      BY <2>1, SizesKnown
  <1>4. /\ n <= m
        /\ \A i \in 1..(PrefixCells + SizesOf(e)[n]) :
              i <= Len(stream) => stream[i] = [frame |-> n, at |-> i, whole |-> TRUE]
    <2>1. n \in Nat
      OBVIOUS
    <2> QED
      BY <1>2, <1>3, <2>1, OrderedHead
  <1> DEFINE l == SizeOf(e, n)
  <1>5. l \in 1..MaxBody /\ SizesOf(e)[n] = l /\ n \in 0..Len(sealed[e])
    <2>1. n \in 0..Len(sealed[e])
      BY <1>0, <1>4
    <2> QED
      BY <2>1, SizesKnown
  <1> HIDE DEF l
  <1>6. \A i \in 1..(PrefixCells + l) :
            i <= Len(cells) => cells[i] = [frame |-> n, at |-> i, whole |-> TRUE]
    <2> SUFFICES ASSUME NEW i \in 1..(PrefixCells + l), i <= Len(cells)
                 PROVE  cells[i] = [frame |-> n, at |-> i, whole |-> TRUE]
      OBVIOUS
    <2>1. i \in 1..Len(cells) /\ i <= Len(stream)
      BY <1>0
    <2>2. stream[i] = [frame |-> n, at |-> i, whole |-> TRUE]
      BY <1>4, <1>5, <2>1
    <2> QED
      BY <2>1, <2>2
  <1>7. l \in Nat /\ MaxBody \in Nat /\ l # 0 /\ l <= MaxBody
    BY <1>5 DEF TransportAssumption
  <1>8. /\ cells[1] = [frame |-> n, at |-> 1, whole |-> TRUE]
        /\ cells[2] = [frame |-> n, at |-> 2, whole |-> TRUE]
    <2>1. 1 \in 1..(PrefixCells + l) /\ 2 \in 1..(PrefixCells + l)
      BY <1>7 DEF PrefixCells
    <2> QED
      BY <1>1, <1>6, <2>1
  <1>9. LengthOf(e, cells) = l
    <2>1. \A i \in 1..PrefixCells : cells[i].whole /\ cells[i].at = i
      BY <1>8 DEF PrefixCells
    <2>2. Intact(cells) /\ cells[1].frame = n
      BY <1>8, <2>1 DEF Intact
    <2> QED
      BY <2>2 DEF LengthOf, l
  <1>10. ~BadLength(e, cells)
    BY <1>7, <1>9 DEF BadLength
  <1>11. ASSUME Complete(e, cells) PROVE BodyIn(e, cells) = BodyOf(n, l)
    <2>1. PrefixCells + l <= Len(cells)
      BY <1>0, <1>7, <1>9, <1>11 DEF Complete, PrefixCells
    <2>2. \A i \in 1..(PrefixCells + l) : cells[i] = [frame |-> n, at |-> i, whole |-> TRUE]
      <3>1. \A i \in 1..(PrefixCells + l) : i <= Len(cells)
        BY <1>0, <1>7, <2>1 DEF PrefixCells
      <3> QED
        BY <1>6, <3>1
    <2>3. n \in Nat /\ l \in Nat /\ cells \in Seq(Cell)
      BY <1>0, <1>5, <1>7
    <2>4. SubSeq(cells, PrefixCells + 1, PrefixCells + l) = BodyOf(n, l)
      BY <2>1, <2>2, <2>3, BodyEqual, Zenon
    <2> QED
      BY <1>9, <2>4 DEF BodyIn
  <1> QED
    BY <1>4, <1>5, <1>9, <1>10, <1>11 DEF l

-----------------------------------------------------------------------------
(* The order of the frames *)

\* The stream of an end is a sequence of cells.
LEMMA StreamKnown ==
    ASSUME FrameTypeOK, NEW e \in Ends
    PROVE  /\ Stream(e) \in Seq(Cell)
           /\ buffer[Other(e)] \in Seq(Cell) /\ wire[e] \in Seq(Cell) /\ out[e] \in Seq(Cell)
           /\ buffer[Other(e)] \o wire[e] \in Seq(Cell)
  <1>1. buffer[Other(e)] \in Seq(Cell) /\ wire[e] \in Seq(Cell) /\ out[e] \in Seq(Cell)
    BY TwoEnds, Typed
  <1>2. buffer[Other(e)] \o wire[e] \in Seq(Cell)
    BY <1>1, ConcatProperties
  <1>3. Stream(e) \in Seq(Cell)
    BY <1>1, <1>2, ConcatProperties DEF Stream
  <1> QED
    BY <1>1, <1>2, <1>3

\* The stream begins with what is in front of it.
LEMMA Front ==
    ASSUME NEW a \in Seq(Cell), NEW b \in Seq(Cell)
    PROVE  /\ Len(a) <= Len(a \o b) /\ Len(a) \in Nat
           /\ \A i \in 1..Len(a) : a[i] = (a \o b)[i]
  <1>1. Len(a) \in Nat /\ Len(b) \in Nat
    BY LenProperties
  <1>2. Len(a \o b) = Len(a) + Len(b) /\ \A i \in 1..Len(a) : (a \o b)[i] = a[i]
    BY Joined
  <1> QED
    BY <1>1, <1>2

\* The frames an end still has to take are those of the other end's records.
LEMMA FramesKnown ==
    ASSUME TransportAssumption, EachEnd, NEW e \in Ends
    PROVE  /\ FirstFrame(e) \in Nat /\ LastFrame(e) \in Int /\ LastFrame(e) <= Len(sealed[e])
           /\ LastFrame(e) = -1 \/ LastFrame(e) = Len(sealed[e])
           /\ Len(sealed[e]) \in Nat
           /\ \A k \in 0..Len(sealed[e]) : SizesOf(e)[k] \in 1..MaxBody
           /\ \A k \in FirstFrame(e)..LastFrame(e) : SizesOf(e)[k] \in 1..MaxBody
           /\ MaxBody \in Nat
  <1>1. Len(sealed[e]) \in Nat /\ delivered[Other(e)] \in Nat
    BY TwoEnds, Typed DEF EachEnd
  <1>2. FirstFrame(e) \in Nat /\ LastFrame(e) \in Int /\ LastFrame(e) <= Len(sealed[e])
        /\ (LastFrame(e) = -1 \/ LastFrame(e) = Len(sealed[e]))
    BY <1>1 DEF FirstFrame, LastFrame, Hello
  <1>3. \A k \in 0..Len(sealed[e]) : SizesOf(e)[k] \in 1..MaxBody
    BY SizesKnown DEF EachEnd
  <1>4. \A k \in FirstFrame(e)..LastFrame(e) : k \in 0..Len(sealed[e])
    BY <1>1, <1>2
  <1> QED
    BY <1>1, <1>2, <1>3, <1>4 DEF TransportAssumption

\* A step that moves cells along the stream, and no frame in or out of it.
LEMMA InOrderKept ==
    ASSUME NEW d \in Ends, InOrder(d), sealed'[d] = sealed[d],
           faults' = 0 /\ Reads(Other(d))' =>
              /\ faults = 0 /\ Reads(Other(d))
              /\ pc'[Other(d)] = "hello_in" => Len(buffer'[Other(d)]) <= PrefixCells
              /\ Stream(d)' = Stream(d)
              /\ FirstFrame(d)' = FirstFrame(d) /\ LastFrame(d)' = LastFrame(d)
              /\ pc'[d] # "gone" /\ d \notin failed' => pc[d] # "gone" /\ d \notin failed
    PROVE  InOrder(d)'
  <1>1. SizesOf(d)' = SizesOf(d)
    BY DEF SizesOf, SizeOf
  <1> SUFFICES ASSUME faults' = 0, Reads(Other(d))'
               PROVE  /\ pc'[Other(d)] = "hello_in" => Len(buffer'[Other(d)]) <= PrefixCells
                      /\ Ordered(SizesOf(d), Stream(d), FirstFrame(d), LastFrame(d),
                                 pc'[d] # "gone" /\ d \notin failed')
    BY <1>1 DEF InOrder
  <1>2. Ordered(SizesOf(d), Stream(d), FirstFrame(d), LastFrame(d), pc[d] # "gone" /\ d \notin failed)
    BY DEF InOrder
  <1> DEFINE whole == pc[d] # "gone" /\ d \notin failed
             less == pc'[d] # "gone" /\ d \notin failed'
             sizes == SizesOf(d)
             stream == Stream(d)
             n == FirstFrame(d)
             m == LastFrame(d)
  <1>3. whole \in BOOLEAN /\ less \in BOOLEAN /\ (less => whole)
    OBVIOUS
  <1>4. Ordered(sizes, stream, n, m, whole)
    BY <1>2
  <1> HIDE DEF whole, less, sizes, stream, n, m
  <1>5. Ordered(sizes, stream, n, m, less)
    BY <1>3, <1>4, OrderedWeaken
  <1> QED
    BY <1>5 DEF less, sizes, stream, n, m

\* Writing a cell keeps the frames in order.
LEMMA WriteOrder ==
    ASSUME TransportAssumption, EachEnd, NEW e \in Ends, Write(e), \A d \in Ends : InOrder(d)
    PROVE  \A d \in Ends : InOrder(d)'
  <1> USE TwoEnds
  <1>0. FrameTypeOK /\ Progress(e)
    BY DEF EachEnd
  <1> DEFINE from == Other(e)
  <1>1. PICK k \in 1..Len(out[e]) :
            /\ wire' = [wire EXCEPT ![e] = @ \o SubSeq(out[e], 1, k)]
            /\ out' = [out EXCEPT ![e] = SubSeq(@, k + 1, Len(@))]
    BY DEF Write
  <1>2. /\ pc[e] \in {"hello_out", "writing"}
        /\ UNCHANGED <<buffer, sealed, delivered, faults, failed>>
    BY DEF Write, history
  <1>3. /\ pc'[from] = pc[from] /\ conn'[from] = conn[from]
        /\ \/ pc'[e] = pc[e]
           \/ pc[e] = "hello_out" /\ pc'[e] = IF e = "client" THEN "hello_in" ELSE "open"
           \/ pc[e] = "writing" /\ pc'[e] = "open"
        /\ conn'[e].closed = conn[e].closed
    BY WriteLocal
  <1>4. /\ wire'[e] = wire[e] \o SubSeq(out[e], 1, k)
        /\ out'[e] = SubSeq(out[e], k + 1, Len(out[e]))
        /\ wire'[from] = wire[from] /\ out'[from] = out[from]
    BY <1>0, <1>1 DEF FrameTypeOK
  <1>5. InOrder(e)'
    <2>1. Stream(e)' = Stream(e)
      <3>1. k \in 0..Len(out[e])
        BY <1>0, Typed
      <3>2. Stream(e)' = (buffer[from] \o (wire[e] \o SubSeq(out[e], 1, k))) \o SubSeq(out[e], k + 1, Len(out[e]))
        BY <1>2, <1>4 DEF Stream
      <3>3. buffer[from] \in Seq(Cell) /\ wire[e] \in Seq(Cell) /\ out[e] \in Seq(Cell)
        BY <1>0, StreamKnown
      <3> DEFINE a == buffer[from]
                 w == wire[e]
                 o == out[e]
                 x == SubSeq(o, 1, k)
                 y == SubSeq(o, k + 1, Len(o))
      <3>4. a \in Seq(Cell) /\ w \in Seq(Cell) /\ o \in Seq(Cell)
        BY <3>3
      <3>5. x \in Seq(Cell) /\ y \in Seq(Cell) /\ x \o y = o
        BY <3>1, <3>4, Parts, SplitJoin
      <3> HIDE DEF a, w, o, x, y
      <3>6. (a \o (w \o x)) \o y = (a \o w) \o (x \o y)
        <4>1. a \o (w \o x) = (a \o w) \o x
          BY <3>4, <3>5, CellsAssociate, ZenonT(30)
        <4>2. a \o w \in Seq(Cell)
          BY <3>4, ConcatProperties
        <4>3. ((a \o w) \o x) \o y = (a \o w) \o (x \o y)
          BY <3>5, <4>2, CellsAssociate
        <4> QED
          BY <4>1, <4>3
      <3>7. (a \o (w \o x)) \o y = (a \o w) \o o
        BY <3>5, <3>6, Zenon
      <3> QED
        BY <3>2, <3>7 DEF Stream, a, w, o, x, y
    <2>2. FirstFrame(e)' = FirstFrame(e) /\ LastFrame(e)' = LastFrame(e) /\ Reads(from)' = Reads(from)
      BY <1>2, <1>3 DEF FirstFrame, LastFrame, Greeted, Reads
    <2>3. faults = 0 /\ Reads(from) /\ pc[from] = "hello_in" => Len(buffer[from]) <= PrefixCells
      BY DEF InOrder
    <2> QED
      BY <1>2, <1>3, <2>1, <2>2, <2>3, InOrderKept
  <1>6. InOrder(from)'
    <2>1. Stream(from)' = Stream(from)
      BY <1>2, <1>4 DEF Stream
    <2>3. pc'[e] = "hello_in" => Len(buffer'[e]) <= PrefixCells
      <3>1. pc'[e] = "hello_in" => pc[e] = "hello_out"
        BY <1>2, <1>3
      <3>2. pc'[e] = "hello_in" => buffer'[e] = <<>>
        BY <1>0, <1>2, <3>1 DEF Progress
      <3> QED
        BY <3>2 DEF PrefixCells
    <2>4. FirstFrame(from)' = FirstFrame(from) /\ LastFrame(from)' = LastFrame(from) /\ (Reads(e)' => Reads(e))
      BY <1>2, <1>3 DEF FirstFrame, LastFrame, Greeted, Reads
    <2> QED
      BY <1>2, <1>3, <2>1, <2>3, <2>4, InOrderKept
  <1> QED
    BY <1>5, <1>6 DEF Ends, Other

\* The server has not greeted yet, and may never.
LEMMA NotGreeted ==
    ASSUME TransportAssumption, EachEnd, NEW e \in Ends, e = "server", pc[e] = "hello_in",
           faults = 0, Reads(Other(e)), InOrder(e)
    PROVE  /\ Stream(e) = buffer[Other(e)] \o wire[e] /\ Len(sealed[e]) = 0
           /\ Ordered(SizesOf(e), Stream(e) \o Frame(Hello, 1), FirstFrame(e), 0, TRUE)
           /\ Ordered(SizesOf(e), Stream(e), FirstFrame(e), 0, FALSE)
  <1>0. FrameTypeOK /\ Progress(e)
    BY DEF EachEnd
  <1> DEFINE stream == Stream(e)
             sizes == SizesOf(e)
             n == FirstFrame(e)
  <1>1. out[e] = <<>> /\ sealed[e] = <<>> /\ e \notin failed
    BY <1>0 DEF Progress
  <1>2. stream = buffer[Other(e)] \o wire[e] /\ stream \in Seq(Cell)
    <2> DEFINE front == buffer[Other(e)] \o wire[e]
    <2>1. front \in Seq(Cell) /\ stream \in Seq(Cell) /\ stream = front \o <<>>
      BY <1>0, <1>1, StreamKnown DEF Stream
    <2> HIDE DEF front
    <2>2. front \o <<>> = front
      BY <2>1, ConcatEmptySeq
    <2> QED
      BY <2>1, <2>2 DEF front
  <1>3. LastFrame(e) = -1 /\ Len(sealed[e]) = 0
    BY <1>1 DEF LastFrame
  <1>4. n \in Nat /\ sizes[0] \in 1..MaxBody /\ MaxBody \in Nat
    BY <1>3, FramesKnown
  <1>5. sizes[0] = 1
    BY <1>3 DEF SizesOf, SizeOf, Hello
  <1>6. Ordered(sizes, stream, n, -1, TRUE)
    <2>1. (pc[e] # "gone" /\ e \notin failed) = TRUE
      BY <1>1
    <2> QED
      BY <1>3, <2>1 DEF InOrder
  <1> HIDE DEF stream, sizes, n
  <1>7. Ordered(sizes, stream \o Frame(0, 1), n, 0, TRUE)
    <2>1. -1 + 1 = 0 /\ -1 \in Int
      OBVIOUS
    <2>2. /\ \A k \in n..(-1 + 1) : sizes[k] \in 1..MaxBody
          /\ \A k \in n..(-1) : sizes[k] = sizes[k]
      BY <1>4
    <2>3. Ordered(sizes, stream \o Frame(-1 + 1, sizes[-1 + 1]), n, -1 + 1, TRUE)
      BY <1>2, <1>4, <1>6, <2>1, <2>2, OrderedAdd
    <2> QED
      BY <1>5, <2>1, <2>3
  <1>8. Ordered(sizes, stream, n, 0, FALSE)
    <2> DEFINE more == stream \o Frame(0, 1)
    <2>1. Frame(0, 1) \in Seq(Cell)
      <3>1. Frame(0, 1) \in Seq([frame : 0..0, at : Nat, whole : BOOLEAN])
        BY FrameCells
      <3>2. [frame : 0..0, at : Nat, whole : BOOLEAN] \subseteq Cell
        BY DEF Cell
      <3> QED
        BY <3>1, <3>2, SeqMonotonic
    <2>2. more \in Seq(Cell) /\ Len(stream) <= Len(more) /\ \A i \in 1..Len(stream) : stream[i] = more[i]
      BY <1>2, <2>1, Front, ConcatProperties
    <2>3. \A k \in n..0 : sizes[k] = sizes[k] /\ sizes[k] \in 1..MaxBody
      BY <1>4
    <2>4. Ordered(sizes, more, n, 0, TRUE)
      BY <1>7
    <2> DEFINE m == 0
               yes == TRUE
    <2>5. m \in Int /\ \A k \in n..m : sizes[k] = sizes[k] /\ sizes[k] \in 1..MaxBody
      BY <2>3
    <2>7. Ordered(sizes, more, n, m, yes)
      BY Zenon, <2>4
    <2> HIDE DEF more, m, yes
    <2>6. Ordered(sizes, stream, n, m, FALSE)
      BY <1>2, <1>4, <2>2, <2>5, <2>7, OrderedPrefix, ZenonT(30)
    <2> QED
      BY <2>6 DEF m
  <1> QED
    BY <1>2, <1>3, <1>7, <1>8 DEF stream, sizes, n, Hello

\* What an end has sent stays in order when the end is gone.
LEMMA LeftInOrder ==
    ASSUME TransportAssumption, EachEnd, NEW e \in Ends, InOrder(e),
           pc'[e] = "gone", pc'[Other(e)] = pc[Other(e)], pc[e] # "hello_out",
           conn'[Other(e)] = conn[Other(e)], buffer'[Other(e)] = buffer[Other(e)],
           wire'[e] = wire[e], out'[e] = out[e], sealed'[e] = sealed[e],
           delivered'[Other(e)] = delivered[Other(e)], faults' = faults
    PROVE  InOrder(e)'
  <1> DEFINE from == Other(e)
  <1>1. /\ FirstFrame(e)' = FirstFrame(e) /\ SizesOf(e)' = SizesOf(e) /\ Stream(e)' = Stream(e)
        /\ Reads(from)' = Reads(from)
    BY DEF FirstFrame, Greeted, SizesOf, SizeOf, Stream, Reads
  <1>2. (pc'[e] # "gone" /\ e \notin failed') = FALSE
    OBVIOUS
  <1> SUFFICES ASSUME faults' = 0, Reads(from)'
               PROVE  Ordered(SizesOf(e), Stream(e), FirstFrame(e), LastFrame(e)', FALSE)
    BY <1>1, <1>2 DEF InOrder
  <1>3. faults = 0 /\ Reads(from)
    BY <1>1
  <1>4. CASE LastFrame(e)' = LastFrame(e)
    <2> DEFINE sizes == SizesOf(e)
               stream == Stream(e)
               n == FirstFrame(e)
               m == LastFrame(e)
               whole == pc[e] # "gone" /\ e \notin failed
    <2>1. Ordered(sizes, stream, n, m, whole) /\ whole \in BOOLEAN
      BY <1>3 DEF InOrder
    <2>2. FALSE \in BOOLEAN /\ (FALSE => whole)
      OBVIOUS
    <2> HIDE DEF sizes, stream, n, m, whole
    <2>3. Ordered(sizes, stream, n, m, FALSE)
      BY <2>1, <2>2, OrderedWeaken
    <2> QED
      BY <1>4, <2>3 DEF sizes, stream, n, m
  <1>5. CASE e = "server" /\ pc[e] = "hello_in"
    <2>1. Len(sealed[e]) = 0 /\ Ordered(SizesOf(e), Stream(e), FirstFrame(e), 0, FALSE)
      BY <1>3, <1>5, NotGreeted
    <2>2. LastFrame(e)' = 0
      BY <2>1 DEF LastFrame
    <2> QED
      BY <2>1, <2>2
  <1>6. (e = "server" /\ pc[e] = "hello_in") \/ LastFrame(e)' = LastFrame(e)
    BY DEF LastFrame
  <1> QED
    BY <1>4, <1>5, <1>6

\* A failed write cuts the last frame short, and no frame follows it.
LEMMA WriteFailsOrder ==
    ASSUME TransportAssumption, EachEnd, NEW e \in Ends, WriteFails(e), \A d \in Ends : InOrder(d)
    PROVE  \A d \in Ends : InOrder(d)'
  <1> USE TwoEnds
  <1>0. FrameTypeOK
    BY DEF EachEnd
  <1> DEFINE from == Other(e)
  <1>1. /\ out' = [out EXCEPT ![e] = <<>>] /\ e \in failed' /\ pc[e] \in {"hello_out", "writing"}
        /\ UNCHANGED <<buffer, wire, sealed, delivered, faults>>
    BY DEF WriteFails
  <1>2. /\ pc'[e] = "gone" \/ (pc'[e] = "open" /\ conn'[e].closed)
        /\ pc'[from] = pc[from] /\ conn'[from] = conn[from]
    <2>1. CASE pc[e] = "writing"
      <3>1. pc' = [pc EXCEPT ![e] = "open"] /\ Close(e)
        BY <2>1 DEF WriteFails, AfterFailedWrite
      <3> QED
        BY <1>0, <3>1, Closed DEF FrameTypeOK
    <2>2. CASE pc[e] = "hello_out"
      BY <1>0, <2>2, SMTT(30) DEF WriteFails, Leave, FrameTypeOK
    <2> QED
      BY <1>1, <2>1, <2>2
  <1>3. InOrder(from)'
    BY <1>2 DEF InOrder, Reads
  <1>4. InOrder(e)'
    <2> SUFFICES ASSUME faults' = 0, Reads(from)' PROVE InOrder(e)'
      BY DEF InOrder
    <2>1. faults = 0 /\ Reads(from)
      BY <1>1, <1>2 DEF Reads
    <2>2. /\ pc[from] = "hello_in" => Len(buffer[from]) <= PrefixCells
          /\ Ordered(SizesOf(e), Stream(e), FirstFrame(e), LastFrame(e), pc[e] # "gone" /\ e \notin failed)
      BY <2>1 DEF InOrder
    <2>3. /\ FirstFrame(e)' = FirstFrame(e) /\ LastFrame(e)' = LastFrame(e) /\ SizesOf(e)' = SizesOf(e)
          /\ (pc'[e] # "gone" /\ e \notin failed') = FALSE
      BY <1>1, <1>2 DEF FirstFrame, LastFrame, Greeted, SizesOf, SizeOf
    <2> DEFINE front == buffer[from] \o wire[e]
    <2>4. front \in Seq(Cell) /\ out[e] \in Seq(Cell) /\ Stream(e) = front \o out[e]
          /\ Stream(e) \in Seq(Cell)
      BY <1>0, StreamKnown DEF Stream
    <2>5. Stream(e)' = front
      <3>1. Stream(e)' = front \o <<>>
        BY <1>0, <1>1 DEF Stream, FrameTypeOK
      <3> HIDE DEF front
      <3> QED
        BY <2>4, <3>1, ConcatEmptySeq
    <2> HIDE DEF front
    <2>6. /\ Len(front) <= Len(Stream(e)) /\ \A i \in 1..Len(front) : front[i] = Stream(e)[i]
      BY <2>4, Front
    <2>7. /\ FirstFrame(e) \in Nat /\ LastFrame(e) \in Int /\ MaxBody \in Nat
          /\ \A k \in FirstFrame(e)..LastFrame(e) : SizesOf(e)[k] = SizesOf(e)[k] /\ SizesOf(e)[k] \in 1..MaxBody
      BY FramesKnown
    <2>8. Ordered(SizesOf(e), front, FirstFrame(e), LastFrame(e), FALSE)
      BY <2>2, <2>4, <2>6, <2>7, OrderedPrefix
    <2> QED
      BY <1>1, <1>2, <2>2, <2>3, <2>5, <2>8 DEF InOrder
  <1> QED
    BY <1>3, <1>4 DEF Ends, Other

\* The thread of an end is gone.
LEMMA LeaveOrder ==
    ASSUME TransportAssumption, EachEnd, NEW e \in Ends, HelloFails(e) \/ DropConnection(e),
           \A d \in Ends : InOrder(d)
    PROVE  \A d \in Ends : InOrder(d)'
  <1> USE TwoEnds
  <1>0. FrameTypeOK
    BY DEF EachEnd
  <1> DEFINE from == Other(e)
  <1>1. /\ pc' = [pc EXCEPT ![e] = "gone"] /\ pc[e] \in {"hello_in", "open"}
        /\ UNCHANGED <<conn, buffer, out, wire, sealed, delivered, faults, failed>>
    BY DEF HelloFails, DropConnection, Leave, history
  <1>2. pc'[e] = "gone" /\ pc'[from] = pc[from]
    BY <1>0, <1>1 DEF FrameTypeOK
  <1>3. InOrder(from)'
    BY <1>2 DEF InOrder, Reads
  <1>4. InOrder(e)'
    BY <1>0, <1>1, <1>2, LeftInOrder
  <1> QED
    BY <1>3, <1>4 DEF Ends, Other

\* Reading a handshake message keeps the frames in order, and an honest one is not refused.
LEMMA ReadHelloOrder ==
    ASSUME TransportAssumption, EachEnd, NEW e \in Ends, ReadHello(e), \A d \in Ends : InOrder(d)
    PROVE  /\ \A d \in Ends : InOrder(d)'
           /\ faults = 0 => refused' = refused
  <1> USE TwoEnds
  <1>0. FrameTypeOK /\ CellsKnown /\ \A d \in Ends : Progress(d)
    BY DEF EachEnd
  <1> DEFINE from == Other(e)
             cells == Append(buffer[e], Head(wire[from]))
             rest == Tail(wire[from])
             hello == Frame(Hello, 1)
  <1>1. /\ pc[e] = "hello_in" /\ wire[from] # <<>>
        /\ wire' = [wire EXCEPT ![from] = rest]
        /\ UNCHANGED <<conn, sealed, delivered, faults, failed>>
    BY DEF ReadHello
  <1>2. /\ cells \in Seq(Cells(from)) /\ rest \in Seq(Cell) /\ Len(cells) = Len(buffer[e]) + 1
        /\ Len(buffer[e]) \in Nat /\ cells \in Seq(Cell)
    <2>1. wire[from] \in Seq(Cells(from)) /\ buffer[e] \in Seq(Cells(from)) /\ Len(buffer[e]) \in Nat
      BY <1>0, Typed DEF CellsKnown
    <2>2. Head(wire[from]) \in Cells(from) /\ rest \in Seq(Cells(from))
      BY <1>1, <2>1, HeadTailProperties
    <2>3. cells \in Seq(Cells(from)) /\ Len(cells) = Len(buffer[e]) + 1
      BY <2>1, <2>2, AppendProperties
    <2> HIDE DEF cells, rest
    <2>4. cells \in Seq(Cell) /\ rest \in Seq(Cell)
      BY <2>2, <2>3, CellsAreCells, SeqMonotonic
    <2> QED
      BY <2>1, <2>3, <2>4
  <1>3. /\ wire'[from] = rest /\ wire'[e] = wire[e]
        /\ pc[from] \in {"hello_out", "hello_in", "open", "writing", "gone"}
    BY <1>0, <1>1, <1>2 DEF FrameTypeOK
  <1>4. Stream(from) = cells \o (rest \o out[from]) /\ out[from] \in Seq(Cell)
    <2>1. buffer[e] \in Seq(Cell) /\ wire[from] \in Seq(Cell) /\ out[from] \in Seq(Cell)
      BY <1>0, Typed
    <2>2. (cells \o rest) \o out[from] = (buffer[e] \o wire[from]) \o out[from]
      BY <1>1, <2>1, CellsMoved
    <2>3. Stream(from) = (buffer[e] \o wire[from]) \o out[from]
      BY DEF Stream
    <2> HIDE DEF cells, rest
    <2>4. (cells \o rest) \o out[from] = cells \o (rest \o out[from])
      BY <1>2, <2>1, CellsAssociate
    <2> QED
      BY <2>1, <2>2, <2>3, <2>4
  <1> HIDE DEF cells, rest, hello
  <1>5. \/ /\ ~BadLength(from, cells) /\ ~Complete(from, cells)
           /\ buffer' = [buffer EXCEPT ![e] = cells]
           /\ UNCHANGED <<pc, out, refused>>
        \/ /\ Complete(from, cells) /\ buffer' = [buffer EXCEPT ![e] = <<>>]
           /\ e = "server" /\ pc' = [pc EXCEPT ![e] = "hello_out"] /\ out' = [out EXCEPT ![e] = hello]
           /\ UNCHANGED refused
        \/ /\ Complete(from, cells) /\ buffer' = [buffer EXCEPT ![e] = <<>>]
           /\ e # "server" /\ pc' = [pc EXCEPT ![e] = "open"]
           /\ UNCHANGED <<out, refused>>
        \/ /\ pc' = [pc EXCEPT ![e] = "gone"] /\ UNCHANGED <<buffer, out>>
           /\ \/ UNCHANGED refused
              \/ BadLength(from, cells)
              \/ Complete(from, cells) /\ ~Opens(from, Hello, BodyIn(from, cells))
    BY DEF ReadHello, Leave, cells, hello
  <1>6. ASSUME faults = 0
        PROVE  /\ ~BadLength(from, cells) /\ Len(buffer[e]) <= 2
               /\ HasLength(cells) => 0 <= LastFrame(from) /\ LengthOf(from, cells) = 1
               /\ Complete(from, cells) => Opens(from, Hello, BodyIn(from, cells)) /\ Len(cells) = 3
               /\ ~Complete(from, cells) => Len(cells) <= 2
               /\ Ordered(SizesOf(from), Stream(from), 0, LastFrame(from), pc[from] # "gone" /\ from \notin failed)
    <2>1. Reads(e) /\ FirstFrame(from) = 0
      BY <1>0, <1>1 DEF Reads, Progress, FirstFrame, Greeted, Hello
    <2>2. /\ Len(buffer[e]) <= 2
          /\ Ordered(SizesOf(from), Stream(from), 0, LastFrame(from), pc[from] # "gone" /\ from \notin failed)
      BY <1>1, <1>6, <2>1 DEF InOrder, PrefixCells
    <2> DEFINE n == 0
               stream == Stream(from)
               whole == pc[from] # "gone" /\ from \notin failed
               m == LastFrame(from)
    <2>3. /\ n \in 0..(Len(sealed[from]) + 1) /\ m \in Int /\ m <= Len(sealed[from])
          /\ Len(sealed[from]) \in Nat /\ n <= Len(sealed[from])
      BY FramesKnown
    <2>4. stream \in Seq(Cell) /\ Len(cells) <= Len(stream) /\ \A i \in 1..Len(cells) : cells[i] = stream[i]
      <3>1. rest \o out[from] \in Seq(Cell)
        BY <1>2, <1>4, ConcatProperties
      <3>2. stream \in Seq(Cell)
        BY <1>0, StreamKnown
      <3> QED
        BY <1>2, <1>4, <3>1, <3>2, Front, SMTT(30)
    <2>5. Ordered(SizesOf(from), stream, n, m, whole)
      BY Zenon, <2>2
    <2> HIDE DEF n, stream, whole, m
    <2>6. /\ ~BadLength(from, cells)
          /\ HasLength(cells) => n <= m /\ LengthOf(from, cells) = SizeOf(from, n)
          /\ Complete(from, cells) => n <= Len(sealed[from]) /\ BodyIn(from, cells) = BodyOf(n, SizeOf(from, n))
      BY <1>0, <1>2, <2>3, <2>4, <2>5, HeadFrame, SMTT(30)
    <2>7. SizeOf(from, n) = 1 /\ n = Hello
      BY DEF SizeOf, n, Hello
    <2>8. /\ HasLength(cells) => LengthOf(from, cells) = 1
          /\ Complete(from, cells) => Opens(from, Hello, BodyIn(from, cells))
      BY <2>3, <2>6, <2>7 DEF Opens
    <2>9. /\ Complete(from, cells) => Len(cells) = 3
          /\ ~Complete(from, cells) => Len(cells) <= 2
      BY <1>2, <2>2, <2>6, <2>8 DEF Complete, HasLength, PrefixCells
    <2> QED
      BY <2>2, <2>6, <2>8, <2>9 DEF n, m
  <1>7. faults = 0 => refused' = refused
    BY <1>5, <1>6
  <1>8. CASE /\ ~BadLength(from, cells) /\ ~Complete(from, cells)
             /\ buffer' = [buffer EXCEPT ![e] = cells]
             /\ UNCHANGED <<pc, out, refused>>
    <2>1. buffer'[e] = cells /\ buffer'[from] = buffer[from]
      BY <1>0, <1>8 DEF FrameTypeOK
    <2>2. InOrder(e)'
      <3>1. Stream(e)' = Stream(e)
        BY <1>3, <1>8, <2>1 DEF Stream
      <3>2. FirstFrame(e)' = FirstFrame(e) /\ LastFrame(e)' = LastFrame(e) /\ Reads(from)' = Reads(from)
        BY <1>1, <1>8 DEF FirstFrame, LastFrame, Greeted, Reads
      <3>3. faults = 0 /\ Reads(from) /\ pc[from] = "hello_in" => Len(buffer[from]) <= PrefixCells
        BY DEF InOrder
      <3> QED
        BY <1>1, <1>8, <2>1, <3>1, <3>2, <3>3, InOrderKept
    <2>3. InOrder(from)'
      <3>1. Stream(from)' = Stream(from)
        <4>1. Stream(from)' = (cells \o rest) \o out[from]
          BY <1>3, <1>8, <2>1 DEF Stream
        <4> QED
          BY <1>2, <1>4, <4>1, CellsAssociate
      <3>2. FirstFrame(from)' = FirstFrame(from) /\ LastFrame(from)' = LastFrame(from) /\ Reads(e)' = Reads(e)
        BY <1>1, <1>8 DEF FirstFrame, LastFrame, Greeted, Reads
      <3>3. faults = 0 => Len(buffer'[e]) <= PrefixCells
        BY <1>6, <1>8, <2>1 DEF PrefixCells
      <3> QED
        BY <1>1, <1>8, <3>1, <3>2, <3>3, InOrderKept
    <2> QED
      BY <1>7, <2>2, <2>3 DEF Ends, Other
  <1>9. ASSUME Complete(from, cells), buffer' = [buffer EXCEPT ![e] = <<>>],
               pc'[from] = pc[from], pc'[e] # "gone", pc'[e] # "hello_in",
               e = "client" => pc'[e] # "hello_out", out'[from] = out[from]
        PROVE  InOrder(from)'
    <2> SUFFICES ASSUME faults' = 0, Reads(e)' PROVE InOrder(from)'
      BY DEF InOrder
    <2>1. faults = 0
      BY <1>1
    <2>2. FirstFrame(from)' = 1
      <3>1. delivered[e] = 0
        BY <1>0, <1>1 DEF Progress
      <3> QED
        BY <1>1, <1>9, <3>1 DEF FirstFrame, Greeted
    <2>3. LastFrame(from)' = LastFrame(from) /\ SizesOf(from)' = SizesOf(from)
      BY <1>1, <1>9 DEF LastFrame, SizesOf, SizeOf
    <2> DEFINE tail == rest \o out[from]
    <2>4. tail \in Seq(Cell)
      BY <1>2, <1>4, ConcatProperties
    <2>5. Stream(from)' = tail
      <3>1. buffer'[e] = <<>>
        BY <1>0, <1>9 DEF FrameTypeOK
      <3>2. Stream(from)' = (<<>> \o rest) \o out[from]
        BY <1>3, <1>9, <3>1 DEF Stream
      <3>3. <<>> \o rest = rest
        BY <1>2, ConcatEmptySeq
      <3> QED
        BY <3>2, <3>3
    <2>6. Len(cells) = 3 /\ 0 <= LastFrame(from)
      BY <1>6, <1>9, <2>1 DEF Complete
    <2> DEFINE sizes == SizesOf(from)
               stream == Stream(from)
               whole == pc[from] # "gone" /\ from \notin failed
               m == LastFrame(from)
               n == 0
    <2>7. sizes[n] = 1 /\ PrefixCells + sizes[n] = 3
      <3>1. 0 \in 0..Len(sealed[from])
        BY FramesKnown
      <3> QED
        BY <3>1 DEF SizesOf, SizeOf, Hello, PrefixCells
    <2>8. stream = cells \o tail /\ stream \in Seq(Cell) /\ 3 <= Len(stream)
      <3>1. stream = cells \o tail
        BY <1>4
      <3>2. stream \in Seq(Cell)
        BY <1>0, StreamKnown
      <3>3. Len(cells) <= Len(cells \o tail)
        <4> HIDE DEF tail
        <4> QED
          BY <1>2, <2>4, Front
      <3> QED
        BY <2>6, <3>1, <3>2, <3>3
    <2>9. Ordered(sizes, stream, n, m, whole) /\ whole \in BOOLEAN
      <3>1. Ordered(sizes, stream, n, m, whole)
        BY <1>6, <2>1, Zenon
      <3> QED
        BY <3>1
    <2>10. /\ n \in Nat /\ m \in Int /\ n <= m /\ MaxBody \in Nat
           /\ \A k \in n..m : sizes[k] \in 1..MaxBody
      <3>1. \A k \in 0..m : k \in 0..Len(sealed[from])
        BY FramesKnown
      <3> QED
        BY <2>6, <3>1, FramesKnown
    <2>11. Ordered(sizes, SubSeq(stream, 3 + 1, Len(stream)), 1, m, whole)
      <3> HIDE DEF sizes, stream, m, n, whole
      <3>1. Ordered(sizes, SubSeq(stream, PrefixCells + sizes[n] + 1, Len(stream)), n + 1, m, whole)
        BY <2>7, <2>8, <2>9, <2>10, OrderedCut
      <3>2. n + 1 = 1
        BY DEF n
      <3>3. PrefixCells + sizes[n] + 1 = 3 + 1
        BY <2>7
      <3> QED
        BY <3>1, <3>2, <3>3
    <2>12. SubSeq(stream, 3 + 1, Len(stream)) = tail
      <3> HIDE DEF tail, stream
      <3>1. 3 \in 0..Len(cells)
        BY <2>6
      <3>2. SubSeq(stream, 3 + 1, Len(stream)) = SubSeq(cells, 3 + 1, Len(cells)) \o tail
        BY <1>2, <2>4, <2>8, <3>1, CellsMoved
      <3>3. SubSeq(cells, 3 + 1, Len(cells)) = <<>>
        <4>1. /\ SubSeq(cells, 3 + 1, Len(cells)) \in Seq(Cell)
              /\ Len(SubSeq(cells, 3 + 1, Len(cells))) = Len(cells) - 3
          BY <1>2, <3>1, Parts
        <4> DEFINE x == SubSeq(cells, 3 + 1, Len(cells))
        <4>2. x \in Seq(Cell) /\ Len(x) = 0
          BY <2>6, <4>1
        <4> HIDE DEF x
        <4>3. x = <<>>
          BY <4>2, EmptySeq
        <4> QED
          BY <4>3 DEF x
      <3> QED
        BY <2>4, <3>2, <3>3, ConcatEmptySeq
    <2>13. Ordered(sizes, tail, 1, m, whole)
      BY <2>11, <2>12
    <2>14. (pc'[from] # "gone" /\ from \notin failed') = whole
      BY <1>1, <1>9
    <2> QED
      BY <1>9, <2>2, <2>3, <2>5, <2>13, <2>14 DEF InOrder
  <1>10. CASE /\ Complete(from, cells) /\ buffer' = [buffer EXCEPT ![e] = <<>>]
              /\ e = "server" /\ pc' = [pc EXCEPT ![e] = "hello_out"] /\ out' = [out EXCEPT ![e] = hello]
              /\ UNCHANGED refused
    <2>1. /\ pc'[e] = "hello_out" /\ pc'[from] = pc[from] /\ out'[e] = hello /\ out'[from] = out[from]
          /\ buffer'[from] = buffer[from]
      BY <1>0, <1>10 DEF FrameTypeOK
    <2>2. InOrder(from)'
      BY <1>9, <1>10, <2>1
    <2>3. InOrder(e)'
      <3> SUFFICES ASSUME faults' = 0, Reads(from)' PROVE InOrder(e)'
        BY DEF InOrder
      <3>1. faults = 0 /\ Reads(from)
        BY <1>1, <2>1 DEF Reads
      <3>2. /\ Stream(e) = buffer[from] \o wire[e] /\ Len(sealed[e]) = 0
            /\ Ordered(SizesOf(e), Stream(e) \o Frame(Hello, 1), FirstFrame(e), 0, TRUE)
        BY <1>1, <1>10, <3>1, NotGreeted
      <3>3. Stream(e)' = Stream(e) \o Frame(Hello, 1)
        BY <1>3, <2>1, <3>2 DEF Stream, hello
      <3>4. /\ FirstFrame(e)' = FirstFrame(e) /\ LastFrame(e)' = 0 /\ SizesOf(e)' = SizesOf(e)
            /\ pc[from] = "hello_in" => Len(buffer[from]) <= PrefixCells
        <4>1. FirstFrame(e)' = FirstFrame(e) /\ LastFrame(e)' = 0 /\ SizesOf(e)' = SizesOf(e)
          BY <1>1, <2>1, <3>2 DEF FirstFrame, LastFrame, Greeted, SizesOf, SizeOf
        <4> QED
          BY <3>1, <4>1 DEF InOrder
      <3>5. (pc'[e] # "gone" /\ e \notin failed') = TRUE
        BY <1>0, <1>1, <2>1 DEF Progress
      <3> QED
        BY <2>1, <3>2, <3>3, <3>4, <3>5 DEF InOrder
    <2> QED
      BY <1>7, <2>2, <2>3 DEF Ends, Other
  <1>11. CASE /\ Complete(from, cells) /\ buffer' = [buffer EXCEPT ![e] = <<>>]
              /\ e # "server" /\ pc' = [pc EXCEPT ![e] = "open"]
              /\ UNCHANGED <<out, refused>>
    <2>1. /\ pc'[e] = "open" /\ pc'[from] = pc[from]
          /\ buffer'[from] = buffer[from]
      BY <1>0, <1>11 DEF FrameTypeOK
    <2>2. InOrder(from)'
      BY <1>9, <1>11, <2>1
    <2>3. InOrder(e)'
      <3>1. Stream(e)' = Stream(e)
        BY <1>3, <1>11, <2>1 DEF Stream
      <3>2. FirstFrame(e)' = FirstFrame(e) /\ LastFrame(e)' = LastFrame(e) /\ Reads(from)' = Reads(from)
        BY <1>1, <1>11, <2>1 DEF FirstFrame, LastFrame, Greeted, Reads
      <3>3. faults = 0 /\ Reads(from) /\ pc[from] = "hello_in" => Len(buffer[from]) <= PrefixCells
        BY DEF InOrder
      <3> QED
        BY <1>1, <2>1, <3>1, <3>2, <3>3, InOrderKept
    <2> QED
      BY <1>7, <2>2, <2>3 DEF Ends, Other
  <1>12. CASE pc' = [pc EXCEPT ![e] = "gone"] /\ UNCHANGED <<buffer, out>>
    <2>1. pc'[e] = "gone" /\ pc'[from] = pc[from]
      BY <1>0, <1>12 DEF FrameTypeOK
    <2>2. InOrder(from)'
      BY <2>1 DEF InOrder, Reads
    <2>3. InOrder(e)'
      BY <1>1, <1>3, <1>12, <2>1, LeftInOrder
    <2> QED
      BY <1>7, <2>2, <2>3 DEF Ends, Other
  <1> QED
    BY <1>5, <1>8, <1>10, <1>11, <1>12

\* A record that is sent follows the frames before it.
LEMMA SendOrder ==
    ASSUME TransportAssumption, EachEnd, NEW e \in Ends, SendPayload(e), \A d \in Ends : InOrder(d)
    PROVE  \A d \in Ends : InOrder(d)'
  <1> USE TwoEnds
  <1>0. FrameTypeOK /\ Progress(e)
    BY DEF EachEnd
  <1> DEFINE from == Other(e)
  <1>1. /\ pc[e] = "open" /\ ~conn[e].closed
        /\ pc' = [pc EXCEPT ![e] = "writing"]
        /\ UNCHANGED <<conn, buffer, wire, delivered, faults, failed>>
    BY DEF SendPayload, history
  <1>2. PICK s \in Sizes :
                /\ sealed' = [sealed EXCEPT ![e] = Append(@, [seq |-> conn[e].sendSeq, size |-> s])]
                /\ out' = [out EXCEPT ![e] = Frame(Len(sealed[e]) + 1, s)]
                /\ Len(sealed'[e]) = Len(sealed[e]) + 1
                /\ sealed'[e][Len(sealed[e]) + 1].size = s
                /\ \A n \in 1..Len(sealed[e]) : sealed'[e][n] = sealed[e][n]
                /\ s \in 1..MaxBody
    BY SendLocal
  <1>3. /\ pc'[e] = "writing" /\ pc'[from] = pc[from]
        /\ out'[e] = Frame(Len(sealed[e]) + 1, s) /\ out'[from] = out[from]
        /\ sealed'[from] = sealed[from]
    BY <1>0, <1>1, <1>2 DEF FrameTypeOK
  <1>4. InOrder(from)'
    <2>1. Stream(from)' = Stream(from)
      BY <1>1, <1>3 DEF Stream
    <2>2. FirstFrame(from)' = FirstFrame(from) /\ LastFrame(from)' = LastFrame(from) /\ (Reads(e)' => Reads(e))
      BY <1>1, <1>3 DEF FirstFrame, LastFrame, Greeted, Reads
    <2> QED
      BY <1>1, <1>3, <2>1, <2>2, InOrderKept
  <1>5. InOrder(e)'
    <2> SUFFICES ASSUME faults' = 0, Reads(from)' PROVE InOrder(e)'
      BY DEF InOrder
    <2>1. faults = 0 /\ Reads(from)
      BY <1>1, <1>3 DEF Reads
    <2>2. out[e] = <<>> /\ e \notin failed
      BY <1>0, <1>1 DEF Progress
    <2> DEFINE front == buffer[from] \o wire[e]
               top == Len(sealed[e])
               sizes == SizesOf(e)
               more == SizesOf(e)'
               n == FirstFrame(e)
    <2>3. Stream(e) = front /\ front \in Seq(Cell) /\ Stream(e)' = front \o Frame(top + 1, s)
      <3>1. front \in Seq(Cell) /\ Stream(e) = front \o <<>>
        BY <1>0, <2>2, StreamKnown DEF Stream
      <3>2. Stream(e)' = front \o Frame(top + 1, s)
        BY <1>1, <1>3 DEF Stream
      <3> HIDE DEF front
      <3> QED
        BY <3>1, <3>2, ConcatEmptySeq
    <2>4. /\ LastFrame(e) = top /\ LastFrame(e)' = top + 1 /\ FirstFrame(e)' = n
          /\ pc[from] = "hello_in" => Len(buffer[from]) <= PrefixCells
          /\ (pc[e] # "gone" /\ e \notin failed) = TRUE
          /\ (pc'[e] # "gone" /\ e \notin failed') = TRUE
      <3>1. LastFrame(e) = top
        BY <1>1 DEF LastFrame
      <3>2. LastFrame(e)' = top + 1
        BY <1>2, <1>3 DEF LastFrame
      <3>3. FirstFrame(e)' = n
        BY <1>1, <1>3 DEF FirstFrame, Greeted
      <3>4. pc[from] = "hello_in" => Len(buffer[from]) <= PrefixCells
        BY <2>1 DEF InOrder
      <3> QED
        BY <1>1, <1>3, <2>2, <3>1, <3>2, <3>3, <3>4
    <2>5. Ordered(sizes, front, n, top, TRUE)
      BY <2>1, <2>3, <2>4 DEF InOrder
    <2>6. /\ top \in Nat /\ n \in Nat /\ MaxBody \in Nat
          /\ \A k \in 0..top : sizes[k] = SizeOf(e, k) /\ sizes[k] \in 1..MaxBody
          /\ \A k \in n..top : k \in 0..top
      <3>1. top \in Nat /\ n \in Nat /\ MaxBody \in Nat
        BY FramesKnown
      <3> QED
        BY <1>0, <3>1, SizesKnown
    <2>7. /\ \A k \in 0..top : more[k] = sizes[k]
          /\ more[top + 1] = s
      <3>1. more = [k \in 0..(top + 1) |-> IF k = Hello THEN 1 ELSE sealed'[e][k].size]
        BY <1>2 DEF SizesOf, SizeOf
      <3>2. \A k \in 0..top : sizes[k] = IF k = Hello THEN 1 ELSE sealed[e][k].size
        BY <2>6 DEF SizeOf
      <3> HIDE DEF more, sizes
      <3>3. ASSUME NEW k \in 0..top PROVE more[k] = sizes[k]
        <4>1. k \in 0..(top + 1) /\ (k # Hello => k \in 1..Len(sealed[e]))
          BY <2>6 DEF Hello
        <4> QED
          BY <1>2, <3>1, <3>2, <4>1
      <3>4. more[top + 1] = s
        <4>1. top + 1 \in 0..(top + 1) /\ top + 1 # Hello
          BY <2>6 DEF Hello
        <4> QED
          BY <1>2, <3>1, <4>1
      <3> QED
        BY <3>3, <3>4
    <2> HIDE DEF front, top, sizes, more, n
    <2>8. /\ \A k \in n..top : more[k] = sizes[k]
          /\ \A k \in n..(top + 1) : more[k] \in 1..MaxBody
      <3>1. ASSUME NEW k \in n..(top + 1) PROVE more[k] \in 1..MaxBody
        <4>1. k \in n..top \/ k = top + 1
          BY <2>6
        <4> QED
          BY <1>2, <2>6, <2>7, <4>1
      <3> QED
        BY <2>6, <2>7, <3>1
    <2>9. Ordered(more, front \o Frame(top + 1, more[top + 1]), n, top + 1, TRUE)
      <3>1. front \in Seq(Cell) /\ n \in Nat /\ top \in Int /\ MaxBody \in Nat
        BY <2>3, <2>6
      <3> QED
        BY <2>5, <2>8, <3>1, OrderedAdd
    <2>10. Ordered(more, front \o Frame(top + 1, s), n, top + 1, TRUE)
      BY <2>7, <2>9
    <2> QED
      BY <1>1, <1>3, <2>3, <2>4, <2>10 DEF InOrder, more
  <1> QED
    BY <1>4, <1>5 DEF Ends, Other

\* Nothing moves: the connection closes, or time passes.
LEMMA StillOrder ==
    ASSUME TransportAssumption, EachEnd, \A d \in Ends : InOrder(d),
           TimePasses \/ \E e \in Ends : SendExhausted(e) \/ PollEnds(e)
    PROVE  \A d \in Ends : InOrder(d)'
  <1> USE TwoEnds
  <1>1. UNCHANGED <<pc, buffer, out, wire, sealed, delivered, faults, refused, failed>>
    BY DEF TimePasses, SendExhausted, PollEnds, history
  <1>2. \A d \in Ends : conn[d].closed => conn'[d].closed
    <2>1. CASE TimePasses
      BY <2>1 DEF TimePasses
    <2>2. ASSUME NEW e \in Ends, SendExhausted(e) \/ PollEnds(e)
          PROVE  \A d \in Ends : conn[d].closed => conn'[d].closed
      <3>1. Close(e) /\ FrameTypeOK
        BY <2>2 DEF SendExhausted, PollEnds, EachEnd
      <3> QED
        BY <3>1, Closed
    <2> QED
      BY <2>1, <2>2
  <1> SUFFICES ASSUME NEW d \in Ends PROVE InOrder(d)'
    OBVIOUS
  <1>3. /\ Stream(d)' = Stream(d) /\ FirstFrame(d)' = FirstFrame(d) /\ LastFrame(d)' = LastFrame(d)
        /\ (Reads(Other(d))' => Reads(Other(d)))
    BY <1>1, <1>2 DEF Stream, FirstFrame, LastFrame, Greeted, Reads
  <1>4. faults = 0 /\ Reads(Other(d)) /\ pc[Other(d)] = "hello_in" => Len(buffer[Other(d)]) <= PrefixCells
    BY DEF InOrder
  <1> QED
    BY <1>1, <1>3, <1>4, InOrderKept

\* poll_payload keeps the frames in order and refuses none while the path is faithful.
LEMMA PollOrder ==
    ASSUME TransportAssumption, EachEnd, NEW e \in Ends, PollPayload(e), \A d \in Ends : InOrder(d)
    PROVE  /\ \A d \in Ends : InOrder(d)'
           /\ faults = 0 => refused' = refused
  <1> USE TwoEnds
  <1>0. FrameTypeOK /\ CellsKnown /\ \A d \in Ends : Progress(d) /\ InSequence(d)
    BY DEF EachEnd
  <1> DEFINE from == Other(e)
             y(k) == SubSeq(wire[from], k + 1, Len(wire[from]))
  <1>1. PICK k \in 0..Len(wire[from]) : \E cells \in Seq(Cells(from)) : PollTakes(e, k, cells)
    BY PollOutcome
  <1>2. PICK cells \in Seq(Cells(from)) : PollTakes(e, k, cells)
    BY <1>1
  <1>3. /\ pc[e] = "open" /\ ~conn[e].closed
        /\ UNCHANGED <<out, sealed, faults, failed>>
    BY DEF PollPayload
  <1> DEFINE rest == y(k)
             tail == rest \o out[from]
  <1>4. /\ wire' = [wire EXCEPT ![from] = rest] /\ cells = buffer[e] \o SubSeq(wire[from], 1, k)
        /\ Len(cells) \in Nat /\ Len(cells) <= PrefixCells + MaxBody /\ cells \in Seq(Cell)
    <2>1. cells \in Seq(Cell)
      BY CellsAreCells, SeqMonotonic
    <2> QED
      BY <1>2, <2>1 DEF PollTakes
  <1>5. /\ rest \in Seq(Cell) /\ out[from] \in Seq(Cell) /\ tail \in Seq(Cell)
        /\ Stream(from) = cells \o tail /\ Stream(from) \in Seq(Cell)
    <2> DEFINE b == buffer[e]
               w == wire[from]
               o == out[from]
               x == SubSeq(w, 1, k)
    <2>1. b \in Seq(Cell) /\ w \in Seq(Cell) /\ o \in Seq(Cell) /\ Stream(from) \in Seq(Cell)
      BY <1>0, Typed, StreamKnown
    <2>2. x \in Seq(Cell) /\ rest \in Seq(Cell) /\ x \o rest = w
      BY <2>1, Parts, SplitJoin
    <2>3. Stream(from) = (b \o w) \o o /\ cells = b \o x
      BY <1>4 DEF Stream
    <2> HIDE DEF b, w, o, x, rest
    <2>4. b \o w = cells \o rest
      BY <2>1, <2>2, <2>3, CellsAssociate, ZenonT(30)
    <2>5. (cells \o rest) \o o = cells \o (rest \o o)
      <3> DEFINE c == cells
      <3>1. c \in Seq(Cell) /\ rest \in Seq(Cell) /\ o \in Seq(Cell)
        BY <1>4, <2>1, <2>2
      <3> HIDE DEF c
      <3>2. (c \o rest) \o o = c \o (rest \o o)
        BY <3>1, CellsAssociate
      <3> QED
        BY <3>2 DEF c
    <2>6. rest \o o \in Seq(Cell)
      BY <2>1, <2>2, ConcatProperties
    <2> QED
      BY <2>1, <2>2, <2>3, <2>4, <2>5, <2>6 DEF o
  <1> HIDE DEF y, rest, tail
  <1>6. wire'[from] = rest /\ wire'[e] = wire[e]
    BY <1>0, <1>4 DEF FrameTypeOK
  <1> DEFINE n == delivered[e] + 1
             m == LastFrame(from)
             sizes == SizesOf(from)
             stream == Stream(from)
             whole == pc[from] # "gone" /\ from \notin failed
  <1>7. /\ n \in Nat /\ n >= 1 /\ m \in Int /\ m <= Len(sealed[from]) /\ Len(sealed[from]) \in Nat
        /\ MaxBody \in Nat /\ FirstFrame(from) = n /\ conn[e].recvSeq = n - 1
        /\ \A k1 \in n..m : sizes[k1] \in 1..MaxBody
    <2>1. delivered[e] \in Nat /\ conn[e].recvSeq = delivered[e]
      BY <1>0, Typed DEF InSequence
    <2>2. FirstFrame(from) = n
      BY <1>3 DEF FirstFrame, Greeted
    <2> QED
      BY <2>1, <2>2, FramesKnown, SMTT(30)
  <1>8. ASSUME faults = 0
        PROVE  /\ Ordered(sizes, stream, n, m, whole)
               /\ ~BadLength(from, cells)
               /\ Complete(from, cells) => /\ Accepts(e, cells) /\ n <= m
                                           /\ LengthOf(from, cells) = sizes[n]
               /\ ~Complete(from, cells) => Len(cells) < PrefixCells + MaxBody
    <2>1. Ordered(sizes, stream, n, m, whole)
      BY <1>3, <1>7, <1>8 DEF InOrder, Reads
    <2>2. n \in 0..(Len(sealed[from]) + 1)
      <3>1. n <= m + 1
        BY <2>1 DEF Ordered
      <3> HIDE DEF n, m
      <3> QED
        BY <1>7, <3>1
    <2>3. stream \in Seq(Cell) /\ Len(cells) <= Len(stream) /\ \A i \in 1..Len(cells) : cells[i] = stream[i]
      <3> DEFINE c == cells
      <3>1. c \in Seq(Cell) /\ tail \in Seq(Cell) /\ stream = c \o tail /\ stream \in Seq(Cell)
        BY <1>4, <1>5
      <3> HIDE DEF c, stream
      <3>2. stream \in Seq(Cell) /\ Len(c) <= Len(stream) /\ \A i \in 1..Len(c) : c[i] = stream[i]
        BY <3>1, Front
      <3> QED
        BY <3>2 DEF c
    <2> HIDE DEF n, stream, whole, m
    <2>4. /\ ~BadLength(from, cells)
          /\ HasLength(cells) => n <= m /\ LengthOf(from, cells) = SizeOf(from, n)
          /\ Complete(from, cells) => n <= Len(sealed[from]) /\ BodyIn(from, cells) = BodyOf(n, SizeOf(from, n))
      BY <1>0, <1>7, <2>1, <2>2, <2>3, HeadFrame, SMTT(30) DEF sizes
    <2>5. ASSUME Complete(from, cells)
          PROVE  Accepts(e, cells) /\ n <= m /\ LengthOf(from, cells) = sizes[n]
      <3>1. HasLength(cells) /\ n \in 1..Len(sealed[from]) /\ n \in 0..Len(sealed[from])
        BY <1>7, <2>4, <2>5 DEF Complete
      <3>2. sealed[from][n].seq = n - 1
        BY <1>0, <3>1 DEF InSequence
      <3>3. Opens(from, n, BodyIn(from, cells))
        BY <2>4, <2>5 DEF Opens
      <3>4. Accepts(e, cells)
        BY <1>7, <3>2, <3>3 DEF Accepts, n
      <3>5. sizes[n] = SizeOf(from, n)
        BY <1>0, <3>1, SizesKnown
      <3> QED
        BY <2>4, <3>1, <3>4, <3>5
    <2>6. ~Complete(from, cells) => Len(cells) < PrefixCells + MaxBody
      BY <1>0, <2>4, LengthKnown
    <2> QED
      BY <2>1, <2>4, <2>5, <2>6
  <1>9. faults = 0 => refused' = refused
    BY <1>2, <1>8 DEF PollTakes
  <1>10. /\ pc' \in [Ends -> {"hello_out", "hello_in", "open", "writing", "gone"}]
         /\ pc' = pc \/ pc' = [pc EXCEPT ![e] = "gone"]
         /\ pc'[e] = "gone" \/ pc' = pc
         /\ pc'[from] = pc[from] /\ conn'[from] = conn[from]
         /\ buffer'[from] = buffer[from] /\ delivered'[from] = delivered[from]
    <2>1. pc' = pc \/ pc' = [pc EXCEPT ![e] = "gone"]
      BY <1>2 DEF PollTakes
    <2>2. conn'[from] = conn[from]
      BY <1>0, <1>2, Closed DEF PollTakes, FrameTypeOK
    <2>3. buffer'[from] = buffer[from] /\ delivered'[from] = delivered[from]
      BY <1>0, <1>2 DEF PollTakes, FrameTypeOK
    <2> QED
      BY <1>0, <2>1, <2>2, <2>3 DEF FrameTypeOK
  <1>11. InOrder(e)'
    <2>1. CASE pc' = pc
      <3>1. Stream(e)' = Stream(e)
        BY <1>3, <1>6, <1>10 DEF Stream
      <3>2. FirstFrame(e)' = FirstFrame(e) /\ LastFrame(e)' = LastFrame(e) /\ Reads(from)' = Reads(from)
        BY <1>3, <1>10, <2>1 DEF FirstFrame, LastFrame, Greeted, Reads
      <3>3. faults = 0 /\ Reads(from) /\ pc[from] = "hello_in" => Len(buffer[from]) <= PrefixCells
        BY DEF InOrder
      <3> QED
        BY <1>3, <1>10, <2>1, <3>1, <3>2, <3>3, InOrderKept
    <2>2. CASE pc'[e] = "gone"
      BY <1>3, <1>6, <1>10, <2>2, LeftInOrder
    <2> QED
      BY <1>10, <2>1, <2>2
  <1>12. InOrder(from)'
    <2> SUFFICES ASSUME faults' = 0, Reads(e)' PROVE InOrder(from)'
      BY DEF InOrder
    <2>0. faults = 0 /\ pc' = pc
      BY <1>3, <1>10 DEF Reads
    <2>1. CASE ~Complete(from, cells)
      <3>1. buffer' = [buffer EXCEPT ![e] = cells] /\ UNCHANGED <<conn, delivered>>
        BY <1>2, <1>8, <2>0, <2>1 DEF PollTakes
      <3>2. buffer'[e] = cells
        BY <1>0, <3>1 DEF FrameTypeOK
      <3>3. Stream(from)' = Stream(from)
        <4>1. Stream(from)' = (cells \o rest) \o out[from]
          BY <1>3, <1>6, <3>2 DEF Stream
        <4> QED
          BY <1>4, <1>5, <4>1, CellsAssociate, ZenonT(30) DEF tail
      <3>4. FirstFrame(from)' = FirstFrame(from) /\ LastFrame(from)' = LastFrame(from) /\ Reads(e)' = Reads(e)
        BY <1>3, <2>0, <3>1 DEF FirstFrame, LastFrame, Greeted, Reads
      <3> QED
        BY <1>3, <2>0, <3>3, <3>4, InOrderKept
    <2>2. CASE Complete(from, cells)
      <3>1. /\ buffer' = [buffer EXCEPT ![e] = Rest(from, cells)]
            /\ delivered' = [delivered EXCEPT ![e] = delivered[e] + 1]
        BY <1>2, <1>8, <2>0, <2>2 DEF PollTakes
      <3>2. buffer'[e] = Rest(from, cells) /\ delivered'[e] = n
        BY <1>0, <3>1 DEF FrameTypeOK
      <3> DEFINE l == PrefixCells + sizes[n]
      <3>3. /\ LengthOf(from, cells) = sizes[n] /\ n <= m
            /\ l \in 0..Len(cells) /\ l <= Len(stream)
        <4>1. LengthOf(from, cells) = sizes[n] /\ n <= m
          BY <1>8, <2>0, <2>2
        <4>2. l \in 0..Len(cells)
          BY <1>0, <2>2, <4>1, LengthKnown
        <4> DEFINE a == Len(cells)
                   b == Len(stream)
        <4>3. a <= b /\ a \in Nat /\ b \in Nat /\ l \in 0..a
          <5> DEFINE c == cells
          <5>1. c \in Seq(Cell) /\ tail \in Seq(Cell) /\ stream = c \o tail /\ stream \in Seq(Cell)
            BY <1>4, <1>5
          <5>2. l \in 0..Len(c)
            BY <4>2
          <5> HIDE DEF c, stream, l
          <5>3. Len(c) <= Len(stream)
            BY <5>1, Front
          <5>4. Len(c) \in Nat /\ Len(stream) \in Nat
            BY <5>1, LenProperties
          <5> QED
            BY <5>2, <5>3, <5>4 DEF c
        <4>4. l <= b
          <5> HIDE DEF l, a, b
          <5> QED
            BY <4>3
        <4> QED
          BY <4>1, <4>2, <4>4
      <3> DEFINE left == SubSeq(cells, l + 1, Len(cells))
      <3>4. Rest(from, cells) = left /\ left \in Seq(Cell)
        <4>1. Rest(from, cells) = left
          BY <3>3 DEF Rest
        <4>2. left \in Seq(Cell)
          <5> HIDE DEF l
          <5> QED
            BY <1>4, <3>3, Parts
        <4> QED
          BY <4>1, <4>2
      <3>5. Stream(from)' = left \o tail
        <4>1. Stream(from)' = (left \o rest) \o out[from]
          BY <1>3, <1>6, <3>2, <3>4 DEF Stream
        <4> HIDE DEF left
        <4> QED
          BY <1>5, <3>4, <4>1, CellsAssociate DEF tail
      <3>6. SubSeq(stream, l + 1, Len(stream)) = left \o tail
        <4> HIDE DEF l
        <4>1. SubSeq(cells \o tail, l + 1, Len(cells \o tail)) = SubSeq(cells, l + 1, Len(cells)) \o tail
          BY <1>4, <1>5, <3>3, CellsMoved, ZenonT(30)
        <4> QED
          BY <1>5, <4>1
      <3>7. Ordered(sizes, SubSeq(stream, l + 1, Len(stream)), n + 1, m, whole)
        <4>1. Ordered(sizes, stream, n, m, whole) /\ whole \in BOOLEAN
          BY <1>8, <2>0
        <4>2. stream \in Seq(Cell)
          BY <1>5
        <4> HIDE DEF n, m, sizes, stream, whole
        <4> QED
          BY <1>7, <3>3, <4>1, <4>2, OrderedCut
      <3>8. /\ FirstFrame(from)' = n + 1 /\ LastFrame(from)' = m /\ SizesOf(from)' = sizes
            /\ pc'[e] # "hello_in"
            /\ (pc'[from] # "gone" /\ from \notin failed') = whole
        BY <1>3, <2>0, <3>2 DEF FirstFrame, Greeted, LastFrame, SizesOf, SizeOf
      <3> QED
        BY <3>5, <3>6, <3>7, <3>8 DEF InOrder
    <2> QED
      BY <2>1, <2>2
  <1> QED
    BY <1>9, <1>11, <1>12 DEF Ends, Other

-----------------------------------------------------------------------------
(* The connection *)

\* Before the handshake there are no frames.
LEMMA StartAtHello ==
    ASSUME NEW sizes
    PROVE  Ordered(sizes, <<>>, 0, 0 - 1, TRUE)
  <1> DEFINE n == 0
             whole == TRUE
  <1>1. n \in Nat /\ n \in Int
    OBVIOUS
  <1> HIDE DEF n
  <1>2. Ordered(sizes, <<>>, n, n - 1, TRUE)
    BY <1>1, OrderedStart, Zenon
  <1> QED
    BY <1>2 DEF n

\* The first state is in order: the client's greeting is all there is.
LEMMA FrameInvInit ==
    ASSUME TransportAssumption, FrameInit
    PROVE  FrameInv
  <1> USE TwoEnds
  <1>1. /\ Frame(Hello, 1) \in Seq(Cell) /\ Frame(Hello, 1) \in Seq([frame : 0..0, at : Nat, whole : BOOLEAN])
        /\ Len(Frame(Hello, 1)) = PrefixCells + 1
    <2>1. /\ Frame(Hello, 1) \in Seq([frame : 0..0, at : Nat, whole : BOOLEAN])
          /\ Len(Frame(Hello, 1)) = PrefixCells + 1
      <3>1. Hello \in Nat /\ 1 \in Nat /\ 0 \in Nat /\ Hello <= 0
        BY DEF Hello
      <3> QED
        BY <3>1, FrameCells
    <2>2. [frame : 0..0, at : Nat, whole : BOOLEAN] \subseteq Cell
      BY DEF Cell
    <2> QED
      BY <2>1, <2>2, SeqMonotonic
  <1>2. /\ \A e \in Ends : /\ buffer[e] = <<>> /\ wire[e] = <<>> /\ sealed[e] = <<>> /\ delivered[e] = 0
                           /\ conn[e] = [sendSeq |-> 0, recvSeq |-> 0, closed |-> FALSE]
                           /\ timer[e] = HandshakeTimeout /\ age[e] = 0
        /\ pc["client"] = "hello_out" /\ pc["server"] = "hello_in"
        /\ out["client"] = Frame(Hello, 1) /\ out["server"] = <<>>
        /\ refused = {} /\ failed = {} /\ faults = 0 /\ partial = None
        /\ garbled \in 0..(MaxBody + 1)
    BY DEF FrameInit, Ends
  <1>3. FrameTypeOK
    <2>1. out \in [Ends -> Seq(Cell)]
      BY <1>1 DEF FrameInit
    <2>2. /\ buffer \in [Ends -> Seq(Cell)] /\ wire \in [Ends -> Seq(Cell)]
          /\ sealed \in [Ends -> Seq([seq : 0..MaxSeq, size : 1..MaxBody])]
      BY DEF FrameInit
    <2>3. \A e \in Ends : Len(buffer[e]) <= PrefixCells + MaxBody /\ Len(wire[e]) <= WireCells + MaxFaults
      BY <1>2 DEF TransportAssumption, PrefixCells
    <2>4. /\ pc \in [Ends -> {"hello_out", "hello_in", "open", "writing", "gone"}]
          /\ conn \in [Ends -> [sendSeq : 0..MaxSeq, recvSeq : 0..MaxSeq, closed : BOOLEAN]]
          /\ delivered \in [Ends -> Nat] /\ age \in [Ends -> Nat]
      BY DEF FrameInit, TransportAssumption
    <2>5. timer \in [Ends -> 0..(WriteTimeout + HandshakeTimeout)]
      BY DEF FrameInit, TransportAssumption
    <2>6. faults \in 0..MaxFaults /\ refused \subseteq Ends /\ failed \subseteq Ends
          /\ partial \in {None} \cup 0..FrameIdleTimeout
      BY <1>2 DEF TransportAssumption
    <2> QED
      BY <1>2, <2>1, <2>2, <2>3, <2>4, <2>5, <2>6 DEF FrameTypeOK
  <1>4. CellsKnown
    <2> SUFFICES ASSUME NEW e \in Ends
                 PROVE  /\ wire[e] \in Seq(Cells(e)) /\ out[e] \in Seq(Cells(e))
                        /\ buffer[Other(e)] \in Seq(Cells(e))
      BY DEF CellsKnown
    <2>1. Cells(e) = [frame : 0..0, at : Nat, whole : BOOLEAN]
      BY <1>2 DEF Cells
    <2>2. out[e] = <<>> \/ out[e] = Frame(Hello, 1)
      BY <1>2 DEF Ends
    <2>3. <<>> \in Seq(Cells(e))
      OBVIOUS
    <2> QED
      BY <1>1, <1>2, <2>1, <2>2, <2>3
  <1>5. \A e \in Ends : Progress(e) /\ OneDeadline(e) /\ InSequence(e)
    <2> SUFFICES ASSUME NEW e \in Ends PROVE Progress(e) /\ OneDeadline(e) /\ InSequence(e)
      OBVIOUS
    <2>1. pc[e] = "hello_out" \/ (pc[e] = "hello_in" /\ out[e] = <<>>)
      BY <1>2 DEF Ends
    <2>2. Progress(e)
      BY <1>2, <2>1 DEF Progress
    <2>3. OneDeadline(e)
      BY <1>2, <2>1 DEF OneDeadline, Blocked, TransportAssumption
    <2>4. InSequence(e)
      BY <1>2, <2>1 DEF InSequence
    <2> QED
      BY <2>2, <2>3, <2>4
  <1>6. InOrder("server")
    <2>1. Stream("server") = <<>> /\ FirstFrame("server") = 0 /\ LastFrame("server") = -1
      <3>1. Stream("server") = (<<>> \o <<>>) \o <<>>
        BY <1>2 DEF Stream, Ends
      <3>2. <<>> \o <<>> = <<>>
        OBVIOUS
      <3> QED
        BY <1>2, <3>1, <3>2 DEF FirstFrame, LastFrame, Greeted, Other, Hello
    <2> DEFINE sizes == SizesOf("server")
    <2>2. Ordered(sizes, <<>>, 0, 0 - 1, TRUE)
      BY StartAtHello
    <2>3. 0 - 1 = -1 /\ (pc["server"] # "gone" /\ "server" \notin failed) = TRUE
      BY <1>2
    <2>4. pc[Other("server")] # "hello_in"
      BY <1>2 DEF Other
    <2> QED
      BY <2>1, <2>2, <2>3, <2>4 DEF InOrder
  <1>7. InOrder("client")
    <2> DEFINE sizes == SizesOf("client")
    <2>1. Stream("client") = <<>> \o Frame(0, 1) /\ FirstFrame("client") = 0 /\ LastFrame("client") = 0
      <3>1. Stream("client") = (<<>> \o <<>>) \o Frame(0, 1)
        BY <1>2 DEF Stream, Ends, Other, Hello
      <3>2. <<>> \o <<>> = <<>>
        OBVIOUS
      <3> QED
        BY <1>2, <3>1, <3>2 DEF FirstFrame, LastFrame, Greeted, Other, Hello, Ends
    <2>2. sizes[0] = 1 /\ 1 \in 1..MaxBody /\ MaxBody \in Nat
      BY <1>2 DEF SizesOf, SizeOf, Hello, Ends, TransportAssumption
    <2> DEFINE none == <<>>
               z == 0
               zero == -1
    <2>3. Ordered(sizes, none, z, z - 1, TRUE)
      BY StartAtHello
    <2>4. z - 1 = zero /\ zero + 1 = z /\ z \in Nat /\ zero \in Int /\ z = 0 /\ none \in Seq(Cell)
      OBVIOUS
    <2>5. /\ \A k \in z..(zero + 1) : sizes[k] \in 1..MaxBody
          /\ \A k \in z..zero : sizes[k] = sizes[k]
      BY <2>2, <2>4
    <2> HIDE DEF none, z, zero, sizes
    <2>6. Ordered(sizes, none \o Frame(zero + 1, sizes[zero + 1]), z, zero + 1, TRUE)
      BY <2>2, <2>3, <2>4, <2>5, OrderedAdd
    <2>7. Ordered(sizes, <<>> \o Frame(0, 1), 0, 0, TRUE)
      BY <2>2, <2>4, <2>6 DEF none
    <2>8. (pc["client"] # "gone" /\ "client" \notin failed) = TRUE
      BY <1>2
    <2>9. pc[Other("client")] = "hello_in" => Len(buffer[Other("client")]) <= PrefixCells
      BY <1>2 DEF PrefixCells
    <2> QED
      BY <2>1, <2>7, <2>8, <2>9 DEF InOrder, sizes
  <1>8. HonestNeverRefused
    BY <1>2 DEF HonestNeverRefused
  <1> QED
    BY <1>3, <1>4, <1>5, <1>6, <1>7, <1>8 DEF FrameInv, EachEnd, Ends

\* An end of an honest path never refuses: only a read refuses, and it finds
\* the next frame.
LEMMA RefusedKept ==
    ASSUME HonestNeverRefused, faults' = faults, faults = 0 => refused' = refused
    PROVE  HonestNeverRefused'
  BY DEF HonestNeverRefused

\* Every step of the connection keeps the invariant.
LEMMA FrameInvStep ==
    ASSUME TransportAssumption, FrameInv, [FrameNext]_frameVars
    PROVE  FrameInv'
  <1> USE TwoEnds DEF FrameInv
  <1>1. ASSUME NEW e \in Ends, Write(e) PROVE FrameInv'
    <2>1. EachEnd'
      BY <1>1, WriteLocal
    <2>2. \A d \in Ends : InOrder(d)'
      BY <1>1, WriteOrder
    <2>3. HonestNeverRefused'
      BY <1>1, RefusedKept DEF Write, history
    <2> QED
      BY <2>1, <2>2, <2>3
  <1>2. ASSUME NEW e \in Ends, WriteFails(e) PROVE FrameInv'
    <2>1. EachEnd'
      BY <1>2, WriteFailsLocal
    <2>2. \A d \in Ends : InOrder(d)'
      BY <1>2, WriteFailsOrder
    <2>3. HonestNeverRefused'
      BY <1>2, RefusedKept DEF WriteFails
    <2> QED
      BY <2>1, <2>2, <2>3
  <1>3. ASSUME NEW e \in Ends, ReadHello(e) PROVE FrameInv'
    <2>1. EachEnd'
      BY <1>3, ReadHelloLocal
    <2>2. (\A d \in Ends : InOrder(d)') /\ (faults = 0 => refused' = refused)
      BY <1>3, ReadHelloOrder
    <2>3. HonestNeverRefused'
      BY <1>3, <2>2, RefusedKept DEF ReadHello
    <2> QED
      BY <2>1, <2>2, <2>3
  <1>4. ASSUME NEW e \in Ends, HelloFails(e) \/ DropConnection(e) PROVE FrameInv'
    <2>1. EachEnd'
      BY <1>4, LeaveLocal
    <2>2. \A d \in Ends : InOrder(d)'
      BY <1>4, LeaveOrder
    <2>3. HonestNeverRefused'
      BY <1>4, RefusedKept DEF HelloFails, DropConnection, history
    <2> QED
      BY <2>1, <2>2, <2>3
  <1>5. ASSUME NEW e \in Ends, SendPayload(e) PROVE FrameInv'
    <2>1. EachEnd'
      BY <1>5, SendLocal
    <2>2. \A d \in Ends : InOrder(d)'
      BY <1>5, SendOrder
    <2>3. HonestNeverRefused'
      BY <1>5, RefusedKept DEF SendPayload, history
    <2> QED
      BY <2>1, <2>2, <2>3
  <1>6. ASSUME NEW e \in Ends, SendExhausted(e) \/ PollEnds(e) PROVE FrameInv'
    <2>1. EachEnd'
      BY <1>6, CloseLocal
    <2>2. \A d \in Ends : InOrder(d)'
      BY <1>6, StillOrder
    <2>3. HonestNeverRefused'
      BY <1>6, RefusedKept DEF SendExhausted, PollEnds, history
    <2> QED
      BY <2>1, <2>2, <2>3
  <1>7. ASSUME NEW e \in Ends, PollPayload(e) PROVE FrameInv'
    <2>1. EachEnd'
      BY <1>7, PollLocal
    <2>2. (\A d \in Ends : InOrder(d)') /\ (faults = 0 => refused' = refused)
      BY <1>7, PollOrder
    <2>3. HonestNeverRefused'
      BY <1>7, <2>2, RefusedKept DEF PollPayload
    <2> QED
      BY <2>1, <2>2, <2>3
  <1>8. ASSUME NEW e \in Ends, Fault(e) PROVE FrameInv'
    <2>1. EachEnd' /\ faults' # 0
      BY <1>8, FaultLocal
    <2>2. \A d \in Ends : InOrder(d)'
      BY <2>1 DEF InOrder
    <2> QED
      BY <2>1, <2>2 DEF HonestNeverRefused
  <1>9. ASSUME TimePasses PROVE FrameInv'
    <2>1. EachEnd'
      BY <1>9, TimeLocal
    <2>2. \A d \in Ends : InOrder(d)'
      BY <1>9, StillOrder
    <2>3. HonestNeverRefused'
      BY <1>9, RefusedKept DEF TimePasses, history
    <2> QED
      BY <2>1, <2>2, <2>3
  <1>10. ASSUME UNCHANGED frameVars PROVE FrameInv'
    <2>1. EachEnd'
      BY <1>10, SMTT(30) DEF frameVars, EachEnd, FrameTypeOK, CellsKnown, Cells, Progress, OneDeadline,
                   Blocked, InSequence
    <2>2. HonestNeverRefused'
      BY <1>10 DEF frameVars, HonestNeverRefused
    <2>3. ASSUME NEW d \in Ends PROVE InOrder(d)'
      <3>1. Stream(d)' = Stream(d) /\ FirstFrame(d)' = FirstFrame(d) /\ LastFrame(d)' = LastFrame(d)
        BY <1>10 DEF frameVars, Stream, FirstFrame, LastFrame, Greeted
      <3>2. faults = 0 /\ Reads(Other(d)) /\ pc[Other(d)] = "hello_in" => Len(buffer[Other(d)]) <= PrefixCells
        BY DEF InOrder
      <3>3. (Reads(Other(d))' => Reads(Other(d))) /\ UNCHANGED <<pc, buffer, sealed, faults, failed>>
        BY <1>10 DEF frameVars, Reads
      <3> QED
        BY <3>1, <3>2, <3>3, InOrderKept
    <2> QED
      BY <2>1, <2>2, <2>3
  <1> QED
    BY <1>1, <1>2, <1>3, <1>4, <1>5, <1>6, <1>7, <1>8, <1>9, <1>10 DEF FrameNext

\* What a failed end has encrypted and a refusing end has delivered stays: only
\* an open end encrypts or delivers, and a failed one is closed.
LEMMA FailedStays ==
    ASSUME TransportAssumption, FrameInv, [FrameNext]_frameVars
    PROVE  NothingAfterFailure
  <1>0. FrameTypeOK /\ \A e \in Ends : Progress(e)
    BY DEF FrameInv, EachEnd
  <1>1. ASSUME NEW e \in Ends, SendPayload(e)
        PROVE  delivered' = delivered /\ \A d \in Ends : d \in failed => sealed'[d] = sealed[d]
    <2>1. e \notin failed /\ delivered' = delivered
      BY <1>0, <1>1 DEF SendPayload, Progress
    <2>2. \A d \in Ends : d # e => sealed'[d] = sealed[d]
      BY <1>0, <1>1 DEF SendPayload, FrameTypeOK
    <2> QED
      BY <2>1, <2>2
  <1>2. ASSUME NEW e \in Ends, PollPayload(e)
        PROVE  sealed' = sealed /\ \A d \in Ends : d \in refused => delivered'[d] = delivered[d]
    <2>1. e \notin refused /\ sealed' = sealed
      BY <1>0, <1>2 DEF PollPayload, Progress
    <2>2. delivered' = delivered \/ delivered' = [delivered EXCEPT ![e] = @ + 1]
      <3>1. PICK k \in 0..Len(wire[Other(e)]) : \E cells \in Seq(Cells(Other(e))) : PollTakes(e, k, cells)
        BY <1>2, PollOutcome DEF FrameInv
      <3> QED
        BY <3>1 DEF PollTakes
    <2>3. \A d \in Ends : d # e => delivered'[d] = delivered[d]
      BY <1>0, <2>2 DEF FrameTypeOK
    <2> QED
      BY <2>1, <2>3
  <1>3. ASSUME NEW e \in Ends,
               \/ Write(e) \/ WriteFails(e) \/ ReadHello(e) \/ HelloFails(e) \/ SendExhausted(e)
               \/ PollEnds(e) \/ DropConnection(e) \/ Fault(e)
        PROVE  UNCHANGED <<sealed, delivered>>
    BY <1>3 DEF Write, WriteFails, ReadHello, HelloFails, SendExhausted, PollEnds, DropConnection, Fault
  <1>4. TimePasses \/ UNCHANGED frameVars => UNCHANGED <<sealed, delivered>>
    BY DEF TimePasses, frameVars
  <1> QED
    BY <1>1, <1>2, <1>3, <1>4 DEF FrameNext, NothingAfterFailure

\* No thread is blocked past its deadline: what is left of the deadline and the
\* time already taken make the one deadline.
LEMMA WithinDeadline ==
    ASSUME TransportAssumption, FrameInv
    PROVE  BlockedBounded
  <1> SUFFICES ASSUME NEW e \in Ends, Blocked(e)
               PROVE  age[e] <= IF pc[e] = "writing" THEN WriteTimeout ELSE HandshakeTimeout
    BY DEF BlockedBounded
  <1> DEFINE limit == IF pc[e] = "writing" THEN WriteTimeout ELSE HandshakeTimeout
             a == age[e]
             t == timer[e]
  <1>1. a + t = limit
    BY DEF FrameInv, EachEnd, OneDeadline
  <1>2. a \in Nat /\ t \in Nat /\ limit \in Nat
    BY DEF FrameInv, EachEnd, FrameTypeOK, TransportAssumption
  <1>3. a <= limit
    <2> HIDE DEF a, t, limit
    <2> QED
      BY <1>1, <1>2
  <1> QED
    BY <1>3

\* An honest connection holds and a failed one is dead, for all sizes of frames,
\* buffers and deadlines (security.rs: SecureConnection and the handshakes).
THEOREM ConnectionIsSound ==
    TransportAssumption => (FrameSpec => ConnectionSound)
  <1> SUFFICES ASSUME TransportAssumption PROVE FrameSpec => ConnectionSound
    OBVIOUS
  <1>1. FrameInit => FrameInv
    BY FrameInvInit
  <1>2. FrameInv /\ [FrameNext]_frameVars => FrameInv'
    BY FrameInvStep
  <1>3. FrameInv => FrameTypeOK /\ HonestNeverRefused /\ BlockedBounded
    BY WithinDeadline DEF FrameInv, EachEnd
  <1>4. FrameInv /\ [FrameNext]_frameVars => [NothingAfterFailure]_frameVars
    BY FailedStays
  <1> QED
    BY <1>1, <1>2, <1>3, <1>4, PTL DEF FrameSpec, ConnectionSound

-----------------------------------------------------------------------------
(* The handshake replay cache *)

USE ReplayTimes, ReplaySets

LEMMA FreeThreadType == FreeThread \in Thread
<1>1. 0 \in Int
  OBVIOUS
<1> QED
  BY <1>1, Zenon DEF FreeThread, Thread

LEMMA EntryTypes ==
    ASSUME NEW t \in Int
    PROVE  /\ Pending(t) \in ReplayEntry /\ Pending(t).confirmed = FALSE
           /\ Confirmed(t) \in ReplayEntry /\ Confirmed(t).expires = t + ReplayTTL
<1>1. t + PendingReplayTTL \in Int /\ t + ReplayTTL \in Int
  OBVIOUS
<1> QED
  BY <1>1, Zenon DEF Pending, Confirmed, ReplayEntry

\* What the cache holds after a prune, with and without a new entry.
LEMMA CacheAfter ==
    ASSUME TypeOK, NEW t \in Int, NEW g \in Hellos, NEW e \in ReplayEntry
    PROVE  /\ DOMAIN Pruned(t) \subseteq Hellos
           /\ \A h \in DOMAIN Pruned(t) : Pruned(t)[h] \in ReplayEntry
           /\ DOMAIN With(t, g, e) \subseteq Hellos
           /\ \A h \in DOMAIN With(t, g, e) : With(t, g, e)[h] \in ReplayEntry
           /\ \A h \in Live(t) : h \in DOMAIN Pruned(t) /\ Pruned(t)[h] = entries[h]
           /\ \A h \in Live(t) \ {g} :
                 h \in DOMAIN With(t, g, e) /\ With(t, g, e)[h] = entries[h]
           /\ g \in DOMAIN With(t, g, e) /\ With(t, g, e)[g] = e
BY DEF Pruned, With, Live, TypeOK

LEMMA ThreadPlaces ==
    ASSUME TypeOK, NEW x \in Threads
    PROVE  /\ thread[x] \in Thread /\ thread[x].at \in Int
           /\ thread[x].pc # "free" => thread[x].hello \in sent
           /\ thread[x].pc # "free" => thread[x].hello \in Hellos
           /\ clock \in Int
BY DEF TypeOK, Thread

\* Replacing the record of one thread.
LEMMA ThreadReplaced ==
    ASSUME TypeOK, NEW x \in Threads, NEW w \in Thread,
           w.pc # "free" => w.hello \in sent,
           thread' = [thread EXCEPT ![x] = w], UNCHANGED sent
    PROVE  /\ thread' \in [Threads -> Thread]
           /\ \A y \in Threads : thread'[y].pc # "free" => thread'[y].hello \in sent'
           /\ thread'[x] = w
           /\ \A y \in Threads \ {x} : thread'[y] = thread[y]
BY DEF TypeOK

\* The thread steps, as what they put in the thread's place.
LEMMA StepShape ==
    ASSUME TypeOK, NEW x \in Threads, ThreadStep(x)
    PROVE  \E w \in Thread :
              /\ w.pc # "free" => w.hello \in sent
              /\ thread' = [thread EXCEPT ![x] = w]
<1> USE ThreadPlaces, FreeThreadType
<1>0. FreeThread.pc = "free"
  BY DEF FreeThread
<1>1. CASE Validate(x)
  <2>1. PICK h \in sent, own \in BOOLEAN :
          thread' = [thread EXCEPT ![x] =
                [pc |-> "validated", hello |-> h, own |-> own, at |-> clock]]
    BY <1>1 DEF Validate
  <2>2. h \in Hellos /\ clock \in Int
    BY DEF TypeOK
  <2>3. [pc |-> "validated", hello |-> h, own |-> own, at |-> clock] \in Thread
    BY <2>2, Zenon DEF Thread
  <2>4. [pc |-> "validated", hello |-> h, own |-> own, at |-> clock].hello \in sent
    OBVIOUS
  <2> QED
    BY <2>1, <2>3, <2>4
<1>2. ASSUME NEW place \in {"reserved", "open", "confirming"}, NEW i \in Int,
             thread[x].pc # "free"
      PROVE  /\ [thread[x] EXCEPT !.pc = place, !.at = i] \in Thread
             /\ [thread[x] EXCEPT !.pc = place] \in Thread
             /\ [thread[x] EXCEPT !.pc = place, !.at = i].hello \in sent
             /\ [thread[x] EXCEPT !.pc = place].hello \in sent
  BY <1>2 DEF Thread
<1>3. CASE Reserve(x)
  <2>1. \/ thread' = [thread EXCEPT ![x] = [@ EXCEPT !.pc = "reserved"]]
        \/ thread' = [thread EXCEPT ![x] = FreeThread]
    BY <1>3 DEF Reserve
  <2>2. thread[x].pc # "free"
    BY <1>3 DEF Reserve
  <2> QED
    BY <1>0, <1>2, <2>1, <2>2
<1>4. CASE Reply(x)
  BY <1>0, <1>2, <1>4 DEF Reply
<1>5. CASE FirstRequest(x)
  BY <1>2, <1>5 DEF FirstRequest
<1>6. CASE Confirm(x)
  BY <1>0, <1>6 DEF Confirm
<1>7. CASE GiveUp(x)
  BY <1>0, <1>7 DEF GiveUp
<1> QED
  BY <1>1, <1>3, <1>4, <1>5, <1>6, <1>7 DEF ThreadStep

LEMMA CacheStep ==
    ASSUME TypeOK, NEW x \in Threads, ThreadStep(x)
    PROVE  /\ DOMAIN entries' \subseteq Hellos
           /\ \A h \in DOMAIN entries' : entries'[h] \in ReplayEntry
           /\ confirmed' \subseteq Hellos
           /\ UNCHANGED <<clock, stamp, sent>>
<1>1. CASE Reserve(x)
  <2>1. thread[x].hello \in Hellos
    BY <1>1, ThreadPlaces DEF Reserve
  <2>2. PICK t \in thread[x].at..clock :
            \/ entries' = With(t, thread[x].hello, Pending(t))
            \/ entries' = Pruned(t)
    BY <1>1 DEF Reserve
  <2>3. t \in Int
    BY ThreadPlaces
  <2>4. Pending(t) \in ReplayEntry
    BY <2>3, EntryTypes
  <2>5. /\ DOMAIN entries' \subseteq Hellos
        /\ \A h \in DOMAIN entries' : entries'[h] \in ReplayEntry
    BY <2>1, <2>2, <2>3, <2>4, CacheAfter
  <2> QED
    BY <1>1, <2>5 DEF Reserve, TypeOK
<1>2. CASE Confirm(x)
  <2>1. thread[x].hello \in Hellos
    BY <1>2, ThreadPlaces DEF Confirm
  <2>2. PICK t \in thread[x].at..clock :
            \/ /\ entries' = With(t, thread[x].hello, Confirmed(t))
               /\ confirmed' = confirmed \cup {thread[x].hello}
            \/ /\ entries' = Pruned(t)
               /\ UNCHANGED confirmed
    BY <1>2 DEF Confirm
  <2>3. t \in Int
    BY ThreadPlaces
  <2>4. UNCHANGED <<clock, stamp, sent>>
    BY <1>2 DEF Confirm
  <2>5. Confirmed(t) \in ReplayEntry
    BY <2>3, EntryTypes
  <2>6. /\ DOMAIN entries' \subseteq Hellos
        /\ \A h \in DOMAIN entries' : entries'[h] \in ReplayEntry
    BY <2>1, <2>2, <2>3, <2>5, CacheAfter
  <2> QED
    BY <2>1, <2>2, <2>4, <2>6 DEF TypeOK
<1>3. CASE Validate(x) \/ Reply(x) \/ FirstRequest(x) \/ GiveUp(x)
  BY <1>3 DEF Validate, Reply, FirstRequest, GiveUp, TypeOK
<1> QED
  BY <1>1, <1>2, <1>3 DEF ThreadStep

LEMMA ReplayTypeStep == TypeOK /\ [Next]_vars => TypeOK'
<1> SUFFICES ASSUME TypeOK, [Next]_vars PROVE TypeOK'
  OBVIOUS
<1>1. ASSUME NEW h \in Hellos, SendHello(h) PROVE TypeOK'
  <2>1. PICK i \in (clock - Skew - 1)..(clock + Skew + 1) : stamp' = [stamp EXCEPT ![h] = i]
    BY <1>1 DEF SendHello
  <2>2. stamp' \in [Hellos -> Int]
    BY <2>1 DEF TypeOK
  <2> QED
    BY <1>1, <2>2 DEF SendHello, TypeOK
<1>2. ASSUME NEW x \in Threads, ThreadStep(x) PROVE TypeOK'
  <2>1. PICK w \in Thread :
              /\ w.pc # "free" => w.hello \in sent
              /\ thread' = [thread EXCEPT ![x] = w]
    BY <1>2, StepShape
  <2>2. UNCHANGED sent
    BY <1>2, CacheStep
  <2>3. /\ thread' \in [Threads -> Thread]
        /\ \A y \in Threads : thread'[y].pc # "free" => thread'[y].hello \in sent'
    BY <2>1, <2>2, ThreadReplaced
  <2> QED
    BY <1>2, <2>3, CacheStep DEF TypeOK
<1>3. CASE Tick
  BY <1>3 DEF Tick, TypeOK
<1>4. CASE UNCHANGED vars
  BY <1>4 DEF vars, TypeOK
<1> QED
  BY <1>1, <1>2, <1>3, <1>4 DEF Next

-----------------------------------------------------------------------------
\* A prune by a thread whose reading is not past the horizon keeps the nonce.
LEMMA StaysLive ==
    ASSUME TypeOK, ConfirmedRemembered, NEW h \in confirmed, NEW t \in Int,
           t <= clock, clock <= Horizon(h)
    PROVE  h \in Live(t) /\ entries[h].expires > Horizon(h)
<1>1. h \in DOMAIN entries /\ entries[h].expires > Horizon(h)
  BY DEF ConfirmedRemembered
<1>2. h \in Hellos /\ clock \in Int /\ stamp[h] \in Int
  BY DEF TypeOK
<1>3. Horizon(h) \in Int
  BY <1>2 DEF Horizon
<1>4. entries[h].expires \in Int
  BY <1>1 DEF TypeOK, ReplayEntry
<1>5. entries[h].expires > t
  BY <1>1, <1>2, <1>3, <1>4
<1> QED
  BY <1>1, <1>5 DEF Live

\* No thread that holds a validated hello of a confirmed session gets its
\* reservation.
LEMMA ReserveRefused ==
    ASSUME TypeOK, ReplayInv, NEW x \in Threads, thread[x].pc = "validated",
           NEW t \in thread[x].at..clock, MayReserve(thread[x].hello, t)
    PROVE  thread[x].hello \notin confirmed
<1> DEFINE h == thread[x].hello
<1> SUFFICES ASSUME h \in confirmed PROVE FALSE
  OBVIOUS
<1>1. /\ thread[x].at \in Int /\ clock \in Int /\ h \in Hellos
  BY ThreadPlaces
<1>2. stamp[h] \in Int
  BY <1>1 DEF TypeOK
<1>3. thread[x].at <= stamp[h] + Skew /\ clock <= thread[x].at + HoldLimit
  BY DEF ReplayInv, TimelyThreads
<1>4. clock <= Horizon(h)
  BY <1>1, <1>2, <1>3 DEF Horizon
<1>5. t \in Int /\ t <= clock
  BY <1>1
<1>6. h \in Live(t)
  BY <1>4, <1>5, StaysLive DEF ReplayInv
<1> QED
  BY <1>6 DEF MayReserve

\* The cache part, for the steps of one thread.
LEMMA RememberedStep ==
    ASSUME TypeOK, ReplayInv, NEW x \in Threads, ThreadStep(x)
    PROVE  ConfirmedRemembered'
<1>0. UNCHANGED <<clock, stamp, sent>>
  BY CacheStep
<1>h. \A h : Horizon(h)' = Horizon(h)
  BY <1>0 DEF Horizon
<1>1. CASE Reserve(x)
  <2> DEFINE g == thread[x].hello
  <2>1. thread[x].pc = "validated" /\ confirmed' = confirmed
    BY <1>1 DEF Reserve
  <2>2. PICK t \in thread[x].at..clock :
            \/ MayReserve(g, t) /\ entries' = With(t, g, Pending(t))
            \/ entries' = Pruned(t)
    BY <1>1 DEF Reserve
  <2>3. t \in Int /\ t <= clock /\ g \in Hellos /\ Pending(t) \in ReplayEntry
    <3>1. t \in Int /\ t <= clock /\ g \in Hellos
      BY <2>1, ThreadPlaces
    <3> QED
      BY <3>1, EntryTypes
  <2>4. ASSUME NEW h \in confirmed, clock <= Horizon(h)
        PROVE  h \in DOMAIN entries' /\ entries'[h] = entries[h]
    <3>1. h \in Live(t)
      BY <2>3, <2>4, StaysLive DEF ReplayInv
    <3>2. CASE MayReserve(g, t) /\ entries' = With(t, g, Pending(t))
      <4>1. h # g
        BY <2>1, <3>2, ReserveRefused
      <4> QED
        BY <2>3, <3>1, <3>2, <4>1, CacheAfter
    <3>3. CASE entries' = Pruned(t)
      BY <2>3, <3>1, <3>3, CacheAfter
    <3> QED
      BY <2>2, <3>2, <3>3
  <2> QED
    BY <1>0, <1>h, <2>1, <2>4 DEF ReplayInv, ConfirmedRemembered
<1>2. CASE Confirm(x)
  <2> DEFINE g == thread[x].hello
  <2>1. thread[x].pc = "confirming"
    BY <1>2 DEF Confirm
  <2>2. PICK t \in thread[x].at..clock :
            \/ /\ entries' = With(t, g, Confirmed(t))
               /\ confirmed' = confirmed \cup {g}
            \/ /\ entries' = Pruned(t)
               /\ UNCHANGED confirmed
    BY <1>2 DEF Confirm
  <2>3. t \in Int /\ t <= clock /\ g \in sent /\ g \in Hellos
        /\ thread[x].at \in Int /\ clock \in Int /\ thread[x].at <= t
    BY <2>1, ThreadPlaces
  <2>4. Confirmed(t) \in ReplayEntry /\ Confirmed(t).expires = t + ReplayTTL
    BY <2>3, EntryTypes
  <2>5. t + ReplayTTL > Horizon(g)
    <3>1. stamp[g] \in Int /\ stamp[g] - Skew <= thread[x].at
      BY <2>1, <2>3 DEF TypeOK, ReplayInv, TimelyThreads
    <3> QED
      BY <2>3, <3>1 DEF Horizon
  <2>6. ASSUME NEW h \in confirmed, clock <= Horizon(h), h # g \/ entries' = Pruned(t)
        PROVE  h \in DOMAIN entries' /\ entries'[h] = entries[h]
    <3>1. h \in Live(t)
      BY <2>3, <2>6, StaysLive DEF ReplayInv
    <3> QED
      BY <2>2, <2>3, <2>4, <2>6, <3>1, CacheAfter
  <2>7. entries' = With(t, g, Confirmed(t)) =>
            g \in DOMAIN entries' /\ entries'[g].expires > Horizon(g)
    BY <2>3, <2>4, <2>5, CacheAfter
  <2>8. CASE entries' = Pruned(t) /\ confirmed' = confirmed
    BY <1>0, <1>h, <2>6, <2>8 DEF ReplayInv, ConfirmedRemembered
  <2>9. CASE entries' = With(t, g, Confirmed(t)) /\ confirmed' = confirmed \cup {g}
    BY <1>0, <1>h, <2>3, <2>6, <2>7, <2>9 DEF ReplayInv, ConfirmedRemembered
  <2> QED
    BY <2>2, <2>8, <2>9
<1>3. CASE Validate(x) \/ Reply(x) \/ FirstRequest(x) \/ GiveUp(x)
  <2>1. UNCHANGED <<entries, confirmed>>
    BY <1>3 DEF Validate, Reply, FirstRequest, GiveUp
  <2> QED
    BY <1>0, <1>h, <2>1 DEF ReplayInv, ConfirmedRemembered
<1> QED
  BY <1>1, <1>2, <1>3 DEF ThreadStep

\* The thread part: what each step writes into the thread's record is timely.
Timely(w) ==
    /\ w.pc # "free" => stamp[w.hello] - Skew <= w.at /\ w.at <= clock
    /\ w.pc = "validated" => w.at <= stamp[w.hello] + Skew /\ clock <= w.at + HoldLimit

LEMMA TimelyStep ==
    ASSUME TypeOK, ReplayInv, NEW x \in Threads, ThreadStep(x)
    PROVE  TimelyThreads'
<1>0. UNCHANGED <<clock, stamp, sent>>
  BY CacheStep
<1>1. thread[x] \in Thread /\ thread[x].at \in Int /\ clock \in Int
      /\ (thread[x].pc # "free" => thread[x].hello \in Hellos)
  BY ThreadPlaces
<1>2. thread[x].pc # "free" => stamp[thread[x].hello] \in Int
  BY <1>1 DEF TypeOK
<1>3. Timely(thread[x])
  BY DEF Timely, ReplayInv, TimelyThreads
<1>4. Timely(FreeThread)
  BY DEF Timely, FreeThread
<1>5. \E w : thread' = [thread EXCEPT ![x] = w] /\ Timely(w)
  <2>1. CASE Validate(x)
    <3>1. PICK h \in sent, own \in BOOLEAN :
            /\ Fresh(h)
            /\ thread' = [thread EXCEPT ![x] =
                  [pc |-> "validated", hello |-> h, own |-> own, at |-> clock]]
      BY <2>1 DEF Validate
    <3>2. stamp[h] \in Int
      BY DEF TypeOK
    <3>3. Timely([pc |-> "validated", hello |-> h, own |-> own, at |-> clock])
      BY <1>1, <3>1, <3>2 DEF Timely, Fresh
    <3> QED
      BY <3>1, <3>3
  <2>2. CASE Reserve(x)
    <3>1. \/ thread' = [thread EXCEPT ![x] = [@ EXCEPT !.pc = "reserved"]]
          \/ thread' = [thread EXCEPT ![x] = FreeThread]
      BY <2>2 DEF Reserve
    <3>2. Timely([thread[x] EXCEPT !.pc = "reserved"])
      BY <1>1, <1>3, <2>2 DEF Timely, Thread, Reserve
    <3> QED
      BY <1>4, <3>1, <3>2
  <2>3. CASE Reply(x)
    <3>1. Timely([thread[x] EXCEPT !.pc = "open", !.at = clock])
      BY <1>1, <1>2, <1>3, <2>3 DEF Timely, Thread, Reply
    <3> QED
      BY <1>4, <2>3, <3>1 DEF Reply
  <2>4. CASE FirstRequest(x)
    <3>1. Timely([thread[x] EXCEPT !.pc = "confirming", !.at = clock])
      BY <1>1, <1>2, <1>3, <2>4 DEF Timely, Thread, FirstRequest
    <3> QED
      BY <2>4, <3>1 DEF FirstRequest
  <2>5. CASE Confirm(x)
    BY <1>4, <2>5 DEF Confirm
  <2>6. CASE GiveUp(x)
    BY <1>4, <2>6 DEF GiveUp
  <2> QED
    BY <2>1, <2>2, <2>3, <2>4, <2>5, <2>6 DEF ThreadStep
<1> QED
  BY <1>0, <1>5 DEF Timely, ReplayInv, TimelyThreads, TypeOK

LEMMA ReplayInvStep == TypeOK /\ ReplayInv /\ [Next]_vars => ReplayInv'
<1> SUFFICES ASSUME TypeOK, ReplayInv, [Next]_vars PROVE ReplayInv'
  OBVIOUS
<1>1. ASSUME NEW h \in Hellos, SendHello(h) PROVE ReplayInv'
  <2>1. \A g \in sent : stamp'[g] = stamp[g]
    BY <1>1 DEF SendHello, TypeOK
  <2>2. \A x \in Threads : thread[x].pc # "free" => thread[x].hello \in sent
    BY DEF TypeOK
  <2>3. ConfirmedRemembered'
    BY <1>1, <2>1 DEF SendHello, ReplayInv, ConfirmedRemembered, Horizon
  <2>4. TimelyThreads'
    BY <1>1, <2>1, <2>2 DEF SendHello, ReplayInv, TimelyThreads
  <2> QED
    BY <2>3, <2>4 DEF ReplayInv
<1>2. ASSUME NEW x \in Threads, ThreadStep(x) PROVE ReplayInv'
  BY <1>2, RememberedStep, TimelyStep DEF ReplayInv
<1>3. CASE Tick
  <2>1. clock \in Int /\ \A h \in Hellos : stamp[h] \in Int
    BY DEF TypeOK
  <2>2. \A x \in Threads : thread[x].at \in Int
    BY ThreadPlaces
  <2>3. ConfirmedRemembered'
    BY <1>3, <2>1 DEF Tick, TypeOK, ReplayInv, ConfirmedRemembered, Horizon
  <2>4. TimelyThreads'
    BY <1>3, <2>1, <2>2 DEF Tick, ReplayInv, TimelyThreads
  <2> QED
    BY <2>3, <2>4 DEF ReplayInv
<1>4. CASE UNCHANGED vars
  BY <1>4 DEF vars, ReplayInv, ConfirmedRemembered, TimelyThreads, Horizon
<1> QED
  BY <1>1, <1>2, <1>3, <1>4 DEF Next

\* A step never reserves the nonce of a confirmed hello.
LEMMA NoReserveStep ==
    ASSUME TypeOK, ReplayInv, [Next]_vars,
           NEW x \in Threads, thread[x].pc = "validated", thread'[x].pc = "reserved"
    PROVE  thread[x].hello \notin confirmed
<1>1. CASE \E h \in Hellos : SendHello(h)
  BY <1>1 DEF SendHello
<1>2. CASE Tick \/ UNCHANGED vars
  BY <1>2 DEF Tick, vars
<1>3. ASSUME NEW y \in Threads, ThreadStep(y)
      PROVE  thread[x].hello \notin confirmed
  <2>1. PICK w \in Thread : thread' = [thread EXCEPT ![y] = w]
    BY <1>3, StepShape
  <2>2. y = x
    BY <2>1 DEF TypeOK
  <2>3. Reserve(x)
    BY <1>3, <2>2 DEF ThreadStep, Validate, Reply, FirstRequest, Confirm, GiveUp
  <2>4. PICK t \in thread[x].at..clock :
            \/ MayReserve(thread[x].hello, t)
            \/ thread' = [thread EXCEPT ![x] = FreeThread]
    BY <2>3 DEF Reserve
  <2>5. thread' # [thread EXCEPT ![x] = FreeThread]
    BY DEF FreeThread, TypeOK
  <2> QED
    BY <2>4, <2>5, ReserveRefused
<1> QED
  BY <1>1, <1>2, <1>3 DEF Next

\* Captured first messages are useless once the real session is confirmed: for
\* every number of threads, hellos and copies, a confirmed nonce is refused as
\* long as its stamp passes validation, provided only that REPLAY_TTL exceeds
\* twice the skew plus the time a thread may sit on a clock reading.
THEOREM ReplaysRefused == Spec => NoReplayAfterConfirm
<1>1. Init => TypeOK /\ ReplayInv
  BY FreeThreadType DEF Init, TypeOK, ReplayInv, ConfirmedRemembered, TimelyThreads,
                        FreeThread
<1>2. TypeOK /\ ReplayInv /\ [Next]_vars => TypeOK' /\ ReplayInv'
  BY ReplayTypeStep, ReplayInvStep
<1>3. TypeOK /\ ReplayInv /\ [Next]_vars =>
          [\A x \in Threads :
              (thread[x].pc = "validated" /\ thread'[x].pc = "reserved") =>
                  thread[x].hello \notin confirmed]_vars
  BY NoReserveStep
<1> QED
  BY <1>1, <1>2, <1>3, PTL DEF Spec, NoReplayAfterConfirm

-----------------------------------------------------------------------------
(* The limits of the cache *)

LEMMA CardinalityOneMore ==
    ASSUME NEW S, IsFiniteSet(S), NEW x
    PROVE  /\ Cardinality(S) \in Nat
           /\ Cardinality(S \cup {x}) <= Cardinality(S) + 1
           /\ IsFiniteSet(S \cup {x})
<1>1. Cardinality(S) \in Nat
  BY FS_CardinalityType
<1>2. Cardinality(S \cup {x}) = IF x \in S THEN Cardinality(S) ELSE Cardinality(S) + 1
  BY FS_AddElement
<1>3. IsFiniteSet(S \cup {x})
  BY FS_AddElement
<1> QED
  BY <1>1, <1>2, <1>3

LEMMA CardinalitySub ==
    ASSUME NEW S, IsFiniteSet(S), NEW T, T \subseteq S
    PROVE  /\ IsFiniteSet(T)
           /\ Cardinality(T) \in Nat /\ Cardinality(S) \in Nat
           /\ Cardinality(T) <= Cardinality(S)
BY FS_Subset, FS_CardinalityType, Zenon

\* A set that a step leaves as it is, shrinks, or extends by one while it is
\* below the limit stays within it.
LEMMA StaysWithin ==
    ASSUME NEW limit \in Nat, NEW S, NEW T, NEW L, NEW g, IsFiniteSet(S),
           Cardinality(S) <= limit, L \subseteq S,
           \/ T \subseteq S
           \/ T \subseteq L \cup {g} /\ Cardinality(L) < limit
    PROVE  IsFiniteSet(T) /\ Cardinality(T) <= limit
<1>1. CASE T \subseteq S
  BY <1>1, CardinalitySub
<1>2. CASE T \subseteq L \cup {g} /\ Cardinality(L) < limit
  <2>1. IsFiniteSet(L) /\ Cardinality(L) \in Nat
    BY CardinalitySub
  <2>2. IsFiniteSet(L \cup {g}) /\ Cardinality(L \cup {g}) <= Cardinality(L) + 1
    BY <2>1, CardinalityOneMore
  <2>3. /\ IsFiniteSet(T) /\ Cardinality(T) \in Nat
        /\ Cardinality(L \cup {g}) \in Nat
        /\ Cardinality(T) <= Cardinality(L \cup {g})
    BY <1>2, <2>2, CardinalitySub
  <2> QED
    BY <1>2, <2>1, <2>2, <2>3
<1> QED
  BY <1>1, <1>2

CacheInv == IsFiniteSet(DOMAIN entries) /\ CacheBounded

\* What a thread's step does to the cache: it forgets, it confirms a nonce it
\* has, or it reserves one that the limits allow.
LEMMA CacheMoves ==
    ASSUME TypeOK, NEW x \in Threads, ThreadStep(x)
    PROVE  \/ UNCHANGED entries
           \/ \E t \in Int : \E g \in Hellos :
                 \/ entries' = Pruned(t)
                 \/ g \in Live(t) /\ entries' = With(t, g, Confirmed(t))
                 \/ MayReserve(g, t) /\ entries' = With(t, g, Pending(t))
<1>1. CASE Reserve(x)
  <2>1. thread[x].hello \in Hellos
    BY <1>1, ThreadPlaces DEF Reserve
  <2>2. PICK t \in thread[x].at..clock :
            \/ entries' = Pruned(t)
            \/ /\ MayReserve(thread[x].hello, t)
               /\ entries' = With(t, thread[x].hello, Pending(t))
    BY <1>1 DEF Reserve
  <2>3. t \in Int
    BY ThreadPlaces
  <2> QED
    BY <2>1, <2>2, <2>3
<1>2. CASE Confirm(x)
  <2>1. thread[x].hello \in Hellos
    BY <1>2, ThreadPlaces DEF Confirm
  <2>2. PICK t \in thread[x].at..clock :
            \/ entries' = Pruned(t)
            \/ /\ thread[x].hello \in Live(t)
               /\ entries' = With(t, thread[x].hello, Confirmed(t))
    BY <1>2 DEF Confirm
  <2>3. t \in Int
    BY ThreadPlaces
  <2> QED
    BY <2>1, <2>2, <2>3
<1>3. CASE Validate(x) \/ Reply(x) \/ FirstRequest(x) \/ GiveUp(x)
  BY <1>3 DEF Validate, Reply, FirstRequest, GiveUp
<1> QED
  BY <1>1, <1>2, <1>3 DEF ThreadStep

\* Forgetting and confirming only shrink the three sets that are counted.
LEMMA ShrinkKeeps ==
    ASSUME CacheInv, DOMAIN entries' \subseteq DOMAIN entries,
           \A h \in DOMAIN entries' :
               entries'[h].confirmed \/ entries'[h].confirmed = entries[h].confirmed
    PROVE  CacheInv'
<1>1. IsFiniteSet(DOMAIN entries') /\ Cardinality(DOMAIN entries') <= MaxEntries
  BY ReplayLimits, CardinalitySub DEF CacheInv, CacheBounded
<1>2. ASSUME NEW c \in Clients
      PROVE  /\ Cardinality(Of(DOMAIN entries', c)) <= MaxEntriesPerClient
             /\ Cardinality(Unconfirmed(Of(DOMAIN entries, c))') <= MaxPendingPerClient
  <2>1. /\ Of(DOMAIN entries, c) \subseteq DOMAIN entries
        /\ Of(DOMAIN entries', c) \subseteq Of(DOMAIN entries, c)
        /\ Unconfirmed(Of(DOMAIN entries, c)) \subseteq Of(DOMAIN entries, c)
    BY DEF Of, Unconfirmed
  <2>2. Unconfirmed(Of(DOMAIN entries, c))' \subseteq Unconfirmed(Of(DOMAIN entries, c))
    BY DEF Of, Unconfirmed
  <2>3. IsFiniteSet(Of(DOMAIN entries, c))
    BY <2>1, CardinalitySub DEF CacheInv
  <2>4. IsFiniteSet(Unconfirmed(Of(DOMAIN entries, c)))
    BY <2>1, <2>3, CardinalitySub
  <2>5. /\ Cardinality(Of(DOMAIN entries, c)) <= MaxEntriesPerClient
        /\ Cardinality(Unconfirmed(Of(DOMAIN entries, c))) <= MaxPendingPerClient
    BY DEF CacheInv, CacheBounded
  <2>6. Cardinality(Of(DOMAIN entries', c)) <= MaxEntriesPerClient
    BY <2>1, <2>3, <2>5, StaysWithin, ReplayLimits
  <2>7. Cardinality(Unconfirmed(Of(DOMAIN entries, c))') <= MaxPendingPerClient
    BY <2>2, <2>4, <2>5, StaysWithin, ReplayLimits
  <2> QED
    BY <2>6, <2>7
<1> QED
  BY <1>1, <1>2 DEF CacheInv, CacheBounded, Of

\* A reservation adds one nonce to sets that the guard found below their limits.
LEMMA ReservationKeeps ==
    ASSUME TypeOK, CacheInv, NEW t \in Int, NEW g \in Hellos,
           MayReserve(g, t), entries' = With(t, g, Pending(t))
    PROVE  CacheInv'
<1>1. /\ DOMAIN entries' = Live(t) \cup {g} /\ Live(t) \subseteq DOMAIN entries
      /\ g \notin Live(t)
      /\ \A h \in Live(t) : entries'[h] = entries[h]
  BY DEF With, Live, MayReserve
<1>2. IsFiniteSet(DOMAIN entries') /\ Cardinality(DOMAIN entries') <= MaxEntries
  BY <1>1, StaysWithin, ReplayLimits DEF CacheInv, CacheBounded, MayReserve
<1>3. ASSUME NEW c \in Clients
      PROVE  /\ Cardinality(Of(DOMAIN entries', c)) <= MaxEntriesPerClient
             /\ Cardinality(Unconfirmed(Of(DOMAIN entries, c))') <= MaxPendingPerClient
  <2>1. /\ Of(DOMAIN entries, c) \subseteq DOMAIN entries
        /\ Unconfirmed(Of(DOMAIN entries, c)) \subseteq Of(DOMAIN entries, c)
        /\ Of(Live(t), c) \subseteq Of(DOMAIN entries, c)
        /\ Unconfirmed(Of(Live(t), c)) \subseteq Unconfirmed(Of(DOMAIN entries, c))
    BY <1>1 DEF Of, Unconfirmed
  <2>2. IsFiniteSet(Of(DOMAIN entries, c))
    BY <2>1, CardinalitySub DEF CacheInv
  <2>3. IsFiniteSet(Unconfirmed(Of(DOMAIN entries, c)))
    BY <2>1, <2>2, CardinalitySub
  <2>4. /\ Cardinality(Of(DOMAIN entries, c)) <= MaxEntriesPerClient
        /\ Cardinality(Unconfirmed(Of(DOMAIN entries, c))) <= MaxPendingPerClient
    BY DEF CacheInv, CacheBounded
  <2>5. CASE OwnerOf[g] = c
    <3>1. /\ Cardinality(Of(Live(t), c)) < MaxEntriesPerClient
          /\ Cardinality(Unconfirmed(Of(Live(t), c))) < MaxPendingPerClient
      BY <2>5 DEF MayReserve
    <3>2. Of(DOMAIN entries', c) \subseteq Of(Live(t), c) \cup {g}
      BY <1>1 DEF Of
    <3>3. Unconfirmed(Of(DOMAIN entries, c))' \subseteq
              Unconfirmed(Of(Live(t), c)) \cup {g}
      BY <1>1 DEF Of, Unconfirmed
    <3> QED
      BY <2>1, <2>2, <2>3, <2>4, <3>1, <3>2, <3>3, StaysWithin, ReplayLimits
  <2>6. CASE OwnerOf[g] # c
    <3>1. Of(DOMAIN entries', c) \subseteq Of(DOMAIN entries, c)
      BY <1>1, <2>6 DEF Of
    <3>2. Unconfirmed(Of(DOMAIN entries, c))' \subseteq
              Unconfirmed(Of(DOMAIN entries, c))
      BY <1>1, <2>6 DEF Of, Unconfirmed
    <3> QED
      BY <2>2, <2>3, <2>4, <3>1, <3>2, StaysWithin, ReplayLimits
  <2> QED
    BY <2>5, <2>6
<1> QED
  BY <1>2, <1>3 DEF CacheInv, CacheBounded, Of

LEMMA CacheInvStep == TypeOK /\ CacheInv /\ [Next]_vars => CacheInv'
<1> SUFFICES ASSUME TypeOK, CacheInv, [Next]_vars PROVE CacheInv'
  OBVIOUS
<1>1. ASSUME UNCHANGED entries PROVE CacheInv'
  BY <1>1 DEF CacheInv, CacheBounded, Of, Unconfirmed
<1>2. ASSUME NEW x \in Threads, ThreadStep(x) PROVE CacheInv'
  <2>1. ASSUME ~ UNCHANGED entries PROVE CacheInv'
    <3>1. PICK t \in Int, g \in Hellos :
              \/ entries' = Pruned(t)
              \/ g \in Live(t) /\ entries' = With(t, g, Confirmed(t))
              \/ MayReserve(g, t) /\ entries' = With(t, g, Pending(t))
      BY <1>2, <2>1, CacheMoves
    <3>2. CASE entries' = Pruned(t)
      <4>1. /\ DOMAIN entries' = Live(t) /\ Live(t) \subseteq DOMAIN entries
            /\ \A h \in Live(t) : entries'[h] = entries[h]
        BY <3>2 DEF Pruned, Live
      <4> QED
        BY <4>1, ShrinkKeeps
    <3>3. CASE g \in Live(t) /\ entries' = With(t, g, Confirmed(t))
      <4>1. Confirmed(t).confirmed
        BY DEF Confirmed
      <4>2. /\ DOMAIN entries' = Live(t) \cup {g} /\ Live(t) \subseteq DOMAIN entries
            /\ \A h \in Live(t) : entries'[h] = IF h = g THEN Confirmed(t)
                                                ELSE entries[h]
        BY <3>3 DEF With, Live
      <4> QED
        BY <3>3, <4>1, <4>2, ShrinkKeeps
    <3> QED
      BY <3>1, <3>2, <3>3, ReservationKeeps
  <2> QED
    BY <1>1, <2>1
<1> QED
  BY <1>1, <1>2 DEF Next, SendHello, Tick, vars

\* The cache never holds more nonces than its limits allow, in all, of one
\* client or unconfirmed of one client, for any number of threads and hellos.
THEOREM CacheKeepsLimits == Spec => []CacheWithinLimits
<1>1. Init => TypeOK
  BY FreeThreadType DEF Init, TypeOK, FreeThread
<1>2. Init => CacheInv
  <2> SUFFICES ASSUME Init PROVE CacheInv
    OBVIOUS
  <2>1. DOMAIN entries = {}
    BY DEF Init
  <2>2. \A c : Of(DOMAIN entries, c) = {} /\ Unconfirmed(Of(DOMAIN entries, c)) = {}
    BY <2>1 DEF Of, Unconfirmed
  <2>3. IsFiniteSet({}) /\ Cardinality({}) = 0
    BY FS_EmptySet
  <2>4. CacheBounded
    <3>1. /\ Cardinality(DOMAIN entries) = 0
          /\ \A c : /\ Cardinality(Of(DOMAIN entries, c)) = 0
                   /\ Cardinality(Unconfirmed(Of(DOMAIN entries, c))) = 0
      BY <2>1, <2>2, <2>3, Zenon
    <3> QED
      BY <3>1, ReplayLimits DEF CacheBounded
  <2> QED
    BY <2>1, <2>3, <2>4 DEF CacheInv
<1>3. TypeOK /\ CacheInv => CacheWithinLimits
  BY DEF CacheInv, CacheWithinLimits
<1> QED
  BY <1>1, <1>2, <1>3, ReplayTypeStep, CacheInvStep, PTL DEF Spec

=============================================================================
