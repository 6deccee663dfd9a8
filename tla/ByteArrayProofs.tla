-------------------------- MODULE ByteArrayProofs --------------------------
(* Theorems about ByteArray: for every block size, number of blocks, width of *)
(* bytes and words, set of values and sequence of calls.  Up to the powers of  *)
(* two, what a value's bytes are does not matter, only how many there are; from *)
(* there on, that reading undoes writing.                                       *)
EXTENDS ByteArray, FiniteSetTheorems, NaturalsInduction, TLAPS

----------------------------------------------------------------------------
\* Loops.

\* A set of natural numbers has a least element.
LEMMA Least ==
  ASSUME NEW S, S \subseteq Nat, S # {}
  PROVE  \E x \in S : \A y \in S : x <= y
<1> DEFINE R == OpToRel(<, Nat)
<1>1. \A x, y \in Nat : <<y, x>> \in R <=> y < x BY DEF OpToRel
<1>2. IsWellFoundedOn(R, Nat) BY NatLessThanWellFounded
<1> HIDE DEF R
<1>3. PICK x \in S : \A y \in S : ~(<<y, x>> \in R) BY <1>2, WFMin
<1>4. ASSUME NEW y \in S PROVE x <= y
  <2>1. x \in Nat /\ y \in Nat /\ ~(<<y, x>> \in R) BY <1>3
  <2>2. ~(y < x) BY <2>1, <1>1
  <2> QED BY <2>1, <2>2
<1> QED BY <1>3, <1>4

\* Two loops that start alike and go on alike are the same.
LEMMA LoopsAgree ==
  ASSUME NEW n \in Nat, NEW f, NEW g, f[0] = g[0],
         \A i \in 1 .. n : f[i - 1] = g[i - 1] => f[i] = g[i]
  PROVE  \A i \in 0 .. n : f[i] = g[i]
<1> DEFINE D == {i \in 0 .. n : f[i] # g[i]}
<1> SUFFICES ASSUME D # {} PROVE FALSE OBVIOUS
<1>1. D \subseteq Nat OBVIOUS
<1>2. PICK i \in D : \A j \in D : i <= j BY <1>1, Least
<1>3. i # 0 /\ i \in 1 .. n /\ i - 1 \in 0 .. n /\ i - 1 < i OBVIOUS
<1>4. i - 1 \notin D BY <1>2, <1>3
<1> QED BY <1>3, <1>4

----------------------------------------------------------------------------
\* Arithmetic of blocks.

\* The block of position p in a chain of `count` blocks.
Cur(p, count) == IF p = count * BaseSize THEN Null ELSE p \div BaseSize + 1

LEMMA BaseOK == BaseSize \in Nat /\ BaseSize > 0 BY WidthsAssumption

LEMMA Divided ==
  ASSUME NEW a \in Nat
  PROVE  /\ a \div BaseSize \in Nat
         /\ a % BaseSize \in 0 .. BaseSize - 1
         /\ a = BaseSize * (a \div BaseSize) + (a % BaseSize)
BY BaseOK

LEMMA SplitSum ==
  ASSUME NEW a \in Nat, NEW i \in Nat
  PROVE  /\ (a + i) \div BaseSize = (a \div BaseSize) + (((a % BaseSize) + i) \div BaseSize)
         /\ (a + i) % BaseSize = ((a % BaseSize) + i) % BaseSize
BY BaseOK

LEMMA BlockBelow ==
  ASSUME NEW a \in Nat, NEW n \in Nat
  PROVE  (a < n * BaseSize) <=> (a \div BaseSize < n)
BY BaseOK

\* A place is its block and its offset in it.
LEMMA PlaceUnique ==
  ASSUME NEW a \in Nat, NEW b \in Nat,
         a \div BaseSize = b \div BaseSize, a % BaseSize = b % BaseSize
  PROVE  a = b
BY Divided

\* Rounding up to whole blocks makes enough room.
LEMMA RoundUp ==
  ASSUME NEW a \in Nat \ {0}
  PROVE  /\ (a + BaseSize - 1) \div BaseSize \in Nat \ {0}
         /\ a <= ((a + BaseSize - 1) \div BaseSize) * BaseSize
BY BaseOK

\* k blocks on from the block of p.
LEMMA AfterCur ==
  ASSUME NEW p \in Nat, NEW i \in Nat, NEW chain, Len(chain) \in Nat,
         p + i <= Len(chain) * BaseSize
  PROVE  After(Cur(p, Len(chain)), ((p % BaseSize) + i) \div BaseSize, chain)
           = Cur(p + i, Len(chain))
<1> DEFINE count == Len(chain)
           k == ((p % BaseSize) + i) \div BaseSize
<1>1. (p + i) \div BaseSize = (p \div BaseSize) + k BY SplitSum
<1>2. p \div BaseSize \in Nat /\ k \in Nat /\ p % BaseSize \in Nat BY Divided, BaseOK
<1>3. (p + i < count * BaseSize) <=> ((p + i) \div BaseSize < count) BY BlockBelow
<1>4. CASE p = count * BaseSize
  <2>1. i = 0 BY <1>4, BaseOK
  <2> QED BY <1>4, <2>1 DEF After, Cur
<1>5. CASE p # count * BaseSize
  <2>1. Cur(p, count) = p \div BaseSize + 1 /\ Cur(p, count) # Null
    BY <1>5, <1>2 DEF Cur, Null
  <2>2. CASE p + i = count * BaseSize
    BY <2>1, <2>2, <1>1, <1>2, <1>3 DEF After, Cur
  <2>3. CASE p + i < count * BaseSize
    BY <2>1, <2>3, <1>1, <1>2, <1>3 DEF After, Cur
  <2>4. count * BaseSize \in Nat BY BaseOK
  <2> QED BY <2>2, <2>3, <2>4
<1> QED BY <1>4, <1>5

LEMMA SeekCur ==
  ASSUME NEW p \in Nat, NEW chain, Len(chain) \in Nat, p <= Len(chain) * BaseSize
  PROVE  SeekTo(p, chain) = Cur(p, Len(chain))
BY BlockBelow, Divided, BaseOK DEF SeekTo, After, Cur, Null

LEMMA CurNull ==
  ASSUME NEW p \in Nat, NEW n, Cur(p, n) = Null
  PROVE  p = n * BaseSize
BY Divided DEF Cur, Null

LEMMA PlaceInside ==
  ASSUME NEW a \in Nat, NEW n \in Nat, a < n * BaseSize
  PROVE  a \div BaseSize + 1 \in 1 .. n /\ a % BaseSize \in 0 .. BaseSize - 1
BY BlockBelow, Divided

\* A place before the end has a block, which is its own.
LEMMA CurInside ==
  ASSUME NEW p \in Nat, NEW n \in Nat, p < n * BaseSize
  PROVE  Cur(p, n) = p \div BaseSize + 1 /\ Cur(p, n) \in 1 .. n
BY BlockBelow, Divided, BaseOK DEF Cur

----------------------------------------------------------------------------
\* A value has at least one byte.

\* A sequence of n elements, of any kind.
Long(s, n) == s = [i \in 1 .. n |-> s[i]] /\ Len(s) = n

LEMMA InOrderLong ==
  ASSUME NEW n \in Nat, NEW s, NEW endian, Long(s, n)
  PROVE  Long(InOrder(s, endian), n)
<1>1. Long(Reverse(s), n)
  <2>1. Reverse(s) = [i \in 1 .. n |-> s[(n - i) + 1]] BY DEF Long, Reverse
  <2> QED BY <2>1 DEF Long
<1> QED BY <1>1 DEF InOrder

LEMMA VarintLong ==
  ASSUME NEW u, NEW w \in Nat
  PROVE  \E n \in Nat \ {0} : Long(EncodeVarint(u, w), n)
<1> DEFINE again == {i \in 1 .. Groups(w) : u >= 2 ^ (Group * i)}
           more == Cardinality(again)
<1>1. ByteBits - 1 \in Nat \ {0} BY WidthsAssumption
<1>2. Groups(w) \in Nat
  <2>1. ASSUME NEW g \in Nat \ {0} PROVE (w + g - 1) \div g \in Nat OBVIOUS
  <2> QED BY <1>1, <2>1 DEF Groups, Group
<1>3. IsFiniteSet(1 .. Groups(w)) BY <1>2, FS_Interval
<1>4. more \in Nat BY <1>3, FS_Subset, FS_CardinalityType
<1> HIDE DEF more
<1>5. Long(EncodeVarint(u, w), more + 1) BY <1>4 DEF Long, EncodeVarint, more
<1> QED BY <1>4, <1>5

LEMMA JoinedLong ==
  ASSUME NEW m \in Nat, NEW n \in Nat, NEW s, NEW t, Long(s, m), Long(t, n)
  PROVE  Long(s \o t, m + n)
BY DEF Long

LEMMA EncodedLong ==
  ASSUME NEW k \in KindNames, NEW v \in Values[k], NEW endian
  PROVE  \E n \in Nat \ {0} : Long(Encoded(k, v, endian), n)
<1>0. Width32 \in Nat /\ Width64 \in Nat BY WidthsAssumption
<1>1. \A u : Long(InOrder(LowFirst(u, 2), endian), 2)
  <2> SUFFICES ASSUME NEW u PROVE Long(InOrder(LowFirst(u, 2), endian), 2) OBVIOUS
  <2>1. Long(LowFirst(u, 2), 2) BY DEF Long, LowFirst
  <2> QED BY <2>1, InOrderLong
<1>2. CASE k = "Fuint8"
  <2>1. Long(<< v >>, 1) BY DEF Long
  <2> QED BY <1>2, <2>1 DEF Encoded
<1>3. CASE k = "Fint16" BY <1>1, <1>3 DEF Encoded
<1>4. CASE k = "Uint32" BY <1>0, <1>4, VarintLong DEF Encoded
<1>5. CASE k = "Uint64" BY <1>0, <1>5, VarintLong DEF Encoded
<1>6. CASE k = "Int32" BY <1>0, <1>6, VarintLong DEF Encoded
<1>7. CASE k = "Int64" BY <1>0, <1>7, VarintLong DEF Encoded
<1>8. CASE k \in {"StringF16", "StringVint"}
  <2>1. Long(v, Len(v)) /\ Len(v) \in Nat
    <3>1. v \in Seq(Byte) BY <1>8, ValuesAssumption
    <3> QED BY <3>1 DEF Long
  <2>2. PICK head : (\E n \in Nat \ {0} : Long(head, n)) /\ Encoded(k, v, endian) = head \o v
    <3>1. CASE k = "StringF16"
      <4>1. Encoded(k, v, endian) = InOrder(LowFirst(Len(v) % 2 ^ Width16, 2), endian) \o v
        BY <3>1 DEF Encoded
      <4>2. Long(InOrder(LowFirst(Len(v) % 2 ^ Width16, 2), endian), 2) BY <1>1
      <4>3. 2 \in Nat \ {0} OBVIOUS
      <4> QED BY <4>1, <4>2, <4>3, Zenon
    <3>2. CASE k = "StringVint"
      <4>1. Encoded(k, v, endian) = EncodeVarint(Len(v), Width64) \o v BY <3>2 DEF Encoded
      <4> QED BY <1>0, <4>1, VarintLong
    <3> QED BY <1>8, <3>1, <3>2
  <2>3. PICK n \in Nat \ {0} : Long(head, n) BY <2>2
  <2>4. Long(Encoded(k, v, endian), n + Len(v)) BY <2>1, <2>2, <2>3, JoinedLong
  <2> QED BY <2>1, <2>4
<1> QED BY <1>2, <1>3, <1>4, <1>5, <1>6, <1>7, <1>8 DEF KindNames

----------------------------------------------------------------------------
\* The inductive invariant.

\* The chain is a sequence, and 0 <= m_position <= m_size <= m_capacity.
Bounds ==
  /\ Len(nodes) \in Nat \ {0} /\ Long(nodes, Len(nodes))
  /\ m_size \in 0 .. m_capacity
  /\ m_position \in 0 .. m_size
  /\ kinds \subseteq KindNames

Inv == Bounds /\ CurAgrees /\ CrashesOnlyAtEnd

\* The array has room for the bytes from the position to `end`, m_cur is `cur`,
\* and the blocks it had are as they were.
Ready(cur, chain, end) ==
  /\ Len(chain) \in Nat \ {0} /\ Long(chain, Len(chain))
  /\ Len(nodes) <= Len(chain)
  /\ \A n \in 1 .. Len(nodes) : chain[n] = nodes[n]
  /\ m_position \in Nat /\ end \in Nat /\ m_position <= end
  /\ end <= Len(chain) * BaseSize
  /\ cur = Cur(m_position, Len(chain))

\* addCapacity makes the room it is asked for and finds the block.
LEMMA GrownReady ==
  ASSUME Inv, NEW size \in Nat, NEW b
  PROVE  Ready(AddCapacity(size, b).cur, AddCapacity(size, b).chain, m_position + size)
<1> DEFINE L == Len(nodes)
           lacking == size - (m_capacity - m_position)
           count == IF lacking <= 0 THEN 0 ELSE (lacking + BaseSize - 1) \div BaseSize
           block == [j \in 0 .. BaseSize - 1 |-> b]
           chain == nodes \o [i \in 1 .. count |-> block]
           cur == IF count > 0 /\ m_position = m_capacity THEN L + 1 ELSE m_cur
<1>1. L \in Nat \ {0} /\ m_capacity = L * BaseSize /\ m_capacity \in Nat /\ m_position \in Nat
      /\ m_size \in Nat /\ m_position <= m_capacity
  BY BaseOK DEF Inv, Bounds, m_capacity
<1>2. lacking \in Int BY <1>1
<1>3. count \in Nat /\ (lacking > 0 => count > 0 /\ lacking <= count * BaseSize)
      /\ (lacking <= 0 => count = 0)
  BY <1>2, RoundUp
<1> HIDE DEF lacking, count
<1>4. /\ Long(chain, L + count)
      /\ \A n \in 1 .. L : chain[n] = nodes[n]
  BY <1>1, <1>3 DEF Inv, Bounds, Long
<1>5. (L + count) * BaseSize = L * BaseSize + count * BaseSize /\ count * BaseSize \in Nat
      /\ (count > 0 => count * BaseSize > 0)
  BY <1>1, <1>3, BaseOK
<1>6. m_position + size <= (L + count) * BaseSize BY <1>1, <1>2, <1>3, <1>5 DEF lacking
<1>7. cur = Cur(m_position, L + count)
  <2>1. m_cur = Cur(m_position, L) BY <1>1 DEF Inv, CurAgrees, Cur
  <2>2. CASE count > 0 /\ m_position = m_capacity
    <3>1. m_position \div BaseSize = L BY <1>1, <2>2, BlockBelow, Divided, BaseOK
    <3> QED BY <3>1, <2>2, <1>1, <1>5 DEF Cur
  <2>3. CASE count = 0 BY <2>1, <2>3, <1>1
  <2>4. CASE count > 0 /\ m_position # m_capacity
    BY <2>1, <2>4, <1>1, <1>5 DEF Cur
  <2> QED BY <2>2, <2>3, <2>4, <1>3
<1>8. AddCapacity(size, b) = [chain |-> chain, cur |-> cur]
  BY DEF AddCapacity, count, lacking
<1>9. Len(chain) = L + count BY <1>4 DEF Long
<1> QED BY <1>1, <1>3, <1>4, <1>6, <1>7, <1>8, <1>9 DEF Ready

----------------------------------------------------------------------------
\* Walking along the chain.

\* The i-th byte from the position on is in the block of position + i.
LEMMA ReadyBlock ==
  ASSUME NEW cur, NEW chain, NEW end, Ready(cur, chain, end),
         NEW i \in Nat, m_position + i <= Len(chain) * BaseSize
  PROVE  /\ BlockOf(cur, i, chain) = Cur(m_position + i, Len(chain))
         /\ Offset(i) % BaseSize = (m_position + i) % BaseSize
<1>1. m_position \in Nat /\ Len(chain) \in Nat /\ cur = Cur(m_position, Len(chain))
  BY DEF Ready
<1>2. BlockOf(cur, i, chain) = Cur(m_position + i, Len(chain))
  BY <1>1, AfterCur DEF BlockOf, Offset
<1>3. Offset(i) % BaseSize = (m_position + i) % BaseSize BY <1>1, SplitSum DEF Offset
<1> QED BY <1>2, <1>3

\* The loop that writes at least one byte does not run off the chain.
LEMMA ReadyDereferences ==
  ASSUME NEW cur, NEW chain, NEW size \in Nat \ {0}, Ready(cur, chain, m_position + size)
  PROVE  Dereferences(cur, size, chain)
<1> SUFFICES ASSUME NEW i \in {0} \cup 0 .. size - 1
             PROVE  BlockOf(cur, i, chain) # Null
  BY DEF Dereferences
<1>1. m_position \in Nat /\ Len(chain) \in Nat /\ m_position + size <= Len(chain) * BaseSize
  BY DEF Ready
<1>2. i \in Nat /\ m_position + i < Len(chain) * BaseSize BY <1>1, BaseOK
<1>3. BlockOf(cur, i, chain) = Cur(m_position + i, Len(chain)) BY <1>1, <1>2, ReadyBlock, BaseOK
<1> QED BY <1>1, <1>2, <1>3, CurInside DEF Null

\* A byte that is not one of those stored is as before.
LEMMA StoredElsewhere ==
  ASSUME NEW cur, NEW chain, NEW s, NEW size \in Nat, Long(s, size),
         NEW end, Ready(cur, chain, end), m_position + size <= end,
         NEW a \in Nat, a < Len(chain) * BaseSize,
         a < m_position \/ a >= m_position + size
  PROVE  Stored(cur, s, chain)[a \div BaseSize + 1][a % BaseSize]
           = chain[a \div BaseSize + 1][a % BaseSize]
<1> DEFINE n == a \div BaseSize + 1
           j == a % BaseSize
           Here(i) == BlockOf(cur, i - 1, chain) = n /\ Offset(i - 1) % BaseSize = j
<1>1. m_position \in Nat /\ Len(chain) \in Nat /\ end \in Nat /\ end <= Len(chain) * BaseSize
  BY DEF Ready
<1>2. n \in 1 .. Len(chain) /\ j \in 0 .. BaseSize - 1 BY <1>1, PlaceInside
<1>3. ASSUME NEW i \in 1 .. Len(s), Here(i) PROVE FALSE
  <2> DEFINE t == i - 1
             at == m_position + t
  <2>1. i \in 1 .. size /\ t \in Nat BY DEF Long
  <2>2. at \in Nat /\ at < Len(chain) * BaseSize BY <1>1, <2>1, BaseOK
  <2>3. BlockOf(cur, t, chain) = n /\ Offset(t) % BaseSize = j BY <1>3
  <2>4. t < size BY <2>1
  <2>5. at \div BaseSize \in Nat /\ a \div BaseSize \in Nat BY <2>2, Divided
  <2> HIDE DEF t
  <2>6. BlockOf(cur, t, chain) = Cur(at, Len(chain)) /\ Offset(t) % BaseSize = at % BaseSize
    BY <1>1, <2>1, <2>2, ReadyBlock, BaseOK
  <2> HIDE DEF at
  <2>7. Cur(at, Len(chain)) = at \div BaseSize + 1 BY <1>1, <2>2, CurInside
  <2>8. at = a BY <2>2, <2>3, <2>5, <2>6, <2>7, PlaceUnique
  <2> QED BY <1>1, <2>1, <2>4, <2>8 DEF at
<1>4. Stored(cur, s, chain)[n][j] = chain[n][j]
  BY <1>2, <1>3 DEF Stored
<1> QED BY <1>4

LEMMA StoredLong ==
  ASSUME NEW cur, NEW s, NEW chain, Len(chain) \in Nat
  PROVE  Long(Stored(cur, s, chain), Len(chain))
BY DEF Stored, Long

----------------------------------------------------------------------------
\* Every step keeps the invariant.

LEMMA ReadyLess ==
  ASSUME NEW cur, NEW chain, NEW end, NEW to, Ready(cur, chain, end),
         to \in m_position .. end
  PROVE  Ready(cur, chain, to)
<1>1. Len(chain) * BaseSize \in Nat BY BaseOK DEF Ready
<1>2. to \in Nat /\ m_position <= to /\ to <= Len(chain) * BaseSize BY <1>1 DEF Ready
<1> QED BY <1>2 DEF Ready

\* A step that stores the `size` bytes s from the position on, and goes behind them.
Fills(cur, chain, s, size) ==
  /\ Long(s, size) /\ Ready(cur, chain, m_position + size)
  /\ nodes' = Stored(cur, s, chain)
  /\ m_cur' = Cur(m_position + size, Len(chain))
  /\ m_position' = m_position + size
  /\ m_size' = Larger(m_size, m_position + size)
  /\ UNCHANGED <<kinds, fault>>

LEMMA FillsInv ==
  ASSUME Inv, fault = "none", NEW size \in Nat, NEW cur, NEW chain, NEW s,
         Fills(cur, chain, s, size)
  PROVE  Inv'
<1> DEFINE end == m_position + size
<1>1. Len(chain) \in Nat \ {0} /\ end \in Nat /\ end <= Len(chain) * BaseSize
      /\ Len(nodes) <= Len(chain) /\ Len(nodes) \in Nat
  BY DEF Ready, Fills, Inv, Bounds
<1>2. Long(nodes', Len(chain)) BY <1>1, StoredLong DEF Fills
<1>3. Len(nodes') = Len(chain) BY <1>2 DEF Long
<1>4. m_capacity' = Len(chain) * BaseSize BY <1>3 DEF m_capacity
<1>5. m_size <= Len(chain) * BaseSize /\ m_size \in Nat
  <2>1. Len(nodes) * BaseSize <= Len(chain) * BaseSize BY <1>1, BaseOK
  <2>2. Len(chain) * BaseSize \in Nat /\ Len(nodes) * BaseSize \in Nat BY <1>1, BaseOK
  <2> QED BY <2>1, <2>2 DEF Inv, Bounds, m_capacity
<1>6. Bounds'
  <2>1. Len(chain) * BaseSize \in Nat BY <1>1, BaseOK
  <2>2. m_size' \in 0 .. Len(chain) * BaseSize /\ m_position' \in 0 .. m_size'
    BY <1>1, <1>5, <2>1 DEF Larger, Fills
  <2> QED BY <1>1, <1>2, <1>3, <1>4, <2>2 DEF Bounds, Inv, Fills
<1>7. CurAgrees' BY <1>4 DEF CurAgrees, Cur, Fills
<1>8. CrashesOnlyAtEnd' BY DEF CrashesOnlyAtEnd, Fills
<1> QED BY <1>6, <1>7, <1>8 DEF Inv

\* What is remembered of a write.
ItemOf(k, v, size) == [at |-> m_position, len |-> size, kind |-> k, endian |-> m_endian, value |-> v]

\* A write puts all its bytes, and there is one at least.
LEMMA WriteFills ==
  ASSUME Inv, NEW k \in kinds, NEW v \in Values[k], NEW b, Write(k, v, b)
  PROVE  \E size \in Nat \ {0} : \E cur, chain, s :
           /\ Fills(cur, chain, s, size) /\ s = Encoded(k, v, m_endian)
           /\ items' \subseteq Intact(m_position, m_position + size) \cup {ItemOf(k, v, size)}
<1> DEFINE s == Encoded(k, v, m_endian)
           grown == AddCapacity(Len(s), b)
<1>1. PICK size \in Nat \ {0} : Long(s, size)
  BY EncodedLong DEF Inv, Bounds
<1>2. Len(s) = size BY <1>1 DEF Long
<1>3. Ready(grown.cur, grown.chain, m_position + size) BY <1>2, GrownReady
<1>4. Dereferences(grown.cur, Len(s), grown.chain) BY <1>2, <1>3, ReadyDereferences
<1>5. BlockOf(grown.cur, size, grown.chain) = Cur(m_position + size, Len(grown.chain))
  <2>1. m_position + size <= Len(grown.chain) * BaseSize BY <1>3 DEF Ready
  <2> QED BY <1>3, <2>1, ReadyBlock
<1>6. /\ nodes' = Stored(grown.cur, s, grown.chain)
      /\ m_cur' = BlockOf(grown.cur, size, grown.chain)
      /\ m_position' = m_position + size
      /\ m_size' = Larger(m_size, m_position + size)
      /\ UNCHANGED <<kinds, fault>>
  BY <1>2, <1>4 DEF Write
<1>7. Fills(grown.cur, grown.chain, s, size) BY <1>1, <1>3, <1>5, <1>6 DEF Fills
<1>8. items' \subseteq Intact(m_position, m_position + size) \cup {ItemOf(k, v, size)}
  BY <1>2, <1>4 DEF Write, ItemOf
<1> QED BY <1>7, <1>8

\* The kernel fills n of the bytes it was given room for.
LEMMA ReceiveFills ==
  ASSUME Inv, NEW size \in Chunks, NEW n \in 0 .. size, NEW b, Receive(size, n, b)
  PROVE  /\ \E cur, chain, s : Fills(cur, chain, s, n)
         /\ items' = Intact(m_position, m_position + n)
<1> DEFINE s == [i \in 1 .. n |-> b]
           grown == AddCapacity(size, b)
<1>1. size \in Nat \ {0} /\ n \in Nat /\ n <= size BY WidthsAssumption
<1>2. Long(s, n) BY <1>1 DEF Long
<1>3. Ready(grown.cur, grown.chain, m_position + size) BY <1>1, GrownReady
<1>4. Dereferences(grown.cur, size, grown.chain) BY <1>1, <1>3, ReadyDereferences
<1>5. Ready(grown.cur, grown.chain, m_position + n)
  <2>1. m_position + n \in m_position .. m_position + size BY <1>1, <1>3 DEF Ready
  <2> QED BY <1>3, <2>1, ReadyLess
<1>6. /\ nodes' = Stored(grown.cur, s, grown.chain)
      /\ m_cur' = IF n > 0 THEN SeekTo(m_position + n, grown.chain) ELSE grown.cur
      /\ m_position' = m_position + n
      /\ m_size' = Larger(m_size, m_position + n)
      /\ UNCHANGED <<kinds, fault>>
  BY <1>4 DEF Receive
<1>7. m_cur' = Cur(m_position + n, Len(grown.chain))
  <2>1. CASE n = 0 BY <2>1, <1>5, <1>6 DEF Ready
  <2>2. CASE n > 0
    <3>1. SeekTo(m_position + n, grown.chain) = Cur(m_position + n, Len(grown.chain))
      BY <1>5, SeekCur DEF Ready
    <3> QED BY <2>2, <3>1, <1>6
  <2> QED BY <2>1, <2>2, <1>1
<1>8. Fills(grown.cur, grown.chain, s, n) BY <1>2, <1>5, <1>6, <1>7 DEF Fills
<1>9. items' = Intact(m_position, m_position + n) BY <1>4 DEF Receive
<1> QED BY <1>8, <1>9

\* An array at rest is ready to read up to m_size.
LEMMA InvReady ==
  ASSUME Inv
  PROVE  /\ Ready(m_cur, nodes, m_size)
         /\ getReadSize \in Nat /\ m_position \in Nat /\ m_size = m_position + getReadSize
         /\ m_capacity = Len(nodes) * BaseSize /\ m_capacity \in Nat /\ m_size <= m_capacity
<1>1. m_capacity = Len(nodes) * BaseSize /\ m_capacity \in Nat
  BY BaseOK DEF Inv, Bounds, m_capacity
<1>2. m_position \in Nat /\ m_size \in Nat /\ m_position <= m_size /\ m_size <= m_capacity
  BY <1>1 DEF Inv, Bounds
<1>3. m_cur = Cur(m_position, Len(nodes)) BY <1>1 DEF Inv, CurAgrees, Cur
<1> QED BY <1>1, <1>2, <1>3 DEF Ready, Inv, Bounds, getReadSize

\* Moving on among the bytes that are there.
LEMMA MoveInv ==
  ASSUME Inv, NEW n \in 0 .. getReadSize, m_position' = m_position + n,
         m_cur' = Cur(m_position + n, Len(nodes)),
         UNCHANGED <<nodes, m_size, kinds>>,
         fault' = "none" \/ (fault' = "read" /\ m_position + n = m_capacity)
  PROVE  Inv'
<1>1. m_capacity' = m_capacity BY DEF m_capacity
<1>2. n \in Nat /\ m_position + n \in 0 .. m_size BY InvReady
<1>3. Bounds' BY <1>1, <1>2 DEF Inv, Bounds
<1>4. CurAgrees' BY <1>1, InvReady DEF CurAgrees, Cur
<1>5. CrashesOnlyAtEnd' BY <1>1, InvReady DEF CrashesOnlyAtEnd, Cur
<1> QED BY <1>3, <1>4, <1>5 DEF Inv

LEMMA MovedBlock ==
  ASSUME Inv, NEW n \in 0 .. getReadSize
  PROVE  /\ BlockOf(m_cur, n, nodes) = Cur(m_position + n, Len(nodes))
         /\ SeekTo(m_position + n, nodes) = Cur(m_position + n, Len(nodes))
<1>1. n \in Nat /\ m_position + n \in Nat /\ m_position + n <= Len(nodes) * BaseSize
  BY InvReady
<1>2. BlockOf(m_cur, n, nodes) = Cur(m_position + n, Len(nodes))
  BY <1>1, InvReady, ReadyBlock
<1>3. SeekTo(m_position + n, nodes) = Cur(m_position + n, Len(nodes))
  BY <1>1, SeekCur DEF Inv, Bounds
<1> QED BY <1>2, <1>3

\* A reader takes no more than there is.
LEMMA PartUses ==
  ASSUME Inv, NEW k \in KindNames
  PROVE  Part(k).used \in 0 .. getReadSize
<1>1. getReadSize \in Nat BY InvReady
<1>2. \A n \in Nat : FixedPart(n).used \in 0 .. getReadSize BY <1>1 DEF FixedPart
<1>3. \A w : VarintPart(w).used \in 0 .. getReadSize
  <2> SUFFICES ASSUME NEW w PROVE VarintPart(w).used \in 0 .. getReadSize OBVIOUS
  <2> DEFINE Flag(n) == Ahead[n] >= 2 ^ Group
             Ends(n) == (~Flag(n) \/ n = Groups(w)) /\ \A m \in 1 .. n - 1 : Flag(m)
             ends == {n \in 1 .. getReadSize : n <= Groups(w) /\ Ends(n)}
  <2>1. VarintPart(w).used = IF ends = {} THEN getReadSize ELSE CHOOSE n \in ends : TRUE
    BY DEF VarintPart
  <2>2. ends \subseteq 1 .. getReadSize OBVIOUS
  <2> HIDE DEF ends
  <2>3. ends # {} => (CHOOSE n \in ends : TRUE) \in ends BY Zenon
  <2>4. CASE ends = {} BY <1>1, <2>1, <2>4
  <2>5. CASE ends # {}
    <3>1. VarintPart(w).used \in ends BY <2>1, <2>3, <2>5, Zenon
    <3>2. \A n \in 1 .. getReadSize : n \in 0 .. getReadSize BY <1>1
    <3> QED BY <2>2, <3>1, <3>2, Zenon
  <2> QED BY <2>4, <2>5
<1>4. 1 \in Nat /\ 2 \in Nat OBVIOUS
<1>5. CASE k = "Fuint8" BY <1>2, <1>4, <1>5 DEF Part
<1>6. CASE k \in {"Fint16", "StringF16"} BY <1>2, <1>4, <1>6 DEF Part
<1>7. CASE k \in {"Uint32", "Int32"} BY <1>3, <1>7 DEF Part
<1>8. CASE k \in {"Uint64", "Int64", "StringVint"} BY <1>3, <1>8 DEF Part
<1> QED BY <1>5, <1>6, <1>7, <1>8 DEF KindNames

LEMMA ReadingUses ==
  ASSUME Inv, NEW k \in KindNames
  PROVE  /\ Reading(k).used \in 0 .. getReadSize
         /\ Reading(k).crash => m_position + Reading(k).used = m_capacity
<1> DEFINE part == Part(k)
           head == Decoded(k, SubSeq(Ahead, 1, part.used))
           string == k \in {"StringF16", "StringVint"}
           body == IF string /\ part.ok THEN head ELSE 0
           throws == ~part.ok \/ body \notin 0 .. getReadSize - part.used
           used == IF throws THEN part.used ELSE part.used + body
           crash == /\ string /\ ~throws
                    /\ BlockOf(m_cur, part.used, nodes) = Null
<1>1. Reading(k).used = used /\ Reading(k).crash = crash BY DEF Reading
<1>2. part.used \in 0 .. getReadSize /\ getReadSize \in Nat BY PartUses, InvReady
<1> HIDE DEF part, head
<1>3. used \in 0 .. getReadSize /\ part.used <= used BY <1>2
<1>4. ASSUME crash PROVE m_position + used = m_capacity
  <2>1. Cur(m_position + part.used, Len(nodes)) = Null BY <1>2, <1>4, MovedBlock
  <2>2. m_position + part.used \in Nat BY <1>2, InvReady
  <2>3. m_position + part.used = m_capacity
    BY <2>1, <2>2, InvReady, CurNull
  <2>4. m_position + used <= m_capacity BY <1>2, <1>3, InvReady
  <2> HIDE DEF used
  <2> QED BY <1>2, <1>3, <2>3, <2>4, InvReady
<1> QED BY <1>1, <1>3, <1>4

\* No step of a client, of a stream or of the kernel separates m_cur from the
\* position.
LEMMA StepInv == Inv /\ [Next]_vars => Inv'
<1> SUFFICES ASSUME Inv, [Next]_vars PROVE Inv' OBVIOUS
<1>1. CASE UNCHANGED vars
  BY <1>1 DEF vars, arrayVars, Inv, Bounds, CurAgrees, CrashesOnlyAtEnd, m_capacity, Long
<1> SUFFICES ASSUME Next, fault = "none" PROVE Inv' BY <1>1 DEF Next
<1>2. ASSUME NEW k \in kinds, NEW b \in Fresh, NEW v \in Values[k], Write(k, v, b) PROVE Inv'
  <2>1. PICK size \in Nat \ {0} : \E cur, chain, s : Fills(cur, chain, s, size)
    BY <1>2, WriteFills
  <2>2. size \in Nat OBVIOUS
  <2> QED BY <2>1, <2>2, FillsInv
<1>3. ASSUME NEW k \in kinds, Read(k) PROVE Inv'
  <2>1. k \in KindNames BY DEF Inv, Bounds
  <2>2. m_cur' = Cur(m_position + Reading(k).used, Len(nodes))
    BY <1>3, <2>1, ReadingUses, MovedBlock DEF Read
  <2>3. fault' = "none" \/ (fault' = "read" /\ m_position + Reading(k).used = m_capacity)
    BY <1>3, <2>1, ReadingUses DEF Read
  <2>4. m_position' = m_position + Reading(k).used /\ UNCHANGED <<nodes, m_size, kinds>>
    BY <1>3 DEF Read
  <2> QED BY <2>1, <2>2, <2>3, <2>4, ReadingUses, MoveInv
<1>4. ASSUME NEW size \in Chunks, NEW b \in Fresh, NEW n \in 0 .. size, Receive(size, n, b)
      PROVE  Inv'
  <2>1. n \in Nat BY WidthsAssumption
  <2> QED BY <1>4, <2>1, ReceiveFills, FillsInv
<1>5. ASSUME NEW n, Send(n) PROVE Inv'
  <2>1. n \in 0 .. getReadSize BY <1>5, InvReady DEF Send
  <2>2. m_cur' = Cur(m_position + n, Len(nodes)) BY <1>5, <2>1, MovedBlock DEF Send
  <2>3. m_position' = m_position + n /\ UNCHANGED <<nodes, m_size, kinds, fault>>
    BY <1>5 DEF Send
  <2> QED BY <2>1, <2>2, <2>3, MoveInv
<1>6. ASSUME NEW v \in 0 .. MaxNodes * BaseSize, SetPosition(v) PROVE Inv'
  <2>0. v \in Nat BY BaseOK, WidthsAssumption
  <2>1. m_capacity' = m_capacity BY <1>6 DEF SetPosition, m_capacity
  <2>2. v <= m_capacity BY <1>6 DEF SetPosition
  <2>3. m_cur' = Cur(v, Len(nodes))
    BY <1>6, <2>0, <2>2, InvReady, SeekCur DEF SetPosition, Inv, Bounds
  <2>4. m_position' = v /\ m_size' = Larger(m_size, v) /\ UNCHANGED <<nodes, kinds, fault>>
    BY <1>6 DEF SetPosition
  <2>5. Bounds' BY <2>0, <2>1, <2>2, <2>4, InvReady DEF Inv, Bounds, Larger
  <2>6. CurAgrees' BY <2>1, <2>3, <2>4, InvReady DEF CurAgrees, Cur
  <2> QED BY <2>4, <2>5, <2>6 DEF Inv, CrashesOnlyAtEnd
<1>7. ASSUME NEW val, SetIsLittleEndian(val) PROVE Inv'
  BY <1>7 DEF SetIsLittleEndian, arrayVars, Inv, Bounds, CurAgrees, CrashesOnlyAtEnd,
              m_capacity, Long
<1>8. CASE Clear
  <2>1. Len(nodes') = 1 /\ Long(nodes', 1) BY <1>8 DEF Clear, Long
  <2>2. m_capacity' = BaseSize BY <2>1, BaseOK DEF m_capacity
  <2>3. m_cur' = 1 /\ m_position' = 0 /\ m_size' = 0 /\ UNCHANGED <<kinds, fault>>
    BY <1>8 DEF Clear
  <2>4. 0 \div BaseSize = 0 BY BaseOK
  <2>5. Bounds' BY <2>1, <2>2, <2>3, BaseOK DEF Inv, Bounds
  <2>6. CurAgrees' BY <2>2, <2>3, <2>4, BaseOK DEF CurAgrees
  <2> QED BY <2>3, <2>5, <2>6 DEF Inv, CrashesOnlyAtEnd
<1> QED BY <1>2, <1>3, <1>4, <1>5, <1>6, <1>7, <1>8 DEF Next

LEMMA InitInv == Init => Inv
<1> SUFFICES ASSUME Init PROVE Inv OBVIOUS
<1>1. Len(nodes) = 1 /\ Long(nodes, 1) BY DEF Init, Long
<1>2. m_capacity = BaseSize BY <1>1, BaseOK DEF m_capacity
<1>3. 0 \div BaseSize = 0 BY BaseOK
<1>4. kinds \subseteq KindNames BY WidthsAssumption DEF Init
<1> QED BY <1>1, <1>2, <1>3, <1>4, BaseOK
        DEF Init, Inv, Bounds, CurAgrees, CrashesOnlyAtEnd

LEMMA InvAlways == Spec => []Inv
BY InitInv, StepInv, PTL DEF Spec

----------------------------------------------------------------------------
\* The theorems.

\* After any sequence of writes, reads, seeks, buffer fills and clears, m_cur is
\* the block of m_position, and null exactly at the capacity: what every
\* operation of bytearray.cc takes for granted.
THEOREM ByteArrayCurAgrees == Spec => []CurAgrees
<1>1. Inv => CurAgrees BY DEF Inv
<1> QED BY <1>1, InvAlways, PTL

\* addCapacity always makes enough room: no write and no buffer fill dereferences
\* a null block, and a read does only for an empty string at the capacity.
THEOREM ByteArrayCrashesOnlyAtEnd == Spec => []CrashesOnlyAtEnd
<1>1. Inv => CrashesOnlyAtEnd BY DEF Inv
<1> QED BY <1>1, InvAlways, PTL

\* The byte at place a of the array.
At(a) == nodes[a \div BaseSize + 1][a % BaseSize]

LEMMA ContentIs ==
  ASSUME Inv
  PROVE  /\ Content = [i \in 1 .. m_size |-> At(i - 1)] /\ Len(Content) = m_size
         /\ \A p, n \in Nat : p + n <= m_size =>
              SubSeq(Content, p + 1, p + n) = [i \in 1 .. n |-> At(p + i - 1)]
<1>1. m_size \in Nat BY InvReady
<1>2. Content = [i \in 1 .. m_size |-> At(i - 1)] BY DEF Content, At
<1>3. Len(Content) = m_size BY <1>1, <1>2
<1>4. ASSUME NEW p \in Nat, NEW n \in Nat, p + n <= m_size
      PROVE  SubSeq(Content, p + 1, p + n) = [i \in 1 .. n |-> At(p + i - 1)]
  <2> DEFINE s == SubSeq(Content, p + 1, p + n)
  <2>1. s = [i \in 1 .. n |-> Content[p + i]] BY <1>1, <1>2, <1>4
  <2>2. \A i \in 1 .. n : Content[p + i] = At(p + i - 1) BY <1>1, <1>2, <1>4
  <2> QED BY <2>1, <2>2
<1> QED BY <1>2, <1>3, <1>4

\* The block and the offset of place a, as the loops find them from place p.
LEMMA PlaceFrom ==
  ASSUME Inv, NEW p \in Nat, NEW t \in Nat, p + t < m_size
  PROVE  nodes[After(Cur(p, Len(nodes)), ((p % BaseSize) + t) \div BaseSize, nodes)]
              [((p % BaseSize) + t) % BaseSize] = At(p + t)
<1>1. Len(nodes) \in Nat /\ p + t < Len(nodes) * BaseSize /\ Len(nodes) * BaseSize \in Nat
  BY InvReady DEF Inv, Bounds
<1>2. After(Cur(p, Len(nodes)), ((p % BaseSize) + t) \div BaseSize, nodes)
        = Cur(p + t, Len(nodes))
  BY <1>1, AfterCur
<1>3. Cur(p + t, Len(nodes)) = (p + t) \div BaseSize + 1 BY <1>1, CurInside
<1>4. ((p % BaseSize) + t) % BaseSize = (p + t) % BaseSize BY SplitSum
<1> QED BY <1>2, <1>3, <1>4 DEF At

LEMMA InvBuffers == Inv => BuffersAgree
<1> SUFFICES ASSUME Inv PROVE BuffersAgree OBVIOUS
<1> DEFINE g == getReadSize
<1>0. g \in Nat /\ m_position \in Nat /\ m_size = m_position + g BY InvReady
<1>1. m_cur = Cur(m_position, Len(nodes)) BY InvReady DEF Ready
<1>2. toString = SubSeq(Content, m_position + 1, m_size)
  <2>1. SubSeq(Content, m_position + 1, m_size) = [i \in 1 .. g |-> At(m_position + i - 1)]
    BY <1>0, ContentIs
  <2>2. toString = [i \in 1 .. g |-> nodes[BlockOf(m_cur, i - 1, nodes)]
                                          [Offset(i - 1) % BaseSize]]
    BY DEF toString, Bytes
  <2>3. ASSUME NEW i \in 1 .. g
        PROVE  nodes[BlockOf(m_cur, i - 1, nodes)][Offset(i - 1) % BaseSize]
                 = At(m_position + i - 1)
    <3> DEFINE t == i - 1
    <3>1. t \in Nat /\ m_position + t < m_size /\ m_position + t = m_position + i - 1
      BY <1>0
    <3> HIDE DEF t
    <3>2. nodes[BlockOf(m_cur, t, nodes)][Offset(t) % BaseSize] = At(m_position + t)
      BY <1>0, <1>1, <3>1, PlaceFrom DEF BlockOf, Offset
    <3> QED BY <3>1, <3>2 DEF t
  <2> QED BY <2>1, <2>2, <2>3
<1>3. ASSUME NEW p \in 0 .. m_position
      PROVE  getReadBuffersAt(m_size, p) = SubSeq(Content, p + 1, p + g)
  <2>0. p \in Nat /\ p + g <= m_size /\ (IF m_size > g THEN g ELSE m_size) = g BY <1>0
  <2>1. SubSeq(Content, p + 1, p + g) = [i \in 1 .. g |-> At(p + i - 1)]
    BY <1>0, <2>0, ContentIs
  <2>2. After(1, p \div BaseSize, nodes) = Cur(p, Len(nodes))
    BY <2>0, <1>0, InvReady, SeekCur DEF SeekTo, Inv, Bounds
  <2>3. getReadBuffersAt(m_size, p)
          = [i \in 1 .. g |->
               nodes[After(Cur(p, Len(nodes)),
                           ((p % BaseSize) + i - 1) \div BaseSize, nodes)]
                    [((p % BaseSize) + i - 1) % BaseSize]]
    BY <2>0, <2>2 DEF getReadBuffersAt
  <2>4. ASSUME NEW i \in 1 .. g
        PROVE  nodes[After(Cur(p, Len(nodes)),
                           ((p % BaseSize) + i - 1) \div BaseSize, nodes)]
                    [((p % BaseSize) + i - 1) % BaseSize] = At(p + i - 1)
    <3>1. PICK t \in Nat : t = i - 1 BY <1>0
    <3>2. p + t < m_size BY <1>0, <2>0, <3>1
    <3>3. p % BaseSize \in Nat BY <2>0, Divided, BaseOK
    <3>4. (p % BaseSize) + i - 1 = (p % BaseSize) + t /\ p + i - 1 = p + t
      BY <3>1, <3>3, <2>0
    <3> QED BY <2>0, <3>2, <3>4, PlaceFrom
  <2> QED BY <2>1, <2>3, <2>4
<1> QED BY <1>2, <1>3 DEF BuffersAgree

\* toString and getReadBuffers, whose loops set out from m_cur or from the root,
\* show the bytes of the array from their position on, in order and no others.
THEOREM ByteArrayBuffersAgree == Spec => []BuffersAgree
BY InvAlways, InvBuffers, PTL

----------------------------------------------------------------------------
\* The chain of blocks implements one sequence of bytes.

\* Bytes stored from the position on change no other.
LEMMA FillsElsewhere ==
  ASSUME Inv, NEW size \in Nat, NEW cur, NEW chain, NEW s, Fills(cur, chain, s, size),
         NEW a \in Nat, a < m_size, a < m_position \/ a >= m_position + size
  PROVE  At(a)' = At(a)
<1>1. Ready(cur, chain, m_position + size) /\ Long(s, size) /\ nodes' = Stored(cur, s, chain)
  BY DEF Fills
<1>2. Len(nodes) \in Nat /\ a < Len(nodes) * BaseSize BY InvReady DEF Inv, Bounds
<1>3. a \div BaseSize + 1 \in 1 .. Len(nodes) BY <1>2, PlaceInside
<1>4. Len(chain) \in Nat /\ Len(nodes) <= Len(chain)
      /\ chain[a \div BaseSize + 1] = nodes[a \div BaseSize + 1]
      /\ m_position + size \in Nat
  BY <1>1, <1>3 DEF Ready
<1>5. a < Len(chain) * BaseSize
  <2>1. Len(nodes) * BaseSize <= Len(chain) * BaseSize /\ Len(nodes) * BaseSize \in Nat
        /\ Len(chain) * BaseSize \in Nat
    BY <1>2, <1>4, BaseOK
  <2> QED BY <1>2, <2>1
<1>6. nodes'[a \div BaseSize + 1][a % BaseSize] = chain[a \div BaseSize + 1][a % BaseSize]
  BY <1>1, <1>4, <1>5, StoredElsewhere
<1> QED BY <1>4, <1>6 DEF At

\* Storing bytes is a Put, and nothing when there are none.
LEMMA FillsPuts ==
  ASSUME Inv, Inv', NEW size \in Nat, NEW cur, NEW chain, NEW s, Fills(cur, chain, s, size)
  PROVE  [Flat!FlatNext]_(Flat!fvars)
<1>0. /\ m_position \in Nat /\ m_size \in Nat /\ m_position <= m_size
      /\ m_position' = m_position + size
      /\ m_size' = Larger(m_size, m_position + size)
  BY InvReady DEF Fills
<1>1. /\ Content = [i \in 1 .. m_size |-> At(i - 1)] /\ Len(Content) = m_size
      /\ Content' = [i \in 1 .. m_size' |-> At(i - 1)'] /\ Len(Content') = m_size'
  <2>1. Content' = [i \in 1 .. m_size' |-> At(i - 1)'] BY DEF Content, At
  <2>2. m_size' \in Nat BY <1>0 DEF Larger
  <2> QED BY <2>1, <2>2, ContentIs
<1>2. ASSUME NEW i \in 1 .. m_size, i <= m_position \/ i > m_position + size
      PROVE  Content'[i] = Content[i]
  <2> DEFINE a == i - 1
  <2>1. a \in Nat /\ a < m_size /\ (a < m_position \/ a >= m_position + size) BY <1>0, <1>2
  <2>2. i \in 1 .. m_size' BY <1>0 DEF Larger
  <2> HIDE DEF a
  <2>3. At(a)' = At(a) BY <2>1, FillsElsewhere
  <2>4. At(i - 1)' = At(i - 1) BY <2>3 DEF a
  <2> QED BY <1>1, <2>2, <2>4
<1>3. CASE size = 0
  <2>1. m_size' = m_size BY <1>0, <1>3 DEF Larger
  <2>2. \A i \in 1 .. m_size : Content'[i] = Content[i] BY <1>0, <1>2, <1>3
  <2>3. Content' = Content BY <1>1, <2>1, <2>2
  <2> QED BY <1>0, <1>3, <2>3 DEF Flat!fvars
<1>4. CASE size > 0
  <2>1. m_position' > m_position BY <1>0, <1>4
  <2>2. Len(Content') = IF m_position' > Len(Content) THEN m_position' ELSE Len(Content)
    <3>1. Larger(m_size, m_position + size)
            = IF m_position + size > m_size THEN m_position + size ELSE m_size
      BY <1>0 DEF Larger
    <3> QED BY <1>0, <1>1, <3>1
  <2>3. \A i \in 1 .. Len(Content) :
          i <= m_position \/ i > m_position' => Content'[i] = Content[i]
    BY <1>0, <1>1, <1>2
  <2>4. Flat!Put BY <2>1, <2>2, <2>3, Zenon DEF Flat!Put
  <2> QED BY <2>4 DEF Flat!FlatNext
<1> QED BY <1>3, <1>4

\* A reader gets bytes and changes none.
LEMMA MoveGets ==
  ASSUME Inv, NEW n \in 0 .. getReadSize, m_position' = m_position + n,
         UNCHANGED <<nodes, m_size>>
  PROVE  Flat!FlatNext
<1>1. Content' = Content BY DEF Content
<1>2. m_position' \in m_position .. Len(Content) BY InvReady, ContentIs
<1> QED BY <1>1, <1>2 DEF Flat!FlatNext, Flat!Get

\* setPosition may make the sequence longer.
LEMMA SetPositionSeeks ==
  ASSUME Inv, Inv', NEW v \in Nat, SetPosition(v)
  PROVE  Flat!FlatNext
<1>0. m_size \in Nat /\ m_position' = v /\ m_size' = Larger(m_size, v) /\ nodes' = nodes
  BY InvReady DEF SetPosition
<1>1. m_size' \in Nat /\ m_size <= m_size' BY <1>0 DEF Larger
<1>2. Content' = [i \in 1 .. m_size' |-> At(i - 1)] BY <1>0 DEF Content, At
<1>3. Len(Content') = m_size' BY <1>1, <1>2
<1>4. Content = [i \in 1 .. m_size |-> At(i - 1)] /\ Len(Content) = m_size BY ContentIs
<1>5. SubSeq(Content', 1, m_size) = [i \in 1 .. m_size |-> At(i - 1)]
  <2>1. SubSeq(Content', 1, m_size) = [i \in 1 .. m_size |-> Content'[i]]
    BY <1>0, <1>1, <1>2
  <2> QED BY <1>0, <1>1, <1>2, <2>1
<1> QED BY <1>0, <1>3, <1>4, <1>5 DEF Flat!FlatNext, Flat!Seek, Larger

LEMMA StepFlat == Inv /\ Inv' /\ [Next]_vars => [Flat!FlatNext]_(Flat!fvars)
<1> SUFFICES ASSUME Inv, Inv', [Next]_vars PROVE [Flat!FlatNext]_(Flat!fvars) OBVIOUS
<1>1. ASSUME UNCHANGED arrayVars PROVE UNCHANGED Flat!fvars
  BY <1>1 DEF arrayVars, Flat!fvars, Content
<1>2. ASSUME NEW k \in kinds, NEW b \in Fresh, NEW v \in Values[k], Write(k, v, b)
      PROVE  [Flat!FlatNext]_(Flat!fvars)
  <2>1. PICK size \in Nat \ {0} : \E cur, chain, s : Fills(cur, chain, s, size)
    BY <1>2, WriteFills
  <2>2. size \in Nat OBVIOUS
  <2> QED BY <2>1, <2>2, FillsPuts
<1>3. ASSUME NEW k \in kinds, Read(k) PROVE Flat!FlatNext
  <2>1. Reading(k).used \in 0 .. getReadSize BY ReadingUses DEF Inv, Bounds
  <2> QED BY <1>3, <2>1, MoveGets DEF Read
<1>4. ASSUME NEW size \in Chunks, NEW b \in Fresh, NEW n \in 0 .. size, Receive(size, n, b)
      PROVE  [Flat!FlatNext]_(Flat!fvars)
  <2>1. n \in Nat BY WidthsAssumption
  <2> QED BY <1>4, <2>1, ReceiveFills, FillsPuts
<1>5. ASSUME NEW n, Send(n) PROVE Flat!FlatNext
  <2>1. n \in 0 .. getReadSize BY <1>5, InvReady DEF Send
  <2> QED BY <1>5, <2>1, MoveGets DEF Send
<1>6. ASSUME NEW v \in 0 .. MaxNodes * BaseSize, SetPosition(v) PROVE Flat!FlatNext
  <2>1. v \in Nat BY BaseOK, WidthsAssumption
  <2> QED BY <1>6, <2>1, SetPositionSeeks
<1>7. ASSUME Clear PROVE Flat!FlatNext
  <2>1. m_size' = 0 /\ m_position' = 0 BY <1>7 DEF Clear
  <2>2. Content' = << >> BY <2>1 DEF Content
  <2> QED BY <2>1, <2>2 DEF Flat!FlatNext, Flat!Clear
<1>8. ASSUME NEW val, SetIsLittleEndian(val) PROVE UNCHANGED Flat!fvars
  BY <1>1, <1>8 DEF SetIsLittleEndian
<1>9. ASSUME UNCHANGED vars PROVE UNCHANGED Flat!fvars BY <1>1, <1>9 DEF vars
<1> QED BY <1>2, <1>3, <1>4, <1>5, <1>6, <1>7, <1>8, <1>9 DEF Next

\* Whatever the block size, the chain behaves as one sequence of bytes: storing
\* changes only the bytes from the old position to the new one, growing the chain
\* changes none, reading and seeking move the position and nothing before the end.
THEOREM ByteArrayImplementsFlat == Spec => ImplementsFlat
<1>1. Init => Flat!FlatInit
  <2> SUFFICES ASSUME Init PROVE Flat!FlatInit OBVIOUS
  <2>1. m_size = 0 /\ m_position = 0 BY DEF Init
  <2>2. Content = << >> BY <2>1 DEF Content
  <2> QED BY <2>1, <2>2 DEF Flat!FlatInit
<1> QED BY <1>1, StepFlat, InvAlways, PTL DEF Spec, ImplementsFlat, Flat!FlatSpec

----------------------------------------------------------------------------
\* writeToFile.

\* The turns there are when `size` bytes are left at the start of a block.
FullTurns(size) == (size + BaseSize - 1) \div BaseSize

LEMMA TurnsNeeded ==
  ASSUME NEW size \in Nat, NEW k \in Nat
  PROVE  FullTurns(size) \in Nat /\ (k < FullTurns(size) <=> k * BaseSize < size)
BY BaseOK DEF FullTurns

\* What has been written after k turns, and where the loop stands.
Done(k) == IF k * BaseSize < getReadSize THEN k * BaseSize ELSE getReadSize
Stands(k) ==
  [ok |-> TRUE,
   cur |-> After(m_cur, IF k < FullTurns(getReadSize) THEN k ELSE FullTurns(getReadSize), nodes),
   pos |-> m_position + Done(k), left |-> getReadSize - Done(k),
   out |-> [i \in 1 .. Done(k) |-> At(m_position + i - 1)]]

LEMMA OneTurn ==
  ASSUME Inv, m_position % BaseSize = 0, NEW k \in Nat
  PROVE  Turn(Stands(k)) = Stands(k + 1)
<1> DEFINE R == getReadSize
           T == FullTurns(R)
           p == m_position
<1>0. R \in Nat /\ p \in Nat /\ m_size = p + R /\ m_capacity = Len(nodes) * BaseSize
      /\ m_capacity \in Nat /\ m_size <= m_capacity /\ Len(nodes) \in Nat
      /\ m_cur = Cur(p, Len(nodes))
  BY InvReady DEF Ready, Inv, Bounds
<1>1. T \in Nat /\ (k < T <=> k * BaseSize < R) /\ (k + 1 < T <=> (k + 1) * BaseSize < R)
  BY <1>0, TurnsNeeded
<1>2. k * BaseSize \in Nat /\ (k + 1) * BaseSize = k * BaseSize + BaseSize /\ BaseSize \in Nat /\ BaseSize > 0
  BY BaseOK
<1>3. CASE ~(k * BaseSize < R)
  <2>1. Done(k) = R /\ Done(k + 1) = R BY <1>0, <1>2, <1>3 DEF Done
  <2>2. ~(k < T) /\ ~(k + 1 < T) BY <1>0, <1>1, <1>2, <1>3
  <2>3. Stands(k + 1) = Stands(k) BY <2>1, <2>2 DEF Stands
  <2>4. Stands(k).left = 0 BY <1>0, <2>1 DEF Stands
  <2> QED BY <2>3, <2>4 DEF Turn
<1>4. CASE k * BaseSize < R
  <2> DEFINE a == p + k * BaseSize
             len == IF R - k * BaseSize > BaseSize THEN BaseSize ELSE R - k * BaseSize
  <2>1. a \in Nat /\ a < m_size /\ a < Len(nodes) * BaseSize BY <1>0, <1>2, <1>4
  <2>2. a % BaseSize = 0 /\ a \div BaseSize = (p \div BaseSize) + k
    <3>1. (0 + k * BaseSize) \div BaseSize = k /\ (0 + k * BaseSize) % BaseSize = 0 BY BaseOK
    <3> QED BY <1>0, <1>2, <3>1, SplitSum
  <2>3. After(m_cur, k, nodes) = Cur(a, Len(nodes)) /\ Cur(a, Len(nodes)) = a \div BaseSize + 1
        /\ Cur(a, Len(nodes)) # Null
    <3>1. (0 + k * BaseSize) \div BaseSize = k BY BaseOK
    <3>2. After(Cur(p, Len(nodes)), (0 + k * BaseSize) \div BaseSize, nodes) = Cur(a, Len(nodes))
      <4>1. PICK j \in Nat : j = k * BaseSize BY <1>2
      <4>2. p + j <= Len(nodes) * BaseSize BY <1>0, <2>1, <4>1
      <4>3. After(Cur(p, Len(nodes)), ((p % BaseSize) + j) \div BaseSize, nodes) = Cur(p + j, Len(nodes))
        BY <1>0, <4>2, AfterCur
      <4> QED BY <4>1, <4>3
    <3>3. Cur(a, Len(nodes)) = a \div BaseSize + 1 /\ Cur(a, Len(nodes)) \in 1 .. Len(nodes)
      BY <1>0, <2>1, CurInside
    <3> QED BY <1>0, <3>1, <3>2, <3>3 DEF Null
  <2>4. len \in Nat /\ Done(k) = k * BaseSize /\ Done(k + 1) = k * BaseSize + len
    BY <1>0, <1>2, <1>4 DEF Done
  <2>5. After(After(m_cur, k, nodes), 1, nodes) = After(m_cur, k + 1, nodes)
        /\ (IF k < T THEN k ELSE T) = k /\ (IF k + 1 < T THEN k + 1 ELSE T) = k + 1
    <3>1. m_cur # Null /\ m_cur \in Nat
      <4>1. p < Len(nodes) * BaseSize BY <1>0, <1>2, <1>4
      <4>2. Cur(p, Len(nodes)) \in 1 .. Len(nodes) BY <1>0, <4>1, CurInside
      <4> QED BY <1>0, <4>2 DEF Null
    <3> QED BY <1>0, <1>1, <1>4, <2>3, <3>1 DEF After, Null
  <2>6. [i \in 1 .. Done(k) |-> At(p + i - 1)] \o [i \in 1 .. len |-> nodes[Cur(a, Len(nodes))][0 + i - 1]]
          = [i \in 1 .. Done(k + 1) |-> At(p + i - 1)]
    <3> DEFINE s == [i \in 1 .. Done(k) |-> At(p + i - 1)]
               t == [i \in 1 .. len |-> nodes[Cur(a, Len(nodes))][0 + i - 1]]
    <3>1. Long(s, Done(k)) /\ Long(t, len) BY <1>2, <2>4 DEF Long
    <3>2. ASSUME NEW i \in 1 .. len PROVE t[i] = At(p + (Done(k) + i) - 1)
      <4>1. PICK j \in Nat : j = i - 1 BY <2>4
      <4>2. j < BaseSize /\ j \in 0 .. BaseSize - 1 BY <1>0, <1>2, <2>4, <4>1
      <4>3. j \div BaseSize = 0 /\ j % BaseSize = j BY <4>2, BaseOK
      <4>4. (a + j) \div BaseSize = a \div BaseSize /\ (a + j) % BaseSize = j
        <5>1. (0 + j) = j OBVIOUS
        <5>2. a \div BaseSize \in Nat BY <2>1, Divided
        <5> HIDE DEF a
        <5>3. (a + j) \div BaseSize = (a \div BaseSize) + (((a % BaseSize) + j) \div BaseSize)
              /\ (a + j) % BaseSize = ((a % BaseSize) + j) % BaseSize
          BY <2>1, SplitSum
        <5> QED BY <2>2, <4>3, <5>1, <5>2, <5>3
      <4>5. a + j = p + (Done(k) + i) - 1 BY <1>0, <1>2, <2>4, <4>1
      <4>6. t[i] = nodes[Cur(a, Len(nodes))][j] BY <4>1
      <4> HIDE DEF a, t, s
      <4> QED BY <2>3, <4>4, <4>5, <4>6 DEF At
    <3>3. Long(s \o t, Done(k) + len) BY <1>2, <2>4, <3>1, JoinedLong
    <3>4. ASSUME NEW i \in 1 .. Done(k + 1) PROVE (s \o t)[i] = At(p + i - 1)
      <4> HIDE DEF s, t, len
      <4>0. Done(k) \in Nat /\ Done(k + 1) = Done(k) + len /\ len \in Nat BY <1>2, <2>4
      <4>3. /\ \A j \in 1 .. Done(k) : (s \o t)[j] = s[j]
            /\ \A j \in 1 .. len : (s \o t)[Done(k) + j] = t[j]
        <5>1. PICK x, y, m, l : x = s /\ y = t /\ m = Done(k) /\ l = len OBVIOUS
        <5>2. Long(x, m) /\ Long(y, l) /\ m \in Nat /\ l \in Nat BY <3>1, <4>0, <5>1
        <5>3. /\ \A j \in 1 .. m : (x \o y)[j] = x[j]
              /\ \A j \in 1 .. l : (x \o y)[m + j] = y[j]
          BY <5>2 DEF Long
        <5> QED BY <5>1, <5>3
      <4>1. CASE i <= Done(k)
        <5>1. i \in 1 .. Done(k) BY <1>2, <2>4, <4>1
        <5>2. (s \o t)[i] = s[i] BY <4>3, <5>1, Zenon
        <5> QED BY <5>1, <5>2 DEF s
      <4>2. CASE i > Done(k)
        <5>1. PICK j \in 1 .. len : i = Done(k) + j
          <6>1. i - Done(k) \in 1 .. len /\ i = Done(k) + (i - Done(k)) BY <1>2, <2>4, <4>2
          <6> QED BY <6>1
        <5>2. (s \o t)[i] = t[j] BY <4>3, <5>1, Zenon
        <5> QED BY <3>2, <5>1, <5>2
      <4>4. i <= Done(k) \/ i > Done(k) BY <4>0
      <4> QED BY <4>1, <4>2, <4>4, Zenon
    <3> HIDE DEF s, t
    <3>5. s \o t = [i \in 1 .. Done(k + 1) |-> (s \o t)[i]] BY <2>4, <3>3 DEF Long
    <3> QED BY <3>4, <3>5 DEF s, t
  <2>7. Stands(k) = [ok |-> TRUE, cur |-> Cur(a, Len(nodes)), pos |-> a, left |-> R - k * BaseSize,
                     out |-> [i \in 1 .. Done(k) |-> At(p + i - 1)]]
    BY <2>3, <2>4, <2>5 DEF Stands
  <2>8. Stands(k + 1) = [ok |-> TRUE, cur |-> After(Cur(a, Len(nodes)), 1, nodes), pos |-> a + len,
                         left |-> (R - k * BaseSize) - len,
                         out |-> [i \in 1 .. Done(k + 1) |-> At(p + i - 1)]]
    <3>1. p + Done(k + 1) = a + len /\ R - Done(k + 1) = (R - k * BaseSize) - len BY <1>0, <1>2, <2>4
    <3> HIDE DEF a, len
    <3> QED BY <2>3, <2>5, <3>1 DEF Stands
  <2>9. R - k * BaseSize > 0 /\ len - 0 = len /\ ~(len < 0) BY <1>0, <1>2, <1>4, <2>4
  <2> DEFINE st == Stands(k)
             cur == Cur(a, Len(nodes))
  <2>10. st.ok /\ st.cur = cur /\ st.pos = a /\ st.left = R - k * BaseSize
         /\ st.out = [i \in 1 .. Done(k) |-> At(p + i - 1)] BY <2>7
  <2>11. (IF st.left > BaseSize THEN BaseSize ELSE st.left) - (st.pos % BaseSize) = len
         /\ st.pos % BaseSize = 0
    BY <2>2, <2>9, <2>10
  <2>13. cur # Null BY <2>3
  <2> HIDE DEF st, a, len, cur
  <2>12. Turn(st) = [ok |-> TRUE, cur |-> After(cur, 1, nodes), pos |-> a + len,
                     left |-> (R - k * BaseSize) - len,
                     out |-> st.out \o [i \in 1 .. len |-> nodes[cur][0 + i - 1]]]
    <3> DEFINE d == st.pos % BaseSize
               l == (IF st.left > BaseSize THEN BaseSize ELSE st.left) - d
    <3>1. d = 0 /\ l = len /\ ~(l < 0) /\ st.left > 0 /\ ~(st.left <= 0) /\ st.ok /\ st.cur # Null
      BY <1>0, <1>2, <2>9, <2>10, <2>11, <2>13
    <3>2. Turn(st) = IF ~st.ok \/ st.left <= 0 THEN st
            ELSE IF st.cur = Null \/ l < 0 THEN [st EXCEPT !.ok = FALSE]
            ELSE [ok |-> TRUE, cur |-> After(st.cur, 1, nodes), pos |-> st.pos + l, left |-> st.left - l,
                  out |-> st.out \o [i \in 1 .. l |-> nodes[st.cur][d + i - 1]]]
      BY DEF Turn
    <3> HIDE DEF d, l
    <3>3. Turn(st) = [ok |-> TRUE, cur |-> After(st.cur, 1, nodes), pos |-> st.pos + l, left |-> st.left - l,
                      out |-> st.out \o [i \in 1 .. l |-> nodes[st.cur][d + i - 1]]]
      BY <3>1, <3>2, Zenon
    <3> QED BY <2>10, <3>1, <3>3
  <2> QED BY <2>6, <2>8, <2>10, <2>12 DEF st, cur
<1> QED BY <1>3, <1>4

\* At the start of a block writeToFile writes what toString shows.
LEMMA InvFile ==
  ASSUME Inv, m_position % BaseSize = 0
  PROVE  writeToFile = [ok |-> TRUE, out |-> toString]
<1> DEFINE n == Len(nodes) + 1
           start == [ok |-> TRUE, cur |-> m_cur, pos |-> m_position, left |-> getReadSize, out |-> << >>]
           Loop(f) == f = [k \in 0 .. n |-> IF k = 0 THEN start ELSE Turn(f[k - 1])]
           turns == CHOOSE f : Loop(f)
           g == [k \in 0 .. n |-> Stands(k)]
<1>0. getReadSize \in Nat /\ m_position \in Nat /\ m_size = m_position + getReadSize /\ n \in Nat
      /\ m_size <= Len(nodes) * BaseSize /\ Len(nodes) \in Nat /\ m_cur = Cur(m_position, Len(nodes))
  BY InvReady DEF Ready, Inv, Bounds
<1>1. Stands(0) = start
  <2>1. 0 * BaseSize = 0 /\ Done(0) = 0 BY <1>0, BaseOK DEF Done
  <2>2. (IF 0 < FullTurns(getReadSize) THEN 0 ELSE FullTurns(getReadSize)) = 0
    BY <1>0, TurnsNeeded
  <2>3. After(m_cur, 0, nodes) = m_cur
    <3>1. m_cur = Null \/ m_cur \in 1 .. Len(nodes)
      <4>1. CASE m_position = Len(nodes) * BaseSize BY <1>0, <4>1 DEF Cur
      <4>2. CASE m_position < Len(nodes) * BaseSize BY <1>0, <4>2, CurInside
      <4> QED BY <1>0, <4>1, <4>2, BaseOK
    <3> QED BY <1>0, <3>1 DEF After, Null
  <2>4. [i \in 1 .. 0 |-> At(m_position + i - 1)] = << >> OBVIOUS
  <2>5. m_position + 0 = m_position /\ getReadSize - 0 = getReadSize BY <1>0
  <2> QED BY <2>1, <2>2, <2>3, <2>4, <2>5 DEF Stands
<1>2. Loop(g)
  <2>1. ASSUME NEW k \in 0 .. n, k # 0 PROVE Stands(k) = Turn(g[k - 1])
    <3>1. PICK j \in Nat : k = j + 1 /\ j \in 0 .. n /\ k - 1 = j
      <4>1. k - 1 \in Nat /\ k = (k - 1) + 1 /\ k - 1 \in 0 .. n BY <1>0, <2>1
      <4> QED BY <4>1
    <3>2. g[k - 1] = Stands(j) BY <3>1
    <3> QED BY <3>1, <3>2, OneTurn
  <2>2. \A k \in 0 .. n : Stands(k) = IF k = 0 THEN start ELSE Turn(g[k - 1]) BY <1>1, <2>1
  <2> QED BY <2>2
<1> HIDE DEF g
<1>3. Loop(turns)
  <2> HIDE DEF Loop
  <2> QED BY <1>2
<1> HIDE DEF turns
<1>4. turns[n] = g[n]
  <2>1. turns[0] = start /\ g[0] = start
    <3>1. 0 \in 0 .. n BY <1>0
    <3> QED BY <1>2, <1>3, <3>1
  <2>2. ASSUME NEW i \in 1 .. n, turns[i - 1] = g[i - 1] PROVE turns[i] = g[i]
    <3>1. i \in 0 .. n /\ i # 0 BY <1>0
    <3>2. turns[i] = Turn(turns[i - 1]) BY <1>3, <3>1
    <3>3. g[i] = Turn(g[i - 1]) BY <1>2, <3>1
    <3> QED BY <2>2, <3>2, <3>3
  <2> HIDE DEF n, start, Loop
  <2>3. \A i \in 0 .. n : turns[i] = g[i]
    <3>1. PICK f, h, m : f = turns /\ h = g /\ m = n OBVIOUS
    <3>2. f[0] = h[0] /\ m \in Nat BY <1>0, <2>1, <3>1
    <3>3. \A i \in 1 .. m : f[i - 1] = h[i - 1] => f[i] = h[i] BY <2>2, <3>1
    <3>4. \A i \in 0 .. m : f[i] = h[i] BY <3>2, <3>3, LoopsAgree
    <3> QED BY <3>1, <3>4
  <2> QED BY <1>0, <2>3
<1>5. writeToFile = [ok |-> turns[n].ok, out |-> turns[n].out] BY DEF writeToFile, turns
<1>6. g[n] = Stands(n) BY <1>0 DEF g
<1>7. Done(n) = getReadSize
  <2>1. n * BaseSize = Len(nodes) * BaseSize + BaseSize /\ Len(nodes) * BaseSize \in Nat BY <1>0, BaseOK
  <2> QED BY <1>0, <2>1, BaseOK DEF Done
<1>8. Stands(n).ok = TRUE /\ Stands(n).out = [i \in 1 .. getReadSize |-> At(m_position + i - 1)]
  BY <1>7 DEF Stands
<1>9. toString = [i \in 1 .. getReadSize |-> At(m_position + i - 1)]
  <2>1. m_position + getReadSize <= m_size BY <1>0
  <2>2. SubSeq(Content, m_position + 1, m_position + getReadSize)
          = [i \in 1 .. getReadSize |-> At(m_position + i - 1)]
    BY <1>0, <2>1, ContentIs
  <2> QED BY <1>0, <2>2, InvBuffers DEF BuffersAgree
<1> HIDE DEF turns, g
<1> QED BY <1>4, <1>5, <1>6, <1>8, <1>9

\* writeToFile too, whose loop counts what is left of a block by itself, as long as
\* it sets out from the start of one.
THEOREM ByteArrayViewsAgree == Spec => []ViewsAgree
<1>1. Inv => ViewsAgree BY InvBuffers, InvFile DEF ViewsAgree
<1> QED BY <1>1, InvAlways, PTL

----------------------------------------------------------------------------
\* Powers of two.

\* The exponents there are.
MaxExp == Width16 + Width64 + 1
Exp == 0 .. MaxExp

LEMMA ExpOK == MaxExp \in Nat /\ Width16 \in Nat /\ Width32 \in Nat /\ Width64 \in Nat /\ ByteBits \in Nat
  /\ Width32 > 0 /\ Width64 > Width32 /\ ByteBits > 1 /\ Width16 = 2 * ByteBits /\ Width64 = 2 * Width32
BY WidthsAssumption DEF MaxExp

LEMMA PowerNext == 2 ^ 0 = 1 /\ \A n \in Nat : n + 1 \in Exp => 2 ^ (n + 1) = 2 * 2 ^ n
<1> SUFFICES ASSUME NEW n \in Nat, n + 1 \in Exp PROVE 2 ^ (n + 1) = 2 * 2 ^ n
  BY PowersAssumption
<1>1. n \in 0 .. Width16 + Width64 BY ExpOK DEF Exp, MaxExp
<1> QED BY <1>1, PowersAssumption

LEMMA PowerNat == \A n \in Exp : 2 ^ n \in Nat /\ 2 ^ n > 0
<1> DEFINE D == {n \in Exp : ~(2 ^ n \in Nat /\ 2 ^ n > 0)}
<1> SUFFICES ASSUME D # {} PROVE FALSE OBVIOUS
<1>1. D \subseteq Nat BY DEF Exp
<1>2. PICK n \in D : \A m \in D : n <= m BY <1>1, Least
<1>3. n # 0
  <2>1. 2 ^ 0 \in Nat /\ 2 ^ 0 > 0 BY PowerNext
  <2>2. ~(2 ^ n \in Nat /\ 2 ^ n > 0) OBVIOUS
  <2> QED BY <2>1, <2>2, Zenon
<1>4. PICK m \in Nat : n = m + 1 /\ m \in Exp /\ m < n
  <2>1. n - 1 \in Nat /\ n = (n - 1) + 1 /\ n - 1 \in Exp /\ n - 1 < n BY <1>3, ExpOK DEF Exp
  <2> QED BY <2>1
<1>5. m \notin D BY <1>2, <1>4
<1>6. 2 ^ m \in Nat /\ 2 ^ m > 0 BY <1>4, <1>5
<1>7. 2 ^ n = 2 * 2 ^ m BY <1>4, PowerNext
<1> QED BY <1>6, <1>7

LEMMA PowerSum ==
  ASSUME NEW m \in Nat, NEW n \in Nat, m + n \in Exp
  PROVE  2 ^ (m + n) = 2 ^ m * 2 ^ n
<1> DEFINE D == {i \in 0 .. n : 2 ^ (m + i) # 2 ^ m * 2 ^ i}
<1> SUFFICES ASSUME D # {} PROVE FALSE OBVIOUS
<1>1. D \subseteq Nat OBVIOUS
<1>2. PICK i \in D : \A j \in D : i <= j BY <1>1, Least
<1>3. m \in Exp /\ i \in Exp /\ m + i \in Exp /\ i \in Nat BY ExpOK DEF Exp
<1>4. i # 0
  <2>1. 2 ^ m * 1 = 2 ^ m /\ m + 0 = m BY <1>3, PowerNat
  <2> QED BY <2>1, PowerNext
<1>5. PICK j \in Nat : i = j + 1 /\ j \in Exp /\ j < i /\ j \in 0 .. n /\ (m + j) \in Exp /\ m + i = (m + j) + 1
  <2>1. i - 1 \in Nat /\ i = (i - 1) + 1 /\ i - 1 \in Exp /\ i - 1 < i /\ i - 1 \in 0 .. n
        /\ (m + (i - 1)) \in Exp /\ m + i = (m + (i - 1)) + 1
    BY <1>3, <1>4, ExpOK DEF Exp
  <2> QED BY <2>1
<1>6. j \notin D BY <1>2, <1>5
<1>7. 2 ^ (m + j) = 2 ^ m * 2 ^ j BY <1>5, <1>6
<1>8. 2 ^ (m + i) = 2 * 2 ^ (m + j) BY <1>3, <1>5, PowerNext
<1>9. 2 ^ i = 2 * 2 ^ j BY <1>3, <1>5, PowerNext
<1>10. PICK a \in Nat, b \in Nat : a = 2 ^ m /\ b = 2 ^ j BY <1>3, <1>5, PowerNat
<1>11. 2 * (a * b) = a * (2 * b) OBVIOUS
<1> QED BY <1>7, <1>8, <1>9, <1>10, <1>11

LEMMA PowerMono ==
  ASSUME NEW m \in Nat, NEW n \in Exp, m <= n
  PROVE  2 ^ m <= 2 ^ n
<1>1. PICK k \in Nat : n = m + k /\ k \in Exp /\ m \in Exp
  <2>1. n - m \in Nat /\ n = m + (n - m) /\ n - m \in Exp /\ m \in Exp BY ExpOK DEF Exp
  <2> QED BY <2>1
<1>2. 2 ^ n = 2 ^ m * 2 ^ k BY <1>1, PowerSum
<1>3. PICK a \in Nat, b \in Nat : a = 2 ^ m /\ b = 2 ^ k /\ b > 0 BY <1>1, PowerNat
<1>4. a <= a * b BY <1>3
<1> QED BY <1>2, <1>3, <1>4

\* The remainder is what is left over, and by two divisors one after the other.
LEMMA Remainder ==
  ASSUME NEW d \in Nat, NEW q \in Nat, NEW r \in Nat, r < d
  PROVE  (d * q + r) % d = r /\ (d * q + r) \div d = q
OBVIOUS

LEMMA RemainderTwice ==
  ASSUME NEW u \in Nat, NEW P \in Nat, P > 0, NEW Q \in Nat, Q > 0
  PROVE  u % (P * Q) = (u % P) + ((u \div P) % Q) * P
<1>1. PICK q1 \in Nat, r1 \in Nat : u = P * q1 + r1 /\ r1 < P /\ q1 = u \div P /\ r1 = u % P OBVIOUS
<1>2. PICK q2 \in Nat, r2 \in Nat : q1 = Q * q2 + r2 /\ r2 < Q /\ r2 = q1 % Q
  <2>1. q1 \div Q \in Nat /\ q1 % Q \in Nat /\ q1 = Q * (q1 \div Q) + (q1 % Q) /\ q1 % Q < Q OBVIOUS
  <2> QED BY <2>1
<1> DEFINE r == r2 * P + r1
<1>3. r2 * P <= (Q - 1) * P BY <1>2
<1>4. r \in Nat /\ r < P * Q BY <1>1, <1>2, <1>3
<1>5. u = (P * Q) * q2 + r BY <1>1, <1>2
<1>6. P * Q \in Nat OBVIOUS
<1> HIDE DEF r
<1>7. u % (P * Q) = r BY <1>4, <1>5, <1>6, Remainder
<1> QED BY <1>1, <1>2, <1>7 DEF r

----------------------------------------------------------------------------
\* The codes.

\* A signed word is read as what it was written for.
LEMMA SignedBack ==
  ASSUME NEW w \in Exp, w > 0, NEW v \in Integer(w)
  PROVE  Word(v, w) \in Unsigned(w) /\ Signed(Word(v, w), w) = v
<1>1. PICK h \in Nat : h = 2 ^ (w - 1) /\ h > 0 /\ 2 ^ w = 2 * h
  <2>1. w - 1 \in Nat /\ w - 1 \in Exp /\ w = (w - 1) + 1 BY ExpOK DEF Exp
  <2>2. 2 ^ w = 2 * 2 ^ (w - 1) BY <2>1, PowerNext
  <2>3. 2 ^ (w - 1) \in Nat /\ 2 ^ (w - 1) > 0 BY <2>1, PowerNat
  <2> QED BY <2>2, <2>3
<1>2. v \in -h .. h - 1 BY <1>1 DEF Integer
<1>3. v % (2 * h) = IF v < 0 THEN v + 2 * h ELSE v
  <2>1. CASE v < 0
    <3>1. v + 2 * h \in Nat /\ v + 2 * h < 2 * h BY <1>1, <1>2, <2>1
    <3>2. v = (2 * h) * (-1) + (v + 2 * h) BY <1>2
    <3> QED BY <1>1, <1>2, <2>1, <3>1, <3>2
  <2>2. CASE v >= 0 BY <1>1, <1>2, <2>2
  <2> QED BY <1>2, <2>1, <2>2
<1>4. Word(v, w) = IF v < 0 THEN v + 2 * h ELSE v BY <1>1, <1>3 DEF Word
<1>5. Word(v, w) \in 0 .. 2 * h - 1 BY <1>1, <1>2, <1>4
<1>6. Signed(Word(v, w), w) = v BY <1>1, <1>2, <1>4, <1>5 DEF Signed
<1> QED BY <1>1, <1>5, <1>6 DEF Unsigned

\* DecodeZigzag undoes EncodeZigzag for what `out` bits have room for.
LEMMA ZigzagBack ==
  ASSUME NEW w \in Exp, NEW out \in Exp, 0 < out, out <= w, NEW v \in Integer(out)
  PROVE  /\ EncodeZigzag(v, w, out) \in Unsigned(out)
         /\ DecodeZigzag(EncodeZigzag(v, w, out), w) = v
<1>1. PICK h \in Nat : h = 2 ^ (out - 1) /\ h > 0 /\ 2 ^ out = 2 * h
  <2>1. out - 1 \in Nat /\ out - 1 \in Exp /\ out = (out - 1) + 1 BY ExpOK DEF Exp
  <2>2. 2 ^ out = 2 * 2 ^ (out - 1) BY <2>1, PowerNext
  <2>3. 2 ^ (out - 1) \in Nat /\ 2 ^ (out - 1) > 0 BY <2>1, PowerNat
  <2> QED BY <2>2, <2>3
<1>2. PICK g \in Nat : g = 2 ^ (w - 1) /\ g > 0 /\ 2 ^ w = 2 * g /\ h <= g
  <2>1. w - 1 \in Nat /\ w - 1 \in Exp /\ w = (w - 1) + 1 /\ out - 1 \in Nat /\ out - 1 <= w - 1 BY ExpOK DEF Exp
  <2>2. 2 ^ w = 2 * 2 ^ (w - 1) BY <2>1, PowerNext
  <2>3. 2 ^ (w - 1) \in Nat /\ 2 ^ (w - 1) > 0 BY <2>1, PowerNat
  <2>4. 2 ^ (out - 1) <= 2 ^ (w - 1) BY <2>1, PowerMono
  <2> QED BY <1>1, <2>2, <2>3, <2>4
<1>3. v \in -h .. h - 1 BY <1>1 DEF Integer
<1> DEFINE u == IF v < 0 THEN -(2 * v) - 1 ELSE 2 * v
<1>4. u \in 0 .. 2 * h - 1 BY <1>1, <1>3
<1>5. EncodeZigzag(v, w, out) = u
  <2>1. u % (2 * h) = u /\ u % (2 * g) = u BY <1>1, <1>2, <1>4
  <2>2. CASE v < 0
    <3>1. (-v) % (2 * g) = -v BY <1>2, <1>3, <2>2
    <3>2. (-v) * 2 - 1 = u BY <1>3, <2>2
    <3> HIDE DEF u
    <3> QED BY <1>1, <1>2, <2>1, <2>2, <3>1, <3>2 DEF EncodeZigzag, Word
  <2>3. CASE ~(v < 0)
    <3>1. v * 2 = u BY <1>3, <2>3
    <3> HIDE DEF u
    <3> QED BY <1>1, <1>2, <2>1, <2>3, <3>1 DEF EncodeZigzag, Word
  <2> QED BY <2>2, <2>3
<1>6. DecodeZigzag(u, w) = v
  <2>1. CASE v < 0
    <3>1. u % 2 = 1 /\ u \div 2 = -v - 1 BY <1>3, <2>1
    <3>2. 2 * g - 1 - (-v - 1) = 2 * g + v /\ 2 * g + v >= g /\ (2 * g + v) - 2 * g = v BY <1>2, <1>3
    <3> HIDE DEF u
    <3> QED BY <1>2, <3>1, <3>2 DEF DecodeZigzag, Signed
  <2>2. CASE ~(v < 0)
    <3>1. u % 2 # 1 /\ u \div 2 = v /\ ~(v >= g) BY <1>2, <1>3, <2>2
    <3> HIDE DEF u
    <3> QED BY <1>2, <3>1 DEF DecodeZigzag, Signed
  <2> QED BY <2>1, <2>2
<1> HIDE DEF u
<1> QED BY <1>1, <1>4, <1>5, <1>6 DEF Unsigned

\* Two bytes hold a word of 16 bits.
LEMMA FixedBack ==
  ASSUME NEW u \in Unsigned(Width16), NEW s, s = LowFirst(u, 2)
  PROVE  FromLowFirst(s) = u
<1>1. PICK B \in Nat : B = 2 ^ ByteBits /\ B > 0 /\ 2 ^ Width16 = B * B
  <2>1. ByteBits \in Nat /\ ByteBits \in Exp /\ ByteBits + ByteBits \in Exp /\ Width16 = ByteBits + ByteBits
    BY ExpOK DEF Exp, MaxExp
  <2>2. 2 ^ Width16 = 2 ^ ByteBits * 2 ^ ByteBits BY <2>1, PowerSum
  <2>3. 2 ^ ByteBits \in Nat /\ 2 ^ ByteBits > 0 BY <2>1, PowerNat
  <2> QED BY <2>2, <2>3
<1>2. u \in Nat /\ u < B * B BY <1>1 DEF Unsigned
<1>3. ByteBits * (1 - 1) = 0 /\ ByteBits * (2 - 1) = ByteBits BY ExpOK
<1>4. 2 ^ (ByteBits * (1 - 1)) = 1 /\ 2 ^ (ByteBits * (2 - 1)) = B BY <1>1, <1>3, PowerNext
<1>5. u \div 1 = u BY <1>2
<1>6. Len(s) = 2 /\ s[1] = u % B /\ s[2] = (u \div B) % B
  <2>1. s = [i \in 1 .. 2 |-> (u \div 2 ^ (ByteBits * (i - 1))) % 2 ^ ByteBits] BY DEF LowFirst
  <2> QED BY <1>1, <1>4, <1>5, <2>1
<1> DEFINE Loop(f) == f = [i \in 0 .. Len(s) |-> IF i = 0 THEN 0 ELSE f[i - 1] + s[i] * 2 ^ (ByteBits * (i - 1))]
           sum == CHOOSE f : Loop(f)
           g == [i \in 0 .. 2 |-> IF i = 0 THEN 0 ELSE IF i = 1 THEN u % B ELSE (u % B) + ((u \div B) % B) * B]
<1>7. u % B \in Nat /\ (u \div B) % B \in Nat BY <1>1, <1>2
<1>8. Loop(g)
  <2>1. 0 + s[1] * 2 ^ (ByteBits * (1 - 1)) = u % B BY <1>4, <1>6, <1>7
  <2>2. (u % B) + s[2] * 2 ^ (ByteBits * (2 - 1)) = (u % B) + ((u \div B) % B) * B BY <1>4, <1>6
  <2>3. g[0] = 0 /\ g[1] = u % B /\ g[2] = (u % B) + ((u \div B) % B) * B OBVIOUS
  <2>4. \A i \in 0 .. 2 : i = 0 \/ i = 1 \/ i = 2 OBVIOUS
  <2>5. 1 - 1 = 0 /\ 2 - 1 = 1 OBVIOUS
  <2>6. g = [i \in 0 .. 2 |-> g[i]] OBVIOUS
  <2> HIDE DEF g
  <2>7. \A i \in 0 .. 2 : g[i] = IF i = 0 THEN 0 ELSE g[i - 1] + s[i] * 2 ^ (ByteBits * (i - 1))
    BY <2>1, <2>2, <2>3, <2>4, <2>5
  <2> QED BY <1>6, <2>6, <2>7
<1>9. Loop(sum)
  <2> HIDE DEF Loop, g
  <2> QED BY <1>8
<1>10. FromLowFirst(s) = sum[Len(s)] BY DEF FromLowFirst
<1> HIDE DEF sum, g
<1>11. sum[0] = 0 /\ sum[1] = sum[0] + s[1] * 2 ^ (ByteBits * (1 - 1))
       /\ sum[2] = sum[1] + s[2] * 2 ^ (ByteBits * (2 - 1))
  <2>1. 0 \in 0 .. Len(s) /\ 1 \in 0 .. Len(s) /\ 2 \in 0 .. Len(s) /\ 1 - 1 = 0 /\ 2 - 1 = 1 BY <1>6
  <2> QED BY <1>9, <2>1
<1>12. sum[2] = (u % B) + ((u \div B) % B) * B BY <1>4, <1>6, <1>7, <1>11
<1>13. u % (B * B) = (u % B) + ((u \div B) % B) * B BY <1>1, <1>2, RemainderTwice
<1>14. u % (B * B) = u
  <2>1. B * B \in Nat BY <1>1
  <2> QED BY <1>2, <2>1
<1> QED BY <1>6, <1>10, <1>12, <1>13, <1>14

\* The groups of a word cover it, and their bits are exponents.
LEMMA GroupsCover ==
  ASSUME NEW w \in {Width32, Width64}
  PROVE  /\ Group \in Nat /\ Group > 0 /\ Group \in Exp /\ w \in Exp
         /\ Groups(w) \in Nat /\ Groups(w) > 0 /\ w <= Group * Groups(w)
         /\ \A i \in 0 .. Groups(w) : Group * i \in Nat /\ Group * i \in Exp
<1>1. w \in Nat /\ w > 0 /\ w <= Width64 /\ w \in Exp BY ExpOK DEF Exp, MaxExp
<1>2. Group \in Nat /\ Group > 0 /\ Group <= Width16 /\ Group \in Exp BY ExpOK DEF Group, Exp, MaxExp
<1>3. ASSUME NEW g \in Nat, g > 0, NEW i \in 0 .. (w + g - 1) \div g
      PROVE  (w + g - 1) \div g \in Nat /\ (w + g - 1) \div g > 0 /\ w <= g * ((w + g - 1) \div g)
             /\ g * i \in Nat /\ g * i <= w + g - 1
  <2>1. PICK q \in Nat, r \in Nat : w + g - 1 = g * q + r /\ r < g /\ q = (w + g - 1) \div g
    <3>1. w + g - 1 \in Nat BY <1>1, <1>3
    <3>2. PICK t \in Nat : t = w + g - 1 BY <3>1
    <3>3. t \div g \in Nat /\ t % g \in Nat /\ t = g * (t \div g) + (t % g) /\ t % g < g BY <1>3
    <3> QED BY <3>2, <3>3
  <2>2. w <= g * q BY <1>1, <1>3, <2>1
  <2>3. q > 0 BY <1>1, <1>3, <2>2
  <2>4. i \in 0 .. q BY <2>1
  <2>5. g * i <= g * q BY <1>3, <2>1, <2>4
  <2> QED BY <1>1, <1>3, <2>1, <2>2, <2>3, <2>4, <2>5
<1>4. Groups(w) = (w + Group - 1) \div Group BY DEF Groups
<1>5. ASSUME NEW i \in 0 .. Groups(w)
      PROVE  Groups(w) \in Nat /\ Groups(w) > 0 /\ w <= Group * Groups(w)
             /\ Group * i \in Nat /\ Group * i <= w + Group - 1
  BY <1>2, <1>3, <1>4
<1>6. Groups(w) \in Nat
  <2>1. PICK g \in Nat : g = Group /\ g > 0 BY <1>2
  <2>2. (w + g - 1) \div g \in Nat BY <1>1, <2>1
  <2> QED BY <1>4, <2>1, <2>2
<1>7. 0 \in 0 .. Groups(w) BY <1>6
<1> QED BY <1>1, <1>2, <1>5, <1>6, <1>7, ExpOK DEF Exp, MaxExp

\* The n bytes s of the word u.
Varint(s, u, n) ==
  /\ Long(s, n) /\ u < 2 ^ (Group * n)
  /\ \A i \in 1 .. n :
       s[i] = ((u \div 2 ^ (Group * (i - 1))) % 2 ^ Group) + (IF i < n THEN 2 ^ Group ELSE 0)

LEMMA VarintIs ==
  ASSUME NEW w \in {Width32, Width64}, NEW u \in Unsigned(w)
  PROVE  \E n \in 1 .. Groups(w) : Varint(EncodeVarint(u, w), u, n)
<1> DEFINE N == Groups(w)
           S == {i \in 1 .. N : ~(u >= 2 ^ (Group * i))}
           again == {i \in 1 .. N : u >= 2 ^ (Group * i)}
<1>1. N \in Nat /\ N > 0 /\ w <= Group * N /\ w \in Exp
      /\ \A i \in 0 .. N : Group * i \in Nat /\ Group * i \in Exp
  BY GroupsCover
<1>2. u \in Nat /\ u < 2 ^ w /\ 2 ^ w \in Nat BY <1>1, PowerNat DEF Unsigned
<1>3. N \in S
  <2>1. N \in 0 .. N /\ N \in 1 .. N BY <1>1
  <2>2. Group * N \in Exp BY <1>1, <2>1
  <2>3. w \in Nat BY ExpOK
  <2>4. 2 ^ w <= 2 ^ (Group * N) /\ 2 ^ (Group * N) \in Nat BY <1>1, <2>2, <2>3, PowerMono, PowerNat
  <2> QED BY <1>2, <2>1, <2>4
<1>4. S \subseteq Nat BY <1>1
<1>5. PICK n \in S : \A j \in S : n <= j BY <1>3, <1>4, Least
<1>6. n \in 1 .. N /\ ~(u >= 2 ^ (Group * n)) OBVIOUS
<1>7. again = 1 .. n - 1
  <2>1. ASSUME NEW i \in again PROVE i \in 1 .. n - 1
    <3>1. i \in 1 .. N /\ u >= 2 ^ (Group * i) OBVIOUS
    <3>2. SUFFICES ASSUME n <= i PROVE FALSE BY <1>1, <1>6, <3>1
    <3>3. i \in 0 .. N /\ n \in 0 .. N BY <1>1, <1>6, <3>1
    <3>4. Group * n \in Nat /\ Group * i \in Exp /\ Group * n \in Exp BY <1>1, <3>3
    <3>5. Group * n <= Group * i
      <4>1. Group \in Nat BY GroupsCover
      <4> QED BY <1>1, <1>6, <3>1, <3>2, <4>1
    <3>6. 2 ^ (Group * n) <= 2 ^ (Group * i) BY <3>4, <3>5, PowerMono
    <3>7. 2 ^ (Group * n) \in Nat /\ 2 ^ (Group * i) \in Nat BY <3>4, PowerNat
    <3> QED BY <1>2, <1>6, <3>1, <3>6, <3>7
  <2>2. ASSUME NEW i \in 1 .. n - 1 PROVE i \in again
    <3>1. i \in 1 .. N /\ i < n BY <1>1, <1>6
    <3>2. i \notin S BY <1>5, <1>6, <3>1
    <3> QED BY <3>1, <3>2
  <2> QED BY <2>1, <2>2
<1>8. Cardinality(again) = n - 1
  <2>1. PICK m \in Nat : m = n - 1 BY <1>1, <1>6
  <2>2. Cardinality(1 .. m) = m
    <3>1. Cardinality(1 .. m) = IF 1 > m THEN 0 ELSE m - 1 + 1 BY FS_Interval
    <3> QED BY <3>1
  <2> HIDE DEF again
  <2> QED BY <1>7, <2>1, <2>2
<1> DEFINE more == Cardinality(again)
<1>9. EncodeVarint(u, w) = [i \in 1 .. more + 1 |->
        ((u \div 2 ^ (Group * (i - 1))) % 2 ^ Group) + (IF i <= more THEN 2 ^ Group ELSE 0)]
  BY DEF EncodeVarint
<1> HIDE DEF again, S
<1>10. more + 1 = n /\ \A i \in 1 .. n : i <= more <=> i < n BY <1>1, <1>6, <1>8
<1> HIDE DEF more
<1>11. EncodeVarint(u, w) = [i \in 1 .. n |->
         ((u \div 2 ^ (Group * (i - 1))) % 2 ^ Group) + (IF i < n THEN 2 ^ Group ELSE 0)]
  BY <1>9, <1>10
<1>12. u < 2 ^ (Group * n)
  <2>1. n \in 0 .. N BY <1>1, <1>6
  <2>2. 2 ^ (Group * n) \in Nat BY <1>1, <2>1, PowerNat
  <2> QED BY <1>2, <1>6, <2>2
<1>13. n \in Nat BY <1>1, <1>6
<1>14. Long(EncodeVarint(u, w), n) BY <1>11, <1>13 DEF Long
<1>15. Varint(EncodeVarint(u, w), u, n) BY <1>11, <1>12, <1>14 DEF Varint
<1> QED BY <1>6, <1>15

\* A byte of it has the flag iff it is not the last one, and the rest is its group.
LEMMA VarintByte ==
  ASSUME NEW w \in {Width32, Width64}, NEW u \in Unsigned(w), NEW n \in 1 .. Groups(w), NEW s,
         Varint(s, u, n), NEW i \in 1 .. n
  PROVE  /\ s[i] >= 2 ^ Group <=> i < n
         /\ s[i] % 2 ^ Group = (u \div 2 ^ (Group * (i - 1))) % 2 ^ Group
<1>1. PICK Q \in Nat : Q = 2 ^ Group /\ Q > 0 BY GroupsCover, PowerNat
<1>2. PICK P \in Nat : P = 2 ^ (Group * (i - 1)) /\ P > 0
  <2>1. i - 1 \in 0 .. Groups(w) BY GroupsCover
  <2> QED BY <2>1, GroupsCover, PowerNat
<1>3. u \in Nat BY DEF Unsigned
<1>4. PICK g \in Nat : g = (u \div P) % Q /\ g < Q BY <1>1, <1>2, <1>3
<1>5. s[i] = g + (IF i < n THEN Q ELSE 0) BY <1>1, <1>2, <1>4 DEF Varint
<1>6. g % Q = g /\ (g + Q) % Q = g BY <1>1, <1>4
<1> QED BY <1>1, <1>2, <1>4, <1>5, <1>6

\* DecodeVarint puts the groups together again.
LEMMA VarintBack ==
  ASSUME NEW w \in {Width32, Width64}, NEW u \in Unsigned(w), NEW n \in 1 .. Groups(w), NEW s,
         Varint(s, u, n)
  PROVE  DecodeVarint(s, w) = u
<1> DEFINE Loop(f) == f = [i \in 0 .. Len(s) |->
                             IF i = 0 THEN 0 ELSE f[i - 1] + (s[i] % 2 ^ Group) * 2 ^ (Group * (i - 1))]
           sum == CHOOSE f : Loop(f)
           g == [i \in 0 .. n |-> u % 2 ^ (Group * i)]
<1>0. n \in Nat /\ n > 0 /\ Len(s) = n /\ u \in Nat /\ u < 2 ^ (Group * n) /\ n \in 0 .. Groups(w)
  BY GroupsCover DEF Varint, Long, Unsigned
<1>1. ASSUME NEW i \in 1 .. n
      PROVE  g[i] = g[i - 1] + (s[i] % 2 ^ Group) * 2 ^ (Group * (i - 1))
  <2>1. PICK j \in 0 .. n : i = j + 1 /\ i - 1 = j /\ j \in 0 .. Groups(w) /\ i \in 0 .. n /\ i \in 0 .. Groups(w)
    <3>1. i - 1 \in 0 .. n /\ i = (i - 1) + 1 /\ i - 1 \in 0 .. Groups(w) /\ i \in 0 .. n /\ i \in 0 .. Groups(w)
      BY <1>0, GroupsCover
    <3> QED BY <3>1
  <2>2. Group * i = Group * j + Group
    <3>1. PICK G \in Nat : G = Group BY GroupsCover
    <3>2. G * (j + 1) = G * j + G BY <1>0, <2>1
    <3> QED BY <2>1, <3>1, <3>2
  <2>3. Group * j \in Nat /\ Group * j \in Exp /\ Group * i \in Exp /\ Group \in Nat /\ Group \in Exp
    BY <2>1, GroupsCover
  <2>4. 2 ^ (Group * i) = 2 ^ (Group * j) * (2 ^ Group)
    <3>1. Group * j + Group \in Exp BY <2>2, <2>3
    <3>2. 2 ^ (Group * j + Group) = 2 ^ (Group * j) * 2 ^ Group BY <2>3, <3>1, PowerSum
    <3> QED BY <2>2, <3>2
  <2>5. PICK P \in Nat, Q \in Nat : P = 2 ^ (Group * j) /\ Q = 2 ^ Group /\ P > 0 /\ Q > 0 BY <2>3, PowerNat
  <2>6. u % (P * Q) = (u % P) + ((u \div P) % Q) * P
    <3>1. P > 0 /\ Q > 0 /\ u \in Nat BY <1>0, <2>5
    <3> QED BY <3>1, RemainderTwice
  <2>7. s[i] % 2 ^ Group = (u \div P) % Q BY <2>1, <2>5, VarintByte
  <2>8. g[i] = u % (P * Q) /\ g[i - 1] = u % P BY <2>1, <2>4, <2>5
  <2> HIDE DEF g
  <2> QED BY <2>1, <2>5, <2>6, <2>7, <2>8
<1>2. g[0] = 0
  <2>1. Group * 0 = 0 /\ 0 \in 0 .. n BY <1>0, GroupsCover
  <2>2. g[0] = u % 1 BY <2>1, PowerNext
  <2>3. u % 1 = 0 BY <1>0
  <2> QED BY <2>2, <2>3
<1>3. Loop(g)
  <2>1. \A i \in 0 .. n : g[i] = IF i = 0 THEN 0 ELSE g[i - 1] + (s[i] % 2 ^ Group) * 2 ^ (Group * (i - 1))
    <3> HIDE DEF g
    <3>1. \A i \in 0 .. n : i = 0 \/ i \in 1 .. n BY <1>0
    <3> QED BY <1>1, <1>2, <3>1
  <2>2. g = [i \in 0 .. n |-> g[i]] OBVIOUS
  <2> HIDE DEF g
  <2> QED BY <1>0, <2>1, <2>2
<1>4. Loop(sum)
  <2> HIDE DEF Loop, g
  <2> QED BY <1>3
<1>5. DecodeVarint(s, w) = sum[Len(s)] % 2 ^ w BY DEF DecodeVarint
<1>6. g[n] = u % 2 ^ (Group * n) BY <1>0
<1> HIDE DEF sum, g
<1>7. sum[0] = g[0]
  <2>1. 0 \in 0 .. Len(s) BY <1>0
  <2> QED BY <1>3, <1>4, <2>1
<1>8. ASSUME NEW i \in 1 .. n, sum[i - 1] = g[i - 1] PROVE sum[i] = g[i]
  <2>1. i \in 0 .. Len(s) /\ i # 0 BY <1>0
  <2>2. sum[i] = sum[i - 1] + (s[i] % 2 ^ Group) * 2 ^ (Group * (i - 1)) BY <1>4, <2>1
  <2>3. g[i] = g[i - 1] + (s[i] % 2 ^ Group) * 2 ^ (Group * (i - 1)) BY <1>3, <2>1
  <2> QED BY <1>8, <2>2, <2>3
<1> HIDE DEF Loop
<1>9. sum[n] = g[n]
  <2>1. PICK f, h : f = sum /\ h = g OBVIOUS
  <2>2. f[0] = h[0] /\ n \in Nat BY <1>0, <1>7, <2>1
  <2>4. \A i \in 1 .. n : f[i - 1] = h[i - 1] => f[i] = h[i] BY <1>8, <2>1
  <2>3. \A i \in 0 .. n : f[i] = h[i] BY <2>2, <2>4, LoopsAgree
  <2> QED BY <1>0, <2>1, <2>3
<1>10. u % 2 ^ (Group * n) = u /\ u % 2 ^ w = u
  <2>1. Group * n \in Exp /\ w \in Exp BY <1>0, GroupsCover
  <2>2. PICK a \in Nat, b \in Nat : a = 2 ^ (Group * n) /\ b = 2 ^ w BY <2>1, PowerNat
  <2>3. u < a /\ u < b BY <1>0, <2>2 DEF Unsigned
  <2>4. u % a = u /\ u % b = u BY <1>0, <2>3
  <2> QED BY <2>2, <2>4
<1> QED BY <1>0, <1>5, <1>6, <1>9, <1>10

----------------------------------------------------------------------------
\* Reading what was written.

Strings == {"StringF16", "StringVint"}

\* The bytes of a value, or of a string's length, and what they stand for.
HeadOf(k, v, endian) ==
  IF k = "StringF16" THEN InOrder(LowFirst(Len(v) % 2 ^ Width16, 2), endian)
  ELSE IF k = "StringVint" THEN EncodeVarint(Len(v), Width64)
  ELSE Encoded(k, v, endian)
Said(k, v) == IF k \in Strings THEN Len(v) ELSE v

\* byteswap undoes itself.
LEMMA SwapTwice ==
  ASSUME NEW s, Long(s, 2), NEW endian
  PROVE  InOrder(InOrder(s, endian), endian) = s
<1>1. Reverse(s) = [i \in 1 .. 2 |-> s[(2 - i) + 1]] BY DEF Long, Reverse
<1>2. Long(Reverse(s), 2) /\ Reverse(s)[1] = s[2] /\ Reverse(s)[2] = s[1] BY <1>1 DEF Long
<1>3. PICK r : r = Reverse(s) OBVIOUS
<1>4. Reverse(r) = [i \in 1 .. 2 |-> r[(2 - i) + 1]] BY <1>2, <1>3 DEF Long, Reverse
<1>5. Reverse(r) = s BY <1>2, <1>3, <1>4 DEF Long
<1> QED BY <1>3, <1>5 DEF InOrder

\* The reader of a variable-length word stops where it ends.
LEMMA VarintReads ==
  ASSUME NEW w \in {Width32, Width64}, NEW u \in Unsigned(w), NEW n \in 1 .. Groups(w), NEW s,
         Varint(s, u, n), getReadSize \in Nat, n <= getReadSize, \A i \in 1 .. n : Ahead[i] = s[i]
  PROVE  VarintPart(w) = [ok |-> TRUE, used |-> n]
<1> DEFINE Flag(m) == Ahead[m] >= 2 ^ Group
           Ends(m) == (~Flag(m) \/ m = Groups(w)) /\ \A j \in 1 .. m - 1 : Flag(j)
           ends == {m \in 1 .. getReadSize : m <= Groups(w) /\ Ends(m)}
<1>0. n \in Nat /\ n > 0 /\ Groups(w) \in Nat /\ n <= Groups(w) BY GroupsCover
<1>1. \A i \in 1 .. n : Flag(i) <=> i < n BY VarintByte
<1> HIDE DEF Flag
<1>2. n \in ends
  <2>1. n \in 1 .. getReadSize /\ n <= Groups(w) /\ ~Flag(n) BY <1>0, <1>1
  <2>2. \A j \in 1 .. n - 1 : Flag(j) BY <1>0, <1>1
  <2> QED BY <2>1, <2>2
<1>3. ASSUME NEW m \in ends PROVE m = n
  <2>1. m \in 1 .. getReadSize /\ m <= Groups(w) /\ Ends(m) OBVIOUS
  <2>2. ~(m < n) BY <1>0, <1>1, <2>1
  <2>3. ~(n < m)
    <3> SUFFICES ASSUME n < m PROVE FALSE OBVIOUS
    <3>1. n \in 1 .. m - 1 /\ n \in 1 .. n /\ ~(n < n) BY <1>0, <2>1
    <3> QED BY <1>1, <2>1, <3>1
  <2> QED BY <1>0, <2>1, <2>2, <2>3
<1>4. VarintPart(w) = [ok |-> ends # {}, used |-> IF ends = {} THEN getReadSize ELSE CHOOSE m \in ends : TRUE]
  BY DEF VarintPart, Flag
<1> HIDE DEF ends
<1>5. ends # {} BY <1>2
<1>6. (CHOOSE m \in ends : TRUE) \in ends BY <1>5, Zenon
<1>7. (CHOOSE m \in ends : TRUE) = n BY <1>3, <1>6
<1> QED BY <1>4, <1>5, <1>7

\* The two bytes of a word of 16 bits.
LEMMA FixedReads ==
  ASSUME NEW u \in Unsigned(Width16), NEW endian, NEW h, h = InOrder(LowFirst(u, 2), endian)
  PROVE  Long(h, 2) /\ FromLowFirst(InOrder(h, endian)) = u
<1>1. PICK s : s = LowFirst(u, 2) OBVIOUS
<1>2. Long(s, 2) BY <1>1 DEF Long, LowFirst
<1>3. InOrder(h, endian) = s BY <1>1, <1>2, SwapTwice
<1>4. Long(h, 2) BY <1>1, <1>2, InOrderLong
<1> QED BY <1>1, <1>3, <1>4, FixedBack

LEMMA LongUnique ==
  ASSUME NEW s, NEW m, NEW n, Long(s, m), Long(s, n)
  PROVE  m = n
BY DEF Long

\* A reader takes the head of a value for what it is.
LEMMA HeadReads ==
  ASSUME NEW k \in KindNames, NEW v \in Values[k], Fits(k, v), NEW h, h = HeadOf(k, v, m_endian),
         NEW n \in Nat, Long(h, n), getReadSize \in Nat, n <= getReadSize,
         \A i \in 1 .. n : Ahead[i] = h[i]
  PROVE  Part(k) = [ok |-> TRUE, used |-> n] /\ Decoded(k, h) = Said(k, v)
<1>0. Width16 \in Exp /\ Width16 > 0 /\ Width32 \in Exp /\ Width32 > 0 /\ Width64 \in Exp /\ Width64 > 0
      /\ Width32 <= Width64 /\ Width32 <= Width32 /\ 0 < Width32
  BY ExpOK DEF Exp, MaxExp
<1>1. ASSUME NEW j \in Nat, Long(h, j) PROVE FixedPart(j) = [ok |-> TRUE, used |-> n]
  <2>1. j = n BY <1>1, LongUnique
  <2> QED BY <2>1 DEF FixedPart
<1>2. ASSUME NEW w \in {Width32, Width64}, NEW u \in Unsigned(w), h = EncodeVarint(u, w)
      PROVE  VarintPart(w) = [ok |-> TRUE, used |-> n] /\ DecodeVarint(h, w) = u
  <2>1. PICK m \in 1 .. Groups(w) : Varint(h, u, m) BY <1>2, VarintIs
  <2>2. Long(h, m) BY <2>1 DEF Varint
  <2>3. m = n BY <2>2, LongUnique
  <2>4. n \in 1 .. Groups(w) /\ Varint(h, u, n) BY <2>1, <2>3
  <2>5. VarintPart(w) = [ok |-> TRUE, used |-> n] BY <2>4, VarintReads
  <2>6. DecodeVarint(h, w) = u BY <2>4, VarintBack
  <2> QED BY <2>5, <2>6
<1>3. CASE k = "Fuint8"
  <2>1. h = << v >> BY <1>3 DEF HeadOf, Encoded
  <2>2. Long(h, 1) /\ 1 \in Nat /\ h[1] = v
    <3>1. Long(<< v >>, 1) /\ << v >>[1] = v BY DEF Long
    <3> QED BY <2>1, <3>1
  <2>3. FixedPart(1) = [ok |-> TRUE, used |-> n] BY <1>1, <2>2
  <2>4. Part(k) = FixedPart(1) BY <1>3 DEF Part
  <2>5. Decoded(k, h) = h[1] BY <1>3 DEF Decoded
  <2>6. Said(k, v) = v BY <1>3 DEF Said, Strings
  <2> QED BY <2>2, <2>3, <2>4, <2>5, <2>6
<1>4. CASE k = "Fint16"
  <2>1. PICK u : u = Word(v, Width16) OBVIOUS
  <2>2. v \in Integer(Width16) BY <1>4, ValuesAssumption
  <2>3. u \in Unsigned(Width16) /\ Signed(u, Width16) = v BY <1>0, <2>1, <2>2, SignedBack
  <2>4. h = InOrder(LowFirst(u, 2), m_endian) BY <1>4, <2>1 DEF HeadOf, Encoded
  <2>5. Long(h, 2) /\ FromLowFirst(InOrder(h, m_endian)) = u /\ 2 \in Nat BY <2>3, <2>4, FixedReads
  <2>6. FixedPart(2) = [ok |-> TRUE, used |-> n] BY <1>1, <2>5
  <2>7. Part(k) = FixedPart(2) BY <1>4 DEF Part
  <2>8. Decoded(k, h) = Signed(FromLowFirst(InOrder(h, m_endian)), Width16) BY <1>4 DEF Decoded
  <2>9. Said(k, v) = v BY <1>4 DEF Said, Strings
  <2> QED BY <2>3, <2>5, <2>6, <2>7, <2>8, <2>9
<1>5. CASE k = "StringF16"
  <2>1. PICK u : u = Len(v) % 2 ^ Width16 OBVIOUS
  <2>2. u = Len(v) /\ u \in Unsigned(Width16)
    <3>1. Len(v) \in Unsigned(Width16) BY <1>5 DEF Fits
    <3>2. PICK b \in Nat : b = 2 ^ Width16 BY <1>0, PowerNat
    <3>3. Len(v) \in Nat /\ Len(v) < b BY <3>1, <3>2 DEF Unsigned
    <3>4. Len(v) % b = Len(v) BY <3>3
    <3> QED BY <2>1, <3>1, <3>2, <3>4
  <2>4. h = InOrder(LowFirst(u, 2), m_endian) BY <1>5, <2>1 DEF HeadOf
  <2>5. Long(h, 2) /\ FromLowFirst(InOrder(h, m_endian)) = u /\ 2 \in Nat BY <2>2, <2>4, FixedReads
  <2>6. FixedPart(2) = [ok |-> TRUE, used |-> n] BY <1>1, <2>5
  <2>7. Part(k) = FixedPart(2) BY <1>5 DEF Part
  <2>8. Decoded(k, h) = FromLowFirst(InOrder(h, m_endian)) BY <1>5 DEF Decoded
  <2>9. Said(k, v) = Len(v) BY <1>5 DEF Said, Strings
  <2> QED BY <2>2, <2>5, <2>6, <2>7, <2>8, <2>9
<1>6. CASE k = "Uint32"
  <2>1. v \in Unsigned(Width32) BY <1>6, ValuesAssumption
  <2>2. h = EncodeVarint(v, Width32) BY <1>6 DEF HeadOf, Encoded
  <2>3. VarintPart(Width32) = [ok |-> TRUE, used |-> n] /\ DecodeVarint(h, Width32) = v BY <1>2, <2>1, <2>2
  <2>4. Part(k) = VarintPart(Width32) BY <1>6 DEF Part
  <2>5. Decoded(k, h) = DecodeVarint(h, Width32) BY <1>6 DEF Decoded
  <2>6. Said(k, v) = v BY <1>6 DEF Said, Strings
  <2> QED BY <2>3, <2>4, <2>5, <2>6
<1>7. CASE k = "Uint64"
  <2>1. v \in Unsigned(Width64) BY <1>7, ValuesAssumption
  <2>2. h = EncodeVarint(v, Width64) BY <1>7 DEF HeadOf, Encoded
  <2>3. VarintPart(Width64) = [ok |-> TRUE, used |-> n] /\ DecodeVarint(h, Width64) = v BY <1>2, <2>1, <2>2
  <2>4. Part(k) = VarintPart(Width64) BY <1>7 DEF Part
  <2>5. Decoded(k, h) = DecodeVarint(h, Width64) BY <1>7 DEF Decoded
  <2>6. Said(k, v) = v BY <1>7 DEF Said, Strings
  <2> QED BY <2>3, <2>4, <2>5, <2>6
<1>8. CASE k = "StringVint"
  <2>1. Len(v) \in Unsigned(Width64) BY <1>8, ValuesAssumption
  <2>2. h = EncodeVarint(Len(v), Width64) BY <1>8 DEF HeadOf
  <2>3. VarintPart(Width64) = [ok |-> TRUE, used |-> n] /\ DecodeVarint(h, Width64) = Len(v) BY <1>2, <2>1, <2>2
  <2>4. Part(k) = VarintPart(Width64) BY <1>8 DEF Part
  <2>5. Decoded(k, h) = DecodeVarint(h, Width64) BY <1>8 DEF Decoded
  <2>6. Said(k, v) = Len(v) BY <1>8 DEF Said, Strings
  <2> QED BY <2>3, <2>4, <2>5, <2>6
<1>9. CASE k = "Int32"
  <2>1. v \in Integer(Width32) BY <1>9, ValuesAssumption
  <2>2. PICK u : u = EncodeZigzag(v, Width32, Width32) OBVIOUS
  <2>3. u \in Unsigned(Width32) /\ DecodeZigzag(u, Width32) = v BY <1>0, <2>1, <2>2, ZigzagBack
  <2>4. h = EncodeVarint(u, Width32) BY <1>9, <2>2 DEF HeadOf, Encoded
  <2>5. VarintPart(Width32) = [ok |-> TRUE, used |-> n] /\ DecodeVarint(h, Width32) = u BY <1>2, <2>3, <2>4
  <2>6. Part(k) = VarintPart(Width32) BY <1>9 DEF Part
  <2>7. Decoded(k, h) = DecodeZigzag(DecodeVarint(h, Width32), Width32) BY <1>9 DEF Decoded
  <2>8. Said(k, v) = v BY <1>9 DEF Said, Strings
  <2> QED BY <2>3, <2>5, <2>6, <2>7, <2>8
<1>10. CASE k = "Int64"
  <2>1. v \in Integer(Width32) BY <1>10 DEF Fits
  <2>2. PICK u : u = EncodeZigzag(v, Width64, Width32) OBVIOUS
  <2>3. u \in Unsigned(Width32) /\ DecodeZigzag(u, Width64) = v BY <1>0, <2>1, <2>2, ZigzagBack
  <2>4. u \in Unsigned(Width64)
    <3>1. Width32 \in Nat /\ 2 ^ Width32 <= 2 ^ Width64 BY <1>0, ExpOK, PowerMono
    <3>2. PICK a \in Nat, b \in Nat : a = 2 ^ Width32 /\ b = 2 ^ Width64 BY <1>0, PowerNat
    <3> QED BY <2>3, <3>1, <3>2 DEF Unsigned
  <2>5. h = EncodeVarint(u, Width64) BY <1>10, <2>2 DEF HeadOf, Encoded
  <2>6. VarintPart(Width64) = [ok |-> TRUE, used |-> n] /\ DecodeVarint(h, Width64) = u BY <1>2, <2>4, <2>5
  <2>7. Part(k) = VarintPart(Width64) BY <1>10 DEF Part
  <2>8. Decoded(k, h) = DecodeZigzag(DecodeVarint(h, Width64), Width64) BY <1>10 DEF Decoded
  <2>9. Said(k, v) = v BY <1>10 DEF Said, Strings
  <2> QED BY <2>3, <2>6, <2>7, <2>8, <2>9
<1> QED BY <1>3, <1>4, <1>5, <1>6, <1>7, <1>8, <1>9, <1>10 DEF KindNames

\* A value is its head, and a string's bytes behind it.
Begins(k, v, s, h, len, n) ==
  /\ Long(h, n) /\ \A i \in 1 .. n : s[i] = h[i]
  /\ k \notin Strings => n = len
  /\ k \in Strings => Len(v) \in Nat /\ len = n + Len(v) /\ v = [i \in 1 .. Len(v) |-> s[n + i]]

LEMMA EncodedHead ==
  ASSUME NEW k \in KindNames, NEW v \in Values[k], NEW endian, NEW len \in Nat,
         NEW s, s = Encoded(k, v, endian), Long(s, len), NEW h, h = HeadOf(k, v, endian)
  PROVE  \E n \in 0 .. len : Begins(k, v, s, h, len, n)
<1>1. CASE k \notin Strings
  <2>1. h = s BY <1>1 DEF HeadOf, Strings
  <2>2. len \in 0 .. len OBVIOUS
  <2>3. Begins(k, v, s, h, len, len) BY <1>1, <2>1 DEF Begins
  <2> QED BY <2>2, <2>3
<1>2. CASE k \in Strings
  <2>1. v \in Seq(Byte) BY <1>2, ValuesAssumption DEF Strings
  <2>2. PICK m \in Nat : m = Len(v) /\ Long(v, m) BY <2>1 DEF Long
  <2>3. PICK n \in Nat : Long(h, n)
    <3>1. CASE k = "StringF16"
      <4>1. h = InOrder(LowFirst(Len(v) % 2 ^ Width16, 2), endian) BY <3>1 DEF HeadOf
      <4>2. Long(LowFirst(Len(v) % 2 ^ Width16, 2), 2) BY DEF Long, LowFirst
      <4>3. Long(h, 2) /\ 2 \in Nat BY <4>1, <4>2, InOrderLong
      <4> QED BY <4>3
    <3>2. CASE k = "StringVint"
      <4>1. h = EncodeVarint(Len(v), Width64) BY <3>2 DEF HeadOf
      <4> QED BY <4>1, VarintLong, ExpOK
    <3> QED BY <1>2, <3>1, <3>2 DEF Strings
  <2>4. s = h \o v
    <3>1. CASE k = "StringF16" BY <3>1 DEF HeadOf, Encoded
    <3>2. CASE k = "StringVint" BY <3>2 DEF HeadOf, Encoded
    <3> QED BY <1>2, <3>1, <3>2 DEF Strings
  <2>5. Long(s, n + m) BY <2>2, <2>3, <2>4, JoinedLong
  <2>6. len = n + m BY <2>5, LongUnique
  <2>7. (\A i \in 1 .. n : s[i] = h[i]) /\ \A i \in 1 .. m : s[n + i] = v[i]
    <3>1. PICK y : y = v OBVIOUS
    <3>2. Long(h, n) /\ Long(y, m) BY <2>2, <2>3, <3>1
    <3>3. (\A i \in 1 .. n : (h \o y)[i] = h[i]) /\ \A i \in 1 .. m : (h \o y)[n + i] = y[i]
      BY <3>2 DEF Long
    <3> QED BY <2>4, <3>1, <3>3
  <2>8. v = [i \in 1 .. m |-> v[i]] BY <2>2 DEF Long
  <2>9. v = [i \in 1 .. m |-> s[n + i]] BY <2>7, <2>8
  <2>10. n \in 0 .. len BY <2>2, <2>6
  <2>11. Begins(k, v, s, h, len, n) BY <1>2, <2>2, <2>3, <2>6, <2>7, <2>9 DEF Begins
  <2> QED BY <2>10, <2>11
<1> QED BY <1>1, <1>2

\* The bytes of an item are where it was written.
Held(it) ==
  /\ it.at \in Nat /\ it.len \in Nat /\ it.at + it.len <= m_size
  /\ it.kind \in KindNames /\ it.value \in Values[it.kind]
  /\ Long(Encoded(it.kind, it.value, it.endian), it.len)
  /\ \A i \in 1 .. it.len : At(it.at + i - 1) = Encoded(it.kind, it.value, it.endian)[i]

ItemsOK == \A it \in items : Held(it)

LEMMA AheadIs ==
  ASSUME Inv
  PROVE  Long(Ahead, getReadSize) /\ \A i \in 1 .. getReadSize : Ahead[i] = At(m_position + i - 1)
<1>1. getReadSize \in Nat /\ m_position \in Nat /\ m_size = m_position + getReadSize BY InvReady
<1>2. m_position + getReadSize <= m_size BY <1>1
<1>3. SubSeq(Content, m_position + 1, m_position + getReadSize)
        = [i \in 1 .. getReadSize |-> At(m_position + i - 1)]
  BY <1>1, <1>2, ContentIs
<1>4. Ahead = [i \in 1 .. getReadSize |-> At(m_position + i - 1)]
  BY <1>1, <1>3, InvBuffers DEF BuffersAgree, toString, Ahead
<1> QED BY <1>1, <1>4 DEF Long

\* A part of a long sequence.
LEMMA PartIs ==
  ASSUME NEW s, NEW l \in Nat, Long(s, l), NEW a \in Nat, NEW n \in Nat, a + n <= l
  PROVE  SubSeq(s, a + 1, a + n) = [i \in 1 .. n |-> s[a + i]]
BY DEF Long

LEMMA ItemReads ==
  ASSUME Inv, NEW it, Held(it), m_position = it.at, m_endian = it.endian, Fits(it.kind, it.value)
  PROVE  LET r == Reading(it.kind) IN ~r.throws /\ r.value = it.value /\ r.used = it.len
<1> DEFINE R == getReadSize
<1>0. PICK k, v, len, s, h : k = it.kind /\ v = it.value /\ len = it.len
        /\ s = Encoded(k, v, m_endian) /\ h = HeadOf(k, v, m_endian) OBVIOUS
<1>1. k \in KindNames /\ v \in Values[k] /\ len \in Nat /\ Long(s, len) /\ Fits(k, v)
  BY <1>0 DEF Held
<1>2. R \in Nat /\ m_position \in Nat /\ m_size = m_position + R /\ len <= R
  <2>1. it.at + it.len <= m_size BY DEF Held
  <2> QED BY <1>0, <1>1, <2>1, InvReady
<1>3. \A i \in 1 .. len : Ahead[i] = s[i]
  <2>1. ASSUME NEW i \in 1 .. len PROVE Ahead[i] = s[i]
    <3>1. i \in 1 .. R BY <1>1, <1>2
    <3>2. Ahead[i] = At(m_position + i - 1) BY <3>1, AheadIs
    <3>3. At(m_position + i - 1) = s[i] BY <1>0 DEF Held
    <3> QED BY <3>2, <3>3
  <2> QED BY <2>1
<1>4. PICK n \in 0 .. len : Begins(k, v, s, h, len, n)
  <2>1. PICK e : e = m_endian OBVIOUS
  <2>2. s = Encoded(k, v, e) /\ h = HeadOf(k, v, e) BY <1>0, <2>1
  <2> QED BY <1>1, <2>2, EncodedHead, Zenon
<1>5. n \in Nat /\ n <= R /\ n <= len BY <1>1, <1>2
<1>6. \A i \in 1 .. n : Ahead[i] = h[i] BY <1>1, <1>3, <1>4 DEF Begins
<1>7. Part(k) = [ok |-> TRUE, used |-> n] /\ Decoded(k, h) = Said(k, v)
  <2>1. Long(h, n) /\ h = HeadOf(k, v, m_endian) BY <1>0, <1>4 DEF Begins
  <2> QED BY <1>1, <1>2, <1>5, <1>6, <2>1, HeadReads
<1>8. SubSeq(Ahead, 1, n) = h
  <2>1. Long(Ahead, R) BY AheadIs
  <2>2. SubSeq(Ahead, 0 + 1, 0 + n) = [i \in 1 .. n |-> Ahead[0 + i]] BY <1>2, <1>5, <2>1, PartIs
  <2>3. 0 + 1 = 1 /\ 0 + n = n /\ \A i \in 1 .. n : 0 + i = i BY <1>5
  <2>4. h = [i \in 1 .. n |-> h[i]] BY <1>4 DEF Long, Begins
  <2> QED BY <1>6, <2>2, <2>3, <2>4
<1> DEFINE part == Part(k)
           head == Decoded(k, SubSeq(Ahead, 1, part.used))
           string == k \in {"StringF16", "StringVint"}
           body == IF string /\ part.ok THEN head ELSE 0
           throws == ~part.ok \/ body \notin 0 .. R - part.used
           used == IF throws THEN part.used ELSE part.used + body
<1>9. /\ Reading(k).throws = throws /\ Reading(k).used = used
      /\ Reading(k).value = IF throws THEN << >>
                            ELSE IF string THEN SubSeq(Ahead, part.used + 1, used) ELSE head
  BY DEF Reading
<1>10. part.ok = TRUE /\ part.used = n /\ head = Said(k, v)
  <2>1. part.ok = TRUE /\ part.used = n BY <1>7
  <2> HIDE DEF part
  <2> QED BY <1>7, <1>8, <2>1
<1> HIDE DEF part, head
<1>11. CASE string
  <2>1. k \in Strings BY <1>11 DEF Strings
  <2>2. head = Len(v) /\ Len(v) \in Nat /\ len = n + Len(v) /\ v = [i \in 1 .. Len(v) |-> s[n + i]]
    BY <1>4, <1>10, <2>1 DEF Said, Begins
  <2>3. body = Len(v) BY <1>10, <1>11, <2>2
  <2>4. ~throws BY <1>2, <1>5, <1>10, <2>2, <2>3
  <2>5. used = len BY <1>10, <2>2, <2>3, <2>4
  <2>6. SubSeq(Ahead, n + 1, n + Len(v)) = [i \in 1 .. Len(v) |-> Ahead[n + i]]
    <3>1. Long(Ahead, R) /\ n + Len(v) <= R BY <1>2, <2>2, AheadIs
    <3> QED BY <1>2, <1>5, <2>2, <3>1, PartIs
  <2>7. \A i \in 1 .. Len(v) : Ahead[n + i] = s[n + i] BY <1>3, <1>5, <2>2
  <2>8. SubSeq(Ahead, n + 1, len) = v BY <2>2, <2>6, <2>7
  <2> HIDE DEF throws, used, body
  <2> QED BY <1>0, <1>9, <1>10, <1>11, <2>4, <2>5, <2>8
<1>12. CASE ~string
  <2>1. k \notin Strings BY <1>12 DEF Strings
  <2>2. n = len /\ head = v /\ body = 0 BY <1>4, <1>10, <1>12, <2>1 DEF Said, Begins
  <2>3. ~throws BY <1>2, <1>5, <1>10, <2>2
  <2>4. used = len BY <1>1, <1>10, <2>2, <2>3
  <2> HIDE DEF throws, used, body
  <2> QED BY <1>0, <1>9, <1>12, <2>2, <2>3, <2>4
<1> QED BY <1>11, <1>12

\* Every byte stored is found at its place.
LEMMA StoredHere ==
  ASSUME NEW cur, NEW chain, NEW s, NEW size \in Nat, Long(s, size),
         Ready(cur, chain, m_position + size), NEW i \in 1 .. size, NEW a \in Nat, a = m_position + i - 1
  PROVE  Stored(cur, s, chain)[a \div BaseSize + 1][a % BaseSize] = s[i]
<1> DEFINE n == a \div BaseSize + 1
           j == a % BaseSize
           Here(x) == BlockOf(cur, x - 1, chain) = n /\ Offset(x - 1) % BaseSize = j
<1>1. m_position \in Nat /\ Len(chain) \in Nat /\ Len(chain) * BaseSize \in Nat
      /\ m_position + size <= Len(chain) * BaseSize /\ Len(s) = size
  BY BaseOK DEF Ready, Long
<1>2. a < Len(chain) * BaseSize BY <1>1
<1>3. n \in 1 .. Len(chain) /\ j \in 0 .. BaseSize - 1 BY <1>1, <1>2, PlaceInside
<1>4. ASSUME NEW x \in 1 .. size PROVE Here(x) <=> x = i
  <2>1. PICK t \in Nat, at \in Nat : t = x - 1 /\ at = m_position + t /\ at < Len(chain) * BaseSize
    <3>1. x - 1 \in Nat /\ m_position + (x - 1) \in Nat /\ m_position + (x - 1) < Len(chain) * BaseSize BY <1>1
    <3> QED BY <3>1
  <2>2. BlockOf(cur, t, chain) = Cur(at, Len(chain)) /\ Offset(t) % BaseSize = at % BaseSize
    <3>1. m_position + t <= Len(chain) * BaseSize BY <1>1, <2>1
    <3> QED BY <2>1, <3>1, ReadyBlock
  <2>3. Cur(at, Len(chain)) = at \div BaseSize + 1 BY <1>1, <2>1, CurInside
  <2>4. at \div BaseSize \in Nat /\ a \div BaseSize \in Nat BY Divided
  <2>5. Here(x) <=> (at \div BaseSize + 1 = n /\ at % BaseSize = j) BY <2>1, <2>2, <2>3
  <2>6. Here(x) <=> at = a BY <2>4, <2>5, PlaceUnique
  <2>7. at = a <=> x = i BY <1>1, <2>1
  <2> QED BY <2>6, <2>7
<1>5. Stored(cur, s, chain)[n][j] = IF \E x \in 1 .. Len(s) : Here(x)
                                    THEN s[CHOOSE x \in 1 .. Len(s) : Here(x)] ELSE chain[n][j]
  BY <1>3 DEF Stored
<1> HIDE DEF Here
<1>6. Here(i) BY <1>4
<1>7. (CHOOSE x \in 1 .. Len(s) : Here(x)) = i
  <2>1. \E x \in 1 .. Len(s) : Here(x) BY <1>1, <1>6
  <2>2. (CHOOSE x \in 1 .. Len(s) : Here(x)) \in 1 .. Len(s) /\ Here(CHOOSE x \in 1 .. Len(s) : Here(x))
    BY <2>1, Zenon
  <2> QED BY <1>1, <1>4, <2>2
<1> QED BY <1>1, <1>5, <1>6, <1>7

LEMMA FillsHere ==
  ASSUME Inv, NEW size \in Nat, NEW cur, NEW chain, NEW s, Fills(cur, chain, s, size),
         NEW i \in 1 .. size, NEW a \in Nat, a = m_position + i - 1
  PROVE  At(a)' = s[i]
<1>1. Ready(cur, chain, m_position + size) /\ Long(s, size) /\ nodes' = Stored(cur, s, chain)
  BY DEF Fills
<1>2. Stored(cur, s, chain)[a \div BaseSize + 1][a % BaseSize] = s[i] BY <1>1, StoredHere
<1> QED BY <1>1, <1>2 DEF At

\* An item none of whose bytes are stored over stays.
LEMMA HeldStays ==
  ASSUME NEW it, Held(it), m_size \in Nat, m_size' \in Nat, m_size <= m_size',
         \A i \in 1 .. it.len : At(it.at + i - 1)' = At(it.at + i - 1)
  PROVE  Held(it)'
<1>1. it.at + it.len <= m_size' BY DEF Held
<1> QED BY <1>1 DEF Held

LEMMA FillsKeeps ==
  ASSUME Inv, NEW size \in Nat, NEW cur, NEW chain, NEW s, Fills(cur, chain, s, size),
         NEW it, Held(it), ~Overlaps(it, m_position, m_position + size)
  PROVE  Held(it)'
<1>1. m_position \in Nat /\ m_size \in Nat /\ m_size' = Larger(m_size, m_position + size)
  BY InvReady DEF Fills
<1>2. m_size' \in Nat /\ m_size <= m_size' BY <1>1 DEF Larger
<1>3. ASSUME NEW i \in 1 .. it.len PROVE At(it.at + i - 1)' = At(it.at + i - 1)
  <2>1. it.at \in Nat /\ it.len \in Nat /\ it.at + it.len <= m_size BY DEF Held
  <2>2. PICK a \in Nat : a = it.at + i - 1 /\ a < m_size /\ (a < m_position \/ a >= m_position + size)
    <3>1. it.at + i - 1 \in Nat /\ it.at + i - 1 < m_size BY <1>1, <2>1
    <3>2. it.at + i - 1 < m_position \/ it.at + i - 1 >= m_position + size
      BY <1>1, <2>1 DEF Overlaps
    <3> QED BY <3>1, <3>2
  <2>3. At(a)' = At(a) BY <2>2, FillsElsewhere
  <2> QED BY <2>2, <2>3
<1> QED BY <1>1, <1>2, <1>3, HeldStays

LEMMA StepItems == Inv /\ ItemsOK /\ [Next]_vars => ItemsOK'
<1> SUFFICES ASSUME Inv, ItemsOK, [Next]_vars PROVE ItemsOK' OBVIOUS
<1>0. m_size \in Nat /\ m_position \in Nat BY InvReady
<1>1. ASSUME nodes' = nodes, items' = items, m_size' \in Nat, m_size <= m_size' PROVE ItemsOK'
  <2> SUFFICES ASSUME NEW it \in items PROVE Held(it)' BY <1>1 DEF ItemsOK
  <2>1. \A i \in 1 .. it.len : At(it.at + i - 1)' = At(it.at + i - 1) BY <1>1 DEF At
  <2>2. Held(it) BY DEF ItemsOK
  <2> QED BY <1>0, <1>1, <2>1, <2>2, HeldStays
<1>2. ASSUME NEW k \in kinds, NEW b \in Fresh, NEW v \in Values[k], Write(k, v, b) PROVE ItemsOK'
  <2>1. PICK size \in Nat \ {0} : \E cur, chain, s :
          /\ Fills(cur, chain, s, size) /\ s = Encoded(k, v, m_endian)
          /\ items' \subseteq Intact(m_position, m_position + size) \cup {ItemOf(k, v, size)}
    BY <1>2, WriteFills, Zenon
  <2>2. PICK cur, chain, s :
          /\ Fills(cur, chain, s, size) /\ s = Encoded(k, v, m_endian)
          /\ items' \subseteq Intact(m_position, m_position + size) \cup {ItemOf(k, v, size)}
    BY <2>1, Zenon
  <2>3. size \in Nat /\ size > 0 OBVIOUS
  <2>4. PICK new : new = ItemOf(k, v, size) OBVIOUS
  <2>5. Held(new)'
    <3>1. new.at = m_position /\ new.len = size /\ new.kind = k /\ new.endian = m_endian /\ new.value = v
      BY <2>4 DEF ItemOf
    <3>2. Encoded(new.kind, new.value, new.endian) = s BY <2>2, <3>1
    <3>3. k \in KindNames BY DEF Inv, Bounds
    <3>4. Long(s, size) BY <2>2 DEF Fills
    <3>5. m_position + size <= m_size' BY <1>0, <2>2, <2>3 DEF Fills, Larger
    <3>6. ASSUME NEW i \in 1 .. size PROVE At(new.at + i - 1)' = s[i]
      <4>1. PICK a \in Nat : a = m_position + i - 1
        <5>1. m_position + i - 1 \in Nat BY <1>0, <2>3
        <5> QED BY <5>1
      <4>2. At(a)' = s[i] BY <2>2, <2>3, <4>1, FillsHere
      <4>3. new.at + i - 1 = a BY <3>1, <4>1
      <4> QED BY <4>2, <4>3
    <3>7. new.at \in Nat /\ new.len \in Nat /\ new.at + new.len <= m_size' /\ new.kind \in KindNames
          /\ new.value \in Values[new.kind] /\ Long(s, new.len)
      BY <1>0, <2>3, <3>1, <3>3, <3>4, <3>5
    <3>8. \A i \in 1 .. new.len : At(new.at + i - 1)' = s[i] BY <3>1, <3>6
    <3> QED BY <3>2, <3>7, <3>8 DEF Held
  <2>6. ASSUME NEW it \in Intact(m_position, m_position + size) PROVE Held(it)'
    <3>1. it \in items /\ ~Overlaps(it, m_position, m_position + size) BY DEF Intact
    <3>2. Held(it) BY <3>1 DEF ItemsOK
    <3> QED BY <2>2, <2>3, <3>1, <3>2, FillsKeeps
  <2>7. \A it \in items' : Held(it)' BY <2>2, <2>4, <2>5, <2>6
  <2> QED BY <2>7 DEF ItemsOK
<1>3. ASSUME NEW size \in Chunks, NEW b \in Fresh, NEW n \in 0 .. size, Receive(size, n, b) PROVE ItemsOK'
  <2>1. n \in Nat BY WidthsAssumption
  <2>2. PICK cur, chain, s : Fills(cur, chain, s, n) BY <1>3, ReceiveFills
  <2>3. items' = Intact(m_position, m_position + n) BY <1>3, ReceiveFills
  <2>4. ASSUME NEW it \in Intact(m_position, m_position + n) PROVE Held(it)'
    <3>1. it \in items /\ ~Overlaps(it, m_position, m_position + n) BY DEF Intact
    <3>2. Held(it) BY <3>1 DEF ItemsOK
    <3> QED BY <2>1, <2>2, <3>1, <3>2, FillsKeeps
  <2> QED BY <2>3, <2>4 DEF ItemsOK
<1>4. ASSUME NEW k \in kinds, Read(k) PROVE ItemsOK' BY <1>0, <1>1, <1>4 DEF Read
<1>5. ASSUME NEW n, Send(n) PROVE ItemsOK' BY <1>0, <1>1, <1>5 DEF Send
<1>6. ASSUME NEW v \in 0 .. MaxNodes * BaseSize, SetPosition(v) PROVE ItemsOK'
  <2>1. v \in Nat BY BaseOK, WidthsAssumption
  <2>2. m_size' \in Nat /\ m_size <= m_size' BY <1>0, <1>6, <2>1 DEF SetPosition, Larger
  <2> QED BY <1>1, <1>6, <2>2 DEF SetPosition
<1>7. ASSUME NEW val, SetIsLittleEndian(val) PROVE ItemsOK'
  BY <1>0, <1>1, <1>7 DEF SetIsLittleEndian, arrayVars
<1>8. CASE Clear BY <1>8 DEF Clear, ItemsOK
<1>9. CASE UNCHANGED vars BY <1>0, <1>1, <1>9 DEF vars, arrayVars
<1> QED BY <1>2, <1>3, <1>4, <1>5, <1>6, <1>7, <1>8, <1>9 DEF Next

\* Whatever was written is read back, with any number of writes, seeks, buffer fills
\* and reads between, across blocks and in either byte order: the writers' and the
\* readers' codes are inverse, fixed, in groups and with zigzag, for every width; no
\* byte of a value is touched but by a write over it.  What EncodeZigzag64 or a
\* length of 16 bits cuts off is all that is lost.
THEOREM ByteArrayReadsBack == Spec => []ReadsBack
<1>1. Init => ItemsOK BY DEF Init, ItemsOK
<1>2. Inv /\ ItemsOK => ReadsBack
  <2> SUFFICES ASSUME Inv, NEW it \in items, Held(it), m_position = it.at, m_endian = it.endian,
                      Fits(it.kind, it.value)
               PROVE  LET r == Reading(it.kind)
                      IN  r.crash \/ (~r.throws /\ r.value = it.value /\ r.used = it.len)
    BY DEF ReadsBack, ItemsOK
  <2> QED BY ItemReads
<1> QED BY <1>1, <1>2, StepItems, InvAlways, PTL DEF Spec
=============================================================================
