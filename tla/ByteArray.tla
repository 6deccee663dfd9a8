----------------------------- MODULE ByteArray -----------------------------
(***************************************************************************)
(* megalo::ByteArray (bytearray.h/.cc): bytes in a chain of blocks of      *)
(* m_baseSize, a position, and a pointer m_cur to the block the position   *)
(* is in, null when the position is the capacity.  Every operation goes    *)
(* through m_cur; nothing but their care keeps m_cur and m_position        *)
(* together.  Values are written with fixed width in either byte order, or *)
(* in groups of ByteBits - 1 bits with a continuation flag, signed ones    *)
(* after zigzag coding; socket_stream.cc lets the kernel fill and send the *)
(* blocks directly.                                                        *)
(*                                                                         *)
(* Widths are parameters: a byte has ByteBits bits (8), the words have     *)
(* Width16, Width32 and Width64 bits.                                      *)
(***************************************************************************)
EXTENDS Integers, Sequences, FiniteSets, SequencesExt

CONSTANTS
  BaseSize,                     \* m_baseSize
  MaxNodes,                     \* bound: blocks
  ByteBits,                     \* 8
  Width16, Width32, Width64,    \* 16, 32, 64; Width16 is two bytes
  KindSets,                     \* sets of types that one client writes and reads
  Values,                       \* Values[k]: the values they write
  Fresh,                        \* what fills a new block (uninitialised memory)
  Chunks,                       \* how much a stream asks for at once
  MaxItems                      \* bound: values remembered for reading back

KindNames == {"Fuint8", "Fint16", "Uint32", "Int32", "Uint64", "Int64",
              "StringF16", "StringVint"}

Byte == 0 .. 2 ^ ByteBits - 1

ASSUME WidthsAssumption ==
  /\ BaseSize \in Nat \ {0} /\ MaxNodes \in Nat \ {0} /\ MaxItems \in Nat
  /\ ByteBits \in Nat \ {0, 1}
  /\ Width16 = 2 * ByteBits /\ Width32 \in Nat \ {0} /\ Width64 = 2 * Width32
  /\ KindSets \subseteq SUBSET KindNames /\ Chunks \subseteq Nat \ {0}
  /\ Fresh \subseteq Byte /\ Fresh # {}

\* The integers of w bits, without and with a sign.
Unsigned(w) == 0 .. 2 ^ w - 1
Integer(w) == -(2 ^ (w - 1)) .. 2 ^ (w - 1) - 1

\* Every value is one of its C++ type.
ASSUME ValuesAssumption ==
  /\ Values["Fuint8"] \subseteq Byte /\ Values["Fint16"] \subseteq Integer(Width16)
  /\ Values["Uint32"] \subseteq Unsigned(Width32) /\ Values["Int32"] \subseteq Integer(Width32)
  /\ Values["Uint64"] \subseteq Unsigned(Width64) /\ Values["Int64"] \subseteq Integer(Width64)
  /\ \A k \in {"StringF16", "StringVint"} : \A v \in Values[k] :
       v \in Seq(Byte) /\ Len(v) \in Unsigned(Width64)

\* Powers of two, of which the proofs know only this.
ASSUME PowersAssumption ==
  2 ^ 0 = 1 /\ \A n \in 0 .. Width16 + Width64 : 2 ^ (n + 1) = 2 * 2 ^ n

VARIABLES
  nodes,        \* the chain: nodes[i] is the content of the i-th block
  m_cur,        \* an index into it, or Null
  m_position,
  m_size,
  m_endian,     \* "big" or "little"
  kinds,        \* what this array's client writes and reads
  items,        \* values written and not overwritten since: see Remember
  fault         \* "read" or "write" has dereferenced a null block

arrayVars == <<nodes, m_cur, m_position, m_size>>
vars == <<arrayVars, m_endian, kinds, items, fault>>

Null == 0

Init ==
  /\ \E b \in Fresh : nodes = << [i \in 0 .. BaseSize - 1 |-> b] >>
  /\ m_cur = 1
  /\ m_position = 0
  /\ m_size = 0
  /\ m_endian = "big"
  /\ kinds \in KindSets
  /\ items = {}
  /\ fault = "none"

m_capacity == Len(nodes) * BaseSize

getReadSize == m_size - m_position

----------------------------------------------------------------------------
\* Coding.

\* A signed value as the word of w bits that holds it, and back.
Word(v, w) == v % 2 ^ w
Signed(u, w) == IF u >= 2 ^ (w - 1) THEN u - 2 ^ w ELSE u

\* The n bytes of u, lowest first; byteswap turns them round.
LowFirst(u, n) == [i \in 1 .. n |-> (u \div 2 ^ (ByteBits * (i - 1))) % 2 ^ ByteBits]
InOrder(s, endian) == IF endian = "little" THEN s ELSE Reverse(s)

FromLowFirst(s) ==
  LET Sum[i \in 0 .. Len(s)] ==
        IF i = 0 THEN 0 ELSE Sum[i - 1] + s[i] * 2 ^ (ByteBits * (i - 1))
  IN Sum[Len(s)]

\* Mutant: negative values are off by one.
EncodeZigzagOff(v, w, out) ==
  (IF v < 0 THEN Word(Word(-v, w) * 2, w) ELSE Word(v * 2, w)) % 2 ^ out

\* EncodeZigzag32/64: `v` has w bits; the result is returned in `out` bits.
EncodeZigzag(v, w, out) ==
  (IF v < 0 THEN Word(Word(-v, w) * 2 - 1, w) ELSE Word(v * 2, w)) % 2 ^ out

\* (v >> 1) ^ -(v & 1), as a signed word of w bits: the exclusive or with -1
\* takes the complement.
DecodeZigzag(u, w) ==
  Signed(IF u % 2 = 1 THEN 2 ^ w - 1 - u \div 2 ELSE u \div 2, w)

Group == ByteBits - 1

\* How many groups a word of w bits has at most.
Groups(w) == (w + Group - 1) \div Group

\* writeUint32/64, of a word of w bits: groups of Group bits, lowest first, a flag
\* on all but the last; there is one more for each time `value >= 0x80` held.
EncodeVarint(u, w) ==
  LET more == Cardinality({i \in 1 .. Groups(w) : u >= 2 ^ (Group * i)})
  IN [i \in 1 .. more + 1 |->
        ((u \div 2 ^ (Group * (i - 1))) % 2 ^ Group)
          + (IF i <= more THEN 2 ^ Group ELSE 0)]

\* The values of the groups of s, the flags dropped, in a word of w bits.
DecodeVarint(s, w) ==
  LET Sum[i \in 0 .. Len(s)] ==
        IF i = 0 THEN 0
        ELSE Sum[i - 1] + (s[i] % 2 ^ Group) * 2 ^ (Group * (i - 1))
  IN Sum[Len(s)] % 2 ^ w

\* The bytes the writer of kind k hands to write() for value v.  EncodeZigzag64
\* returns uint32_t.
Encoded(k, v, endian) ==
  CASE k = "Fuint8" -> << v >>
    [] k = "Fint16" -> InOrder(LowFirst(Word(v, Width16), 2), endian)
    [] k = "Uint32" -> EncodeVarint(v, Width32)
    [] k = "Uint64" -> EncodeVarint(v, Width64)
    [] k = "Int32" -> EncodeVarint(EncodeZigzag(v, Width32, Width32), Width32)
    [] k = "Int64" -> EncodeVarint(EncodeZigzag(v, Width64, Width32), Width64)
    [] k = "StringF16" -> InOrder(LowFirst(Len(v) % 2 ^ Width16, 2), endian) \o v
    [] k = "StringVint" -> EncodeVarint(Len(v), Width64) \o v

----------------------------------------------------------------------------
\* The chain.

\* k steps along Node::next.
After(c, k, chain) ==
  IF c = Null \/ c + k > Len(chain) THEN Null ELSE c + k

\* Mutant: m_cur is left null when the chain grows.
AddCapacityKeepsCur(size, b) ==
  LET lacking == size - (m_capacity - m_position)
      count == IF lacking <= 0 THEN 0 ELSE (lacking + BaseSize - 1) \div BaseSize
  IN [chain |-> nodes \o [i \in 1 .. count |-> [j \in 0 .. BaseSize - 1 |-> b]],
      cur |-> m_cur]

\* addCapacity: the chain and m_cur afterwards.
AddCapacity(size, b) ==
  LET lacking == size - (m_capacity - m_position)
      count == IF lacking <= 0 THEN 0 ELSE (lacking + BaseSize - 1) \div BaseSize
  IN [chain |-> nodes \o [i \in 1 .. count |-> [j \in 0 .. BaseSize - 1 |-> b]],
      cur |-> IF count > 0 /\ m_position = m_capacity
              THEN Len(nodes) + 1 ELSE m_cur]

\* The loop of write, read and the buffer functions: where the i-th byte from
\* offset m_position % m_baseSize of block c lies.
Offset(i) == (m_position % BaseSize) + i
BlockOf(c, i, chain) == After(c, Offset(i) \div BaseSize, chain)

\* The loop dereferences m_cur at once and then each block it gets to.
Dereferences(c, size, chain) ==
  \A i \in {0} \cup 0 .. size - 1 : BlockOf(c, i, chain) # Null

Bytes(c, size, chain) ==
  [i \in 1 .. size |-> chain[BlockOf(c, i - 1, chain)][Offset(i - 1) % BaseSize]]

\* The chain with the bytes s stored from the position on.
Stored(c, s, chain) ==
  [n \in 1 .. Len(chain) |->
     [j \in 0 .. BaseSize - 1 |->
        IF \E i \in 1 .. Len(s) :
             BlockOf(c, i - 1, chain) = n /\ Offset(i - 1) % BaseSize = j
        THEN s[CHOOSE i \in 1 .. Len(s) :
                 BlockOf(c, i - 1, chain) = n /\ Offset(i - 1) % BaseSize = j]
        ELSE chain[n][j]]]

\* Mutant: m_size follows the position down as well as up.
LargerSecond(a, b) == b

Larger(a, b) == IF a > b THEN a ELSE b

\* Mutant: the search stops one block short when v ends a block.
SeekToStays(v, chain) ==
  LET full == v \div BaseSize
  IN After(1, IF v > 0 /\ v % BaseSize = 0 THEN full - 1 ELSE full, chain)

\* setPosition's search for the block of position v.
SeekTo(v, chain) == After(1, v \div BaseSize, chain)

----------------------------------------------------------------------------
\* Writing.

Overlaps(it, from, to) == it.at < to /\ from < it.at + it.len

Intact(from, to) == {it \in items : ~Overlaps(it, from, to)}

\* write(s) at the position, for the value v of kind k; nothing for no bytes.
Write(k, v, b) ==
  LET s == Encoded(k, v, m_endian)
      grown == AddCapacity(Len(s), b)
      end == m_position + Len(s)
      kept == Intact(m_position, end)
      item == [at |-> m_position, len |-> Len(s), kind |-> k,
               endian |-> m_endian, value |-> v]
  IN /\ Len(grown.chain) <= MaxNodes
     /\ IF Dereferences(grown.cur, Len(s), grown.chain)
        THEN /\ nodes' = Stored(grown.cur, s, grown.chain)
             /\ m_cur' = BlockOf(grown.cur, Len(s), grown.chain)
             /\ m_position' = end
             /\ m_size' = Larger(m_size, end)
             /\ items' = IF Cardinality(kept) < MaxItems
                         THEN kept \cup {item} ELSE kept
             /\ UNCHANGED fault
        ELSE fault' = "write" /\ UNCHANGED <<arrayVars, items>>
     /\ UNCHANGED <<m_endian, kinds>>

\* SocketStream::read: the kernel fills n of the `size` bytes that
\* getWriteBuffers has made room for.
Receive(size, n, b) ==
  LET grown == AddCapacity(size, b)
      end == m_position + n
  IN /\ Len(grown.chain) <= MaxNodes
     /\ IF Dereferences(grown.cur, size, grown.chain)
        THEN /\ nodes' = Stored(grown.cur, [i \in 1 .. n |-> b], grown.chain)
             /\ m_cur' = IF n > 0 THEN SeekTo(end, grown.chain) ELSE grown.cur
             /\ m_position' = end
             /\ m_size' = Larger(m_size, end)
             /\ items' = Intact(m_position, end)
             /\ UNCHANGED fault
        ELSE fault' = "write" /\ UNCHANGED <<arrayVars, items>>
     /\ UNCHANGED <<m_endian, kinds>>

\* setPosition; beyond the capacity it throws and changes nothing.
SetPosition(v) ==
  /\ v <= m_capacity
  /\ m_position' = v
  /\ m_size' = Larger(m_size, v)
  /\ m_cur' = SeekTo(v, nodes)
  /\ UNCHANGED <<nodes, m_endian, kinds, items, fault>>

\* clear: the first block stays, with its bytes.
Clear ==
  /\ nodes' = << nodes[1] >>
  /\ m_cur' = 1
  /\ m_position' = 0
  /\ m_size' = 0
  /\ items' = {}
  /\ UNCHANGED <<m_endian, kinds, fault>>

SetIsLittleEndian(val) ==
  /\ m_endian' = IF val THEN "little" ELSE "big"
  /\ UNCHANGED <<arrayVars, kinds, items, fault>>

----------------------------------------------------------------------------
\* Reading.

Ahead == Bytes(m_cur, getReadSize, nodes)

\* read(n) of a fixed width: all or nothing.
FixedPart(n) ==
  [ok |-> n <= getReadSize, used |-> IF n <= getReadSize THEN n ELSE 0]

\* readUint32/64 take bytes one at a time until one has no flag or the word is
\* full; when there are none left, they throw with the position moved.
VarintPart(w) ==
  LET Flag(n) == Ahead[n] >= 2 ^ Group
      Ends(n) == (~Flag(n) \/ n = Groups(w)) /\ \A m \in 1 .. n - 1 : Flag(m)
      ends == {n \in 1 .. getReadSize : n <= Groups(w) /\ Ends(n)}
  IN [ok |-> ends # {},
      used |-> IF ends = {} THEN getReadSize ELSE CHOOSE n \in ends : TRUE]

Part(k) ==
  CASE k = "Fuint8" -> FixedPart(1)
    [] k = "Fint16" \/ k = "StringF16" -> FixedPart(2)
    [] k = "Uint32" \/ k = "Int32" -> VarintPart(Width32)
    [] k = "Uint64" \/ k = "Int64" \/ k = "StringVint" -> VarintPart(Width64)

\* What the bytes s of a value, or of a string's length, stand for.
Decoded(k, s) ==
  CASE k = "Fuint8" -> s[1]
    [] k = "Fint16" -> Signed(FromLowFirst(InOrder(s, m_endian)), Width16)
    [] k = "StringF16" -> FromLowFirst(InOrder(s, m_endian))
    [] k = "Uint32" -> DecodeVarint(s, Width32)
    [] k = "Int32" -> DecodeZigzag(DecodeVarint(s, Width32), Width32)
    [] k = "Int64" -> DecodeZigzag(DecodeVarint(s, Width64), Width64)
    [] k = "Uint64" \/ k = "StringVint" -> DecodeVarint(s, Width64)

\* What a reader of kind k does.  A string's bytes are a second read(), of the
\* length just read, which dereferences m_cur even for no bytes.
Reading(k) ==
  LET part == Part(k)
      head == Decoded(k, SubSeq(Ahead, 1, part.used))
      string == k \in {"StringF16", "StringVint"}
      body == IF string /\ part.ok THEN head ELSE 0
      throws == ~part.ok \/ body \notin 0 .. getReadSize - part.used
      used == IF throws THEN part.used ELSE part.used + body
  IN [throws |-> throws,
      used |-> used,
      crash |-> /\ string /\ ~throws
                /\ BlockOf(m_cur, part.used, nodes) = Null,
      value |-> IF throws THEN << >>
                ELSE IF string THEN SubSeq(Ahead, part.used + 1, used) ELSE head]

Read(k) ==
  /\ m_position' = m_position + Reading(k).used
  /\ m_cur' = BlockOf(m_cur, Reading(k).used, nodes)
  /\ fault' = IF Reading(k).crash THEN "read" ELSE "none"
  /\ UNCHANGED <<nodes, m_size, m_endian, kinds, items>>

\* getReadBuffers, from the position and from another one; both clip the length
\* to getReadSize().
getReadBuffers(len) == Bytes(m_cur, IF len > getReadSize THEN getReadSize ELSE len, nodes)

getReadBuffersAt(len, position) ==
  [i \in 1 .. IF len > getReadSize THEN getReadSize ELSE len |->
     LET off == (position % BaseSize) + i - 1
     IN nodes[After(After(1, position \div BaseSize, nodes), off \div BaseSize, nodes)]
             [off % BaseSize]]

\* SocketStream::write: n of the bytes are sent.
Send(n) ==
  /\ n \in 1 .. getReadSize
  /\ m_position' = m_position + n
  /\ m_cur' = SeekTo(m_position + n, nodes)
  /\ UNCHANGED <<nodes, m_size, m_endian, kinds, items, fault>>

\* toString: read(size, m_position), which starts at m_cur.
toString == Bytes(m_cur, getReadSize, nodes)

\* A turn of writeToFile's loop, which writes what is left of a block; a negative
\* length fails the stream, a null block crashes.
Turn(s) ==
  LET diff == s.pos % BaseSize
      len == (IF s.left > BaseSize THEN BaseSize ELSE s.left) - diff
  IN IF ~s.ok \/ s.left <= 0 THEN s
     ELSE IF s.cur = Null \/ len < 0 THEN [s EXCEPT !.ok = FALSE]
     ELSE [ok |-> TRUE, cur |-> After(s.cur, 1, nodes), pos |-> s.pos + len, left |-> s.left - len,
           out |-> s.out \o [i \in 1 .. len |-> nodes[s.cur][diff + i - 1]]]

\* Every turn takes a block, so it ends with the chain at the latest.
writeToFile ==
  LET start == [ok |-> TRUE, cur |-> m_cur, pos |-> m_position, left |-> getReadSize, out |-> << >>]
      Turns[k \in 0 .. Len(nodes) + 1] == IF k = 0 THEN start ELSE Turn(Turns[k - 1])
      last == Turns[Len(nodes) + 1]
  IN [ok |-> last.ok, out |-> last.out]

----------------------------------------------------------------------------
Next ==
  /\ fault = "none"
  /\ \/ \E k \in kinds, b \in Fresh : \E v \in Values[k] : Write(k, v, b)
     \/ \E k \in kinds : Read(k)
     \/ \E size \in Chunks, b \in Fresh : \E n \in 0 .. size :
          Receive(size, n, b)
     \/ \E n \in 1 .. MaxNodes * BaseSize : Send(n)
     \/ \E v \in 0 .. MaxNodes * BaseSize : SetPosition(v)
     \/ \E val \in BOOLEAN : SetIsLittleEndian(val)
     \/ Clear

Spec == Init /\ [][Next]_vars

----------------------------------------------------------------------------
\* Properties.

\* Type correctness, with 0 <= m_position <= m_size <= m_capacity.
TypeOK ==
  /\ Len(nodes) \in 1 .. MaxNodes
  /\ \A n \in 1 .. Len(nodes) : nodes[n] \in [0 .. BaseSize - 1 -> Byte]
  /\ m_cur \in 0 .. Len(nodes)
  /\ m_size \in 0 .. m_capacity
  /\ m_position \in 0 .. m_size
  /\ m_endian \in {"big", "little"}
  /\ fault \in {"none", "read", "write"}

\* m_cur is the block m_position lies in, and null exactly at the capacity,
\* after any sequence of writes, reads, seeks, buffer fills and clears.
CurAgrees ==
  m_cur = IF m_position = m_capacity THEN Null ELSE m_position \div BaseSize + 1

\* The bytes of the array, whatever block they are in.
Content == [i \in 1 .. m_size |-> nodes[(i - 1) \div BaseSize + 1][(i - 1) % BaseSize]]

\* toString and getReadBuffers, from the position or from an earlier one, show the
\* bytes that are there.
BuffersAgree ==
  /\ toString = SubSeq(Content, m_position + 1, m_size)
  /\ \A p \in 0 .. m_position :
       getReadBuffersAt(m_size, p) = SubSeq(Content, p + 1, p + getReadSize)

\* So does, at the start of a block, writeToFile.
ViewsAgree ==
  fault = "none" =>
    /\ BuffersAgree
    /\ m_position % BaseSize = 0 => writeToFile = [ok |-> TRUE, out |-> toString]

\* No write, and no buffer fill, runs off the chain, however much it has to grow;
\* a read does only for an empty string that ends at the capacity.
CrashesOnlyAtEnd ==
  /\ fault # "write"
  /\ fault = "read" => m_position = m_capacity /\ m_cur = Null

\* What the code has room for: EncodeZigzag64 returns 32 bits, and the length of a
\* StringF16 has 16.
Fits(k, v) ==
  /\ k = "Int64" => v \in Integer(Width32)
  /\ k = "StringF16" => Len(v) \in Unsigned(Width16)

\* The reader of a kind, at a place where that kind was written in the same byte
\* order and not overwritten since, returns the value and stops behind it, or
\* crashes as CrashesOnlyAtEnd says; only what the code has no room for is lost.
ReadsBack ==
  \A it \in items :
    (fault = "none" /\ m_position = it.at /\ m_endian = it.endian /\ Fits(it.kind, it.value)) =>
      LET r == Reading(it.kind)
      IN r.crash \/ (~r.throws /\ r.value = it.value /\ r.used = it.len)

Flat == INSTANCE FlatBytes WITH content <- Content, pos <- m_position

\* The chain of blocks implements one sequence of bytes.
ImplementsFlat == Flat!FlatSpec
=============================================================================
