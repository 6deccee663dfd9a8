---------------------------- MODULE MCByteArray ----------------------------
\* Instances of ByteArray for TLC: bytes of two bits, words of four and eight.
EXTENDS ByteArray

\* The ends of each type's range and what lies around zero; strings of one byte
\* and of none.
Edges == [k \in KindNames |->
  CASE k = "Fuint8" -> {2}
    [] k = "Fint16" -> {-7}
    [] k = "Uint32" -> {13}
    [] k = "Int32" -> {-8, 1}
    [] k = "Uint64" -> {0, 37}
    [] k = "Int64" -> {-8, 127}
    [] k = "StringF16" -> {<< >>, <<2>>}
    [] k = "StringVint" -> {<<2>>}]
=============================================================================
