------------------------- MODULE HttpSessionProofs -------------------------
(* Theorems about HttpSession: for any scripts whose messages the parser by *)
(* itself takes for what they are, any servlets, any size of the buffer and *)
(* any way to cut the stream into reads and writes.                         *)
EXTENDS HttpSession, SequenceTheorems, TLAPS

\* The requests are values of no type: a sequence is one over some set.
IsSeq(s) == \E S : s \in Seq(S)

-----------------------------------------------------------------------------
(* Sequences and numbers.                                                   *)

\* The smaller and the larger of two numbers.
LEMMA MinMax ==
  ASSUME NEW a \in Int, NEW b \in Int
  PROVE  /\ Min({a, b}) = IF a <= b THEN a ELSE b
         /\ Max({a, b}) = IF a <= b THEN b ELSE a
<1>1. PICK x \in {a, b} : \A y \in {a, b} : x <= y BY SMT
<1>2. PICK z \in {a, b} : \A y \in {a, b} : z >= y BY SMT
<1>3. Min({a, b}) \in {a, b} /\ \A y \in {a, b} : Min({a, b}) <= y BY <1>1, Zenon DEF Min
<1>4. Max({a, b}) \in {a, b} /\ \A y \in {a, b} : Max({a, b}) >= y BY <1>2, Zenon DEF Max
<1> QED BY <1>3, <1>4

\* A sequence cut in two.
LEMMA CutInTwo ==
  ASSUME NEW S, NEW s \in Seq(S), NEW n \in 0..Len(s)
  PROVE  /\ SubSeq(s, 1, n) \in Seq(S) /\ Len(SubSeq(s, 1, n)) = n
         /\ SubSeq(s, n + 1, Len(s)) \in Seq(S) /\ Len(SubSeq(s, n + 1, Len(s))) = Len(s) - n
         /\ SubSeq(s, 1, n) \o SubSeq(s, n + 1, Len(s)) = s
<1>1. SubSeq(s, 1, n) \in Seq(S) /\ Len(SubSeq(s, 1, n)) = n
  BY SubSeqProperties
<1>2. SubSeq(s, n + 1, Len(s)) \in Seq(S) /\ Len(SubSeq(s, n + 1, Len(s))) = Len(s) - n
  BY SubSeqProperties
<1>3. SubSeq(s, 1, n) \o SubSeq(s, n + 1, Len(s)) = s
  <2>1. 1 \in 1..Len(s) + 1 /\ n \in 1 - 1..Len(s) /\ Len(s) \in n..Len(s) OBVIOUS
  <2>2. SubSeq(s, 1, n) \o SubSeq(s, n + 1, Len(s)) = SubSeq(s, 1, Len(s))
    BY <2>1, ConcatAdjacentSubSeq, Zenon
  <2> QED BY <2>2, SubSeqFull
<1> QED BY <1>1, <1>2, <1>3

LEMMA Regrouped ==
  \A s, t, u \in Seq(any) : (s \o t) \o u = s \o (t \o u)
BY ConcatAssociative

\* One request more.
LEMMA AppendAny ==
  ASSUME NEW s, IsSeq(s), NEW x
  PROVE  /\ IsSeq(Append(s, x)) /\ Len(Append(s, x)) = Len(s) + 1
         /\ \A i \in 1..Len(s) : Append(s, x)[i] = s[i]
         /\ Append(s, x)[Len(s) + 1] = x
<1>1. PICK S : s \in Seq(S) BY DEF IsSeq
<1>2. s \in Seq(S \cup {x}) BY <1>1
<1>3. Append(s, x) \in Seq(S \cup {x}) BY <1>2
<1> QED BY <1>2, <1>3 DEF IsSeq

\* What recvRequest has in its buffer behind the header of length k, after a read
\* of n bytes into an empty buffer and memmove.
LEMMA BehindHeader ==
  ASSUME NEW S, NEW text \in Seq(S), NEW n \in 1..Len(text), NEW k \in 1..n
  PROVE  LET got == SubSeq(text, 1, n) IN
         /\ SubSeq(Moved(got, k, n), 1, n - k) = SubSeq(text, k + 1, n)
         /\ SubSeq(Moved(got, k, n), 1, 0) = <<>>
         /\ SubSeq(text, k + 1, n) \in Seq(S) /\ Len(SubSeq(text, k + 1, n)) = n - k
         /\ SubSeq(text, k + 1, Len(text)) \in Seq(S)
         /\ Len(SubSeq(text, k + 1, Len(text))) = Len(text) - k
         /\ SubSeq(text, k + 1, n) \o SubSeq(text, n + 1, Len(text)) = SubSeq(text, k + 1, Len(text))
<1> DEFINE got == SubSeq(text, 1, n)
<1>1. got \in Seq(S) /\ Len(got) = n /\ \A i \in 1..n : got[i] = text[i] BY SubSeqProperties
<1>2. /\ SubSeq(text, k + 1, n) \in Seq(S) /\ Len(SubSeq(text, k + 1, n)) = n - k
      /\ \A i \in 1..n - k : SubSeq(text, k + 1, n)[i] = text[k + i]
  BY SubSeqProperties
<1>3. /\ SubSeq(text, k + 1, Len(text)) \in Seq(S) /\ Len(SubSeq(text, k + 1, Len(text))) = Len(text) - k
      /\ \A i \in 1..Len(text) - k : SubSeq(text, k + 1, Len(text))[i] = text[k + i]
  BY SubSeqProperties
<1>4. SubSeq(text, k + 1, n) \o SubSeq(text, n + 1, Len(text)) = SubSeq(text, k + 1, Len(text))
  <2>1. PICK m : m = k + 1 OBVIOUS
  <2>2. m \in 1..Len(text) + 1 /\ n \in m - 1..Len(text) /\ Len(text) \in n..Len(text) BY <2>1
  <2>3. SubSeq(text, m, n) \o SubSeq(text, n + 1, Len(text)) = SubSeq(text, m, Len(text))
    BY <2>2, ConcatAdjacentSubSeq
  <2> QED BY <2>1, <2>3
<1>5. SubSeq(got, k + 1, n) = SubSeq(text, k + 1, n)
  <2>1. /\ SubSeq(got, k + 1, n) \in Seq(S) /\ Len(SubSeq(got, k + 1, n)) = n - k
        /\ \A i \in 1..n - k : SubSeq(got, k + 1, n)[i] = got[k + i]
    BY <1>1, SubSeqProperties
  <2> QED BY <2>1, <1>1, <1>2
<1>6. SubSeq(got, n - k + 1, Len(got)) \in Seq(S) BY <1>1, SubSeqProperties
<1> DEFINE mem == SubSeq(text, k + 1, n) \o SubSeq(got, n - k + 1, Len(got))
<1>7. Moved(got, k, n) = mem BY <1>5 DEF Moved
<1>8. mem \in Seq(S) /\ Len(mem) >= n - k /\ \A i \in 1..n - k : mem[i] = SubSeq(text, k + 1, n)[i]
  BY <1>2, <1>6, ConcatProperties
<1> HIDE DEF mem
<1>9. SubSeq(mem, 1, n - k) = SubSeq(text, k + 1, n)
  <2>1. /\ SubSeq(mem, 1, n - k) \in Seq(S) /\ Len(SubSeq(mem, 1, n - k)) = n - k
        /\ \A i \in 1..n - k : SubSeq(mem, 1, n - k)[i] = mem[i]
    BY <1>8, SubSeqProperties
  <2> QED BY <2>1, <1>2, <1>8
<1>10. SubSeq(mem, 1, 0) = <<>> BY SubSeqEmpty
<1> QED BY <1>2, <1>3, <1>4, <1>7, <1>9, <1>10

-----------------------------------------------------------------------------
(* The invariant.  It speaks of sessions in which no header came in several *)
(* reads, with a client that waits for its answers.                         *)

Quiet == ~split /\ ~pipelined

\* The last message sent is still to be handled.
Pending == sent > 0 /\ Len(handled) + 1 = sent
Answered == Len(handled) = sent

HandledOK ==
  /\ IsSeq(handled)
  /\ \A i \in 1..Len(handled) : handled[i] = script[i].want /\ script[i].form # "bad"

\* recvRequest begins with a new parser and an empty buffer, and either nothing is
\* on its way to it or one whole message.
NewParser == \E relaxed, header_done \in Garbage : parser = http_parser_init(relaxed, header_done)
RecvOK ==
  pc = "recv" =>
    /\ NewParser /\ data = <<>> /\ offset = 0
    /\ (Answered /\ wire = <<>>) \/ (Pending /\ wire = script[sent].text)

\* While a body is read, the part that was read and the bytes on their way make up
\* the one the client meant; of one that was cut off the rest will never come.
BodyOK ==
  pc = "body" =>
    /\ Pending /\ wire \in Seq(any) /\ body \in Seq(any) /\ left \in Nat
    /\ IF script[sent].form = "bad" THEN left > Len(wire)
       ELSE left = Len(wire) /\ init([parser.msg EXCEPT !.body = body \o wire]) = script[sent].want

ServedOK ==
  pc \in {"handle", "send"} => sent > 0 /\ Answered /\ wire = <<>>

\* A session is given up for the message sent last.
Rejected ==
  /\ sent > 0
  /\ script[sent].form = "bad" \/ (script[sent].form = "relaxed" /\ ~parser.relaxed)
ClosedOK == ended = "error" => Rejected

\* The response comes back as a whole and in order, before the next request.
Parsed == httpclient_parser_execute(httpclient_parser_init, ResponseDump(rsp), FALSE)
AnswerOK ==
  /\ pc = "handle" \/ ~Answered => back = <<>> /\ answer = NoAnswer
  /\ pc = "send" =>
       /\ back \in Seq(any) /\ out \in Seq(any) /\ back \o out = ResponseDump(rsp)
       /\ answer = NoAnswer
  /\ pc # "send" /\ ~eof /\ back # <<>> => back = ResponseDump(rsp) /\ answer = NoAnswer
  /\ answer # NoAnswer /\ chunk = NoChunk => answer = Parsed

BaseOK ==
  /\ script \in Scripts /\ sent \in 0..Len(script) /\ keepalive \in BOOLEAN
  /\ pc \in {"recv", "body", "handle", "send", "closed"}
  /\ pc # "closed" => ended = "open"

CalmOK ==
  /\ Len(handled) \in 0..sent
  /\ HandledOK /\ RecvOK /\ BodyOK /\ ServedOK /\ ClosedOK /\ AnswerOK

SessionOK == BaseOK /\ (Quiet => CalmOK)

-----------------------------------------------------------------------------
(* A read.                                                                  *)

LEMMA ReadLength ==
  ASSUME NEW S, wire \in Seq(S), wire # <<>>, NEW size \in Nat \ {0}, NEW n \in ReadLengths(size)
  PROVE  n \in 1..Len(wire) /\ n <= size /\ n \in 1..Min({Len(wire), size})
<1>1. Len(wire) \in Nat \ {0} BY EmptySeq
<1> DEFINE most == Min({Len(wire), size})
<1>2. most = IF Len(wire) <= size THEN Len(wire) ELSE size BY <1>1, MinMax
<1>3. most \in 1..Len(wire) /\ most <= size BY <1>1, <1>2
<1>4. n \in {most} \cup {k \in Cuts \cup {most - c : c \in Cuts} : k \in 1..most - 1} BY DEF ReadLengths
<1> HIDE DEF most
<1>5. n \in 1..most BY <1>3, <1>4
<1> QED BY <1>1, <1>3, <1>5 DEF most

\* The message that is on its way.
LEMMA MessageFacts ==
  ASSUME script \in Scripts, NEW i \in 1..Len(script)
  PROVE  /\ script[i].text \in Seq(any) /\ script[i].text # <<>>
         /\ script[i] \in Range(script)
<1>1. script \in Seq(Range(script)) /\ \A m \in Range(script) : m.text \in Seq(any) /\ m.text # <<>>
  BY MessagesAssumption
<1>2. script[i] \in Range(script) BY <1>1, ElementOfSeq
<1> QED BY <1>1, <1>2

\* The first read of a message, with all of its header: what a new parser says.
LEMMA FirstRead ==
  ASSUME script \in Scripts, NEW i \in 1..Len(script), NewParser,
         NEW n \in 1..Min({Len(script[i].text), BuffSize}), NEW p,
         p = http_parser_execute(parser, SubSeq(script[i].text, 1, n), n),
         p.halt, ~p.crash, ~p.exn, http_parser_asserts(p, n)
  PROVE  TakenAs(p, script[i], n)
<1>1. PICK relaxed \in Garbage, header_done \in Garbage : parser = http_parser_init(relaxed, header_done)
  BY DEF NewParser
<1>2. script[i] \in Range(script) BY MessageFacts
<1>3. PICK m \in Range(script) : m = script[i] BY <1>2
<1>4. n \in 1..Min({Len(m.text), BuffSize}) BY <1>3
<1>5. p = http_parser_execute(http_parser_init(relaxed, header_done), SubSeq(m.text, 1, n), n) BY <1>1, <1>3
<1>6. LET q == http_parser_execute(http_parser_init(relaxed, header_done), SubSeq(m.text, 1, n), n)
      IN  q.halt /\ ~q.crash /\ ~q.exn /\ http_parser_asserts(q, n) => TakenAs(q, m, n)
  BY <1>4, MessagesAssumption, Zenon
<1> QED BY <1>3, <1>5, <1>6, Zenon

-----------------------------------------------------------------------------
(* RecvHeader.                                                              *)

LEMMA WrittenToEmpty ==
  ASSUME NEW S, NEW bytes \in Seq(S), data = <<>>, offset = 0
  PROVE  Written(bytes) = bytes
<1>1. SubSeq(data, 1, offset) = <<>> BY SubSeqEmpty
<1>2. Len(bytes) \in Nat /\ Len(data) = 0 OBVIOUS
<1>3. SubSeq(data, offset + Len(bytes) + 1, Len(data)) = <<>> BY <1>2, SubSeqEmpty
<1>4. Written(bytes) = (<<>> \o bytes) \o <<>> BY <1>1, <1>3, Zenon DEF Written
<1> QED BY <1>4, ConcatEmptySeq

\* The lengths of recvRequest after a header of k bytes of the n that were read:
\* what it takes for the body, what the body lacks and what is still to come.
LEMMA BodySplit ==
  ASSUME NEW text \in Seq(any), NEW n \in 1..Len(text), NEW k \in 1..n, NEW length \in Int
  PROVE  LET mem == Moved(SubSeq(text, 1, n), k, n)
             first == SubSeq(mem, 1, Max({0, Min({length, n - k})}))
             lacks == Max({0, length - (n - k)})
             next == SubSeq(text, n + 1, Len(text))
             rest == SubSeq(text, k + 1, Len(text))
         IN  /\ next \in Seq(any) /\ lacks \in Nat
             /\ length > Len(rest) => lacks > Len(next) /\ length - (n - k) > 0 /\ first \in Seq(any)
             /\ Max({0, length}) = Len(rest) =>
                  /\ lacks = Len(next) /\ first \in Seq(any) /\ first \o next = rest
                  /\ ~(length - (n - k) > 0) => next = <<>> /\ first = rest
<1> DEFINE mem == Moved(SubSeq(text, 1, n), k, n)
           few == Max({0, Min({length, n - k})})
           first == SubSeq(mem, 1, few)
           lacks == Max({0, length - (n - k)})
           next == SubSeq(text, n + 1, Len(text))
           rest == SubSeq(text, k + 1, Len(text))
           got == SubSeq(text, k + 1, n)
<1>1. /\ SubSeq(mem, 1, n - k) = got /\ SubSeq(mem, 1, 0) = <<>>
      /\ got \in Seq(any) /\ Len(got) = n - k /\ Len(rest) = Len(text) - k /\ rest \in Seq(any)
      /\ got \o next = rest
  <2>1. LET h == SubSeq(text, 1, n) IN
        /\ SubSeq(Moved(h, k, n), 1, n - k) = SubSeq(text, k + 1, n)
        /\ SubSeq(Moved(h, k, n), 1, 0) = <<>>
        /\ SubSeq(text, k + 1, n) \in Seq(any) /\ Len(SubSeq(text, k + 1, n)) = n - k
        /\ SubSeq(text, k + 1, Len(text)) \in Seq(any)
        /\ Len(SubSeq(text, k + 1, Len(text))) = Len(text) - k
        /\ SubSeq(text, k + 1, n) \o SubSeq(text, n + 1, Len(text)) = SubSeq(text, k + 1, Len(text))
    BY BehindHeader, Zenon
  <2> QED BY <2>1, Zenon
<1>2. next \in Seq(any) /\ Len(next) = Len(text) - n BY SubSeqProperties
<1>3. few = IF length <= 0 THEN 0 ELSE IF length <= n - k THEN length ELSE n - k
  <2>1. n - k \in Int /\ 0 \in Int OBVIOUS
  <2>2. Min({length, n - k}) = IF length <= n - k THEN length ELSE n - k BY <2>1, MinMax, Zenon
  <2>3. Min({length, n - k}) \in Int BY <2>1, <2>2
  <2>4. few = IF 0 <= Min({length, n - k}) THEN Min({length, n - k}) ELSE 0 BY <2>1, <2>3, MinMax, Zenon
  <2> QED BY <2>2, <2>4
<1>4. lacks = IF length <= n - k THEN 0 ELSE length - (n - k)
  <2>1. length - (n - k) \in Int /\ 0 \in Int OBVIOUS
  <2>2. lacks = IF 0 <= length - (n - k) THEN length - (n - k) ELSE 0 BY <2>1, MinMax, Zenon
  <2> QED BY <2>2
<1>5. Max({0, length}) = IF length <= 0 THEN 0 ELSE length
  <2>1. 0 \in Int OBVIOUS
  <2>2. Max({0, length}) = IF 0 <= length THEN length ELSE 0 BY <2>1, MinMax, Zenon
  <2> QED BY <2>2
<1>6. Len(text) \in Nat OBVIOUS
<1> HIDE DEF mem, few, lacks, next, rest, got
<1>7. ASSUME length > Len(rest)
      PROVE  lacks > Len(next) /\ length - (n - k) > 0 /\ first \in Seq(any)
  <2>1. few = n - k BY <1>1, <1>3, <1>6, <1>7
  <2> QED BY <1>1, <1>2, <1>4, <1>6, <1>7, <2>1
<1>8. ASSUME Max({0, length}) = Len(rest)
      PROVE  /\ lacks = Len(next) /\ first \in Seq(any) /\ first \o next = rest
             /\ ~(length - (n - k) > 0) => next = <<>> /\ first = rest
  <2>1. CASE length <= 0
    <3>1. Len(text) = k /\ n = k BY <2>1, <1>1, <1>5, <1>6, <1>8
    <3>2. first = got BY <3>1, <2>1, <1>1, <1>3
    <3>3. next = <<>> BY <3>1, <1>2, EmptySeq
    <3>4. got = rest BY <3>3, <1>1, ConcatEmptySeq
    <3>5. lacks = Len(next) BY <3>1, <2>1, <1>2, <1>4
    <3> QED BY <3>2, <3>3, <3>4, <3>5, <1>1
  <2>2. CASE length > 0
    <3>1. length = Len(text) - k BY <2>2, <1>1, <1>5, <1>6, <1>8
    <3>2. few = n - k BY <3>1, <2>2, <1>3, <1>6
    <3>3. first = got BY <3>2, <1>1
    <3>4. lacks = Len(next) BY <3>1, <2>2, <1>2, <1>4, <1>6
    <3>5. ASSUME ~(length - (n - k) > 0) PROVE next = <<>> /\ first = rest
      <4>1. Len(next) = 0 BY <3>1, <3>5, <1>2, <1>6
      <4>2. next = <<>> BY <4>1, <1>2, EmptySeq
      <4> QED BY <4>2, <3>3, <1>1, ConcatEmptySeq
    <3> QED BY <3>3, <3>4, <3>5, <1>1
  <2> QED BY <2>1, <2>2
<1>9. lacks \in Nat BY <1>4
<1> QED BY <1>2, <1>7, <1>8, <1>9 DEF mem, few, lacks, next, rest, got

-----------------------------------------------------------------------------
(* The steps.                                                               *)

LEMMA QuietBefore ==
  ASSUME [Next]_vars, Quiet'
  PROVE  Quiet
<1>1. ASSUME RecvHeader PROVE split' \/ ~split BY <1>1 DEF RecvHeader
<1>2. ASSUME ~RecvHeader PROVE split' = split
  BY <1>2 DEF Next, Server, RecvBody, RecvFails, Handle, Send, SendFails, ClientSend, ClientClose,
     ClientParse, ClientChunk, Done, vars
<1>3. pipelined' = pipelined
  BY DEF Next, Server, RecvHeader, RecvBody, RecvFails, Handle, Send, SendFails, ClientSend, ClientClose,
     ClientParse, ClientChunk, Done, vars, client
<1> QED BY <1>1, <1>2, <1>3 DEF Quiet

\* handled, script and sent stay, and so do the facts about them.
LEMMA HandledKept ==
  ASSUME HandledOK, UNCHANGED <<handled, script>>
  PROVE  HandledOK'
BY DEF HandledOK

\* The request is handed over.
LEMMA HandledMore ==
  ASSUME BaseOK, HandledOK, Pending, NEW req, Complete(req), UNCHANGED <<script, sent>>,
         init(req) = script[sent].want, script[sent].form # "bad"
  PROVE  HandledOK' /\ Answered' /\ pc' = "handle" /\ ended' = ended
<1>1. handled' = Append(handled, init(req)) /\ pc' = "handle" /\ ended' = ended BY DEF Complete
<1>2. IsSeq(handled) /\ \A i \in 1..Len(handled) : handled[i] = script[i].want /\ script[i].form # "bad"
  BY DEF HandledOK
<1>3. /\ IsSeq(handled') /\ Len(handled') = Len(handled) + 1
      /\ \A i \in 1..Len(handled) : handled'[i] = handled[i]
      /\ handled'[Len(handled) + 1] = init(req)
  BY <1>1, <1>2, AppendAny
<1>4. Len(handled) \in Nat /\ Len(handled) + 1 = sent
  <2>1. PICK S : handled \in Seq(S) BY <1>2 DEF IsSeq
  <2> QED BY <2>1 DEF Pending
<1>5. \A i \in 1..Len(handled') : handled'[i] = script[i].want /\ script[i].form # "bad"
  <2> TAKE i \in 1..Len(handled')
  <2>1. CASE i = Len(handled) + 1 BY <2>1, <1>3, <1>4
  <2>2. CASE i \in 1..Len(handled) BY <2>2, <1>2, <1>3
  <2> QED BY <2>1, <2>2, <1>3, <1>4
<1> QED BY <1>1, <1>3, <1>4, <1>5 DEF HandledOK, Answered

\* A message comes in; with all of its header in one read the parser says what it
\* is, and the body is what lies behind the header.
LEMMA RecvHeaderCalm ==
  ASSUME BaseOK, CalmOK, RecvHeader, Quiet'
  PROVE  CalmOK'
<1>1. pc = "recv" /\ wire # <<>> BY DEF RecvHeader
<1>2. /\ NewParser /\ data = <<>> /\ offset = 0 /\ Pending /\ wire = script[sent].text
      /\ back = <<>> /\ answer = NoAnswer
  <2>1. NewParser /\ data = <<>> /\ offset = 0 /\ Pending /\ wire = script[sent].text
    BY <1>1 DEF CalmOK, RecvOK
  <2>2. Len(handled) \in Nat /\ ~Answered BY <2>1 DEF CalmOK, BaseOK, Pending, Answered
  <2> QED BY <2>1, <2>2 DEF CalmOK, AnswerOK
<1>3. sent \in 1..Len(script) BY <1>2 DEF BaseOK, Pending
<1>4. script[sent].text \in Seq(any) BY <1>3, MessageFacts DEF BaseOK
<1> DEFINE m == script[sent]
<1>5. PICK n \in ReadLengths(BuffSize - offset) :
       LET len == offset + n
           p == http_parser_execute(parser, Written(SubSeq(wire, 1, n)), len)
           mem == Moved(Written(SubSeq(wire, 1, n)), p.nread, len)
           kept == len - p.nread
           length == getContentLength(p.msg.headers)
       IN  /\ wire' = SubSeq(wire, n + 1, Len(wire))
           /\ parser' = p
           /\ split' = (split \/ ~p.halt)
           /\ IF p.crash \/ p.exn \/ ~http_parser_asserts(p, len)
                THEN /\ CloseSession(IF p.exn THEN "exception" ELSE IF p.crash THEN "wild" ELSE "assert")
                     /\ UNCHANGED <<data, offset, body, left, handled>>
              ELSE IF hasError(p) \/ kept = BuffSize
                THEN CloseSession("error") /\ UNCHANGED <<data, offset, body, left, handled>>
              ELSE /\ data' = mem /\ offset' = kept
                   /\ IF ~http_parser_is_finished(p)
                        THEN UNCHANGED <<pc, ended, body, left, handled>>
                      ELSE /\ body' = SubSeq(mem, 1, Max({0, Min({length, kept})}))
                           /\ left' = Max({0, length - kept})
                           /\ IF length - kept > 0
                                THEN pc' = "body" /\ UNCHANGED <<ended, handled>>
                              ELSE Complete([p.msg EXCEPT !.body = body'])
  BY Zenon DEF RecvHeader
<1>6. UNCHANGED <<keepalive, script, pipelined, sent, eof, rsp, out, back, answer, chunk>>
  BY DEF RecvHeader, client, writing, receiving
<1>7. BuffSize - offset = BuffSize /\ BuffSize \in Nat \ {0} BY <1>2, SessionAssumption
<1>8. /\ n \in 1..Len(m.text) /\ n <= BuffSize /\ n \in 1..Min({Len(m.text), BuffSize})
      /\ offset + n = n
  <2>1. n \in ReadLengths(BuffSize) BY <1>5, <1>7
  <2>2. wire \in Seq(any) BY <1>2, <1>4
  <2>3. n \in 1..Len(wire) /\ n <= BuffSize /\ n \in 1..Min({Len(wire), BuffSize})
    BY <2>1, <2>2, <1>1, <1>7, ReadLength, Zenon
  <2> QED BY <2>3, <1>2
<1>9. Written(SubSeq(wire, 1, n)) = SubSeq(m.text, 1, n)
  <2>1. SubSeq(m.text, 1, n) \in Seq(any) BY <1>4, <1>8, CutInTwo
  <2> QED BY <2>1, <1>2, WrittenToEmpty
<1>10. PICK p : p = http_parser_execute(parser, SubSeq(m.text, 1, n), n) OBVIOUS
<1>11. PICK mem : mem = Moved(SubSeq(m.text, 1, n), p.nread, n) OBVIOUS
<1>12. PICK kept : kept = n - p.nread OBVIOUS
<1>13. PICK length : length = getContentLength(p.msg.headers) OBVIOUS
<1>14. /\ wire' = SubSeq(m.text, n + 1, Len(m.text))
       /\ parser' = p
       /\ split' = (split \/ ~p.halt)
       /\ IF p.crash \/ p.exn \/ ~http_parser_asserts(p, n)
            THEN /\ CloseSession(IF p.exn THEN "exception" ELSE IF p.crash THEN "wild" ELSE "assert")
                 /\ UNCHANGED <<data, offset, body, left, handled>>
          ELSE IF hasError(p) \/ kept = BuffSize
            THEN CloseSession("error") /\ UNCHANGED <<data, offset, body, left, handled>>
          ELSE /\ data' = mem /\ offset' = kept
               /\ IF ~http_parser_is_finished(p)
                    THEN UNCHANGED <<pc, ended, body, left, handled>>
                  ELSE /\ body' = SubSeq(mem, 1, Max({0, Min({length, kept})}))
                       /\ left' = Max({0, length - kept})
                       /\ IF length - kept > 0
                            THEN pc' = "body" /\ UNCHANGED <<ended, handled>>
                          ELSE Complete([p.msg EXCEPT !.body = body'])
  BY <1>2, <1>5, <1>8, <1>9, <1>10, <1>11, <1>12, <1>13, Zenon
<1>15. p.halt BY <1>14 DEF Quiet
<1>16. CASE p.crash \/ p.exn \/ ~http_parser_asserts(p, n)
  <2>1. /\ pc' = "closed" /\ ended' # "error"
        /\ handled' = handled
    BY <1>14, <1>16 DEF CloseSession
  <2>2. HandledOK' BY <2>1, <1>6, HandledKept DEF CalmOK
  <2>3. AnswerOK' BY <2>1, <1>2, <1>6 DEF AnswerOK
  <2> QED BY <2>1, <2>2, <2>3, <1>6 DEF CalmOK, RecvOK, BodyOK, ServedOK, ClosedOK
<1>17. CASE ~(p.crash \/ p.exn \/ ~http_parser_asserts(p, n))
  <2>1. TakenAs(p, m, n) BY <1>3, <1>2, <1>8, <1>10, <1>15, <1>17, FirstRead DEF BaseOK
  <2> DEFINE rest == SubSeq(m.text, p.nread + 1, Len(m.text))
  <2>2. CASE hasError(p)
    <3>1. m.form = "bad" \/ (m.form = "relaxed" /\ ~p.relaxed) BY <2>1, <2>2 DEF TakenAs, hasError
    <3>2. pc' = "closed" /\ handled' = handled BY <1>14, <1>17, <2>2 DEF CloseSession
    <3>3. ClosedOK' BY <3>1, <1>3, <1>6, <1>14 DEF ClosedOK, Rejected
    <3>4. HandledOK' BY <3>2, <1>6, HandledKept DEF CalmOK
    <3>5. AnswerOK' BY <3>2, <1>2, <1>6 DEF AnswerOK
    <3> QED BY <3>2, <3>3, <3>4, <3>5, <1>6 DEF CalmOK, RecvOK, BodyOK, ServedOK
  <2>3. CASE ~hasError(p)
    <3>1. /\ http_parser_is_finished(p) /\ p.nread \in 1..n /\ length \in Int
          /\ IF m.form = "bad" THEN length > Len(rest)
             ELSE Max({0, length}) = Len(rest) /\ init([p.msg EXCEPT !.body = rest]) = m.want
      BY <2>1, <2>3, <1>13 DEF TakenAs, hasError, http_parser_is_finished
    <3>2. kept # BuffSize BY <3>1, <1>7, <1>8, <1>12
    <3>3. /\ body' = SubSeq(mem, 1, Max({0, Min({length, kept})}))
          /\ left' = Max({0, length - kept})
          /\ IF length - kept > 0
             THEN pc' = "body" /\ UNCHANGED <<ended, handled>>
             ELSE Complete([p.msg EXCEPT !.body = body'])
      BY <3>1, <3>2, <2>3, <1>14, <1>17
    <3>4. /\ wire' \in Seq(any) /\ left' \in Nat
          /\ length > Len(rest) => left' > Len(wire') /\ length - kept > 0 /\ body' \in Seq(any)
          /\ Max({0, length}) = Len(rest) =>
               /\ left' = Len(wire') /\ body' \in Seq(any) /\ body' \o wire' = rest
               /\ ~(length - kept > 0) => wire' = <<>> /\ body' = rest
      <4>1. PICK text \in Seq(any) : text = m.text BY <1>4
      <4>2. PICK k \in 1..n : k = p.nread BY <3>1
      <4>3. n \in 1..Len(text) BY <4>1, <1>8
      <4>4. LET mm == Moved(SubSeq(text, 1, n), k, n)
                first == SubSeq(mm, 1, Max({0, Min({length, n - k})}))
                lacks == Max({0, length - (n - k)})
                next == SubSeq(text, n + 1, Len(text))
                more == SubSeq(text, k + 1, Len(text))
            IN  /\ next \in Seq(any) /\ lacks \in Nat
                /\ length > Len(more) => lacks > Len(next) /\ length - (n - k) > 0 /\ first \in Seq(any)
                /\ Max({0, length}) = Len(more) =>
                     /\ lacks = Len(next) /\ first \in Seq(any) /\ first \o next = more
                     /\ ~(length - (n - k) > 0) => next = <<>> /\ first = more
        BY <3>1, <4>3, BodySplit, Zenon
      <4> QED BY <4>1, <4>2, <4>4, <3>3, <1>11, <1>12, <1>14, Zenon
    <3>5. CASE length - kept > 0
      <4>1. pc' = "body" /\ handled' = handled /\ ended' = ended BY <3>3, <3>5
      <4>2. HandledOK' BY <4>1, <1>6, HandledKept DEF CalmOK
      <4>3. BodyOK'
        <5>1. Pending' BY <4>1, <1>2, <1>6 DEF Pending
        <5>2. CASE m.form = "bad"
          BY <5>1, <5>2, <3>1, <3>4, <1>6 DEF BodyOK
        <5>3. CASE m.form # "bad"
          <6>1. left' = Len(wire') /\ body' \in Seq(any) /\ body' \o wire' = rest BY <5>3, <3>1, <3>4
          <6>2. init([p.msg EXCEPT !.body = body' \o wire']) = m.want BY <6>1, <5>3, <3>1
          <6> QED BY <5>1, <5>3, <6>1, <6>2, <3>4, <1>6, <1>14 DEF BodyOK
        <5> QED BY <5>2, <5>3
      <4>4. ended' # "error" BY <4>1, <1>1 DEF BaseOK
      <4>5. AnswerOK' BY <4>1, <1>2, <1>6 DEF AnswerOK
      <4> QED BY <4>1, <4>2, <4>3, <4>4, <4>5, <1>6 DEF CalmOK, RecvOK, ServedOK, ClosedOK
    <3>6. CASE ~(length - kept > 0)
      <4>1. m.form # "bad" BY <3>1, <3>4, <3>6
      <4>2. wire' = <<>> /\ body' = rest BY <4>1, <3>1, <3>4, <3>6
      <4>3. PICK req : req = [p.msg EXCEPT !.body = body'] OBVIOUS
      <4>4. Complete(req) BY <4>3, <3>3, <3>6
      <4>5. init(req) = m.want BY <4>1, <4>2, <4>3, <3>1
      <4>6. HandledOK' /\ Answered' /\ pc' = "handle" /\ ended' = ended
        BY <4>1, <4>4, <4>5, <1>2, <1>6, HandledMore DEF CalmOK
      <4>7. ended' # "error" BY <4>6, <1>1 DEF BaseOK
      <4>8. Len(handled') \in 0..sent' BY <4>6, <1>3, <1>6 DEF Answered
      <4>9. AnswerOK' BY <4>6, <1>2, <1>6 DEF AnswerOK
      <4>10. ServedOK' BY <4>2, <4>6, <1>3, <1>6 DEF ServedOK
      <4> QED BY <4>6, <4>7, <4>8, <4>9, <4>10 DEF CalmOK, RecvOK, BodyOK, ClosedOK
    <3> QED BY <3>5, <3>6
  <2> QED BY <2>2, <2>3
<1> QED BY <1>16, <1>17

\* The body comes in pieces, none of which is lost.
LEMMA RecvBodyCalm ==
  ASSUME BaseOK, CalmOK, RecvBody, Quiet'
  PROVE  CalmOK'
<1>1. pc = "body" /\ wire # <<>> BY DEF RecvBody
<1>2. /\ Pending /\ wire \in Seq(any) /\ body \in Seq(any) /\ left \in Nat
      /\ IF script[sent].form = "bad" THEN left > Len(wire)
         ELSE left = Len(wire) /\ init([parser.msg EXCEPT !.body = body \o wire]) = script[sent].want
  BY <1>1 DEF CalmOK, BodyOK
<1>3. back = <<>> /\ answer = NoAnswer
  <2>1. ~Answered BY <1>2 DEF CalmOK, BaseOK, Pending, Answered
  <2> QED BY <2>1 DEF CalmOK, AnswerOK
<1>4. sent \in 1..Len(script) BY <1>2 DEF BaseOK, Pending
<1>5. PICK n \in ReadLengths(left) :
        /\ wire' = SubSeq(wire, n + 1, Len(wire))
        /\ body' = body \o SubSeq(wire, 1, n)
        /\ left' = left - n
        /\ IF left = n THEN Complete([parser.msg EXCEPT !.body = body'])
           ELSE UNCHANGED <<pc, ended, handled>>
  BY DEF RecvBody
<1>6. UNCHANGED <<keepalive, script, pipelined, sent, eof, parser, rsp, out, split, back, answer, chunk>>
  BY DEF RecvBody, client, writing, receiving
<1>7. Len(wire) \in Nat \ {0} BY <1>1, <1>2, EmptySeq
<1>8. left \in Nat \ {0} BY <1>2, <1>7
<1>9. n \in 1..Len(wire) /\ n <= left BY <1>1, <1>2, <1>5, <1>8, ReadLength
<1>10. /\ SubSeq(wire, 1, n) \in Seq(any)
       /\ wire' \in Seq(any) /\ Len(wire') = Len(wire) - n
       /\ SubSeq(wire, 1, n) \o wire' = wire
  <2>1. n \in 0..Len(wire) BY <1>9
  <2> QED BY <2>1, <1>2, <1>5, CutInTwo
<1>11. body' \in Seq(any) /\ body' \o wire' = body \o wire
  <2>1. body' \in Seq(any) BY <1>2, <1>5, <1>10, ConcatProperties
  <2>2. (body \o SubSeq(wire, 1, n)) \o wire' = body \o (SubSeq(wire, 1, n) \o wire')
    BY <1>2, <1>10, Regrouped
  <2> QED BY <2>1, <2>2, <1>5, <1>10
<1>12. CASE left = n
  <2>1. script[sent].form # "bad" /\ left = Len(wire) BY <1>2, <1>7, <1>9, <1>12
  <2>2. wire' = <<>> BY <2>1, <1>7, <1>10, <1>12, EmptySeq
  <2>3. body' = body \o wire BY <2>2, <1>11, ConcatEmptySeq
  <2>4. PICK req : req = [parser.msg EXCEPT !.body = body'] OBVIOUS
  <2>5. Complete(req) BY <2>4, <1>5, <1>12
  <2>6. init(req) = script[sent].want BY <2>1, <2>3, <2>4, <1>2
  <2>7. HandledOK' /\ Answered' /\ pc' = "handle" /\ ended' = ended
    BY <2>1, <2>5, <2>6, <1>2, <1>6, HandledMore DEF CalmOK
  <2>8. ended' # "error" BY <2>7, <1>1 DEF BaseOK
  <2>9. Len(handled') \in 0..sent' BY <2>7, <1>4, <1>6 DEF Answered
  <2>10. AnswerOK' BY <2>7, <1>3, <1>6 DEF AnswerOK
  <2>11. ServedOK' BY <2>2, <2>7, <1>4, <1>6 DEF ServedOK
  <2> QED BY <2>7, <2>8, <2>9, <2>10, <2>11 DEF CalmOK, RecvOK, BodyOK, ClosedOK
<1>13. CASE left # n
  <2>1. pc' = "body" /\ ended' = ended /\ handled' = handled BY <1>1, <1>5, <1>13
  <2>2. Pending' BY <2>1, <1>2, <1>6 DEF Pending
  <2>3. left' \in Nat BY <1>5, <1>8, <1>9
  <2>4. BodyOK'
    <3>1. CASE script[sent].form = "bad"
      <4>1. left' > Len(wire') BY <3>1, <1>2, <1>5, <1>7, <1>9, <1>10
      <4> QED BY <4>1, <3>1, <2>2, <2>3, <1>6, <1>10, <1>11 DEF BodyOK
    <3>2. CASE script[sent].form # "bad"
      <4>1. left' = Len(wire') BY <3>2, <1>2, <1>5, <1>7, <1>9, <1>10
      <4>2. init([parser'.msg EXCEPT !.body = body' \o wire']) = script'[sent'].want
        BY <3>2, <1>2, <1>6, <1>11
      <4> QED BY <4>1, <4>2, <3>2, <2>2, <2>3, <1>6, <1>10, <1>11 DEF BodyOK
    <3> QED BY <3>1, <3>2
  <2>5. HandledOK' BY <2>1, <1>6, HandledKept DEF CalmOK
  <2>6. ended' # "error" BY <2>1, <1>1 DEF BaseOK
  <2>7. AnswerOK' BY <2>1, <1>3, <1>6 DEF AnswerOK
  <2> QED BY <2>1, <2>4, <2>5, <2>6, <2>7, <1>6 DEF CalmOK, RecvOK, ServedOK, ClosedOK
<1> QED BY <1>12, <1>13

LEMMA RecvFailsCalm ==
  ASSUME BaseOK, CalmOK, RecvFails, Quiet'
  PROVE  CalmOK'
<1>1. /\ pc \in {"recv", "body"} /\ pc' = "closed" /\ ended' = "peer"
      /\ UNCHANGED <<script, sent, handled, eof, back, answer, chunk, rsp>>
  BY DEF RecvFails, CloseSession, client, writing, receiving
<1>2. HandledOK' BY <1>1, HandledKept DEF CalmOK
<1>3. AnswerOK' BY <1>1 DEF CalmOK, AnswerOK, Answered, Parsed
<1> QED BY <1>1, <1>2, <1>3 DEF CalmOK, RecvOK, BodyOK, ServedOK, ClosedOK

LEMMA HandleCalm ==
  ASSUME BaseOK, CalmOK, Handle, Quiet'
  PROVE  CalmOK'
<1>1. /\ pc = "handle" /\ pc' = "send" /\ out' = ResponseDump(rsp')
      /\ UNCHANGED <<script, sent, wire, eof, handled, ended, back, answer, chunk>>
  BY DEF Handle, client, receiving
<1>2. sent > 0 /\ Answered /\ wire = <<>> BY <1>1 DEF CalmOK, ServedOK
<1>3. sent \in 1..Len(script) BY <1>2 DEF BaseOK
<1>4. handled[Len(handled)] = script[sent].want
  BY <1>2, <1>3 DEF CalmOK, HandledOK, Answered
<1>5. PICK r \in Responses(script[sent].want) : rsp' = ResponseTo(script[sent].want, keepalive, r)
  BY <1>4 DEF Handle
<1>6. script[sent] \in Range(script) BY <1>3, MessageFacts DEF BaseOK
<1>7. out' \in Seq(any) BY <1>1, <1>5, <1>6, ResponsesAssumption DEF BaseOK
<1>8. back' = <<>> /\ answer' = NoAnswer BY <1>1 DEF CalmOK, AnswerOK
<1>9. back' \in Seq(any) /\ back' \o out' = ResponseDump(rsp')
  BY <1>1, <1>7, <1>8, EmptySeq, ConcatEmptySeq
<1>10. Answered' BY <1>1, <1>2 DEF Answered
<1>11. AnswerOK' BY <1>1, <1>7, <1>8, <1>9, <1>10 DEF AnswerOK
<1>12. HandledOK' BY <1>1, HandledKept DEF CalmOK
<1>13. ended' # "error" BY <1>1 DEF BaseOK
<1> QED BY <1>1, <1>2, <1>10, <1>11, <1>12, <1>13 DEF CalmOK, RecvOK, BodyOK, ServedOK, ClosedOK

\* The next request, or the end, once the answer is written or lost.
LEMMA NextRequestCalm ==
  ASSUME BaseOK, CalmOK, pc = "send", NextRequest, UNCHANGED <<script, sent, wire, handled>>
  PROVE  /\ RecvOK' /\ pc' \in {"recv", "closed"} /\ ended' # "error" /\ HandledOK'
         /\ Answered' /\ Len(handled') \in 0..sent'
<1>1. Answered /\ wire = <<>> BY DEF CalmOK, ServedOK
<1>2. Answered' BY <1>1 DEF Answered
<1>3. pc' \in {"recv", "closed"} /\ ended' # "error" BY DEF NextRequest, CloseSession, BaseOK
<1>4. RecvOK' BY <1>1, <1>2, <1>3 DEF RecvOK, NextRequest, CloseSession, NewParser
<1>5. HandledOK' BY HandledKept DEF CalmOK
<1> QED BY <1>2, <1>3, <1>4, <1>5 DEF CalmOK

LEMMA SendCalm ==
  ASSUME BaseOK, CalmOK, Send, Quiet'
  PROVE  CalmOK'
<1>1. pc = "send" /\ ~eof BY DEF Send
<1>2. PICK n \in {Len(out), (Len(out) + 1) \div 2} :
       /\ back' = back \o SubSeq(out, 1, n)
       /\ out' = SubSeq(out, n + 1, Len(out))
       /\ IF n = Len(out) THEN NextRequest ELSE UNCHANGED <<pc, ended, reading>>
  BY DEF Send
<1>3. UNCHANGED <<script, sent, wire, eof, handled, rsp, answer, chunk>> BY DEF Send, client
<1>4. back \in Seq(any) /\ out \in Seq(any) /\ back \o out = ResponseDump(rsp) /\ answer = NoAnswer
  BY <1>1 DEF CalmOK, AnswerOK
<1>5. n \in 0..Len(out) BY <1>2, <1>4
<1>6. /\ SubSeq(out, 1, n) \in Seq(any) /\ out' \in Seq(any) /\ Len(out') = Len(out) - n
      /\ SubSeq(out, 1, n) \o out' = out
  BY <1>2, <1>4, <1>5, CutInTwo
<1>7. back' \in Seq(any) /\ back' \o out' = ResponseDump(rsp)
  <2>1. back' \in Seq(any) BY <1>2, <1>4, <1>6, ConcatProperties
  <2>2. (back \o SubSeq(out, 1, n)) \o out' = back \o (SubSeq(out, 1, n) \o out')
    BY <1>4, <1>6, Regrouped
  <2> QED BY <2>1, <2>2, <1>2, <1>4, <1>6
<1>8. CASE n = Len(out)
  <2>1. /\ RecvOK' /\ pc' \in {"recv", "closed"} /\ ended' # "error" /\ HandledOK'
        /\ Answered' /\ Len(handled') \in 0..sent'
    BY <1>1, <1>2, <1>3, <1>8, NextRequestCalm
  <2>2. out' = <<>> BY <1>4, <1>6, <1>8, EmptySeq
  <2>3. back' = ResponseDump(rsp) BY <2>2, <1>7, ConcatEmptySeq
  <2>4. AnswerOK' BY <2>1, <2>3, <1>3, <1>4 DEF AnswerOK
  <2> QED BY <2>1, <2>4 DEF CalmOK, BodyOK, ServedOK, ClosedOK
<1>9. CASE n # Len(out)
  <2>1. pc' = "send" /\ ended' = ended BY <1>1, <1>2, <1>9
  <2>2. AnswerOK' BY <2>1, <1>3, <1>4, <1>6, <1>7, <1>1 DEF AnswerOK, Answered, CalmOK, ServedOK
  <2>3. HandledOK' BY <1>3, HandledKept DEF CalmOK
  <2>4. ServedOK' BY <2>1, <1>1, <1>3 DEF CalmOK, ServedOK, Answered
  <2>5. ended' # "error" BY <2>1, <1>1 DEF BaseOK
  <2> QED BY <2>1, <2>2, <2>3, <2>4, <2>5, <1>3 DEF CalmOK, RecvOK, BodyOK, ClosedOK
<1> QED BY <1>8, <1>9

LEMMA SendFailsCalm ==
  ASSUME BaseOK, CalmOK, SendFails, Quiet'
  PROVE  CalmOK'
<1>1. pc = "send" /\ eof /\ NextRequest BY DEF SendFails
<1>2. UNCHANGED <<script, sent, wire, eof, handled, rsp, back, answer, chunk>>
  BY DEF SendFails, client, receiving
<1>3. /\ RecvOK' /\ pc' \in {"recv", "closed"} /\ ended' # "error" /\ HandledOK'
      /\ Answered' /\ Len(handled') \in 0..sent'
  BY <1>1, <1>2, NextRequestCalm
<1>4. answer = NoAnswer BY <1>1 DEF CalmOK, AnswerOK
<1>5. AnswerOK' BY <1>1, <1>2, <1>3, <1>4 DEF AnswerOK
<1> QED BY <1>3, <1>5 DEF CalmOK, BodyOK, ServedOK, ClosedOK

LEMMA ClientSendCalm ==
  ASSUME BaseOK, CalmOK, ClientSend, Quiet'
  PROVE  CalmOK'
<1>1. /\ sent < Len(script) /\ wire' = wire \o script[sent + 1].text /\ sent' = sent + 1
      /\ answer' = NoAnswer
      /\ UNCHANGED <<script, pipelined, eof, pc, parser, data, offset, handled, ended, back, chunk>>
  BY DEF ClientSend, client, reading
<1>2. pc = "recv" /\ Answered /\ back = <<>>
  BY <1>1 DEF ClientSend, Quiet, Answered
<1>3. NewParser /\ data = <<>> /\ offset = 0 /\ wire = <<>>
  BY <1>2 DEF CalmOK, RecvOK, Answered, Pending, BaseOK
<1>4. sent' \in 1..Len(script) BY <1>1 DEF BaseOK
<1>5. wire' = script'[sent'].text
  <2>1. script[sent'].text \in Seq(any) BY <1>4, MessageFacts DEF BaseOK
  <2> QED BY <2>1, <1>1, <1>3, ConcatEmptySeq
<1>6. Pending' BY <1>1, <1>2, <1>4 DEF Pending, Answered, BaseOK
<1>7. RecvOK' BY <1>1, <1>3, <1>5, <1>6 DEF RecvOK, NewParser
<1>8. HandledOK' BY <1>1, HandledKept DEF CalmOK
<1>9. ended' # "error" BY <1>1, <1>2 DEF BaseOK
<1>10. AnswerOK' BY <1>1, <1>2 DEF AnswerOK
<1>11. Len(handled') \in 0..sent' BY <1>1, <1>2, <1>4 DEF Answered, CalmOK, BaseOK
<1> QED BY <1>1, <1>2, <1>7, <1>8, <1>9, <1>10, <1>11 DEF CalmOK, BodyOK, ServedOK, ClosedOK

LEMMA ClientCloseCalm ==
  ASSUME BaseOK, CalmOK, ClientClose, Quiet'
  PROVE  CalmOK'
<1>1. /\ eof' /\ UNCHANGED <<script, pipelined, sent, wire, pc, parser, data, offset, body, left>>
      /\ UNCHANGED <<handled, rsp, out, ended, back, answer, chunk>>
  BY DEF ClientClose, client, reading, writing, receiving
<1>2. AnswerOK' BY <1>1 DEF CalmOK, AnswerOK, Answered, Parsed
<1>3. RecvOK' /\ BodyOK' /\ ServedOK' /\ ClosedOK' /\ HandledOK' /\ Len(handled') \in 0..sent'
  BY <1>1 DEF CalmOK, RecvOK, BodyOK, ServedOK, ClosedOK, HandledOK, NewParser, Pending, Answered, Rejected
<1> QED BY <1>2, <1>3 DEF CalmOK

\* What the client parses is the whole text of the response.
LEMMA ClientParseCalm ==
  ASSUME BaseOK, CalmOK, ClientParse, Quiet'
  PROVE  CalmOK'
<1>1. /\ back # <<>> /\ pc # "send" /\ ~eof /\ back' = <<>>
      /\ answer' = httpclient_parser_execute(httpclient_parser_init, back, FALSE)
      /\ UNCHANGED <<script, pipelined, sent, wire, pc, parser, data, offset, body, left>>
      /\ UNCHANGED <<handled, rsp, out, ended, chunk>>
  BY DEF ClientParse, client, reading, writing
<1>2. back = ResponseDump(rsp) /\ ~(pc = "handle" \/ ~Answered) BY <1>1 DEF CalmOK, AnswerOK
<1>3. answer' = Parsed' BY <1>1, <1>2 DEF Parsed
<1>4. AnswerOK' BY <1>1, <1>2, <1>3 DEF AnswerOK, Answered
<1>5. RecvOK' /\ BodyOK' /\ ServedOK' /\ ClosedOK' /\ HandledOK' /\ Len(handled') \in 0..sent'
  BY <1>1 DEF CalmOK, RecvOK, BodyOK, ServedOK, ClosedOK, HandledOK, NewParser, Pending, Answered, Rejected
<1> QED BY <1>4, <1>5 DEF CalmOK

LEMMA ClientChunkCalm ==
  ASSUME BaseOK, CalmOK, ClientChunk, Quiet'
  PROVE  CalmOK'
<1>1. /\ answer.chunked /\ eof' /\ chunk' \in Chunks
      /\ UNCHANGED <<script, pipelined, sent, wire, pc, parser, data, offset, body, left>>
      /\ UNCHANGED <<handled, rsp, out, ended, back>>
  BY DEF ClientChunk, client, reading, writing
<1>2. chunk' # NoChunk
  <2>1. NoChunk.text = <<>> BY DEF NoChunk
  <2>2. chunk'.text # <<>> BY <1>1, SessionAssumption
  <2> QED BY <2>1, <2>2
<1>3. answer # NoAnswer
  <2>1. ~NoAnswer.chunked BY Zenon DEF NoAnswer, httpclient_parser_init
  <2> QED BY <2>1, <1>1, Zenon
<1>4. ~(pc = "handle" \/ ~Answered) /\ pc # "send" BY <1>3 DEF CalmOK, AnswerOK
<1>5. AnswerOK' BY <1>1, <1>2, <1>4 DEF AnswerOK, Answered
<1>6. RecvOK' /\ BodyOK' /\ ServedOK' /\ ClosedOK' /\ HandledOK' /\ Len(handled') \in 0..sent'
  BY <1>1 DEF CalmOK, RecvOK, BodyOK, ServedOK, ClosedOK, HandledOK, NewParser, Pending, Answered, Rejected
<1> QED BY <1>5, <1>6 DEF CalmOK

-----------------------------------------------------------------------------
(* All steps, and what follows.                                             *)

LEMMA BaseStep ==
  ASSUME BaseOK, [Next]_vars
  PROVE  BaseOK'
<1> USE DEF BaseOK
<1>1. CASE RecvHeader
  <2>1. UNCHANGED <<script, sent, keepalive>> BY <1>1 DEF RecvHeader, client
  <2>2. pc' \in {"recv", "body", "handle", "closed"} /\ (pc' # "closed" => ended' = ended) /\ pc # "closed"
    BY <1>1 DEF RecvHeader, CloseSession, Complete
  <2> QED BY <2>1, <2>2
<1>2. CASE RecvBody BY <1>2 DEF RecvBody, Complete, client
<1>3. CASE RecvFails BY <1>3 DEF RecvFails, CloseSession, client
<1>4. CASE Handle BY <1>4 DEF Handle, client
<1>5. CASE Send \/ SendFails BY <1>5 DEF Send, SendFails, NextRequest, CloseSession, client
<1>6. CASE ClientSend
  <2>1. UNCHANGED <<script, keepalive, pc, ended>> /\ sent' = sent + 1 /\ sent < Len(script)
    BY <1>6 DEF ClientSend, client
  <2>2. script \in Seq(Range(script)) BY MessagesAssumption
  <2>3. sent' \in 0..Len(script) BY <2>1, <2>2
  <2> QED BY <2>1, <2>3
<1>7. CASE ClientClose \/ ClientParse \/ ClientChunk
  BY <1>7 DEF ClientClose, ClientParse, ClientChunk, client
<1>8. CASE Done \/ UNCHANGED vars BY <1>8 DEF Done, vars, client
<1> QED BY <1>1, <1>2, <1>3, <1>4, <1>5, <1>6, <1>7, <1>8 DEF Next, Server

LEMMA SessionInit ==
  ASSUME Init
  PROVE  SessionOK
<1>1. BaseOK
  <2>1. script \in Seq(Range(script)) BY MessagesAssumption DEF Init
  <2> QED BY <2>1 DEF Init, BaseOK
<1>2. Len(handled) = 0 /\ IsSeq(handled)
  <2>1. handled = <<>> BY DEF Init
  <2>2. handled \in Seq({}) BY <2>1
  <2> QED BY <2>1, <2>2 DEF IsSeq
<1>3. CalmOK
  BY <1>2 DEF Init, CalmOK, HandledOK, RecvOK, BodyOK, ServedOK, ClosedOK, AnswerOK, NewParser, Answered
<1> QED BY <1>1, <1>3 DEF SessionOK

LEMMA SessionStep ==
  ASSUME SessionOK, [Next]_vars
  PROVE  SessionOK'
<1>1. BaseOK /\ BaseOK' BY BaseStep DEF SessionOK
<1>2. ASSUME Quiet' PROVE CalmOK'
  <2>1. CalmOK BY <1>2, QuietBefore DEF SessionOK
  <2>2. CASE UNCHANGED vars
    BY <2>1, <2>2 DEF CalmOK, RecvOK, BodyOK, ServedOK, ClosedOK, HandledOK, AnswerOK, NewParser, Pending,
       Answered, Rejected, Parsed, vars, client, reading, writing, receiving
  <2>3. CASE Next
    <3>1. CASE RecvHeader BY <3>1, <2>1, <1>1, <1>2, RecvHeaderCalm
    <3>2. CASE RecvBody BY <3>2, <2>1, <1>1, <1>2, RecvBodyCalm
    <3>3. CASE RecvFails BY <3>3, <2>1, <1>1, <1>2, RecvFailsCalm
    <3>4. CASE Handle BY <3>4, <2>1, <1>1, <1>2, HandleCalm
    <3>5. CASE Send BY <3>5, <2>1, <1>1, <1>2, SendCalm
    <3>6. CASE SendFails BY <3>6, <2>1, <1>1, <1>2, SendFailsCalm
    <3>7. CASE ClientSend BY <3>7, <2>1, <1>1, <1>2, ClientSendCalm
    <3>8. CASE ClientClose BY <3>8, <2>1, <1>1, <1>2, ClientCloseCalm
    <3>9. CASE ClientParse BY <3>9, <2>1, <1>1, <1>2, ClientParseCalm
    <3>10. CASE ClientChunk BY <3>10, <2>1, <1>1, <1>2, ClientChunkCalm
    <3>11. CASE Done BY <3>11, <2>2 DEF Done
    <3> QED BY <2>3, <3>1, <3>2, <3>3, <3>4, <3>5, <3>6, <3>7, <3>8, <3>9, <3>10, <3>11 DEF Next, Server
  <2> QED BY <2>2, <2>3
<1> QED BY <1>1, <1>2 DEF SessionOK

LEMMA SessionAlways == Spec => []SessionOK
<1>1. Init => SessionOK BY SessionInit
<1>2. SessionOK /\ [Next]_vars => SessionOK' BY SessionStep
<1> QED BY <1>1, <1>2, PTL DEF Spec

\* However the stream is cut, as long as every header comes in one read and the
\* client waits for its answers: recvRequest hands over exactly the requests that
\* were written, in their order and with their whole bodies, and rejects a message
\* only if the parser by itself rejects it.
THEOREM HttpRequestsAsWritten == Spec => []RequestsAsWritten
<1>1. SessionOK => RequestsAsWritten
  <2> SUFFICES ASSUME SessionOK, ~split, ~pipelined
               PROVE  /\ \A i \in DOMAIN handled : handled[i] = script[i].want /\ script[i].form # "bad"
                      /\ ended = "error" =>
                           script[sent].form = "bad" \/ (script[sent].form = "relaxed" /\ ~parser.relaxed)
    BY DEF RequestsAsWritten
  <2>1. CalmOK BY DEF SessionOK, Quiet
  <2>2. DOMAIN handled = 1..Len(handled)
    <3>1. PICK S : handled \in Seq(S) BY <2>1 DEF CalmOK, HandledOK, IsSeq
    <3> QED BY <3>1
  <2> QED BY <2>1, <2>2 DEF CalmOK, HandledOK, ClosedOK, Rejected
<1> QED BY <1>1, SessionAlways, PTL

\* Under the same conditions nothing is lost and nothing left over between two
\* requests: when recvRequest waits with no byte on its way, every message sent was
\* handled.
THEOREM HttpNothingLeftOver == Spec => []NothingLeftOver
<1>1. SessionOK => NothingLeftOver
  <2> SUFFICES ASSUME SessionOK, pc = "recv", wire = <<>>, ~split, ~pipelined
               PROVE  Len(handled) = sent
    BY DEF NothingLeftOver
  <2>1. CalmOK /\ BaseOK BY DEF SessionOK, Quiet
  <2>2. CASE Answered BY <2>2 DEF Answered
  <2>3. CASE Pending /\ wire = script[sent].text
    <3>1. sent \in 1..Len(script) BY <2>1, <2>3 DEF BaseOK, Pending
    <3>2. script[sent].text # <<>> BY <3>1, <2>1, MessageFacts DEF BaseOK
    <3> QED BY <3>2, <2>3
  <2> QED BY <2>1, <2>2, <2>3 DEF CalmOK, RecvOK
<1> QED BY <1>1, SessionAlways, PTL

\* The client's parser gets the whole text of one response, HttpResponse::dump of
\* the one the servlet made, however writeFixSize cuts it.
AnswerWhole ==
  ~split /\ ~pipelined /\ answer # NoAnswer /\ chunk = NoChunk =>
    answer = httpclient_parser_execute(httpclient_parser_init, ResponseDump(rsp), FALSE)

\* Under the same conditions what the client has parsed is AnswerWhole: neither cut
\* short nor run into another response.
THEOREM HttpAnswerWhole == Spec => []AnswerWhole
<1>1. SessionOK => AnswerWhole BY DEF SessionOK, Quiet, CalmOK, AnswerOK, Parsed, AnswerWhole
<1> QED BY <1>1, SessionAlways, PTL
=============================================================================
