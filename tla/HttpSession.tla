---------------------------- MODULE HttpSession ----------------------------
(* One connection of an HttpServer: HttpServer::handleClient with its       *)
(* HttpSession on one side, a client with an HttpResponseParser on the      *)
(* other, and a byte stream between them that a read may cut anywhere.      *)
EXTENDS HttpMessage, FiniteSetsExt

CONSTANTS
  Scripts,     \* what a client may send: sequences of [text, want] records
  Responses(_),\* what a servlet may make of a new HttpResponse for a request
  Chunks,      \* the headers of chunks that may follow a response
  Cuts,        \* a read returns all there is, only so many bytes or so many fewer
  BuffSize,    \* http.request.buffer_size
  Garbage      \* the values the uninitialised fields of a parser may have

ASSUME SessionAssumption ==
  BuffSize \in Nat \ {0} /\ Cuts \subseteq Nat \ {0} /\ \A c \in Chunks : c.text # <<>>

\* What a new parser that read a message's first n bytes, with all of its header,
\* says of it: the header is an error or is finished, and what lies behind it is
\* the body the message should have, or less than the header promises.
TakenAs(p, m, n) ==
  LET length == getContentLength(p.msg.headers)
      rest == SubSeq(m.text, p.nread + 1, Len(m.text))
  IN  IF p.error # 0 \/ p.cs = http_parser_error THEN m.form = "bad" \/ (m.form = "relaxed" /\ ~p.relaxed)
      ELSE /\ p.cs >= http_parser_first_final /\ p.nread \in 1..n /\ length \in Int
           /\ IF m.form = "bad" THEN length > Len(rest)
              ELSE Max({0, length}) = Len(rest) /\ init([p.msg EXCEPT !.body = rest]) = m.want

\* The parser by itself takes the messages of the scripts for what they are.
ASSUME MessagesAssumption ==
  \A s \in Scripts : s \in Seq(Range(s)) /\ \A m \in Range(s) :
    /\ m.text \in Seq(any) /\ m.text # <<>>
    /\ \A relaxed, header_done \in Garbage, n \in 1..Min({Len(m.text), BuffSize}) :
         LET p == http_parser_execute(http_parser_init(relaxed, header_done), SubSeq(m.text, 1, n), n)
         IN  p.halt /\ ~p.crash /\ ~p.exn /\ http_parser_asserts(p, n) => TakenAs(p, m, n)

\* The response a servlet gets for a request, changed as it likes but for the
\* version and m_close, which the constructor gets from the request.
ResponseTo(req, keep, r) == [r EXCEPT !.version = req.version, !.close = req.close \/ ~keep]

\* A response is written as text.
ASSUME ResponsesAssumption ==
  \A s \in Scripts : \A m \in Range(s) : \A r \in Responses(m.want) : \A keep \in BOOLEAN :
    ResponseDump(ResponseTo(m.want, keep, r)) \in Seq(any)

VARIABLES
  keepalive,   \* m_isKeepalive of the server
  script,      \* what this client sends
  pipelined,   \* the client does not wait for an answer
  sent,        \* the messages sent so far
  wire,        \* the bytes on their way to the server
  eof,         \* the client has closed its side
  pc,          \* where handleClient stands
  parser,      \* recvRequest: the parser, the buffer and the bytes kept in it
  data,
  offset,
  body,        \* the body read so far, and how many bytes it still lacks
  left,
  handled,     \* the requests given to the servlets
  rsp,         \* the response being sent, and what is left of its text
  out,
  split,       \* a read has ended inside a header
  ended,       \* why the session was closed
  back,        \* the client: the bytes of the response that have come back,
  answer,      \* its parser after the last response
  chunk        \* and the last chunk header it has parsed

client == <<keepalive, script, pipelined>>
reading == <<parser, data, offset, body, left>>
writing == <<rsp, out>>
receiving == <<back, answer, chunk>>
vars == <<client, sent, wire, eof, pc, reading, handled, writing, split, ended, receiving>>

NoAnswer == httpclient_parser_init
NoChunk == [text |-> <<>>, size |-> 0]

\* The length of the next read of at most `size` bytes.
ReadLengths(size) ==
  LET most == Min({Len(wire), size})
  IN  {most} \cup {n \in Cuts \cup {most - c : c \in Cuts} : n \in 1..most - 1}

Init ==
  /\ keepalive \in BOOLEAN /\ script \in Scripts /\ pipelined \in BOOLEAN
  /\ pipelined => Len(script) > 1
  /\ sent = 0 /\ wire = <<>> /\ eof = FALSE
  /\ pc = "recv"
  /\ \E relaxed, header_done \in Garbage : parser = http_parser_init(relaxed, header_done)
  /\ data = <<>> /\ offset = 0 /\ body = <<>> /\ left = 0
  /\ handled = <<>> /\ rsp = HttpResponse(1, TRUE) /\ out = <<>>
  /\ split = FALSE /\ ended = "open"
  /\ back = <<>> /\ answer = NoAnswer /\ chunk = NoChunk

-----------------------------------------------------------------------------
(* HttpSession::recvRequest.                                                *)

\* session->close() and the end of handleClient; the bytes on the way are lost.
CloseSession(why) == pc' = "closed" /\ ended' = why

\* The request is complete: init() it and hand it over.
Complete(req) == pc' = "handle" /\ handled' = Append(handled, init(req)) /\ UNCHANGED ended

\* The buffer after a read of `bytes` behind those it kept.
Written(bytes) ==
  SubSeq(data, 1, offset) \o bytes \o SubSeq(data, offset + Len(bytes) + 1, Len(data))

\* memmove(data, data + n, len - n).
Moved(mem, n, len) == SubSeq(mem, n + 1, len) \o SubSeq(mem, len - n + 1, Len(mem))

\* One turn of the loop: read, execute, and what the result asks for.  An
\* assertion that fails and a wild callback end the process, an exception ends
\* the fiber and with it the session.
RecvHeader ==
  /\ pc = "recv" /\ wire # <<>>
  /\ \E n \in ReadLengths(BuffSize - offset) :
       LET len == offset + n
           p == http_parser_execute(parser, Written(SubSeq(wire, 1, n)), len)
           mem == Moved(Written(SubSeq(wire, 1, n)), p.nread, len)
           kept == len - p.nread
           length == getContentLength(p.msg.headers)
       IN  /\ wire' = SubSeq(wire, n + 1, Len(wire))
           /\ parser' = p
           /\ split' = (split \/ ~p.halt)
           /\ IF p.crash \/ p.exn \/ ~http_parser_asserts(p, len)
                THEN /\ CloseSession(IF p.exn THEN "exception" ELSE IF p.crash THEN "wild" ELSE "assert")
                     /\ UNCHANGED <<data, offset, body, left, handled>>
              ELSE IF hasError(p) \/ kept = BuffSize
                THEN CloseSession("error") /\ UNCHANGED <<data, offset, body, left, handled>>
              ELSE /\ data' = mem /\ offset' = kept
                   /\ IF ~http_parser_is_finished(p)
                        THEN UNCHANGED <<pc, ended, body, left, handled>>
                      ELSE /\ body' = SubSeq(mem, 1, Max({0, Min({length, kept})}))
                           /\ left' = Max({0, length - kept})
                           /\ IF length - kept > 0
                                THEN pc' = "body" /\ UNCHANGED <<ended, handled>>
                              ELSE Complete([p.msg EXCEPT !.body = body'])
  /\ UNCHANGED <<client, sent, eof, writing, receiving>>

\* Mutant: one read, which may give less than was asked for.
RecvBodyOnce ==
  /\ pc = "body" /\ wire # <<>>
  /\ \E n \in ReadLengths(left) :
       /\ wire' = SubSeq(wire, n + 1, Len(wire))
       /\ body' = body \o SubSeq(wire, 1, n)
       /\ left' = 0
       /\ Complete([parser.msg EXCEPT !.body = body'])
  /\ UNCHANGED <<client, sent, eof, parser, data, offset, writing, split, receiving>>

\* readFixSize of what the body lacks, one read at a time.
RecvBody ==
  /\ pc = "body" /\ wire # <<>>
  /\ \E n \in ReadLengths(left) :
       /\ wire' = SubSeq(wire, n + 1, Len(wire))
       /\ body' = body \o SubSeq(wire, 1, n)
       /\ left' = left - n
       /\ IF left = n THEN Complete([parser.msg EXCEPT !.body = body'])
          ELSE UNCHANGED <<pc, ended, handled>>
  /\ UNCHANGED <<client, sent, eof, parser, data, offset, writing, split, receiving>>

\* Mutant: `len < 0` for `len <= 0`, so that the end of the stream is not noticed.
RecvFailsBelowZero ==
  /\ pc \in {"recv", "body"} /\ wire = <<>> /\ ~eof
  /\ CloseSession("peer")
  /\ UNCHANGED <<client, sent, wire, eof, reading, handled, writing, split, receiving>>

\* A read that returns 0 (the client has closed) or -1 (the time-out that
\* TcpServer set on the socket; do_io may also lose it, so it is never certain).
RecvFails ==
  /\ pc \in {"recv", "body"} /\ wire = <<>>
  /\ CloseSession("peer")
  /\ UNCHANGED <<client, sent, wire, eof, reading, handled, writing, split, receiving>>

-----------------------------------------------------------------------------
(* The rest of handleClient.                                                *)

\* m_dispatch->handle with a new response.
Handle ==
  /\ pc = "handle"
  /\ LET req == handled[Len(handled)] IN
       \E r \in Responses(req) : rsp' = ResponseTo(req, keepalive, r)
  /\ out' = ResponseDump(rsp')
  /\ pc' = "send"
  /\ UNCHANGED <<client, sent, wire, eof, reading, handled, split, ended, receiving>>

\* After sendResponse: the next request, with a new parser and a new buffer, or
\* the end.  Its result is not looked at, so a failed write comes here too.
NextRequest ==
  IF keepalive
  THEN /\ pc' = "recv" /\ data' = <<>> /\ offset' = 0 /\ body' = <<>> /\ left' = 0
       /\ \E relaxed, header_done \in Garbage : parser' = http_parser_init(relaxed, header_done)
       /\ UNCHANGED ended
  ELSE CloseSession("done") /\ UNCHANGED reading

\* writeFixSize, one write at a time: of all that is left, or of half of it.  The
\* client has to read: TcpServer sets no time-out for sending, so a write that finds
\* the socket full waits until it does, or until it closes.
Send ==
  /\ pc = "send" /\ ~eof
  /\ \E n \in {Len(out), (Len(out) + 1) \div 2} :
       /\ back' = back \o SubSeq(out, 1, n)
       /\ out' = SubSeq(out, n + 1, Len(out))
       /\ IF n = Len(out) THEN NextRequest ELSE UNCHANGED <<pc, ended, reading>>
  /\ UNCHANGED <<client, sent, wire, eof, handled, rsp, split, answer, chunk>>

\* A write that finds the client gone.
SendFails ==
  /\ pc = "send" /\ eof
  /\ out' = <<>>
  /\ NextRequest
  /\ UNCHANGED <<client, sent, wire, eof, handled, rsp, split, receiving>>

-----------------------------------------------------------------------------
(* The client (external).                                                   *)

ClientSend ==
  /\ sent < Len(script) /\ ~eof /\ pc # "closed"
  /\ \/ pipelined
     \/ pc = "recv" /\ Len(handled) = sent /\ back = <<>>
  /\ wire' = wire \o script[sent + 1].text
  /\ sent' = sent + 1
  /\ answer' = NoAnswer
  /\ UNCHANGED <<client, eof, pc, reading, handled, writing, split, ended, back, chunk>>

ClientClose ==
  /\ ~eof
  /\ eof' = TRUE
  /\ UNCHANGED <<client, sent, wire, pc, reading, handled, writing, split, ended, receiving>>

\* The client parses the whole response; one it cannot parse ends its side.
ClientParse ==
  /\ back # <<>> /\ out = <<>> /\ pc # "send" /\ ~eof
  /\ answer' = httpclient_parser_execute(httpclient_parser_init, back, FALSE)
  /\ back' = <<>>
  /\ eof' = ~httpclient_parser_is_finished(answer')
  /\ UNCHANGED <<client, sent, wire, pc, reading, handled, writing, split, ended, chunk>>

\* After a chunked response, the header of a chunk.
ClientChunk ==
  /\ answer.chunked /\ ~answer.chunks_done /\ back = <<>> /\ ~eof
  /\ chunk' \in Chunks
  /\ answer' = httpclient_parser_execute(answer, chunk'.text, TRUE)
  /\ eof' = TRUE
  /\ UNCHANGED <<client, sent, wire, pc, reading, handled, writing, split, ended, back>>

-----------------------------------------------------------------------------
Server == RecvHeader \/ RecvBody \/ RecvFails \/ Handle \/ Send \/ SendFails

Done == pc = "closed" /\ (eof \/ back = <<>>) /\ UNCHANGED vars

Next == Server \/ ClientSend \/ ClientClose \/ ClientParse \/ ClientChunk \/ Done

Spec == Init /\ [][Next]_vars

\* What the fiber does without waiting for anyone: bytes or the end of the stream
\* are there to be read, a servlet has a request, a write fails at once.  A write
\* that a client has to make room for is none of these, nor is a time-out.
Unblocked == RecvHeader \/ RecvBody \/ Handle \/ SendFails \/ (eof /\ RecvFails)

\* The fiber runs whenever it can; nothing is assumed of the client.
FairSpec == Spec /\ WF_vars(Unblocked)
-----------------------------------------------------------------------------
(* What a reader of the code relies on.  A script's message says what it    *)
(* should be taken for (`want`) and whether it is "good", good only with    *)
(* the relaxed delimiters, or "bad".                                        *)

\* recvRequest hands over exactly the requests that were written, in their order
\* and with their bodies, however the bodies were cut into reads, and gives up on
\* a message only if it is malformed - as long as every header came in one read
\* and the client waited for its answers.
RequestsAsWritten ==
  ~split /\ ~pipelined =>
    /\ \A i \in DOMAIN handled : handled[i] = script[i].want /\ script[i].form # "bad"
    /\ ended = "error" =>
         script[sent].form = "bad" \/ (script[sent].form = "relaxed" /\ ~parser.relaxed)

\* Between two requests nothing is lost and nothing is left over: when
\* recvRequest waits and no byte is on its way, every message sent was handled.
NothingLeftOver ==
  pc = "recv" /\ wire = <<>> /\ ~split /\ ~pipelined => Len(handled) = sent

\* Only a header that came in several reads fails an assertion of
\* http_parser_execute or makes a callback throw.
FaultsOnlyIfSplit ==
  /\ ended \in {"assert", "exception"} => split
  /\ ended = "wild" => parser.header_done

\* The words that httpclient_parser.rl looks for in headers.
TRANSFER_ENCODING == <<"t", "r", "a", "n", "s", "f", "e", "r", "-",
                       "e", "n", "c", "o", "d", "i", "n", "g">>
CHUNKED == <<"c", "h", "u", "n", "k", "e", "d">>

\* What HttpResponse::dump writes, HttpResponseParser reads back: status, reason,
\* headers and what they say about the connection and the body; and the size of a
\* chunk, the last one being the one of size zero.  (Responses without a body.)
AnswerReadsBack ==
  /\ answer # NoAnswer /\ chunk = NoChunk /\ rsp.body = <<>> /\ ~pipelined =>
       /\ httpclient_parser_is_finished(answer) /\ answer.error = 0
       /\ answer.msg.status = rsp.status /\ answer.msg.version = rsp.version
       /\ rsp.reason # <<>> => answer.msg.reason = rsp.reason
       /\ \A n \in DOMAIN rsp.headers \ {CONNECTION} : getHeader(answer.msg.headers, n) = rsp.headers[n]
       /\ ~rsp.websocket => answer.close = rsp.close
       /\ answer.chunked = (Key(getHeader(rsp.headers, TRANSFER_ENCODING)) = CHUNKED)
  /\ chunk # NoChunk =>
       /\ httpclient_parser_is_finished(answer)
       /\ answer.content_len = chunk.size /\ answer.chunks_done = (chunk.size = 0)

\* Once the client has closed its side, whatever it sent, left unsent or left unread
\* before, handleClient ends: in the middle of a header, of a body or of an answer,
\* and with requests still waiting.  A client that stays may hold its session for
\* ever: by not reading, or by not writing if do_io loses the time-out.
SessionEnds == eof ~> pc = "closed"

\* http_parser_execute asserts of every call that it has read no more than it was
\* given ("nread longer than length", http11_parser.rl.cc:6633), and the like of its
\* marks.
NreadWithinLength == ended # "assert"
=============================================================================
