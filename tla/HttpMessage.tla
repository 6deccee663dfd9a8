---------------------------- MODULE HttpMessage ----------------------------
(* http.h, http.cc and the callbacks of http_parser.cc: what a request and  *)
(* a response are, how they are written and how the two parsers fill them   *)
(* in.  Text is a sequence of the characters of HttpChars.                  *)
EXTENDS RequestMachine, ResponseMachine
LOCAL INSTANCE SequencesExt
LOCAL INSTANCE Functions
LOCAL INSTANCE TLC

CR_LF == <<"\r", "\n">>
CONNECTION == <<"c", "o", "n", "n", "e", "c", "t", "i", "o", "n">>
CONTENT_LENGTH == <<"c", "o", "n", "t", "e", "n", "t", "-", "l", "e", "n", "g", "t", "h">>
KEEP_ALIVE == <<"k", "e", "e", "z", "-", "a", "l", "i", "v", "e">>
CLOSE == <<"c", "l", "o", "s", "e">>

\* HttpMethod: the two methods whose letters the alphabet has, in the order of
\* HTTP_METHOD_MAP; the others differ from them in their letters only.
GET == <<"G", "E", "T">>
HEAD == <<"H", "E", "A", "D">>
HTTP_METHOD_MAP == <<GET, HEAD>>
INVALID_METHOD == <<>>

\* HttpStatus: 404 is written with the digit that stands for 4.
OK == 200
NOT_FOUND == 909

-----------------------------------------------------------------------------
(* Numbers and case.                                                        *)

DigitValue == ("0" :> 0) @@ ("1" :> 1) @@ ("2" :> 2) @@ ("5" :> 5) @@ ("9" :> 9)
XDigitValue == DigitValue @@ ("a" :> 10) @@ ("A" :> 10) @@ ("c" :> 12) @@ ("d" :> 13)
               @@ ("D" :> 13) @@ ("e" :> 14) @@ ("E" :> 14) @@ ("f" :> 15)

\* operator<< of an unsigned number.
Decimal(n) ==
  LET write[k \in 0..n] ==
        (IF k < 10 THEN <<>> ELSE write[k \div 10])
        \o <<CHOOSE c \in digit : DigitValue[c] = k % 10>>
  IN  write[n]

\* strtol: the number at the start of the text, in the digits of `value`.
strtol(text, value) ==
  LET base == IF value = DigitValue THEN 10 ELSE 16
      stop == SelectInSeq(text, LAMBDA c : c \notin DOMAIN value)
      n == IF stop = 0 THEN Len(text) ELSE stop - 1
      read[k \in 0..n] == IF k = 0 THEN 0 ELSE base * read[k - 1] + value[text[k]]
  IN  read[n]

\* lexical_cast<uint64_t>, as the int64_t recvRequest makes of it: a sign may
\* come first, and what is no number counts as the default 0.
lexical_cast(text) ==
  LET signed == text # <<>> /\ text[1] \in {"+", "-"}
      digits == IF signed THEN Tail(text) ELSE text
      number == strtol(digits, DigitValue)
  IN  IF digits = <<>> \/ ~(Range(digits) \subseteq digit) THEN 0
      ELSE IF text[1] = "-" THEN -number ELSE number

\* CaseInsensitiveLess makes two spellings one key: the lower-case one here.
LowerOf == ("A" :> "a") @@ ("D" :> "d") @@ ("E" :> "e") @@ ("G" :> "g")
           @@ ("H" :> "h") @@ ("P" :> "z") @@ ("T" :> "t")
Key(name) == [i \in DOMAIN name |->
                IF name[i] \in DOMAIN LowerOf THEN LowerOf[name[i]] ELSE name[i]]

-----------------------------------------------------------------------------
(* HttpRequest and HttpResponse.                                            *)

NoHeaders == <<>>
setHeader(headers, name, value) == (Key(name) :> value) @@ headers
getHeader(headers, key) == IF key \in DOMAIN headers THEN headers[key] ELSE <<>>
getContentLength(headers) == lexical_cast(getHeader(headers, CONTENT_LENGTH))

HttpRequest ==
  [method |-> GET, version |-> 1, path |-> <<"/">>, query |-> <<>>, fragment |-> <<>>,
   headers |-> NoHeaders, body |-> <<>>, close |-> TRUE]

HttpResponse(version, close) ==
  [status |-> OK, version |-> version, reason |-> <<>>, headers |-> NoHeaders,
   cookies |-> <<>>, body |-> <<>>, close |-> close, websocket |-> FALSE]

\* HttpRequest::init: m_close from the connection header, if there is one.
init(req) ==
  LET conn == getHeader(req.headers, CONNECTION)
  IN  IF conn = <<>> THEN req ELSE [req EXCEPT !.close = Key(conn) # KEEP_ALIVE]

\* CharsToHttpMethod compares a prefix: what follows the name is not looked at.
CharsToHttpMethod(text) ==
  LET match == SelectInSeq(HTTP_METHOD_MAP, LAMBDA m : IsPrefix(m, text))
  IN  IF match = 0 THEN INVALID_METHOD ELSE HTTP_METHOD_MAP[match]

\* strncmp(at, "HTTP/1.1", length) and then "HTTP/1.0": 2 stands for neither.
VersionText(v) == <<"H", "T", "T", "P", "/", "1", ".">> \o Decimal(v)
VersionOf(text) ==
  IF Len(text) <= 8 /\ IsPrefix(text, VersionText(1)) THEN 1
  ELSE IF Len(text) <= 8 /\ IsPrefix(text, VersionText(0)) THEN 0 ELSE 2

HeaderLine(name, value) == name \o <<":", " ">> \o value \o CR_LF

\* dump's loop over m_headers (the order of the map is left open).
HeaderLines(headers, websocket) ==
  LET names == SetToSeq({n \in DOMAIN headers : websocket \/ n # CONNECTION})
  IN  FlattenSeq([i \in DOMAIN names |-> HeaderLine(names[i], headers[names[i]])])

ConnectionLine(close) == HeaderLine(CONNECTION, IF close THEN CLOSE ELSE KEEP_ALIVE)

\* The end of dump: a body follows its content-length line at once.
BodyText(body) ==
  IF body = <<>> THEN CR_LF ELSE HeaderLine(CONTENT_LENGTH, Decimal(Len(body))) \o body

\* An optional part of the URI and the character before it.
Optional(c, text) == IF text = <<>> THEN <<>> ELSE <<c>> \o text

RequestHead(req) ==
  req.method \o <<" ">> \o req.path \o Optional("?", req.query) \o Optional("#", req.fragment)
  \o <<" ">> \o VersionText(req.version) \o CR_LF
  \o ConnectionLine(req.close) \o HeaderLines(req.headers, FALSE)

RequestDump(req) == RequestHead(req) \o BodyText(req.body)

\* HttpStatusToString, for a response without a reason of its own.
HttpStatusToString(status) == IF status = OK THEN <<"z", "z">> ELSE <<"z", " ", "z">>

SET_COOKIE == <<"s", "e", "t", "-", "c", "o", "o", "k", "i", "e">>

ResponseDump(rsp) ==
  VersionText(rsp.version) \o <<" ">> \o Decimal(rsp.status) \o <<" ">>
  \o (IF rsp.reason = <<>> THEN HttpStatusToString(rsp.status) ELSE rsp.reason) \o CR_LF
  \o HeaderLines(rsp.headers, rsp.websocket)
  \o FlattenSeq([i \in DOMAIN rsp.cookies |-> HeaderLine(SET_COOKIE, rsp.cookies[i])])
  \o (IF rsp.websocket THEN <<>> ELSE ConnectionLine(rsp.close))
  \o BodyText(rsp.body)

-----------------------------------------------------------------------------
(* The parsers.  A run of an automaton over a buffer: `at` is p - buffer,   *)
(* `halt` is set when it leaves the loop before the end of the buffer, and  *)
(* `exn` when a callback throws, std::string having been given a length     *)
(* below zero.  `data` is the memory of the buffer: behind the bytes last   *)
(* read it may still hold earlier ones.                                     *)

\* The bytes between two marks of the buffer.
Text(data, from, to) == SubSeq(data, from + 1, to)

\* A callback that copies the bytes from a mark to p.
Copied(s, from, field, data) ==
  IF from > s.at THEN [s EXCEPT !.exn = TRUE, !.halt = TRUE]
  ELSE [s EXCEPT !.msg = [@ EXCEPT ![field] = Text(data, from, s.at)]]

\* on_http_field and on_response_http_field: error 1002 for an empty name.
http_field(s, data) ==
  IF s.field_len = 0 THEN [s EXCEPT !.error = 1002]
  ELSE IF s.field_len < 0 \/ s.mark > s.at THEN [s EXCEPT !.exn = TRUE, !.halt = TRUE]
  ELSE [s EXCEPT !.msg.headers = setHeader(@, Text(data, s.field_start, s.field_start + s.field_len),
                                           Text(data, s.mark, s.at))]

http_version(s, data) ==
  LET v == IF s.mark > s.at THEN 2 ELSE VersionOf(Text(data, s.mark, s.at))
  IN  IF v = 2 THEN [s EXCEPT !.error = 1001] ELSE [s EXCEPT !.msg.version = v]

request_method(s, data) ==
  LET m == CharsToHttpMethod(Text(data, s.mark, Len(data)))
  IN  IF m = INVALID_METHOD THEN [s EXCEPT !.error = 1000] ELSE [s EXCEPT !.msg.method = m]

\* The actions that both automata have.
Common(s, do, data) ==
  CASE do = "mark" -> [s EXCEPT !.mark = s.at]
    [] do = "start_field" -> [s EXCEPT !.field_start = s.at]
    [] do = "write_field" -> [s EXCEPT !.field_len = s.at - s.field_start]
    [] do = "write_value" -> http_field(s, data)
    [] do = "http_version" -> http_version(s, data)

\* The actions of http11_parser.rl; header_done is not set by anybody, and
\* calling what happens to be there ends the process.
RequestAction(s, do, data) ==
  CASE do = "start_query" -> [s EXCEPT !.query_start = s.at]
    [] do = "request_method" -> request_method(s, data)
    [] do = "request_uri" -> s
    [] do = "request_path" -> Copied(s, s.mark, "path", data)
    [] do = "query_string" -> Copied(s, s.query_start, "query", data)
    [] do = "fragment" -> Copied(s, s.mark, "fragment", data)
    [] do \in {"xml", "json"} -> [s EXCEPT !.socket = TRUE]
    [] do = "done" -> [s EXCEPT !.halt = TRUE, !.crash = s.header_done /\ ~s.socket]
    [] OTHER -> Common(s, do, data)

\* The actions of httpclient_parser.rl.
ResponseAction(s, do, data) ==
  LET rest == Text(data, s.mark, Len(data)) IN
  CASE do = "status_code" -> [s EXCEPT !.msg.status = strtol(rest, DigitValue)]
    [] do = "reason_phrase" -> Copied(s, s.mark, "reason", data)
    [] do = "write_content_len" -> [s EXCEPT !.content_len = strtol(rest, DigitValue)]
    [] do = "write_connection_close" -> [s EXCEPT !.close = TRUE]
    [] do = "chunk_size" -> LET n == strtol(rest, XDigitValue)
                            IN  [s EXCEPT !.chunked = TRUE, !.content_len = n, !.chunks_done = n <= 0]
    [] do = "trans_chunked" -> [s EXCEPT !.chunked = TRUE]
    [] do = "done" -> [s EXCEPT !.halt = TRUE]
    [] OTHER -> Common(s, do, data)

\* One character: the transition of the state for it, its actions in order,
\* and the next state; no transition is the error state, with p on it.
Step(table, Action(_, _, _), s, data) ==
  LET c == data[s.at + 1]
      row == table[s.cs]
      do == row[c].do
      after[k \in 0..Len(do)] ==
        IF k = 0 THEN s
        ELSE IF after[k - 1].exn THEN after[k - 1] ELSE Action(after[k - 1], do[k], data)
  IN  IF s.halt THEN s
      ELSE IF c \notin DOMAIN row THEN [s EXCEPT !.cs = 0, !.halt = TRUE]
      ELSE [after[Len(do)] EXCEPT !.cs = row[c].to, !.at = @ + 1]

\* http_parser_execute and httpclient_parser_execute, from the buffer's start;
\* nread counts over all the calls.
Execute(table, Action(_, _, _), parser, data, len) ==
  LET run[k \in 0..len] ==
        IF k = 0 THEN [parser EXCEPT !.at = 0, !.halt = FALSE]
        ELSE Step(table, Action, run[k - 1], data)
  IN  [run[len] EXCEPT !.nread = @ + run[len].at]

\* http_parser_init, with the fields HttpRequestParser leaves uninitialised.
http_parser_init(relaxed, header_done) ==
  [cs |-> http_parser_start, at |-> 0, halt |-> FALSE, exn |-> FALSE, crash |-> FALSE,
   mark |-> 0, nread |-> 0, field_start |-> 0, field_len |-> 0, query_start |-> 0,
   socket |-> FALSE, error |-> 0, relaxed |-> relaxed, header_done |-> header_done,
   msg |-> HttpRequest]

http_parser_execute(parser, data, len) ==
  Execute(RequestTable[parser.relaxed], RequestAction, parser, data, len)

\* Mutant: a message may not end with the buffer.
http_parser_asserts_less(parser, len) ==
  /\ parser.nread < len
  /\ parser.mark < len
  /\ parser.field_len \in 0..len
  /\ parser.field_start < len

\* The assertions at the end of http_parser_execute (size_t: no value below zero).
http_parser_asserts(parser, len) ==
  /\ parser.nread <= len
  /\ parser.mark < len
  /\ parser.field_len \in 0..len
  /\ parser.field_start < len

hasError(parser) == parser.error # 0 \/ parser.cs = http_parser_error

\* Mutant: the first of the final states is taken for one that is not.
http_parser_is_past(parser) == parser.cs > http_parser_first_final

http_parser_is_finished(parser) == parser.cs >= http_parser_first_final

httpclient_parser_init ==
  [cs |-> httpclient_parser_start, at |-> 0, halt |-> FALSE, exn |-> FALSE,
   mark |-> 0, nread |-> 0, field_start |-> 0, field_len |-> 0, content_len |-> -1,
   chunked |-> FALSE, chunks_done |-> FALSE, close |-> FALSE, error |-> 0,
   msg |-> HttpResponse(1, TRUE)]

\* Mutant: the parser goes on from where the last chunk left it.
httpclient_parser_continue(parser, data, chunk) ==
  Execute(ResponseTable, ResponseAction, parser, data, Len(data))

\* HttpResponseParser::execute; for a chunk the parser starts afresh.
httpclient_parser_execute(parser, data, chunk) ==
  Execute(ResponseTable, ResponseAction,
          IF chunk THEN [httpclient_parser_init EXCEPT !.msg = parser.msg] ELSE parser,
          data, Len(data))

httpclient_parser_is_finished(parser) == parser.cs = httpclient_parser_first_final
=============================================================================
