--------------------------- MODULE MCHttpSession ---------------------------
\* Instances of HttpSession for TLC: the messages and the responses.
EXTENDS HttpSession
LOCAL INSTANCE SequencesExt
LOCAL INSTANCE TLC

\* Neither automaton leaves a choice: the tables are functions.
ASSUME TablesAssumption ==
  /\ \A extra \in {{}, more_delims} : Deterministic(RequestTransitions(extra))
  /\ Deterministic(ResponseTransitions)

\* The characters of a URI part, by RFC 3986: `allowed` ones and "%XX".
Encoded(text, allowed) ==
  \A i \in DOMAIN text :
    \/ text[i] \in allowed
    \/ text[i] = "%" /\ i + 2 <= Len(text) /\ {text[i + 1], text[i + 2]} \subseteq xdigit

UriChars == unreserved \cup sub_delims \cup {":", "@", "/"}

\* A path after its first "/", a query and a fragment, with `more` characters.
UriForm(req, more) ==
  /\ Encoded(req.path, UriChars \cup more)
  /\ Encoded(req.query, UriChars \cup more \cup {"?"})
  /\ Encoded(req.fragment, UriChars \cup more \cup {"?"})

\* What a client writes for a request: a body has an empty line before it.
ClientText(req) ==
  IF req.body = <<>> THEN RequestDump(req)
  ELSE RequestHead(req) \o HeaderLine(CONTENT_LENGTH, Decimal(Len(req.body))) \o CR_LF \o req.body

\* The request with the headers its text has.
AsSent(req) ==
  [req EXCEPT !.headers =
     (CONNECTION :> IF req.close THEN CLOSE ELSE KEEP_ALIVE)
     @@ (IF req.body = <<>> THEN <<>> ELSE (CONTENT_LENGTH :> Decimal(Len(req.body)))) @@ @]

Message(req) ==
  [text |-> ClientText(req), want |-> AsSent(req),
   form |-> IF UriForm(req, {}) THEN "good" ELSE IF UriForm(req, more_delims) THEN "relaxed" ELSE "bad"]

Parts(chars) == SeqOf(chars, 2)
Paths == {<<"/">> \o s : s \in Parts({"a", "%", "^", "[", ":"})}
         \cup {<<"/">> \o s : s \in [1..3 -> {"%", "2", "f"}]} \cup {<<"/", "a", "/", "/">>}
Tails == {s \in Parts({"a", "?", "^", "hi"}) : s # <<>>} \cup {<<"%", "2", "a">>, <<"%", "g", "a">>}

Uris == {[HttpRequest EXCEPT !.path = p] : p \in Paths}
        \cup {[HttpRequest EXCEPT !.query = q, !.fragment = f] : q \in Tails, f \in {<<>>, <<"a">>}}
        \cup {[HttpRequest EXCEPT !.fragment = f] : f \in Tails}

X == <<"A", "-", "z">>
Others == {[HttpRequest EXCEPT !.method = m, !.version = v, !.close = c, !.body = b,
              !.headers = h] :
             m \in {GET, HEAD}, v \in {0, 1}, c \in BOOLEAN, b \in {<<>>, <<"\n">>, <<"G", "E", "T", " ", "/">>},
             h \in {<<>>, Key(X) :> <<"a", " ", ":">>}}

\* Two requests, the second of which may look like the body of the first.
Pairs == {<<Message([HttpRequest EXCEPT !.close = FALSE, !.body = b]),
            Message([HttpRequest EXCEPT !.method = HEAD])>> : b \in {<<>>, <<"a", "a">>}}

\* Targets of other forms: an authority, an IP literal, a scheme, no path at all;
\* each with the path that remains of it.
Targets ==
  {<<t, t>> : t \in {<<"/", "/", "a", "@", "a", ":", "2", "/">>, <<"!">>, <<"a", "/", "a">>,
                    <<"/", "/", "[", ":", ":", "1", ":", "a", "]", "/", "a">>,
                    <<"/", "/", "[", ":", ":", "1", ".", "2", ".", "0", ".", "1", "]">>,
                    <<"/", "/", "a", "@", "[", "v", "1", ".", "a", "]", ":", "5">>}}
  \cup {<<<<"h", ":", "/", "/", "a">>, <<"/", "/", "a">>>>, <<<<"h", ":", "a">>, <<"a">>>>, <<<<>>, <<>>>>}
BadTargets == {<<":">>, <<"/", "/", "[", "]">>, <<"/", "/", "a", ":", "a", "/">>, <<"h", ":", ":", "[">>}

Good(text, want) == [text |-> text, want |-> want, form |-> "good"]
Line(method, target) == method \o <<" ">> \o target \o <<" ">> \o VersionText(1)
Raw ==
  {Good(Line(GET, t[1]) \o CR_LF \o CR_LF, [HttpRequest EXCEPT !.path = t[2]]) : t \in Targets}
  \cup {[Good(Line(GET, t) \o CR_LF \o CR_LF, HttpRequest) EXCEPT !.form = "bad"] : t \in BadTargets}
  \cup {[Good(Line(m, <<"/">>) \o CR_LF \o CR_LF, HttpRequest) EXCEPT !.form = "bad"] :
           m \in {<<"g", "e", "t">>, <<"G", "E">>, [i \in 1..21 |-> "G"], <<>>}}
  \cup \* line feeds alone; mixed case; the last of two headers counts; signs
  {Good(Line(HEAD, <<"/">>) \o <<"\n">> \o name \o <<":", "2", "\n">> \o name \o <<":", "\t", " ">> \o n \o <<"\n", "\n">>
       , [HttpRequest EXCEPT !.method = HEAD, !.headers = (CONTENT_LENGTH :> n)]) :
     name \in {CONTENT_LENGTH, [CONTENT_LENGTH EXCEPT ![9] = "l", ![10] = "E"]},
     n \in {<<"0">>, <<"-", "1">>, <<"a">>}}
  \cup {Good(Line(GET, <<"/">>) \o <<"\n">> \o HeaderLine(CONTENT_LENGTH, <<"+", "1">>) \o <<"\n", "a">>,
             [HttpRequest EXCEPT !.body = <<"a">>, !.headers = (CONTENT_LENGTH :> <<"+", "1">>)]),
        \* the client goes away in the middle of a body
        [Good(Line(GET, <<"/">>) \o <<"\n">> \o HeaderLine(CONTENT_LENGTH, <<"2">>) \o <<"\n", "a">>, HttpRequest)
           EXCEPT !.form = "bad"],
        \* the messages that are no requests
        Good(<<"<", "a", " ", ">", ">", "nul">>, [HttpRequest EXCEPT !.path = <<"<", "a">>]),
        Good(<<"@", "a", "/", " ", "{", "}", "}", "nul">>, [HttpRequest EXCEPT !.path = <<"@", "a", "/">>])}

MCScripts == {<<Message(r)>> : r \in Uris \cup Others} \cup {<<r>> : r \in Raw} \cup Pairs

Blank == HttpResponse(1, TRUE)
Special == {CONTENT_LENGTH, TRANSFER_ENCODING, CONNECTION, <<"c", "a">>}
Rich ==
  {[Blank EXCEPT !.headers = (n :> v), !.websocket = w] :
     n \in Special, w \in BOOLEAN,
     v \in {<<"5">>, CHUNKED, CLOSE, <<"c", "l", "a">>}}
  \cup {[Blank EXCEPT !.headers = (n :> <<>>)] : n \in Special}
  \cup {[Blank EXCEPT !.headers = (n :> <<>>) @@ (m :> <<"1">>)] : n, m \in Special}
  \cup {[Blank EXCEPT !.status = NOT_FOUND, !.reason = <<"z", " ", "z">>, !.cookies = <<<<"a", "=", "1">>>>]}
\* A servlet does what it likes with a bare HEAD request of version 1.0, the others
\* leave the response as it is.
MCResponses(req) == IF req.method = HEAD /\ req.version = 0 /\ req.body = <<>> THEN Rich ELSE {Blank}

MCChunks ==
  {[text |-> <<"1", "a", "\r", "\n">>, size |-> 26], [text |-> <<"0", "\n">>, size |-> 0],
   [text |-> <<"2", ";", "a", "=", "1", "\r", "\n">>, size |-> 2]}
=============================================================================
