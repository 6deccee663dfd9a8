-------------------------- MODULE ResponseMachine --------------------------
(* The automaton of httpclient_parser.rl.cc: the transitions of its states  *)
(* 1 to 123, by the part of a response or of a chunk header they recognise. *)
EXTENDS HttpChars, Integers, Sequences

blank == {"\t", "vt", " "}
space == blank \cup {"\n", "\r"}

\* The end of a line in the states s, after the actions `do`: CRLF or LF.
Eol(s, do, lf, cr) == {T(s, {"\n"}, do, lf), T(s, {"\r"}, do, cr)}

\* A chunk header: its size and extensions, ended by the first line end.
ChunkedHeader ==
  {T({1}, xdigit, <<"mark">>, 2), T({2}, xdigit, <<>>, 2),
   T({4}, token, <<"start_field">>, 5), T({5}, token, <<>>, 5),
   T({5}, {"="}, <<"write_field", "mark">>, 6), T({6}, token, <<"mark">>, 7),
   T({7}, token, <<>>, 7), T({3}, {"\n"}, <<"done">>, 120)}
  \cup UNION {{T({s[1]}, {"\n"}, s[2] \o <<"done">>, 120), T({s[1]}, {"\r"}, s[2], 3),
               T({s[1]}, {";"}, s[2], 4)} :
                s \in {<<2, <<"chunk_size">>>>, <<7, <<"write_value">>>>,
                       <<5, <<"write_field", "mark", "write_value">>>>}}

\* The status line: version, code and reason.
StatusLine ==
  {T({1}, {"H"}, <<"mark">>, 8)} \cup Chain(8, <<"T", "T", "P", "/">>, 12)
  \cup {T({12, 13}, digit, <<>>, 13), T({13}, {"."}, <<>>, 14), T({14, 15}, digit, <<>>, 15),
        T({15}, {" "}, <<"http_version">>, 16),
        T({16}, digit, <<"mark">>, 17), T({17}, digit, <<>>, 17),
        T({17}, {" "}, <<"status_code">>, 18),
        T({18}, any \ {"\n"}, <<"mark">>, 19), T({19}, any \ {"\n", "\r"}, <<>>, 19),
        T({24}, {"\n"}, <<>>, 20)}
  \cup Eol({19}, <<"reason_phrase">>, 20, 24)

\* The start of a header line, after the actions `do`: the letter c may begin a
\* word of its own, as may t.
HeaderStart(s, do, c) ==
  {T({s}, EitherCase("c"), do \o <<"start_field">>, c),
   T({s}, EitherCase("t"), do \o <<"start_field">>, 44),
   T({s}, token \ (EitherCase("c") \cup EitherCase("t")), do \o <<"start_field">>, 21)}

\* Any header: its name in 21, its value in 22 and 23.
Fields ==
  HeaderStart(20, <<>>, 25)
  \cup {T({20}, {"\n"}, <<"done">>, 120), T({20}, {"\r"}, <<>>, 3),
        T({21}, token, <<>>, 21), T({21}, {":"}, <<"write_field">>, 22),
        T({22}, blank, <<"mark">>, 22), T({22}, any \ space, <<"mark">>, 23),
        T({23}, any \ {"\n", "\r"}, <<>>, 23)}
  \cup Eol({22}, <<"mark", "write_value">>, 20, 24)
  \cup Eol({23}, <<"write_value">>, 20, 24)

\* A state of a name that may still become a word: the letters of `next` go on
\* with it, any other token character makes it an ordinary name.
NameState(s, next, colon) ==
  {T({s}, EitherCase(n[1]), <<>>, n[2]) : n \in next}
  \cup {T({s}, token \ UNION {EitherCase(n[1]) : n \in next}, <<>>, 21),
        T({s}, {":"}, <<"write_field">>, colon)}

\* The states s, s+1, ... of a name that goes on with w, `to` being the last one.
NameWord(s, w, to) ==
  UNION {NameState(s + i - 1, {<<w[i], IF i = Len(w) THEN to ELSE s + i>>}, 22) : i \in 1..Len(w)}

\* The states s, s+1, ... of a value that goes on with w: any other character
\* makes it an ordinary value.
ValueWord(s, w, to) ==
  UNION {{T({s + i - 1}, EitherCase(w[i]), <<>>, IF i = Len(w) THEN to ELSE s + i),
          T({s + i - 1}, (any \ {"\n", "\r"}) \ EitherCase(w[i]), <<>>, 23)}
         \cup Eol({s + i - 1}, <<"write_value">>, 20, 24) : i \in 1..Len(w)}

\* The states s, s+1, ... of a word that must follow.
BareWord(s, w, to) ==
  {T({s + i - 1}, EitherCase(w[i]), <<>>, IF i = Len(w) THEN to ELSE s + i) : i \in 1..Len(w)}

\* The value of a header with a word of its own, in state v: `first` begins it.
WordValue(v, first, w, lf, cr) ==
  {T({v}, blank, <<"mark">>, v), T({v}, first, <<"mark">>, w),
   T({v}, (any \ space) \ first, <<"mark">>, 23)}
  \cup Eol({v}, <<"mark", "write_value">>, lf, cr)

\* Where such a value was empty, `space*` may still go on over line ends: lf after
\* a line end, fin after an empty line (a final state), cr and cr2 after "\r".
EmptyValue(lf, fin, cr, cr2, sp, first, do, to) ==
  {T({lf}, {"\n"}, <<"done">>, fin), T({lf}, blank, <<>>, sp), T({lf}, {"\r"}, <<>>, cr),
   T({cr}, {"\n"}, <<"done">>, fin), T({cr2}, {"\n"}, <<>>, lf),
   T({cr, cr2}, blank \cup {"\r"}, <<>>, sp), T({sp, fin}, space, <<>>, sp),
   T({cr, cr2, sp, fin}, first, do, to)}

\* "Connection": its name, then "close" in the value, in the value after line
\* ends, or as the start of the next header's name.
ConnectionName ==
  NameState(25, {<<"o", 26>>}, 22) \cup NameState(26, {<<"n", 27>>}, 22)
  \cup NameState(27, {<<"n", 28>>, <<"t", 101>>}, 22)
  \cup NameWord(28, <<"e", "c", "t", "i", "o", "n">>, 34) \cup NameState(34, {}, 35)

ConnectionClose ==
  WordValue(35, EitherCase("c"), 96, 36, 95)
  \cup EmptyValue(36, 122, 89, 95, 37, EitherCase("c"), <<>>, 38)
  \cup ValueWord(96, <<"l", "o", "s", "e">>, 100) \cup {T({100}, any \ {"\n", "\r"}, <<>>, 23)}
  \cup Eol({100}, <<"write_value">>, 43, 88)
  \cup BareWord(38, <<"l", "o", "s", "e">>, 42) \cup Eol({42, 94}, <<>>, 43, 88)
  \cup {T({88}, {"\n"}, <<>>, 43)}

ConnectionNext ==
  HeaderStart(36, <<>>, 90) \cup NameState(90, {<<"l", 91>>, <<"o", 26>>}, 22)
  \cup NameWord(91, <<"o", "s", "e">>, 94) \cup NameState(94, {}, 22)
  \cup HeaderStart(43, <<"write_connection_close">>, 25)
  \cup {T({43}, {"\n"}, <<"write_connection_close", "done">>, 120),
        T({43}, {"\r"}, <<"write_connection_close">>, 3)}

\* "Transfer-Encoding", and "chunked" in the same three places.
TransferName ==
  NameWord(44, <<"r", "a", "n", "s", "f", "e", "r">>, 51) \cup NameState(51, {<<"-", 52>>}, 22)
  \cup NameWord(52, <<"e", "n", "c", "o", "d", "i", "n", "g">>, 60) \cup NameState(60, {}, 61)

TransferChunked ==
  WordValue(61, EitherCase("c"), 81, 62, 80)
  \cup EmptyValue(62, 121, 72, 80, 63, EitherCase("c"), <<"mark">>, 64)
  \cup ValueWord(81, <<"h", "u", "n", "k", "e", "d">>, 87)
  \cup {T({87}, any \ {"\n", "\r"}, <<>>, 23)}
  \cup BareWord(64, <<"h", "u", "n", "k", "e", "d">>, 70)
  \cup {T({70, 79, 87}, {"\n"}, <<"write_value", "trans_chunked">>, 20),
        T({70, 79, 87}, {"\r"}, <<"write_value">>, 71),
        T({71}, {"\n"}, <<"trans_chunked">>, 20)}

TransferNext ==
  {T({62}, EitherCase("c"), <<"start_field", "mark">>, 73)}
  \cup {t \in HeaderStart(62, <<>>, 73) : t.to # 73}
  \cup NameState(73, {<<"h", 74>>, <<"o", 26>>}, 22)
  \cup NameWord(74, <<"u", "n", "k", "e", "d">>, 79) \cup NameState(79, {}, 22)

\* "Content-Length", and its number in the same three places.
LengthName ==
  NameWord(101, <<"e", "n", "t", "-", "l", "e", "n", "g", "t", "h">>, 111)
  \cup NameState(111, {}, 112)

LengthValue ==
  WordValue(112, digit, 119, 113, 118)
  \cup EmptyValue(113, 123, 116, 118, 114, digit, <<"mark">>, 115)
  \cup {T({119}, digit, <<>>, 119), T({119}, any \ (digit \cup {"\n", "\r"}), <<>>, 23),
        T({115}, digit, <<>>, 115), T({117}, digit, <<>>, 117),
        T({117}, token \ digit, <<>>, 21), T({117}, {":"}, <<"write_field">>, 22),
        T({113}, digit, <<"start_field", "mark">>, 117)}
  \cup Eol({115, 117, 119}, <<"write_content_len", "write_value">>, 20, 24)
  \cup {[t EXCEPT !.on = @ \ digit] : t \in HeaderStart(113, <<>>, 25)}

ResponseTransitions ==
  ChunkedHeader \cup StatusLine \cup Fields
  \cup ConnectionName \cup ConnectionClose \cup ConnectionNext
  \cup TransferName \cup TransferChunked \cup TransferNext
  \cup LengthName \cup LengthValue

httpclient_parser_start == 1
httpclient_parser_first_final == 120
httpclient_parser_error == 0

ResponseTable == Table(ResponseTransitions, 0..123)
=============================================================================
