--------------------------- MODULE RequestMachine ---------------------------
(* The automaton of http11_parser.rl.cc: the transitions of its states 1 to *)
(* 349, by the part of a request they recognise.  `extra` is the set of the *)
(* delimiters that are only allowed when uri_relaxed is set.                *)
EXTENDS HttpChars, Integers, Sequences

more_delims == {"^", "{", "}"}
reg_char(extra) == unreserved \cup sub_delims \cup extra
pchar(extra) == reg_char(extra) \cup {":", "@"}

-----------------------------------------------------------------------------
(* The request line.                                                        *)

\* Method: one to twenty upper-case letters and digits (state 2, then 175-193).
Method ==
  {T({1}, upper \cup digit, <<"mark">>, 2), T({2}, upper \cup digit, <<>>, 175)}
  \cup {T({s}, upper \cup digit, <<>>, s + 1) : s \in 175..192}
  \cup {T({2} \cup 175..193, {" "}, <<"request_method">>, 3)}

\* HTTP_Version and the end of its line: "HTTP/1." and 0 or 1, then CRLF or LF.
HttpVersion ==
  {T({4}, {"H"}, <<"mark">>, 5)} \cup Chain(5, <<"T", "T", "P", "/", "1", ".">>, 11)
  \cup {T({11}, {"0", "1"}, <<>>, 12),
        T({12}, {"\n"}, <<"http_version">>, 13), T({12}, {"\r"}, <<"http_version">>, 17),
        T({17}, {"\n"}, <<>>, 13)}

\* The first character of a URI, and the first one after its scheme.
UriStart(extra) ==
  {T({3}, alpha, <<"mark">>, 173),
   T({3}, (pchar(extra) \ alpha) \ {":"}, <<"mark">>, 19),
   T({3}, {"%"}, <<"mark">>, 24), T({3, 174}, {"/"}, <<"mark">>, 33),
   T({3, 174}, {" "}, <<"mark", "request_path", "request_uri">>, 4),
   T({3, 174}, {"#"}, <<"mark", "request_path", "request_uri">>, 20),
   T({3, 174}, {"?"}, <<"mark", "request_path">>, 29),
   T({174}, pchar(extra), <<"mark">>, 26), T({174}, {"%"}, <<"mark">>, 27)}

\* The states in which a path may end.
PathEnd(s) ==
  {T(s, {" "}, <<"request_path", "request_uri">>, 4),
   T(s, {"#"}, <<"request_path", "request_uri">>, 20),
   T(s, {"?"}, <<"request_path">>, 29)}

\* "%" and two hexadecimal digits: from a state of s, by p, back to `to`.
PctEncoded(s, p, to) ==
  {T(s, {"%"}, <<>>, p), T({p}, xdigit, <<>>, p + 1), T({p + 1}, xdigit, <<>>, to)}

\* scheme, or the first segment of a relative path that may turn out to be one.
Scheme(extra) ==
  {T({173}, alpha \cup digit \cup {"+", "-", "."}, <<>>, 173), T({173}, {":"}, <<>>, 174),
   T({173}, (sub_delims \ {"+"}) \cup extra \cup {"_", "@"}, <<>>, 19),
   T({19, 173}, {"/"}, <<>>, 26)}
  \cup PathEnd({173})

\* Segments of a path: 19 before the first "/", 26 after it, 33 right after it.
Path(extra) ==
  {T({19}, reg_char(extra) \cup {"@"}, <<>>, 19),
   T({26}, pchar(extra) \cup {"/"}, <<>>, 26),
   T({33}, pchar(extra), <<>>, 26), T({33}, {"/"}, <<>>, 34)}
  \cup PctEncoded({19, 173}, 24, 19) \cup PctEncoded({26, 33}, 27, 26)
  \cup PathEnd({19, 26, 33})

Fragment(extra) ==
  {T({20}, pchar(extra) \cup {"/", "?"}, <<"mark">>, 21),
   T({21}, pchar(extra) \cup {"/", "?"}, <<>>, 21),
   T({20}, {"%"}, <<"mark">>, 22), T({20}, {" "}, <<"mark", "fragment">>, 4),
   T({21}, {" "}, <<"fragment">>, 4)}
  \cup PctEncoded({21}, 22, 21)

Query(extra) ==
  {T({29}, pchar(extra) \cup {"/", "?"}, <<"start_query">>, 30),
   T({30}, pchar(extra) \cup {"/", "?"}, <<>>, 30),
   T({29}, {"%"}, <<"start_query">>, 31)}
  \cup PctEncoded({30}, 31, 30)
  \cup {T({29}, {c}, <<"start_query", "query_string", "request_uri">>,
          IF c = " " THEN 4 ELSE 20) : c \in {" ", "#"}}
  \cup {T({30}, {c}, <<"query_string", "request_uri">>,
          IF c = " " THEN 4 ELSE 20) : c \in {" ", "#"}}

-----------------------------------------------------------------------------
(* The authority after "//".  The generated code has it twice: in a request *)
(* line (d = 0) and in the target of a JSON message (d = 175).              *)

\* userinfo, host name and port; 39 is reached by what can only be userinfo.
Authority(d, extra) ==
  {T({34 + d, 35 + d}, reg_char(extra), <<>>, 35 + d),
   T({34 + d, 35 + d}, {":"}, <<>>, 38 + d),
   T({38 + d}, digit, <<>>, 38 + d),
   T({38 + d}, (reg_char(extra) \ digit) \cup {":"}, <<>>, 39 + d),
   T({39 + d}, reg_char(extra) \cup {":"}, <<>>, 39 + d),
   T({34 + d, 35 + d, 38 + d, 39 + d}, {"@"}, <<>>, 42 + d),
   T({42 + d, 43 + d}, reg_char(extra), <<>>, 43 + d),
   T({42 + d, 43 + d, 61 + d}, {":"}, <<>>, 46 + d),
   T({46 + d}, digit, <<>>, 46 + d),
   T({34 + d, 42 + d}, {"["}, <<>>, 47 + d)}
  \cup PctEncoded({34 + d, 35 + d}, 36 + d, 35 + d)
  \cup PctEncoded({38 + d, 39 + d}, 40 + d, 39 + d)
  \cup PctEncoded({42 + d, 43 + d}, 44 + d, 43 + d)

\* The states of the authority in which the path may begin or end.
AuthorityEnds(d) == {34 + d, 35 + d, 38 + d, 42 + d, 43 + d, 46 + d, 61 + d}

\* h16 ":": one to four hexadecimal digits in s..s+3, then a colon.
H16(s, to) ==
  {T({s + i}, xdigit, <<>>, s + i + 1) : i \in 0..2} \cup {T(s..s + 3, {":"}, <<>>, to)}

\* dec_octet from state a, ended in e, by `one` after a 1 and `two` after a 2:
\* 0-9, 10-19, 100-199, 200-209 and 250 (the grammar's ranges are differences).
Octet(a, e, one, two, c, to) ==
  {T({a}, digit \ {"1", "2"}, <<>>, e), T({a}, {"1"}, <<>>, one), T({a}, {"2"}, <<>>, two),
   T({one}, digit, <<>>, one + 1), T({one + 1, two + 1}, digit, <<>>, e),
   T({two}, {"0"}, <<>>, two + 1), T({two}, {"5"}, <<>>, two + 2),
   T({two + 2}, {"0"}, <<>>, e),
   T({e, one, one + 1, two}, {c}, <<>>, to)}

\* The first octet of an IPv4 address where an h16 may stand as well, from a
\* state of f: s, one, two and x by its first character, h once it must be an
\* h16; a colon leads to `to`, and "]" ends the address if `close` says so.
OctetOrH16(d, f, s, one, h, to, close) ==
  LET two == one + 3  x == one + 6
      every == {s, x} \cup one..one + 5 \cup h..h + 2
  IN  {T(f, digit \ {"1", "2"}, <<>>, s), T(f, {"1"}, <<>>, one), T(f, {"2"}, <<>>, two),
       T(f, xletter, <<>>, x),
       T({s, x}, xdigit, <<>>, h), T({h}, xdigit, <<>>, h + 1), T({h + 1}, xdigit, <<>>, h + 2),
       T({one}, digit, <<>>, one + 1), T({one}, xletter, <<>>, h),
       T({one + 1, two + 1}, digit, <<>>, one + 2), T({one + 1, two + 1}, xletter, <<>>, h + 1),
       T({one + 2}, xdigit, <<>>, h + 2),
       T({two}, {"0"}, <<>>, two + 1), T({two}, {"5"}, <<>>, two + 2),
       T({two}, xdigit \ {"0", "5"}, <<>>, h),
       T({two + 2}, {"0"}, <<>>, one + 2), T({two + 2}, xdigit \ {"0"}, <<>>, h + 1),
       T({s, two} \cup one..one + 2, {"."}, <<>>, 55 + d), T(every, {":"}, <<>>, to)}
      \cup {T(every, {"]"}, <<>>, 61 + d) : b \in {TRUE} \cap {close}}

\* The rest of an IPv4 address, and the h16 that may stand for its second half.
IPv4Rest(d) ==
  Octet(55 + d, 56 + d, 72 + d, 74 + d, ".", 57 + d)
  \cup Octet(57 + d, 58 + d, 67 + d, 69 + d, ".", 59 + d)
  \cup Octet(59 + d, 60 + d, 62 + d, 64 + d, "]", 61 + d)
  \cup {T({80 + d}, xdigit, <<>>, 81 + d), T({81 + d}, xdigit, <<>>, 82 + d),
        T({82 + d}, xdigit, <<>>, 83 + d), T({83 + d}, xdigit, <<>>, 60 + d),
        T(81 + d..83 + d, {"]"}, <<>>, 61 + d)}

\* The groups of an IPv6 address before its "::", any number from the sixth on.
Groups(d) ==
  UNION {H16(s + d, s + d + 4) : s \in {49, 91, 96, 101, 106, 111, 116, 121}}
  \cup {T({s + d}, xdigit, <<>>, s + d + 1) : s \in {95, 100, 105, 110, 115, 120}}
  \cup {T({47 + d}, xdigit, <<>>, 91 + d), T({125 + d}, xdigit, <<>>, 121 + d)}

\* "::", and what the counts of the grammar became: a count such as 6( h16 ":" )
\* is read as the byte 6 followed by one group.
DoubleColon(d) ==
  {T({s[1] + d}, {":"}, <<>>, s[2] + d) :
     s \in {<<95, 166>>, <<100, 165>>, <<105, 164>>, <<110, 163>>, <<115, 151>>,
            <<120, 150>>, <<125, 126>>, <<47, 167>>, <<167, 168>>}}
  \cup {T({47 + d}, {"c6"}, <<>>, 48 + d), T({166 + d}, {"c4"}, <<>>, 48 + d),
        T({165 + d}, {"c3"}, <<>>, 48 + d),
        T({126 + d, 150 + d, 151 + d, 163 + d, 164 + d}, {"c2", "c3"}, <<>>, 48 + d),
        T({168 + d}, {"c2", "c3", "c4", "c5"}, <<>>, 48 + d),
        T({48 + d, 163 + d}, xdigit, <<>>, 49 + d),
        T({126 + d, 168 + d}, {"]"}, <<>>, 61 + d)}

\* What may follow: one or two more groups, or an IPv4 address.
AfterDoubleColon(d) ==
  OctetOrH16(d, {53 + d}, 54 + d, 84 + d, 77 + d, 80 + d, FALSE)
  \cup OctetOrH16(d, {126 + d, 150 + d, 168 + d}, 127 + d, 143 + d, 128 + d, 131 + d, TRUE)
  \cup OctetOrH16(d, {131 + d}, 132 + d, 136 + d, 133 + d, 80 + d, TRUE)
  \cup OctetOrH16(d, {151 + d}, 152 + d, 156 + d, 153 + d, 131 + d, FALSE)

IPvFuture(d, extra) ==
  {T({47 + d}, {"v"}, <<>>, 169 + d), T({169 + d, 170 + d}, xdigit, <<>>, 170 + d),
   T({170 + d}, {"."}, <<>>, 171 + d),
   T({171 + d, 172 + d}, reg_char(extra) \cup {":"}, <<>>, 172 + d),
   T({172 + d}, {"]"}, <<>>, 61 + d)}

IpLiteral(d, extra) ==
  IPv4Rest(d) \cup Groups(d) \cup DoubleColon(d) \cup AfterDoubleColon(d)
  \cup IPvFuture(d, extra)

-----------------------------------------------------------------------------
(* The header lines, and the messages that are no requests.                 *)

\* field_name: HTTP_CTL = (0 - 31) is a difference too, so a name may hold
\* every control character but NUL and TAB, line feeds included.
name_char == token \cup (cntrl \ {"nul", "\t"})

HeaderName ==
  {T({13}, name_char \ {"\n", "\r"}, <<"start_field">>, 14),
   T({13}, {"\r"}, <<"start_field">>, 18), T({13}, {"\n"}, <<"start_field", "done">>, 348),
   T({14, 348}, name_char, <<>>, 14), T({18}, name_char \ {"\n"}, <<>>, 14),
   T({18}, {"\n"}, <<"done">>, 348),
   T({14, 18, 348}, {":"}, <<"write_field">>, 15)}

HeaderValue ==
  {T({15}, {" ", "\t"}, <<"mark">>, 15),
   T({15}, any \ {" ", "\t", "\n", "\r", "nul", "del"}, <<"mark">>, 16),
   T({16}, any \ {"\n", "\r", "nul", "del"}, <<>>, 16),
   T({15}, {"\n"}, <<"mark", "write_value">>, 13), T({15}, {"\r"}, <<"mark", "write_value">>, 17),
   T({16}, {"\n"}, <<"write_value">>, 13), T({16}, {"\r"}, <<"write_value">>, 17)}

SocketXML ==
  {T({1}, {"<"}, <<"mark">>, 194),
   T({194, 195}, alpha \cup digit \cup {"-", "."}, <<>>, 195),
   T({195}, {"\t", "\n", "vt", "\r", " ", "/", ">"}, <<"request_path">>, 196),
   T({196}, any \ {">"}, <<>>, 196), T({197}, any \ {">", "nul"}, <<>>, 196),
   T({196, 197}, {">"}, <<>>, 197), T({197}, {"nul"}, <<"xml", "done">>, 349)}

SocketJSON ==
  {T({1}, {"@"}, <<"mark">>, 198), T({199}, {"{"}, <<"mark">>, 200),
   T({200}, any \ {"}"}, <<>>, 200), T({201}, any \ {"}", "nul"}, <<>>, 200),
   T({200, 201}, {"}"}, <<>>, 201), T({201}, {"nul"}, <<"json", "done">>, 349)}

\* relative_part, the target of a JSON message.
JsonTarget(extra) ==
  {T({198, 202}, reg_char(extra) \cup {"@"}, <<>>, 202),
   T({198}, {"/"}, <<>>, 208), T({202} \cup AuthorityEnds(175), {"/"}, <<>>, 205),
   T({205}, pchar(extra) \cup {"/"}, <<>>, 205),
   T({208}, pchar(extra), <<>>, 205), T({208}, {"/"}, <<>>, 209),
   T({198, 202, 205, 208} \cup AuthorityEnds(175), {" "}, <<"request_path">>, 199)}
  \cup PctEncoded({198, 202}, 203, 202) \cup PctEncoded({205, 208}, 206, 205)

JsonAuthority(extra) == Authority(175, extra)
JsonIpLiteral(extra) == IpLiteral(175, extra)

-----------------------------------------------------------------------------
RequestTransitions(extra) ==
  Method \cup HttpVersion \cup UriStart(extra) \cup Scheme(extra) \cup Path(extra)
  \cup Fragment(extra) \cup Query(extra)
  \cup Authority(0, extra) \cup IpLiteral(0, extra)
  \cup {T(AuthorityEnds(0), {"/"}, <<>>, 26)} \cup PathEnd(AuthorityEnds(0))
  \cup HeaderName \cup HeaderValue \cup SocketXML \cup SocketJSON
  \cup JsonTarget(extra) \cup JsonAuthority(extra) \cup JsonIpLiteral(extra)

http_parser_start == 1
http_parser_first_final == 348
http_parser_error == 0

\* The automaton with uri_relaxed unset and set.
RequestTable ==
  [relaxed \in BOOLEAN |->
     Table(RequestTransitions(IF relaxed THEN more_delims ELSE {}), 0..349)]
=============================================================================
