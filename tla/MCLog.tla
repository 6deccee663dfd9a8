------------------------------- MODULE MCLog -------------------------------
(* Two threads that look up, watch, set and load variables, and configure    *)
(* and use loggers.                                                          *)
EXTENDS Log, ConfigYaml

MCAlpha == {"m", "n", "d", "z"}
MCItems == {"m", "n", "d"}
MCNumber == ("1" :> 1) @@ ("01" :> 1) @@ ("2" :> 2) @@ ("-2" :> -2)

scalar(text) == [kind |-> "scalar", text |-> text]
null == [kind |-> "null"]
seq(items) == [kind |-> "seq", items |-> items]
map(keys, items) == [kind |-> "map", keys |-> keys, items |-> items]

Port == <<"system", "port">>
Vec == <<"system", "vec">>
lookup(name, type, val) == [op |-> "Lookup", name |-> name, type |-> type, val |-> val]
int == Type("int")
port == lookup(Port, int, 1)
vec == lookup(Vec, Of("vector", int), <<>>)
on(op, name) == [op |-> op, name |-> name]
set(name, val) == [op |-> "setValue", name |-> name, val |-> val]
listener(op, name, cb) == [op |-> op, name |-> name, cb |-> cb]
load(root) == [op |-> "LoadFromYaml", root |-> root]
system(keys, items) == load(map(<<"system">>, <<map(keys, items)>>))

\* Values of every type, good and bad.
Casts ==
  {<<int, v, n>> : v \in {7}, n \in {scalar("01"), scalar("-2"), scalar("x"), null, seq(<<scalar("1")>>)}}
  \cup {<<Of(c, int), v, n>> : c \in {"vector", "set"}, v \in {<<>>},
          n \in {seq(<<scalar("1"), scalar("2"), scalar("01")>>), seq(<<scalar("1"), scalar("x")>>), scalar("1"), null}}
  \cup {<<Of("map", Of("vector", int)), <<>>, n>> :
          n \in {map(<<"k", "l">>, <<seq(<<scalar("1")>>), scalar("2")>>), scalar("1"), map(<<"k">>, <<seq(<<null>>)>>)}}
  \cup {<<Of("vector", Type("string")), <<>>, seq(<<scalar("1"), null>>)>>}
  \cup \* a map for a sequence, a sequence for a map
  {<<Of(c, Type(e)), <<>>, n>> : c \in {"vector", "set", "map"}, e \in {"int", "string"},
     n \in {map(<<"k", "1">>, <<scalar("2"), scalar("1")>>), seq(<<scalar("1")>>), seq(<<>>)}}
\* The value before a load: the empty container, or 7.
Empty(type) == CASE type.is = "int" -> 7 [] type.is = "set" -> {} [] OTHER -> <<>>
Loads ==
  {<<lookup(Vec, c[1], Empty(c[1])), port, system(<<"vec", "port">>, <<c[3], scalar("2")>>)>> : c \in Casts}
  \cup {<<port, system(<<"PORT", "port">>, <<map(<<"port">>, <<scalar("1")>>), scalar("2")>>),
          [op |-> "Lookup", name |-> <<"PORT">>, type |-> int, val |-> 1]>>}
  \cup {<<port, system(<<"port", "port">>, <<scalar("-2"), n>>)>> : n \in {scalar("2"), scalar("x")}}

Watches ==
  { <<port, listener("addListener", Port, "a"), set(Port, 2), listener("delListener", Port, "a"), set(Port, 1)>>,
    <<port, listener("addListener", Port, "b"), listener("addListener", Port, "c"), set(Port, 2), set(Port, 2),
      listener("delListener", Port, "b"), set(Port, 1)>>,
    <<port, set(Port, 3), listener("clearListener", Port, "a")>>,
    <<port, vec, system(<<"port", "vec">>, <<scalar("2"), seq(<<scalar("1")>>)>>)>>,
    <<[op |-> "Find", name |-> Port, type |-> int]>>,
    <<lookup(Port, Of("vector", int), <<1>>), set(Port, <<2>>)>> }

text(str) == [type |-> 0, str |-> str, fmt |-> <<>>, braces |-> "none"]
item(key, fmt, braces) == [type |-> 1, str |-> key, fmt |-> fmt, braces |-> braces]
TextOf(tok) ==
  IF tok.type = 0 THEN tok.str
  ELSE <<"%">> \o tok.str \o
       (CASE tok.braces = "none" -> <<>> [] tok.braces = "open" -> <<"{">> [] OTHER -> <<"{">> \o tok.fmt \o <<"}">>)
Tokens == {text(<<c>>) : c \in {"z", "[", "}", "{", "%"}} \cup {text(<<"[", "m">>)}
          \cup {item(<<k>>, <<>>, "none") : k \in {"m", "z"}} \cup {item(<<>>, <<>>, "none"), item(<<"m", "n">>, <<>>, "none")}
          \cup {item(<<"d">>, f, "closed") : f \in {<<>>, <<"%", "[">>}}
\* Each pattern written one way only: "{" behind an item opens its argument, and an
\* item without a name in front of a "%" reads like a percent sign.
Patterns ==
  {p \in UNION {[1..n -> Tokens] : n \in 1..3} :
     \A i \in 1..Len(p) - 1 : p[i].type = 1 /\ p[i].braces = "none" =>
       IF p[i + 1].type = 0 THEN p[i + 1].str[1] # "{" /\ (p[i].str = <<>> => p[i + 1].str # <<"%">>)
       ELSE p[i].str # <<>>}
  \cup {<<a, item(<<"d">>, <<>>, "open"), b>> : a \in {text(<<"[">>), item(<<"m">>, <<>>, "none")}, b \in {text(<<"[">>), item(<<"n">>, <<>>, "none")}}
Formatting == {<<[op |-> "setFormatter", logger |-> "root", tokens |-> p, pattern |-> FlattenSeq([i \in DOMAIN p |-> TextOf(p[i])])]>> : p \in Patterns}

m_pattern == <<"%", "m">>
logger(name, level, formatter, appenders) ==
  [kind |-> "map", name |-> name, level |-> level, formatter |-> formatter, appenders |-> appenders]
appender(type, file, formatter, junk) == [type |-> type, file |-> file, formatter |-> formatter, junk |-> junk]
File == appender("FileLogAppender", "f", <<>>, 0)
Logs(loggers) == load(map(<<"logs">>, <<seq(loggers)>>))
Docs ==
  { Logs(<<logger("root", "info", m_pattern, <<File, appender("StdoutLogAppender", "", <<"%", "n">>, 6)>>),
           logger("a", "debug", <<>>, <<File>>)>>),
    Logs(<<logger("a", "loud", <<"%", "z">>, <<appender("FileLogAppender", "", <<>>, 0), appender("Udp", "", <<>>, 0),
                                       appender("StdoutLogAppender", "", <<"%">>, 0)>>),
           logger("a", "fatal", <<>>, <<>>)>>),
    Logs(<<logger("b", "warn", <<"%", "n">>, <<>>), logger("", "info", <<>>, <<>>)>>),
    Logs(<<logger("b", "warn", <<"%", "n">>, <<File, File>>)>>),
    Logs(<<>>) }
Reloads == {<<d, e, f>> : d, e, f \in Docs}
direct(op) == [op |-> op, logger |-> "b", level |-> 3,
               appender |-> [type |-> "StdoutLogAppender", file |-> "", m_level |-> 1, m_formatter |-> NoFormatter]]
Direct == {<<direct("addLogAppender"), direct("setLevel"), direct("delLogAppender")>>}

Both(ps, qs) == {[t1 |-> p, t2 |-> q] : p \in ps, q \in qs}
MCPrograms ==
  Both(Watches, Watches) \cup Both(Loads \cup Formatting, {<<>>})
  \cup Both(Reloads, Direct) \cup Both({<<d>> : d \in Docs}, {<<d>> : d \in Docs})
=============================================================================
