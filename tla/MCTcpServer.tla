---------------------------- MODULE MCTcpServer ----------------------------
(* Programs for a server: every pattern of bind, start and stop that differs *)
(* in what the closure of stop() may meet, with servlets coming and going.   *)
EXTENDS TcpServer

bind(addrs) == <<[op |-> "bind", addrs |-> addrs]>>
call(op) == <<[op |-> op]>>
add(uri, slt) == <<[op |-> "addServlet", uri |-> uri, slt |-> slt]>>
del(uri) == <<[op |-> "delServlet", uri |-> uri]>>
addGlob(uri, slt) == <<[op |-> "addGlobServlet", uri |-> uri, slt |-> slt]>>
delGlob(uri) == <<[op |-> "delGlobServlet", uri |-> uri]>>
start == call("start")
stop == call("stop")

Lifecycles ==
  { bind(<<"a", "b">>) \o start \o stop \o call("release"),
    \* a second life, with and without what the closure of the first clears
    bind(<<"a">>) \o start \o stop \o bind(<<"a">>) \o start \o stop,
    \* loops of the first life that miss its stop() may take both threads
    bind(<<"a", "b">>) \o start \o stop \o bind(<<"a">>) \o start,
    bind(<<"a">>) \o start \o stop \o start \o stop,
    \* calls that repeat
    bind(<<"a">>) \o start \o start \o stop \o stop,
    bind(<<"a">>) \o start \o bind(<<"b">>) \o start \o stop,
    bind(<<"a", "a">>) \o bind(<<"a">>) \o start \o stop,
    \* a bind that fails, before, while and after the server runs
    bind(<<"b", "taken">>) \o bind(<<"b">>) \o start \o stop \o call("release"),
    bind(<<"a", "b">>) \o start \o bind(<<"taken">>) \o stop,
    bind(<<"a">>) \o start \o stop \o bind(<<"taken">>) \o stop,
    bind(<<"a">>) \o start \o stop \o start \o bind(<<"taken">>),
    bind(<<"a">>) \o start \o call("release"),
    bind(<<"a">>) \o start \o stop \o bind(<<"b">>) \o call("release") }

\* "*" matches every path, "a*" those that begin with an a.
MCUris == {"a", "ab", "c", "a*", "*"}
MCfnmatch(glob, uri) == glob = "*" \/ (glob = "a*" /\ uri \in {"a", "ab"}) \/ glob = uri

\* What a program does with the servlets; in one of them the server runs.
GlobOps == {addGlob("*", "s1"), addGlob("a*", "s2"), addGlob("*", "s3"), delGlob("*"), delGlob("a*")}
Dispatching ==
  {f \o g \o h \o k : f, g, h, k \in GlobOps}
  \cup {addGlob("a*", "s1") \o f \o g \o h :
          f, g, h \in {add("ab", "s2"), add("ab", "s3"), del("ab"), delGlob("a*")}}
  \cup {bind(<<"a">>) \o start \o addGlob("a*", "s1") \o add("ab", "s2") \o del("ab") \o stop}

MCPrograms == Lifecycles \cup Dispatching
Addrs == [c1 |-> "a", c2 |-> "a"]
Paths == [c1 |-> "ab", c2 |-> "c"]
=============================================================================
