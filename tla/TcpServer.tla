----------------------------- MODULE TcpServer -----------------------------
(* tcp_server.cc with what it uses of socket.cc, of accept and close in      *)
(* hook.cc and of IOManager's events, and the dispatch of an HttpServer.     *)
(* The program of a user's thread binds, starts and stops the server and     *)
(* changes its servlets, while the threads of m_acceptWorker run the accept  *)
(* loops and the closures of stop().  A loop uses its socket by the number   *)
(* of its descriptor, which a later bind() may have got meanwhile.  The      *)
(* connections' own descriptors are left to Hook.tla.                        *)
EXTENDS Integers, Sequences, FiniteSets, SequencesExt

CONSTANTS
  Programs,       \* the sequences of calls a user may make
  Addresses,
  Taken,          \* the addresses another process listens on
  Fds,            \* the numbers descriptors of listening sockets may get
  AcceptThreads,  \* how many threads m_acceptWorker has
  MaxLoops,       \* bound: the accept loops that fairness is stated for
  Conns,          \* the connections clients make, each once,
  AddrOf,         \* to this address,
  Uris,           \* the paths they ask for, and the patterns,
  Servlets,
  UriOf,          \* each for this one
  fnmatch(_, _)   \* what a pattern matches (external)

ASSUME ServerAssumption ==
  /\ UriOf \in [Conns -> Uris]
  /\ AcceptThreads \in Nat \ {0} /\ MaxLoops \in Nat

Calls ==
  [op : {"bind"}, addrs : Seq(Addresses)] \cup [op : {"start", "stop", "release"}]
  \cup [op : {"addServlet", "addGlobServlet"}, uri : Uris, slt : Servlets]
  \cup [op : {"delServlet", "delGlobServlet"}, uri : Uris]

ASSUME ProgramsAssumption == Programs \subseteq Seq(Calls)

VARIABLES
  program,     \* what the user's thread does,
  called,      \* how many of its calls it has made,
  owned,       \* and whether it still holds its pointer to the server
  m_isStop,
  m_socks,
  addr,        \* the address of every socket object there has been,
  fd,          \* and the number of its descriptor
  open,        \* the socket objects that have their descriptor still,
  hooked,      \* those that FdMgr knows,
  watched,     \* and those that epoll watches
  loops,       \* the fibers of startAccept: their socket and where they stand
  tasks,       \* what m_acceptWorker has queued: fibers, and stop()'s closures
  closing,     \* the socket of m_socks a closure is at, and the step; 0: none
  conn,        \* where a connection stands: the servlet's name once it is answered
  via,         \* the socket it came in by
  m_datas,     \* ServletDispatch: the servlets by path,
  m_globs,     \* and by pattern, in their order
  lost,        \* sockets a failed bind took out of m_socks while a fiber held them
  late,        \* fibers that registered between the last cancelAll and close_f
  hasty,       \* a start() came before the work of an earlier stop() was over
  fault        \* "assert", or "race" on m_socks

user == <<program, called, owned>>
server == <<m_isStop, m_socks, addr, fd>>
sockets == <<open, hooked, watched>>
worker == <<loops, tasks, closing>>
net == <<conn, via>>
dispatch == <<m_datas, m_globs>>
ghosts == <<lost, late, hasty>>
vars == <<user, server, sockets, worker, net, dispatch, ghosts, fault>>

CLOSURE == 0
NotFoundServlet == "NotFoundServlet"

NoClosure == [sock |-> 0, at |-> "none"]

\* Where a fiber of startAccept stands when a thread is in it: before the test of
\* m_isStop; in sock->accept(); in do_io, or in the plain accept of a descriptor
\* FdMgr does not know; before addEvent.
RunPcs == {"test", "enter", "try", "raw", "arm"}

Live == {l \in DOMAIN loops : loops[l].pc # "done"}
Running == {l \in DOMAIN loops : loops[l].pc \in RunPcs}
FdOf(l) == fd[loops[l].sock]

\* A thread of the accept worker is free.
Busy == Cardinality(Running) + (IF closing = NoClosure THEN 0 ELSE 1) >= AcceptThreads

\* Who has a number now.
Owners(n) == {s \in open : fd[s] = n}

\* m_sock of a socket is -1: the closure has closed it and gone on.
Unset(s) ==
  /\ s \notin open
  /\ ~(closing.at = "unset" /\ m_socks[closing.sock] = s)

\* The connections a listening socket has ready.
Backlog(s) == {c \in Conns : conn[c] = "pending" /\ via[c] = s}

\* A closure of stop() is queued or runs.
ClosurePending == closing # NoClosure \/ CLOSURE \in Range(tasks)

\* The socket objects somebody points to, given whether the user holds the server,
\* the sockets in the vector, the loops and the connections.  The server is there
\* as long as the user, a closure, a fiber of startAccept or a task with
\* handleClient points to it.
HeldBy(own, socks, ls, cn) ==
  LET live == {l \in DOMAIN ls : ls[l].pc # "done"}
      alive == own \/ ClosurePending \/ live # {} \/ \E c \in Conns : cn[c] = "taken"
  IN  (IF alive THEN Range(socks) ELSE {}) \cup {ls[l].sock : l \in live}

\* cancelAll on the numbers of the sockets S: what epoll watches there is
\* triggered.  A registration epoll does not watch any more stays.
Cancelled(S) ==
  {l \in DOMAIN loops : /\ loops[l].pc = "wait"
                        /\ \E s \in S \cap watched : fd[s] = FdOf(l)}

Woken(ls, W) ==
  [l \in DOMAIN ls |-> IF l \in W THEN [ls[l] EXCEPT !.pc = "ready"] ELSE ls[l]]

\* The sockets nobody points to after this step close themselves (~Socket), as do
\* those of a server that is gone (~TcpServer): cancelAll, FdMgr's del, close_f.
Drop(own, socks, ls, cn) ==
  LET gone == open \ HeldBy(own, socks, ls, cn)
  IN  /\ owned' = own /\ m_socks' = socks /\ conn' = cn
      /\ loops' = Woken(ls, Cancelled(gone))
      /\ tasks' = tasks \o SetToSeq(Cancelled(gone))
      /\ open' = open \ gone /\ hooked' = hooked \ gone /\ watched' = watched \ gone

Init ==
  /\ program \in Programs /\ called = 0 /\ owned = TRUE
  /\ m_isStop = TRUE /\ m_socks = <<>> /\ addr = <<>> /\ fd = <<>>
  /\ open = {} /\ hooked = {} /\ watched = {}
  /\ loops = <<>> /\ tasks = <<>> /\ closing = NoClosure
  /\ conn = [c \in Conns |-> "idle"] /\ via = [c \in Conns |-> 0]
  /\ m_datas = <<>> /\ m_globs = <<>>
  /\ lost = {} /\ late = {} /\ hasty = FALSE /\ fault = "none"

-----------------------------------------------------------------------------
(* The calls of the user's thread.                                          *)

Args == program[called + 1]

\* The next call of the program is `op`, made through the user's pointer.
Call(op) ==
  /\ fault = "none" /\ owned /\ called < Len(program) /\ Args.op = op
  /\ called' = called + 1
  /\ UNCHANGED program

\* bind and start use m_socks with no lock, and so does the closure of stop().
Race(op) ==
  /\ Call(op) /\ closing # NoClosure
  /\ fault' = "race"
  /\ UNCHANGED <<owned, server, sockets, worker, net, dispatch, ghosts>>

\* The addresses that cannot be bound: another process or an open socket has
\* them, or they come twice.
Fails(addrs) ==
  {i \in DOMAIN addrs :
     \/ addrs[i] \in Taken \/ \E s \in open : addr[s] = addrs[i]
     \/ \E j \in 1..i - 1 : addrs[j] = addrs[i]}

\* bind(addrs, fails): a socket for every address, with numbers nobody has.
Bind ==
  /\ Call("bind") /\ closing = NoClosure
  /\ LET addrs == Args.addrs
         new == [i \in DOMAIN addrs |-> Len(addr) + i]
         free == {n \in Fds : Owners(n) = {}}
     IN  /\ Fails(addrs) = {}
         /\ addr' = addr \o addrs
         /\ \E nums \in [DOMAIN addrs -> free] :
              IsInjective(nums) /\ fd' = fd \o nums
         /\ m_socks' = m_socks \o new
         /\ open' = open \cup Range(new) /\ hooked' = hooked \cup Range(new)
  /\ UNCHANGED <<owned, m_isStop, watched, worker, net, dispatch, ghosts, fault>>

\* If one address failed the vector is emptied, of what earlier calls left in it
\* too; the sockets of this call and those no fiber holds are closed.
BindFails ==
  /\ Call("bind") /\ closing = NoClosure
  /\ Fails(Args.addrs) # {}
  /\ Drop(owned, <<>>, loops, conn)
  /\ lost' = lost \cup (Range(m_socks) \cap open')
  /\ UNCHANGED <<m_isStop, addr, fd, closing, via, dispatch, late, hasty, fault>>

\* What start() schedules: a fiber for every socket.
Launch ==
  /\ m_isStop' = FALSE
  /\ loops' = loops \o [i \in DOMAIN m_socks |-> [sock |-> m_socks[i], pc |-> "new"]]
  /\ tasks' = tasks \o [i \in DOMAIN m_socks |-> Len(loops) + i]

\* Mutant: start() does not test m_isStop.
StartAgain ==
  /\ Call("start") /\ closing = NoClosure
  /\ Launch
  /\ hasty' = (hasty \/ (m_isStop /\ (Live # {} \/ ClosurePending)))
  /\ UNCHANGED <<owned, m_socks, addr, fd, sockets, closing, net, dispatch, lost, late, fault>>

\* start(): one fiber for every socket, unless the server runs already.
Start ==
  /\ Call("start") /\ closing = NoClosure
  /\ IF m_isStop THEN Launch ELSE UNCHANGED <<m_isStop, loops, tasks>>
  /\ hasty' = (hasty \/ (m_isStop /\ (Live # {} \/ ClosurePending)))
  /\ UNCHANGED <<owned, m_socks, addr, fd, sockets, closing, net, dispatch, lost, late, fault>>

\* stop(): the flag at once, the sockets by a closure on the accept worker.
Stop ==
  /\ Call("stop")
  /\ m_isStop' = TRUE
  /\ tasks' = Append(tasks, CLOSURE)
  /\ UNCHANGED <<owned, m_socks, addr, fd, sockets, loops, closing, net, dispatch, ghosts, fault>>

\* The user lets go of the server.
Release ==
  /\ Call("release")
  /\ Drop(FALSE, m_socks, loops, conn)
  /\ UNCHANGED <<m_isStop, addr, fd, closing, via, dispatch, ghosts, fault>>

-----------------------------------------------------------------------------
(* ServletDispatch.                                                         *)

Servlet ==
  /\ Call("addServlet")
  /\ m_datas' = [u \in DOMAIN m_datas \cup {Args.uri} |-> IF u = Args.uri THEN Args.slt ELSE m_datas[u]]
  /\ UNCHANGED <<owned, server, sockets, worker, net, m_globs, ghosts, fault>>

DelServlet ==
  /\ Call("delServlet")
  /\ m_datas' = Restrict(m_datas, DOMAIN m_datas \ {Args.uri})
  /\ UNCHANGED <<owned, server, sockets, worker, net, m_globs, ghosts, fault>>

\* The list without its first entry for a pattern.
Erased(globs, uri) ==
  LET i == SelectInSeq(globs, LAMBDA g : g.uri = uri)
  IN  IF i = 0 THEN globs ELSE RemoveAt(globs, i)

\* Mutant: an entry for the pattern stays in the list.
GlobServletTwice ==
  /\ Call("addGlobServlet")
  /\ m_globs' = Append(m_globs, [uri |-> Args.uri, slt |-> Args.slt])
  /\ UNCHANGED <<owned, server, sockets, worker, net, m_datas, ghosts, fault>>

\* addGlobServlet: an entry for the pattern is replaced, and goes to the end.
GlobServlet ==
  /\ Call("addGlobServlet")
  /\ m_globs' = Append(Erased(m_globs, Args.uri), [uri |-> Args.uri, slt |-> Args.slt])
  /\ UNCHANGED <<owned, server, sockets, worker, net, m_datas, ghosts, fault>>

DelGlobServlet ==
  /\ Call("delGlobServlet")
  /\ m_globs' = Erased(m_globs, Args.uri)
  /\ UNCHANGED <<owned, server, sockets, worker, net, m_datas, ghosts, fault>>

\* The path itself, or the first pattern that matches it, or the default.
getMatchServlet(uri) ==
  LET i == SelectInSeq(m_globs, LAMBDA g : fnmatch(g.uri, uri))
  IN  IF uri \in DOMAIN m_datas THEN m_datas[uri]
      ELSE IF i > 0 THEN m_globs[i].slt ELSE NotFoundServlet

-----------------------------------------------------------------------------
(* The accept worker: the closures of stop().                               *)

\* A free thread takes the first task: a fiber begins or goes on, or the closure
\* begins.  A second closure meets the first on m_socks.
RunTask ==
  /\ fault = "none" /\ tasks # <<>> /\ ~Busy
  /\ tasks' = Tail(tasks)
  /\ IF tasks[1] = CLOSURE
       THEN /\ IF closing = NoClosure
                 THEN closing' = [sock |-> 1, at |-> "cancel"] /\ UNCHANGED fault
               ELSE fault' = "race" /\ UNCHANGED closing
            /\ UNCHANGED loops
     ELSE /\ loops' = [loops EXCEPT ![tasks[1]].pc = IF @ = "ready" THEN "try" ELSE "test"]
          /\ UNCHANGED <<closing, fault>>
  /\ UNCHANGED <<user, server, sockets, net, dispatch, ghosts>>

\* The closure is at step `at` of a socket, and goes on with step `next`.
ClosureAt(at, next) ==
  /\ fault = "none" /\ closing.at = at /\ closing.sock \in DOMAIN m_socks
  /\ closing' = [closing EXCEPT !.at = next]

\* cancelAll of the number of socket s.
CancelAll(s) ==
  /\ loops' = Woken(loops, Cancelled({s}))
  /\ tasks' = tasks \o SetToSeq(Cancelled({s}))
  /\ watched' = watched \ {s}
  /\ UNCHANGED <<open, hooked>>

\* Mutant: the closure forgets cancelAll, and so does close().
CloseOnly(at, next) ==
  /\ ClosureAt(at, next)
  /\ UNCHANGED <<sockets, loops, tasks>>
  /\ UNCHANGED <<user, server, net, dispatch, ghosts, fault>>

\* sock->cancelAll(), and the cancelAll of close().
CloseCancels(at, next) ==
  /\ ClosureAt(at, next)
  /\ CancelAll(m_socks[closing.sock])
  /\ UNCHANGED <<user, server, net, dispatch, ghosts, fault>>

\* FdMgr::del
CloseForgets ==
  /\ ClosureAt("del", "close_f")
  /\ hooked' = hooked \ {m_socks[closing.sock]}
  /\ UNCHANGED <<user, server, open, watched, loops, tasks, net, dispatch, ghosts, fault>>

\* close_f: the number is free, and epoll forgets the descriptor.
CloseFd ==
  /\ ClosureAt("close_f", "unset")
  /\ open' = open \ {m_socks[closing.sock]}
  /\ watched' = watched \ {m_socks[closing.sock]}
  /\ UNCHANGED <<user, server, hooked, loops, tasks, net, dispatch, ghosts, fault>>

\* m_sock = -1, and on to the next socket.
CloseNext ==
  /\ fault = "none" /\ closing.at = "unset"
  /\ closing' = [sock |-> closing.sock + 1, at |-> "cancel"]
  /\ UNCHANGED <<user, server, sockets, loops, tasks, net, dispatch, ghosts, fault>>

\* m_socks.clear()
CloseEnd ==
  /\ fault = "none" /\ closing.at = "cancel" /\ closing.sock > Len(m_socks)
  /\ closing' = NoClosure
  /\ m_socks' = <<>>
  /\ UNCHANGED <<user, m_isStop, addr, fd, sockets, loops, tasks, net, dispatch, ghosts, fault>>

Close ==
  \/ CloseCancels("cancel", "close") \/ CloseCancels("close", "del")
  \/ CloseForgets \/ CloseFd \/ CloseNext \/ CloseEnd

-----------------------------------------------------------------------------
(* The accept worker: the accept loops.                                     *)

GoTo(l, pc) == loops' = [loops EXCEPT ![l].pc = pc]

\* while(!m_isStop)
Test(l) ==
  /\ fault = "none" /\ loops[l].pc = "test"
  /\ Drop(owned, m_socks, [loops EXCEPT ![l].pc = IF m_isStop THEN "done" ELSE "enter"], conn)
  /\ UNCHANGED <<program, called, m_isStop, addr, fd, closing, via, dispatch, ghosts, fault>>

\* sock->accept() with the number in m_sock: FdMgr is asked for it once.
Enter(l) ==
  /\ fault = "none" /\ loops[l].pc = "enter"
  /\ GoTo(l, IF Unset(loops[l].sock) THEN "test"
             ELSE IF Owners(FdOf(l)) \cap hooked # {} THEN "try" ELSE "raw")
  /\ UNCHANGED <<user, server, sockets, tasks, closing, net, dispatch, ghosts, fault>>

\* Mutant: the loop ends with its first connection.
AcceptOnce(l) ==
  /\ fault = "none" /\ loops[l].pc \in {"try", "raw"}
  /\ LET from == Owners(FdOf(l))
         ready == UNION {Backlog(s) : s \in from}
     IN  \/ /\ ready = {} /\ UNCHANGED conn
            /\ GoTo(l, IF from # {} /\ loops[l].pc = "try" THEN "arm" ELSE "test")
         \/ \E c \in ready : conn' = [conn EXCEPT ![c] = "taken"] /\ GoTo(l, "done")
  /\ UNCHANGED <<user, server, sockets, tasks, closing, via, dispatch, ghosts, fault>>

\* accept_f on the number, whoever has it now: EBADF if nobody has; EAGAIN, which
\* do_io waits on; or a connection, for which handleClient is scheduled.
Accept(l) ==
  /\ fault = "none" /\ loops[l].pc \in {"try", "raw"}
  /\ LET from == Owners(FdOf(l))
         ready == UNION {Backlog(s) : s \in from}
     IN  \/ /\ ready = {} /\ UNCHANGED conn
            /\ GoTo(l, IF from # {} /\ loops[l].pc = "try" THEN "arm" ELSE "test")
         \/ \E c \in ready : conn' = [conn EXCEPT ![c] = "taken"] /\ GoTo(l, "test")
  /\ UNCHANGED <<user, server, sockets, tasks, closing, via, dispatch, ghosts, fault>>

\* The closure is between the last cancelAll and the close_f of number n.
PastCancel(n) == closing.at \in {"del", "close_f"} /\ fd[m_socks[closing.sock]] = n

\* do_io registers for READ and yields.  addEvent asserts that nobody else is
\* registered for the number's event, also by a registration whose descriptor was
\* closed; epoll_ctl refuses a number nobody has, and accept() fails.
Arm(l) ==
  /\ fault = "none" /\ loops[l].pc = "arm"
  /\ \/ /\ \E k \in Live \ {l} : FdOf(k) = FdOf(l) /\ loops[k].pc = "wait"
        /\ fault' = "assert" /\ UNCHANGED <<loops, watched, late>>
     \/ /\ \A k \in Live \ {l} : ~(FdOf(k) = FdOf(l) /\ loops[k].pc = "wait")
        /\ GoTo(l, IF Owners(FdOf(l)) = {} THEN "test" ELSE "wait")
        /\ watched' = watched \cup Owners(FdOf(l))
        /\ late' = IF PastCancel(FdOf(l)) THEN late \cup {l} ELSE late
        /\ UNCHANGED fault
  /\ UNCHANGED <<user, server, open, hooked, tasks, closing, net, dispatch, lost, hasty>>

\* epoll reports a connection: the fiber is scheduled, to try again.
Ready(l) ==
  /\ fault = "none" /\ loops[l].pc = "wait"
  /\ \E s \in Owners(FdOf(l)) \cap watched :
       Backlog(s) # {} /\ watched' = watched \ {s}
  /\ GoTo(l, "ready")
  /\ tasks' = Append(tasks, l)
  /\ UNCHANGED <<user, server, open, hooked, closing, net, dispatch, ghosts, fault>>

\* m_worker runs handleClient: the servlet for the client's path answers.
HandleClient(c) ==
  /\ fault = "none" /\ conn[c] = "taken"
  /\ Drop(owned, m_socks, loops, [conn EXCEPT ![c] = getMatchServlet(UriOf[c])])
  /\ UNCHANGED <<program, called, m_isStop, addr, fd, closing, via, dispatch, ghosts, fault>>

\* A client connects, if somebody listens (external).
Connect(c) ==
  /\ fault = "none" /\ conn[c] = "idle"
  /\ \E s \in open : addr[s] = AddrOf[c] /\ via' = [via EXCEPT ![c] = s]
  /\ conn' = [conn EXCEPT ![c] = "pending"]
  /\ UNCHANGED <<user, server, sockets, worker, dispatch, ghosts, fault>>

-----------------------------------------------------------------------------
LoopStep(l) == l \in Live /\ (Test(l) \/ Enter(l) \/ Accept(l) \/ Arm(l))
Loop == \E l \in Live : LoopStep(l)
Poll == \E l \in Live : Ready(l)
Handle == \E c \in Conns : HandleClient(c)

\* Nobody has anything left to do.
Done ==
  /\ \/ fault # "none"
     \/ called = Len(program) /\ tasks = <<>> /\ closing = NoClosure /\ Running = {}
  /\ UNCHANGED vars

Next ==
  \/ Race("bind") \/ Race("start")
  \/ Bind \/ BindFails \/ Start \/ Stop \/ Release
  \/ Servlet \/ DelServlet \/ GlobServlet \/ DelGlobServlet
  \/ RunTask \/ Close \/ Loop \/ Poll \/ Handle
  \/ \E c \in Conns : Connect(c)
  \/ Done

Spec == Init /\ [][Next]_vars

\* The threads of the workers and epoll go on, each thread for itself; the user
\* and the clients may stop at any point.
FairSpec ==
  /\ Spec
  /\ WF_vars(RunTask) /\ WF_vars(Close) /\ WF_vars(Poll) /\ WF_vars(Handle)
  /\ \A l \in 1..MaxLoops : WF_vars(LoopStep(l))

-----------------------------------------------------------------------------
\* No two fibers wait for connections on one number (the assertion of
\* IOManager::addEvent), on any number of accept threads and although a number
\* closed by the closure of a stop() is used again by a later bind(): unless a
\* start() came while a loop of an earlier one had not ended or a closure was
\* still to come.
NoTwoWaiters == fault = "assert" => hasty

\* What the calls so far mean for a path: the servlet set for it last, if it was
\* not deleted since; or that of the matching pattern whose last call, which is
\* not a deletion, is the oldest; or the default.
Standing(adds, dels, uri) ==
  LET calls == {i \in 1..called : program[i].op \in {adds, dels} /\ program[i].uri = uri}
  IN  {i \in calls : program[i].op = adds /\ \A j \in calls : j <= i}

Meant(uri) ==
  LET exact == Standing("addServlet", "delServlet", uri)
      globs == {i \in 1..called :
                  /\ program[i].op = "addGlobServlet" /\ fnmatch(program[i].uri, uri)
                  /\ i \in Standing("addGlobServlet", "delGlobServlet", program[i].uri)}
  IN  IF exact # {} THEN program[Max(exact)].slt
      ELSE IF globs # {} THEN program[Min(globs)].slt ELSE NotFoundServlet

\* ServletDispatch answers every path with the servlet its callers last meant for
\* it, through any sequence of additions, replacements and deletions.
DispatchAgrees == \A uri \in Uris : getMatchServlet(uri) = Meant(uri)

\* After a last stop() the server comes to rest: every listening socket is closed
\* and every accept loop ends.  There remain the sockets a failed bind() took from
\* it, with the loops that wait there, and a loop whose addEvent came between the
\* last cancelAll on its socket and close_f: it is registered for ever with a
\* descriptor that epoll no longer watches.
Stopped ==
  /\ called = Len(program)
  /\ \E i \in DOMAIN program :
       program[i].op = "stop" /\ \A j \in i + 1..called : program[j].op \notin {"bind", "start"}
Stranded(l) == l \in late /\ loops[l].pc = "wait"
StopQuiesces ==
  Stopped ~> \/ /\ open \subseteq lost
                /\ \A l \in Live : Stranded(l) \/ Owners(FdOf(l)) # {}
             \/ fault # "none"

\* A connection that arrives at a socket start() made a loop for does not stay in the
\* backlog while the server runs, unless every thread of the accept worker is in a
\* loop of an earlier start() that missed the stop() between the two: it spins on
\* its closed socket and never yields.
Awaited(c) == conn[c] = "pending" /\ via[c] \in open /\ ~m_isStop /\ \E l \in DOMAIN loops : loops[l].sock = via[c]
Spinning == Cardinality({l \in Live : Unset(loops[l].sock)}) >= AcceptThreads
ConnectionsServed == \A c \in Conns : Awaited(c) ~> (~Awaited(c) \/ Spinning \/ fault # "none")
=============================================================================
