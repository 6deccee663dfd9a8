-------------------------- MODULE TcpServerProofs --------------------------
(* Theorems about TcpServer: for every program of calls, every set of        *)
(* addresses and of descriptor numbers, any number of accept threads and of  *)
(* connections.                                                              *)
EXTENDS TcpServer, FiniteSetTheorems, TLAPS

Places == {"new", "test", "enter", "try", "raw", "arm", "wait", "ready", "done"}
LoopRec == [sock : Nat, pc : Places]
ClosePlaces == {"none", "cancel", "close", "del", "close_f", "unset"}

\* What the variables hold.  A socket of m_socks, or with a descriptor, is one that
\* was created, and so is the socket of a loop.
Typed ==
  /\ program \in Seq(Calls) /\ called \in Nat /\ called <= Len(program)
  /\ addr \in Seq(Addresses) /\ fd \in Seq(Fds) /\ Len(fd) = Len(addr)
  /\ open \subseteq 1..Len(addr)
  /\ m_socks \in Seq(Nat) /\ \A i \in 1..Len(m_socks) : m_socks[i] \in 1..Len(addr)
  /\ closing \in [sock : Nat, at : ClosePlaces] /\ hasty \in BOOLEAN

WorkTyped ==
  /\ loops \in Seq(LoopRec) /\ \A l \in 1..Len(loops) : loops[l].sock \in 1..Len(addr)
  /\ tasks \in Seq(Nat) /\ \A p \in 1..Len(tasks) : tasks[p] <= Len(loops)

\* A fiber of startAccept is queued at most once, and only while it does not run.
QueueOK ==
  \A p \in 1..Len(tasks) : tasks[p] # CLOSURE =>
     /\ loops[tasks[p]].pc \in {"new", "ready"}
     /\ \A q \in 1..Len(tasks) : tasks[p] = tasks[q] => p = q

\* The sockets of m_socks are open while no closure runs; none is there twice; and
\* no two open sockets have one number.
SocksOK ==
  /\ owned /\ closing = NoClosure => \A i \in 1..Len(m_socks) : m_socks[i] \in open
  /\ \A i, j \in 1..Len(m_socks) : m_socks[i] = m_socks[j] => i = j
  /\ \A s, t \in open : fd[s] = fd[t] => s = t

\* No two loops that have not ended use one number, unless a start() was hasty.
LoopsOK ==
  ~hasty => \A k, l \in 1..Len(loops) :
    loops[k].pc # "done" /\ loops[l].pc # "done" /\ fd[loops[k].sock] = fd[loops[l].sock] => k = l

IInv == Typed /\ WorkTyped /\ QueueOK /\ SocksOK /\ LoopsOK /\ NoTwoWaiters

-----------------------------------------------------------------------------
(* Sequences.                                                                *)

\* A function on 1..n is a sequence of length n.
LEMMA FunIsSeq ==
  ASSUME NEW S, NEW n \in Nat, NEW f \in [1..n -> S]
  PROVE  f \in Seq(S) /\ Len(f) = n
OBVIOUS

\* SetToSeq lists a finite set without repetition.
LEMMA SetToSeqLists ==
  ASSUME NEW S, IsFiniteSet(S)
  PROVE  \E n \in Nat : SetToSeq(S) \in [1..n -> S] /\ \A i, j \in 1..n : SetToSeq(S)[i] = SetToSeq(S)[j] => i = j
<1>1. Cardinality(S) \in Nat /\ Bijection(1..Cardinality(S), S) # {}
  BY FS_CardinalityType DEF ExistsBijection
<1>2. \E f \in [1..Cardinality(S) -> S] : IsInjective(f) BY <1>1 DEF Bijection, Injection
<1>3. SetToSeq(S) \in [1..Cardinality(S) -> S] /\ IsInjective(SetToSeq(S)) BY <1>2 DEF SetToSeq
<1> QED BY <1>1, <1>3 DEF IsInjective

LEMMA AppendIsConcat == ASSUME NEW S, NEW s \in Seq(S), NEW e \in S PROVE Append(s, e) = s \o <<e>>
OBVIOUS

LEMMA MovedRec ==
  ASSUME NEW r \in LoopRec, NEW pc \in Places
  PROVE  /\ [r EXCEPT !.pc = pc] \in LoopRec
         /\ [r EXCEPT !.pc = pc].pc = pc /\ [r EXCEPT !.pc = pc].sock = r.sock
BY DEF LoopRec

LEMMA FinitePart == ASSUME NEW n \in Nat, NEW W \in SUBSET (1..n) PROVE IsFiniteSet(W)
<1>1. IsFiniteSet(1..n) BY FS_Interval
<1> QED BY <1>1, FS_Subset

-----------------------------------------------------------------------------
(* The list of tasks and the loops.                                          *)

\* w lists n loops that wait and are ready after the step, which queues them; the
\* loops that are queued stay as they are.
Wakes(n, w) ==
  /\ w \in [1..n -> 1..Len(loops)] /\ \A i, j \in 1..n : w[i] = w[j] => i = j
  /\ \A i \in 1..n : loops[w[i]].pc = "wait" /\ loops'[w[i]].pc = "ready"
  /\ tasks' = tasks \o w
Stays ==
  /\ Len(loops') = Len(loops)
  /\ \A l \in 1..Len(loops) : loops[l].pc \in {"new", "ready"} => loops'[l].pc = loops[l].pc

\* A step that moves loops which are not queued, and queues n of those that wait.
LEMMA StepQueue ==
  ASSUME WorkTyped, QueueOK, NEW n \in Nat, NEW w, Wakes(n, w), Stays
  PROVE  /\ tasks' \in Seq(Nat) /\ \A p \in 1..Len(tasks') : tasks'[p] <= Len(loops')
         /\ QueueOK'
<1>1. loops \in Seq(LoopRec) /\ tasks \in Seq(Nat) BY DEF WorkTyped
<1>2. PICK L \in Nat, T \in Nat : L = Len(loops) /\ T = Len(tasks) BY <1>1
<1>3. w \in Seq(Nat) /\ Len(w) = n
  <2>1. w \in [1..n -> Nat] BY <1>2 DEF Wakes
  <2> QED BY <2>1, FunIsSeq
<1>4. /\ tasks' \in Seq(Nat) /\ Len(tasks') = T + n
      /\ \A p \in 1..T : tasks'[p] = tasks[p]
      /\ \A p \in 1..T + n : p > T => p - T \in 1..n /\ tasks'[p] = w[p - T]
  <2>1. tasks' = tasks \o w BY DEF Wakes
  <2>2. PICK m \in Nat : m = Len(w) BY <1>3
  <2>3. tasks' \in Seq(Nat) BY <2>1, <1>1, <1>3
  <2>4. Len(tasks') = T + m
    <3>1. w \in Seq(Nat) /\ tasks \in Seq(Nat) BY <1>1, <1>3
    <3>2. Len(tasks \o w) = Len(tasks) + Len(w) BY <3>1
    <3> QED BY <3>2, <2>1, <2>2, <1>2
  <2>5. \A p \in 1..T : tasks'[p] = tasks[p] BY <2>1, <1>1, <1>2, <1>3
  <2>6. \A p \in 1..T + m : p > T => p - T \in 1..m /\ tasks'[p] = w[p - T]
    BY <2>1, <2>2, <1>1, <1>2, <1>3
  <2> QED BY <2>2, <2>3, <2>4, <2>5, <2>6, <1>3
<1>5. \A p \in 1..T : tasks[p] \in Nat /\ tasks[p] <= L BY <1>1, <1>2 DEF WorkTyped
<1>6. \A p \in 1..T : tasks[p] # CLOSURE =>
        /\ tasks[p] \in 1..L /\ loops[tasks[p]].pc \in {"new", "ready"}
        /\ \A q \in 1..T : tasks[p] = tasks[q] => p = q
  BY <1>2, <1>5 DEF QueueOK, CLOSURE
<1>7. \A p \in 1..T + n : p > T =>
        tasks'[p] \in 1..L /\ loops[tasks'[p]].pc = "wait" /\ loops'[tasks'[p]].pc = "ready"
  BY <1>2, <1>4 DEF Wakes
<1>8. \A p \in 1..T + n : tasks'[p] <= L
  <2> TAKE p \in 1..T + n
  <2>1. CASE p \in 1..T BY <2>1, <1>4, <1>5
  <2>2. CASE p > T BY <2>2, <1>7
  <2> QED BY <2>1, <2>2
<1>9. QueueOK'
  <2> SUFFICES ASSUME NEW p \in 1..T + n, tasks'[p] # CLOSURE
               PROVE  /\ loops'[tasks'[p]].pc \in {"new", "ready"}
                      /\ \A q \in 1..T + n : tasks'[p] = tasks'[q] => p = q
    BY <1>4 DEF QueueOK
  <2>1. CASE p \in 1..T
    <3>1. /\ tasks'[p] = tasks[p] /\ tasks[p] \in 1..L /\ loops[tasks[p]].pc \in {"new", "ready"}
          /\ \A q \in 1..T : tasks[p] = tasks[q] => p = q
      BY <2>1, <1>4, <1>6
    <3>2. loops'[tasks'[p]].pc \in {"new", "ready"} BY <3>1, <1>2 DEF Stays
    <3>3. ASSUME NEW q \in 1..T + n, tasks'[p] = tasks'[q] PROVE p = q
      <4>1. q \in 1..T BY <3>1, <3>3, <1>7
      <4> QED BY <4>1, <3>1, <3>3, <1>4
    <3> QED BY <3>2, <3>3
  <2>2. CASE p > T
    <3>1. loops[tasks'[p]].pc = "wait" /\ loops'[tasks'[p]].pc = "ready" BY <2>2, <1>7
    <3>2. ASSUME NEW q \in 1..T + n, tasks'[p] = tasks'[q] PROVE p = q
      <4>1. CASE q \in 1..T
        <5>1. tasks'[q] = tasks[q] BY <4>1, <1>4
        <5>2. loops[tasks[q]].pc \in {"new", "ready"} BY <4>1, <5>1, <3>2, <1>6
        <5> QED BY <5>1, <5>2, <3>1, <3>2
      <4>2. CASE q > T
        <5>1. p - T \in 1..n /\ q - T \in 1..n /\ w[p - T] = w[q - T] BY <2>2, <4>2, <3>2, <1>4
        <5>2. p - T = q - T BY <5>1 DEF Wakes
        <5> QED BY <5>2
      <4> QED BY <4>1, <4>2
    <3> QED BY <3>1, <3>2
  <2> QED BY <2>1, <2>2
<1> QED BY <1>2, <1>4, <1>8, <1>9 DEF Stays

\* The loops W that wait are woken by a cancelAll, after the step has made the
\* loops ls of them.
LEMMA WakeQueue ==
  ASSUME WorkTyped, QueueOK, NEW ls \in Seq(LoopRec), Len(ls) = Len(loops),
         \A l \in 1..Len(loops) :
           /\ ls[l].sock = loops[l].sock
           /\ loops[l].pc \in {"new", "ready", "done"} => ls[l].pc = loops[l].pc,
         NEW W \in SUBSET (1..Len(loops)), \A l \in W : loops[l].pc = "wait",
         loops' = Woken(ls, W), tasks' = tasks \o SetToSeq(W)
  PROVE  /\ loops' \in Seq(LoopRec) /\ Len(loops') = Len(loops)
         /\ tasks' \in Seq(Nat) /\ \A p \in 1..Len(tasks') : tasks'[p] <= Len(loops')
         /\ \A l \in 1..Len(loops) :
              loops'[l].sock = loops[l].sock /\ (loops[l].pc = "done" => loops'[l].pc = "done")
         /\ QueueOK'
<1>1. loops \in Seq(LoopRec) BY DEF WorkTyped
<1>2. PICK L \in Nat : L = Len(loops) BY <1>1
<1>3. DOMAIN ls = 1..L /\ \A k \in 1..L : ls[k] \in LoopRec BY <1>2
<1>4. \A k \in 1..L : /\ [ls[k] EXCEPT !.pc = "ready"] \in LoopRec
                      /\ [ls[k] EXCEPT !.pc = "ready"].pc = "ready"
                      /\ [ls[k] EXCEPT !.pc = "ready"].sock = ls[k].sock
  BY <1>3 DEF LoopRec, Places
<1>5. loops' = [l \in 1..L |-> IF l \in W THEN [ls[l] EXCEPT !.pc = "ready"] ELSE ls[l]] BY <1>3 DEF Woken
<1>6. loops' \in [1..L -> LoopRec] BY <1>3, <1>4, <1>5
<1>7. loops' \in Seq(LoopRec) /\ Len(loops') = L BY <1>6, FunIsSeq
<1>8. \A k \in 1..L : IF k \in W THEN loops'[k].pc = "ready" /\ loops'[k].sock = ls[k].sock ELSE loops'[k] = ls[k]
  BY <1>4, <1>5
<1>9. \A k \in 1..L : loops'[k].sock = loops[k].sock /\ (loops[k].pc \in {"new", "ready", "done"} => loops'[k].pc = loops[k].pc)
  BY <1>2, <1>8
<1>10. IsFiniteSet(W) BY <1>2, FinitePart
<1>11. PICK n \in Nat : /\ SetToSeq(W) \in [1..n -> W]
                        /\ \A i, j \in 1..n : SetToSeq(W)[i] = SetToSeq(W)[j] => i = j
  BY <1>10, SetToSeqLists
<1>12. PICK w : w = SetToSeq(W) OBVIOUS
<1>13. w \in [1..n -> W] /\ w \in [1..n -> 1..Len(loops)] BY <1>11, <1>12
<1>14. \A i \in 1..n : loops[w[i]].pc = "wait" /\ loops'[w[i]].pc = "ready" BY <1>2, <1>8, <1>13
<1>15. tasks' = tasks \o w /\ \A i, j \in 1..n : w[i] = w[j] => i = j BY <1>11, <1>12
<1>16. Wakes(n, w) /\ Stays
  <2>1. Stays BY <1>2, <1>7, <1>9 DEF Stays
  <2>2. Wakes(n, w) BY <1>13, <1>14, <1>15 DEF Wakes
  <2> QED BY <2>1, <2>2
<1>17. Len(loops') = Len(loops) BY <1>2, <1>7
<1>18. tasks' \in Seq(Nat) /\ (\A p \in 1..Len(tasks') : tasks'[p] <= Len(loops')) /\ QueueOK'
  BY <1>16, StepQueue
<1> QED BY <1>2, <1>7, <1>9, <1>17, <1>18

\* A thread moves the loop it runs on, to `pc`.
LEMMA MoveQueue ==
  ASSUME WorkTyped, QueueOK, NEW l \in Live, loops[l].pc \in RunPcs, NEW pc \in Places, GoTo(l, pc), tasks' = tasks
  PROVE  /\ loops' \in Seq(LoopRec) /\ Len(loops') = Len(loops)
         /\ tasks' \in Seq(Nat) /\ \A p \in 1..Len(tasks') : tasks'[p] <= Len(loops')
         /\ \A k \in 1..Len(loops) :
              loops'[k].sock = loops[k].sock /\ (loops[k].pc = "done" => loops'[k].pc = "done")
         /\ QueueOK'
<1>1. loops \in Seq(LoopRec) /\ l \in 1..Len(loops) /\ Len(loops) \in Nat /\ tasks \in Seq(Nat)
  BY DEF WorkTyped, Live
<1>2. \A k \in 1..Len(loops) : loops[k] \in LoopRec BY <1>1
<1>3. PICK r \in LoopRec : r = [loops[l] EXCEPT !.pc = pc] BY <1>1, <1>2 DEF LoopRec
<1>4. r.pc = pc /\ r.sock = loops[l].sock BY <1>1, <1>2, <1>3 DEF LoopRec
<1>5. loops' = [loops EXCEPT ![l] = r] BY <1>3 DEF GoTo
<1>6. /\ loops' \in Seq(LoopRec) /\ Len(loops') = Len(loops)
      /\ \A k \in 1..Len(loops) : loops'[k].sock = loops[k].sock /\ (k # l => loops'[k] = loops[k])
  BY <1>1, <1>4, <1>5
<1>7. \A k \in 1..Len(loops) : loops[k].pc \in {"new", "ready", "done"} => k # l BY DEF RunPcs
<1>8. QueueOK'
  <2>1. \A p \in 1..Len(tasks) : tasks[p] # CLOSURE =>
          /\ tasks[p] \in 1..Len(loops) /\ loops[tasks[p]].pc \in {"new", "ready"}
          /\ \A q \in 1..Len(tasks) : tasks[p] = tasks[q] => p = q
    BY <1>1 DEF WorkTyped, QueueOK, CLOSURE
  <2> QED BY <2>1, <1>6, <1>7 DEF QueueOK
<1> QED BY <1>1, <1>6, <1>7, <1>8 DEF WorkTyped

-----------------------------------------------------------------------------
(* The invariant, action by action.                                          *)

LEMMA InitInv == ASSUME Init PROVE IInv
<1>1. /\ program \in Seq(Calls) /\ called = 0 /\ Len(program) \in Nat
      /\ closing = NoClosure /\ addr = <<>> /\ fd = <<>> /\ open = {}
      /\ m_socks = <<>> /\ loops = <<>> /\ tasks = <<>> /\ fault = "none" /\ hasty = FALSE
  BY ProgramsAssumption DEF Init
<1>2. \A i : i \notin 1..Len(<<>>) OBVIOUS
<1>3. Typed
  <2>1. closing \in [sock : Nat, at : ClosePlaces] BY <1>1 DEF NoClosure, ClosePlaces
  <2>2. <<>> \in Seq(Addresses) /\ <<>> \in Seq(Fds) /\ <<>> \in Seq(Nat) OBVIOUS
  <2>3. called \in Nat /\ called <= Len(program) BY <1>1
  <2> QED BY <1>1, <1>2, <2>1, <2>2, <2>3 DEF Typed
<1>4. WorkTyped BY <1>1, <1>2 DEF WorkTyped
<1>5. QueueOK /\ SocksOK /\ LoopsOK BY <1>1, <1>2 DEF QueueOK, SocksOK, LoopsOK
<1> QED BY <1>1, <1>3, <1>4, <1>5 DEF IInv, NoTwoWaiters

\* A call's arguments are those of a call of the program.
LEMMA CallTyped ==
  ASSUME Typed, NEW op, Call(op)
  PROVE  /\ fault = "none" /\ owned /\ Args \in Calls /\ Args.op = op
         /\ program' = program /\ called' \in Nat /\ called' <= Len(program')
         /\ called' = called + 1
BY DEF Typed, Call, Args

\* A step that makes no socket and no loop, goes on with none that has ended, and
\* closes no socket of m_socks unless a closure runs.
LEMMA FrameInv ==
  ASSUME IInv, fault' = "assert" => hasty',
         program' = program, called' \in Nat, called' <= Len(program'),
         closing' \in [sock : Nat, at : ClosePlaces],
         UNCHANGED <<addr, fd, hasty>>, open' \subseteq open, m_socks' \in {m_socks, <<>>},
         owned' /\ closing' = NoClosure => \A i \in 1..Len(m_socks') : m_socks'[i] \in open',
         loops' \in Seq(LoopRec), Len(loops') = Len(loops),
         tasks' \in Seq(Nat), \A p \in 1..Len(tasks') : tasks'[p] <= Len(loops'), QueueOK',
         \A l \in 1..Len(loops) : loops'[l].sock = loops[l].sock /\ (loops[l].pc = "done" => loops'[l].pc = "done")
  PROVE  IInv'
<1>1. /\ m_socks' \in Seq(Nat) /\ (\A i \in 1..Len(m_socks') : m_socks'[i] \in 1..Len(addr))
      /\ \A i, j \in 1..Len(m_socks') : m_socks'[i] = m_socks'[j] => i = j
  <2>1. CASE m_socks' = m_socks BY <2>1 DEF IInv, Typed, SocksOK
  <2>2. CASE m_socks' = <<>> BY <2>2
  <2> QED BY <2>1, <2>2
<1>2. Typed' BY <1>1 DEF IInv, Typed
<1>3. WorkTyped' BY DEF IInv, WorkTyped
<1>4. \A s, t \in open' : fd'[s] = fd'[t] => s = t BY DEF IInv, SocksOK
<1>5. SocksOK' BY <1>1, <1>4 DEF SocksOK
<1>6. LoopsOK' BY DEF IInv, LoopsOK
<1>7. NoTwoWaiters' BY DEF NoTwoWaiters
<1> QED BY <1>2, <1>3, <1>5, <1>6, <1>7 DEF IInv

\* A step that leaves the loops and the list alone.
LEMMA StillInv ==
  ASSUME IInv, fault' = "assert" => hasty',
         program' = program, called' \in Nat, called' <= Len(program'),
         closing' \in [sock : Nat, at : ClosePlaces],
         UNCHANGED <<addr, fd, hasty, loops, tasks>>, open' \subseteq open, m_socks' \in {m_socks, <<>>},
         owned' /\ closing' = NoClosure => \A i \in 1..Len(m_socks') : m_socks'[i] \in open'
  PROVE  IInv'
<1>1. /\ loops' \in Seq(LoopRec) /\ Len(loops') = Len(loops) /\ tasks' \in Seq(Nat)
      /\ \A p \in 1..Len(tasks') : tasks'[p] <= Len(loops')
      /\ \A l \in 1..Len(loops) : loops'[l].sock = loops[l].sock /\ (loops[l].pc = "done" => loops'[l].pc = "done")
  BY DEF IInv, WorkTyped
<1>2. QueueOK' BY DEF IInv, QueueOK
<1> QED BY <1>1, <1>2, FrameInv

\* The same, if nothing but the calls, the clients or a fault changes.
LEMMA QuietInv ==
  ASSUME IInv, fault' = "assert" => hasty',
         program' = program, called' \in Nat, called' <= Len(program'),
         UNCHANGED <<owned, addr, fd, hasty, loops, tasks, open, m_socks, closing>>
  PROVE  IInv'
<1>1. owned' /\ closing' = NoClosure => \A i \in 1..Len(m_socks') : m_socks'[i] \in open'
  BY DEF IInv, SocksOK
<1>2. closing' \in [sock : Nat, at : ClosePlaces] BY DEF IInv, Typed
<1> QED BY <1>1, <1>2, StillInv

LEMMA RaceInv == ASSUME IInv, NEW op, Race(op) PROVE IInv'
<1>1. /\ fault' = "race" /\ program' = program /\ called' \in Nat /\ called' <= Len(program')
      /\ UNCHANGED <<owned, addr, fd, hasty, loops, tasks, open, m_socks, closing>>
  BY CallTyped DEF IInv, Race, server, sockets, worker, ghosts
<1> QED BY <1>1, QuietInv

LEMMA ServletInv ==
  ASSUME IInv, Servlet \/ DelServlet \/ GlobServlet \/ DelGlobServlet
  PROVE  IInv'
<1>1. /\ fault' = "none" /\ program' = program /\ called' \in Nat /\ called' <= Len(program')
      /\ UNCHANGED <<owned, addr, fd, hasty, loops, tasks, open, m_socks, closing>>
  BY CallTyped DEF IInv, Servlet, DelServlet, GlobServlet, DelGlobServlet, server, sockets, worker, ghosts
<1> QED BY <1>1, QuietInv

LEMMA ConnectInv == ASSUME IInv, NEW c \in Conns, Connect(c) PROVE IInv'
<1>1. /\ fault' = "none" /\ program' = program /\ called' = called
      /\ UNCHANGED <<owned, addr, fd, hasty, loops, tasks, open, m_socks, closing>>
  BY DEF Connect, user, server, sockets, worker, ghosts
<1>2. called' \in Nat /\ called' <= Len(program') BY <1>1 DEF IInv, Typed
<1> QED BY <1>1, <1>2, QuietInv

\* Sockets nobody points to close themselves.
LEMMA DropInv ==
  ASSUME IInv, NEW own, own => owned, NEW socks \in {m_socks, <<>>}, NEW cn,
         NEW ls \in Seq(LoopRec), Len(ls) = Len(loops),
         \A l \in 1..Len(loops) :
           /\ ls[l].sock = loops[l].sock
           /\ loops[l].pc \in {"new", "ready", "done"} => ls[l].pc = loops[l].pc,
         Drop(own, socks, ls, cn),
         program' = program, called' \in Nat, called' <= Len(program'),
         UNCHANGED <<addr, fd, closing, hasty>>, fault' = "none"
  PROVE  IInv'
<1> DEFINE gone == open \ HeldBy(own, socks, ls, cn)
           W == Cancelled(gone)
<1>1. /\ owned' = own /\ m_socks' = socks /\ open' = open \ gone
      /\ loops' = Woken(ls, W) /\ tasks' = tasks \o SetToSeq(W)
  BY DEF Drop
<1>2. W \in SUBSET (1..Len(loops)) /\ \A l \in W : loops[l].pc = "wait"
  <2>1. DOMAIN loops = 1..Len(loops) BY DEF IInv, WorkTyped
  <2> QED BY <2>1 DEF Cancelled
<1>3. owned' /\ closing' = NoClosure => \A i \in 1..Len(m_socks') : m_socks'[i] \in open'
  <2> SUFFICES ASSUME owned', closing' = NoClosure, NEW i \in 1..Len(m_socks') PROVE m_socks'[i] \in open'
    OBVIOUS
  <2>1. own /\ owned /\ closing = NoClosure BY <1>1
  <2>2. m_socks' = m_socks /\ socks = m_socks BY <1>1
  <2>3. m_socks \in Seq(Nat) BY DEF IInv, Typed
  <2>4. m_socks[i] \in Range(socks) BY <2>2, <2>3 DEF Range
  <2>5. m_socks[i] \in HeldBy(own, socks, ls, cn) BY <2>1, <2>4 DEF HeldBy
  <2>6. m_socks[i] \in open BY <2>1, <2>2 DEF IInv, SocksOK
  <2> QED BY <1>1, <2>2, <2>5, <2>6
<1>4. open' \subseteq open BY <1>1
<1> HIDE DEF gone, W
<1>5. /\ loops' \in Seq(LoopRec) /\ Len(loops') = Len(loops)
      /\ tasks' \in Seq(Nat) /\ \A p \in 1..Len(tasks') : tasks'[p] <= Len(loops')
      /\ \A l \in 1..Len(loops) :
           loops'[l].sock = loops[l].sock /\ (loops[l].pc = "done" => loops'[l].pc = "done")
      /\ QueueOK'
  <2>1. WorkTyped /\ QueueOK BY DEF IInv
  <2> QED BY <1>1, <1>2, <2>1, WakeQueue
<1>6. closing' \in [sock : Nat, at : ClosePlaces] BY DEF IInv, Typed
<1> QED BY <1>1, <1>3, <1>4, <1>5, <1>6, FrameInv

\* The loops as they are.
LEMMA SameLoops ==
  ASSUME IInv
  PROVE  loops \in Seq(LoopRec)
BY DEF IInv, WorkTyped

LEMMA ReleaseInv == ASSUME IInv, Release PROVE IInv'
<1>1. /\ program' = program /\ called' \in Nat /\ called' <= Len(program') /\ fault' = "none"
      /\ Drop(FALSE, m_socks, loops, conn) /\ UNCHANGED <<addr, fd, closing, hasty>>
  BY CallTyped DEF IInv, Release, ghosts
<1> QED BY <1>1, SameLoops, DropInv

LEMMA BindFailsInv == ASSUME IInv, BindFails PROVE IInv'
<1>1. /\ program' = program /\ called' \in Nat /\ called' <= Len(program') /\ fault' = "none"
      /\ Drop(owned, <<>>, loops, conn) /\ UNCHANGED <<addr, fd, closing, hasty>>
  BY CallTyped DEF IInv, BindFails
<1> QED BY <1>1, SameLoops, DropInv

LEMMA HandleInv == ASSUME IInv, NEW c \in Conns, HandleClient(c) PROVE IInv'
<1>1. PICK cn : Drop(owned, m_socks, loops, cn) BY DEF HandleClient
<1>2. program' = program /\ called' = called /\ fault' = "none" /\ UNCHANGED <<addr, fd, closing, hasty>>
  BY DEF HandleClient, ghosts
<1>3. called' \in Nat /\ called' <= Len(program') BY <1>2 DEF IInv, Typed
<1> QED BY <1>1, <1>2, <1>3, SameLoops, DropInv

LEMMA TestInv == ASSUME IInv, NEW l \in Live, Test(l) PROVE IInv'
<1> DEFINE pc == IF m_isStop THEN "done" ELSE "enter"
           ls == [loops EXCEPT ![l].pc = pc]
<1>1. /\ loops[l].pc = "test" /\ Drop(owned, m_socks, ls, conn)
      /\ program' = program /\ called' = called /\ fault' = "none" /\ UNCHANGED <<addr, fd, closing, hasty>>
  BY DEF Test, ghosts
<1>2. called' \in Nat /\ called' <= Len(program') BY <1>1 DEF IInv, Typed
<1>3. loops \in Seq(LoopRec) /\ l \in 1..Len(loops) /\ Len(loops) \in Nat BY DEF IInv, WorkTyped, Live
<1>4. pc \in Places BY DEF Places
<1>5. PICK r \in LoopRec : r = [loops[l] EXCEPT !.pc = pc] /\ r.sock = loops[l].sock
  <2>1. loops[l] \in LoopRec BY <1>3
  <2> QED BY <1>4, <2>1, MovedRec
<1>6. ls = [loops EXCEPT ![l] = r] BY <1>5
<1> HIDE DEF ls, pc
<1>7. ls \in Seq(LoopRec) /\ Len(ls) = Len(loops) BY <1>3, <1>6
<1>8. \A k \in 1..Len(loops) :
        /\ ls[k].sock = loops[k].sock
        /\ loops[k].pc \in {"new", "ready", "done"} => ls[k].pc = loops[k].pc
  BY <1>1, <1>3, <1>5, <1>6
<1> QED BY <1>1, <1>2, <1>7, <1>8, DropInv

\* A thread moves the loop it runs, and the sockets stay.
LEMMA MoveInv ==
  ASSUME IInv, NEW l \in Live, loops[l].pc \in RunPcs, NEW pc \in Places, GoTo(l, pc), tasks' = tasks,
         UNCHANGED <<program, called, owned, m_socks, addr, fd, open, closing, hasty>>, fault' = "none"
  PROVE  IInv'
<1>1. WorkTyped /\ QueueOK BY DEF IInv
<1>2. /\ loops' \in Seq(LoopRec) /\ Len(loops') = Len(loops)
      /\ tasks' \in Seq(Nat) /\ (\A p \in 1..Len(tasks') : tasks'[p] <= Len(loops'))
      /\ (\A k \in 1..Len(loops) :
           loops'[k].sock = loops[k].sock /\ (loops[k].pc = "done" => loops'[k].pc = "done"))
      /\ QueueOK'
  BY <1>1, MoveQueue
<1>3. owned' /\ closing' = NoClosure => \A i \in 1..Len(m_socks') : m_socks'[i] \in open'
  BY DEF IInv, SocksOK
<1>4. called' \in Nat /\ called' <= Len(program') /\ closing' \in [sock : Nat, at : ClosePlaces]
  BY DEF IInv, Typed
<1> QED BY <1>2, <1>3, <1>4, FrameInv

LEMMA EnterInv == ASSUME IInv, NEW l \in Live, Enter(l) PROVE IInv'
<1>1. /\ loops[l].pc \in RunPcs /\ fault' = "none" /\ tasks' = tasks
      /\ UNCHANGED <<program, called, owned, m_socks, addr, fd, open, closing, hasty>>
  BY DEF Enter, RunPcs, user, server, sockets, ghosts
<1>2. PICK pc \in Places : GoTo(l, pc) BY DEF Enter, Places
<1> QED BY <1>1, <1>2, MoveInv

LEMMA AcceptInv == ASSUME IInv, NEW l \in Live, Accept(l) PROVE IInv'
<1>1. /\ loops[l].pc \in RunPcs /\ fault' = "none" /\ tasks' = tasks
      /\ UNCHANGED <<program, called, owned, m_socks, addr, fd, open, closing, hasty>>
  BY DEF Accept, RunPcs, user, server, sockets, ghosts
<1>2. PICK pc \in Places : GoTo(l, pc) BY DEF Accept, Places
<1> QED BY <1>1, <1>2, MoveInv

\* addEvent's assertion: another loop that has not ended uses the number.
LEMMA ArmInv == ASSUME IInv, NEW l \in Live, Arm(l) PROVE IInv'
<1>1. /\ fault = "none" /\ loops[l].pc = "arm" /\ tasks' = tasks
      /\ UNCHANGED <<program, called, owned, m_socks, addr, fd, open, closing, hasty>>
  BY DEF Arm, user, server, ghosts
<1>2. CASE \E k \in Live \ {l} : FdOf(k) = FdOf(l) /\ loops[k].pc = "wait"
  <2>1. PICK k \in Live : k # l /\ FdOf(k) = FdOf(l) BY <1>2
  <2>2. k \in 1..Len(loops) /\ l \in 1..Len(loops) /\ loops[k].pc # "done" /\ loops[l].pc # "done"
    BY DEF IInv, WorkTyped, Live
  <2>3. hasty BY <2>1, <2>2 DEF IInv, LoopsOK, FdOf
  <2>4. loops' = loops BY <1>2 DEF Arm
  <2>5. called' \in Nat /\ called' <= Len(program') BY <1>1 DEF IInv, Typed
  <2> QED BY <1>1, <2>3, <2>4, <2>5, QuietInv
<1>3. CASE ~ \E k \in Live \ {l} : FdOf(k) = FdOf(l) /\ loops[k].pc = "wait"
  <2>1. fault' = "none" BY <1>1, <1>3 DEF Arm
  <2>2. PICK pc \in Places : GoTo(l, pc) BY <1>3 DEF Arm, Places
  <2>3. loops[l].pc \in RunPcs BY <1>1 DEF RunPcs
  <2> QED BY <1>1, <2>1, <2>2, <2>3, MoveInv
<1> QED BY <1>2, <1>3

LEMMA ReadyInv == ASSUME IInv, NEW l \in Live, Ready(l) PROVE IInv'
<1>1. /\ fault' = "none" /\ loops[l].pc = "wait" /\ loops' = [loops EXCEPT ![l].pc = "ready"]
      /\ tasks' = Append(tasks, l)
      /\ UNCHANGED <<program, called, owned, m_socks, addr, fd, open, closing, hasty>>
  BY DEF Ready, GoTo, user, server, ghosts
<1>2. WorkTyped /\ QueueOK BY DEF IInv
<1>3. loops \in Seq(LoopRec) /\ tasks \in Seq(Nat) /\ l \in 1..Len(loops) /\ Len(loops) \in Nat
  BY <1>2 DEF WorkTyped, Live
<1>4. PICK r \in LoopRec : r = [loops[l] EXCEPT !.pc = "ready"] /\ r.sock = loops[l].sock /\ r.pc = "ready"
  <2>1. loops[l] \in LoopRec BY <1>3
  <2>2. "ready" \in Places BY DEF Places
  <2> QED BY <2>1, <2>2, MovedRec
<1>5. loops' = [loops EXCEPT ![l] = r] BY <1>1, <1>4
<1>6. /\ loops' \in Seq(LoopRec) /\ Len(loops') = Len(loops) /\ loops'[l].pc = "ready"
      /\ \A k \in 1..Len(loops) : loops'[k].sock = loops[k].sock /\ (k # l => loops'[k] = loops[k])
  BY <1>3, <1>4, <1>5
<1>7. Stays
  <2>1. \A k \in 1..Len(loops) : loops[k].pc \in {"new", "ready"} => k # l BY <1>1
  <2> QED BY <2>1, <1>6 DEF Stays
<1>8. PICK w : w = <<l>> OBVIOUS
<1>9. w \in [1..1 -> 1..Len(loops)] /\ w[1] = l BY <1>3, <1>8
<1>10. tasks' = tasks \o w
  <2>1. l \in Nat BY <1>3
  <2> QED BY <1>1, <1>3, <1>8, <2>1, AppendIsConcat, Zenon
<1>11. Wakes(1, w)
  <2>1. \A i \in 1..1 : i = 1 OBVIOUS
  <2> QED BY <1>1, <1>6, <1>9, <1>10, <2>1 DEF Wakes
<1>12. tasks' \in Seq(Nat) /\ (\A p \in 1..Len(tasks') : tasks'[p] <= Len(loops')) /\ QueueOK'
  BY <1>2, <1>7, <1>11, StepQueue
<1>13. owned' /\ closing' = NoClosure => \A i \in 1..Len(m_socks') : m_socks'[i] \in open'
  BY <1>1 DEF IInv, SocksOK
<1>14. called' \in Nat /\ called' <= Len(program') /\ closing' \in [sock : Nat, at : ClosePlaces]
  BY <1>1 DEF IInv, Typed
<1>15. \A k \in 1..Len(loops) : loops'[k].sock = loops[k].sock /\ (loops[k].pc = "done" => loops'[k].pc = "done")
  BY <1>1, <1>6
<1> QED BY <1>1, <1>6, <1>12, <1>13, <1>14, <1>15, FrameInv

\* The first task begins: a loop goes on, or the closure starts.
LEMMA RunTaskInv == ASSUME IInv, RunTask PROVE IInv'
<1> DEFINE b == tasks[1]
<1>1. /\ tasks # <<>> /\ tasks' = Tail(tasks) /\ fault' # "assert"
      /\ UNCHANGED <<program, called, owned, m_socks, addr, fd, open, hasty>>
  BY DEF RunTask, user, server, sockets, ghosts
<1>2. loops \in Seq(LoopRec) /\ tasks \in Seq(Nat) BY DEF IInv, WorkTyped
<1>3. PICK L \in Nat, T \in Nat : L = Len(loops) /\ T = Len(tasks) BY <1>2
<1>4. /\ tasks' \in Seq(Nat) /\ T >= 1 /\ Len(tasks') = T - 1 /\ \A p \in 1..T - 1 : tasks'[p] = tasks[p + 1]
  BY <1>1, <1>2, <1>3
<1>5. \A p \in 1..T : tasks[p] \in Nat /\ tasks[p] <= L BY <1>3 DEF IInv, WorkTyped
<1>6. closing \in [sock : Nat, at : ClosePlaces] BY DEF IInv, Typed
<1>7. 1 \in 1..T /\ \A p \in 1..T - 1 : p + 1 \in 1..T /\ p + 1 # 1 BY <1>4
<1>8. \A p \in 1..T : tasks[p] # CLOSURE =>
          loops[tasks[p]].pc \in {"new", "ready"} /\ \A q \in 1..T : tasks[p] = tasks[q] => p = q
  BY <1>3 DEF IInv, QueueOK
<1>9. /\ Len(loops') = L /\ loops' \in Seq(LoopRec)
      /\ \A k \in 1..L : loops'[k].sock = loops[k].sock /\ (k # b => loops'[k] = loops[k])
      /\ b = CLOSURE => loops' = loops
  <2>1. CASE b = CLOSURE BY <2>1, <1>2, <1>3 DEF RunTask
  <2>2. CASE b # CLOSURE
    <3> DEFINE pc == IF loops[b].pc = "ready" THEN "try" ELSE "test"
    <3>1. b \in 1..L BY <2>2, <1>5, <1>7 DEF CLOSURE
    <3>2. loops[b] \in LoopRec BY <1>2, <1>3, <3>1
    <3>3. pc \in Places BY DEF Places
    <3>4. PICK r \in LoopRec : r = [loops[b] EXCEPT !.pc = pc] /\ r.sock = loops[b].sock
      <4> HIDE DEF b, pc
      <4> QED BY <3>2, <3>3, MovedRec
    <3>5. loops' = [loops EXCEPT ![b] = r] BY <2>2, <3>4 DEF RunTask
    <3> HIDE DEF b
    <3> QED BY <1>2, <1>3, <2>2, <3>1, <3>4, <3>5
  <2> QED BY <2>1, <2>2
<1>10. /\ closing' \in [sock : Nat, at : ClosePlaces]
       /\ closing' = NoClosure => closing = NoClosure
  <2>1. closing' \in {closing, [sock |-> 1, at |-> "cancel"]} BY DEF RunTask
  <2>2. [sock |-> 1, at |-> "cancel"] \in [sock : Nat, at : ClosePlaces] BY DEF ClosePlaces
  <2>3. [sock |-> 1, at |-> "cancel"] # NoClosure BY DEF NoClosure
  <2> QED BY <1>6, <2>1, <2>2, <2>3
<1>11. b \in Nat BY <1>5, <1>7
<1> HIDE DEF b
<1>12. \A p \in 1..T - 1 : tasks'[p] # CLOSURE => tasks'[p] \in 1..L /\ tasks'[p] # b
  <2> SUFFICES ASSUME NEW p \in 1..T - 1, tasks'[p] # CLOSURE PROVE tasks'[p] \in 1..L /\ tasks'[p] # b OBVIOUS
  <2>1. tasks'[p] = tasks[p + 1] /\ p + 1 \in 1..T BY <1>4, <1>7
  <2>2. tasks[p + 1] # tasks[1] BY <2>1, <1>7, <1>8
  <2> QED BY <2>1, <2>2, <1>5 DEF b, CLOSURE
<1>13. \A p \in 1..Len(tasks') : tasks'[p] <= Len(loops')
  <2>1. \A p \in 1..T - 1 : tasks'[p] <= L BY <1>4, <1>5, <1>7
  <2> QED BY <2>1, <1>4, <1>9
<1>14. QueueOK'
  <2> SUFFICES ASSUME NEW p \in 1..T - 1, tasks'[p] # CLOSURE
               PROVE  /\ loops'[tasks'[p]].pc \in {"new", "ready"}
                      /\ \A q \in 1..T - 1 : tasks'[p] = tasks'[q] => p = q
    BY <1>4 DEF QueueOK
  <2>1. loops'[tasks'[p]] = loops[tasks'[p]] BY <1>9, <1>12
  <2>2. tasks'[p] = tasks[p + 1] BY <1>4
  <2>3. loops[tasks'[p]].pc \in {"new", "ready"} BY <1>7, <1>8, <2>2
  <2>4. ASSUME NEW q \in 1..T - 1, tasks'[p] = tasks'[q] PROVE p = q
    <3>1. tasks[p + 1] = tasks[q + 1] BY <1>4, <2>4
    <3>2. p + 1 = q + 1 BY <3>1, <2>2, <1>7, <1>8
    <3> QED BY <3>2
  <2> QED BY <2>1, <2>3, <2>4
<1>15. \A k \in 1..Len(loops) : loops'[k].sock = loops[k].sock /\ (loops[k].pc = "done" => loops'[k].pc = "done")
  <2>1. ASSUME NEW k \in 1..L, loops[k].pc = "done" PROVE loops'[k].pc = "done"
    <3>1. k # b
      <4>1. k # CLOSURE BY DEF CLOSURE
      <4> QED BY <4>1, <2>1, <1>7, <1>8 DEF b
    <3> QED BY <3>1, <2>1, <1>9
  <2> QED BY <2>1, <1>3, <1>9
<1>16. owned' /\ closing' = NoClosure => \A i \in 1..Len(m_socks') : m_socks'[i] \in open'
  BY <1>1, <1>10 DEF IInv, SocksOK
<1>17. called' \in Nat /\ called' <= Len(program') BY <1>1 DEF IInv, Typed
<1>18. Len(loops') = Len(loops) BY <1>3, <1>9
<1> QED BY <1>1, <1>4, <1>9, <1>10, <1>13, <1>14, <1>15, <1>16, <1>17, <1>18, FrameInv

\* The closure goes on to another step.
LEMMA ClosureAtMoves ==
  ASSUME IInv, NEW at \in ClosePlaces, at # "none", NEW next \in ClosePlaces, next # "none", ClosureAt(at, next)
  PROVE  closing' \in [sock : Nat, at : ClosePlaces] /\ closing' # NoClosure /\ closing # NoClosure
<1>1. closing \in [sock : Nat, at : ClosePlaces] /\ closing.at = at BY DEF IInv, Typed, ClosureAt
<1>2. closing' = [closing EXCEPT !.at = next] BY DEF ClosureAt
<1>3. closing' \in [sock : Nat, at : ClosePlaces] /\ closing'.at = next BY <1>1, <1>2
<1> QED BY <1>1, <1>3 DEF NoClosure

\* cancelAll wakes the loops that wait on the number.
LEMMA CloseCancelsInv ==
  ASSUME IInv, NEW at \in ClosePlaces, at # "none", NEW next \in ClosePlaces, next # "none", CloseCancels(at, next)
  PROVE  IInv'
<1> DEFINE W == Cancelled({m_socks[closing.sock]})
<1>1. /\ loops' = Woken(loops, W) /\ tasks' = tasks \o SetToSeq(W)
      /\ W \subseteq DOMAIN loops /\ \A l \in W : loops[l].pc = "wait"
  <2>1. loops' = Woken(loops, W) /\ tasks' = tasks \o SetToSeq(W) BY DEF CloseCancels, CancelAll
  <2>2. W \subseteq DOMAIN loops /\ \A l \in W : loops[l].pc = "wait" BY DEF Cancelled
  <2> QED BY <2>1, <2>2
<1> HIDE DEF W
<1>2. /\ ClosureAt(at, next) /\ fault' = "none" /\ open' = open
      /\ UNCHANGED <<program, called, owned, m_socks, addr, fd, hasty>>
  BY DEF CloseCancels, ClosureAt, CancelAll, user, server, ghosts
<1>3. WorkTyped /\ QueueOK /\ loops \in Seq(LoopRec) /\ DOMAIN loops = 1..Len(loops) BY DEF IInv, WorkTyped
<1>4. W \in SUBSET (1..Len(loops)) BY <1>1, <1>3
<1>5. /\ loops' \in Seq(LoopRec) /\ Len(loops') = Len(loops)
      /\ tasks' \in Seq(Nat) /\ (\A p \in 1..Len(tasks') : tasks'[p] <= Len(loops'))
      /\ (\A l \in 1..Len(loops) :
           loops'[l].sock = loops[l].sock /\ (loops[l].pc = "done" => loops'[l].pc = "done"))
      /\ QueueOK'
  BY <1>1, <1>3, <1>4, WakeQueue
<1>6. closing' \in [sock : Nat, at : ClosePlaces] /\ closing' # NoClosure BY <1>2, ClosureAtMoves
<1>7. called' \in Nat /\ called' <= Len(program') BY <1>2 DEF IInv, Typed
<1> QED BY <1>2, <1>5, <1>6, <1>7, FrameInv

LEMMA CloseInv == ASSUME IInv, Close PROVE IInv'
<1>1. CASE CloseCancels("cancel", "close")
  <2>1. "cancel" \in ClosePlaces /\ "close" \in ClosePlaces BY DEF ClosePlaces
  <2> QED BY <1>1, <2>1, CloseCancelsInv
<1>2. CASE CloseCancels("close", "del")
  <2>1. "close" \in ClosePlaces /\ "del" \in ClosePlaces BY DEF ClosePlaces
  <2> QED BY <1>2, <2>1, CloseCancelsInv
<1>3. CASE CloseForgets \/ CloseFd
  <2>1. /\ fault' = "none" /\ open' \subseteq open
        /\ UNCHANGED <<program, called, owned, m_socks, addr, fd, hasty, loops, tasks>>
    BY <1>3 DEF CloseForgets, CloseFd, ClosureAt, user, server, ghosts
  <2>2. closing' \in [sock : Nat, at : ClosePlaces] /\ closing' # NoClosure
    <3>1. {"del", "close_f", "unset"} \subseteq ClosePlaces BY DEF ClosePlaces
    <3>2. ClosureAt("del", "close_f") \/ ClosureAt("close_f", "unset") BY <1>3 DEF CloseForgets, CloseFd
    <3> QED BY <3>1, <3>2, ClosureAtMoves
  <2>3. called' \in Nat /\ called' <= Len(program') BY <2>1 DEF IInv, Typed
  <2> QED BY <2>1, <2>2, <2>3, StillInv
<1>4. CASE CloseNext
  <2>1. /\ fault' = "none" /\ open' = open /\ closing' = [sock |-> closing.sock + 1, at |-> "cancel"]
        /\ UNCHANGED <<program, called, owned, m_socks, addr, fd, hasty, loops, tasks>>
    BY <1>4 DEF CloseNext, user, server, sockets, ghosts
  <2>2. closing' \in [sock : Nat, at : ClosePlaces] /\ closing' # NoClosure
    <3>1. closing.sock + 1 \in Nat BY DEF IInv, Typed
    <3> QED BY <2>1, <3>1 DEF ClosePlaces, NoClosure
  <2>3. called' \in Nat /\ called' <= Len(program') BY <2>1 DEF IInv, Typed
  <2> QED BY <2>1, <2>2, <2>3, StillInv
<1>5. CASE CloseEnd
  <2>1. /\ fault' = "none" /\ open' = open /\ closing' = NoClosure /\ m_socks' = <<>>
        /\ UNCHANGED <<program, called, owned, addr, fd, hasty, loops, tasks>>
    BY <1>5 DEF CloseEnd, user, sockets, ghosts
  <2>2. closing' \in [sock : Nat, at : ClosePlaces] BY <2>1 DEF ClosePlaces, NoClosure
  <2>3. called' \in Nat /\ called' <= Len(program') BY <2>1 DEF IInv, Typed
  <2>4. \A i \in 1..Len(m_socks') : FALSE BY <2>1
  <2> QED BY <2>1, <2>2, <2>3, <2>4, StillInv
<1> QED BY <1>1, <1>2, <1>3, <1>4, <1>5 DEF Close

LEMMA StopInv == ASSUME IInv, Stop PROVE IInv'
<1>1. /\ fault' = "none" /\ program' = program /\ called' \in Nat /\ called' <= Len(program')
      /\ tasks' = Append(tasks, CLOSURE)
      /\ UNCHANGED <<owned, m_socks, addr, fd, open, loops, closing, hasty>>
  BY CallTyped DEF IInv, Stop, sockets, ghosts
<1>2. tasks \in Seq(Nat) /\ Len(tasks) \in Nat BY DEF IInv, WorkTyped
<1>3. /\ tasks' \in Seq(Nat) /\ Len(tasks') = Len(tasks) + 1 /\ tasks'[Len(tasks) + 1] = CLOSURE
      /\ \A p \in 1..Len(tasks) : tasks'[p] = tasks[p]
  BY <1>1, <1>2 DEF CLOSURE
<1>4. \A p \in 1..Len(tasks') : p \in 1..Len(tasks) \/ p = Len(tasks) + 1 BY <1>2, <1>3
<1>5. \A p \in 1..Len(tasks') : tasks'[p] <= Len(loops')
  <2>1. loops' = loops /\ Len(loops) \in Nat BY <1>1 DEF IInv, WorkTyped
  <2>2. \A p \in 1..Len(tasks) : tasks[p] <= Len(loops) BY DEF IInv, WorkTyped
  <2>3. CLOSURE <= Len(loops) BY <2>1 DEF CLOSURE
  <2> QED BY <2>1, <2>2, <2>3, <1>3, <1>4
<1>6. QueueOK' BY <1>1, <1>3, <1>4 DEF IInv, QueueOK
<1>7. /\ loops' \in Seq(LoopRec) /\ Len(loops') = Len(loops)
      /\ \A l \in 1..Len(loops) : loops'[l].sock = loops[l].sock /\ (loops[l].pc = "done" => loops'[l].pc = "done")
  BY <1>1 DEF IInv, WorkTyped
<1>8. owned' /\ closing' = NoClosure => \A i \in 1..Len(m_socks') : m_socks'[i] \in open'
  BY <1>1 DEF IInv, SocksOK
<1>9. closing' \in [sock : Nat, at : ClosePlaces] BY <1>1 DEF IInv, Typed
<1> QED BY <1>1, <1>3, <1>5, <1>6, <1>7, <1>8, <1>9, FrameInv

\* Only a start() adds loops.  If no loop is left and no closure is to come, the
\* new ones have the open sockets of m_socks, each once.
LEMMA StartInv == ASSUME IInv, Start PROVE IInv'
<1>1. /\ fault' = "none" /\ closing = NoClosure /\ program' = program /\ called' \in Nat /\ called' <= Len(program')
      /\ owned /\ UNCHANGED <<owned, m_socks, addr, fd, open, closing>>
      /\ hasty' = (hasty \/ (m_isStop /\ (Live # {} \/ ClosurePending)))
  BY CallTyped DEF IInv, Start, sockets
<1>2. CASE ~m_isStop
  <2>1. UNCHANGED <<loops, tasks>> BY <1>2 DEF Start
  <2>2. hasty' = hasty BY <1>1, <1>2 DEF IInv, Typed
  <2> QED BY <1>1, <2>1, <2>2, QuietInv
<1>3. CASE m_isStop
  <2> DEFINE more == [i \in DOMAIN m_socks |-> [sock |-> m_socks[i], pc |-> "new"]]
             fibers == [i \in DOMAIN m_socks |-> Len(loops) + i]
  <2>1. loops' = loops \o more /\ tasks' = tasks \o fibers
    BY <1>3 DEF Start, Launch
  <2>2. m_socks \in Seq(Nat) /\ loops \in Seq(LoopRec) /\ tasks \in Seq(Nat)
    BY DEF IInv, Typed, WorkTyped
  <2>3. PICK n \in Nat, L \in Nat, T \in Nat : n = Len(m_socks) /\ L = Len(loops) /\ T = Len(tasks)
    BY <2>2
  <2>4. DOMAIN m_socks = 1..n BY <2>2, <2>3
  <2>5. more \in Seq(LoopRec) /\ Len(more) = n /\ \A i \in 1..n : more[i].sock = m_socks[i] /\ more[i].pc = "new"
    <3>1. \A i \in 1..n : m_socks[i] \in Nat BY <2>2, <2>3
    <3>2. more \in [1..n -> LoopRec] BY <2>4, <3>1 DEF LoopRec, Places
    <3>3. \A i \in 1..n : more[i].sock = m_socks[i] /\ more[i].pc = "new" BY <2>4
    <3> HIDE DEF more
    <3> QED BY <3>2, <3>3, FunIsSeq
  <2>6. fibers \in Seq(Nat) /\ Len(fibers) = n /\ \A i \in 1..n : fibers[i] = L + i
    <3>1. fibers \in [1..n -> Nat] /\ \A i \in 1..n : fibers[i] = L + i BY <2>3, <2>4
    <3> HIDE DEF fibers
    <3> QED BY <3>1, FunIsSeq
  <2> HIDE DEF more, fibers
  <2>7. /\ loops' \in Seq(LoopRec) /\ Len(loops') = L + n
        /\ \A l \in 1..L : loops'[l] = loops[l]
        /\ \A l \in 1..L + n : l > L => l - L \in 1..n /\ loops'[l].sock = m_socks[l - L] /\ loops'[l].pc = "new"
    <3>1. /\ loops' \in Seq(LoopRec) /\ Len(loops') = L + n
          /\ \A l \in 1..L : loops'[l] = loops[l]
          /\ \A l \in 1..L + n : l > L => l - L \in 1..n /\ loops'[l] = more[l - L]
      <4>1. loops' = loops \o more /\ L = Len(loops) /\ n = Len(more) BY <2>1, <2>3, <2>5
      <4> QED BY <4>1, <2>2, <2>5
    <3> QED BY <3>1, <2>5
  <2>8. /\ tasks' \in Seq(Nat) /\ Len(tasks') = T + n
        /\ \A p \in 1..T : tasks'[p] = tasks[p]
        /\ \A p \in 1..T + n : p > T => p - T \in 1..n /\ tasks'[p] = L + (p - T)
    <3>1. /\ tasks' \in Seq(Nat) /\ Len(tasks') = T + n
          /\ \A p \in 1..T : tasks'[p] = tasks[p]
          /\ \A p \in 1..T + n : p > T => p - T \in 1..n /\ tasks'[p] = fibers[p - T]
      <4>1. tasks' = tasks \o fibers /\ T = Len(tasks) /\ n = Len(fibers) BY <2>1, <2>3, <2>6
      <4> QED BY <4>1, <2>2, <2>6
    <3> QED BY <3>1, <2>6
  <2>9. /\ \A p \in 1..T : tasks[p] \in Nat /\ tasks[p] <= L
        /\ \A l \in 1..L : loops[l].sock \in 1..Len(addr)
        /\ \A i \in 1..n : m_socks[i] \in 1..Len(addr)
    BY <2>3 DEF IInv, Typed, WorkTyped
  <2>10. Typed'
    <3>1. hasty' \in BOOLEAN BY <1>1
    <3> QED BY <1>1, <3>1 DEF IInv, Typed
  <2>11. WorkTyped'
    <3>1. \A l \in 1..L + n : loops'[l].sock \in 1..Len(addr)
      <4> TAKE l \in 1..L + n
      <4>1. CASE l \in 1..L BY <4>1, <2>7, <2>9
      <4>2. CASE l > L BY <4>2, <2>7, <2>9
      <4> QED BY <4>1, <4>2
    <3>2. \A p \in 1..T + n : tasks'[p] <= L + n
      <4> TAKE p \in 1..T + n
      <4>1. CASE p \in 1..T BY <4>1, <2>8, <2>9
      <4>2. CASE p > T BY <4>2, <2>8
      <4> QED BY <4>1, <4>2
    <3> QED BY <1>1, <2>7, <2>8, <3>1, <3>2 DEF WorkTyped
  <2>12. QueueOK'
    <3> SUFFICES ASSUME NEW p \in 1..T + n, tasks'[p] # CLOSURE
                 PROVE  /\ loops'[tasks'[p]].pc \in {"new", "ready"}
                        /\ \A q \in 1..T + n : tasks'[p] = tasks'[q] => p = q
      BY <2>8 DEF QueueOK
    <3>1. CASE p \in 1..T
      <4>1. tasks[p] \in 1..L /\ tasks'[p] = tasks[p] BY <3>1, <2>8, <2>9 DEF CLOSURE
      <4>2. loops[tasks[p]].pc \in {"new", "ready"} /\ \A q \in 1..T : tasks[p] = tasks[q] => p = q
        BY <3>1, <4>1, <2>3 DEF IInv, QueueOK
      <4>3. \A q \in 1..T + n : tasks'[p] = tasks'[q] => q \in 1..T BY <4>1, <2>8
      <4> QED BY <4>1, <4>2, <4>3, <2>7, <2>8
    <3>2. CASE p > T
      <4>1. tasks'[p] = L + (p - T) /\ tasks'[p] \in 1..L + n /\ tasks'[p] > L BY <3>2, <2>8
      <4>2. ASSUME NEW q \in 1..T + n, tasks'[p] = tasks'[q] PROVE q > T
        <5>1. SUFFICES ASSUME q \in 1..T PROVE FALSE OBVIOUS
        <5>2. tasks'[q] = tasks[q] /\ tasks[q] <= L /\ tasks[q] \in Nat BY <5>1, <2>8, <2>9
        <5> QED BY <5>2, <4>1, <4>2
      <4> QED BY <3>2, <4>1, <4>2, <2>7, <2>8
    <3> QED BY <3>1, <3>2
  <2>13. SocksOK' BY <1>1 DEF IInv, SocksOK
  <2>14. LoopsOK'
    <3> SUFFICES ASSUME ~hasty', NEW k \in 1..L + n, NEW l \in 1..L + n,
                        loops'[k].pc # "done", loops'[l].pc # "done", fd[loops'[k].sock] = fd[loops'[l].sock]
                 PROVE  k = l
      BY <1>1, <2>7 DEF LoopsOK
    <3>1. Live = {} BY <1>1, <1>3
    <3>2. \A j \in 1..L : loops[j].pc = "done" BY <3>1, <2>2, <2>3 DEF Live
    <3>3. k > L /\ l > L BY <3>2, <2>7
    <3>4. PICK i \in 1..n, j \in 1..n : i = k - L /\ j = l - L /\ loops'[k].sock = m_socks[i] /\ loops'[l].sock = m_socks[j]
      BY <3>3, <2>7
    <3>5. m_socks[i] \in open /\ m_socks[j] \in open BY <1>1, <2>3 DEF IInv, SocksOK
    <3>6. m_socks[i] = m_socks[j] BY <3>4, <3>5 DEF IInv, SocksOK
    <3>7. i = j BY <3>6, <2>3 DEF IInv, SocksOK
    <3> QED BY <3>4, <3>7
  <2> QED BY <1>1, <2>10, <2>11, <2>12, <2>13, <2>14 DEF IInv, NoTwoWaiters
<1> QED BY <1>2, <1>3

\* The new sockets get numbers no open socket has.
LEMMA BindInv == ASSUME IInv, Bind PROVE IInv'
<1> DEFINE addrs == Args.addrs
           new == [i \in DOMAIN addrs |-> Len(addr) + i]
           free == {num \in Fds : Owners(num) = {}}
<1>1. /\ fault' = "none" /\ Args \in Calls /\ Args.op = "bind" /\ program' = program
      /\ called' \in Nat /\ called' <= Len(program')
      /\ UNCHANGED <<owned, loops, tasks, closing, hasty>>
  BY CallTyped DEF IInv, Bind, worker, ghosts
<1>2. addrs \in Seq(Addresses) BY <1>1 DEF Calls
<1>3. PICK nums \in [DOMAIN addrs -> free] : IsInjective(nums) /\ fd' = fd \o nums BY DEF Bind
<1>4. addr' = addr \o addrs /\ m_socks' = m_socks \o new /\ open' = open \cup Range(new)
  BY DEF Bind
<1>5. PICK A \in Nat, n \in Nat, M \in Nat : A = Len(addr) /\ n = Len(addrs) /\ M = Len(m_socks)
  BY <1>2 DEF IInv, Typed
<1>6. /\ addr \in Seq(Addresses) /\ fd \in Seq(Fds) /\ Len(fd) = A /\ m_socks \in Seq(Nat)
      /\ open \subseteq 1..A /\ \A i \in 1..M : m_socks[i] \in 1..A
  BY <1>5 DEF IInv, Typed
<1>7. DOMAIN addrs = 1..n BY <1>2, <1>5
<1>8. new \in [1..n -> Nat] /\ \A i \in 1..n : new[i] = A + i BY <1>5, <1>7
<1>9. /\ nums \in [1..n -> Fds]
      /\ \A i \in 1..n : \A s \in open : fd[s] # nums[i]
      /\ \A i, j \in 1..n : nums[i] = nums[j] => i = j
  <2>1. \A i \in 1..n : nums[i] \in Fds /\ Owners(nums[i]) = {} BY <1>3, <1>7
  <2>2. nums \in [1..n -> Fds] BY <1>3, <1>7
  <2>3. \A i, j \in 1..n : nums[i] = nums[j] => i = j BY <1>3, <1>7 DEF IsInjective
  <2> QED BY <2>1, <2>2, <2>3 DEF Owners
<1> HIDE DEF addrs, new, free
<1>10. new \in Seq(Nat) /\ Len(new) = n BY <1>8, FunIsSeq
<1>11. nums \in Seq(Fds) /\ Len(nums) = n BY <1>9, FunIsSeq
<1>12. addr' \in Seq(Addresses) /\ Len(addr') = A + n BY <1>2, <1>4, <1>5, <1>6
<1>13. /\ fd' \in Seq(Fds) /\ Len(fd') = A + n
       /\ \A s \in 1..A : fd'[s] = fd[s]
       /\ \A i \in 1..n : fd'[A + i] = nums[i]
  <2>1. fd' \in Seq(Fds) BY <1>3, <1>6, <1>11
  <2>2. Len(fd') = A + n
    <3>1. Len(fd \o nums) = Len(fd) + Len(nums) BY <1>6, <1>11
    <3> QED BY <3>1, <1>3, <1>6, <1>11
  <2>3. \A s \in 1..A : fd'[s] = fd[s] BY <1>3, <1>6, <1>11
  <2>4. \A i \in 1..n : fd'[A + i] = nums[i] BY <1>3, <1>6, <1>11
  <2> QED BY <2>1, <2>2, <2>3, <2>4
<1>14. /\ m_socks' \in Seq(Nat) /\ Len(m_socks') = M + n
       /\ \A i \in 1..M : m_socks'[i] = m_socks[i]
       /\ \A i \in 1..M + n : i > M => i - M \in 1..n /\ m_socks'[i] = A + (i - M)
  <2>1. m_socks' \in Seq(Nat) BY <1>4, <1>6, <1>10
  <2>2. Len(m_socks') = M + n
    <3>3. m_socks \in Seq(Nat) /\ new \in Seq(Nat) BY <1>6, <1>10
    <3>1. Len(m_socks \o new) = Len(m_socks) + Len(new) BY <3>3
    <3> QED BY <3>1, <1>4, <1>5, <1>10
  <2>3. \A i \in 1..M : m_socks'[i] = m_socks[i] BY <1>4, <1>5, <1>6, <1>10
  <2>4. \A i \in 1..M + n : i > M => i - M \in 1..n /\ m_socks'[i] = new[i - M]
    BY <1>4, <1>5, <1>6, <1>10
  <2> QED BY <2>1, <2>2, <2>3, <2>4, <1>8
<1>15. \A s \in open' : s \in open \/ \E i \in 1..n : s = A + i
  <2>1. \A s \in Range(new) : \E i \in 1..n : s = A + i BY <1>8 DEF Range
  <2> QED BY <2>1, <1>4
<1>16. \A i \in 1..n : A + i \in open' BY <1>4, <1>8 DEF Range
<1>17. open' \subseteq 1..A + n
  <2> SUFFICES ASSUME NEW s \in open' PROVE s \in 1..A + n OBVIOUS
  <2>1. CASE s \in open BY <2>1, <1>6
  <2>2. CASE \E i \in 1..n : s = A + i BY <2>2
  <2> QED BY <2>1, <2>2, <1>15
<1>18. \A i \in 1..M + n : m_socks'[i] \in 1..A + n
  <2> TAKE i \in 1..M + n
  <2>1. CASE i \in 1..M
    <3>1. m_socks'[i] = m_socks[i] BY <2>1, <1>14
    <3>2. m_socks[i] \in 1..A BY <2>1, <1>6
    <3> QED BY <3>1, <3>2
  <2>2. CASE i > M BY <2>2, <1>14
  <2> QED BY <2>1, <2>2
<1>19. Typed'
  <2>1. \A i \in 1..Len(m_socks') : m_socks'[i] \in 1..Len(addr') BY <1>12, <1>14, <1>18
  <2>2. closing' \in [sock : Nat, at : ClosePlaces] /\ hasty' \in BOOLEAN /\ program' \in Seq(Calls)
    BY <1>1 DEF IInv, Typed
  <2>3. open' \subseteq 1..Len(addr') BY <1>12, <1>17
  <2>4. Len(fd') = Len(addr') BY <1>12, <1>13
  <2> QED BY <1>1, <1>12, <1>13, <1>14, <2>1, <2>2, <2>3, <2>4 DEF Typed
<1>20. \A l \in 1..Len(loops) : loops[l].sock \in 1..A BY <1>5 DEF IInv, WorkTyped
<1>21. WorkTyped'
  <2>1. \A l \in 1..Len(loops') : loops'[l].sock \in 1..Len(addr') BY <1>1, <1>12, <1>20
  <2> QED BY <1>1, <2>1 DEF IInv, WorkTyped
<1>22. QueueOK' BY <1>1 DEF IInv, QueueOK
<1>23. SocksOK'
  <2>1. ASSUME owned', closing' = NoClosure, NEW i \in 1..M + n PROVE m_socks'[i] \in open'
    <3>1. CASE i \in 1..M
      <4>1. m_socks[i] \in open BY <1>1, <1>5, <2>1, <3>1 DEF IInv, SocksOK
      <4> QED BY <4>1, <3>1, <1>4, <1>14
    <3>2. CASE i > M BY <3>2, <1>14, <1>16
    <3> QED BY <3>1, <3>2
  <2>2. ASSUME NEW i \in 1..M + n, NEW j \in 1..M + n, m_socks'[i] = m_socks'[j] PROVE i = j
    <3>1. ASSUME NEW h \in 1..M PROVE m_socks'[h] \in Nat /\ m_socks'[h] <= A
      <4>1. m_socks'[h] = m_socks[h] BY <1>14
      <4>2. m_socks[h] \in 1..A BY <1>6
      <4> QED BY <4>1, <4>2
    <3>2. \A h \in 1..M + n : h > M => m_socks'[h] = A + (h - M) /\ m_socks'[h] > A BY <1>14
    <3>3. CASE i \in 1..M /\ j \in 1..M BY <3>3, <2>2, <1>5, <1>14 DEF IInv, SocksOK
    <3>4. CASE i > M /\ j > M
      <4>1. A + (i - M) = A + (j - M) BY <3>4, <2>2, <3>2
      <4> QED BY <4>1
    <3>5. CASE i \in 1..M /\ j > M BY <3>5, <2>2, <3>1, <3>2
    <3>6. CASE i > M /\ j \in 1..M BY <3>6, <2>2, <3>1, <3>2
    <3> QED BY <3>3, <3>4, <3>5, <3>6
  <2>3. ASSUME NEW s \in open', NEW t \in open', fd'[s] = fd'[t] PROVE s = t
    <3>1. \A r \in open : fd'[r] = fd[r] BY <1>6, <1>13
    <3>2. CASE s \in open /\ t \in open BY <3>2, <2>3, <3>1 DEF IInv, SocksOK
    <3>3. CASE s \in open /\ \E i \in 1..n : t = A + i
      <4>1. PICK i \in 1..n : t = A + i BY <3>3
      <4>2. fd'[s] = fd[s] /\ fd'[t] = nums[i] BY <3>3, <4>1, <3>1, <1>13
      <4>3. fd[s] # nums[i] BY <3>3, <1>9
      <4> QED BY <4>2, <4>3, <2>3
    <3>4. CASE t \in open /\ \E i \in 1..n : s = A + i
      <4>1. PICK i \in 1..n : s = A + i BY <3>4
      <4>2. fd'[t] = fd[t] /\ fd'[s] = nums[i] BY <3>4, <4>1, <3>1, <1>13
      <4>3. fd[t] # nums[i] BY <3>4, <1>9
      <4> QED BY <4>2, <4>3, <2>3
    <3>5. CASE (\E i \in 1..n : s = A + i) /\ \E i \in 1..n : t = A + i
      <4>1. PICK i \in 1..n, j \in 1..n : s = A + i /\ t = A + j BY <3>5
      <4>2. nums[i] = nums[j] BY <4>1, <2>3, <1>13
      <4> QED BY <4>1, <4>2, <1>9
    <3> QED BY <3>2, <3>3, <3>4, <3>5, <1>15
  <2> QED BY <2>1, <2>2, <2>3, <1>14 DEF SocksOK
<1>24. LoopsOK'
  <2>1. \A l \in 1..Len(loops) : fd'[loops[l].sock] = fd[loops[l].sock] BY <1>13, <1>20
  <2> QED BY <2>1, <1>1 DEF IInv, LoopsOK
<1> QED BY <1>1, <1>19, <1>21, <1>22, <1>23, <1>24 DEF IInv, NoTwoWaiters

LEMMA NextInv == ASSUME IInv, [Next]_vars PROVE IInv'
<1>1. CASE Race("bind") \/ Race("start") BY <1>1, RaceInv
<1>2. CASE Bind BY <1>2, BindInv
<1>3. CASE BindFails BY <1>3, BindFailsInv
<1>4. CASE Start BY <1>4, StartInv
<1>5. CASE Stop BY <1>5, StopInv
<1>6. CASE Release BY <1>6, ReleaseInv
<1>7. CASE Servlet \/ DelServlet \/ GlobServlet \/ DelGlobServlet BY <1>7, ServletInv
<1>8. CASE RunTask BY <1>8, RunTaskInv
<1>9. CASE Close BY <1>9, CloseInv
<1>10. CASE Loop BY <1>10, TestInv, EnterInv, AcceptInv, ArmInv DEF Loop, LoopStep
<1>11. CASE Poll BY <1>11, ReadyInv DEF Poll
<1>12. CASE Handle BY <1>12, HandleInv DEF Handle
<1>13. CASE \E c \in Conns : Connect(c) BY <1>13, ConnectInv
<1>14. CASE UNCHANGED vars
  <2>1. UNCHANGED <<program, called, owned, addr, fd, hasty, loops, tasks, open, m_socks, closing, fault>>
    BY <1>14 DEF vars, user, server, sockets, worker, ghosts
  <2>2. called' \in Nat /\ called' <= Len(program') BY <2>1 DEF IInv, Typed
  <2>3. fault' = "assert" => hasty' BY <2>1 DEF IInv, NoTwoWaiters
  <2> QED BY <2>1, <2>2, <2>3, QuietInv
<1>15. CASE Done BY <1>14, <1>15 DEF Done
<1> QED BY <1>1, <1>2, <1>3, <1>4, <1>5, <1>6, <1>7, <1>8, <1>9, <1>10, <1>11, <1>12, <1>13, <1>14, <1>15 DEF Next

\* Whatever sequence of bind, start, stop and release the user calls, on however many
\* threads the accept worker runs and whichever free number a bind() gets, the one
\* of a socket just closed included: IOManager::addEvent's assertion does not fail
\* in an accept loop, unless some start() came before the loops of an earlier one
\* had ended and the closures of the stop() calls had run.
THEOREM ServerNoTwoWaiters == Spec => []NoTwoWaiters
<1>1. IInv => NoTwoWaiters BY DEF IInv
<1> QED BY InitInv, NextInv, <1>1, PTL DEF Spec

-----------------------------------------------------------------------------
(* The dispatch of servlets.                                                 *)

\* The list of patterns and the calls that stand for it: an entry for each of the
\* calls S of the program prog, in the order of the calls.
Mirrors(prog, globs, S) ==
  /\ globs \in Seq([uri : Uris, slt : Servlets]) /\ S \subseteq Nat
  /\ \A i, j \in S : prog[i].uri = prog[j].uri => i = j
  /\ \A p \in 1..Len(globs) : \E i \in S : prog[i].uri = globs[p].uri /\ prog[i].slt = globs[p].slt
  /\ \A i \in S : \E p \in 1..Len(globs) : globs[p].uri = prog[i].uri
  /\ \A p, q \in 1..Len(globs) : \A i, j \in S :
       prog[i].uri = globs[p].uri /\ prog[j].uri = globs[q].uri => (p < q <=> i < j)

\* The calls of addGlobServlet that were not replaced or undone since.
GlobCalls ==
  {i \in 1..called : program[i].op = "addGlobServlet" /\ i \in Standing("addGlobServlet", "delGlobServlet", program[i].uri)}

DispatchOK ==
  /\ \A u \in Uris : u \in DOMAIN m_datas <=> Standing("addServlet", "delServlet", u) # {}
  /\ \A u \in DOMAIN m_datas : \A i \in Standing("addServlet", "delServlet", u) : m_datas[u] = program[i].slt
  /\ Mirrors(program, m_globs, GlobCalls)

\* A nonempty set of natural numbers has a least element.
LEMMA LeastOfNat ==
  ASSUME NEW S, S \subseteq Nat, S # {}
  PROVE  Min(S) \in S /\ \A y \in S : Min(S) <= y
<1> DEFINE R == OpToRel(<, Nat)
<1>1. \A x, y \in Nat : <<y, x>> \in R <=> y < x BY DEF OpToRel
<1>2. IsWellFoundedOn(R, Nat) BY NatLessThanWellFounded
<1> HIDE DEF R
<1>3. PICK x \in S : \A y \in S : ~(<<y, x>> \in R) BY <1>2, WFMin
<1>4. ASSUME NEW y \in S PROVE x <= y
  <2>1. x \in Nat /\ y \in Nat /\ ~(<<y, x>> \in R) BY <1>3
  <2>2. ~(y < x) BY <2>1, <1>1
  <2> QED BY <2>1, <2>2
<1> QED BY <1>3, <1>4 DEF Min

\* What Erased leaves: everything but the one entry for the pattern, if there is
\* one, in the order it had.
LEMMA ErasedFacts ==
  ASSUME NEW G, NEW globs \in Seq(G), NEW u,
         \A p, q \in 1..Len(globs) : globs[p].uri = globs[q].uri => p = q
  PROVE  /\ Erased(globs, u) \in Seq(G)
         /\ \/ Erased(globs, u) = globs /\ \A p \in 1..Len(globs) : globs[p].uri # u
            \/ \E i \in 1..Len(globs) :
                 /\ globs[i].uri = u /\ Len(Erased(globs, u)) = Len(globs) - 1
                 /\ \A p \in 1..Len(globs) - 1 : Erased(globs, u)[p] = IF p < i THEN globs[p] ELSE globs[p + 1]
<1> DEFINE I == {p \in 1..Len(globs) : globs[p].uri = u}
<1>1. Erased(globs, u) = IF (IF I # {} THEN Min(I) ELSE 0) = 0 THEN globs
                         ELSE RemoveAt(globs, IF I # {} THEN Min(I) ELSE 0)
  BY DEF Erased, SelectInSeq
<1>2. Len(globs) \in Nat OBVIOUS
<1>3. CASE I = {} BY <1>1, <1>3
<1>4. CASE I # {}
  <2>1. I \subseteq Nat BY <1>2
  <2>2. Min(I) \in I BY <2>1, <1>4, LeastOfNat
  <2>3. PICK i \in 1..Len(globs) : i = Min(I) /\ globs[i].uri = u BY <2>2
  <2> HIDE DEF I
  <2>4. Erased(globs, u) = RemoveAt(globs, i) BY <1>1, <1>4, <2>3
  <2>5. RemoveAt(globs, i) = SubSeq(globs, 1, i - 1) \o SubSeq(globs, i + 1, Len(globs)) BY DEF RemoveAt
  <2> DEFINE a == SubSeq(globs, 1, i - 1)
             b == SubSeq(globs, i + 1, Len(globs))
  <2>6. a \in Seq(G) /\ Len(a) = i - 1 /\ \A p \in 1..i - 1 : a[p] = globs[p] BY <2>3
  <2>7. b \in Seq(G) /\ Len(b) = Len(globs) - i /\ \A p \in 1..Len(globs) - i : b[p] = globs[i + p] BY <2>3
  <2> HIDE DEF a, b
  <2>8. a \o b \in Seq(G) /\ Len(a \o b) = Len(globs) - 1 BY <2>6, <2>7, <1>2
  <2>9. ASSUME NEW p \in 1..Len(globs) - 1
        PROVE  (a \o b)[p] = IF p < i THEN globs[p] ELSE globs[p + 1]
    <3>1. CASE p < i BY <3>1, <2>6, <2>7
    <3>2. CASE p >= i
      <4>1. (a \o b)[p] = b[p - (i - 1)] BY <3>2, <2>6, <2>7, <1>2
      <4>2. p - (i - 1) \in 1..Len(globs) - i /\ i + (p - (i - 1)) = p + 1 BY <3>2, <1>2
      <4> QED BY <3>2, <4>1, <4>2, <2>7
    <3>3. p < i \/ p >= i BY <1>2
    <3> HIDE DEF a, b
    <3> QED BY <3>1, <3>2, <3>3
  <2>10. Erased(globs, u) = a \o b BY <2>4, <2>5 DEF a, b
  <2> QED BY <2>3, <2>8, <2>9, <2>10
<1> QED BY <1>3, <1>4

LEMMA MirrorsErased ==
  ASSUME NEW prog, NEW globs, NEW S, NEW u, Mirrors(prog, globs, S)
  PROVE  Mirrors(prog, Erased(globs, u), {i \in S : prog[i].uri # u})
<1> DEFINE G == [uri : Uris, slt : Servlets]
           e == Erased(globs, u)
           E == {i \in S : prog[i].uri # u}
<1>1. /\ globs \in Seq(G) /\ S \subseteq Nat /\ Len(globs) \in Nat
      /\ \A i, j \in S : prog[i].uri = prog[j].uri => i = j
      /\ \A p \in 1..Len(globs) : \E i \in S : prog[i].uri = globs[p].uri /\ prog[i].slt = globs[p].slt
      /\ \A i \in S : \E p \in 1..Len(globs) : globs[p].uri = prog[i].uri
      /\ \A p, q \in 1..Len(globs) : \A i, j \in S :
           prog[i].uri = globs[p].uri /\ prog[j].uri = globs[q].uri => (p < q <=> i < j)
  BY DEF Mirrors
<1> HIDE DEF G
<1>2. \A p, q \in 1..Len(globs) : globs[p].uri = globs[q].uri => p = q BY <1>1
<1>3. /\ e \in Seq(G)
      /\ \/ e = globs /\ \A p \in 1..Len(globs) : globs[p].uri # u
         \/ \E i \in 1..Len(globs) :
              /\ globs[i].uri = u /\ Len(e) = Len(globs) - 1
              /\ \A p \in 1..Len(globs) - 1 : e[p] = IF p < i THEN globs[p] ELSE globs[p + 1]
  BY <1>1, <1>2, ErasedFacts
<1> HIDE DEF e
<1>4. CASE e = globs /\ \A p \in 1..Len(globs) : globs[p].uri # u
  <2>1. \A i \in S : prog[i].uri # u BY <1>1, <1>4
  <2>2. E = S BY <2>1
  <2> QED BY <2>2, <1>4 DEF e
<1>5. CASE \E i \in 1..Len(globs) :
              /\ globs[i].uri = u /\ Len(e) = Len(globs) - 1
              /\ \A p \in 1..Len(globs) - 1 : e[p] = IF p < i THEN globs[p] ELSE globs[p + 1]
  <2>1. PICK i \in 1..Len(globs) :
              /\ globs[i].uri = u /\ Len(e) = Len(globs) - 1
              /\ \A p \in 1..Len(globs) - 1 : e[p] = IF p < i THEN globs[p] ELSE globs[p + 1]
    BY <1>5
  <2>2. PICK n \in Nat : n = Len(globs) BY <1>1
  <2> DEFINE up(p) == IF p < i THEN p ELSE p + 1
  <2>3. \A p \in 1..n - 1 : up(p) \in 1..n /\ up(p) # i /\ e[p] = globs[up(p)] BY <2>1, <2>2
  <2>4. \A p, q \in 1..n - 1 : p < q <=> up(p) < up(q) BY <2>1, <2>2
  <2>5. \A p \in 1..n : p # i => \E q \in 1..n - 1 : up(q) = p
    <3> SUFFICES ASSUME NEW p \in 1..n, p # i PROVE \E q \in 1..n - 1 : up(q) = p OBVIOUS
    <3>1. CASE p < i
      <4>1. p \in 1..n - 1 /\ up(p) = p BY <3>1, <2>1, <2>2
      <4> QED BY <4>1
    <3>2. CASE p > i
      <4>1. p - 1 \in 1..n - 1 /\ up(p - 1) = p BY <3>2, <2>1, <2>2
      <4> QED BY <4>1
    <3> QED BY <3>1, <3>2, <2>1, <2>2
  <2> HIDE DEF up
  <2>6. \A p \in 1..n : globs[p].uri = u <=> p = i BY <1>2, <2>1, <2>2
  <2>7. E \subseteq Nat /\ E \subseteq S /\ \A j \in E : prog[j].uri # u BY <1>1
  <2>8. ASSUME NEW p \in 1..n - 1 PROVE \E j \in E : prog[j].uri = e[p].uri /\ prog[j].slt = e[p].slt
    <3>1. up(p) \in 1..n /\ e[p] = globs[up(p)] /\ globs[up(p)].uri # u BY <2>3, <2>6
    <3>4. \A q \in 1..n : \E j \in S : prog[j].uri = globs[q].uri /\ prog[j].slt = globs[q].slt
      BY <1>1, <2>2
    <3>2. PICK j \in S : prog[j].uri = e[p].uri /\ prog[j].slt = e[p].slt BY <3>1, <3>4, Zenon
    <3>3. j \in E BY <3>1, <3>2
    <3> QED BY <3>2, <3>3
  <2>9. ASSUME NEW j \in E PROVE \E p \in 1..n - 1 : e[p].uri = prog[j].uri
    <3>1. PICK q \in 1..n : globs[q].uri = prog[j].uri BY <2>7, <1>1, <2>2
    <3>2. q # i BY <3>1, <2>6, <2>7
    <3>3. PICK p \in 1..n - 1 : up(p) = q BY <3>2, <2>5
    <3> QED BY <3>1, <3>3, <2>3
  <2>10. ASSUME NEW p \in 1..n - 1, NEW q \in 1..n - 1, NEW j \in E, NEW k \in E,
                prog[j].uri = e[p].uri, prog[k].uri = e[q].uri
         PROVE  p < q <=> j < k
    <3>1. e[p] = globs[up(p)] /\ e[q] = globs[up(q)] /\ up(p) \in 1..n /\ up(q) \in 1..n BY <2>3
    <3>2. up(p) < up(q) <=> j < k BY <3>1, <2>10, <2>7, <1>1, <2>2
    <3> QED BY <3>2, <2>4
  <2>11. \A j, k \in E : prog[j].uri = prog[k].uri => j = k BY <2>7, <1>1
  <2>12. Len(e) = n - 1 BY <2>1, <2>2
  <2> HIDE DEF E
  <2>13. Mirrors(prog, e, E) BY <1>3, <2>7, <2>8, <2>9, <2>10, <2>11, <2>12 DEF Mirrors, G
  <2> QED BY <2>13 DEF e, E
<1> QED BY <1>3, <1>4, <1>5

LEMMA MirrorsAppend ==
  ASSUME NEW prog, NEW globs, NEW S, NEW c \in Nat, NEW g \in [uri : Uris, slt : Servlets],
         Mirrors(prog, globs, S), g.uri = prog[c].uri, g.slt = prog[c].slt,
         \A i \in S : i < c /\ prog[i].uri # prog[c].uri
  PROVE  Mirrors(prog, Append(globs, g), S \cup {c})
<1> DEFINE G == [uri : Uris, slt : Servlets]
           e == Append(globs, g)
           E == S \cup {c}
<1>1. /\ globs \in Seq(G) /\ S \subseteq Nat
      /\ \A i, j \in S : prog[i].uri = prog[j].uri => i = j
      /\ \A p \in 1..Len(globs) : \E i \in S : prog[i].uri = globs[p].uri /\ prog[i].slt = globs[p].slt
      /\ \A i \in S : \E p \in 1..Len(globs) : globs[p].uri = prog[i].uri
      /\ \A p, q \in 1..Len(globs) : \A i, j \in S :
           prog[i].uri = globs[p].uri /\ prog[j].uri = globs[q].uri => (p < q <=> i < j)
  BY DEF Mirrors
<1>2. g \in G OBVIOUS
<1> HIDE DEF G
<1>3. PICK n \in Nat : n = Len(globs) BY <1>1
<1>4. e \in Seq(G) /\ Len(e) = n + 1 /\ e[n + 1] = g /\ \A p \in 1..n : e[p] = globs[p] BY <1>1, <1>2, <1>3
<1> HIDE DEF e
<1>5. \A p \in 1..n + 1 : p \in 1..n \/ p = n + 1 OBVIOUS
<1>6. n + 1 \in 1..n + 1 /\ \A p \in 1..n : p \in 1..n + 1 /\ p < n + 1 /\ ~(n + 1 < p) OBVIOUS
<1>7. \A p \in 1..n : e[p].uri # prog[c].uri BY <1>1, <1>3, <1>4
<1>8. E \subseteq Nat BY <1>1
<1>9. \A i, j \in E : prog[i].uri = prog[j].uri => i = j BY <1>1
<1>10. \A p \in 1..n + 1 : \E i \in E : prog[i].uri = e[p].uri /\ prog[i].slt = e[p].slt
  <2> TAKE p \in 1..n + 1
  <2>1. CASE p \in 1..n
    <3>1. PICK i \in S : prog[i].uri = globs[p].uri /\ prog[i].slt = globs[p].slt BY <2>1, <1>1, <1>3
    <3> QED BY <2>1, <3>1, <1>4
  <2>2. CASE p = n + 1 BY <2>2, <1>4
  <2> QED BY <2>1, <2>2, <1>5
<1>11. \A i \in E : \E p \in 1..n + 1 : e[p].uri = prog[i].uri
  <2> TAKE i \in E
  <2>1. CASE i \in S
    <3>1. PICK p \in 1..n : globs[p].uri = prog[i].uri BY <2>1, <1>1, <1>3
    <3> QED BY <3>1, <1>4, <1>6
  <2>2. CASE i = c BY <2>2, <1>4, <1>6
  <2> QED BY <2>1, <2>2
<1>12. ASSUME NEW p \in 1..n + 1, NEW q \in 1..n + 1, NEW i \in E, NEW j \in E,
              prog[i].uri = e[p].uri, prog[j].uri = e[q].uri
       PROVE  p < q <=> i < j
  <2>1. CASE p \in 1..n /\ q \in 1..n
    <3>1. i \in S /\ j \in S BY <2>1, <1>7, <1>12
    <3> QED BY <2>1, <3>1, <1>1, <1>3, <1>4, <1>12
  <2>2. CASE p \in 1..n /\ q = n + 1
    <3>1. i \in S /\ j = c BY <2>2, <1>4, <1>7, <1>12
    <3> QED BY <2>2, <3>1, <1>6
  <2>3. CASE p = n + 1 /\ q \in 1..n
    <3>1. j \in S /\ i = c BY <2>3, <1>4, <1>7, <1>12
    <3>2. j < c /\ j \in Nat BY <3>1, <1>1
    <3>3. ~(c < j) BY <3>2
    <3> QED BY <2>3, <3>1, <3>3, <1>6
  <2>4. CASE p = n + 1 /\ q = n + 1
    <3>1. j = c /\ i = c BY <2>4, <1>4, <1>12
    <3> QED BY <2>4, <3>1
  <2> QED BY <2>1, <2>2, <2>3, <2>4, <1>5
<1> HIDE DEF E
<1>13. Mirrors(prog, e, E) BY <1>4, <1>8, <1>9, <1>10, <1>11, <1>12 DEF Mirrors, G
<1> QED BY <1>13 DEF e, E

\* What one more call changes of what stands for a path or pattern u.
LEMMA StandingStep ==
  ASSUME Typed, NEW op, Call(op), NEW A, NEW D, A # D, NEW u
  PROVE  /\ (op \notin {A, D} \/ Args.uri # u) => Standing(A, D, u)' = Standing(A, D, u)
         /\ (op = A /\ Args.uri = u) => Standing(A, D, u)' = {called + 1}
         /\ (op = D /\ Args.uri = u) => Standing(A, D, u)' = {}
<1> DEFINE c == called + 1
           old == {i \in 1..called : program[i].op \in {A, D} /\ program[i].uri = u}
           now == {i \in 1..c : program[i].op \in {A, D} /\ program[i].uri = u}
<1>1. called \in Nat /\ called' = c /\ program' = program /\ program[c].op = op /\ Args = program[c]
  BY CallTyped DEF Typed, Args
<1>2. Standing(A, D, u) = {i \in old : program[i].op = A /\ \A j \in old : j <= i} BY DEF Standing
<1>3. Standing(A, D, u)' = {i \in now : program[i].op = A /\ \A j \in now : j <= i} BY <1>1 DEF Standing
<1>4. /\ \A i \in 1..c : i \in 1..called \/ i = c
      /\ \A i \in 1..called : i \in 1..c /\ i <= c /\ ~(c <= i)
      /\ c \in 1..c /\ c <= c
  BY <1>1
<1>5. CASE op \notin {A, D} \/ Args.uri # u
  <2>1. now = old BY <1>5, <1>1, <1>4
  <2>2. Standing(A, D, u)' = Standing(A, D, u) BY <1>2, <1>3, <2>1
  <2>3. ~(op = A /\ Args.uri = u) /\ ~(op = D /\ Args.uri = u) BY <1>5
  <2> QED BY <2>2, <2>3
<1>6. CASE op \in {A, D} /\ Args.uri = u
  <2>1. now = old \cup {c} BY <1>6, <1>1, <1>4
  <2>2. \A i \in old : i \in 1..called OBVIOUS
  <2> HIDE DEF old, now, c
  <2>3. CASE op = A
    <3>1. \A i \in now : (program[i].op = A /\ \A j \in now : j <= i) <=> i = c
      BY <2>1, <2>2, <2>3, <1>1, <1>4
    <3>2. c \in now BY <2>1
    <3> QED BY <3>1, <3>2, <2>3, <1>3, <1>6 DEF c
  <2>4. CASE op = D
    <3>1. \A i \in now : ~(program[i].op = A /\ \A j \in now : j <= i)
      BY <2>1, <2>2, <2>4, <1>1, <1>4
    <3> QED BY <3>1, <2>4, <1>3, <1>6
  <2> QED BY <2>3, <2>4, <1>6
<1> QED BY <1>5, <1>6

\* Of the calls for one path one at most stands.
LEMMA StandingOne ==
  ASSUME Typed, NEW A, NEW D, NEW u, NEW i \in Standing(A, D, u), NEW j \in Standing(A, D, u)
  PROVE  i = j /\ i \in 1..called /\ program[i].op = A /\ program[i].uri = u
<1>1. /\ i \in 1..called /\ j \in 1..called /\ i <= j /\ j <= i
      /\ program[i].op = A /\ program[i].uri = u
  BY DEF Standing
<1> QED BY <1>1 DEF Typed

\* What a call leaves or changes of the calls that stand for the patterns.
LEMMA GlobCallsStep ==
  ASSUME Typed, NEW op, Call(op)
  PROVE  /\ op \notin {"addGlobServlet", "delGlobServlet"} => GlobCalls' = GlobCalls
         /\ op = "delGlobServlet" => GlobCalls' = {i \in GlobCalls : program[i].uri # Args.uri}
         /\ op = "addGlobServlet" => GlobCalls' = {i \in GlobCalls : program[i].uri # Args.uri} \cup {called + 1}
<1> DEFINE c == called + 1
           St(u) == Standing("addGlobServlet", "delGlobServlet", u)
<1>1. called \in Nat /\ called' = c /\ program' = program /\ program[c].op = op /\ Args = program[c]
  BY CallTyped DEF Typed, Args
<1>2. GlobCalls = {i \in 1..called : program[i].op = "addGlobServlet" /\ i \in St(program[i].uri)} BY DEF GlobCalls
<1>3. GlobCalls' = {i \in 1..c : program[i].op = "addGlobServlet" /\ i \in St(program[i].uri)'} BY <1>1 DEF GlobCalls
<1>4. /\ \A i \in 1..c : i \in 1..called \/ i = c
      /\ \A i \in 1..called : i \in 1..c /\ i # c
      /\ c \in 1..c
  BY <1>1
<1>5. \A u : /\ (op \notin {"addGlobServlet", "delGlobServlet"} \/ Args.uri # u) => St(u)' = St(u)
             /\ (op = "addGlobServlet" /\ Args.uri = u) => St(u)' = {c}
             /\ (op = "delGlobServlet" /\ Args.uri = u) => St(u)' = {}
  BY StandingStep
<1>6. \A u : c \notin St(u) BY <1>4 DEF Standing
<1> HIDE DEF St, c
<1>7. ASSUME op \notin {"addGlobServlet", "delGlobServlet"} PROVE GlobCalls' = GlobCalls
  BY <1>1, <1>2, <1>3, <1>4, <1>5, <1>7
<1>8. ASSUME op = "delGlobServlet" PROVE GlobCalls' = {i \in GlobCalls : program[i].uri # Args.uri}
  BY <1>1, <1>2, <1>3, <1>4, <1>5, <1>6, <1>8
<1>9. ASSUME op = "addGlobServlet" PROVE GlobCalls' = {i \in GlobCalls : program[i].uri # Args.uri} \cup {c}
  BY <1>1, <1>2, <1>3, <1>4, <1>5, <1>6, <1>9
<1> QED BY <1>7, <1>8, <1>9 DEF c

LEMMA DispatchInit == ASSUME Init PROVE DispatchOK
<1>1. called = 0 /\ m_datas = <<>> /\ m_globs = <<>> BY DEF Init
<1>2. \A A, D, u : Standing(A, D, u) = {} BY <1>1 DEF Standing
<1>3. GlobCalls = {} BY <1>1 DEF GlobCalls
<1>4. DOMAIN m_datas = {} BY <1>1
<1>5. Mirrors(program, m_globs, GlobCalls) BY <1>1, <1>3 DEF Mirrors
<1> QED BY <1>2, <1>4, <1>5 DEF DispatchOK

\* A call that is not one of ServletDispatch.
LEMMA DispatchOther ==
  ASSUME Typed, DispatchOK, NEW op, Call(op), UNCHANGED dispatch,
         op \in {"bind", "start", "stop", "release"}
  PROVE  DispatchOK'
<1>1. program' = program /\ m_datas' = m_datas /\ m_globs' = m_globs BY CallTyped DEF dispatch
<1>2. \A u : Standing("addServlet", "delServlet", u)' = Standing("addServlet", "delServlet", u)
  BY StandingStep
<1>3. GlobCalls' = GlobCalls BY GlobCallsStep
<1>4. Mirrors(program, m_globs, GlobCalls)' BY <1>1, <1>3 DEF DispatchOK, Mirrors
<1> QED BY <1>1, <1>2, <1>4 DEF DispatchOK

LEMMA DispatchServlet ==
  ASSUME Typed, DispatchOK, Servlet \/ DelServlet
  PROVE  DispatchOK'
<1> DEFINE St(u) == Standing("addServlet", "delServlet", u)
<1>1. m_globs' = m_globs BY DEF Servlet, DelServlet
<1>2. PICK op \in {"addServlet", "delServlet"} :
        /\ Call(op)
        /\ op = "addServlet" => Servlet
        /\ op = "delServlet" => DelServlet
  BY DEF Servlet, DelServlet
<1>3. /\ program' = program /\ Args \in Calls /\ Args.op = op /\ called \in Nat /\ called' = called + 1
      /\ program[called + 1] = Args
  BY <1>2, CallTyped DEF Typed, Args
<1>4. GlobCalls' = GlobCalls BY <1>2, GlobCallsStep
<1>5. Mirrors(program, m_globs, GlobCalls)' BY <1>1, <1>3, <1>4 DEF DispatchOK, Mirrors
<1>6. \A u : /\ Args.uri # u => St(u)' = St(u)
             /\ (op = "addServlet" /\ Args.uri = u) => St(u)' = {called + 1}
             /\ (op = "delServlet" /\ Args.uri = u) => St(u)' = {}
  BY <1>2, StandingStep
<1>7. /\ \A u \in Uris : u \in DOMAIN m_datas <=> St(u) # {}
      /\ \A u \in DOMAIN m_datas : \A i \in St(u) : m_datas[u] = program[i].slt
  BY DEF DispatchOK
<1>8. Args.uri \in Uris BY <1>2, <1>3 DEF Calls
<1> HIDE DEF St
<1>9. CASE op = "addServlet"
  <2>1. m_datas' = [u \in DOMAIN m_datas \cup {Args.uri} |-> IF u = Args.uri THEN Args.slt ELSE m_datas[u]]
    BY <1>2, <1>9 DEF Servlet
  <2>2. /\ DOMAIN m_datas' = DOMAIN m_datas \cup {Args.uri} /\ m_datas'[Args.uri] = Args.slt
        /\ \A u \in DOMAIN m_datas : u # Args.uri => m_datas'[u] = m_datas[u]
    BY <2>1
  <2>3. \A u \in Uris : u \in DOMAIN m_datas' <=> St(u)' # {} BY <1>6, <1>7, <1>9, <2>2
  <2>4. \A u \in DOMAIN m_datas' : \A i \in St(u)' : m_datas'[u] = program[i].slt
    BY <1>3, <1>6, <1>7, <1>9, <2>2
  <2> QED BY <1>3, <1>5, <2>3, <2>4 DEF DispatchOK, St
<1>10. CASE op = "delServlet"
  <2>1. m_datas' = [u \in DOMAIN m_datas \ {Args.uri} |-> m_datas[u]]
    BY <1>2, <1>10 DEF DelServlet, Restrict
  <2>2. /\ DOMAIN m_datas' = DOMAIN m_datas \ {Args.uri}
        /\ \A u \in DOMAIN m_datas : u # Args.uri => m_datas'[u] = m_datas[u]
    BY <2>1
  <2>3. \A u \in Uris : u \in DOMAIN m_datas' <=> St(u)' # {} BY <1>6, <1>7, <1>10, <2>2
  <2>4. \A u \in DOMAIN m_datas' : \A i \in St(u)' : m_datas'[u] = program[i].slt
    BY <1>3, <1>6, <1>7, <1>10, <2>2
  <2> QED BY <1>3, <1>5, <2>3, <2>4 DEF DispatchOK, St
<1> QED BY <1>2, <1>9, <1>10

LEMMA DispatchGlob ==
  ASSUME Typed, DispatchOK, GlobServlet \/ DelGlobServlet
  PROVE  DispatchOK'
<1>1. m_datas' = m_datas BY DEF GlobServlet, DelGlobServlet
<1>2. PICK op \in {"addGlobServlet", "delGlobServlet"} :
        /\ Call(op)
        /\ op = "addGlobServlet" => GlobServlet
        /\ op = "delGlobServlet" => DelGlobServlet
  BY DEF GlobServlet, DelGlobServlet
<1>3. /\ program' = program /\ Args \in Calls /\ Args.op = op /\ called \in Nat /\ called' = called + 1
      /\ program[called + 1] = Args
  BY <1>2, CallTyped DEF Typed, Args
<1>4. \A u : Standing("addServlet", "delServlet", u)' = Standing("addServlet", "delServlet", u)
  BY <1>2, StandingStep
<1>5. PICK u \in Uris : u = Args.uri BY <1>2, <1>3 DEF Calls
<1>6. PICK G : G = {i \in GlobCalls : program[i].uri # u} OBVIOUS
<1>7. Mirrors(program, Erased(m_globs, u), G) BY <1>6, MirrorsErased DEF DispatchOK
<1>8. CASE op = "delGlobServlet"
  <2>1. m_globs' = Erased(m_globs, u) BY <1>2, <1>5, <1>8 DEF DelGlobServlet
  <2>2. GlobCalls' = G BY <1>2, <1>5, <1>6, <1>8, GlobCallsStep
  <2>3. Mirrors(program, m_globs, GlobCalls)' BY <1>3, <1>7, <2>1, <2>2 DEF Mirrors
  <2> QED BY <1>1, <1>3, <1>4, <2>3 DEF DispatchOK
<1>9. CASE op = "addGlobServlet"
  <2>1. PICK g : g = [uri |-> Args.uri, slt |-> Args.slt] OBVIOUS
  <2>2. m_globs' = Append(Erased(m_globs, u), g) BY <1>2, <1>5, <1>9, <2>1 DEF GlobServlet
  <2>3. g \in [uri : Uris, slt : Servlets] /\ g.uri = program[called + 1].uri /\ g.slt = program[called + 1].slt
    BY <1>2, <1>3, <1>9, <2>1 DEF Calls
  <2>4. \A i \in G : i < called + 1 /\ program[i].uri # program[called + 1].uri
    <3>1. \A i \in G : i \in 1..called /\ program[i].uri # u BY <1>6 DEF GlobCalls
    <3> QED BY <3>1, <1>3, <1>5
  <2>5. called + 1 \in Nat BY <1>3
  <2>6. Mirrors(program, Append(Erased(m_globs, u), g), G \cup {called + 1})
    BY <1>7, <2>3, <2>4, <2>5, MirrorsAppend
  <2>7. GlobCalls' = G \cup {called + 1} BY <1>2, <1>5, <1>6, <1>9, GlobCallsStep
  <2>8. Mirrors(program, m_globs, GlobCalls)' BY <1>3, <2>2, <2>6, <2>7
  <2> QED BY <1>1, <1>3, <1>4, <2>8 DEF DispatchOK
<1> QED BY <1>2, <1>8, <1>9

LEMMA DispatchNext == ASSUME Typed, DispatchOK, [Next]_vars PROVE DispatchOK'
<1>1. CASE Race("bind") \/ Race("start") BY <1>1, DispatchOther DEF Race
<1>2. CASE Bind \/ BindFails BY <1>2, DispatchOther DEF Bind, BindFails
<1>3. CASE Start BY <1>3, DispatchOther DEF Start
<1>4. CASE Stop BY <1>4, DispatchOther DEF Stop
<1>5. CASE Release BY <1>5, DispatchOther DEF Release
<1>6. CASE Servlet \/ DelServlet BY <1>6, DispatchServlet
<1>7. CASE GlobServlet \/ DelGlobServlet BY <1>7, DispatchGlob
<1>8. CASE UNCHANGED <<program, called, m_datas, m_globs>>
  <2>1. \A u : Standing("addServlet", "delServlet", u)' = Standing("addServlet", "delServlet", u) BY <1>8 DEF Standing
  <2>2. GlobCalls' = GlobCalls BY <1>8 DEF GlobCalls, Standing
  <2>3. Mirrors(program, m_globs, GlobCalls)' BY <1>8, <2>2 DEF DispatchOK
  <2> QED BY <1>8, <2>1, <2>3 DEF DispatchOK
<1>9. CASE RunTask \/ Close \/ Loop \/ Poll \/ Handle \/ (\E c \in Conns : Connect(c)) \/ Done \/ UNCHANGED vars
  <2>1. UNCHANGED <<program, called, m_datas, m_globs>>
    <3>1. CASE RunTask \/ Close
      BY <3>1 DEF RunTask, Close, CloseCancels, CloseForgets, CloseFd, CloseNext, CloseEnd, user, dispatch
    <3>2. CASE Loop BY <3>2 DEF Loop, LoopStep, Test, Enter, Accept, Arm, user, dispatch
    <3>3. CASE Poll \/ Handle \/ (\E c \in Conns : Connect(c))
      BY <3>3 DEF Poll, Handle, Ready, HandleClient, Connect, user, dispatch
    <3>4. CASE Done \/ UNCHANGED vars BY <3>4 DEF Done, vars, user, dispatch
    <3> QED BY <1>9, <3>1, <3>2, <3>3, <3>4
  <2> QED BY <1>8, <2>1
<1> QED BY <1>1, <1>2, <1>3, <1>4, <1>5, <1>6, <1>7, <1>9 DEF Next

\* The lookup on the lists and the meaning of the calls agree.
LEMMA DispatchFinds == ASSUME Typed, DispatchOK PROVE DispatchAgrees
<1> SUFFICES ASSUME NEW uri \in Uris PROVE getMatchServlet(uri) = Meant(uri) BY DEF DispatchAgrees
<1> DEFINE exact == Standing("addServlet", "delServlet", uri)
           G == {i \in GlobCalls : fnmatch(program[i].uri, uri)}
           P == {p \in 1..Len(m_globs) : fnmatch(m_globs[p].uri, uri)}
<1>1. getMatchServlet(uri) = IF uri \in DOMAIN m_datas THEN m_datas[uri]
        ELSE IF (IF P # {} THEN Min(P) ELSE 0) > 0 THEN m_globs[IF P # {} THEN Min(P) ELSE 0].slt ELSE NotFoundServlet
  BY DEF getMatchServlet, SelectInSeq
<1>2. G = {i \in 1..called :
              /\ program[i].op = "addGlobServlet" /\ fnmatch(program[i].uri, uri)
              /\ i \in Standing("addGlobServlet", "delGlobServlet", program[i].uri)}
  BY DEF GlobCalls
<1>3. Meant(uri) = IF exact # {} THEN program[Max(exact)].slt
                   ELSE IF G # {} THEN program[Min(G)].slt ELSE NotFoundServlet
  BY <1>2 DEF Meant
<1>4. CASE uri \in DOMAIN m_datas
  <2>1. exact # {} /\ \A i \in exact : m_datas[uri] = program[i].slt BY <1>4 DEF DispatchOK
  <2>2. PICK i : i \in exact BY <2>1
  <2>3. \A j \in exact : i >= j
    <3>1. \A j \in exact : j = i /\ j \in 1..called BY <2>2, StandingOne
    <3> QED BY <3>1
  <2>4. Max(exact) \in exact BY <2>2, <2>3 DEF Max
  <2> QED BY <1>1, <1>3, <1>4, <2>1, <2>4
<1>5. CASE uri \notin DOMAIN m_datas
  <2>1. exact = {} BY <1>5 DEF DispatchOK
  <2>2. /\ m_globs \in Seq([uri : Uris, slt : Servlets]) /\ GlobCalls \subseteq Nat
        /\ \A i, j \in GlobCalls : program[i].uri = program[j].uri => i = j
        /\ \A p \in 1..Len(m_globs) : \E i \in GlobCalls : program[i].uri = m_globs[p].uri /\ program[i].slt = m_globs[p].slt
        /\ \A i \in GlobCalls : \E p \in 1..Len(m_globs) : m_globs[p].uri = program[i].uri
        /\ \A p, q \in 1..Len(m_globs) : \A i, j \in GlobCalls :
             program[i].uri = m_globs[p].uri /\ program[j].uri = m_globs[q].uri => (p < q <=> i < j)
    BY DEF DispatchOK, Mirrors
  <2>3. PICK n \in Nat : n = Len(m_globs) BY <2>2
  <2>4. P \subseteq 1..n /\ P \subseteq Nat /\ G \subseteq Nat /\ G \subseteq GlobCalls
        /\ (\A p \in P : fnmatch(m_globs[p].uri, uri)) /\ (\A i \in G : fnmatch(program[i].uri, uri))
    <3>1. P \subseteq 1..n /\ (\A p \in P : fnmatch(m_globs[p].uri, uri)) BY <2>3
    <3>2. G \subseteq GlobCalls /\ (\A i \in G : fnmatch(program[i].uri, uri)) OBVIOUS
    <3> HIDE DEF G, P
    <3> QED BY <2>2, <3>1, <3>2
  <2>5. CASE P = {}
    <3>1. G = {}
      <4> SUFFICES ASSUME NEW i \in G PROVE FALSE OBVIOUS
      <4>1. PICK p \in 1..Len(m_globs) : m_globs[p].uri = program[i].uri BY <2>2
      <4>2. p \in P BY <4>1
      <4> QED BY <4>2, <2>5
    <3> QED BY <1>1, <1>3, <1>5, <2>1, <2>5, <3>1
  <2>6. CASE P # {}
    <3>1. Min(P) \in P /\ \A q \in P : Min(P) <= q BY <2>4, <2>6, LeastOfNat
    <3>2. PICK m \in P : m = Min(P) BY <3>1
    <3>3. m \in 1..n /\ m > 0 BY <2>4
    <3>4. PICK i \in GlobCalls : program[i].uri = m_globs[m].uri /\ program[i].slt = m_globs[m].slt
      BY <2>2, <2>3, <3>3
    <3>5. i \in G BY <3>4, <2>4
    <3>6. ASSUME NEW j \in G PROVE i <= j
      <4>1. j \in GlobCalls /\ fnmatch(program[j].uri, uri) BY <2>4
      <4>2. PICK q \in 1..n : m_globs[q].uri = program[j].uri BY <4>1, <2>2, <2>3
      <4>3. q \in P BY <4>1, <4>2, <2>3
      <4>4. ~(q < m) BY <4>3, <3>1, <3>2, <3>3, <2>4
      <4>5. ~(j < i) BY <4>1, <4>2, <4>4, <3>3, <3>4, <2>2, <2>3
      <4> QED BY <4>5, <3>5, <2>4
    <3>7. G # {} /\ Min(G) \in G /\ \A y \in G : Min(G) <= y BY <3>5, <2>4, LeastOfNat
    <3>9. Min(G) \in Nat /\ i \in Nat /\ Min(G) <= i /\ i <= Min(G) BY <3>5, <3>6, <3>7, <2>4
    <3>8. Min(G) = i BY <3>9
    <3> HIDE DEF G, P, exact
    <3> QED BY <1>1, <1>3, <1>5, <2>1, <2>6, <3>2, <3>3, <3>4, <3>7, <3>8
  <2> QED BY <2>5, <2>6
<1> QED BY <1>4, <1>5

\* Through any sequence of addServlet, delServlet, addGlobServlet and delGlobServlet,
\* getMatchServlet answers a path with the servlet its callers last meant: the order
\* of the list of patterns is the order of the calls that still stand.
THEOREM ServerDispatchAgrees == Spec => []DispatchAgrees
<1>1. IInv => Typed BY DEF IInv
<1> QED BY InitInv, NextInv, DispatchInit, DispatchNext, DispatchFinds, <1>1, PTL DEF Spec
=============================================================================
