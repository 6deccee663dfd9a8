----------------------------- MODULE IOManager -----------------------------
(***************************************************************************)
(* The event table of megalo::IOManager (iomanager.h/.cc): m_fdContexts,   *)
(* addEvent, delEvent, cancelEvent, cancelAll, and the part of idle() that *)
(* turns what epoll_wait returned into wake-ups.                           *)
(*                                                                         *)
(* m_mutex protects the table, the mutex of an FdContext its events; a     *)
(* thread looks the context up under the first, drops it, and takes the    *)
(* second later.  What epoll_wait returned may be old when its context is  *)
(* locked.  m_pendingEventCount is read by stopping() without any lock, so *)
(* triggerEvent and the decrement after it are steps of their own.         *)
(***************************************************************************)
EXTENDS Integers, FiniteSets

CONSTANTS
  Fds,          \* descriptors, as indices into m_fdContexts
  Events,       \* a subset of {"READ", "WRITE"}
  Callers,      \* threads that call delEvent, cancelEvent and cancelAll
  Idlers,       \* threads in idle()
  Calls,        \* which of "del", "cancel", "cancelAll" the callers use
  InitialSize,  \* the constructor's contextResize(32)
  MaxGen,       \* bound: FdContext objects per descriptor
  MaxAdds,      \* bound: MaxAdds[fd, e] addEvent calls for event e of fd
  None

\* The fiber that waits for event e of descriptor fd; it calls addEvent.
Waiters == Fds \X Events

\* An FdContext object: the g-th one created for its descriptor.
FdContexts == Fds \X (1 .. MaxGen)

Actors == Waiters \cup Callers \cup Idlers

ASSUME TableAssumption ==
  /\ Fds \subseteq Nat /\ IsFiniteSet(Fds)
  /\ Events \subseteq {"READ", "WRITE"}
  /\ InitialSize \in Nat \ {0, 1} /\ MaxGen \in Nat
  /\ MaxGen >= 1
  /\ MaxAdds \in [Waiters -> Nat]

ASSUME ActorsAssumption ==
  /\ IsFiniteSet(Callers) /\ IsFiniteSet(Idlers)
  /\ Callers \cap Idlers = {}
  /\ Waiters \cap (Callers \cup Idlers) = {}
  /\ Calls \subseteq {"del", "cancel", "cancelAll"}
  /\ None \notin Actors

VARIABLES
  size,       \* m_fdContexts.size()
  slot,       \* slot[fd]: which context m_fdContexts[fd] is, 0 for none
  gens,       \* gens[fd]: how many contexts were created for fd
  events,     \* FdContext::events
  lock,       \* the actor that holds an FdContext's mutex
  interest,   \* epoll: the events it watches on fd, {} when fd is not in it
  target,     \* epoll: the context epoll_event.data.ptr points to
  m_pendingEventCount,
  pc,         \* where each actor is
  call,       \* what a caller executes: the function and the event
  fd_ctx,     \* each actor's local fd_ctx
  got,        \* what epoll_wait returned to an idle thread
  todo,       \* the events an actor has still to trigger
  status,     \* what became of each waiter
  adds,       \* addEvent calls made so far
  cut,        \* history: descriptors that contextResize has cut off the table
  fault       \* the assertion that ended the process, or "none"

tableVars == <<size, slot, gens, cut>>
epollVars == <<interest, target>>
actorVars == <<pc, call, fd_ctx, got, todo>>
waiterVars == <<status, adds>>
vars == <<tableVars, events, lock, epollVars, m_pendingEventCount, actorVars,
          waiterVars, fault>>

Free(c) == lock[c] = None

\* FdContext::fd.
FdOf(c) == c[1]

Init ==
  /\ size = InitialSize
  /\ slot = [fd \in Fds |-> IF fd < InitialSize THEN 1 ELSE 0]
  /\ gens = [fd \in Fds |-> IF fd < InitialSize THEN 1 ELSE 0]
  /\ cut = {}
  /\ events = [c \in FdContexts |-> {}]
  /\ lock = [c \in FdContexts |-> None]
  /\ interest = [fd \in Fds |-> {}]
  /\ target = [fd \in Fds |-> <<fd, 1>>]
  /\ m_pendingEventCount = 0
  /\ pc = [a \in Actors |-> "start"]
  /\ call = [a \in Callers |-> <<"none", "none">>]
  /\ fd_ctx = [a \in Actors |-> None]
  /\ got = [i \in Idlers |-> {}]
  /\ todo = [a \in Actors |-> {}]
  /\ status = [w \in Waiters |-> "off"]
  /\ adds = [w \in Waiters |-> 0]
  /\ fault = "none"

----------------------------------------------------------------------------
\* epoll_ctl on behalf of context c, to watch evs from now on.  EPOLL_CTL_ADD
\* must fail on a descriptor that is in the set, MOD and DEL on one that is not;
\* any of them may fail for other reasons (memory, a descriptor that was closed).
Ctl(c, evs) ==
  /\ interest' = [interest EXCEPT ![FdOf(c)] = evs]
  /\ target' = [target EXCEPT ![FdOf(c)] = IF evs = {} THEN @ ELSE c]

CtlAddFails(c) == (events[c] = {}) # (interest[FdOf(c)] = {})

CtlFails(c) == interest[FdOf(c)] = {}

\* Mutant: a new context in every place, the occupied ones included.
ContextResizeFresh(n) ==
  /\ size' = n
  /\ slot' = [fd \in Fds |-> IF fd >= n THEN 0 ELSE gens[fd] + 1]
  /\ gens' = [fd \in Fds |-> IF fd >= n THEN gens[fd] ELSE gens[fd] + 1]

\* contextResize(n): std::vector::resize, which may shrink, then a new context
\* in every empty place.
ContextResize(n) ==
  LET kept(fd) == IF fd < size THEN slot[fd] ELSE 0
      fresh(fd) == fd < n /\ kept(fd) = 0
  IN /\ size' = n
     /\ slot' = [fd \in Fds |-> IF fd >= n THEN 0
                                ELSE IF fresh(fd) THEN gens[fd] + 1
                                ELSE kept(fd)]
     /\ gens' = [fd \in Fds |-> IF fresh(fd) THEN gens[fd] + 1 ELSE gens[fd]]
     /\ \A fd \in Fds : fresh(fd) => gens[fd] < MaxGen

----------------------------------------------------------------------------
\* addEvent by waiter w.

\* Under the read lock: the context, or the decision to grow the table.
AddLookup(w) ==
  LET fd == w[1] IN
  /\ pc[w] = "start"
  /\ status[w] # "waiting"
  /\ adds[w] < MaxAdds[w]
  /\ adds' = [adds EXCEPT ![w] = @ + 1]
  /\ \/ /\ size > fd
        /\ fd_ctx' = [fd_ctx EXCEPT ![w] = <<fd, slot[fd]>>]
        /\ pc' = [pc EXCEPT ![w] = "lock"]
     \/ /\ size <= fd
        /\ pc' = [pc EXCEPT ![w] = "grow"]
        /\ UNCHANGED fd_ctx
  /\ UNCHANGED <<tableVars, events, lock, epollVars, m_pendingEventCount, call,
                 got, todo, status, fault>>

\* Under the write lock, with no second look at the size: resize(fd * 1.5), which
\* is less than the size if another thread has grown the table further meanwhile.
AddGrow(w) ==
  LET fd == w[1] IN
  /\ pc[w] = "grow"
  /\ ContextResize(fd + fd \div 2)
  /\ cut' = cut \cup {f \in Fds : f < size /\ f >= size'}
  /\ fd_ctx' = [fd_ctx EXCEPT ![w] = <<fd, slot'[fd]>>]
  /\ pc' = [pc EXCEPT ![w] = "lock"]
  /\ UNCHANGED <<events, lock, epollVars, m_pendingEventCount, call, got, todo,
                 waiterVars, fault>>

\* Under the context's mutex: the assertion that nobody waits for the event
\* yet, then epoll_ctl; when that fails, return -1.
AddLocked(w) ==
  LET c == fd_ctx[w]
      e == w[2]
  IN
  /\ pc[w] = "lock"
  /\ Free(c)
  /\ pc' = [pc EXCEPT ![w] = "start"]
  /\ fd_ctx' = [fd_ctx EXCEPT ![w] = None]
  /\ fault' = IF e \in events[c] THEN "addEvent" ELSE "none"
  /\ \/ /\ status' = [status EXCEPT ![w] = "failed"]
        /\ UNCHANGED <<events, epollVars, m_pendingEventCount>>
     \/ /\ ~CtlAddFails(c)
        /\ Ctl(c, events[c] \cup {e})
        /\ m_pendingEventCount' = m_pendingEventCount + 1
        /\ events' = [events EXCEPT ![c] = @ \cup {e}]
        /\ status' = [status EXCEPT ![w] = "waiting"]
  /\ UNCHANGED <<tableVars, lock, call, got, todo, adds>>

----------------------------------------------------------------------------
\* delEvent, cancelEvent and cancelAll by thread a.

\* Under the read lock; a descriptor past the end of the table: return false.
CallLookup(a, k, fd, e) ==
  /\ pc[a] = "start"
  /\ size > fd
  /\ call' = [call EXCEPT ![a] = <<k, e>>]
  /\ fd_ctx' = [fd_ctx EXCEPT ![a] = <<fd, slot[fd]>>]
  /\ pc' = [pc EXCEPT ![a] = "lock"]
  /\ UNCHANGED <<tableVars, events, lock, epollVars, m_pendingEventCount, got,
                 todo, waiterVars, fault>>

\* The events that the call is about, of those registered.
CallEvents(a) ==
  IF call[a][1] = "cancelAll" THEN events[fd_ctx[a]]
  ELSE events[fd_ctx[a]] \cap {call[a][2]}

\* Nothing registered, or epoll_ctl fails, as it always may: return false.
CallFails(a) ==
  /\ pc[a] = "lock"
  /\ Free(fd_ctx[a])
  /\ pc' = [pc EXCEPT ![a] = "start"]
  /\ fd_ctx' = [fd_ctx EXCEPT ![a] = None]
  /\ UNCHANGED <<tableVars, events, lock, epollVars, m_pendingEventCount, call,
                 got, todo, waiterVars, fault>>

\* Mutant: delEvent forgets the counter.
DelLockedLeak(a) ==
  LET c == fd_ctx[a]
      gone == CallEvents(a)
  IN
  /\ pc[a] = "lock"
  /\ call[a][1] = "del"
  /\ Free(c)
  /\ gone # {} /\ ~CtlFails(c)
  /\ Ctl(c, events[c] \ gone)
  /\ events' = [events EXCEPT ![c] = @ \ gone]
  /\ status' = [w \in Waiters |->
                  IF w[1] = FdOf(c) /\ w[2] \in gone THEN "dropped"
                  ELSE status[w]]
  /\ pc' = [pc EXCEPT ![a] = "start"]
  /\ fd_ctx' = [fd_ctx EXCEPT ![a] = None]
  /\ UNCHANGED <<tableVars, lock, m_pendingEventCount, call, got, todo, adds,
                 fault>>

\* delEvent: the waiter is forgotten, not woken.
DelLocked(a) ==
  LET c == fd_ctx[a]
      gone == CallEvents(a)
  IN
  /\ pc[a] = "lock"
  /\ call[a][1] = "del"
  /\ Free(c)
  /\ gone # {} /\ ~CtlFails(c)
  /\ Ctl(c, events[c] \ gone)
  /\ m_pendingEventCount' = m_pendingEventCount - 1
  /\ events' = [events EXCEPT ![c] = @ \ gone]
  /\ status' = [w \in Waiters |->
                  IF w[1] = FdOf(c) /\ w[2] \in gone THEN "dropped"
                  ELSE status[w]]
  /\ pc' = [pc EXCEPT ![a] = "start"]
  /\ fd_ctx' = [fd_ctx EXCEPT ![a] = None]
  /\ UNCHANGED <<tableVars, lock, call, got, todo, adds, fault>>

\* Mutant: epoll keeps watching the cancelled event.
CancelLockedKeep(a) ==
  LET c == fd_ctx[a] IN
  /\ pc[a] = "lock"
  /\ call[a][1] \in {"cancel", "cancelAll"}
  /\ Free(c)
  /\ CallEvents(a) # {} /\ ~CtlFails(c)
  /\ lock' = [lock EXCEPT ![c] = a]
  /\ todo' = [todo EXCEPT ![a] = CallEvents(a)]
  /\ pc' = [pc EXCEPT ![a] = "trigger"]
  /\ UNCHANGED <<tableVars, events, epollVars, m_pendingEventCount, call,
                 fd_ctx, got, waiterVars, fault>>

\* cancelEvent and cancelAll up to triggerEvent, the mutex held.
CancelLocked(a) ==
  LET c == fd_ctx[a] IN
  /\ pc[a] = "lock"
  /\ call[a][1] \in {"cancel", "cancelAll"}
  /\ Free(c)
  /\ CallEvents(a) # {} /\ ~CtlFails(c)
  /\ Ctl(c, events[c] \ CallEvents(a))
  /\ lock' = [lock EXCEPT ![c] = a]
  /\ todo' = [todo EXCEPT ![a] = CallEvents(a)]
  /\ pc' = [pc EXCEPT ![a] = "trigger"]
  /\ UNCHANGED <<tableVars, events, m_pendingEventCount, call, fd_ctx, got,
                 waiterVars, fault>>

----------------------------------------------------------------------------
\* idle() on thread i.

\* epoll_wait reports some of the events watched on fd and, unasked, EPOLLERR
\* or EPOLLHUP ("ERR"), which stands for whatever is registered once the
\* context is locked.
EpollWait(i, fd) ==
  /\ pc[i] = "start"
  /\ interest[fd] # {}
  /\ \E evs \in SUBSET (interest[fd] \cup {"ERR"}) \ {{}} :
       got' = [got EXCEPT ![i] = evs]
  /\ fd_ctx' = [fd_ctx EXCEPT ![i] = target[fd]]
  /\ pc' = [pc EXCEPT ![i] = "lock"]
  /\ UNCHANGED <<tableVars, events, lock, epollVars, m_pendingEventCount, call,
                 todo, waiterVars, fault>>

\* real_events, once the context is locked.
RealEvents(i) ==
  (got[i] \ {"ERR"})
     \cup (IF "ERR" \in got[i] THEN events[fd_ctx[i]] ELSE {})

\* Nothing of it is registered any more, or epoll_ctl fails, as it always may:
\* continue.
IdleSkip(i) ==
  /\ pc[i] = "lock"
  /\ Free(fd_ctx[i])
  /\ pc' = [pc EXCEPT ![i] = "start"]
  /\ fd_ctx' = [fd_ctx EXCEPT ![i] = None]
  /\ got' = [got EXCEPT ![i] = {}]
  /\ UNCHANGED <<tableVars, events, lock, epollVars, m_pendingEventCount, call,
                 todo, waiterVars, fault>>

\* epoll is told what is left, and every real event will be triggered, the
\* mutex held.
IdleLocked(i) ==
  LET c == fd_ctx[i] IN
  /\ pc[i] = "lock"
  /\ Free(c)
  /\ RealEvents(i) \cap events[c] # {} /\ ~CtlFails(c)
  /\ Ctl(c, events[c] \ RealEvents(i))
  /\ lock' = [lock EXCEPT ![c] = i]
  /\ todo' = [todo EXCEPT ![i] = RealEvents(i)]
  /\ got' = [got EXCEPT ![i] = {}]
  /\ pc' = [pc EXCEPT ![i] = "trigger"]
  /\ UNCHANGED <<tableVars, events, m_pendingEventCount, call, fd_ctx,
                 waiterVars, fault>>

----------------------------------------------------------------------------
\* triggerEvent and --m_pendingEventCount, READ before WRITE.

FirstOf(evs) == IF "READ" \in evs THEN "READ" ELSE "WRITE"

\* Mutant: the counter goes down before the waiter is scheduled.
TriggerLate(a) ==
  LET c == fd_ctx[a]
      e == FirstOf(todo[a])
  IN
  /\ pc[a] = "trigger"
  /\ fault' = IF e \in events[c] THEN "none" ELSE "trigger"
  /\ m_pendingEventCount' = m_pendingEventCount - 1
  /\ pc' = [pc EXCEPT ![a] = "dec"]
  /\ UNCHANGED <<tableVars, events, lock, epollVars, call, fd_ctx, got, todo,
                 waiterVars>>

\* triggerEvent: its assertion, then schedule() of the waiter.
Trigger(a) ==
  LET c == fd_ctx[a]
      e == FirstOf(todo[a])
  IN
  /\ pc[a] = "trigger"
  /\ fault' = IF e \in events[c] THEN "none" ELSE "trigger"
  /\ events' = [events EXCEPT ![c] = @ \ {e}]
  /\ status' = [status EXCEPT ![<<FdOf(c), e>>] = "woken"]
  /\ pc' = [pc EXCEPT ![a] = "dec"]
  /\ UNCHANGED <<tableVars, lock, epollVars, m_pendingEventCount, call, fd_ctx,
                 got, todo, adds>>

\* --m_pendingEventCount; the mutex is released after the last event.
Decrement(a) ==
  LET c == fd_ctx[a]
      left == todo[a] \ {FirstOf(todo[a])}
  IN
  /\ pc[a] = "dec"
  /\ m_pendingEventCount' = m_pendingEventCount - 1
  /\ todo' = [todo EXCEPT ![a] = left]
  /\ pc' = [pc EXCEPT ![a] = IF left = {} THEN "start" ELSE "trigger"]
  /\ lock' = [lock EXCEPT ![c] = IF left = {} THEN None ELSE @]
  /\ fd_ctx' = [fd_ctx EXCEPT ![a] = IF left = {} THEN None ELSE @]
  /\ UNCHANGED <<tableVars, events, epollVars, call, got, waiterVars, fault>>

----------------------------------------------------------------------------
WaiterStep(w) == AddLookup(w) \/ AddGrow(w) \/ AddLocked(w)

CallerStep(a) ==
  \/ \E k \in Calls, fd \in Fds, e \in Events : CallLookup(a, k, fd, e)
  \/ CallFails(a) \/ DelLocked(a) \/ CancelLocked(a)

IdlerStep(i) ==
  (\E fd \in Fds : EpollWait(i, fd)) \/ IdleSkip(i) \/ IdleLocked(i)

\* All addEvent calls are made and nothing is in progress, or the process died.
Quiet ==
  /\ \/ fault # "none"
     \/ \A a \in Actors : pc[a] = "start"
  /\ UNCHANGED vars

Next ==
  \/ /\ fault = "none"
     /\ \/ \E w \in Waiters : WaiterStep(w)
        \/ \E a \in Callers : CallerStep(a)
        \/ \E i \in Idlers : IdlerStep(i)
        \/ \E a \in Callers \cup Idlers : Trigger(a) \/ Decrement(a)
  \/ Quiet

Spec == Init /\ [][Next]_vars

----------------------------------------------------------------------------
\* Properties.

\* Type correctness of the table, the contexts, epoll and the actors.
TypeOK ==
  /\ size \in Nat
  /\ slot \in [Fds -> 0 .. MaxGen] /\ gens \in [Fds -> 0 .. MaxGen]
  /\ events \in [FdContexts -> SUBSET Events]
  /\ lock \in [FdContexts -> Callers \cup Idlers \cup {None}]
  /\ interest \in [Fds -> SUBSET Events]
  /\ target \in [Fds -> FdContexts]
  /\ m_pendingEventCount \in Nat
  /\ pc \in [Actors -> {"start", "grow", "lock", "trigger", "dec"}]
  /\ fd_ctx \in [Actors -> FdContexts \cup {None}]
  /\ got \in [Idlers -> SUBSET (Events \cup {"ERR"})]
  /\ todo \in [Actors -> SUBSET Events]
  /\ status \in [Waiters -> {"off", "waiting", "woken", "dropped", "failed"}]
  /\ cut \in SUBSET Fds
  /\ fault \in {"none", "addEvent", "trigger"}

Registered == {r \in FdContexts \X Events : r[2] \in events[r[1]]}

\* m_pendingEventCount is the number of registered events plus the triggered
\* ones not counted down yet: it reaches zero when nobody waits, never earlier
\* and never below.  stopping() ends the threads on it.
PendingExact ==
  fault = "none" =>
    m_pendingEventCount =
      Cardinality(Registered) + Cardinality({a \in Actors : pc[a] = "dec"})

\* stopping() reads m_pendingEventCount without a lock: when it reads zero,
\* every fiber that called addEvent has been scheduled or deliberately dropped.
StopSafe ==
  m_pendingEventCount = 0 => \A w \in Waiters : status[w] # "waiting"

\* An event that is registered is registered in the context the table holds, so
\* that cancelEvent, cancelAll and delEvent find it: however threads grow the
\* table, and except for the descriptors behind the end of a table that one of two
\* growing threads has made shorter again.  Their waiters are out of reach.
RegisteredReachable ==
  \A c \in FdContexts :
    events[c] # {} => \/ FdOf(c) < size /\ slot[FdOf(c)] = c[2]
                      \/ FdOf(c) \in cut

\* epoll watches what is registered, unless someone is just triggering it: no
\* waiter sleeps on a descriptor that epoll does not watch for it.
EpollAgrees ==
  fault = "none" =>
    \A c \in FdContexts :
      events[c] # {} /\ Free(c) =>
        /\ interest[FdOf(c)] = events[c]
        /\ target[FdOf(c)] = c
=============================================================================
