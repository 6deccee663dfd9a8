-------------------------- MODULE IOManagerProofs --------------------------
(***************************************************************************)
(* The event table of IOManager, for any descriptors, threads and          *)
(* interleavings, with a kernel that may refuse any epoll_ctl and a table  *)
(* that grows and shrinks: the pending count is exact, zero means that     *)
(* nobody waits, and epoll watches what is registered.                     *)
(***************************************************************************)
EXTENDS IOManager, FiniteSetTheorems, TLAPS

Holding == {"trigger", "dec"}

\* Every place of the table is filled.  Only descriptors from 2 on make it grow,
\* so that resize(fd * 1.5) makes a place for fd.
TableOK ==
  /\ size >= 2
  /\ \A fd \in Fds : fd < size => slot[fd] # 0
  /\ \A w \in Waiters : pc[w] = "grow" => w[1] >= 2

\* An actor's local fd_ctx, once it has looked it up.
LocalsOK ==
  /\ \A a \in Actors : pc[a] \in Holding \cup {"lock"} => fd_ctx[a] \in FdContexts
  /\ \A w \in Waiters : pc[w] = "lock" => FdOf(fd_ctx[w]) = w[1]
  /\ \A a \in Actors : pc[a] \in Holding => todo[a] # {}

\* Who triggers events holds the mutex of their context, and nobody else does.
MutexOK ==
  /\ \A a \in Actors : pc[a] \in Holding => lock[fd_ctx[a]] = a
  /\ \A c \in FdContexts :
       ~Free(c) => pc[lock[c]] \in Holding /\ fd_ctx[lock[c]] = c

\* The event whose waiter was just scheduled is not registered: the mutex keeps
\* addEvent away.
DecOK ==
  \A a \in Actors : pc[a] = "dec" => FirstOf(todo[a]) \notin events[fd_ctx[a]]

\* The events of a context that nobody is about to trigger.
Rest(c) == IF Free(c) THEN events[c] ELSE events[c] \ todo[lock[c]]

\* EpollAgrees, for contexts that are locked as well.
Watched ==
  fault = "none" =>
    \A c \in FdContexts :
      Rest(c) # {} => interest[FdOf(c)] = Rest(c) /\ target[FdOf(c)] = c

\* A fiber that waits is registered.
WaitingOK ==
  \A w \in Waiters :
    status[w] = "waiting" => \E c \in FdContexts : FdOf(c) = w[1] /\ w[2] \in events[c]

\* The inductive invariant.
IInv ==
  /\ TypeOK /\ TableOK /\ LocalsOK /\ MutexOK /\ DecOK
  /\ Watched /\ WaitingOK /\ PendingExact /\ StopSafe

----------------------------------------------------------------------------
\* What the assumptions say of the actors and contexts.
LEMMA Sets ==
  /\ IsFiniteSet(FdContexts \X Events)
  /\ IsFiniteSet(Actors)
  /\ None \notin Actors
  /\ Waiters \subseteq Actors /\ Callers \subseteq Actors /\ Idlers \subseteq Actors
  /\ "ERR" \notin Events
  /\ \A w \in Waiters : w[1] \in Fds /\ w[2] \in Events /\ w = <<w[1], w[2]>>
  /\ \A c \in FdContexts : c[1] \in Fds /\ c[2] \in 1 .. MaxGen /\ c = <<c[1], c[2]>>
<1>1. IsFiniteSet(Events)
  <2>1. IsFiniteSet({"READ"} \cup {"WRITE"}) BY FS_Singleton, FS_AddElement
  <2>2. Events \in SUBSET ({"READ"} \cup {"WRITE"}) BY TableAssumption
  <2> QED BY <2>1, <2>2, FS_Subset
<1>2. IsFiniteSet(1 .. MaxGen) BY TableAssumption, FS_Interval
<1>3. IsFiniteSet(FdContexts) BY <1>2, TableAssumption, FS_Product DEF FdContexts
<1>4. IsFiniteSet(FdContexts \X Events) BY <1>1, <1>3, FS_Product
<1>5. IsFiniteSet(Waiters) BY <1>1, TableAssumption, FS_Product DEF Waiters
<1>6. IsFiniteSet(Actors)
  <2>1. IsFiniteSet(Waiters \cup Callers) BY <1>5, ActorsAssumption, FS_Union
  <2>2. IsFiniteSet((Waiters \cup Callers) \cup Idlers)
    BY <2>1, ActorsAssumption, FS_Union
  <2> QED BY <2>2 DEF Actors
<1>7. "ERR" \notin Events BY TableAssumption
<1> QED BY <1>4, <1>6, <1>7, ActorsAssumption DEF Waiters, Actors, FdContexts

\* The pairs of a context and an event registered in ev, and the actors that
\* have still to count down.
Pairs(ev) == {r \in FdContexts \X Events : r[2] \in ev[r[1]]}
Counting(p) == {a \in Actors : p[a] = "dec"}

LEMMA PairsCount ==
  ASSUME NEW ev
  PROVE /\ IsFiniteSet(Pairs(ev))
        /\ Cardinality(Pairs(ev)) \in Nat
<1>1. Pairs(ev) \in SUBSET (FdContexts \X Events) BY DEF Pairs
<1> QED BY <1>1, Sets, FS_Subset, FS_CardinalityType

\* addEvent: one more.
LEMMA PairsAdd ==
  ASSUME NEW ev \in [FdContexts -> SUBSET Events], NEW c \in FdContexts,
         NEW e \in Events, e \notin ev[c]
  PROVE Cardinality(Pairs([ev EXCEPT ![c] = @ \cup {e}])) = Cardinality(Pairs(ev)) + 1
<1>1. Pairs([ev EXCEPT ![c] = @ \cup {e}]) = Pairs(ev) \cup {<<c, e>>} BY DEF Pairs
<1>2. <<c, e>> \notin Pairs(ev) BY DEF Pairs
<1> QED BY <1>1, <1>2, PairsCount, FS_AddElement

\* delEvent and triggerEvent: one fewer.
LEMMA PairsRemove ==
  ASSUME NEW ev \in [FdContexts -> SUBSET Events], NEW c \in FdContexts,
         NEW e \in Events, e \in ev[c]
  PROVE Cardinality(Pairs([ev EXCEPT ![c] = @ \ {e}])) = Cardinality(Pairs(ev)) - 1
<1>1. Pairs([ev EXCEPT ![c] = @ \ {e}]) = Pairs(ev) \ {<<c, e>>} BY DEF Pairs
<1>2. <<c, e>> \in Pairs(ev) BY DEF Pairs
<1>3. Cardinality(Pairs(ev) \ {<<c, e>>}) = Cardinality(Pairs(ev)) - 1
  BY <1>2, PairsCount, FS_RemoveElement
<1> QED BY <1>1, <1>3

LEMMA CountingMove ==
  ASSUME NEW p \in [Actors -> {"start", "grow", "lock", "trigger", "dec"}],
         NEW a \in Actors, NEW v
  PROVE /\ Cardinality(Counting(p)) \in Nat
        /\ p[a] # "dec" /\ v = "dec" =>
             Cardinality(Counting([p EXCEPT ![a] = v])) = Cardinality(Counting(p)) + 1
        /\ p[a] = "dec" /\ v # "dec" =>
             Cardinality(Counting([p EXCEPT ![a] = v])) = Cardinality(Counting(p)) - 1
        /\ p[a] # "dec" /\ v # "dec" =>
             Counting([p EXCEPT ![a] = v]) = Counting(p)
<1>1. IsFiniteSet(Counting(p)) /\ Cardinality(Counting(p)) \in Nat
  <2>1. Counting(p) \in SUBSET Actors BY DEF Counting
  <2> QED BY <2>1, Sets, FS_Subset, FS_CardinalityType
<1>2. ASSUME p[a] # "dec", v = "dec"
      PROVE Cardinality(Counting([p EXCEPT ![a] = v])) = Cardinality(Counting(p)) + 1
  <2>1. Counting([p EXCEPT ![a] = v]) = Counting(p) \cup {a} BY <1>2 DEF Counting
  <2>2. a \notin Counting(p) BY <1>2 DEF Counting
  <2> QED BY <1>1, <2>1, <2>2, FS_AddElement
<1>3. ASSUME p[a] = "dec", v # "dec"
      PROVE Cardinality(Counting([p EXCEPT ![a] = v])) = Cardinality(Counting(p)) - 1
  <2>1. Counting([p EXCEPT ![a] = v]) = Counting(p) \ {a} BY <1>3 DEF Counting
  <2>2. a \in Counting(p) BY <1>3 DEF Counting
  <2> QED BY <1>1, <2>1, <2>2, FS_RemoveElement
<1>4. ASSUME p[a] # "dec", v # "dec"
      PROVE Counting([p EXCEPT ![a] = v]) = Counting(p)
  BY <1>4 DEF Counting
<1> QED BY <1>1, <1>2, <1>3, <1>4

\* PendingExact and its consequence, in these terms.
LEMMA Exact ==
  ASSUME TypeOK, PendingExact, fault = "none"
  PROVE /\ m_pendingEventCount = Cardinality(Pairs(events)) + Cardinality(Counting(pc))
        /\ Cardinality(Pairs(events)) \in Nat /\ Cardinality(Counting(pc)) \in Nat
<1>1. Registered = Pairs(events) BY DEF Registered, Pairs
<1>2. {a \in Actors : pc[a] = "dec"} = Counting(pc) BY DEF Counting
<1>3. Cardinality(Counting(pc)) \in Nat
  <2>1. Counting(pc) \in SUBSET Actors BY DEF Counting
  <2> QED BY <2>1, Sets, FS_Subset, FS_CardinalityType
<1> QED BY <1>1, <1>2, <1>3, PairsCount DEF PendingExact

----------------------------------------------------------------------------
\* The steps of the actors, with the process alive.
Step ==
  \/ \E w \in Waiters : AddLookup(w) \/ AddGrow(w) \/ AddLocked(w)
  \/ \E a \in Callers : \/ \E k \in Calls, fd \in Fds, e \in Events : CallLookup(a, k, fd, e)
                        \/ CallFails(a) \/ DelLocked(a) \/ CancelLocked(a)
  \/ \E i \in Idlers : \/ \E fd \in Fds : EpollWait(i, fd)
                       \/ IdleSkip(i) \/ IdleLocked(i)
  \/ \E a \in Callers \cup Idlers : Trigger(a) \/ Decrement(a)

\* What is known of the locals where an event is triggered or counted down.
LEMMA TriggerLocals ==
  ASSUME TypeOK, LocalsOK, NEW a \in Actors, pc[a] \in Holding
  PROVE /\ fd_ctx[a] \in FdContexts
        /\ FirstOf(todo[a]) \in Events /\ FirstOf(todo[a]) \in todo[a]
        /\ <<FdOf(fd_ctx[a]), FirstOf(todo[a])>> \in Waiters
<1>1. fd_ctx[a] \in FdContexts /\ todo[a] # {} /\ todo[a] \in SUBSET Events
  BY DEF TypeOK, LocalsOK
<1>2. FirstOf(todo[a]) \in todo[a] BY <1>1, TableAssumption DEF FirstOf
<1> QED BY <1>1, <1>2, Sets DEF FdOf, Waiters

\* delEvent removes one event.
LEMMA DelOne ==
  ASSUME TypeOK, LocalsOK, NEW a \in Callers, DelLocked(a)
  PROVE \E e \in Events : /\ CallEvents(a) = {e} /\ e \in events[fd_ctx[a]]
                          /\ fd_ctx[a] \in FdContexts
<1>1. fd_ctx[a] \in FdContexts BY Sets DEF DelLocked, LocalsOK
<1>2. events[fd_ctx[a]] \in SUBSET Events BY <1>1 DEF TypeOK
<1>3. CallEvents(a) = events[fd_ctx[a]] \cap {call[a][2]} /\ CallEvents(a) # {}
  BY DEF DelLocked, CallEvents
<1> QED BY <1>1, <1>2, <1>3

\* ContextResize keeps its promises to the table.
LEMMA Resized ==
  ASSUME TypeOK, TableOK, NEW n \in Nat, n >= 2, ContextResize(n)
  PROVE /\ size' = n
        /\ slot' \in [Fds -> 0 .. MaxGen] /\ gens' \in [Fds -> 0 .. MaxGen]
        /\ \A fd \in Fds : fd < n => slot'[fd] # 0
BY TableAssumption DEF TypeOK, TableOK, ContextResize

LEMMA TypedStep == IInv /\ fault = "none" /\ Step => TypeOK' /\ TableOK'
<1> SUFFICES ASSUME IInv, fault = "none", Step PROVE TypeOK' /\ TableOK'
  OBVIOUS
<1> USE Sets
<1>0. TypeOK /\ TableOK /\ LocalsOK BY DEF IInv
<1>1. ASSUME NEW w \in Waiters, AddLookup(w) PROVE TypeOK' /\ TableOK'
  <2>1. fd_ctx' \in [Actors -> FdContexts \cup {None}]
    BY <1>0, <1>1, TableAssumption DEF AddLookup, TypeOK, TableOK, FdContexts
  <2>2. pc' \in [Actors -> {"start", "grow", "lock", "trigger", "dec"}]
    <3>1. pc' = [pc EXCEPT ![w] = "lock"] \/ pc' = [pc EXCEPT ![w] = "grow"]
      BY <1>1 DEF AddLookup
    <3> QED BY <1>0, <3>1 DEF TypeOK
  <2>3. \A v \in Waiters : pc'[v] = "grow" => v[1] >= 2
    BY <1>0, <1>1, TableAssumption DEF AddLookup, TypeOK, TableOK
  <2> QED BY <1>0, <1>1, <2>1, <2>2, <2>3
        DEF AddLookup, TypeOK, TableOK, tableVars, epollVars
<1>2. ASSUME NEW w \in Waiters, AddGrow(w) PROVE TypeOK' /\ TableOK'
  <2>1. w[1] \in Nat /\ w[1] >= 2 BY <1>0, <1>2, TableAssumption DEF AddGrow, TableOK
  <2> DEFINE n == w[1] + w[1] \div 2
  <2>2. n \in Nat /\ n >= 2 /\ w[1] < n BY <2>1
  <2>3. ContextResize(n) BY <1>2 DEF AddGrow
  <2>4. /\ size' = n
        /\ slot' \in [Fds -> 0 .. MaxGen] /\ gens' \in [Fds -> 0 .. MaxGen]
        /\ \A fd \in Fds : fd < n => slot'[fd] # 0
    BY <1>0, <2>2, <2>3, Resized
  <2>5. <<w[1], slot'[w[1]]>> \in FdContexts BY <2>2, <2>4, TableAssumption DEF FdContexts
  <2>6. fd_ctx' \in [Actors -> FdContexts \cup {None}]
    BY <1>0, <1>2, <2>5 DEF AddGrow, TypeOK
  <2>7. pc' \in [Actors -> {"start", "grow", "lock", "trigger", "dec"}]
    BY <1>0, <1>2 DEF AddGrow, TypeOK
  <2>8. \A v \in Waiters : pc'[v] = "grow" => v[1] >= 2
    BY <1>0, <1>2 DEF AddGrow, TypeOK, TableOK
  <2> QED BY <1>0, <1>2, <2>2, <2>4, <2>6, <2>7, <2>8
        DEF AddGrow, TypeOK, TableOK, epollVars, waiterVars
<1>3. ASSUME NEW w \in Waiters, AddLocked(w) PROVE TypeOK' /\ TableOK'
  <2>1. fd_ctx[w] \in FdContexts BY <1>0, <1>3 DEF AddLocked, LocalsOK
  <2>2. /\ events' \in [FdContexts -> SUBSET Events]
        /\ interest' \in [Fds -> SUBSET Events] /\ target' \in [Fds -> FdContexts]
        /\ m_pendingEventCount' \in Nat
        /\ status' \in [Waiters -> {"off", "waiting", "woken", "dropped", "failed"}]
    <3>1. CASE UNCHANGED <<events, epollVars, m_pendingEventCount>>
      <4>1. status' = [status EXCEPT ![w] = "failed"] \/ status' = [status EXCEPT ![w] = "waiting"]
        BY <1>3 DEF AddLocked
      <4> QED BY <1>0, <3>1, <4>1 DEF TypeOK, epollVars
    <3>2. CASE /\ Ctl(fd_ctx[w], events[fd_ctx[w]] \cup {w[2]})
               /\ m_pendingEventCount' = m_pendingEventCount + 1
               /\ events' = [events EXCEPT ![fd_ctx[w]] = @ \cup {w[2]}]
               /\ status' = [status EXCEPT ![w] = "waiting"]
      BY <1>0, <2>1, <3>2 DEF TypeOK, Ctl, FdOf
    <3> QED BY <1>3, <3>1, <3>2 DEF AddLocked
  <2>3. fault' \in {"none", "addEvent", "trigger"} BY <1>3 DEF AddLocked
  <2> QED BY <1>0, <1>3, <2>2, <2>3 DEF AddLocked, TypeOK, TableOK, tableVars
<1>4. ASSUME NEW a \in Callers, NEW k \in Calls, NEW fd \in Fds, NEW e \in Events,
             CallLookup(a, k, fd, e)
      PROVE TypeOK' /\ TableOK'
  <2>1. <<fd, slot[fd]>> \in FdContexts
    BY <1>0, <1>4, TableAssumption DEF CallLookup, TypeOK, TableOK, FdContexts
  <2> QED BY <1>0, <1>4, <2>1
        DEF CallLookup, TypeOK, TableOK, tableVars, epollVars, waiterVars
<1>5. ASSUME NEW a \in Callers, CallFails(a) PROVE TypeOK' /\ TableOK'
  BY <1>0, <1>5 DEF CallFails, TypeOK, TableOK, tableVars, epollVars, waiterVars
<1>6. ASSUME NEW a \in Callers, DelLocked(a) PROVE TypeOK' /\ TableOK'
  <2>1. PICK e \in Events : /\ CallEvents(a) = {e} /\ e \in events[fd_ctx[a]]
                            /\ fd_ctx[a] \in FdContexts
    BY <1>0, <1>6, DelOne
  <2>2. Cardinality(Pairs(events)) - 1 \in Nat
    <3>1. Cardinality(Pairs([events EXCEPT ![fd_ctx[a]] = @ \ {e}])) = Cardinality(Pairs(events)) - 1
      BY <1>0, <2>1, PairsRemove DEF TypeOK
    <3> QED BY <3>1, PairsCount
  <2>3. m_pendingEventCount' \in Nat BY <1>0, <1>6, <2>2, Exact DEF IInv, DelLocked
  <2>4. /\ events' \in [FdContexts -> SUBSET Events]
        /\ interest' \in [Fds -> SUBSET Events] /\ target' \in [Fds -> FdContexts]
    BY <1>0, <1>6, <2>1 DEF DelLocked, TypeOK, Ctl, FdOf
  <2>5. status' \in [Waiters -> {"off", "waiting", "woken", "dropped", "failed"}]
    BY <1>0, <1>6 DEF DelLocked, TypeOK
  <2> QED BY <1>0, <1>6, <2>3, <2>4, <2>5 DEF DelLocked, TypeOK, TableOK, tableVars
<1>7. ASSUME NEW a \in Callers, CancelLocked(a) PROVE TypeOK' /\ TableOK'
  <2>1. fd_ctx[a] \in FdContexts BY <1>0, <1>7 DEF CancelLocked, LocalsOK
  <2>2. CallEvents(a) \in SUBSET Events BY <1>0, <2>1 DEF CallEvents, TypeOK
  <2>3. interest' \in [Fds -> SUBSET Events] /\ target' \in [Fds -> FdContexts]
    BY <1>0, <1>7, <2>1 DEF CancelLocked, TypeOK, Ctl, FdOf
  <2> QED BY <1>0, <1>7, <2>1, <2>2, <2>3
        DEF CancelLocked, TypeOK, TableOK, tableVars, waiterVars
<1>8. ASSUME NEW i \in Idlers, NEW fd \in Fds, EpollWait(i, fd) PROVE TypeOK' /\ TableOK'
  BY <1>0, <1>8 DEF EpollWait, TypeOK, TableOK, tableVars, epollVars, waiterVars
<1>9. ASSUME NEW i \in Idlers, IdleSkip(i) PROVE TypeOK' /\ TableOK'
  BY <1>0, <1>9 DEF IdleSkip, TypeOK, TableOK, tableVars, epollVars, waiterVars
<1>10. ASSUME NEW i \in Idlers, IdleLocked(i) PROVE TypeOK' /\ TableOK'
  <2>1. fd_ctx[i] \in FdContexts BY <1>0, <1>10 DEF IdleLocked, LocalsOK
  <2>2. RealEvents(i) \in SUBSET Events BY <1>0, <2>1 DEF RealEvents, TypeOK
  <2>3. interest' \in [Fds -> SUBSET Events] /\ target' \in [Fds -> FdContexts]
    BY <1>0, <1>10, <2>1 DEF IdleLocked, TypeOK, Ctl, FdOf
  <2> QED BY <1>0, <1>10, <2>1, <2>2, <2>3
        DEF IdleLocked, TypeOK, TableOK, tableVars, waiterVars
<1>11. ASSUME NEW a \in Callers \cup Idlers, Trigger(a) PROVE TypeOK' /\ TableOK'
  <2>1. a \in Actors /\ pc[a] \in Holding BY <1>11 DEF Trigger, Holding
  <2>2. fd_ctx[a] \in FdContexts /\ <<FdOf(fd_ctx[a]), FirstOf(todo[a])>> \in Waiters
    BY <1>0, <2>1, TriggerLocals
  <2> QED BY <1>0, <1>11, <2>1, <2>2
        DEF Trigger, TypeOK, TableOK, tableVars, epollVars
<1>12. ASSUME NEW a \in Callers \cup Idlers, Decrement(a) PROVE TypeOK' /\ TableOK'
  <2>1. a \in Actors /\ pc[a] \in Holding BY <1>12 DEF Decrement, Holding
  <2>2. fd_ctx[a] \in FdContexts BY <1>0, <2>1, TriggerLocals
  <2>3. Cardinality(Counting(pc)) - 1 \in Nat
    <3>1. pc \in [Actors -> {"start", "grow", "lock", "trigger", "dec"}] BY <1>0 DEF TypeOK
    <3>2. Cardinality(Counting([pc EXCEPT ![a] = "start"])) = Cardinality(Counting(pc)) - 1
      BY <1>12, <2>1, <3>1, CountingMove DEF Decrement
    <3>3. [pc EXCEPT ![a] = "start"] \in [Actors -> {"start", "grow", "lock", "trigger", "dec"}]
      BY <3>1
    <3>4. Cardinality(Counting([pc EXCEPT ![a] = "start"])) \in Nat BY <2>1, <3>3, CountingMove
    <3> QED BY <3>2, <3>4
  <2>4. m_pendingEventCount' \in Nat BY <1>0, <1>12, <2>3, Exact DEF IInv, Decrement
  <2> QED BY <1>0, <1>12, <2>1, <2>2, <2>4
        DEF Decrement, TypeOK, TableOK, tableVars, epollVars, waiterVars
<1> QED BY <1>1, <1>2, <1>3, <1>4, <1>5, <1>6, <1>7, <1>8, <1>9, <1>10, <1>11, <1>12 DEF Step

\* A step of an actor that holds no mutex, before or after it.
LEMMA Unlocked ==
  ASSUME TypeOK, LocalsOK, MutexOK, NEW a \in Actors, NEW v, NEW x,
         pc[a] \notin Holding, v \notin Holding,
         pc' = [pc EXCEPT ![a] = v],
         v = "lock" => x \in FdContexts /\ (a \in Waiters => FdOf(x) = a[1]),
         v = "lock" => fd_ctx' = [fd_ctx EXCEPT ![a] = x],
         v # "lock" => \A b \in Actors \ {a} : fd_ctx'[b] = fd_ctx[b],
         UNCHANGED <<lock, todo>>
  PROVE LocalsOK' /\ MutexOK'
<1> USE Sets
<1>0. \A b \in Actors \ {a} : pc'[b] = pc[b] /\ fd_ctx'[b] = fd_ctx[b] BY DEF TypeOK
<1>1. pc'[a] = v /\ (v = "lock" => fd_ctx'[a] = x) BY DEF TypeOK
<1>2. LocalsOK' BY <1>0, <1>1 DEF LocalsOK, FdOf
<1>3. \A c \in FdContexts : ~Free(c) => lock[c] \in Actors \ {a}
  BY DEF TypeOK, MutexOK, Free
<1>4. MutexOK' BY <1>0, <1>1, <1>3 DEF MutexOK, Free
<1> QED BY <1>2, <1>4

\* An actor takes the mutex of its context, with events to trigger.
LEMMA Locking ==
  ASSUME TypeOK, LocalsOK, MutexOK, NEW a \in Callers \cup Idlers, NEW evs,
         pc[a] = "lock", Free(fd_ctx[a]), evs # {},
         pc' = [pc EXCEPT ![a] = "trigger"],
         lock' = [lock EXCEPT ![fd_ctx[a]] = a],
         todo' = [todo EXCEPT ![a] = evs],
         UNCHANGED fd_ctx
  PROVE LocalsOK' /\ MutexOK'
<1> USE Sets
<1>0. a \in Actors /\ a \notin Waiters BY ActorsAssumption
<1>1. fd_ctx[a] \in FdContexts BY <1>0 DEF LocalsOK
<1>2. \A b \in Actors \ {a} : pc'[b] = pc[b] /\ todo'[b] = todo[b] BY DEF TypeOK
<1>3. pc'[a] = "trigger" /\ todo'[a] = evs BY <1>0 DEF TypeOK
<1>4. LocalsOK' BY <1>0, <1>1, <1>2, <1>3 DEF LocalsOK, FdOf
<1>5. lock'[fd_ctx[a]] = a /\ \A c \in FdContexts \ {fd_ctx[a]} : lock'[c] = lock[c]
  BY <1>1 DEF TypeOK
<1>6. \A c \in FdContexts : ~Free(c) => lock[c] \in Actors \ {a}
  BY DEF TypeOK, MutexOK, Free, Holding
<1>7. \A b \in Actors : pc'[b] \in Holding => lock'[fd_ctx'[b]] = b
  <2> SUFFICES ASSUME NEW b \in Actors, pc'[b] \in Holding PROVE lock'[fd_ctx'[b]] = b
    OBVIOUS
  <2>1. CASE b = a BY <1>5, <2>1
  <2>2. CASE b # a
    <3>1. pc[b] \in Holding /\ lock[fd_ctx[b]] = b /\ fd_ctx[b] \in FdContexts
      BY <1>2, <2>2 DEF MutexOK, LocalsOK
    <3>2. fd_ctx[b] # fd_ctx[a] BY <3>1 DEF Free
    <3> QED BY <1>5, <3>1, <3>2
  <2> QED BY <2>1, <2>2
<1>8. \A c \in FdContexts : ~Free(c)' => pc'[lock'[c]] \in Holding /\ fd_ctx'[lock'[c]] = c
  BY <1>2, <1>3, <1>5, <1>6 DEF MutexOK, Free, Holding
<1>9. MutexOK' BY <1>7, <1>8 DEF MutexOK
<1> QED BY <1>4, <1>9

LEMMA LocalsStep == IInv /\ fault = "none" /\ Step => LocalsOK' /\ MutexOK'
<1> SUFFICES ASSUME IInv, fault = "none", Step PROVE LocalsOK' /\ MutexOK'
  OBVIOUS
<1> USE Sets
<1>0. TypeOK /\ TableOK /\ LocalsOK /\ MutexOK BY DEF IInv
<1>1. ASSUME NEW w \in Waiters, AddLookup(w) PROVE LocalsOK' /\ MutexOK'
  <2>1. CASE size > w[1]
    <3>1. <<w[1], slot[w[1]]>> \in FdContexts
      BY <1>0, <2>1, TableAssumption DEF TypeOK, TableOK, FdContexts
    <3>2. pc' = [pc EXCEPT ![w] = "lock"] /\ pc[w] = "start"
          /\ fd_ctx' = [fd_ctx EXCEPT ![w] = <<w[1], slot[w[1]]>>]
          /\ UNCHANGED <<lock, todo>>
      BY <1>0, <1>1, <2>1, TableAssumption DEF AddLookup, TypeOK
    <3> QED BY <1>0, <3>1, <3>2, Unlocked DEF Holding, FdOf
  <2>2. CASE ~(size > w[1])
    <3>1. pc' = [pc EXCEPT ![w] = "grow"] /\ pc[w] = "start" /\ UNCHANGED <<fd_ctx, lock, todo>>
      BY <1>1, <2>2 DEF AddLookup
    <3> QED BY <1>0, <3>1, Unlocked DEF Holding
  <2> QED BY <2>1, <2>2
<1>2. ASSUME NEW w \in Waiters, AddGrow(w) PROVE LocalsOK' /\ MutexOK'
  <2>1. w[1] \in Nat /\ w[1] >= 2 BY <1>0, <1>2, TableAssumption DEF AddGrow, TableOK
  <2> DEFINE n == w[1] + w[1] \div 2
  <2>2. n \in Nat /\ n >= 2 /\ w[1] < n BY <2>1
  <2>3. ContextResize(n) BY <1>2 DEF AddGrow
  <2>4. slot' \in [Fds -> 0 .. MaxGen] /\ slot'[w[1]] # 0 BY <1>0, <2>2, <2>3, Resized
  <2>5. <<w[1], slot'[w[1]]>> \in FdContexts BY <2>4, TableAssumption DEF FdContexts
  <2>6. pc' = [pc EXCEPT ![w] = "lock"] /\ pc[w] = "grow"
        /\ fd_ctx' = [fd_ctx EXCEPT ![w] = <<w[1], slot'[w[1]]>>]
        /\ UNCHANGED <<lock, todo>>
    BY <1>2 DEF AddGrow
  <2> QED BY <1>0, <2>5, <2>6, Unlocked DEF Holding, FdOf
<1>3. ASSUME NEW w \in Waiters, AddLocked(w) PROVE LocalsOK' /\ MutexOK'
  <2>1. pc' = [pc EXCEPT ![w] = "start"] /\ pc[w] = "lock"
        /\ fd_ctx' = [fd_ctx EXCEPT ![w] = None] /\ UNCHANGED <<lock, todo>>
    BY <1>3 DEF AddLocked
  <2>2. \A b \in Actors \ {w} : fd_ctx'[b] = fd_ctx[b] BY <1>0, <2>1 DEF TypeOK
  <2> QED BY <1>0, <2>1, <2>2, Unlocked DEF Holding
<1>4. ASSUME NEW a \in Callers, NEW k \in Calls, NEW fd \in Fds, NEW e \in Events,
             CallLookup(a, k, fd, e)
      PROVE LocalsOK' /\ MutexOK'
  <2>1. <<fd, slot[fd]>> \in FdContexts
    BY <1>0, <1>4, TableAssumption DEF CallLookup, TypeOK, TableOK, FdContexts
  <2>2. pc' = [pc EXCEPT ![a] = "lock"] /\ pc[a] = "start"
        /\ fd_ctx' = [fd_ctx EXCEPT ![a] = <<fd, slot[fd]>>] /\ UNCHANGED <<lock, todo>>
    BY <1>4 DEF CallLookup
  <2>3. a \notin Waiters BY ActorsAssumption
  <2> QED BY <1>0, <2>1, <2>2, <2>3, Unlocked DEF Holding
<1>5. ASSUME NEW a \in Callers, CallFails(a) \/ DelLocked(a) PROVE LocalsOK' /\ MutexOK'
  <2>1. pc' = [pc EXCEPT ![a] = "start"] /\ pc[a] = "lock"
        /\ fd_ctx' = [fd_ctx EXCEPT ![a] = None] /\ UNCHANGED <<lock, todo>>
    BY <1>5 DEF CallFails, DelLocked
  <2>2. \A b \in Actors \ {a} : fd_ctx'[b] = fd_ctx[b] BY <1>0, <2>1 DEF TypeOK
  <2> QED BY <1>0, <2>1, <2>2, Unlocked DEF Holding
<1>6. ASSUME NEW a \in Callers, CancelLocked(a) PROVE LocalsOK' /\ MutexOK'
  BY <1>0, <1>6, Locking DEF CancelLocked
<1>7. ASSUME NEW i \in Idlers, NEW fd \in Fds, EpollWait(i, fd) PROVE LocalsOK' /\ MutexOK'
  <2>1. target[fd] \in FdContexts BY <1>0 DEF TypeOK
  <2>2. pc' = [pc EXCEPT ![i] = "lock"] /\ pc[i] = "start"
        /\ fd_ctx' = [fd_ctx EXCEPT ![i] = target[fd]] /\ UNCHANGED <<lock, todo>>
    BY <1>7 DEF EpollWait
  <2>3. i \notin Waiters BY ActorsAssumption
  <2> QED BY <1>0, <2>1, <2>2, <2>3, Unlocked DEF Holding
<1>8. ASSUME NEW i \in Idlers, IdleSkip(i) PROVE LocalsOK' /\ MutexOK'
  <2>1. pc' = [pc EXCEPT ![i] = "start"] /\ pc[i] = "lock"
        /\ fd_ctx' = [fd_ctx EXCEPT ![i] = None] /\ UNCHANGED <<lock, todo>>
    BY <1>8 DEF IdleSkip
  <2>2. \A b \in Actors \ {i} : fd_ctx'[b] = fd_ctx[b] BY <1>0, <2>1 DEF TypeOK
  <2> QED BY <1>0, <2>1, <2>2, Unlocked DEF Holding
<1>9. ASSUME NEW i \in Idlers, IdleLocked(i) PROVE LocalsOK' /\ MutexOK'
  <2>1. RealEvents(i) # {} BY <1>9 DEF IdleLocked
  <2> QED BY <1>0, <1>9, <2>1, Locking DEF IdleLocked
<1>10. ASSUME NEW a \in Callers \cup Idlers, Trigger(a) PROVE LocalsOK' /\ MutexOK'
  <2>1. /\ \A b \in Actors : pc'[b] \in Holding <=> pc[b] \in Holding
        /\ \A b \in Actors : pc'[b] = "lock" => pc[b] = "lock"
        /\ UNCHANGED <<fd_ctx, todo, lock>>
    BY <1>0, <1>10 DEF Trigger, TypeOK, Holding
  <2>2. LocalsOK' BY <1>0, <2>1 DEF LocalsOK, FdOf
  <2>3. \A c \in FdContexts : lock[c] \in Actors \cup {None} BY <1>0 DEF TypeOK
  <2>4. MutexOK' BY <1>0, <2>1, <2>3 DEF MutexOK, Free
  <2> QED BY <2>2, <2>4
<1>11. ASSUME NEW a \in Callers \cup Idlers, Decrement(a) PROVE LocalsOK' /\ MutexOK'
  <2> DEFINE c == fd_ctx[a]
             left == todo[a] \ {FirstOf(todo[a])}
  <2>1. a \in Actors /\ a \notin Waiters /\ pc[a] \in Holding /\ c \in FdContexts /\ lock[c] = a
    BY <1>0, <1>11, ActorsAssumption DEF Decrement, LocalsOK, MutexOK, Holding
  <2>2. \A b \in Actors \ {a} : pc'[b] = pc[b] /\ todo'[b] = todo[b] /\ fd_ctx'[b] = fd_ctx[b]
    BY <1>0, <1>11 DEF Decrement, TypeOK
  <2>3. \A d \in FdContexts \ {c} : lock'[d] = lock[d] BY <1>0, <1>11 DEF Decrement, TypeOK
  <2>4. \A d \in FdContexts \ {c} : lock[d] # a BY <1>0, <2>1 DEF MutexOK, Free
  <2>5. \A b \in Actors \ {a} : pc[b] \in Holding => fd_ctx[b] \in FdContexts \ {c}
    BY <1>0, <2>1 DEF MutexOK, LocalsOK
  <2>6. CASE left = {}
    <3>1. pc'[a] = "start" /\ lock'[c] = None
      BY <1>0, <1>11, <2>1, <2>6 DEF Decrement, TypeOK
    <3>2. LocalsOK' BY <1>0, <2>1, <2>2, <3>1 DEF LocalsOK, FdOf, Holding
    <3>3. \A b \in Actors : pc'[b] \in Holding => lock'[fd_ctx'[b]] = b
      BY <1>0, <2>2, <2>3, <2>5, <3>1 DEF MutexOK, Holding
    <3>4. \A d \in FdContexts : ~Free(d)' => pc'[lock'[d]] \in Holding /\ fd_ctx'[lock'[d]] = d
      <4> SUFFICES ASSUME NEW d \in FdContexts, ~Free(d)'
                   PROVE pc'[lock'[d]] \in Holding /\ fd_ctx'[lock'[d]] = d
        OBVIOUS
      <4>1. d # c BY <3>1 DEF Free
      <4>2. lock'[d] = lock[d] /\ lock[d] # None /\ lock[d] \in Actors \ {a}
        BY <1>0, <2>3, <2>4, <4>1 DEF Free, TypeOK
      <4> QED BY <1>0, <2>2, <4>2 DEF MutexOK, Free
    <3> QED BY <3>2, <3>3, <3>4 DEF MutexOK
  <2>7. CASE left # {}
    <3>1. pc'[a] = "trigger" /\ lock'[c] = a /\ fd_ctx'[a] = c /\ todo'[a] = left
      BY <1>0, <1>11, <2>1, <2>7 DEF Decrement, TypeOK
    <3>2. LocalsOK' BY <1>0, <2>1, <2>2, <2>7, <3>1 DEF LocalsOK, FdOf, Holding
    <3>3. \A b \in Actors : pc'[b] \in Holding => lock'[fd_ctx'[b]] = b
      BY <1>0, <2>2, <2>3, <2>5, <3>1 DEF MutexOK, Holding
    <3>4. \A d \in FdContexts : ~Free(d)' => pc'[lock'[d]] \in Holding /\ fd_ctx'[lock'[d]] = d
      <4> SUFFICES ASSUME NEW d \in FdContexts, ~Free(d)'
                   PROVE pc'[lock'[d]] \in Holding /\ fd_ctx'[lock'[d]] = d
        OBVIOUS
      <4>1. CASE d = c BY <3>1, <4>1 DEF Holding
      <4>2. CASE d # c
        <5>1. lock'[d] = lock[d] /\ lock[d] # None /\ lock[d] \in Actors \ {a}
          BY <1>0, <2>3, <2>4, <4>2 DEF Free, TypeOK
        <5> QED BY <1>0, <2>2, <5>1 DEF MutexOK, Free
      <4> QED BY <4>1, <4>2
    <3> QED BY <3>2, <3>3, <3>4 DEF MutexOK
  <2> QED BY <2>6, <2>7
<1> QED BY <1>1, <1>2, <1>3, <1>4, <1>5, <1>6, <1>7, <1>8, <1>9, <1>10, <1>11 DEF Step

----------------------------------------------------------------------------
\* The steps that leave registrations alone.
Lookups ==
  \/ \E w \in Waiters : AddLookup(w) \/ AddGrow(w)
  \/ \E a \in Callers : \/ \E k \in Calls, fd \in Fds, e \in Events : CallLookup(a, k, fd, e)
                        \/ CallFails(a)
  \/ \E i \in Idlers : (\E fd \in Fds : EpollWait(i, fd)) \/ IdleSkip(i)

Leaves ==
  /\ UNCHANGED <<events, lock, todo, interest, target, status, fault, m_pendingEventCount>>
  /\ \A a \in Actors : \/ pc'[a] # "dec" /\ pc[a] # "dec"
                       \/ pc'[a] = pc[a] /\ fd_ctx'[a] = fd_ctx[a]

LEMMA LookupsLeave ==
  ASSUME TypeOK, Lookups
  PROVE Leaves
<1> USE Sets
<1>0. ASSUME NEW a \in Actors, pc[a] # "dec", NEW v, v # "dec", pc' = [pc EXCEPT ![a] = v],
             NEW x, fd_ctx' = [fd_ctx EXCEPT ![a] = x],
             UNCHANGED <<events, lock, todo, interest, target, status, fault, m_pendingEventCount>>
      PROVE Leaves
  BY <1>0 DEF Leaves, TypeOK
<1>1. ASSUME NEW w \in Waiters, AddLookup(w) PROVE Leaves
  <2>1. CASE pc' = [pc EXCEPT ![w] = "grow"] /\ UNCHANGED fd_ctx
    BY <1>1, <2>1 DEF AddLookup, Leaves, TypeOK, epollVars
  <2>2. CASE pc' = [pc EXCEPT ![w] = "lock"]
             /\ fd_ctx' = [fd_ctx EXCEPT ![w] = <<w[1], slot[w[1]]>>]
    BY <1>0, <1>1, <2>2 DEF AddLookup, epollVars
  <2> QED BY <1>1, <2>1, <2>2 DEF AddLookup
<1>2. ASSUME NEW w \in Waiters, AddGrow(w) PROVE Leaves
  BY <1>0, <1>2 DEF AddGrow, epollVars, waiterVars
<1>3. ASSUME NEW a \in Callers, CallFails(a) PROVE Leaves
  BY <1>0, <1>3 DEF CallFails, epollVars, waiterVars
<1>4. ASSUME NEW a \in Callers, NEW k \in Calls, NEW fd \in Fds, NEW e \in Events,
             CallLookup(a, k, fd, e)
      PROVE Leaves
  BY <1>0, <1>4 DEF CallLookup, epollVars, waiterVars
<1>5. ASSUME NEW i \in Idlers, IdleSkip(i) PROVE Leaves
  BY <1>0, <1>5 DEF IdleSkip, epollVars, waiterVars
<1>6. ASSUME NEW i \in Idlers, NEW fd \in Fds, EpollWait(i, fd) PROVE Leaves
  BY <1>0, <1>6 DEF EpollWait, epollVars, waiterVars
<1> QED BY <1>1, <1>2, <1>3, <1>4, <1>5, <1>6 DEF Lookups

\* The registered events are those after the last trigger of their holder.
LEMMA DecStep == IInv /\ fault = "none" /\ Step => DecOK'
<1> SUFFICES ASSUME IInv, fault = "none", Step PROVE DecOK'
  OBVIOUS
<1> USE Sets
<1>0. TypeOK /\ TableOK /\ LocalsOK /\ MutexOK /\ DecOK BY DEF IInv
<1>1. CASE Lookups BY <1>0, <1>1, LookupsLeave DEF Leaves, DecOK
<1>2. ASSUME NEW a \in Actors, pc[a] = "lock", Free(fd_ctx[a]), NEW v, v # "dec",
             pc' = [pc EXCEPT ![a] = v],
             \A b \in Actors \ {a} : fd_ctx'[b] = fd_ctx[b] /\ todo'[b] = todo[b],
             \A c \in FdContexts \ {fd_ctx[a]} : events'[c] = events[c]
      PROVE DecOK'
  <2> SUFFICES ASSUME NEW b \in Actors, pc'[b] = "dec"
               PROVE FirstOf(todo'[b]) \notin events'[fd_ctx'[b]]
    BY DEF DecOK, FirstOf
  <2>1. b # a /\ pc[b] = "dec" BY <1>0, <1>2 DEF TypeOK
  <2>2. fd_ctx[b] \in FdContexts /\ lock[fd_ctx[b]] = b
    BY <1>0, <2>1 DEF LocalsOK, MutexOK, Holding
  <2>3. fd_ctx[b] # fd_ctx[a] BY <1>2, <2>2 DEF Free
  <2> QED BY <1>0, <1>2, <2>1, <2>2, <2>3 DEF DecOK, FirstOf
<1>3. ASSUME NEW w \in Waiters, AddLocked(w) PROVE DecOK'
  <2>1. \A b \in Actors \ {w} : fd_ctx'[b] = fd_ctx[b] /\ todo'[b] = todo[b]
    BY <1>0, <1>3 DEF AddLocked, TypeOK
  <2>2. \A c \in FdContexts \ {fd_ctx[w]} : events'[c] = events[c]
    BY <1>0, <1>3 DEF AddLocked, TypeOK
  <2> QED BY <1>2, <1>3, <2>1, <2>2 DEF AddLocked
<1>4. ASSUME NEW a \in Callers, DelLocked(a) PROVE DecOK'
  <2>1. \A b \in Actors \ {a} : fd_ctx'[b] = fd_ctx[b] /\ todo'[b] = todo[b]
    BY <1>0, <1>4 DEF DelLocked, TypeOK
  <2>2. \A c \in FdContexts \ {fd_ctx[a]} : events'[c] = events[c]
    BY <1>0, <1>4 DEF DelLocked, TypeOK
  <2> QED BY <1>2, <1>4, <2>1, <2>2 DEF DelLocked
<1>5. ASSUME NEW a \in Callers, CancelLocked(a) PROVE DecOK'
  <2>1. \A b \in Actors \ {a} : fd_ctx'[b] = fd_ctx[b] /\ todo'[b] = todo[b]
    BY <1>0, <1>5 DEF CancelLocked, TypeOK
  <2> QED BY <1>2, <1>5, <2>1 DEF CancelLocked
<1>6. ASSUME NEW i \in Idlers, IdleLocked(i) PROVE DecOK'
  <2>1. \A b \in Actors \ {i} : fd_ctx'[b] = fd_ctx[b] /\ todo'[b] = todo[b]
    BY <1>0, <1>6 DEF IdleLocked, TypeOK
  <2> QED BY <1>2, <1>6, <2>1 DEF IdleLocked
<1>7. ASSUME NEW a \in Callers \cup Idlers, Trigger(a) PROVE DecOK'
  <2>1. a \in Actors /\ fd_ctx[a] \in FdContexts
    BY <1>0, <1>7 DEF Trigger, LocalsOK, Holding
  <2>2. \A c \in FdContexts : events'[c] \subseteq events[c]
    BY <1>0, <1>7 DEF Trigger, TypeOK
  <2>3. FirstOf(todo[a]) \notin events'[fd_ctx[a]] BY <1>0, <1>7, <2>1 DEF Trigger, TypeOK
  <2>4. \A b \in Actors \ {a} : pc'[b] = pc[b] BY <1>0, <1>7 DEF Trigger, TypeOK
  <2>5. \A b \in Actors : pc[b] = "dec" => fd_ctx[b] \in FdContexts
    BY <1>0 DEF LocalsOK, Holding
  <2>6. UNCHANGED <<fd_ctx, todo>> BY <1>7 DEF Trigger
  <2> QED BY <1>0, <2>1, <2>2, <2>3, <2>4, <2>5, <2>6 DEF DecOK, FirstOf
<1>8. ASSUME NEW a \in Callers \cup Idlers, Decrement(a) PROVE DecOK'
  <2>1. a \in Actors /\ pc'[a] # "dec" BY <1>0, <1>8 DEF Decrement, TypeOK
  <2>2. \A b \in Actors \ {a} : pc'[b] = pc[b] /\ fd_ctx'[b] = fd_ctx[b] /\ todo'[b] = todo[b]
    BY <1>0, <1>8 DEF Decrement, TypeOK
  <2>3. UNCHANGED events BY <1>8 DEF Decrement
  <2> QED BY <1>0, <2>1, <2>2, <2>3 DEF DecOK, FirstOf
<1> QED BY <1>1, <1>3, <1>4, <1>5, <1>6, <1>7, <1>8 DEF Step, Lookups

----------------------------------------------------------------------------
\* Of the contexts a descriptor has had, one at most is watched.
LEMMA OneWatched ==
  ASSUME TypeOK, Watched, fault = "none", NEW c \in FdContexts, Rest(c) # {},
         NEW d \in FdContexts, d # c, FdOf(d) = FdOf(c)
  PROVE Rest(d) = {}
BY DEF Watched

\* epoll_ctl for a context tells epoll what will be left in it.
LEMMA CtlWatched ==
  ASSUME TypeOK, Watched, fault = "none", NEW c \in FdContexts, NEW evs, Ctl(c, evs),
         Rest(c)' = evs,
         \A d \in FdContexts \ {c} : Rest(d)' = Rest(d),
         \A d \in FdContexts \ {c} : FdOf(d) = FdOf(c) => Rest(d) = {}
  PROVE Watched'
<1> USE Sets
<1> SUFFICES ASSUME NEW d \in FdContexts, Rest(d)' # {}
             PROVE interest'[FdOf(d)] = Rest(d)' /\ target'[FdOf(d)] = d
  BY DEF Watched, FdOf
<1>1. CASE d = c BY <1>1 DEF Ctl, TypeOK, FdOf
<1>2. CASE d # c
  <2>1. Rest(d)' = Rest(d) /\ FdOf(d) # FdOf(c) BY <1>2
  <2>2. interest'[FdOf(d)] = interest[FdOf(d)] /\ target'[FdOf(d)] = target[FdOf(d)]
    BY <2>1 DEF Ctl, TypeOK, FdOf
  <2> QED BY <2>1, <2>2 DEF Watched
<1> QED BY <1>1, <1>2

\* An actor takes a context's mutex to trigger evs.
LEMMA LockWatched ==
  ASSUME TypeOK, LocalsOK, MutexOK, Watched, fault = "none",
         NEW a \in Callers \cup Idlers, NEW evs,
         pc[a] = "lock", Free(fd_ctx[a]), events[fd_ctx[a]] # {},
         Ctl(fd_ctx[a], events[fd_ctx[a]] \ evs),
         lock' = [lock EXCEPT ![fd_ctx[a]] = a],
         todo' = [todo EXCEPT ![a] = evs],
         UNCHANGED events
  PROVE Watched'
<1> USE Sets
<1>1. a \in Actors /\ a # None BY DEF LocalsOK
<1>2. PICK c \in FdContexts : c = fd_ctx[a] BY <1>1 DEF LocalsOK
<1>3. PICK gone : gone = evs OBVIOUS
<1>4. lock'[c] = a /\ todo'[a] = gone BY <1>1, <1>2, <1>3 DEF TypeOK
<1>5. PICK left : left = events[c] \ gone OBVIOUS
<1>6. Rest(c)' = left BY <1>1, <1>2, <1>4, <1>5 DEF Rest, Free
<1>7. \A d \in FdContexts \ {c} : Rest(d)' = Rest(d)
  <2> SUFFICES ASSUME NEW d \in FdContexts \ {c} PROVE Rest(d)' = Rest(d)
    OBVIOUS
  <2>1. lock'[d] = lock[d] BY <1>2 DEF TypeOK
  <2>2. lock[d] # a BY <1>1 DEF MutexOK, Free, Holding
  <2>3. lock[d] # None => todo'[lock[d]] = todo[lock[d]] BY <2>2 DEF TypeOK
  <2> QED BY <2>1, <2>3 DEF Rest, Free
<1>8. Rest(c) # {} BY <1>2 DEF Rest
<1>9. \A d \in FdContexts \ {c} : FdOf(d) = FdOf(c) => Rest(d) = {} BY <1>8, OneWatched
<1>10. Ctl(c, left) BY <1>2, <1>3, <1>5
<1> QED BY <1>6, <1>7, <1>9, <1>10, CtlWatched

LEMMA WatchedStep == IInv /\ fault = "none" /\ Step => Watched'
<1> SUFFICES ASSUME IInv, fault = "none", Step PROVE Watched'
  OBVIOUS
<1> USE Sets
<1>0. TypeOK /\ TableOK /\ LocalsOK /\ MutexOK /\ DecOK /\ Watched BY DEF IInv
<1>1. CASE Lookups
  <2>1. UNCHANGED <<events, lock, todo, interest, target, fault>>
    BY <1>0, <1>1, LookupsLeave DEF Leaves
  <2>2. \A c \in FdContexts : Rest(c)' = Rest(c) BY <2>1 DEF Rest, Free
  <2> QED BY <1>0, <2>1, <2>2 DEF Watched, FdOf
<1>2. ASSUME NEW w \in Waiters, AddLocked(w) PROVE Watched'
  <2>0. PICK c \in FdContexts : c = fd_ctx[w] BY <1>0, <1>2 DEF AddLocked, LocalsOK
  <2>1. Free(c) /\ UNCHANGED <<lock, todo>> BY <1>2, <2>0 DEF AddLocked
  <2>2. CASE UNCHANGED <<events, epollVars>>
    <3>1. \A d \in FdContexts : Rest(d)' = Rest(d) BY <2>1, <2>2 DEF Rest, Free
    <3> QED BY <1>0, <2>2, <3>1 DEF Watched, FdOf, epollVars
  <2>3. CASE /\ ~CtlAddFails(c) /\ Ctl(c, events[c] \cup {w[2]})
             /\ events' = [events EXCEPT ![c] = @ \cup {w[2]}]
    <3>0. PICK evs : evs = events[c] \cup {w[2]} OBVIOUS
    <3>1. Rest(c)' = evs BY <1>0, <2>1, <2>3, <3>0 DEF Rest, Free, TypeOK
    <3>2. \A d \in FdContexts \ {c} : Rest(d)' = Rest(d)
      BY <1>0, <2>1, <2>3 DEF Rest, Free, TypeOK
    <3>3. ASSUME NEW d \in FdContexts \ {c}, FdOf(d) = FdOf(c) PROVE Rest(d) = {}
      <4> SUFFICES ASSUME Rest(d) # {} PROVE FALSE
        OBVIOUS
      <4>1. interest[FdOf(c)] # {} BY <1>0, <3>3 DEF Watched
      <4>2. Rest(c) # {} BY <2>1, <2>3, <4>1 DEF CtlAddFails, Rest
      <4> QED BY <1>0, <2>1, <3>3, <4>2, OneWatched
    <3>4. Ctl(c, evs) BY <2>3, <3>0
    <3> QED BY <1>0, <3>1, <3>2, <3>3, <3>4, CtlWatched
  <2> QED BY <1>2, <2>0, <2>2, <2>3 DEF AddLocked
<1>3. ASSUME NEW a \in Callers, DelLocked(a) PROVE Watched'
  <2>0. PICK c \in FdContexts : c = fd_ctx[a] BY <1>0, <1>3 DEF DelLocked, LocalsOK
  <2>9. PICK left : left = events[c] \ CallEvents(a) OBVIOUS
  <2>1. /\ Free(c) /\ UNCHANGED <<lock, todo>>
        /\ Ctl(c, left) /\ events' = [events EXCEPT ![c] = left]
    BY <1>3, <2>0, <2>9 DEF DelLocked
  <2>2. events[c] # {} BY <1>0, <1>3, <2>0, DelOne
  <2>3. Rest(c)' = left BY <1>0, <2>1 DEF Rest, Free, TypeOK
  <2>4. \A d \in FdContexts \ {c} : Rest(d)' = Rest(d) BY <1>0, <2>1 DEF Rest, Free, TypeOK
  <2>5. Rest(c) # {} BY <2>1, <2>2 DEF Rest
  <2>6. \A d \in FdContexts \ {c} : FdOf(d) = FdOf(c) => Rest(d) = {}
    BY <1>0, <2>1, <2>5, OneWatched
  <2> QED BY <1>0, <2>1, <2>3, <2>4, <2>6, CtlWatched
<1>4. ASSUME NEW a \in Callers, CancelLocked(a) PROVE Watched'
  <2>1. events[fd_ctx[a]] # {} BY <1>4 DEF CancelLocked, CallEvents
  <2> QED BY <1>0, <1>4, <2>1, LockWatched DEF CancelLocked
<1>5. ASSUME NEW i \in Idlers, IdleLocked(i) PROVE Watched'
  <2>1. events[fd_ctx[i]] # {} BY <1>5 DEF IdleLocked
  <2> QED BY <1>0, <1>5, <2>1, LockWatched DEF IdleLocked
<1>6. ASSUME NEW a \in Callers \cup Idlers, Trigger(a) PROVE Watched'
  <2>0. PICK c \in FdContexts, e \in Events : c = fd_ctx[a] /\ e = FirstOf(todo[a]) /\ e \in todo[a]
    BY <1>0, <1>6, TriggerLocals DEF Trigger, Holding
  <2>1. /\ a \in Actors /\ a # None /\ lock[c] = a
        /\ UNCHANGED <<lock, todo, epollVars>>
        /\ events' = [events EXCEPT ![c] = @ \ {e}]
    BY <1>0, <1>6, <2>0 DEF Trigger, MutexOK, Holding
  <2>3. \A d \in FdContexts : Rest(d)' = Rest(d)
    <3>1. Rest(c) = events[c] \ todo[a] BY <2>1 DEF Rest, Free
    <3>2. Rest(c)' = (events[c] \ {e}) \ todo[a] BY <1>0, <2>1 DEF Rest, Free, TypeOK
    <3>3. \A d \in FdContexts \ {c} : Rest(d)' = Rest(d) BY <1>0, <2>1 DEF Rest, Free, TypeOK
    <3> QED BY <2>0, <3>1, <3>2, <3>3
  <2> QED BY <1>0, <2>1, <2>3 DEF Watched, FdOf, epollVars
<1>7. ASSUME NEW a \in Callers \cup Idlers, Decrement(a) PROVE Watched'
  <2>0. PICK c \in FdContexts, e \in Events : c = fd_ctx[a] /\ e = FirstOf(todo[a]) /\ e \in todo[a]
    BY <1>0, <1>7, TriggerLocals DEF Decrement, Holding
  <2>9. PICK left : left = todo[a] \ {e} OBVIOUS
  <2>1. /\ a \in Actors /\ a # None /\ lock[c] = a
        /\ e \notin events[c]
        /\ UNCHANGED <<events, epollVars, fault>>
    BY <1>0, <1>7, <2>0 DEF Decrement, MutexOK, DecOK, Holding
  <2>2. todo'[a] = left /\ lock'[c] = IF left = {} THEN None ELSE a
    BY <1>0, <1>7, <2>0, <2>9, <2>1 DEF Decrement, TypeOK
  <2>3. Rest(c) = events[c] \ todo[a] BY <2>1 DEF Rest, Free
  <2>4. Rest(c)' = IF left = {} THEN events[c] ELSE events[c] \ left
    BY <2>1, <2>2 DEF Rest, Free
  <2>5. Rest(c)' = Rest(c) BY <2>9, <2>1, <2>3, <2>4
  <2>6. \A d \in FdContexts \ {c} : Rest(d)' = Rest(d)
    <3> SUFFICES ASSUME NEW d \in FdContexts \ {c} PROVE Rest(d)' = Rest(d)
      OBVIOUS
    <3>1. lock'[d] = lock[d] BY <1>0, <1>7, <2>0 DEF Decrement, TypeOK
    <3>2. lock[d] # a BY <1>0, <2>0, <2>1 DEF MutexOK, Free
    <3>3. lock[d] # None => todo'[lock[d]] = todo[lock[d]]
      BY <1>0, <1>7, <3>2 DEF Decrement, TypeOK
    <3> QED BY <2>1, <3>1, <3>3 DEF Rest, Free
  <2> QED BY <1>0, <2>1, <2>5, <2>6 DEF Watched, FdOf, epollVars
<1> QED BY <1>1, <1>2, <1>3, <1>4, <1>5, <1>6, <1>7 DEF Step, Lookups

----------------------------------------------------------------------------
LEMMA WaitingStep == IInv /\ fault = "none" /\ Step => WaitingOK'
<1> SUFFICES ASSUME IInv, fault = "none", Step PROVE WaitingOK'
  OBVIOUS
<1> USE Sets
<1>0. TypeOK /\ LocalsOK /\ WaitingOK BY DEF IInv
<1>1. CASE Lookups
  <2>1. UNCHANGED <<events, status>> BY <1>0, <1>1, LookupsLeave DEF Leaves
  <2> QED BY <1>0, <2>1 DEF WaitingOK, FdOf
<1>2. ASSUME NEW w \in Waiters, AddLocked(w) PROVE WaitingOK'
  <2>1. fd_ctx[w] \in FdContexts /\ FdOf(fd_ctx[w]) = w[1]
    BY <1>0, <1>2 DEF AddLocked, LocalsOK
  <2>2. CASE status' = [status EXCEPT ![w] = "failed"] /\ UNCHANGED events
    BY <1>0, <2>2 DEF WaitingOK, FdOf, TypeOK
  <2>3. CASE /\ events' = [events EXCEPT ![fd_ctx[w]] = @ \cup {w[2]}]
             /\ status' = [status EXCEPT ![w] = "waiting"]
    <3>1. \A c \in FdContexts : events[c] \subseteq events'[c]
      BY <1>0, <2>3 DEF TypeOK
    <3>2. w[2] \in events'[fd_ctx[w]] BY <1>0, <2>1, <2>3 DEF TypeOK
    <3>3. \A v \in Waiters \ {w} : status'[v] = status[v] BY <1>0, <2>3 DEF TypeOK
    <3> QED BY <1>0, <2>1, <3>1, <3>2, <3>3 DEF WaitingOK, FdOf
  <2> QED BY <1>2, <2>2, <2>3 DEF AddLocked
<1>3. ASSUME NEW a \in Callers, DelLocked(a) PROVE WaitingOK'
  <2>1. PICK e \in Events : /\ CallEvents(a) = {e} /\ e \in events[fd_ctx[a]]
                            /\ fd_ctx[a] \in FdContexts
    BY <1>0, <1>3, DelOne
  <2>2. /\ events' = [events EXCEPT ![fd_ctx[a]] = @ \ {e}]
        /\ status' = [w \in Waiters |-> IF w[1] = FdOf(fd_ctx[a]) /\ w[2] \in {e}
                                          THEN "dropped" ELSE status[w]]
    BY <1>3, <2>1 DEF DelLocked
  <2> QED BY <1>0, <2>1, <2>2 DEF WaitingOK, FdOf, TypeOK
<1>4. ASSUME NEW a \in Callers, CancelLocked(a) PROVE WaitingOK'
  BY <1>0, <1>4 DEF CancelLocked, waiterVars, WaitingOK, FdOf
<1>5. ASSUME NEW i \in Idlers, IdleLocked(i) PROVE WaitingOK'
  BY <1>0, <1>5 DEF IdleLocked, waiterVars, WaitingOK, FdOf
<1>6. ASSUME NEW a \in Callers \cup Idlers, Trigger(a) PROVE WaitingOK'
  <2>1. PICK c \in FdContexts, e \in Events : c = fd_ctx[a] /\ e = FirstOf(todo[a])
    BY <1>0, <1>6, TriggerLocals DEF Trigger, Holding
  <2>2. /\ events' = [events EXCEPT ![c] = @ \ {e}]
        /\ status' = [status EXCEPT ![<<c[1], e>>] = "woken"]
    BY <1>6, <2>1 DEF Trigger, FdOf
  <2>3. ASSUME NEW w \in Waiters, status'[w] = "waiting"
        PROVE \E d \in FdContexts : d[1] = w[1] /\ w[2] \in events'[d]
    <3>1. status[w] = "waiting" /\ w # <<c[1], e>> BY <1>0, <2>2, <2>3 DEF TypeOK
    <3>2. PICK d \in FdContexts : d[1] = w[1] /\ w[2] \in events[d]
      BY <1>0, <3>1 DEF WaitingOK, FdOf
    <3>3. d # c \/ w[2] # e BY <3>1, <3>2
    <3>4. w[2] \in events'[d] BY <1>0, <2>2, <3>2, <3>3 DEF TypeOK
    <3> QED BY <3>2, <3>4
  <2> QED BY <2>3 DEF WaitingOK, FdOf
<1>7. ASSUME NEW a \in Callers \cup Idlers, Decrement(a) PROVE WaitingOK'
  BY <1>0, <1>7 DEF Decrement, waiterVars, WaitingOK, FdOf
<1> QED BY <1>1, <1>2, <1>3, <1>4, <1>5, <1>6, <1>7 DEF Step, Lookups

\* PendingExact after a step, in terms of the counts.
LEMMA ExactAfter ==
  ASSUME fault' = "none" =>
           m_pendingEventCount' = Cardinality(Pairs(events')) + Cardinality(Counting(pc'))
  PROVE PendingExact'
<1>1. Registered' = Pairs(events') BY DEF Registered, Pairs
<1>2. {a \in Actors : pc'[a] = "dec"} = Counting(pc') BY DEF Counting
<1> QED BY <1>1, <1>2 DEF PendingExact

LEMMA PendingStep == IInv /\ fault = "none" /\ Step => PendingExact'
<1> SUFFICES ASSUME IInv, fault = "none", Step PROVE PendingExact'
  OBVIOUS
<1> USE Sets
<1>0. TypeOK /\ LocalsOK /\ PendingExact BY DEF IInv
<1>a. pc \in [Actors -> {"start", "grow", "lock", "trigger", "dec"}]
      /\ events \in [FdContexts -> SUBSET Events]
  BY <1>0 DEF TypeOK
<1>b. /\ m_pendingEventCount = Cardinality(Pairs(events)) + Cardinality(Counting(pc))
      /\ Cardinality(Pairs(events)) \in Nat /\ Cardinality(Counting(pc)) \in Nat
  BY <1>0, Exact
<1>1. CASE Lookups
  <2>1. UNCHANGED <<events, m_pendingEventCount>> /\ Counting(pc') = Counting(pc)
    BY <1>0, <1>1, LookupsLeave DEF Leaves, Counting
  <2> QED BY <1>b, <2>1, ExactAfter
<1>2. ASSUME NEW w \in Waiters, AddLocked(w) PROVE PendingExact'
  <2>1. fd_ctx[w] \in FdContexts /\ w[2] \in Events BY <1>0, <1>2 DEF AddLocked, LocalsOK
  <2>2. Counting(pc') = Counting(pc) BY <1>2, <1>a, CountingMove DEF AddLocked
  <2>3. CASE UNCHANGED <<events, m_pendingEventCount>> BY <1>b, <2>2, <2>3, ExactAfter
  <2>4. CASE /\ m_pendingEventCount' = m_pendingEventCount + 1
             /\ events' = [events EXCEPT ![fd_ctx[w]] = @ \cup {w[2]}]
    <3>1. fault' = "none" => w[2] \notin events[fd_ctx[w]] BY <1>2 DEF AddLocked
    <3>2. fault' = "none" => Cardinality(Pairs(events')) = Cardinality(Pairs(events)) + 1
      BY <1>a, <2>1, <2>4, <3>1, PairsAdd
    <3> QED BY <1>b, <2>2, <2>4, <3>2, ExactAfter
  <2> QED BY <1>2, <2>3, <2>4 DEF AddLocked
<1>3. ASSUME NEW a \in Callers, DelLocked(a) PROVE PendingExact'
  <2>1. PICK e \in Events : /\ CallEvents(a) = {e} /\ e \in events[fd_ctx[a]]
                            /\ fd_ctx[a] \in FdContexts
    BY <1>0, <1>3, DelOne
  <2>2. /\ events' = [events EXCEPT ![fd_ctx[a]] = @ \ {e}]
        /\ m_pendingEventCount' = m_pendingEventCount - 1
    BY <1>3, <2>1 DEF DelLocked
  <2>3. Cardinality(Pairs(events')) = Cardinality(Pairs(events)) - 1
    BY <1>a, <2>1, <2>2, PairsRemove
  <2>4. Counting(pc') = Counting(pc) BY <1>3, <1>a, CountingMove DEF DelLocked
  <2> QED BY <1>b, <2>2, <2>3, <2>4, ExactAfter
<1>4. ASSUME NEW a \in Callers, CancelLocked(a) PROVE PendingExact'
  <2>1. UNCHANGED <<events, m_pendingEventCount>> /\ Counting(pc') = Counting(pc)
    BY <1>4, <1>a, CountingMove DEF CancelLocked
  <2> QED BY <1>b, <2>1, ExactAfter
<1>5. ASSUME NEW i \in Idlers, IdleLocked(i) PROVE PendingExact'
  <2>1. UNCHANGED <<events, m_pendingEventCount>> /\ Counting(pc') = Counting(pc)
    BY <1>5, <1>a, CountingMove DEF IdleLocked
  <2> QED BY <1>b, <2>1, ExactAfter
<1>6. ASSUME NEW a \in Callers \cup Idlers, Trigger(a) PROVE PendingExact'
  <2>1. fd_ctx[a] \in FdContexts /\ FirstOf(todo[a]) \in Events
    BY <1>0, <1>6, TriggerLocals DEF Trigger, Holding
  <2>2. fault' = "none" => FirstOf(todo[a]) \in events[fd_ctx[a]] BY <1>6 DEF Trigger
  <2>3. fault' = "none" => Cardinality(Pairs(events')) = Cardinality(Pairs(events)) - 1
    BY <1>6, <1>a, <2>1, <2>2, PairsRemove DEF Trigger
  <2>4. Cardinality(Counting(pc')) = Cardinality(Counting(pc)) + 1
    BY <1>6, <1>a, CountingMove DEF Trigger
  <2>5. m_pendingEventCount' = m_pendingEventCount BY <1>6 DEF Trigger
  <2> QED BY <1>b, <2>3, <2>4, <2>5, ExactAfter
<1>7. ASSUME NEW a \in Callers \cup Idlers, Decrement(a) PROVE PendingExact'
  <2>1. pc' = [pc EXCEPT ![a] = "start"] \/ pc' = [pc EXCEPT ![a] = "trigger"]
    BY <1>7 DEF Decrement
  <2>2. Cardinality(Counting(pc')) = Cardinality(Counting(pc)) - 1
    BY <1>7, <1>a, <2>1, CountingMove DEF Decrement
  <2>3. UNCHANGED events /\ m_pendingEventCount' = m_pendingEventCount - 1
    BY <1>7 DEF Decrement
  <2> QED BY <1>b, <2>2, <2>3, ExactAfter
<1> QED BY <1>1, <1>2, <1>3, <1>4, <1>5, <1>6, <1>7 DEF Step, Lookups

\* Zero means that nothing is registered, and who waits is registered; a step that
\* ends the process does not bring the count to zero.
LEMMA StopStep == IInv /\ TypeOK' /\ WaitingOK' /\ PendingExact' /\ fault = "none" /\ Step => StopSafe'
<1> SUFFICES ASSUME IInv, TypeOK', WaitingOK', PendingExact', fault = "none", Step PROVE StopSafe'
  OBVIOUS
<1> USE Sets
<1>0. TypeOK /\ LocalsOK /\ StopSafe BY DEF IInv
<1>1. CASE fault' = "none"
  <2> SUFFICES ASSUME m_pendingEventCount' = 0, NEW w \in Waiters, status'[w] = "waiting"
               PROVE FALSE
    BY DEF StopSafe
  <2>1. PICK c \in FdContexts : w[2] \in events'[c] BY DEF WaitingOK
  <2>2. <<c, w[2]>> \in Pairs(events') BY <2>1 DEF Pairs
  <2>3. Cardinality(Pairs(events')) # 0 BY <2>2, PairsCount, FS_EmptySet
  <2>4. /\ m_pendingEventCount' = Cardinality(Pairs(events')) + Cardinality(Counting(pc'))
        /\ Cardinality(Counting(pc')) \in Nat
    <3>1. Registered' = Pairs(events') BY DEF Registered, Pairs
    <3>2. {a \in Actors : pc'[a] = "dec"} = Counting(pc') BY DEF Counting
    <3>3. Counting(pc') \in SUBSET Actors BY DEF Counting
    <3> QED BY <1>1, <3>1, <3>2, <3>3, FS_Subset, FS_CardinalityType DEF PendingExact
  <2> QED BY <2>3, <2>4, PairsCount
<1>2. CASE fault' # "none"
  <2>1. \/ \E w \in Waiters : AddLocked(w)
        \/ \E a \in Callers \cup Idlers : Trigger(a)
    <3>1. CASE Lookups BY <1>0, <1>2, <3>1, LookupsLeave DEF Leaves
    <3> QED BY <1>2, <3>1 DEF Step, Lookups, DelLocked, CancelLocked, IdleLocked, Decrement
  <2>2. ASSUME NEW w \in Waiters, AddLocked(w) PROVE StopSafe'
    <3>1. CASE m_pendingEventCount' = m_pendingEventCount + 1
      BY <1>0, <3>1 DEF StopSafe, TypeOK
    <3>2. CASE m_pendingEventCount' = m_pendingEventCount /\ status' = [status EXCEPT ![w] = "failed"]
      BY <1>0, <3>2 DEF StopSafe, TypeOK
    <3> QED BY <2>2, <3>1, <3>2 DEF AddLocked
  <2>3. ASSUME NEW a \in Callers \cup Idlers, Trigger(a) PROVE StopSafe'
    <3>1. \A w \in Waiters : status'[w] = "waiting" => status[w] = "waiting"
      BY <1>0, <2>3 DEF Trigger, TypeOK
    <3> QED BY <1>0, <2>3, <3>1 DEF StopSafe, Trigger
  <2> QED BY <2>1, <2>2, <2>3
<1> QED BY <1>1, <1>2

----------------------------------------------------------------------------
LEMMA InitIInv == Init => IInv
<1> SUFFICES ASSUME Init PROVE IInv
  OBVIOUS
<1>1. TypeOK BY Sets, TableAssumption DEF Init, TypeOK, FdContexts
<1>2. \A a \in Actors : pc[a] = "start" BY DEF Init
<1>3. TableOK
  <2>0. size = InitialSize BY DEF Init
  <2>1. size >= 2 BY <2>0, TableAssumption
  <2>2. \A fd \in Fds : fd < size => slot[fd] # 0 BY DEF Init
  <2> QED BY <1>2, <2>1, <2>2, Sets DEF TableOK
<1>4. LocalsOK /\ DecOK BY <1>2, Sets DEF LocalsOK, DecOK, Holding
<1>5. MutexOK BY <1>2 DEF Init, MutexOK, Free, Holding
<1>6. Watched /\ WaitingOK /\ StopSafe BY Sets DEF Init, Watched, Rest, Free, WaitingOK, StopSafe
<1>7. PendingExact
  <2>1. Registered = {} BY DEF Init, Registered
  <2>2. {a \in Actors : pc[a] = "dec"} = {} BY <1>2
  <2>3. m_pendingEventCount = 0 BY DEF Init
  <2>4. Cardinality(Registered) = 0 BY <2>1, FS_EmptySet
  <2>5. Cardinality({a \in Actors : pc[a] = "dec"}) = 0 BY <2>2, FS_EmptySet
  <2> QED BY <2>3, <2>4, <2>5 DEF PendingExact
<1> QED BY <1>1, <1>3, <1>4, <1>5, <1>6, <1>7 DEF IInv

LEMMA NextIInv == IInv /\ [Next]_vars => IInv'
<1> SUFFICES ASSUME IInv, [Next]_vars PROVE IInv'
  OBVIOUS
<1>1. CASE fault = "none" /\ Step
  BY <1>1, TypedStep, LocalsStep, DecStep, WatchedStep, WaitingStep, PendingStep, StopStep
     DEF IInv
<1>2. CASE UNCHANGED vars
  <2>1. UNCHANGED <<size, slot, gens, cut, events, lock, interest, target, m_pendingEventCount,
                    pc, call, fd_ctx, got, todo, status, adds, fault>>
    BY <1>2 DEF vars, tableVars, epollVars, actorVars, waiterVars
  <2>2. (TypeOK /\ TableOK /\ LocalsOK)' BY <2>1 DEF IInv, TypeOK, TableOK, LocalsOK, FdOf
  <2>3. (MutexOK /\ DecOK /\ Watched)' BY <2>1 DEF IInv, MutexOK, DecOK, Watched, Rest, Free, FirstOf, FdOf
  <2>4. (WaitingOK /\ StopSafe /\ PendingExact)'
    BY <2>1 DEF IInv, WaitingOK, StopSafe, PendingExact, Registered, FdOf
  <2> QED BY <2>2, <2>3, <2>4 DEF IInv
<1> QED BY <1>1, <1>2 DEF Next, Step, Quiet, WaiterStep, CallerStep, IdlerStep

LEMMA IInvAlways == Spec => []IInv
BY InitIInv, NextIInv, PTL DEF Spec

\* IOManager's fields keep their types; m_pendingEventCount, an unsigned counter in
\* the code, never goes below zero.
THEOREM IOManagerTypeOK == Spec => []TypeOK
<1>1. IInv => TypeOK BY DEF IInv
<1> QED BY <1>1, IInvAlways, PTL

\* m_pendingEventCount is exact at every point between triggerEvent and the
\* decrement, whatever addEvent, delEvent, cancelEvent, cancelAll, idle and the growth
\* of the table do to each other.
THEOREM IOManagerPendingExact == Spec => []PendingExact
<1>1. IInv => PendingExact BY DEF IInv
<1> QED BY <1>1, IInvAlways, PTL

\* stopping() reads zero only when every fiber that called addEvent was scheduled or
\* dropped by delEvent.
THEOREM IOManagerStopSafe == Spec => []StopSafe
<1>1. IInv => StopSafe BY DEF IInv
<1> QED BY <1>1, IInvAlways, PTL

\* epoll watches exactly what is registered in a context that nobody has locked, and
\* reports to that context, also when the table has shrunk and a second context
\* exists for the descriptor.
THEOREM IOManagerEpollAgrees == Spec => []EpollAgrees
<1>1. IInv => EpollAgrees BY DEF IInv, EpollAgrees, Watched, Rest
<1> QED BY <1>1, IInvAlways, PTL

----------------------------------------------------------------------------
\* Registered events stay reachable until the table is cut short before them.

\* A waiter about to register has the context that the table holds.
HoldsSlot ==
  \A w \in Waiters :
    pc[w] = "lock" => \/ w[1] < size /\ fd_ctx[w] = <<w[1], slot[w[1]]>>
                      \/ w[1] \in cut

\* A place that is filled keeps its context, if the table still has it.
LEMMA SlotsStay ==
  ASSUME TypeOK, TableOK, NEW n \in Nat, ContextResize(n), NEW fd \in Fds, fd < size,
         fd < n
  PROVE  fd < size' /\ slot'[fd] = slot[fd]
BY TableAssumption DEF TypeOK, TableOK, ContextResize

\* A step that registers nothing and keeps the filled places.
LEMMA ReachKept ==
  ASSUME TypeOK, RegisteredReachable, HoldsSlot,
         cut \subseteq cut',
         \A fd \in Fds : fd < size => \/ fd < size' /\ slot'[fd] = slot[fd]
                                      \/ fd \in cut',
         \A c \in FdContexts : events'[c] \subseteq events[c],
         \A w \in Waiters :
           pc'[w] = "lock" =>
             \/ pc[w] = "lock" /\ fd_ctx'[w] = fd_ctx[w]
             \/ w[1] < size' /\ fd_ctx'[w] = <<w[1], slot'[w[1]]>>
  PROVE  RegisteredReachable' /\ HoldsSlot'
<1>1. RegisteredReachable'
  <2> SUFFICES ASSUME NEW c \in FdContexts, events'[c] # {}
               PROVE  (FdOf(c) < size' /\ slot'[FdOf(c)] = c[2]) \/ FdOf(c) \in cut'
    BY DEF RegisteredReachable, FdOf
  <2>1. events[c] # {} BY DEF TypeOK
  <2>2. /\ FdOf(c) \in Fds
        /\ (FdOf(c) < size /\ slot[FdOf(c)] = c[2]) \/ FdOf(c) \in cut
    BY <2>1, Sets DEF RegisteredReachable, FdOf
  <2> QED BY <2>2
<1>2. HoldsSlot' BY Sets DEF HoldsSlot
<1> QED BY <1>1, <1>2

LEMMA ReachStep ==
  IInv /\ RegisteredReachable /\ HoldsSlot /\ fault = "none" /\ Step
    => RegisteredReachable' /\ HoldsSlot'
<1> SUFFICES ASSUME IInv, RegisteredReachable, HoldsSlot, fault = "none", Step
             PROVE  RegisteredReachable' /\ HoldsSlot'
  OBVIOUS
<1> USE Sets
<1>0. TypeOK /\ TableOK /\ LocalsOK BY DEF IInv
<1>1. ASSUME NEW w \in Waiters, AddLookup(w) PROVE RegisteredReachable' /\ HoldsSlot'
  <2>1. \A v \in Waiters : pc'[v] = "lock" =>
          \/ pc[v] = "lock" /\ fd_ctx'[v] = fd_ctx[v]
          \/ v[1] < size' /\ fd_ctx'[v] = <<v[1], slot'[v[1]]>>
    BY <1>0, <1>1 DEF AddLookup, TypeOK, tableVars
  <2> QED BY <1>0, <1>1, <2>1, ReachKept DEF AddLookup, tableVars
<1>2. ASSUME NEW w \in Waiters, AddGrow(w) PROVE RegisteredReachable' /\ HoldsSlot'
  <2>1. w[1] \in Nat /\ w[1] >= 2 BY <1>0, <1>2, TableAssumption DEF AddGrow, TableOK
  <2> DEFINE n == w[1] + w[1] \div 2
  <2>2. n \in Nat /\ w[1] < n BY <2>1
  <2>3. ContextResize(n) /\ size' = n BY <1>2 DEF AddGrow, ContextResize
  <2>6. cut' = cut \cup {f \in Fds : f < size /\ f >= size'} BY <1>2 DEF AddGrow
  <2>4. \A fd \in Fds : fd < size => \/ fd < size' /\ slot'[fd] = slot[fd]
                                     \/ fd \in cut'
    <3> SUFFICES ASSUME NEW fd \in Fds, fd < size
                 PROVE  (fd < size' /\ slot'[fd] = slot[fd]) \/ fd \in cut'
      OBVIOUS
    <3>1. fd \in Nat BY TableAssumption
    <3>2. CASE fd < n BY <1>0, <2>2, <2>3, <3>2, SlotsStay
    <3>3. CASE fd >= n BY <2>3, <2>6, <3>3
    <3> QED BY <2>2, <3>1, <3>2, <3>3
  <2>5. \A v \in Waiters : pc'[v] = "lock" =>
          \/ pc[v] = "lock" /\ fd_ctx'[v] = fd_ctx[v]
          \/ v[1] < size' /\ fd_ctx'[v] = <<v[1], slot'[v[1]]>>
    BY <1>0, <1>2, <2>2, <2>3 DEF AddGrow, TypeOK
  <2>7. cut \subseteq cut' BY <2>6
  <2> QED BY <1>0, <1>2, <2>4, <2>5, <2>7, ReachKept DEF AddGrow
<1>3. ASSUME NEW w \in Waiters, AddLocked(w) PROVE RegisteredReachable' /\ HoldsSlot'
  <2>1. UNCHANGED <<size, slot, cut>> BY <1>3 DEF AddLocked, tableVars
  <2>2. /\ fd_ctx[w] \in FdContexts
        /\ \/ FdOf(fd_ctx[w]) < size /\ slot[FdOf(fd_ctx[w])] = fd_ctx[w][2]
           \/ FdOf(fd_ctx[w]) \in cut
    BY <1>0, <1>3 DEF AddLocked, LocalsOK, HoldsSlot, FdOf
  <2>3. \A c \in FdContexts : c # fd_ctx[w] => events'[c] = events[c]
    BY <1>0, <1>3 DEF AddLocked, TypeOK
  <2>4. RegisteredReachable' BY <2>1, <2>2, <2>3 DEF RegisteredReachable, FdOf
  <2>5. \A v \in Waiters : pc'[v] = "lock" => pc[v] = "lock" /\ fd_ctx'[v] = fd_ctx[v]
    BY <1>0, <1>3 DEF AddLocked, TypeOK
  <2>6. HoldsSlot' BY <2>1, <2>5 DEF HoldsSlot
  <2> QED BY <2>4, <2>6
<1>4. ASSUME NEW a \in Callers \cup Idlers, UNCHANGED tableVars,
             \A c \in FdContexts : events'[c] \subseteq events[c],
             \A b \in Actors \ {a} : pc'[b] = pc[b] /\ fd_ctx'[b] = fd_ctx[b]
      PROVE  RegisteredReachable' /\ HoldsSlot'
  <2>1. \A v \in Waiters : v \in Actors \ {a} BY ActorsAssumption
  <2> QED BY <1>0, <1>4, <2>1, ReachKept DEF tableVars
<1>5. ASSUME NEW a \in Callers, NEW k \in Calls, NEW fd \in Fds, NEW e \in Events,
             CallLookup(a, k, fd, e)
      PROVE  RegisteredReachable' /\ HoldsSlot'
  BY <1>0, <1>4, <1>5 DEF CallLookup, TypeOK
<1>6. ASSUME NEW a \in Callers, CallFails(a) \/ CancelLocked(a)
      PROVE  RegisteredReachable' /\ HoldsSlot'
  BY <1>0, <1>4, <1>6 DEF CallFails, CancelLocked, TypeOK
<1>7. ASSUME NEW a \in Callers, DelLocked(a) PROVE RegisteredReachable' /\ HoldsSlot'
  <2>1. \A c \in FdContexts : events'[c] \subseteq events[c]
    BY <1>0, <1>7 DEF DelLocked, TypeOK
  <2> QED BY <1>0, <1>4, <1>7, <2>1 DEF DelLocked, TypeOK
<1>8. ASSUME NEW i \in Idlers, NEW fd \in Fds, EpollWait(i, fd)
      PROVE  RegisteredReachable' /\ HoldsSlot'
  BY <1>0, <1>4, <1>8 DEF EpollWait, TypeOK
<1>9. ASSUME NEW i \in Idlers, IdleSkip(i) \/ IdleLocked(i)
      PROVE  RegisteredReachable' /\ HoldsSlot'
  BY <1>0, <1>4, <1>9 DEF IdleSkip, IdleLocked, TypeOK
<1>10. ASSUME NEW a \in Callers \cup Idlers, Trigger(a) PROVE RegisteredReachable' /\ HoldsSlot'
  <2>1. \A c \in FdContexts : events'[c] \subseteq events[c]
    BY <1>0, <1>10 DEF Trigger, TypeOK
  <2> QED BY <1>0, <1>4, <1>10, <2>1 DEF Trigger, TypeOK
<1>11. ASSUME NEW a \in Callers \cup Idlers, Decrement(a)
       PROVE  RegisteredReachable' /\ HoldsSlot'
  BY <1>0, <1>4, <1>11 DEF Decrement, TypeOK
<1> QED BY <1>1, <1>2, <1>3, <1>5, <1>6, <1>7, <1>8, <1>9, <1>10, <1>11 DEF Step

LEMMA NextReach ==
  IInv /\ RegisteredReachable /\ HoldsSlot /\ [Next]_vars
    => RegisteredReachable' /\ HoldsSlot'
<1> SUFFICES ASSUME IInv, RegisteredReachable, HoldsSlot, [Next]_vars
             PROVE  RegisteredReachable' /\ HoldsSlot'
  OBVIOUS
<1>1. CASE UNCHANGED vars
  BY <1>1 DEF vars, tableVars, actorVars, RegisteredReachable, HoldsSlot, FdOf
<1>2. CASE fault = "none" /\ Step BY <1>2, ReachStep
<1> QED BY <1>1, <1>2 DEF Next, Step, Quiet, WaiterStep, CallerStep, IdlerStep

\* Being cut off is the only way to lose an event: although addEvent drops m_mutex
\* between the look-up and the registration, and any number of threads grow the
\* table at once, what is registered is in the context that cancelEvent, cancelAll
\* and delEvent look up, unless its descriptor was cut off by a resize that was
\* decided on before a larger one was carried out.
THEOREM IOManagerReachable == Spec => []RegisteredReachable
<1>1. Init => RegisteredReachable /\ HoldsSlot
  BY Sets DEF Init, RegisteredReachable, HoldsSlot
<1> QED BY <1>1, NextReach, IInvAlways, PTL DEF Spec
=============================================================================
