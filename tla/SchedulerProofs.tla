-------------------------- MODULE SchedulerProofs --------------------------
(***************************************************************************)
(* Type correctness of Scheduler, exactness of its two thread counters, no *)
(* callback in two places and every callback started where it is pinned,   *)
(* for every set of threads, fibers and callbacks and whatever the         *)
(* callbacks do, the interleavings that end in a failed assertion          *)
(* included; then, from Supported on, what it guarantees the callbacks     *)
(* that run() supports, and the refinement of TaskPool.                    *)
(***************************************************************************)
EXTENDS Scheduler, FiniteSetTheorems, SequenceTheorems, TLAPS

\* run() has a fiber between the switch into it and the end of the loop body.
FiberPcs == {"run", "armed", "out", "fin", "back", "settle", "writeHold"}

\* What each program point of run() knows of its locals.
LocalsOK ==
  \A t \in Threads :
    /\ pc[t] = "dispatch" => ft[t] # None
    /\ pc[t] \in FiberPcs => ft[t] \in Fibers \cup {None} /\ Running(t) \in Fibers
    /\ pc[t] \notin FiberPcs \cup {"dispatch"} => ft[t] = None

\* Threads that do not run yet have not entered run().
OwnerOK ==
  /\ mpc = "new" => \A t \in Threads : pc[t] = "off"
  /\ mpc \in {"new", "started", "stopping", "flagged"} /\ UseCaller
       => pc[Root] = "off"

\* TypeOK with the idle counter only known to be a natural number: its bound
\* follows from CountersExact.
Typed ==
  /\ m_fibers \in Seq(Entries)
  /\ m_activeThreadCount \in Nat
  /\ m_idleThreadCount \in Nat
  /\ m_stopping \in BOOLEAN
  /\ m_autoStop \in BOOLEAN
  /\ m_state \in [Fibers -> FiberStates]
  /\ m_cb \in [Fibers -> Callbacks \cup {None}]
  /\ ctx \in [Fibers -> Contexts]
  /\ pc \in [Threads -> Pcs]
  /\ ft \in [Threads -> Fibers \cup Callbacks \cup {None}]
  /\ cb_fiber \in [Threads -> Fibers \cup {None}]
  /\ idleTerm \in [Threads -> BOOLEAN]
  /\ mpc \in {"new", "started", "stopping", "flagged", "rooted", "join",
              "done"}
  /\ wakers \in SUBSET Fibers
  /\ submitted \in SUBSET Callbacks
  /\ fault \in Faults

\* The inductive invariant.
IInv == Typed /\ LocalsOK /\ OwnerOK /\ CountersExact

----------------------------------------------------------------------------
\* Threads is finite, so the number of threads at some points of run() is a
\* number.
LEMMA ThreadsFinite ==
  /\ IsFiniteSet(Threads)
  /\ UseCaller => Root \in Threads
  /\ Workers \subseteq Threads
<1>1. CASE UseCaller
  <2>1. Threads = Workers \cup {Root} BY <1>1 DEF Threads
  <2>2. IsFiniteSet(Workers \cup {Root})
    BY FS_AddElement, ThreadsAssumption
  <2> QED BY <2>1, <2>2
<1>2. CASE ~UseCaller
  BY <1>2, ThreadsAssumption DEF Threads
<1> QED BY <1>1, <1>2

\* The threads of program counters p that are at a point in S.
At(p, S) == {t \in Threads : p[t] \in S}

LEMMA CountNat ==
  ASSUME NEW p, NEW S
  PROVE /\ IsFiniteSet(At(p, S))
        /\ Cardinality(At(p, S)) \in Nat
        /\ Cardinality(At(p, S)) <= Cardinality(Threads)
<1>1. At(p, S) \subseteq Threads BY DEF At
<1> QED BY <1>1, ThreadsFinite, FS_Subset, FS_CardinalityType

\* Moving one thread from inside S to outside S, into S, or neither.
LEMMA CountSame ==
  ASSUME NEW p \in [Threads -> Pcs], NEW t \in Threads, NEW S, NEW v,
         (p[t] \in S) <=> (v \in S)
  PROVE Cardinality(At([p EXCEPT ![t] = v], S)) = Cardinality(At(p, S))
<1>1. At([p EXCEPT ![t] = v], S) = At(p, S) BY DEF At
<1> QED BY <1>1

LEMMA CountUp ==
  ASSUME NEW p \in [Threads -> Pcs], NEW t \in Threads, NEW S, NEW v,
         p[t] \notin S, v \in S
  PROVE Cardinality(At([p EXCEPT ![t] = v], S)) = Cardinality(At(p, S)) + 1
<1>1. At([p EXCEPT ![t] = v], S) = At(p, S) \cup {t} BY DEF At
<1>2. t \notin At(p, S) BY DEF At
<1> QED BY <1>1, <1>2, CountNat, FS_AddElement

LEMMA CountDown ==
  ASSUME NEW p \in [Threads -> Pcs], NEW t \in Threads, NEW S, NEW v,
         p[t] \in S, v \notin S
  PROVE Cardinality(At([p EXCEPT ![t] = v], S)) = Cardinality(At(p, S)) - 1
<1>1. At([p EXCEPT ![t] = v], S) = At(p, S) \ {t} BY DEF At
<1>2. t \in At(p, S) BY DEF At
<1> QED BY <1>1, <1>2, CountNat, FS_RemoveElement

\* Removing the i-th entry of a list gives a list.
LEMMA WithoutType ==
  ASSUME NEW q \in Seq(Entries), NEW i \in 1 .. Len(q)
  PROVE Without(q, i) \in Seq(Entries)
<1>1. Len(q) - 1 \in Nat BY LenProperties
<1>2. \A j \in 1 .. Len(q) - 1 :
        (IF j < i THEN q[j] ELSE q[j + 1]) \in Entries
  BY ElementOfSeq, LenProperties
<1> QED BY <1>1, <1>2, IsASeq DEF Without

----------------------------------------------------------------------------
\* The shared parts of actions.

LEMMA ReleaseType ==
  ASSUME Typed, NEW t \in Threads, NEW f \in Fibers,
         NEW st \in [Fibers -> FiberStates], NEW mine,
         Release(t, f, st, m_cb, mine)
  PROVE /\ m_state' \in [Fibers -> FiberStates]
        /\ m_cb' \in [Fibers -> Callbacks \cup {None}]
        /\ ctx' \in [Fibers -> Contexts]
        /\ fault' \in Faults
BY DEF Typed, Release, FiberStates, Contexts, Faults

LEMMA SwapInType ==
  ASSUME Typed, NEW t \in Threads, NEW f \in Fibers, SwapIn(t, f, m_state)
  PROVE /\ m_state' \in [Fibers -> FiberStates]
        /\ ctx' \in [Fibers -> Contexts]
        /\ pc' = [pc EXCEPT ![t] = "run"]
        /\ fault' \in Faults
BY DEF Typed, SwapIn, FiberStates, Contexts, Faults

LEMMA EnqueueType ==
  ASSUME Typed, NEW c \in Callbacks, Enqueue(c)
  PROVE /\ m_fibers' \in Seq(Entries)
        /\ m_state' \in [Fibers -> FiberStates]
        /\ m_cb' \in [Fibers -> Callbacks \cup {None}]
        /\ ctx' \in [Fibers -> Contexts]
        /\ submitted' \in SUBSET Callbacks
<1>1. Pin[c] \in Threads \cup {AnyThread} BY TasksAssumption
<1>2. \A x \in Fibers \cup Callbacks : Entry(x, Pin[c]) \in Entries
  BY <1>1 DEF Entry, Entries
<1>3. \A x \in Fibers \cup Callbacks :
        Append(m_fibers, Entry(x, Pin[c])) \in Seq(Entries)
  BY <1>2, AppendProperties DEF Typed
<1>4. submitted' \in SUBSET Callbacks BY DEF Enqueue, Typed
<1>5. CASE c \notin AsFiber
  BY <1>3, <1>4, <1>5 DEF Enqueue, Typed, fiberVars
<1>6. CASE c \in AsFiber
  <2>1. PICK f \in Fibers :
          /\ m_state' = [m_state EXCEPT ![f] = "INIT"]
          /\ m_cb' = [m_cb EXCEPT ![f] = c]
          /\ ctx' = [ctx EXCEPT ![f] = "entry"]
          /\ m_fibers' = Append(m_fibers, Entry(f, Pin[c]))
    BY <1>6 DEF Enqueue
  <2> QED BY <1>3, <1>4, <2>1 DEF Typed, FiberStates, Contexts
<1> QED BY <1>5, <1>6

LEMMA ResetFaultType == \A f \in Fibers : ResetFault(f) \in Faults
BY DEF ResetFault, Faults

\* The fiber thread t executes is a fiber.
LEMMA RunningType ==
  ASSUME LocalsOK, NEW t \in Threads, pc[t] \in FiberPcs
  PROVE Running(t) \in Fibers
BY DEF LocalsOK

----------------------------------------------------------------------------
\* Types: one step per action.

USE DEF fiberVars, localVars, countVars, stopVars

LEMMA OwnerTyped ==
  ASSUME IInv, Start \/ StopStep \/ (\E c \in Callbacks : Submit(c))
               \/ (\E f \in Fibers : Wake(f))
  PROVE Typed'
<1>1. CASE Start
  BY <1>1 DEF Start, IInv, Typed, Pcs
<1>2. CASE StopStep
  <2>1. ASSUME StopCallRoot PROVE Typed'
    BY <2>1, ThreadsFinite DEF StopCallRoot, IInv, Typed, Pcs
  <2> QED
    BY <1>2, <2>1 DEF StopStep, StopBegin, StopFlag, StopSkipRoot, RootReturn,
                      Join, IInv, Typed
<1>3. ASSUME NEW c \in Callbacks, Submit(c) PROVE Typed'
  BY <1>3, EnqueueType DEF Submit, IInv, Typed
<1>4. ASSUME NEW f \in Fibers, Wake(f) PROVE Typed'
  <2>1. Entry(f, AnyThread) \in Entries BY DEF Entry, Entries
  <2>2. m_fibers' \in Seq(Entries)
    BY <1>4, <2>1, AppendProperties DEF Wake, IInv, Typed
  <2> QED BY <1>4, <2>2 DEF Wake, IInv, Typed
<1> QED BY <1>1, <1>2, <1>3, <1>4

LEMMA ScanTyped ==
  ASSUME IInv, NEW t \in Threads,
         PickTask(t) \/ PickNothing(t) \/ EnterIdle(t) \/ IdleStep(t) \/ Exit(t)
  PROVE Typed'
<1>1. CASE PickTask(t)
  <2>1. PICK i \in 1 .. Len(m_fibers) :
          /\ ft' = [ft EXCEPT ![t] = m_fibers[i].task]
          /\ m_fibers' = Without(m_fibers, i)
    BY <1>1 DEF PickTask
  <2>2. m_fibers' \in Seq(Entries)
    BY <2>1, WithoutType DEF IInv, Typed
  <2>3. m_fibers[i] \in Entries
    BY ElementOfSeq DEF IInv, Typed
  <2>4. m_fibers[i].task \in Fibers \cup Callbacks
    BY <2>3 DEF Entries
  <2>5. ft' \in [Threads -> Fibers \cup Callbacks \cup {None}]
    BY <2>1, <2>4 DEF IInv, Typed
  <2> QED BY <1>1, <2>2, <2>5 DEF PickTask, IInv, Typed, Pcs, ActivePcs
<1>2. CASE PickNothing(t)
  BY <1>2 DEF PickNothing, IInv, Typed, Pcs
<1>3. CASE EnterIdle(t)
  BY <1>3 DEF EnterIdle, IInv, Typed, Pcs, IdlePcs
<1>4. CASE IdleStep(t)
  <2>1. Stopping \in BOOLEAN BY DEF Stopping, IInv, Typed
  <2> QED BY <1>4, <2>1 DEF IdleStep, IInv, Typed, Pcs, IdlePcs
<1>5. CASE Exit(t)
  <2>1. CASE cb_fiber[t] = None
    BY <1>5, <2>1 DEF Exit, IInv, Typed, Pcs
  <2>2. CASE cb_fiber[t] # None
    <3>1. cb_fiber[t] \in Fibers BY <2>2 DEF IInv, Typed
    <3>2. Release(t, cb_fiber[t], m_state, m_cb, FALSE)
      BY <1>5, <2>2 DEF Exit
    <3>3. /\ m_state' \in [Fibers -> FiberStates]
          /\ m_cb' \in [Fibers -> Callbacks \cup {None}]
          /\ ctx' \in [Fibers -> Contexts]
          /\ fault' \in Faults
      BY <3>1, <3>2, ReleaseType DEF IInv, Typed
    <3> QED BY <1>5, <3>3 DEF Exit, IInv, Typed, Pcs
  <2> QED BY <2>1, <2>2
<1> QED BY <1>1, <1>2, <1>3, <1>4, <1>5

LEMMA DispatchTyped ==
  ASSUME IInv, NEW t \in Threads,
         DispatchFiber(t) \/ ReuseFiber(t) \/ NewFiber(t)
  PROVE Typed'
<1>1. CASE DispatchFiber(t)
  <2>1. ft[t] \in Fibers /\ SwapIn(t, ft[t], m_state)
    BY <1>1 DEF DispatchFiber
  <2> QED
    BY <1>1, <2>1, SwapInType DEF DispatchFiber, IInv, Typed, Pcs, ActivePcs
<1>2. CASE ReuseFiber(t)
  <2>1. cb_fiber[t] \in Fibers BY <1>2 DEF ReuseFiber, IInv, Typed
  <2>2. fault' \in Faults BY <1>2, <2>1, ResetFaultType DEF ReuseFiber
  <2> QED
    BY <1>2, <2>1, <2>2
    DEF ReuseFiber, IInv, Typed, Pcs, ActivePcs, FiberStates, Contexts
<1>3. CASE NewFiber(t)
  <2>1. PICK f \in Fibers :
          /\ cb_fiber' = [cb_fiber EXCEPT ![t] = f]
          /\ m_cb' = [m_cb EXCEPT ![f] = ft[t]]
          /\ SwapIn(t, f, m_state)
    BY <1>3 DEF NewFiber
  <2>2. /\ m_state' \in [Fibers -> FiberStates]
        /\ ctx' \in [Fibers -> Contexts]
        /\ pc' = [pc EXCEPT ![t] = "run"]
        /\ fault' \in Faults
    BY <2>1, SwapInType DEF IInv
  <2>3. m_cb' \in [Fibers -> Callbacks \cup {None}]
    BY <1>3, <2>1 DEF NewFiber, IInv, Typed
  <2>4. cb_fiber' \in [Threads -> Fibers \cup {None}]
    BY <2>1 DEF IInv, Typed
  <2> QED
    BY <1>3, <2>2, <2>3, <2>4 DEF NewFiber, IInv, Typed, Pcs, ActivePcs
<1> QED BY <1>1, <1>2, <1>3

LEMMA CallbackTyped ==
  ASSUME IInv, NEW t \in Threads,
         \/ \E c \in Callbacks : ScheduleFrom(t, c)
         \/ ArmWake(t) \/ YieldToHold(t) \/ YieldToReady(t) \/ Return(t)
         \/ Throw(t) \/ SwapOut(t)
  PROVE Typed'
<1>1. ASSUME NEW c \in Callbacks, ScheduleFrom(t, c) PROVE Typed'
  BY <1>1, EnqueueType DEF ScheduleFrom, IInv, Typed
<1>2. CASE ArmWake(t)
  <2>1. Running(t) \in Fibers
    BY <1>2, RunningType DEF ArmWake, IInv, FiberPcs
  <2> QED BY <1>2, <2>1 DEF ArmWake, IInv, Typed, Pcs, ActivePcs
<1>3. CASE YieldToHold(t)
  BY <1>3 DEF YieldToHold, Yield, IInv, Typed, Pcs, ActivePcs, FiberStates, Faults
<1>4. CASE YieldToReady(t)
  BY <1>4 DEF YieldToReady, Yield, IInv, Typed, Pcs, ActivePcs, FiberStates, Faults
<1>5. CASE Return(t)
  BY <1>5 DEF Return, IInv, Typed, Pcs, ActivePcs, FiberStates
<1>6. CASE Throw(t)
  BY <1>6 DEF Throw, IInv, Typed, Pcs, ActivePcs, FiberStates
<1>7. CASE SwapOut(t)
  BY <1>7 DEF SwapOut, IInv, Typed, Pcs, ActivePcs, Contexts
<1> QED BY <1>1, <1>2, <1>3, <1>4, <1>5, <1>6, <1>7

LEMMA SettleTyped ==
  ASSUME IInv, NEW t \in Threads,
         SettleReady(t) \/ SettleFiber(t) \/ SettleCallback(t)
         \/ SettleOther(t) \/ WriteHold(t)
  PROVE Typed'
<1>0. /\ pc[t] \in FiberPcs
      /\ Running(t) \in Fibers
      /\ ft[t] \in Fibers \cup {None}
  BY RunningType DEF SettleReady, SettleFiber, SettleCallback, SettleOther,
                     WriteHold, FiberPcs, IInv, LocalsOK
<1>1. CASE SettleReady(t)
  <2>1. Entry(Running(t), AnyThread) \in Entries
    BY <1>0 DEF Entry, Entries
  <2>2. m_fibers' \in Seq(Entries)
    BY <1>1, <2>1, AppendProperties DEF SettleReady, IInv, Typed
  <2> QED BY <1>1, <2>2 DEF SettleReady, IInv, Typed, Pcs
<1>2. CASE SettleFiber(t)
  <2>1. /\ ft[t] \in Fibers
        /\ Release(t, ft[t], m_state, m_cb, ft[t] = cb_fiber[t])
    BY <1>0, <1>2 DEF SettleFiber
  <2>2. /\ m_state' \in [Fibers -> FiberStates]
        /\ m_cb' \in [Fibers -> Callbacks \cup {None}]
        /\ ctx' \in [Fibers -> Contexts]
        /\ fault' \in Faults
    BY <2>1, ReleaseType DEF IInv, Typed
  <2> QED BY <1>2, <2>2 DEF SettleFiber, IInv, Typed, Pcs
<1>3. CASE SettleCallback(t)
  <2>1. cb_fiber[t] \in Fibers
    BY <1>0, <1>3 DEF SettleCallback, Running
  <2>2. fault' \in Faults BY <1>3, <2>1, ResetFaultType DEF SettleCallback
  <2> QED
    BY <1>3, <2>2 DEF SettleCallback, IInv, Typed, Pcs, FiberStates, Contexts
<1>4. CASE SettleOther(t)
  BY <1>4 DEF SettleOther, IInv, Typed, Pcs
<1>5. CASE WriteHold(t)
  <2>1. [m_state EXCEPT ![Running(t)] = "HOLD"] \in [Fibers -> FiberStates]
    BY DEF IInv, Typed, FiberStates
  <2>2. Release(t, Running(t), [m_state EXCEPT ![Running(t)] = "HOLD"], m_cb,
                ft[t] # None /\ ft[t] = cb_fiber[t])
    BY <1>5 DEF WriteHold
  <2>3. /\ m_state' \in [Fibers -> FiberStates]
        /\ m_cb' \in [Fibers -> Callbacks \cup {None}]
        /\ ctx' \in [Fibers -> Contexts]
        /\ fault' \in Faults
    BY <1>0, <2>1, <2>2, ReleaseType DEF IInv
  <2> QED BY <1>5, <2>3 DEF WriteHold, IInv, Typed, Pcs
<1> QED BY <1>1, <1>2, <1>3, <1>4, <1>5

----------------------------------------------------------------------------
\* The counters, for a step that moves thread t to point v.

One(v, S) == IF v \in S THEN 1 ELSE 0

LEMMA CountMove ==
  ASSUME NEW p \in [Threads -> Pcs], NEW t \in Threads, NEW S, NEW v
  PROVE Cardinality(At([p EXCEPT ![t] = v], S))
          = Cardinality(At(p, S)) + One(v, S) - One(p[t], S)
<1> DEFINE n == Cardinality(At(p, S))
           m == Cardinality(At([p EXCEPT ![t] = v], S))
<1> SUFFICES m = n + One(v, S) - One(p[t], S) OBVIOUS
<1>0. n \in Nat BY CountNat
<1>1. CASE (p[t] \in S) <=> (v \in S)
  <2>1. One(v, S) = One(p[t], S) /\ One(v, S) \in Nat BY <1>1 DEF One
  <2>2. m = n BY <1>1, CountSame
  <2> HIDE DEF n, m
  <2> QED BY <1>0, <2>1, <2>2
<1>2. CASE p[t] \notin S /\ v \in S
  <2>1. One(v, S) = 1 /\ One(p[t], S) = 0 BY <1>2 DEF One
  <2>2. m = n + 1 BY <1>2, CountUp
  <2> HIDE DEF n, m
  <2> QED BY <1>0, <2>1, <2>2
<1>3. CASE p[t] \in S /\ v \notin S
  <2>1. One(v, S) = 0 /\ One(p[t], S) = 1 BY <1>3 DEF One
  <2>2. m = n - 1 BY <1>3, CountDown
  <2> HIDE DEF n, m
  <2> QED BY <1>0, <2>1, <2>2
<1> QED BY <1>1, <1>2, <1>3

LEMMA CountersStep ==
  ASSUME IInv, NEW t \in Threads, NEW v,
         pc' = [pc EXCEPT ![t] = v],
         m_activeThreadCount' =
           m_activeThreadCount + One(v, ActivePcs) - One(pc[t], ActivePcs),
         m_idleThreadCount' =
           m_idleThreadCount + One(v, IdlePcs) - One(pc[t], IdlePcs)
  PROVE /\ CountersExact'
        /\ m_activeThreadCount' \in Nat
        /\ m_idleThreadCount' \in Nat
<1>1. pc \in [Threads -> Pcs] BY DEF IInv, Typed
<1>2. /\ m_activeThreadCount = Cardinality(At(pc, ActivePcs))
      /\ m_idleThreadCount = Cardinality(At(pc, IdlePcs))
  BY DEF IInv, CountersExact, At
<1>3. /\ m_activeThreadCount' = Cardinality(At(pc', ActivePcs))
      /\ m_idleThreadCount' = Cardinality(At(pc', IdlePcs))
  BY <1>1, <1>2, CountMove
<1>4. CountersExact' BY <1>3 DEF CountersExact, At
<1> QED BY <1>3, <1>4, CountNat

\* What a step of thread t from where it is to point v must establish, besides
\* the types.
LEMMA ThreadMove ==
  ASSUME IInv, NEW t \in Threads, NEW v,
         v # "off", pc[t] # "off",
         pc' = [pc EXCEPT ![t] = v],
         mpc' = mpc,
         \A u \in Threads \ {t} : ft'[u] = ft[u] /\ cb_fiber'[u] = cb_fiber[u],
         v = "dispatch" => ft'[t] # None,
         v \in FiberPcs => /\ ft'[t] \in Fibers \cup {None}
                           /\ ft'[t] = None => cb_fiber'[t] \in Fibers,
         v \notin FiberPcs \cup {"dispatch"} => ft'[t] = None
  PROVE LocalsOK' /\ OwnerOK'
<1>1. pc \in [Threads -> Pcs] BY DEF IInv, Typed
<1>2. \A u \in Threads \ {t} : pc'[u] = pc[u] BY <1>1
<1>3. pc'[t] = v BY <1>1
<1>4. LocalsOK'
  <2>1. ASSUME NEW u \in Threads
        PROVE (/\ pc[u] = "dispatch" => ft[u] # None
               /\ pc[u] \in FiberPcs => ft[u] \in Fibers \cup {None}
                                        /\ Running(u) \in Fibers
               /\ pc[u] \notin FiberPcs \cup {"dispatch"} => ft[u] = None)'
    <3>1. CASE u = t BY <3>1, <1>3, TasksAssumption DEF Running
    <3>2. CASE u # t
      BY <3>2, <1>2 DEF IInv, LocalsOK, Running
    <3> QED BY <3>1, <3>2
  <2> QED BY <2>1 DEF LocalsOK
<1>5. OwnerOK'
  BY <1>2, <1>3, ThreadsFinite DEF IInv, OwnerOK
<1> QED BY <1>4, <1>5

\* The conclusions of the two lemmas above hold of a step that makes thread t
\* move to point v in this way.
Moves(t, v) ==
  /\ v # "off" /\ pc[t] # "off"
  /\ pc' = [pc EXCEPT ![t] = v]
  /\ mpc' = mpc
  /\ \A u \in Threads \ {t} : ft'[u] = ft[u] /\ cb_fiber'[u] = cb_fiber[u]
  /\ v = "dispatch" => ft'[t] # None
  /\ v \in FiberPcs => /\ ft'[t] \in Fibers \cup {None}
                       /\ ft'[t] = None => cb_fiber'[t] \in Fibers
  /\ v \notin FiberPcs \cup {"dispatch"} => ft'[t] = None
  /\ m_activeThreadCount' =
       m_activeThreadCount + One(v, ActivePcs) - One(pc[t], ActivePcs)
  /\ m_idleThreadCount' =
       m_idleThreadCount + One(v, IdlePcs) - One(pc[t], IdlePcs)

LEMMA MovesInv ==
  ASSUME IInv, NEW t \in Threads, NEW v, Moves(t, v)
  PROVE /\ LocalsOK' /\ OwnerOK' /\ CountersExact'
        /\ m_activeThreadCount' \in Nat
        /\ m_idleThreadCount' \in Nat
BY ThreadMove, CountersStep DEF Moves

\* Every action of run() moves its thread.
LEMMA ThreadMoves ==
  ASSUME IInv, NEW t \in Threads
  PROVE
    /\ PickTask(t) => Moves(t, "dispatch")
    /\ PickNothing(t) => Moves(t, "noTask")
    /\ EnterIdle(t) => Moves(t, "idle")
    /\ IdleStep(t) => Moves(t, "idleBack")
    /\ IdleBack(t) => Moves(t, "scan")
    /\ Exit(t) => Moves(t, "exited")
    /\ DispatchFiber(t) => Moves(t, "run")
    /\ DropFinished(t) => Moves(t, "scan")
    /\ ReuseFiber(t) => Moves(t, "run")
    /\ NewFiber(t) => Moves(t, "run")
    /\ ArmWake(t) => Moves(t, "armed")
    /\ Return(t) => Moves(t, "fin")
    /\ Throw(t) => Moves(t, "fin")
    /\ SwapOut(t) => Moves(t, "back")
    /\ Back(t) => Moves(t, "settle")
    /\ SettleReady(t) => Moves(t, "scan")
    /\ SettleFiber(t) => Moves(t, "scan")
    /\ SettleCallback(t) => Moves(t, "scan")
    /\ SettleOther(t) => Moves(t, "writeHold")
    /\ WriteHold(t) => Moves(t, "scan")
<1> USE DEF Moves, One, ActivePcs, IdlePcs, FiberPcs, IInv, Typed, LocalsOK,
            Running
<1>0. None \notin Fibers \cup Callbacks BY TasksAssumption
<1>1. PickTask(t) => Moves(t, "dispatch")
  <2> SUFFICES ASSUME PickTask(t) PROVE Moves(t, "dispatch") OBVIOUS
  <2>1. PICK i \in 1 .. Len(m_fibers) : ft' = [ft EXCEPT ![t] = m_fibers[i].task]
    BY DEF PickTask
  <2>2. m_fibers[i] \in Entries BY ElementOfSeq
  <2>3. ft'[t] # None BY <2>1, <2>2, <1>0 DEF Entries
  <2> QED BY <2>1, <2>3 DEF PickTask
<1>2. PickNothing(t) => Moves(t, "noTask")
  BY <1>0 DEF PickNothing
<1>3. EnterIdle(t) => Moves(t, "idle")
  BY <1>0 DEF EnterIdle
<1>4. IdleStep(t) => Moves(t, "idleBack")
  BY <1>0 DEF IdleStep
<1>5. IdleBack(t) => Moves(t, "scan")
  BY <1>0, SMTT(30) DEF IdleBack
<1>6. Exit(t) => Moves(t, "exited")
  <2> SUFFICES ASSUME Exit(t) PROVE Moves(t, "exited") OBVIOUS
  <2>1. /\ pc[t] = "noTask" /\ pc' = [pc EXCEPT ![t] = "exited"]
        /\ cb_fiber' = [cb_fiber EXCEPT ![t] = None] /\ ft' = ft
        /\ m_activeThreadCount' = m_activeThreadCount
        /\ m_idleThreadCount' = m_idleThreadCount /\ mpc' = mpc
    BY DEF Exit
  <2> QED BY <1>0, <2>1
<1>7. DispatchFiber(t) => Moves(t, "run")
  BY <1>0 DEF DispatchFiber, SwapIn
<1>8. DropFinished(t) => Moves(t, "scan")
  BY <1>0 DEF DropFinished
<1>9. ReuseFiber(t) => Moves(t, "run")
  BY <1>0 DEF ReuseFiber
<1>10. NewFiber(t) => Moves(t, "run")
  BY <1>0 DEF NewFiber, SwapIn
<1>11. ArmWake(t) => Moves(t, "armed")
  BY <1>0 DEF ArmWake
<1>12. Return(t) => Moves(t, "fin")
  BY <1>0 DEF Return
<1>13. Throw(t) => Moves(t, "fin")
  BY <1>0 DEF Throw
<1>14. SwapOut(t) => Moves(t, "back")
  BY <1>0 DEF SwapOut
<1>15. Back(t) => Moves(t, "settle")
  BY <1>0 DEF Back
<1>16. SettleReady(t) => Moves(t, "scan")
  BY <1>0 DEF SettleReady
<1>17. SettleFiber(t) => Moves(t, "scan")
  BY <1>0 DEF SettleFiber
<1>18. SettleCallback(t) => Moves(t, "scan")
  BY <1>0 DEF SettleCallback
<1>19. SettleOther(t) => Moves(t, "writeHold")
  BY <1>0 DEF SettleOther
<1>20. WriteHold(t) => Moves(t, "scan")
  BY <1>0 DEF WriteHold
<1> QED
  BY <1>1, <1>2, <1>3, <1>4, <1>5, <1>6, <1>7, <1>8, <1>9, <1>10, <1>11,
     <1>12, <1>13, <1>14, <1>15, <1>16, <1>17, <1>18, <1>19, <1>20

----------------------------------------------------------------------------
\* Induction.

\* A step of thread t in run() preserves the invariant.
LEMMA ThreadInv ==
  ASSUME IInv, NEW t \in Threads, ThreadStep(t)
  PROVE IInv'
<1>1. CASE \/ PickTask(t) \/ PickNothing(t) \/ EnterIdle(t) \/ IdleStep(t)
           \/ Exit(t)
  <2>1. Typed' BY <1>1, ScanTyped
  <2> QED BY <1>1, <2>1, ThreadMoves, MovesInv DEF IInv
<1>2. CASE IdleBack(t) \/ Back(t)
  <2>1. LocalsOK' /\ OwnerOK' /\ CountersExact' /\ m_activeThreadCount' \in Nat
        /\ m_idleThreadCount' \in Nat
    BY <1>2, ThreadMoves, MovesInv
  <2>2. Typed'
    BY <1>2, <2>1 DEF IdleBack, Back, IInv, Typed, Pcs
  <2> QED BY <2>1, <2>2 DEF IInv
<1>3. CASE DropFinished(t)
  <2>1. LocalsOK' /\ OwnerOK' /\ CountersExact' /\ m_activeThreadCount' \in Nat
        /\ m_idleThreadCount' \in Nat
    BY <1>3, ThreadMoves, MovesInv
  <2>2. /\ m_state' \in [Fibers -> FiberStates]
        /\ m_cb' \in [Fibers -> Callbacks \cup {None}]
        /\ ctx' \in [Fibers -> Contexts]
        /\ fault' \in Faults
    <3>1. /\ ft[t] \in Fibers
          /\ Release(t, ft[t], m_state, m_cb, ft[t] = cb_fiber[t])
      BY <1>3 DEF DropFinished
    <3> QED BY <3>1, ReleaseType DEF IInv, Typed
  <2>3. Typed'
    BY <1>3, <2>1, <2>2 DEF DropFinished, IInv, Typed, Pcs
  <2> QED BY <2>1, <2>3 DEF IInv
<1>4. CASE DispatchFiber(t) \/ ReuseFiber(t) \/ NewFiber(t)
  <2>1. Typed' BY <1>4, DispatchTyped
  <2> QED BY <1>4, <2>1, ThreadMoves, MovesInv DEF IInv
<1>5. CASE ArmWake(t) \/ Return(t) \/ Throw(t) \/ SwapOut(t)
  <2>1. Typed' BY <1>5, CallbackTyped
  <2> QED BY <1>5, <2>1, ThreadMoves, MovesInv DEF IInv
<1>6. ASSUME NEW c \in Callbacks, ScheduleFrom(t, c) PROVE IInv'
  <2>1. Typed' BY <1>6, CallbackTyped
  <2> QED
    BY <1>6, <2>1 DEF ScheduleFrom, IInv, LocalsOK, OwnerOK, CountersExact,
                      Running
<1>7. CASE YieldToHold(t) \/ YieldToReady(t)
  <2>1. Typed' BY <1>7, CallbackTyped
  <2>2. CASE pc' = pc
    BY <1>7, <2>1, <2>2 DEF YieldToHold, YieldToReady, Yield, IInv, LocalsOK,
                            OwnerOK, CountersExact, Running
  <2>3. CASE pc' = [pc EXCEPT ![t] = "out"]
    <3>1. Moves(t, "out")
      BY <1>7, <2>3 DEF YieldToHold, YieldToReady, Yield, Moves, One, ActivePcs,
                        IdlePcs, FiberPcs, IInv, Typed, LocalsOK, Running
    <3> QED BY <2>1, <3>1, MovesInv DEF IInv
  <2> QED BY <1>7, <2>2, <2>3 DEF YieldToHold, YieldToReady, Yield
<1>8. CASE SettleReady(t) \/ SettleFiber(t) \/ SettleCallback(t)
           \/ SettleOther(t) \/ WriteHold(t)
  <2>1. Typed' BY <1>8, SettleTyped
  <2> QED BY <1>8, <2>1, ThreadMoves, MovesInv DEF IInv
<1> QED
  BY <1>1, <1>2, <1>3, <1>4, <1>5, <1>6, <1>7, <1>8 DEF ThreadStep

\* A step of the owner, or a wake-up, preserves the invariant.
LEMMA OwnerInv ==
  ASSUME IInv, Start \/ StopStep \/ (\E c \in Callbacks : Submit(c))
               \/ (\E f \in Fibers : Wake(f))
  PROVE IInv'
<1>1. Typed' BY OwnerTyped
<1>2. CASE Start
  <2>1. \A t \in Threads : pc[t] = "off" /\ pc'[t] \in {"off", "scan"}
    BY <1>2 DEF Start, IInv, OwnerOK
  <2>2. /\ At(pc', ActivePcs) = At(pc, ActivePcs)
        /\ At(pc', IdlePcs) = At(pc, IdlePcs)
    BY <2>1 DEF At, ActivePcs, IdlePcs
  <2>3. CountersExact'
    BY <1>2, <2>2 DEF Start, IInv, CountersExact, At
  <2>4. LocalsOK'
    BY <1>2, <2>1 DEF Start, IInv, LocalsOK, FiberPcs, Running
  <2>5. OwnerOK'
    BY <1>2, ThreadsFinite, ThreadsAssumption DEF Start, IInv, OwnerOK
  <2> QED BY <1>1, <2>3, <2>4, <2>5 DEF IInv
<1>3. CASE StopCallRoot
  <2>1. Root \in Threads /\ pc[Root] = "off"
    BY <1>3, ThreadsFinite DEF StopCallRoot, IInv, OwnerOK
  <2>2. CountersExact'
    <3>1. /\ Cardinality(At(pc', ActivePcs)) = Cardinality(At(pc, ActivePcs))
          /\ Cardinality(At(pc', IdlePcs)) = Cardinality(At(pc, IdlePcs))
      <4>1. /\ pc \in [Threads -> Pcs]
            /\ pc' = [pc EXCEPT ![Root] = "scan"]
        BY <1>3 DEF StopCallRoot, IInv, Typed
      <4>2. /\ pc[Root] \notin ActivePcs /\ pc[Root] \notin IdlePcs
            /\ "scan" \notin ActivePcs /\ "scan" \notin IdlePcs
        BY <2>1 DEF ActivePcs, IdlePcs
      <4> QED BY <4>1, <4>2, <2>1, CountSame
    <3> QED BY <1>3, <3>1 DEF StopCallRoot, IInv, CountersExact, At
  <2>3. LocalsOK' /\ OwnerOK'
    BY <1>3, <2>1 DEF StopCallRoot, IInv, LocalsOK, OwnerOK, FiberPcs, Running,
                      Typed
  <2> QED BY <1>1, <2>2, <2>3 DEF IInv
<1>4. CASE StopBegin \/ StopFlag \/ StopSkipRoot \/ RootReturn \/ Join
  BY <1>1, <1>4 DEF StopBegin, StopFlag, StopSkipRoot, RootReturn, Join, IInv,
                    LocalsOK, OwnerOK, CountersExact, Running
<1>5. CASE \E c \in Callbacks : Submit(c)
  BY <1>1, <1>5 DEF Submit, IInv, LocalsOK, OwnerOK, CountersExact, Running
<1>6. CASE \E f \in Fibers : Wake(f)
  BY <1>1, <1>6 DEF Wake, IInv, LocalsOK, OwnerOK, CountersExact, Running
<1> QED BY <1>2, <1>3, <1>4, <1>5, <1>6 DEF StopStep

LEMMA InitIInv == Init => IInv
<1> SUFFICES ASSUME Init PROVE IInv OBVIOUS
<1>1. Typed
  BY EmptySeq DEF Init, Typed, FiberStates, Contexts, Pcs, Faults
<1>2. LocalsOK /\ OwnerOK
  BY ThreadsFinite DEF Init, LocalsOK, OwnerOK, FiberPcs
<1>3. At(pc, ActivePcs) = {} /\ At(pc, IdlePcs) = {}
  BY DEF Init, At, ActivePcs, IdlePcs
<1>4. CountersExact
  BY <1>3, FS_EmptySet DEF Init, CountersExact, At
<1> QED BY <1>1, <1>2, <1>4 DEF IInv

LEMMA NextIInv == IInv /\ [Next]_vars => IInv'
<1> SUFFICES ASSUME IInv, [Next]_vars PROVE IInv' OBVIOUS
<1>1. CASE UNCHANGED vars \/ Halted
  BY <1>1 DEF Halted, vars, IInv, Typed, LocalsOK, OwnerOK, CountersExact, Running
<1>2. CASE Start \/ StopStep \/ (\E c \in Callbacks : Submit(c))
           \/ (\E f \in Fibers : Wake(f))
  BY <1>2, OwnerInv
<1>3. CASE \E t \in Threads : ThreadStep(t)
  BY <1>3, ThreadInv
<1> QED BY <1>1, <1>2, <1>3 DEF Next

LEMMA IInvAlways == Spec => []IInv
BY InitIInv, NextIInv, PTL DEF Spec

\* The scheduler's state has its types in every reachable state, for every
\* number of threads, fibers and callbacks and every behaviour of the callbacks.
THEOREM SchedulerTypeOK == Spec => []TypeOK
<1>1. IInv => TypeOK
  <2> SUFFICES ASSUME IInv PROVE TypeOK OBVIOUS
  <2>1. m_idleThreadCount \in 0 .. Cardinality(Threads)
    <3>1. m_idleThreadCount = Cardinality(At(pc, IdlePcs))
      BY DEF IInv, CountersExact, At
    <3>2. Cardinality(Threads) \in Nat
      BY ThreadsFinite, FS_CardinalityType
    <3> QED BY <3>1, <3>2, CountNat
  <2> QED BY <2>1 DEF IInv, Typed, TypeOK
<1> QED BY <1>1, IInvAlways, PTL

\* m_activeThreadCount and m_idleThreadCount count exactly the threads that
\* hold an entry and the threads in idle(), whatever the threads interleave:
\* stopping() never reports "no active thread" while one holds an entry.
THEOREM SchedulerCountersExact == Spec => []CountersExact
<1>1. IInv => CountersExact BY DEF IInv
<1> QED BY <1>1, IInvAlways, PTL

----------------------------------------------------------------------------
\* No callback is in two places.

\* RunsOnce without the tuples, and what makes it inductive: a callback that
\* was not handed to schedule() is nowhere.
OnceFor(c) ==
  /\ c \notin submitted =>
       /\ \A i \in 1 .. Len(m_fibers) : m_fibers[i].task # c
       /\ \A t \in Threads : ft[t] # c
       /\ \A f \in Fibers : m_cb[f] # c
  /\ \A i, j \in 1 .. Len(m_fibers) :
       m_fibers[i].task = c /\ m_fibers[j].task = c => i = j
  /\ \A t, u \in Threads : ft[t] = c /\ ft[u] = c => t = u
  /\ \A f, g \in Fibers : m_cb[f] = c /\ m_cb[g] = c => f = g
  /\ \A i \in 1 .. Len(m_fibers), t \in Threads :
       ~ (m_fibers[i].task = c /\ ft[t] = c)
  /\ \A i \in 1 .. Len(m_fibers), f \in Fibers :
       ~ (m_fibers[i].task = c /\ m_cb[f] = c)
  /\ \A t \in Threads, f \in Fibers : ~ (ft[t] = c /\ m_cb[f] = c)

Once == \A c \in Callbacks : OnceFor(c)

\* What Append and Without leave at each position.
LEMMA AppendAt ==
  ASSUME NEW q \in Seq(Entries), NEW e \in Entries
  PROVE \A i \in 1 .. Len(Append(q, e)) :
          \/ i \in 1 .. Len(q) /\ Append(q, e)[i] = q[i]
          \/ i = Len(q) + 1 /\ Append(q, e)[i] = e
BY AppendProperties, LenProperties

LEMMA WithoutAt ==
  ASSUME NEW q \in Seq(Entries), NEW k \in 1 .. Len(q)
  PROVE /\ Len(Without(q, k)) = Len(q) - 1
        /\ \A i \in 1 .. Len(q) - 1 :
             Without(q, k)[i] = q[IF i < k THEN i ELSE i + 1]
<1>1. Len(q) \in Nat BY LenProperties
<1>2. DOMAIN Without(q, k) = 1 .. Len(q) - 1 BY DEF Without
<1>3. Len(Without(q, k)) = Len(q) - 1
  BY <1>1, <1>2, WithoutType, LenProperties
<1> QED BY <1>1, <1>3 DEF Without

\* A step that only forgets callbacks and only appends fibers.
LEMMA OnceShrinks ==
  ASSUME IInv, Once,
         \/ m_fibers' = m_fibers
         \/ \E f \in Fibers : m_fibers' = Append(m_fibers, Entry(f, AnyThread)),
         \A t \in Threads : ft'[t] \in {ft[t], None},
         \A f \in Fibers : m_cb'[f] \in {m_cb[f], None},
         submitted' = submitted
  PROVE Once'
<1>0. Fibers \cap Callbacks = {} /\ None \notin Callbacks BY TasksAssumption
<1>1. \A c \in Callbacks : \A i \in 1 .. Len(m_fibers') :
        m_fibers'[i].task = c =>
          i \in 1 .. Len(m_fibers) /\ m_fibers[i].task = c
  <2>1. CASE m_fibers' = m_fibers BY <2>1
  <2>2. ASSUME NEW f \in Fibers,
               m_fibers' = Append(m_fibers, Entry(f, AnyThread))
        PROVE \A c \in Callbacks : \A i \in 1 .. Len(m_fibers') :
                m_fibers'[i].task = c =>
                  i \in 1 .. Len(m_fibers) /\ m_fibers[i].task = c
    <3>1. Entry(f, AnyThread) \in Entries /\ Entry(f, AnyThread).task = f
      BY DEF Entry, Entries
    <3> QED BY <1>0, <2>2, <3>1, AppendAt DEF IInv, Typed
  <2> QED BY <2>1, <2>2
<1> QED BY <1>0, <1>1 DEF Once, OnceFor

LEMMA OncePick ==
  ASSUME IInv, Once, NEW t \in Threads, PickTask(t)
  PROVE Once'
<1>1. PICK k \in 1 .. Len(m_fibers) :
        /\ ft' = [ft EXCEPT ![t] = m_fibers[k].task]
        /\ m_fibers' = Without(m_fibers, k)
  BY DEF PickTask
<1>2. Len(m_fibers) \in Nat BY LenProperties DEF IInv, Typed
<1>3. /\ Len(m_fibers') = Len(m_fibers) - 1
      /\ \A i \in 1 .. Len(m_fibers) - 1 :
           m_fibers'[i] = m_fibers[IF i < k THEN i ELSE i + 1]
  BY <1>1, WithoutAt DEF IInv, Typed
<1>4. ft \in [Threads -> Fibers \cup Callbacks \cup {None}] /\ m_cb' = m_cb
      /\ submitted' = submitted
  BY DEF IInv, Typed, PickTask
<1> DEFINE old(i) == IF i < k THEN i ELSE i + 1
<1>5. \A i \in 1 .. Len(m_fibers') :
        /\ old(i) \in 1 .. Len(m_fibers)
        /\ old(i) # k
        /\ m_fibers'[i] = m_fibers[old(i)]
  BY <1>2, <1>3
<1>6. \A i, j \in 1 .. Len(m_fibers') : old(i) = old(j) => i = j
  BY <1>2, <1>3
<1> HIDE DEF old
<1> QED
  <2> SUFFICES ASSUME NEW c \in Callbacks PROVE OnceFor(c)'
    BY DEF Once
  <2>0. OnceFor(c) BY DEF Once
  <2>1. \A u \in Threads : ft'[u] = c => ft[u] = c \/ (u = t /\ m_fibers[k].task = c)
    BY <1>1, <1>4
  <2>2. \A i \in 1 .. Len(m_fibers') : m_fibers'[i].task = c =>
          \E j \in 1 .. Len(m_fibers) :
            j # k /\ j = old(i) /\ m_fibers[j].task = c
    BY <1>5
  <2>3. (c \notin submitted)' =>
          /\ \A i \in 1 .. Len(m_fibers') : m_fibers'[i].task # c
          /\ \A u \in Threads : ft'[u] # c
          /\ \A f \in Fibers : m_cb'[f] # c
    BY <1>4, <2>0, <2>1, <2>2 DEF OnceFor
  <2>4. \A i, j \in 1 .. Len(m_fibers') :
          m_fibers'[i].task = c /\ m_fibers'[j].task = c => i = j
    BY <1>6, <2>0, <2>2 DEF OnceFor
  <2>5. \A u, v \in Threads : ft'[u] = c /\ ft'[v] = c => u = v
    BY <2>0, <2>1 DEF OnceFor
  <2>6. \A i \in 1 .. Len(m_fibers'), u \in Threads :
          ~ (m_fibers'[i].task = c /\ ft'[u] = c)
    BY <2>0, <2>1, <2>2 DEF OnceFor
  <2>7. /\ \A i \in 1 .. Len(m_fibers'), f \in Fibers :
             ~ (m_fibers'[i].task = c /\ m_cb'[f] = c)
        /\ \A u \in Threads, f \in Fibers : ~ (ft'[u] = c /\ m_cb'[f] = c)
        /\ \A f, g \in Fibers : m_cb'[f] = c /\ m_cb'[g] = c => f = g
    BY <1>4, <2>0, <2>1, <2>2 DEF OnceFor
  <2> QED BY <2>3, <2>4, <2>5, <2>6, <2>7 DEF OnceFor

LEMMA OnceStarts ==
  ASSUME IInv, Once, NEW t \in Threads, ReuseFiber(t) \/ NewFiber(t)
  PROVE Once'
<1>0. None \notin Callbacks BY TasksAssumption
<1>1. PICK f \in Fibers : m_cb' = [m_cb EXCEPT ![f] = ft[t]]
  BY DEF ReuseFiber, NewFiber, IInv, Typed
<1>2. /\ m_fibers' = m_fibers /\ submitted' = submitted
      /\ ft' = [ft EXCEPT ![t] = None]
      /\ ft[t] \in Callbacks
  BY DEF ReuseFiber, NewFiber
<1>3. /\ ft \in [Threads -> Fibers \cup Callbacks \cup {None}]
      /\ m_cb \in [Fibers -> Callbacks \cup {None}]
  BY DEF IInv, Typed
<1> QED BY <1>0, <1>1, <1>2, <1>3 DEF Once, OnceFor

LEMMA OnceEnqueue ==
  ASSUME IInv, Once, NEW c \in Callbacks, Enqueue(c), ft' = ft
  PROVE Once'
<1>0. Fibers \cap Callbacks = {} /\ None \notin Callbacks
      /\ Pin[c] \in Threads \cup {AnyThread}
  BY TasksAssumption
<1>1. submitted' = submitted \cup {c} /\ c \notin submitted BY DEF Enqueue
<1>2. CASE c \notin AsFiber
  <2>1. Entry(c, Pin[c]) \in Entries /\ Entry(c, Pin[c]).task = c
    BY <1>0 DEF Entry, Entries
  <2>2. m_fibers' = Append(m_fibers, Entry(c, Pin[c])) /\ m_cb' = m_cb
    BY <1>2 DEF Enqueue, fiberVars
  <2>3. \A i \in 1 .. Len(m_fibers') :
          \/ i \in 1 .. Len(m_fibers) /\ m_fibers'[i] = m_fibers[i]
          \/ i = Len(m_fibers) + 1 /\ m_fibers'[i].task = c
    BY <2>1, <2>2, AppendAt DEF IInv, Typed
  <2> QED BY <1>1, <2>2, <2>3 DEF Once, OnceFor
<1>3. CASE c \in AsFiber
  <2>1. PICK f \in Fibers :
          /\ m_cb' = [m_cb EXCEPT ![f] = c]
          /\ m_fibers' = Append(m_fibers, Entry(f, Pin[c]))
    BY <1>3 DEF Enqueue
  <2>2. Entry(f, Pin[c]) \in Entries /\ Entry(f, Pin[c]).task = f
    BY <1>0 DEF Entry, Entries
  <2>3. \A i \in 1 .. Len(m_fibers') :
          \/ i \in 1 .. Len(m_fibers) /\ m_fibers'[i] = m_fibers[i]
          \/ m_fibers'[i].task = f
    BY <2>1, <2>2, AppendAt DEF IInv, Typed
  <2>4. m_cb \in [Fibers -> Callbacks \cup {None}] BY DEF IInv, Typed
  <2>5. \A d \in Callbacks : \A g \in Fibers :
          m_cb'[g] = d => (m_cb[g] = d /\ d # c) \/ (d = c /\ g = f)
    BY <1>1, <2>1, <2>4 DEF Once, OnceFor
  <2>6. \A d \in Callbacks : \A i \in 1 .. Len(m_fibers') :
          m_fibers'[i].task = d =>
            i \in 1 .. Len(m_fibers) /\ m_fibers[i].task = d
    BY <1>0, <2>3
  <2> QED BY <1>1, <2>5, <2>6 DEF Once, OnceFor
<1> QED BY <1>2, <1>3

LEMMA OnceNext == IInv /\ Once /\ [Next]_vars => Once'
<1> SUFFICES ASSUME IInv, Once, [Next]_vars PROVE Once' OBVIOUS
<1>1. CASE UNCHANGED vars \/ Halted \/ Start \/ StopStep
  BY <1>1, OnceShrinks
  DEF vars, Halted, Start, StopStep, StopBegin, StopFlag, StopCallRoot,
      StopSkipRoot, RootReturn, Join
<1>2. ASSUME NEW c \in Callbacks, Submit(c) PROVE Once'
  BY <1>2, OnceEnqueue DEF Submit
<1>3. ASSUME NEW f \in Fibers, Wake(f) PROVE Once'
  BY <1>3, OnceShrinks DEF Wake
<1>4. ASSUME NEW t \in Threads, ThreadStep(t) PROVE Once'
  <2>0. ft \in [Threads -> Fibers \cup Callbacks \cup {None}]
        /\ m_cb \in [Fibers -> Callbacks \cup {None}]
    BY DEF IInv, Typed
  <2>1. CASE PickTask(t) BY <2>1, OncePick
  <2>2. CASE ReuseFiber(t) \/ NewFiber(t) BY <2>2, OnceStarts
  <2>3. ASSUME NEW c \in Callbacks, ScheduleFrom(t, c) PROVE Once'
    BY <2>3, OnceEnqueue DEF ScheduleFrom
  <2>4. CASE PickNothing(t) \/ EnterIdle(t) \/ IdleStep(t) \/ IdleBack(t)
             \/ Back(t) \/ SettleOther(t) \/ SwapOut(t) \/ Throw(t)
             \/ ArmWake(t) \/ YieldToHold(t) \/ YieldToReady(t)
             \/ DispatchFiber(t)
    <3>1. /\ m_fibers' = m_fibers /\ ft' = ft /\ m_cb' = m_cb
          /\ submitted' = submitted
      BY <2>4 DEF PickNothing, EnterIdle, IdleStep, IdleBack, Back, SettleOther,
                  SwapOut, Throw, ArmWake, YieldToHold, YieldToReady, Yield,
                  DispatchFiber
    <3> QED BY <3>1, OnceShrinks
  <2>5. CASE Exit(t)
    <3>1. \A f \in Fibers : m_cb'[f] \in {m_cb[f], None}
      BY <2>0, <2>5 DEF Exit, Release
    <3> QED BY <2>5, <3>1, OnceShrinks DEF Exit
  <2>6. CASE DropFinished(t) \/ SettleFiber(t) \/ WriteHold(t)
    <3>1. \A f \in Fibers : m_cb'[f] \in {m_cb[f], None}
      BY <2>0, <2>6 DEF DropFinished, SettleFiber, WriteHold, Release
    <3>2. \A u \in Threads : ft'[u] \in {ft[u], None}
      BY <2>0, <2>6 DEF DropFinished, SettleFiber, WriteHold
    <3> QED BY <2>6, <3>1, <3>2, OnceShrinks
            DEF DropFinished, SettleFiber, WriteHold
  <2>7. CASE Return(t) \/ SettleCallback(t)
    <3>1. \A f \in Fibers : m_cb'[f] \in {m_cb[f], None}
      BY <2>0, <2>7 DEF Return, SettleCallback
    <3> QED BY <2>7, <3>1, OnceShrinks DEF Return, SettleCallback
  <2>8. CASE SettleReady(t)
    <3>1. Running(t) \in Fibers
      BY <2>8, RunningType DEF SettleReady, IInv, FiberPcs
    <3>2. \A u \in Threads : ft'[u] \in {ft[u], None}
      BY <2>0, <2>8 DEF SettleReady
    <3> QED BY <2>8, <3>1, <3>2, OnceShrinks DEF SettleReady
  <2> QED
    BY <1>4, <2>1, <2>2, <2>3, <2>4, <2>5, <2>6, <2>7, <2>8 DEF ThreadStep
<1> QED BY <1>1, <1>2, <1>3, <1>4 DEF Next

LEMMA OnceAlways == Spec => []Once
<1>1. Init => Once
  <2> SUFFICES ASSUME Init PROVE Once OBVIOUS
  <2>1. None \notin Callbacks /\ Len(m_fibers) = 0
    BY TasksAssumption, EmptySeq DEF Init
  <2> QED BY <2>1 DEF Init, Once, OnceFor
<1> QED BY <1>1, IInvAlways, OnceNext, PTL DEF Spec

\* However the threads interleave, and even when they race on m_state, no
\* callback is in two places of the scheduler: none is executed twice.
THEOREM SchedulerRunsOnce == Spec => []RunsOnce
<1>1. Once => RunsOnce
  <2> SUFFICES ASSUME Once, NEW c \in Callbacks,
                      NEW p \in Places(c), NEW q \in Places(c)
               PROVE p = q
    BY DEF RunsOnce
  <2>1. \A r \in Places(c) :
          \/ \E i \in 1 .. Len(m_fibers) : m_fibers[i].task = c /\ r = <<"list", i>>
          \/ \E t \in Threads : ft[t] = c /\ r = <<"ft", t>>
          \/ \E f \in Fibers : m_cb[f] = c /\ r = <<"m_cb", f>>
    BY DEF Places
  <2> QED BY <2>1 DEF Once, OnceFor
<1> QED BY <1>1, OnceAlways, PTL

-----------------------------------------------------------------------------
(***************************************************************************)
(* Pins, for every set of threads, fibers and callbacks and whatever the   *)
(* callbacks do: yields on several threads, exceptions and the             *)
(* interleavings that end in a failed assertion included.                  *)
(***************************************************************************)

\* What is queued after Append and Without.
LEMMA AppendQueued ==
  ASSUME IInv, NEW e \in Entries, m_fibers' = Append(m_fibers, e)
  PROVE \A x \in Fibers \cup Callbacks : Queued(x)' <=> Queued(x) \/ x = e.task
<1>1. m_fibers \in Seq(Entries) /\ Len(m_fibers) \in Nat
  BY LenProperties DEF IInv, Typed
<1>2. /\ Len(m_fibers') = Len(m_fibers) + 1
      /\ m_fibers'[Len(m_fibers) + 1] = e
      /\ \A i \in 1 .. Len(m_fibers) : m_fibers'[i] = m_fibers[i]
  BY <1>1, AppendProperties
<1> QED BY <1>1, <1>2 DEF Queued

LEMMA WithoutQueued ==
  ASSUME IInv, NEW k \in 1 .. Len(m_fibers), m_fibers' = Without(m_fibers, k)
  PROVE \A x \in Fibers \cup Callbacks :
          Queued(x)' <=> \E i \in 1 .. Len(m_fibers) : i # k /\ m_fibers[i].task = x
<1>1. m_fibers \in Seq(Entries) /\ Len(m_fibers) \in Nat
  BY LenProperties DEF IInv, Typed
<1>2. /\ Len(m_fibers') = Len(m_fibers) - 1
      /\ \A i \in 1 .. Len(m_fibers) - 1 :
           m_fibers'[i] = m_fibers[IF i < k THEN i ELSE i + 1]
  BY <1>1, WithoutAt
<1>3. ASSUME NEW x \in Fibers \cup Callbacks, Queued(x)'
      PROVE \E i \in 1 .. Len(m_fibers) : i # k /\ m_fibers[i].task = x
  BY <1>1, <1>2, <1>3 DEF Queued
<1>4. ASSUME NEW x \in Fibers \cup Callbacks,
             NEW i \in 1 .. Len(m_fibers), i # k, m_fibers[i].task = x
      PROVE Queued(x)'
  <2>1. CASE i < k
    BY <1>1, <1>2, <1>4, <2>1 DEF Queued
  <2>2. CASE i > k
    <3>1. i - 1 \in 1 .. Len(m_fibers') /\ m_fibers'[i - 1] = m_fibers[i]
      BY <1>1, <1>2, <2>2
    <3> QED BY <1>4, <3>1 DEF Queued
  <2> QED BY <1>1, <1>4, <2>1, <2>2
<1> QED BY <1>3, <1>4

\* Somebody has a pointer to fiber f.
Held(f) ==
  \/ Queued(f)
  \/ f \in wakers
  \/ \E t \in Threads : f \in {ft[t], cb_fiber[t]}

\* Nobody has a pointer to an object that is not allocated.
FreeUnheld == \A f \in Fibers : m_state[f] = "FREE" => ~Held(f)

LEMMA FreeKeeps ==
  ASSUME FreeUnheld,
         \A f \in Fibers : m_state'[f] = "FREE" =>
           m_state[f] = "FREE" /\ (Held(f)' => Held(f))
  PROVE FreeUnheld'
BY DEF FreeUnheld

\* A thread that drops its pointers to f frees it only when there is no other.
LEMMA FreeRelease ==
  ASSUME IInv, FreeUnheld, NEW t \in Threads, NEW f \in Fibers, NEW mine \in BOOLEAN,
         NEW st \in [Fibers -> FiberStates],
         \A g \in Fibers \ {f} : st[g] = m_state[g],
         st[f] # "FREE",
         Release(t, f, st, m_cb, mine),
         m_fibers' = m_fibers, wakers' = wakers,
         \A u \in Threads \ {t} : ft'[u] = ft[u] /\ cb_fiber'[u] = cb_fiber[u],
         ft'[t] \in {ft[t], None}, cb_fiber'[t] \in {cb_fiber[t], None},
         ~mine => ft'[t] # f /\ cb_fiber'[t] # f
  PROVE FreeUnheld'
<1>0. None \notin Fibers BY TasksAssumption
<1>1. \A g \in Fibers : Held(g)' => Held(g)
  BY <1>0 DEF Held, Queued
<1>2. \A g \in Fibers \ {f} : m_state'[g] = m_state[g] BY DEF Release
<1>3. m_state'[f] = "FREE" => ~mine /\ ~HeldElsewhere(t, f)
  BY DEF Release
<1>4. m_state'[f] = "FREE" => ~Held(f)'
  BY <1>3 DEF HeldElsewhere, Held, Queued
<1> QED BY <1>1, <1>2, <1>4 DEF FreeUnheld

LEMMA FreeEnqueue ==
  ASSUME IInv, FreeUnheld, NEW c \in Callbacks, Enqueue(c), ft' = ft,
         cb_fiber' = cb_fiber, wakers' = wakers
  PROVE FreeUnheld'
<1>0. Pin[c] \in Threads \cup {AnyThread} /\ c \notin Fibers BY TasksAssumption
<1>1. PICK x \in Fibers \cup {c} :
        /\ m_fibers' = Append(m_fibers, Entry(x, Pin[c]))
        /\ x \in Fibers => m_state' = [m_state EXCEPT ![x] = "INIT"]
        /\ x \notin Fibers => m_state' = m_state
  BY <1>0 DEF Enqueue
<1>2. Entry(x, Pin[c]) \in Entries /\ Entry(x, Pin[c]).task = x
  BY <1>0 DEF Entry, Entries
<1>3. \A f \in Fibers : Queued(f)' => Queued(f) \/ f = x
  BY <1>1, <1>2, AppendQueued
<1>4. \A f \in Fibers : m_state'[f] = "FREE" => m_state[f] = "FREE" /\ f # x
  BY <1>0, <1>1 DEF IInv, Typed
<1> QED BY <1>3, <1>4, FreeKeeps DEF Held

\* Schedules a fiber somebody had a pointer to.
LEMMA FreeAgain ==
  ASSUME IInv, FreeUnheld, NEW f \in Fibers, Held(f),
         m_fibers' = Append(m_fibers, Entry(f, AnyThread)),
         m_state' = m_state, cb_fiber' = cb_fiber, wakers' \subseteq wakers,
         \A u \in Threads : ft'[u] \in {ft[u], None}
  PROVE FreeUnheld'
<1>0. None \notin Fibers BY TasksAssumption
<1>1. Entry(f, AnyThread) \in Entries /\ Entry(f, AnyThread).task = f
  BY DEF Entry, Entries
<1>2. \A g \in Fibers : Queued(g)' => Queued(g) \/ g = f
  BY <1>1, AppendQueued
<1>3. \A g \in Fibers : Held(g)' => Held(g) BY <1>0, <1>2 DEF Held
<1> QED BY <1>3, FreeKeeps

LEMMA FreeThread ==
  ASSUME IInv, FreeUnheld, NEW t \in Threads, ThreadStep(t)
  PROVE FreeUnheld'
<1>0. /\ ft \in [Threads -> Fibers \cup Callbacks \cup {None}]
      /\ cb_fiber \in [Threads -> Fibers \cup {None}]
      /\ m_state \in [Fibers -> FiberStates]
      /\ None \notin Fibers /\ Fibers \cap Callbacks = {}
  BY TasksAssumption DEF IInv, Typed
<1>1. CASE PickTask(t)
  <2>1. PICK k \in 1 .. Len(m_fibers) :
          /\ ft' = [ft EXCEPT ![t] = m_fibers[k].task]
          /\ m_fibers' = Without(m_fibers, k)
    BY <1>1 DEF PickTask
  <2>2. \A f \in Fibers : Queued(f)' => Queued(f)
    BY <2>1, WithoutQueued DEF Queued
  <2>3. \A f \in Fibers, u \in Threads : ft'[u] = f => Queued(f) \/ ft[u] = f
    BY <1>0, <2>1 DEF Queued
  <2>4. \A f \in Fibers : Held(f)' => Held(f)
    BY <1>1, <2>2, <2>3 DEF Held, PickTask
  <2> QED BY <1>1, <2>4, FreeKeeps DEF PickTask
<1>2. CASE PickNothing(t) \/ EnterIdle(t) \/ IdleStep(t) \/ IdleBack(t)
           \/ Back(t) \/ SettleOther(t) \/ SwapOut(t)
  <2>1. /\ m_fibers' = m_fibers /\ wakers' = wakers /\ ft' = ft
        /\ cb_fiber' = cb_fiber /\ m_state' = m_state
    BY <1>2 DEF PickNothing, EnterIdle, IdleStep, IdleBack, Back, SettleOther,
                SwapOut
  <2> QED BY <2>1, FreeKeeps DEF Held, Queued
<1>3. CASE Throw(t) \/ Return(t) \/ YieldToHold(t) \/ YieldToReady(t)
           \/ DispatchFiber(t) \/ ReuseFiber(t) \/ SettleCallback(t)
  <2>1. /\ m_fibers' = m_fibers /\ wakers' = wakers
        /\ \A u \in Threads : ft'[u] \in {ft[u], None}
        /\ cb_fiber' = cb_fiber
    BY <1>0, <1>3
    DEF Throw, Return, YieldToHold, YieldToReady, Yield, DispatchFiber,
        ReuseFiber, SettleCallback
  <2>2. \A f \in Fibers : m_state'[f] = "FREE" => m_state[f] = "FREE"
    BY <1>0, <1>3
    DEF Throw, Return, YieldToHold, YieldToReady, Yield, DispatchFiber, SwapIn,
        ReuseFiber, SettleCallback
  <2> QED BY <1>0, <2>1, <2>2, FreeKeeps DEF Held, Queued
<1>4. CASE NewFiber(t)
  <2>1. PICK f \in Fibers : /\ cb_fiber' = [cb_fiber EXCEPT ![t] = f]
                            /\ m_state' = [m_state EXCEPT ![f] = "EXEC"]
    BY <1>4 DEF NewFiber, SwapIn
  <2>2. \A g \in Fibers : m_state'[g] = "FREE" => m_state[g] = "FREE" /\ g # f
    BY <1>0, <2>1
  <2>3. \A g \in Fibers \ {f} : Held(g)' => Held(g)
    BY <1>0, <1>4, <2>1 DEF NewFiber, Held, Queued
  <2> QED BY <2>2, <2>3, FreeKeeps
<1>5. ASSUME NEW c \in Callbacks, ScheduleFrom(t, c) PROVE FreeUnheld'
  BY <1>5, FreeEnqueue DEF ScheduleFrom
<1>6. CASE ArmWake(t)
  <2>1. PICK f \in Fibers : f = Running(t)
    BY <1>6, RunningType DEF ArmWake, IInv, FiberPcs
  <2>2. Held(f) BY <2>1 DEF Held, Running
  <2>3. \A g \in Fibers : Held(g)' => Held(g)
    BY <1>6, <2>1, <2>2 DEF ArmWake, Held, Queued
  <2> QED BY <1>6, <2>3, FreeKeeps DEF ArmWake
<1>7. CASE SettleReady(t)
  <2>1. PICK f \in Fibers : f = Running(t)
    BY <1>7, RunningType DEF SettleReady, IInv, FiberPcs
  <2>2. Held(f) BY <2>1 DEF Held, Running
  <2> QED BY <1>0, <1>7, <2>1, <2>2, FreeAgain DEF SettleReady
<1>8. CASE Exit(t) /\ cb_fiber[t] = None
  BY <1>0, <1>8, FreeKeeps DEF Exit, Held, Queued
<1>9. CASE Exit(t) /\ cb_fiber[t] # None
  <2>1. cb_fiber[t] \in Fibers /\ m_state[cb_fiber[t]] # "FREE"
    BY <1>0, <1>9 DEF FreeUnheld, Held
  <2>2. ft[t] = None
    BY <1>9 DEF Exit, IInv, LocalsOK, FiberPcs
  <2>3. /\ Release(t, cb_fiber[t], m_state, m_cb, FALSE)
        /\ m_fibers' = m_fibers /\ wakers' = wakers /\ ft' = ft
        /\ cb_fiber' = [cb_fiber EXCEPT ![t] = None]
    BY <1>9 DEF Exit
  <2> QED BY <1>0, <2>1, <2>2, <2>3, FreeRelease
<1>10. CASE DropFinished(t) \/ SettleFiber(t)
  <2>1. /\ ft[t] \in Fibers /\ m_state[ft[t]] # "FREE"
        /\ Release(t, ft[t], m_state, m_cb, ft[t] = cb_fiber[t])
        /\ m_fibers' = m_fibers /\ wakers' = wakers /\ cb_fiber' = cb_fiber
        /\ ft' = [ft EXCEPT ![t] = None]
    <3>1. CASE DropFinished(t) BY <3>1 DEF DropFinished
    <3>2. CASE SettleFiber(t)
      BY <3>2 DEF SettleFiber, IInv, LocalsOK, FiberPcs
    <3> QED BY <1>10, <3>1, <3>2
  <2>2. (ft[t] = cb_fiber[t]) \in BOOLEAN OBVIOUS
  <2> QED BY <1>0, <2>1, <2>2, FreeRelease
<1>11. CASE WriteHold(t)
  <2>1. PICK f \in Fibers : f = Running(t)
    BY <1>11, RunningType DEF WriteHold, IInv, FiberPcs
  <2> DEFINE st == [m_state EXCEPT ![f] = "HOLD"]
             mine == ft[t] # None /\ ft[t] = cb_fiber[t]
  <2>2. /\ st \in [Fibers -> FiberStates] /\ st[f] # "FREE"
        /\ \A g \in Fibers \ {f} : st[g] = m_state[g]
    BY <1>0 DEF FiberStates
  <2>3. Release(t, f, st, m_cb, mine) BY <1>11, <2>1 DEF WriteHold
  <2>4. /\ m_fibers' = m_fibers /\ wakers' = wakers
        /\ ft' = [ft EXCEPT ![t] = None]
        /\ cb_fiber' = IF ft[t] = None THEN [cb_fiber EXCEPT ![t] = None]
                                       ELSE cb_fiber
    BY <1>11 DEF WriteHold
  <2>5. /\ \A u \in Threads \ {t} : ft'[u] = ft[u] /\ cb_fiber'[u] = cb_fiber[u]
        /\ ft'[t] \in {ft[t], None} /\ cb_fiber'[t] \in {cb_fiber[t], None}
        /\ ~mine => ft'[t] # f /\ cb_fiber'[t] # f
    BY <1>0, <2>1, <2>4 DEF Running
  <2>6. mine \in BOOLEAN OBVIOUS
  <2> HIDE DEF st, mine
  <2> QED BY <2>2, <2>3, <2>4, <2>5, <2>6, FreeRelease
<1> QED
  BY <1>1, <1>2, <1>3, <1>4, <1>5, <1>6, <1>7, <1>8, <1>9, <1>10, <1>11
  DEF ThreadStep

LEMMA FreeNext == IInv /\ FreeUnheld /\ [Next]_vars => FreeUnheld'
<1> SUFFICES ASSUME IInv, FreeUnheld, [Next]_vars PROVE FreeUnheld' OBVIOUS
<1>1. CASE UNCHANGED vars \/ Halted \/ Start \/ StopStep
  <2>1. /\ m_fibers' = m_fibers /\ wakers' = wakers /\ ft' = ft
        /\ cb_fiber' = cb_fiber /\ m_state' = m_state
    BY <1>1
    DEF vars, Halted, Start, StopStep, StopBegin, StopFlag, StopCallRoot,
        StopSkipRoot, RootReturn, Join
  <2> QED BY <2>1, FreeKeeps DEF Held, Queued
<1>2. ASSUME NEW c \in Callbacks, Submit(c) PROVE FreeUnheld'
  BY <1>2, FreeEnqueue DEF Submit
<1>3. ASSUME NEW f \in Fibers, Wake(f) PROVE FreeUnheld'
  <2>1. Held(f) BY <1>3 DEF Held, Wake
  <2> QED BY <1>3, <2>1, FreeAgain DEF Wake
<1>4. ASSUME NEW t \in Threads, ThreadStep(t) PROVE FreeUnheld'
  BY <1>4, FreeThread
<1> QED BY <1>1, <1>2, <1>3, <1>4 DEF Next

\* The callback that switching into task x would start: x itself or that of a
\* fiber which has not run yet; None for a fiber that would be resumed.
FirstOf(x) ==
  IF x \in Callbacks THEN x
  ELSE IF x \in Fibers /\ ctx[x] = "entry" THEN m_cb[x] ELSE None

\* A task that would start a callback is listed with the callback's thread, and
\* taken only by that thread; a fiber that a thread is in or that will be woken
\* starts none.
PinInv ==
  /\ \A i \in 1 .. Len(m_fibers) :
       FirstOf(m_fibers[i].task) # None =>
         m_fibers[i].thread = Pin[FirstOf(m_fibers[i].task)]
  /\ \A f \in wakers : FirstOf(f) = None
  /\ \A t \in Threads : pc[t] \in FiberPcs => FirstOf(Running(t)) = None
  /\ \A t \in Threads :
       pc[t] = "dispatch" /\ FirstOf(ft[t]) # None =>
         Pin[FirstOf(ft[t])] \in {AnyThread, t}

\* A step that gives no callback to a fiber anybody has a pointer to.
LEMMA PinKeeps ==
  ASSUME IInv, PinInv,
         \A f \in Fibers : FirstOf(f)' \in {FirstOf(f), None} \/ ~Held(f),
         \/ m_fibers' = m_fibers
         \/ \E f \in Fibers : /\ m_fibers' = Append(m_fibers, Entry(f, AnyThread))
                              /\ FirstOf(f)' = None,
         \A f \in wakers' : f \in wakers \/ FirstOf(f)' = None,
         \A t \in Threads :
           /\ pc'[t] \in FiberPcs =>
                \/ FirstOf(Running(t))' = None
                \/ pc[t] \in FiberPcs /\ Running(t)' = Running(t)
           /\ pc'[t] = "dispatch" => pc[t] = "dispatch" /\ ft'[t] = ft[t]
  PROVE PinInv'
<1>0. /\ Fibers \cap Callbacks = {} /\ None \notin Fibers \cup Callbacks
      /\ m_fibers \in Seq(Entries) /\ wakers \in SUBSET Fibers
      /\ ft \in [Threads -> Fibers \cup Callbacks \cup {None}]
  BY TasksAssumption DEF IInv, Typed
<1>1. ASSUME NEW x \in Fibers \cup Callbacks \cup {None},
             x \in Fibers => Held(x)
      PROVE FirstOf(x)' \in {FirstOf(x), None}
  <2>1. CASE x \in Fibers BY <1>1, <2>1
  <2>2. CASE x \notin Fibers BY <2>2 DEF FirstOf
  <2> QED BY <2>1, <2>2
<1>2. ASSUME NEW i \in 1 .. Len(m_fibers), FirstOf(m_fibers[i].task)' # None
      PROVE m_fibers[i].thread = Pin[FirstOf(m_fibers[i].task)']
  <2>0. m_fibers[i] \in Entries BY <1>0, ElementOfSeq
  <2>1. PICK x \in Fibers \cup Callbacks : x = m_fibers[i].task
    BY <2>0 DEF Entries
  <2>2. x \in Fibers => Held(x) BY <2>1 DEF Held, Queued
  <2>3. FirstOf(x)' = FirstOf(x) /\ FirstOf(x) # None
    BY <1>1, <1>2, <2>1, <2>2 DEF FirstOf
  <2>4. FirstOf(m_fibers[i].task)' = FirstOf(x)' BY <2>1 DEF FirstOf
  <2> QED BY <2>1, <2>3, <2>4 DEF PinInv
<1>3. \A i \in 1 .. Len(m_fibers') :
        (FirstOf(m_fibers[i].task) # None =>
           m_fibers[i].thread = Pin[FirstOf(m_fibers[i].task)])'
  <2>1. CASE m_fibers' = m_fibers BY <1>2, <2>1 DEF FirstOf
  <2>2. ASSUME NEW f \in Fibers, FirstOf(f)' = None,
               m_fibers' = Append(m_fibers, Entry(f, AnyThread)),
               NEW i \in 1 .. Len(m_fibers')
        PROVE (FirstOf(m_fibers[i].task) # None =>
                 m_fibers[i].thread = Pin[FirstOf(m_fibers[i].task)])'
    <3>1. Entry(f, AnyThread) \in Entries /\ Entry(f, AnyThread).task = f
      BY DEF Entry, Entries
    <3>2. \/ i \in 1 .. Len(m_fibers) /\ m_fibers'[i] = m_fibers[i]
          \/ m_fibers'[i] = Entry(f, AnyThread)
      BY <1>0, <2>2, <3>1, AppendAt
    <3>3. CASE i \in 1 .. Len(m_fibers) /\ m_fibers'[i] = m_fibers[i]
      BY <1>2, <3>3 DEF FirstOf
    <3>4. CASE m_fibers'[i] = Entry(f, AnyThread)
      BY <2>2, <3>1, <3>4 DEF FirstOf
    <3> QED BY <3>2, <3>3, <3>4
  <2> QED BY <2>1, <2>2
<1>4. \A f \in wakers' : FirstOf(f)' = None
  <2> SUFFICES ASSUME NEW f \in wakers', f \in wakers PROVE FirstOf(f)' = None
    OBVIOUS
  <2>1. f \in Fibers /\ Held(f) /\ FirstOf(f) = None
    BY <1>0 DEF Held, PinInv
  <2> QED BY <1>1, <2>1
<1>5. ASSUME NEW t \in Threads, pc'[t] \in FiberPcs
      PROVE FirstOf(Running(t))' = None
  <2> SUFFICES ASSUME pc[t] \in FiberPcs, Running(t)' = Running(t)
               PROVE FirstOf(Running(t))' = None
    BY <1>5
  <2>1. PICK f \in Fibers : f = Running(t) BY RunningType DEF IInv
  <2>2. Held(f) BY <2>1 DEF Held, Running
  <2>3. FirstOf(f) = None BY <2>1 DEF PinInv
  <2>4. FirstOf(f)' = None BY <1>1, <2>2, <2>3
  <2>5. FirstOf(Running(t))' = FirstOf(f)' BY <2>1 DEF FirstOf
  <2> QED BY <2>4, <2>5
<1>6. ASSUME NEW t \in Threads, pc'[t] = "dispatch", FirstOf(ft[t])' # None
      PROVE Pin[FirstOf(ft[t])'] \in {AnyThread, t}
  <2>1. pc[t] = "dispatch" /\ ft'[t] = ft[t] BY <1>6
  <2>2. PICK x \in Fibers \cup Callbacks \cup {None} : x = ft[t] BY <1>0
  <2>3. x \in Fibers => Held(x) BY <2>2 DEF Held
  <2>4. FirstOf(ft[t])' = FirstOf(x)' BY <2>1, <2>2 DEF FirstOf
  <2>5. FirstOf(x)' = FirstOf(x) BY <1>1, <1>6, <2>3, <2>4
  <2> QED BY <1>6, <2>1, <2>2, <2>4, <2>5 DEF PinInv
<1> QED BY <1>3, <1>4, <1>5, <1>6 DEF PinInv

\* What FirstOf depends on.
LEMMA FirstSame ==
  ASSUME IInv, NEW f \in Fibers,
         \/ m_cb'[f] = m_cb[f] /\ ctx'[f] = ctx[f]
         \/ m_cb'[f] = None
         \/ ctx'[f] # "entry"
  PROVE FirstOf(f)' \in {FirstOf(f), None}
BY TasksAssumption DEF FirstOf

LEMMA PinEnqueue ==
  ASSUME IInv, FreeUnheld, PinInv, NEW c \in Callbacks, Enqueue(c),
         pc' = pc, ft' = ft, cb_fiber' = cb_fiber, wakers' = wakers
  PROVE PinInv'
<1>0. /\ Pin[c] \in Threads \cup {AnyThread} /\ c \notin Fibers
      /\ Fibers \cap Callbacks = {} /\ None \notin Fibers \cup Callbacks
      /\ m_fibers \in Seq(Entries) /\ wakers \in SUBSET Fibers
      /\ ft \in [Threads -> Fibers \cup Callbacks \cup {None}]
      /\ m_cb \in [Fibers -> Callbacks \cup {None}]
      /\ ctx \in [Fibers -> Contexts]
  BY TasksAssumption DEF IInv, Typed
<1>1. PICK x \in Fibers \cup {c} :
        /\ m_fibers' = Append(m_fibers, Entry(x, Pin[c]))
        /\ FirstOf(x)' = c
        /\ x \in Fibers => ~Held(x)
        /\ \A f \in Fibers \ {x} : FirstOf(f)' = FirstOf(f)
  <2>1. CASE c \notin AsFiber
    <3>1. /\ m_fibers' = Append(m_fibers, Entry(c, Pin[c]))
          /\ m_cb' = m_cb /\ ctx' = ctx
      BY <2>1 DEF Enqueue
    <3>2. FirstOf(c)' = c /\ \A f \in Fibers : FirstOf(f)' = FirstOf(f)
      BY <3>1 DEF FirstOf
    <3> QED BY <1>0, <3>1, <3>2
  <2>2. CASE c \in AsFiber
    <3>1. PICK g \in Fibers :
            /\ m_state[g] = "FREE"
            /\ m_cb' = [m_cb EXCEPT ![g] = c]
            /\ ctx' = [ctx EXCEPT ![g] = "entry"]
            /\ m_fibers' = Append(m_fibers, Entry(g, Pin[c]))
      BY <2>2 DEF Enqueue
    <3>2. ~Held(g) BY <3>1 DEF FreeUnheld
    <3>3. m_cb'[g] = c /\ ctx'[g] = "entry" BY <1>0, <3>1
    <3>4. FirstOf(g)' = c BY <1>0, <3>3 DEF FirstOf
    <3>5. ASSUME NEW f \in Fibers \ {g} PROVE FirstOf(f)' = FirstOf(f)
      BY <1>0, <3>1 DEF FirstOf
    <3> QED BY <3>1, <3>2, <3>4, <3>5
  <2> QED BY <2>1, <2>2
<1>2. /\ Entry(x, Pin[c]) \in Entries /\ Entry(x, Pin[c]).task = x
      /\ Entry(x, Pin[c]).thread = Pin[c]
  BY <1>0 DEF Entry, Entries
<1>3. ASSUME NEW y \in Fibers \cup Callbacks \cup {None}, y \in Fibers => Held(y)
      PROVE FirstOf(y)' = FirstOf(y)
  <2>1. CASE y \in Fibers BY <1>1, <1>3, <2>1
  <2>2. CASE y \notin Fibers BY <2>2 DEF FirstOf
  <2> QED BY <2>1, <2>2
<1>4. ASSUME NEW i \in 1 .. Len(m_fibers')
      PROVE (FirstOf(m_fibers[i].task) # None =>
               m_fibers[i].thread = Pin[FirstOf(m_fibers[i].task)])'
  <2>1. \/ i \in 1 .. Len(m_fibers) /\ m_fibers'[i] = m_fibers[i]
        \/ m_fibers'[i] = Entry(x, Pin[c])
    BY <1>0, <1>1, <1>2, AppendAt
  <2>2. CASE i \in 1 .. Len(m_fibers) /\ m_fibers'[i] = m_fibers[i]
    <3>0. m_fibers[i] \in Entries BY <1>0, <2>2, ElementOfSeq
    <3>1. PICK y \in Fibers \cup Callbacks : y = m_fibers[i].task
      BY <3>0 DEF Entries
    <3>2. y \in Fibers => Held(y) BY <2>2, <3>1 DEF Held, Queued
    <3>3. FirstOf(y)' = FirstOf(y) BY <1>3, <3>2
    <3>4. FirstOf(m_fibers[i].task)' = FirstOf(y)' BY <2>2, <3>1 DEF FirstOf
    <3> QED BY <2>2, <3>1, <3>3, <3>4 DEF PinInv
  <2>3. CASE m_fibers'[i] = Entry(x, Pin[c])
    <3>1. m_fibers'[i].task = x /\ m_fibers'[i].thread = Pin[c] BY <1>2, <2>3
    <3>2. FirstOf(m_fibers[i].task)' = FirstOf(x)' BY <3>1 DEF FirstOf
    <3> QED BY <1>1, <3>1, <3>2
  <2> QED BY <2>1, <2>2, <2>3
<1>5. ASSUME NEW f \in wakers' PROVE FirstOf(f)' = None
  <2>1. f \in Fibers /\ Held(f) /\ FirstOf(f) = None
    BY <1>0 DEF Held, PinInv
  <2> QED BY <1>3, <2>1
<1>6. ASSUME NEW t \in Threads, pc'[t] \in FiberPcs
      PROVE FirstOf(Running(t))' = None
  <2>1. PICK f \in Fibers : f = Running(t) BY <1>6, RunningType DEF IInv
  <2>2. Held(f) /\ FirstOf(f) = None BY <1>6, <2>1 DEF Held, Running, PinInv
  <2>3. FirstOf(f)' = None BY <1>3, <2>2
  <2>4. Running(t)' = f BY <2>1 DEF Running
  <2>5. FirstOf(Running(t))' = FirstOf(f)' BY <2>4 DEF FirstOf
  <2> QED BY <2>3, <2>5
<1>7. ASSUME NEW t \in Threads, pc'[t] = "dispatch", FirstOf(ft[t])' # None
      PROVE Pin[FirstOf(ft[t])'] \in {AnyThread, t}
  <2>1. PICK y \in Fibers \cup Callbacks \cup {None} : y = ft[t] BY <1>0
  <2>2. y \in Fibers => Held(y) BY <2>1 DEF Held
  <2>3. FirstOf(ft[t])' = FirstOf(y)' BY <2>1 DEF FirstOf
  <2>4. FirstOf(y)' = FirstOf(y) BY <1>3, <2>2
  <2> QED BY <1>7, <2>1, <2>3, <2>4 DEF PinInv
<1> QED BY <1>4, <1>5, <1>6, <1>7 DEF PinInv

LEMMA PinPick ==
  ASSUME IInv, PinInv, NEW t \in Threads, PickTask(t)
  PROVE PinInv'
<1>1. PICK k \in 1 .. Len(m_fibers) :
        /\ Eligible(t, m_fibers[k])
        /\ ft' = [ft EXCEPT ![t] = m_fibers[k].task]
        /\ m_fibers' = Without(m_fibers, k)
  BY DEF PickTask
<1>2. /\ m_cb' = m_cb /\ ctx' = ctx /\ cb_fiber' = cb_fiber /\ wakers' = wakers
      /\ pc' = [pc EXCEPT ![t] = "dispatch"]
  BY DEF PickTask
<1>3. /\ m_fibers \in Seq(Entries) /\ Len(m_fibers) \in Nat
      /\ ft \in [Threads -> Fibers \cup Callbacks \cup {None}]
      /\ pc \in [Threads -> Pcs]
  BY LenProperties DEF IInv, Typed
<1>4. /\ Len(m_fibers') = Len(m_fibers) - 1
      /\ \A i \in 1 .. Len(m_fibers) - 1 :
           m_fibers'[i] = m_fibers[IF i < k THEN i ELSE i + 1]
  BY <1>1, <1>3, WithoutAt
<1>5. \A i \in 1 .. Len(m_fibers') :
        \E j \in 1 .. Len(m_fibers) : m_fibers'[i] = m_fibers[j]
  BY <1>3, <1>4
<1>6. \A x : FirstOf(x)' = FirstOf(x) BY <1>2 DEF FirstOf
<1>7. ASSUME NEW i \in 1 .. Len(m_fibers')
      PROVE (FirstOf(m_fibers[i].task) # None =>
               m_fibers[i].thread = Pin[FirstOf(m_fibers[i].task)])'
  <2>1. PICK j \in 1 .. Len(m_fibers) : m_fibers'[i] = m_fibers[j] BY <1>5
  <2>2. FirstOf(m_fibers[i].task)' = FirstOf(m_fibers[j].task)
    BY <1>2, <2>1 DEF FirstOf
  <2> QED BY <2>1, <2>2 DEF PinInv
<1>8. ASSUME NEW f \in wakers' PROVE FirstOf(f)' = None
  BY <1>2, <1>6 DEF PinInv
<1>9. ASSUME NEW u \in Threads, pc'[u] \in FiberPcs
      PROVE FirstOf(Running(u))' = None
  <2>1. u # t /\ pc[u] \in FiberPcs BY <1>2, <1>3, <1>9 DEF FiberPcs
  <2>2. Running(u)' = Running(u) BY <1>1, <1>2, <1>3, <2>1 DEF Running
  <2>3. FirstOf(Running(u))' = FirstOf(Running(u)) BY <1>2, <2>2 DEF FirstOf
  <2> QED BY <2>1, <2>3 DEF PinInv
<1>10. ASSUME NEW u \in Threads, pc'[u] = "dispatch", FirstOf(ft[u])' # None
       PROVE Pin[FirstOf(ft[u])'] \in {AnyThread, u}
  <2>1. CASE u = t
    <3>1. ft'[u] = m_fibers[k].task BY <1>1, <1>3, <2>1
    <3>2. FirstOf(ft[u])' = FirstOf(m_fibers[k].task)
      BY <1>2, <3>1 DEF FirstOf
    <3>3. m_fibers[k].thread = Pin[FirstOf(m_fibers[k].task)]
      BY <1>10, <3>2 DEF PinInv
    <3> QED BY <1>1, <2>1, <3>2, <3>3 DEF Eligible
  <2>2. CASE u # t
    <3>1. pc[u] = "dispatch" /\ ft'[u] = ft[u] BY <1>1, <1>2, <1>3, <1>10, <2>2
    <3>2. FirstOf(ft[u])' = FirstOf(ft[u]) BY <1>2, <3>1 DEF FirstOf
    <3> QED BY <1>10, <3>1, <3>2 DEF PinInv
  <2> QED BY <2>1, <2>2
<1> QED BY <1>7, <1>8, <1>9, <1>10 DEF PinInv

\* A step of thread t that leaves the list and the wake-ups alone.
LEMMA PinMoves ==
  ASSUME IInv, PinInv, NEW t \in Threads, NEW v, Moves(t, v),
         m_fibers' = m_fibers, wakers' = wakers,
         \A f \in Fibers : FirstOf(f)' \in {FirstOf(f), None},
         v # "dispatch",
         v \in FiberPcs => \/ FirstOf(Running(t))' = None
                           \/ pc[t] \in FiberPcs /\ Running(t)' = Running(t)
  PROVE PinInv'
<1>1. /\ pc'[t] = v
      /\ \A u \in Threads \ {t} : pc'[u] = pc[u] /\ ft'[u] = ft[u]
                                  /\ Running(u)' = Running(u)
  BY DEF Moves, Running, IInv, Typed
<1>2. \A u \in Threads :
        /\ pc'[u] \in FiberPcs =>
             \/ FirstOf(Running(u))' = None
             \/ pc[u] \in FiberPcs /\ Running(u)' = Running(u)
        /\ pc'[u] = "dispatch" => pc[u] = "dispatch" /\ ft'[u] = ft[u]
  BY <1>1
<1> QED BY <1>2, PinKeeps

LEMMA PinThread ==
  ASSUME IInv, FreeUnheld, PinInv, NEW t \in Threads, ThreadStep(t)
  PROVE PinInv'
<1>0. /\ ft \in [Threads -> Fibers \cup Callbacks \cup {None}]
      /\ cb_fiber \in [Threads -> Fibers \cup {None}]
      /\ m_cb \in [Fibers -> Callbacks \cup {None}]
      /\ ctx \in [Fibers -> Contexts]
      /\ pc \in [Threads -> Pcs]
      /\ None \notin Fibers \cup Callbacks /\ Fibers \cap Callbacks = {}
  BY TasksAssumption DEF IInv, Typed
<1>1. CASE PickTask(t) BY <1>1, PinPick
<1>2. CASE PickNothing(t) \/ EnterIdle(t) \/ IdleStep(t) \/ IdleBack(t)
  <2>1. PICK v \in {"noTask", "idle", "idleBack", "scan"} : Moves(t, v)
    BY <1>2, ThreadMoves
  <2>2. /\ m_fibers' = m_fibers /\ wakers' = wakers
        /\ m_cb' = m_cb /\ ctx' = ctx
    BY <1>2 DEF PickNothing, EnterIdle, IdleStep, IdleBack
  <2>3. \A f \in Fibers : FirstOf(f)' \in {FirstOf(f), None}
    BY <2>2 DEF FirstOf
  <2> QED BY <2>1, <2>2, <2>3, PinMoves DEF FiberPcs
<1>3. CASE Exit(t) \/ DropFinished(t) \/ SettleFiber(t) \/ WriteHold(t)
           \/ SettleCallback(t)
  <2>1. PICK v \in {"exited", "scan"} : Moves(t, v)
    BY <1>3, ThreadMoves
  <2>2. m_fibers' = m_fibers /\ wakers' = wakers
    BY <1>3 DEF Exit, DropFinished, SettleFiber, WriteHold, SettleCallback
  <2>3. \A f \in Fibers : (m_cb'[f] = m_cb[f] /\ ctx'[f] = ctx[f]) \/ m_cb'[f] = None
    <3>1. CASE Exit(t) BY <1>0, <3>1 DEF Exit, Release
    <3>2. CASE DropFinished(t) BY <1>0, <3>2 DEF DropFinished, Release
    <3>3. CASE SettleFiber(t) BY <1>0, <3>3 DEF SettleFiber, Release
    <3>4. CASE WriteHold(t) BY <1>0, <3>4 DEF WriteHold, Release
    <3>5. CASE SettleCallback(t) BY <1>0, <3>5 DEF SettleCallback
    <3> QED BY <1>3, <3>1, <3>2, <3>3, <3>4, <3>5
  <2>4. \A f \in Fibers : FirstOf(f)' \in {FirstOf(f), None}
    BY <2>3, FirstSame
  <2> QED BY <2>1, <2>2, <2>4, PinMoves DEF FiberPcs
<1>4. CASE Back(t) \/ SettleOther(t) \/ SwapOut(t) \/ Throw(t) \/ Return(t)
  <2>1. PICK v \in {"settle", "writeHold", "back", "fin"} : Moves(t, v)
    BY <1>4, ThreadMoves
  <2>2. /\ m_fibers' = m_fibers /\ wakers' = wakers
        /\ ft' = ft /\ cb_fiber' = cb_fiber /\ pc[t] \in FiberPcs
    BY <1>4 DEF Back, SettleOther, SwapOut, Throw, Return, FiberPcs
  <2>3. \A f \in Fibers : \/ m_cb'[f] = m_cb[f] /\ ctx'[f] = ctx[f]
                          \/ m_cb'[f] = None
                          \/ ctx'[f] # "entry"
    BY <1>0, <1>4 DEF Back, SettleOther, SwapOut, Throw, Return
  <2>4. \A f \in Fibers : FirstOf(f)' \in {FirstOf(f), None}
    BY <2>3, FirstSame
  <2>5. Running(t)' = Running(t) BY <2>2 DEF Running
  <2> QED BY <2>1, <2>2, <2>4, <2>5, PinMoves DEF FiberPcs
<1>5. CASE YieldToHold(t) \/ YieldToReady(t)
  <2>1. /\ m_fibers' = m_fibers /\ wakers' = wakers /\ m_cb' = m_cb /\ ctx' = ctx
        /\ ft' = ft /\ cb_fiber' = cb_fiber /\ pc[t] \in FiberPcs
        /\ pc' = pc \/ pc' = [pc EXCEPT ![t] = "out"]
    BY <1>5 DEF YieldToHold, YieldToReady, Yield, FiberPcs
  <2>2. \A f \in Fibers : FirstOf(f)' \in {FirstOf(f), None}
    BY <2>1 DEF FirstOf
  <2>3. \A u \in Threads :
          /\ pc'[u] \in FiberPcs => pc[u] \in FiberPcs /\ Running(u)' = Running(u)
          /\ pc'[u] = "dispatch" => pc[u] = "dispatch" /\ ft'[u] = ft[u]
    BY <1>0, <2>1 DEF Running
  <2> QED BY <2>1, <2>2, <2>3, PinKeeps
<1>6. CASE DispatchFiber(t) \/ ReuseFiber(t) \/ NewFiber(t)
  <2>1. Moves(t, "run") BY <1>6, ThreadMoves
  <2>2. PICK g \in Fibers :
          /\ g = Running(t)'
          /\ ctx' = [ctx EXCEPT ![g] = "live"]
          /\ m_cb' = m_cb \/ \E c \in Callbacks : m_cb' = [m_cb EXCEPT ![g] = c]
    <3>1. CASE DispatchFiber(t)
      <4>1. ft[t] \in Fibers /\ ft' = ft /\ m_cb' = m_cb
            /\ ctx' = [ctx EXCEPT ![ft[t]] = "live"]
        BY <3>1 DEF DispatchFiber, SwapIn
      <4>2. Running(t)' = ft[t] BY <1>0, <4>1 DEF Running
      <4> QED BY <4>1, <4>2
    <3>2. CASE ReuseFiber(t)
      <4>1. /\ cb_fiber[t] \in Fibers /\ cb_fiber' = cb_fiber
            /\ ft[t] \in Callbacks /\ ft' = [ft EXCEPT ![t] = None]
            /\ m_cb' = [m_cb EXCEPT ![cb_fiber[t]] = ft[t]]
            /\ ctx' = [ctx EXCEPT ![cb_fiber[t]] = "live"]
        BY <1>0, <3>2 DEF ReuseFiber
      <4>2. Running(t)' = cb_fiber[t] BY <1>0, <4>1 DEF Running
      <4> QED BY <4>1, <4>2
    <3>3. CASE NewFiber(t)
      <4>1. PICK f \in Fibers :
              /\ cb_fiber' = [cb_fiber EXCEPT ![t] = f]
              /\ ft[t] \in Callbacks /\ ft' = [ft EXCEPT ![t] = None]
              /\ m_cb' = [m_cb EXCEPT ![f] = ft[t]]
              /\ ctx' = [ctx EXCEPT ![f] = "live"]
        BY <3>3 DEF NewFiber, SwapIn
      <4>2. Running(t)' = f BY <1>0, <4>1 DEF Running
      <4> QED BY <4>1, <4>2
    <3> QED BY <1>6, <3>1, <3>2, <3>3
  <2>3. m_fibers' = m_fibers /\ wakers' = wakers
    BY <1>6 DEF DispatchFiber, ReuseFiber, NewFiber
  <2>4. ctx'[g] = "live" BY <1>0, <2>2
  <2>5. \A f \in Fibers : \/ m_cb'[f] = m_cb[f] /\ ctx'[f] = ctx[f]
                          \/ ctx'[f] # "entry"
    BY <1>0, <2>2
  <2>6. \A f \in Fibers : FirstOf(f)' \in {FirstOf(f), None}
    BY <2>5, FirstSame
  <2>7. FirstOf(g)' = None BY <1>0, <2>4 DEF FirstOf
  <2>8. FirstOf(Running(t))' = FirstOf(g)' BY <2>2 DEF FirstOf
  <2> QED BY <2>1, <2>3, <2>6, <2>7, <2>8, PinMoves
<1>7. ASSUME NEW c \in Callbacks, ScheduleFrom(t, c) PROVE PinInv'
  BY <1>7, PinEnqueue DEF ScheduleFrom
<1>8. CASE ArmWake(t)
  <2>1. PICK f \in Fibers : f = Running(t)
    BY <1>8, RunningType DEF ArmWake, IInv, FiberPcs
  <2>2. FirstOf(f) = None BY <1>8, <2>1 DEF PinInv, ArmWake, FiberPcs
  <2>3. /\ m_fibers' = m_fibers /\ m_cb' = m_cb /\ ctx' = ctx
        /\ ft' = ft /\ cb_fiber' = cb_fiber
        /\ wakers' = wakers \cup {f} /\ pc[t] = "run"
        /\ pc' = [pc EXCEPT ![t] = "armed"]
    BY <1>8, <2>1 DEF ArmWake
  <2>4. \A g \in Fibers : FirstOf(g)' = FirstOf(g) BY <2>3 DEF FirstOf
  <2>5. \A g \in wakers' : g \in wakers \/ FirstOf(g)' = None
    BY <2>2, <2>3, <2>4
  <2>6. \A u \in Threads :
          /\ pc'[u] \in FiberPcs => pc[u] \in FiberPcs /\ Running(u)' = Running(u)
          /\ pc'[u] = "dispatch" => pc[u] = "dispatch" /\ ft'[u] = ft[u]
    BY <1>0, <2>3 DEF Running, FiberPcs
  <2> QED BY <2>3, <2>4, <2>5, <2>6, PinKeeps
<1>9. CASE SettleReady(t)
  <2>1. PICK f \in Fibers : f = Running(t)
    BY <1>9, RunningType DEF SettleReady, IInv, FiberPcs
  <2>2. FirstOf(f) = None BY <1>9, <2>1 DEF PinInv, SettleReady, FiberPcs
  <2>3. /\ m_fibers' = Append(m_fibers, Entry(f, AnyThread))
        /\ m_cb' = m_cb /\ ctx' = ctx /\ wakers' = wakers
        /\ ft' = [ft EXCEPT ![t] = None] /\ cb_fiber' = cb_fiber
        /\ pc' = [pc EXCEPT ![t] = "scan"]
    BY <1>9, <2>1 DEF SettleReady
  <2>4. \A g \in Fibers : FirstOf(g)' = FirstOf(g) BY <2>3 DEF FirstOf
  <2>5. \A u \in Threads :
          /\ pc'[u] \in FiberPcs => pc[u] \in FiberPcs /\ Running(u)' = Running(u)
          /\ pc'[u] = "dispatch" => pc[u] = "dispatch" /\ ft'[u] = ft[u]
    BY <1>0, <2>3 DEF Running, FiberPcs
  <2> QED BY <2>2, <2>3, <2>4, <2>5, PinKeeps
<1> QED
  BY <1>1, <1>2, <1>3, <1>4, <1>5, <1>6, <1>7, <1>8, <1>9 DEF ThreadStep

LEMMA PinNext == IInv /\ FreeUnheld /\ PinInv /\ [Next]_vars => PinInv'
<1> SUFFICES ASSUME IInv, FreeUnheld, PinInv, [Next]_vars PROVE PinInv' OBVIOUS
<1>1. CASE UNCHANGED vars \/ Halted \/ Start \/ StopStep
  <2>1. /\ m_fibers' = m_fibers /\ wakers' = wakers /\ ft' = ft
        /\ cb_fiber' = cb_fiber /\ m_cb' = m_cb /\ ctx' = ctx
    BY <1>1
    DEF vars, Halted, Start, StopStep, StopBegin, StopFlag, StopCallRoot,
        StopSkipRoot, RootReturn, Join
  <2>2. \A u \in Threads : pc'[u] \in FiberPcs \cup {"dispatch"} => pc'[u] = pc[u]
    BY <1>1
    DEF vars, Halted, Start, StopStep, StopBegin, StopFlag, StopCallRoot,
        StopSkipRoot, RootReturn, Join, IInv, Typed, FiberPcs
  <2>3. \A u \in Threads :
          /\ pc'[u] \in FiberPcs => pc[u] \in FiberPcs /\ Running(u)' = Running(u)
          /\ pc'[u] = "dispatch" => pc[u] = "dispatch" /\ ft'[u] = ft[u]
    BY <2>1, <2>2 DEF Running
  <2>4. \A g \in Fibers : FirstOf(g)' = FirstOf(g) BY <2>1 DEF FirstOf
  <2> QED BY <2>1, <2>3, <2>4, PinKeeps
<1>2. ASSUME NEW c \in Callbacks, Submit(c) PROVE PinInv'
  BY <1>2, PinEnqueue DEF Submit
<1>3. ASSUME NEW f \in Fibers, Wake(f) PROVE PinInv'
  <2>1. /\ m_fibers' = Append(m_fibers, Entry(f, AnyThread))
        /\ m_cb' = m_cb /\ ctx' = ctx /\ wakers' \subseteq wakers
        /\ ft' = ft /\ cb_fiber' = cb_fiber /\ pc' = pc /\ f \in wakers
    BY <1>3 DEF Wake
  <2>2. \A g \in Fibers : FirstOf(g)' = FirstOf(g) BY <2>1 DEF FirstOf
  <2>3. FirstOf(f)' = None BY <2>1, <2>2 DEF PinInv
  <2>4. \A u \in Threads : Running(u)' = Running(u) BY <2>1 DEF Running
  <2> QED BY <2>1, <2>2, <2>3, <2>4, PinKeeps
<1>4. ASSUME NEW t \in Threads, ThreadStep(t) PROVE PinInv'
  BY <1>4, PinThread
<1> QED BY <1>1, <1>2, <1>3, <1>4 DEF Next

LEMMA PinAlways == Spec => [](FreeUnheld /\ PinInv)
<1>1. Init => FreeUnheld /\ PinInv
  <2> SUFFICES ASSUME Init PROVE FreeUnheld /\ PinInv OBVIOUS
  <2>1. Len(m_fibers) = 0 /\ None \notin Fibers BY EmptySeq, TasksAssumption DEF Init
  <2>2. FreeUnheld BY <2>1 DEF Init, FreeUnheld, Held, Queued
  <2> QED BY <2>1, <2>2 DEF Init, PinInv, FiberPcs
<1> QED BY <1>1, IInvAlways, FreeNext, PinNext, PTL DEF Spec

\* Whatever the callbacks do and however the threads interleave, a callback
\* scheduled for a thread is started by that thread.
THEOREM SchedulerStartsWherePinned == Spec => StartsWherePinned
<1>1. PinInv /\ [Next]_vars
        => [\A t \in Threads, c \in Callbacks :
              Starts(t, c) => Pin[c] \in {AnyThread, t}]_vars
  <2> SUFFICES ASSUME PinInv, NEW t \in Threads, NEW c \in Callbacks, Starts(t, c)
               PROVE Pin[c] \in {AnyThread, t}
    OBVIOUS
  <2>0. c # None /\ Fibers \cap Callbacks = {} BY TasksAssumption
  <2>1. FirstOf(ft[t]) = c BY <2>0 DEF Starts, FirstOf
  <2> QED BY <2>0, <2>1 DEF Starts, PinInv
<1> QED BY <1>1, PinAlways, PTL DEF Spec, StartsWherePinned

-----------------------------------------------------------------------------
(***************************************************************************)
(* The callbacks run() supports, and what the scheduler guarantees them,   *)
(* for every set of threads, fibers and callbacks: no assertion of         *)
(* fiber.cc fails unless a callback throws, and the scheduler implements   *)
(* TaskPool.                                                               *)
(***************************************************************************)

\* A callback may leave its fiber before it is finished.
Yielding == \E c \in Callbacks : Ops[c] \cap {"hold", "ready"} # {}

\* run() resumes a fiber that has not switched away yet when a second thread
\* finds it in the list, and keeps a READY cb_fiber in both the list and
\* cb_fiber: callbacks yield only on a scheduler of one thread, and yield READY
\* only in a fiber of the user's.
Supported ==
  /\ Yielding => \A t, u \in Threads : t = u
  /\ \A c \in Callbacks : "ready" \in Ops[c] => c \in AsFiber

\* No callback throws.
NoThrow == \A c \in Callbacks : "throw" \notin Ops[c]

----------------------------------------------------------------------------
\* The invariant.  It speaks of the states in which no assertion has failed.

\* Thread t has taken fiber f from the list; thread t is in f, or has just come
\* back from it.
Taken(t, f) == pc[t] = "dispatch" /\ ft[t] = f
Inside(t, f) == pc[t] \in FiberPcs /\ Running(t) = f

\* Something will make a thread switch into f.
Awaited(f) == Queued(f) \/ f \in wakers \/ \E t \in Threads : Taken(t, f)

\* At most one thing will.
AwaitedOnce(f) ==
  /\ ~ (Queued(f) /\ f \in wakers)
  /\ \A t \in Threads : Taken(t, f) => ~Queued(f) /\ f \notin wakers
  /\ \A t, u \in Threads : Taken(t, f) /\ Taken(u, f) => t = u

\* A fiber that thread t is in, by the point the thread has reached.
Left(f) ==
  \/ m_state[f] = "HOLD" /\ m_cb[f] # None /\ Awaited(f) /\ Yielding
  \/ /\ m_state[f] = "READY" /\ m_cb[f] # None /\ ~Awaited(f) /\ Yielding
     /\ \A t \in Threads : cb_fiber[t] # f

Ended(f) ==
  /\ \/ m_state[f] = "TERM" /\ m_cb[f] = None
     \/ m_state[f] = "EXCEPT"
  /\ ~Awaited(f)

InsideOK(t, f) ==
  /\ pc[t] = "run" => /\ m_state[f] = "EXEC" /\ m_cb[f] # None
                      /\ ctx[f] = "live" /\ ~Awaited(f)
  /\ pc[t] = "armed" => /\ m_state[f] = "EXEC" /\ m_cb[f] # None
                        /\ ctx[f] = "live" /\ Awaited(f) /\ Yielding
  /\ pc[t] = "out" => Left(f) /\ ctx[f] = "live"
  /\ pc[t] = "fin" => Ended(f) /\ ctx[f] = "live"
  /\ pc[t] \in {"back", "settle"} =>
       (Left(f) /\ ctx[f] = "saved") \/ (Ended(f) /\ ctx[f] = "over")
  /\ pc[t] = "writeHold" => Left(f) /\ m_state[f] = "HOLD" /\ ctx[f] = "saved"

\* A fiber that no thread is in.
AtRest(f) ==
  \/ /\ m_state[f] = "FREE" /\ ctx[f] = "entry" /\ m_cb[f] = None
     /\ ~Awaited(f) /\ \A t \in Threads : cb_fiber[t] # f
  \/ /\ m_state[f] = "INIT" /\ ctx[f] = "entry"
     /\ \/ m_cb[f] = None /\ ~Awaited(f)
        \/ /\ m_cb[f] # None /\ Awaited(f)
           /\ \A t \in Threads : cb_fiber[t] # f
  \/ /\ m_state[f] \in {"HOLD", "READY"} /\ ctx[f] = "saved"
     /\ m_cb[f] # None /\ Awaited(f) /\ Yielding
     /\ \A t \in Threads : cb_fiber[t] # f

\* A thread's cb_fiber is empty, or the thread executes a callback in it.
CbFiberOK(f) ==
  /\ \A t \in Threads : cb_fiber[t] = f =>
       /\ m_cb[f] \notin AsFiber
       /\ m_state[f] = "INIT" \/ (Inside(t, f) /\ ft[t] = None)
  /\ \A t, u \in Threads : cb_fiber[t] = f /\ cb_fiber[u] = f => t = u

FiberOK(f) ==
  /\ AwaitedOnce(f)
  /\ \A t \in Threads : Inside(t, f) => InsideOK(t, f)
  /\ \A t, u \in Threads : Inside(t, f) /\ Inside(u, f) => t = u
  /\ (\A t \in Threads : ~Inside(t, f)) => AtRest(f)
  /\ CbFiberOK(f)

\* A fiber is listed once, and a callback of AsFiber only in its fiber.
ListOK ==
  /\ \A i, j \in 1 .. Len(m_fibers) :
       m_fibers[i].task \in Fibers /\ m_fibers[i].task = m_fibers[j].task => i = j
  /\ \A i \in 1 .. Len(m_fibers) : m_fibers[i].task \notin AsFiber
  /\ \A t \in Threads : ft[t] \notin AsFiber
  /\ wakers # {} => Yielding

\* Nothing is left to execute and nothing will be added: stop() has set its
\* flags, and when fibers wait, no thread is in an idle() that could wake them.
Quiet ==
  /\ m_autoStop /\ m_stopping
  /\ m_fibers = << >>
  /\ \A t \in Threads : pc[t] \notin ActivePcs
  /\ Yielding => \A t \in Threads : pc[t] = "off" \/ idleTerm[t]

StopOK ==
  /\ mpc = "new" => ~m_autoStop
  /\ mpc \in {"started", "stopping"} => ~m_stopping
  /\ \A t \in Threads :
       /\ idleTerm[t] => Quiet /\ pc[t] \in {"idleBack", "scan", "noTask", "exited"}
       /\ pc[t] = "exited" => idleTerm[t]
  /\ mpc \in {"join", "done"} /\ UseCaller => Quiet /\ pc[Root] \in {"off", "exited"}
  /\ mpc = "done" => \A t \in Workers : pc[t] = "exited"

FibersOK == \A f \in Fibers : FiberOK(f)

USE DEF fiberVars, localVars, countVars, stopVars

----------------------------------------------------------------------------
\* Steps that do not concern a fiber.

\* Everything FiberOK(f) depends on is as it was.
Untouched(f) ==
  /\ m_state'[f] = m_state[f] /\ m_cb'[f] = m_cb[f] /\ ctx'[f] = ctx[f]
  /\ Queued(f)' <=> Queued(f)
  /\ f \in wakers' <=> f \in wakers
  /\ \A t \in Threads :
       /\ Taken(t, f)' <=> Taken(t, f)
       /\ Inside(t, f)' <=> Inside(t, f)
       /\ Inside(t, f) => pc'[t] = pc[t] /\ ft'[t] = ft[t]
       /\ cb_fiber'[t] = f <=> cb_fiber[t] = f

LEMMA Frame ==
  ASSUME NEW f \in Fibers, FiberOK(f), Untouched(f)
  PROVE FiberOK(f)'
<1> USE DEF Untouched
<1>1. Awaited(f)' <=> Awaited(f) BY DEF Awaited
<1>2. AwaitedOnce(f)' BY DEF FiberOK, AwaitedOnce
<1>3. /\ Left(f)' <=> Left(f)
      /\ Ended(f)' <=> Ended(f)
      /\ AtRest(f)' <=> AtRest(f)
  BY <1>1 DEF Left, Ended, AtRest
<1>4. \A t \in Threads : Inside(t, f) /\ InsideOK(t, f) => InsideOK(t, f)'
  BY <1>1, <1>3 DEF InsideOK
<1>5. CbFiberOK(f)' BY DEF FiberOK, CbFiberOK
<1> QED BY <1>2, <1>3, <1>4, <1>5 DEF FiberOK

\* A step of thread t that leaves f alone: t neither is in f nor holds it, before
\* and after the step.
Elsewhere(t, f) ==
  /\ m_state'[f] = m_state[f] /\ m_cb'[f] = m_cb[f] /\ ctx'[f] = ctx[f]
  /\ Queued(f)' <=> Queued(f)
  /\ f \in wakers' <=> f \in wakers
  /\ ~Taken(t, f) /\ ~Taken(t, f)'
  /\ ~Inside(t, f) /\ ~Inside(t, f)'
  /\ cb_fiber'[t] = f <=> cb_fiber[t] = f

\* What every step of thread t leaves alone.
Alone(t) ==
  \A u \in Threads \ {t} :
    pc'[u] = pc[u] /\ ft'[u] = ft[u] /\ cb_fiber'[u] = cb_fiber[u]

LEMMA MovesAlone ==
  ASSUME IInv, NEW t \in Threads, NEW v, Moves(t, v)
  PROVE Alone(t) /\ pc'[t] = v
BY DEF Moves, Alone, IInv, Typed

LEMMA AloneFrame ==
  ASSUME NEW t \in Threads, Alone(t), NEW f \in Fibers
  PROVE \A u \in Threads \ {t} :
          /\ Taken(u, f)' <=> Taken(u, f)
          /\ Inside(u, f)' <=> Inside(u, f)
BY DEF Alone, Taken, Inside, Running

LEMMA Others ==
  ASSUME NEW t \in Threads, NEW f \in Fibers, FiberOK(f), Alone(t), Elsewhere(t, f)
  PROVE FiberOK(f)'
<1>1. \A u \in Threads :
        /\ Taken(u, f)' <=> Taken(u, f)
        /\ Inside(u, f)' <=> Inside(u, f)
        /\ Inside(u, f) => pc'[u] = pc[u] /\ ft'[u] = ft[u]
        /\ cb_fiber'[u] = f <=> cb_fiber[u] = f
  <2> SUFFICES ASSUME NEW u \in Threads
               PROVE /\ Taken(u, f)' <=> Taken(u, f)
                     /\ Inside(u, f)' <=> Inside(u, f)
                     /\ Inside(u, f) => pc'[u] = pc[u] /\ ft'[u] = ft[u]
                     /\ cb_fiber'[u] = f <=> cb_fiber[u] = f
    OBVIOUS
  <2>1. CASE u = t BY <2>1 DEF Elsewhere
  <2>2. CASE u # t BY <2>2, AloneFrame DEF Alone
  <2> QED BY <2>1, <2>2
<1>2. Untouched(f) BY <1>1 DEF Untouched, Elsewhere
<1> QED BY <1>2, Frame

\* Thread t stays in fiber g.
LEMMA Stays ==
  ASSUME NEW t \in Threads, NEW g \in Fibers, FiberOK(g), Alone(t),
         Inside(t, g), Inside(t, g)', InsideOK(t, g)',
         ft'[t] = ft[t], cb_fiber'[t] = cb_fiber[t],
         m_cb'[g] \in {m_cb[g], None},
         Queued(g)' <=> Queued(g),
         g \in wakers' => g \in wakers \/ ~Awaited(g)
  PROVE FiberOK(g)'
<1>0. None \notin AsFiber BY TasksAssumption
<1>1. ~Taken(t, g) /\ ~Taken(t, g)' BY DEF Taken, Inside, FiberPcs
<1>2. \A u \in Threads : (Taken(u, g)' <=> Taken(u, g)) /\ (Inside(u, g)' <=> Inside(u, g))
  BY <1>1, AloneFrame
<1>3. \A u \in Threads : Inside(u, g) => u = t BY DEF FiberOK
<1>4. AwaitedOnce(g)'
  BY <1>2 DEF FiberOK, AwaitedOnce, Awaited
<1>5. m_state[g] # "INIT"
  BY DEF FiberOK, Inside, InsideOK, FiberPcs, Left, Ended
<1>6. CbFiberOK(g)'
  <2>1. \A u \in Threads : cb_fiber'[u] = cb_fiber[u] BY DEF Alone
  <2>2. \A u \in Threads : cb_fiber[u] = g => u = t /\ ft'[u] = None
    BY <1>3, <1>5 DEF FiberOK, CbFiberOK
  <2> QED BY <1>0, <2>1, <2>2 DEF FiberOK, CbFiberOK
<1> QED BY <1>2, <1>3, <1>4, <1>6 DEF FiberOK

\* Thread t leaves fiber g.
LEMMA Leaves ==
  ASSUME NEW t \in Threads, NEW g \in Fibers, FiberOK(g), Alone(t),
         Inside(t, g), ~Inside(t, g)', ~Taken(t, g)',
         AtRest(g)', CbFiberOK(g)',
         ~ (Queued(g)' /\ g \in wakers'),
         Queued(g)' => Queued(g) \/ ~Awaited(g),
         g \in wakers' => g \in wakers
  PROVE FiberOK(g)'
<1>1. \A u \in Threads : ~Inside(u, g)'
  BY AloneFrame DEF FiberOK
<1>2. ~Taken(t, g) BY DEF Taken, Inside, FiberPcs
<1>3. \A u \in Threads : Taken(u, g)' <=> Taken(u, g)
  BY <1>2, AloneFrame
<1>4. AwaitedOnce(g)'
  BY <1>3 DEF FiberOK, AwaitedOnce, Awaited
<1> QED BY <1>1, <1>4 DEF FiberOK

\* Thread t switches into fiber g, which no thread is in and no other will enter.
LEMMA Enters ==
  ASSUME NEW t \in Threads, NEW g \in Fibers, Alone(t),
         \A u \in Threads : ~Inside(u, g),
         Inside(t, g)', InsideOK(t, g)', ~Awaited(g)', CbFiberOK(g)'
  PROVE FiberOK(g)'
<1>1. \A u \in Threads : Inside(u, g)' <=> u = t
  BY AloneFrame
<1>2. AwaitedOnce(g)' BY DEF AwaitedOnce, Awaited
<1> QED BY <1>1, <1>2 DEF FiberOK

\* The way a thread will get to g changes, and nothing else about g.
LEMMA Passes ==
  ASSUME NEW g \in Fibers, FiberOK(g),
         m_state'[g] = m_state[g], m_cb'[g] = m_cb[g], ctx'[g] = ctx[g],
         Awaited(g)' <=> Awaited(g), AwaitedOnce(g)',
         \A t \in Threads :
           /\ Inside(t, g)' <=> Inside(t, g)
           /\ Inside(t, g) => pc'[t] = pc[t] /\ ft'[t] = ft[t]
           /\ cb_fiber'[t] = cb_fiber[t]
  PROVE FiberOK(g)'
<1>1. /\ Left(g)' <=> Left(g)
      /\ Ended(g)' <=> Ended(g)
      /\ AtRest(g)' <=> AtRest(g)
  BY DEF Left, Ended, AtRest
<1>2. \A t \in Threads : Inside(t, g) /\ InsideOK(t, g) => InsideOK(t, g)'
  BY <1>1 DEF InsideOK
<1>3. CbFiberOK(g)' BY DEF FiberOK, CbFiberOK
<1> QED BY <1>1, <1>2, <1>3 DEF FiberOK

----------------------------------------------------------------------------
\* The list.

\* ListOK after a step that appends a fiber or a callback, and after one that
\* leaves the list alone.
LEMMA ListAppend ==
  ASSUME IInv, ListOK, NEW e \in Entries, m_fibers' = Append(m_fibers, e),
         e.task \in Fibers => ~Queued(e.task),
         e.task \notin AsFiber,
         \A t \in Threads : ft'[t] \in {ft[t], None},
         wakers' \subseteq wakers
  PROVE ListOK'
<1>0. None \notin AsFiber BY TasksAssumption
<1>1. \A i \in 1 .. Len(m_fibers') :
        \/ i \in 1 .. Len(m_fibers) /\ m_fibers'[i] = m_fibers[i]
        \/ i = Len(m_fibers) + 1 /\ m_fibers'[i] = e
  BY AppendAt DEF IInv, Typed
<1>2. \A i, j \in 1 .. Len(m_fibers') :
        m_fibers'[i].task \in Fibers /\ m_fibers'[i].task = m_fibers'[j].task => i = j
  BY <1>1 DEF ListOK, Queued
<1> QED BY <1>0, <1>1, <1>2 DEF ListOK

LEMMA ListSame ==
  ASSUME ListOK, m_fibers' = m_fibers,
         \A t \in Threads : ft'[t] \in {ft[t], None},
         wakers' # {} => wakers # {} \/ Yielding
  PROVE ListOK'
<1>0. None \notin AsFiber BY TasksAssumption
<1> QED BY <1>0 DEF ListOK

----------------------------------------------------------------------------
\* Steps of a thread that stays in its fiber g.

\* Nothing but g changes, and only thread t acts on it.
Only(t, g) ==
  /\ Alone(t)
  /\ \A f \in Fibers \ {g} :
       m_state'[f] = m_state[f] /\ m_cb'[f] = m_cb[f] /\ ctx'[f] = ctx[f]
  /\ \A f \in Fibers \ {g} :
       (Queued(f)' <=> Queued(f)) /\ (f \in wakers' <=> f \in wakers)

LEMMA StaysAll ==
  ASSUME FibersOK, NEW t \in Threads, NEW g \in Fibers, Only(t, g), Inside(t, g),
         pc'[t] \in FiberPcs, ft'[t] = ft[t], cb_fiber'[t] = cb_fiber[t],
         InsideOK(t, g)',
         m_cb'[g] \in {m_cb[g], None},
         Queued(g)' <=> Queued(g),
         g \in wakers' => g \in wakers \/ ~Awaited(g)
  PROVE FibersOK'
<1>1. Inside(t, g)' BY DEF Inside, Running
<1>2. FiberOK(g)' BY <1>1, Stays DEF FibersOK, Only
<1>3. ASSUME NEW f \in Fibers \ {g} PROVE FiberOK(f)'
  <2>1. /\ ~Taken(t, f) /\ ~Taken(t, f)'
        /\ ~Inside(t, f) /\ ~Inside(t, f)'
    BY DEF Taken, Inside, Running, FiberPcs
  <2>2. Elsewhere(t, f) BY <2>1 DEF Elsewhere, Only
  <2> QED BY <2>2, Others DEF FibersOK, Only
<1> QED BY <1>2, <1>3 DEF FibersOK

\* What is known of the fiber g that thread t is in.
LEMMA InsideKnown ==
  ASSUME IInv, FibersOK, NEW t \in Threads, pc[t] \in FiberPcs
  PROVE \E g \in Fibers : g = Running(t) /\ Inside(t, g) /\ InsideOK(t, g)
BY RunningType DEF IInv, FibersOK, FiberOK, Inside

\* Only callbacks that may yield do.
LEMMA MayYield ==
  ASSUME IInv, NEW t \in Threads, NEW g \in Fibers, g = Running(t),
         m_cb[g] # None, NEW op \in {"hold", "ready"}, May(t, op)
  PROVE Yielding /\ (Supported /\ op = "ready" => m_cb[g] \in AsFiber)
<1>1. m_cb[g] \in Callbacks BY DEF IInv, Typed
<1>2. op \in Ops[m_cb[g]] BY DEF May
<1> QED BY <1>1, <1>2 DEF Yielding, Supported

LEMMA ArmWakeOK ==
  ASSUME IInv, FibersOK, ListOK, NEW t \in Threads, ArmWake(t)
  PROVE FibersOK' /\ ListOK'
<1>1. PICK g \in Fibers : g = Running(t) /\ Inside(t, g) /\ InsideOK(t, g)
  BY InsideKnown DEF ArmWake, FiberPcs
<1>2. /\ m_state[g] = "EXEC" /\ m_cb[g] # None /\ ctx[g] = "live"
      /\ ~Awaited(g)
  BY <1>1 DEF ArmWake, InsideOK
<1>3. Yielding BY <1>1, <1>2, MayYield DEF ArmWake
<1>4. Alone(t) /\ pc'[t] = "armed" BY ThreadMoves, MovesAlone
<1>5. /\ m_fibers' = m_fibers /\ ft' = ft /\ cb_fiber' = cb_fiber
      /\ m_state' = m_state /\ m_cb' = m_cb /\ ctx' = ctx
      /\ wakers' = wakers \cup {g}
  BY <1>1 DEF ArmWake
<1>6. \A f \in Fibers : Queued(f)' <=> Queued(f) BY <1>5 DEF Queued
<1>7. Only(t, g) BY <1>4, <1>5, <1>6 DEF Only
<1>8. InsideOK(t, g)' BY <1>2, <1>3, <1>4, <1>5 DEF InsideOK, Awaited
<1>9. FibersOK'
  BY <1>1, <1>2, <1>4, <1>5, <1>6, <1>7, <1>8, StaysAll DEF FiberPcs
<1>10. ListOK' BY <1>3, <1>5, ListSame
<1> QED BY <1>9, <1>10

\* The steps of t in its fiber that change the fiber's state, callback or context
\* and no reference to it.
LEMMA InFiberOK ==
  ASSUME IInv, FibersOK, ListOK, NEW t \in Threads, NEW g \in Fibers, NEW v \in FiberPcs,
         g = Running(t), Inside(t, g),
         pc' = [pc EXCEPT ![t] = v],
         m_fibers' = m_fibers, ft' = ft, cb_fiber' = cb_fiber, wakers' = wakers,
         \A f \in Fibers \ {g} :
           m_state'[f] = m_state[f] /\ m_cb'[f] = m_cb[f] /\ ctx'[f] = ctx[f],
         m_cb'[g] \in {m_cb[g], None},
         (Awaited(g)' <=> Awaited(g)) => InsideOK(t, g)'
  PROVE FibersOK' /\ ListOK'
<1>1. Alone(t) /\ pc'[t] = v BY DEF Alone, IInv, Typed
<1>2. \A f \in Fibers : Queued(f)' <=> Queued(f) BY DEF Queued
<1>3. Only(t, g) BY <1>1, <1>2 DEF Only
<1>4. \A u \in Threads : Taken(u, g)' <=> Taken(u, g)
  <2>1. ~Taken(t, g) /\ ~Taken(t, g)' BY <1>1 DEF Taken, Inside, FiberPcs
  <2> QED BY <1>1, <2>1, AloneFrame
<1>5. Awaited(g)' <=> Awaited(g) BY <1>2, <1>4 DEF Awaited
<1>6. FibersOK' BY <1>1, <1>2, <1>3, <1>5, StaysAll
<1>7. ListOK' BY ListSame
<1> QED BY <1>6, <1>7

LEMMA YieldOK ==
  ASSUME IInv, FibersOK, ListOK, Supported, NEW t \in Threads,
         YieldToHold(t) \/ YieldToReady(t)
  PROVE FibersOK' /\ ListOK' /\ fault' = fault
<1>0. pc[t] \in {"run", "armed"} /\ pc[t] \in FiberPcs
  BY DEF YieldToHold, YieldToReady, FiberPcs
<1>1. PICK g \in Fibers : g = Running(t) /\ Inside(t, g) /\ InsideOK(t, g)
  BY <1>0, InsideKnown
<1>2. /\ m_state[g] = "EXEC" /\ m_cb[g] # None /\ ctx[g] = "live"
  BY <1>0, <1>1 DEF InsideOK
<1>3. /\ fault' = fault /\ pc' = [pc EXCEPT ![t] = "out"]
      /\ m_fibers' = m_fibers /\ ft' = ft /\ cb_fiber' = cb_fiber
      /\ m_cb' = m_cb /\ ctx' = ctx /\ wakers' = wakers
  BY <1>1, <1>2 DEF YieldToHold, YieldToReady, Yield
<1>4. \A f \in Fibers \ {g} : m_state'[f] = m_state[f]
  BY <1>1, <1>2 DEF YieldToHold, YieldToReady, Yield, IInv, Typed
<1>5. pc'[t] = "out" BY <1>3 DEF IInv, Typed
<1>6. ASSUME Awaited(g)' <=> Awaited(g) PROVE InsideOK(t, g)'
  <2>1. CASE YieldToHold(t)
    <3>1. m_state'[g] = "HOLD"
      BY <1>1, <1>2, <2>1 DEF YieldToHold, Yield, IInv, Typed
    <3>2. Awaited(g) /\ Yielding BY <1>1, <2>1 DEF YieldToHold, InsideOK
    <3> QED BY <1>2, <1>3, <1>5, <1>6, <3>1, <3>2 DEF InsideOK, Left
  <2>2. CASE YieldToReady(t)
    <3>1. m_state'[g] = "READY"
      BY <1>1, <1>2, <2>2 DEF YieldToReady, Yield, IInv, Typed
    <3>2. ~Awaited(g) BY <1>1, <2>2 DEF YieldToReady, InsideOK
    <3>3. Yielding /\ m_cb[g] \in AsFiber
      BY <1>1, <1>2, <2>2, MayYield DEF YieldToReady
    <3>4. \A u \in Threads : cb_fiber[u] # g
      BY <3>3 DEF FibersOK, FiberOK, CbFiberOK
    <3> QED BY <1>2, <1>3, <1>5, <1>6, <3>1, <3>2, <3>3, <3>4 DEF InsideOK, Left
  <2> QED BY <2>1, <2>2
<1>7. "out" \in FiberPcs BY DEF FiberPcs
<1> QED BY <1>1, <1>3, <1>4, <1>6, <1>7, InFiberOK

LEMMA EndOK ==
  ASSUME IInv, FibersOK, ListOK, NEW t \in Threads, Return(t) \/ Throw(t)
  PROVE FibersOK' /\ ListOK'
<1>0. pc[t] = "run" /\ pc[t] \in FiberPcs BY DEF Return, Throw, FiberPcs
<1>1. PICK g \in Fibers : g = Running(t) /\ Inside(t, g) /\ InsideOK(t, g)
  BY <1>0, InsideKnown
<1>2. ctx[g] = "live" /\ ~Awaited(g)
  BY <1>0, <1>1 DEF InsideOK
<1>3. /\ pc' = [pc EXCEPT ![t] = "fin"]
      /\ m_fibers' = m_fibers /\ ft' = ft /\ cb_fiber' = cb_fiber
      /\ ctx' = ctx /\ wakers' = wakers
  BY DEF Return, Throw
<1>4. /\ \A f \in Fibers \ {g} : m_state'[f] = m_state[f] /\ m_cb'[f] = m_cb[f]
      /\ \/ m_state'[g] = "TERM" /\ m_cb'[g] = None
         \/ m_state'[g] = "EXCEPT" /\ m_cb'[g] = m_cb[g]
  BY <1>1 DEF Return, Throw, IInv, Typed
<1>5. pc'[t] = "fin" BY <1>3 DEF IInv, Typed
<1>6. (Awaited(g)' <=> Awaited(g)) => InsideOK(t, g)'
  BY <1>2, <1>3, <1>4, <1>5 DEF InsideOK, Ended
<1>7. "fin" \in FiberPcs BY DEF FiberPcs
<1> QED BY <1>1, <1>3, <1>4, <1>6, <1>7, InFiberOK

LEMMA SwitchOK ==
  ASSUME IInv, FibersOK, ListOK, NEW t \in Threads,
         SwapOut(t) \/ Back(t) \/ SettleOther(t)
  PROVE FibersOK' /\ ListOK'
<1>0. pc[t] \in FiberPcs BY DEF SwapOut, Back, SettleOther, FiberPcs
<1>1. PICK g \in Fibers : g = Running(t) /\ Inside(t, g) /\ InsideOK(t, g)
  BY <1>0, InsideKnown
<1>2. PICK v \in {"back", "settle", "writeHold"} : pc' = [pc EXCEPT ![t] = v]
  BY DEF SwapOut, Back, SettleOther
<1>3. /\ m_fibers' = m_fibers /\ ft' = ft /\ cb_fiber' = cb_fiber
      /\ m_state' = m_state /\ m_cb' = m_cb /\ wakers' = wakers
      /\ \A f \in Fibers \ {g} : ctx'[f] = ctx[f]
  BY <1>1 DEF SwapOut, Back, SettleOther, IInv, Typed
<1>4. pc'[t] = v BY <1>2 DEF IInv, Typed
<1>5. ASSUME Awaited(g)' <=> Awaited(g) PROVE InsideOK(t, g)'
  <2>0. (Left(g)' <=> Left(g)) /\ (Ended(g)' <=> Ended(g))
    BY <1>3, <1>5 DEF Left, Ended
  <2>1. CASE SwapOut(t)
    <3>1. pc'[t] = "back" BY <2>1 DEF SwapOut, IInv, Typed
    <3>2. \/ pc[t] = "fin" /\ ctx'[g] = "over"
          \/ pc[t] = "out" /\ ctx'[g] = "saved"
      BY <1>1, <2>1 DEF SwapOut, IInv, Typed
    <3> QED BY <1>1, <2>0, <3>1, <3>2 DEF InsideOK
  <2>2. CASE Back(t)
    <3>1. pc'[t] = "settle" /\ pc[t] = "back" /\ ctx' = ctx
      BY <2>2 DEF Back, IInv, Typed
    <3> QED BY <1>1, <2>0, <3>1 DEF InsideOK
  <2>3. CASE SettleOther(t)
    <3>1. pc'[t] = "writeHold" /\ pc[t] = "settle" /\ ctx' = ctx
      BY <2>3 DEF SettleOther, IInv, Typed
    <3>2. Left(g) /\ m_state[g] = "HOLD" /\ ctx[g] = "saved"
      BY <1>1, <2>3, <3>1 DEF SettleOther, InsideOK, Left, Ended
    <3> QED BY <1>3, <2>0, <3>1, <3>2 DEF InsideOK
  <2> QED BY <2>1, <2>2, <2>3
<1>6. v \in FiberPcs BY DEF FiberPcs
<1> QED BY <1>1, <1>2, <1>3, <1>5, <1>6, InFiberOK

----------------------------------------------------------------------------
\* Steps of a thread that leaves its fiber g.

LEMMA LeavesAll ==
  ASSUME FibersOK, NEW t \in Threads, NEW g \in Fibers, Only(t, g), Inside(t, g),
         pc'[t] = "scan", ft'[t] = None, cb_fiber'[t] \in {cb_fiber[t], None},
         cb_fiber[t] # g => cb_fiber'[t] = cb_fiber[t],
         AtRest(g)', CbFiberOK(g)',
         ~ (Queued(g)' /\ g \in wakers'),
         Queued(g)' => Queued(g) \/ ~Awaited(g),
         g \in wakers' => g \in wakers
  PROVE FibersOK'
<1>0. None \notin Fibers BY TasksAssumption
<1>1. \A f \in Fibers : ~Inside(t, f)' /\ ~Taken(t, f)'
  BY DEF Inside, Taken, FiberPcs
<1>2. FiberOK(g)' BY <1>1, Leaves DEF FibersOK, Only
<1>3. ASSUME NEW f \in Fibers \ {g} PROVE FiberOK(f)'
  <2>1. ~Taken(t, f) /\ ~Inside(t, f)
    BY DEF Taken, Inside, FiberPcs
  <2>2. cb_fiber'[t] = f <=> cb_fiber[t] = f BY <1>0
  <2>3. Elsewhere(t, f) BY <1>1, <2>1, <2>2 DEF Elsewhere, Only
  <2> QED BY <2>3, Others DEF FibersOK, Only
<1> QED BY <1>2, <1>3 DEF FibersOK

LEMMA SettleReadyOK ==
  ASSUME IInv, FibersOK, ListOK, NEW t \in Threads, SettleReady(t)
  PROVE FibersOK' /\ ListOK'
<1>0. pc[t] = "settle" /\ pc[t] \in FiberPcs BY DEF SettleReady, FiberPcs
<1>1. PICK g \in Fibers : g = Running(t) /\ Inside(t, g) /\ InsideOK(t, g)
  BY <1>0, InsideKnown
<1>2. /\ m_state[g] = "READY" /\ ctx[g] = "saved" /\ m_cb[g] # None
      /\ ~Awaited(g) /\ Yielding
      /\ \A u \in Threads : cb_fiber[u] # g
  BY <1>0, <1>1 DEF SettleReady, InsideOK, Left, Ended
<1>3. Alone(t) /\ pc'[t] = "scan" BY ThreadMoves, MovesAlone
<1>4. /\ m_fibers' = Append(m_fibers, Entry(g, AnyThread))
      /\ ft' = [ft EXCEPT ![t] = None] /\ cb_fiber' = cb_fiber
      /\ m_state' = m_state /\ m_cb' = m_cb /\ ctx' = ctx /\ wakers' = wakers
  BY <1>1 DEF SettleReady
<1>5. ft'[t] = None /\ \A u \in Threads : ft'[u] \in {ft[u], None}
  BY <1>4 DEF IInv, Typed
<1>6. Entry(g, AnyThread) \in Entries /\ Entry(g, AnyThread).task = g
  BY DEF Entry, Entries
<1>7. \A f \in Fibers : Queued(f)' <=> Queued(f) \/ f = g
  BY <1>4, <1>6, AppendQueued
<1>8. Only(t, g) BY <1>3, <1>4, <1>7 DEF Only
<1>9. Awaited(g)' BY <1>7 DEF Awaited
<1>10. AtRest(g)' BY <1>2, <1>4, <1>9 DEF AtRest
<1>11. CbFiberOK(g)' BY <1>2, <1>4 DEF CbFiberOK
<1>12. ~Queued(g) /\ g \notin wakers BY <1>2 DEF Awaited
<1>13. FibersOK'
  BY <1>1, <1>2, <1>3, <1>4, <1>5, <1>8, <1>10, <1>11, <1>12, LeavesAll
<1>14. g \notin AsFiber BY TasksAssumption
<1>15. ListOK' BY <1>4, <1>5, <1>6, <1>12, <1>14, ListAppend
<1> QED BY <1>13, <1>15

\* ~Fiber frees the fiber of a finished callback, and fails for one that threw.
LEMMA SettleFiberOK ==
  ASSUME IInv, FibersOK, ListOK, fault = "none", NEW t \in Threads, SettleFiber(t)
  PROVE /\ fault' = fault => FibersOK' /\ ListOK'
        /\ fault' # fault => \E f \in Fibers : m_state[f] = "EXCEPT"
<1>0. pc[t] = "settle" /\ pc[t] \in FiberPcs /\ ft[t] # None
  BY DEF SettleFiber, FiberPcs
<1>1. PICK g \in Fibers : g = Running(t) /\ Inside(t, g) /\ InsideOK(t, g)
  BY <1>0, InsideKnown
<1>2. g = ft[t] BY <1>0, <1>1 DEF Running
<1>3. Ended(g) /\ ctx[g] = "over"
  BY <1>0, <1>1, <1>2 DEF SettleFiber, InsideOK, Left
<1>4. \A u \in Threads : cb_fiber[u] # g
  BY <1>0, <1>1, <1>3 DEF FibersOK, FiberOK, CbFiberOK, Ended
<1>5. \A u \in Threads \ {t} : ft[u] # g
  <2> SUFFICES ASSUME NEW u \in Threads \ {t}, ft[u] = g PROVE FALSE
    OBVIOUS
  <2>1. g # None BY TasksAssumption
  <2>2. pc[u] = "dispatch" \/ pc[u] \in FiberPcs
    BY <2>1 DEF IInv, LocalsOK
  <2>3. Taken(u, g) \/ Inside(u, g) BY <2>1, <2>2 DEF Taken, Inside, Running
  <2> QED BY <1>1, <1>3, <2>3 DEF FibersOK, FiberOK, Ended, Awaited
<1>6. ~HeldElsewhere(t, g)
  BY <1>3, <1>4, <1>5 DEF HeldElsewhere, Ended, Awaited
<1>7. Release(t, g, m_state, m_cb, FALSE)
  BY <1>2, <1>4 DEF SettleFiber
<1>8. ASSUME fault' # fault PROVE m_state[g] = "EXCEPT"
  BY <1>3, <1>6, <1>7, <1>8 DEF Release, Finished, Ended
<1>9. ASSUME fault' = fault, m_state[g] = "EXCEPT" PROVE fault = "dtor"
  BY <1>6, <1>7, <1>9 DEF Release, Finished
<1>10. ASSUME fault' = fault, m_state[g] = "TERM" PROVE FibersOK' /\ ListOK'
  <2>1. /\ m_state' = [m_state EXCEPT ![g] = "FREE"]
        /\ m_cb' = [m_cb EXCEPT ![g] = None]
        /\ ctx' = [ctx EXCEPT ![g] = "entry"]
    BY <1>6, <1>7, <1>10 DEF Release, Finished
  <2>2. /\ m_state'[g] = "FREE" /\ m_cb'[g] = None /\ ctx'[g] = "entry"
        /\ \A f \in Fibers \ {g} :
             m_state'[f] = m_state[f] /\ m_cb'[f] = m_cb[f] /\ ctx'[f] = ctx[f]
    BY <2>1 DEF IInv, Typed
  <2>3. Alone(t) /\ pc'[t] = "scan" BY ThreadMoves, MovesAlone
  <2>4. /\ m_fibers' = m_fibers /\ cb_fiber' = cb_fiber /\ wakers' = wakers
        /\ ft' = [ft EXCEPT ![t] = None]
    BY DEF SettleFiber
  <2>5. ft'[t] = None /\ \A u \in Threads : ft'[u] \in {ft[u], None}
    BY <2>4 DEF IInv, Typed
  <2>6. \A f \in Fibers : Queued(f)' <=> Queued(f) BY <2>4 DEF Queued
  <2>7. Only(t, g) BY <2>2, <2>3, <2>4, <2>6 DEF Only
  <2>8. ~Awaited(g)'
    <3>1. ~Taken(t, g)' BY <2>3 DEF Taken
    <3>2. \A u \in Threads : ~Taken(u, g)'
      BY <1>3, <2>3, <3>1, AloneFrame DEF Ended, Awaited
    <3> QED BY <1>3, <2>4, <2>6, <3>2 DEF Ended, Awaited
  <2>9. AtRest(g)' BY <1>4, <2>2, <2>4, <2>8 DEF AtRest
  <2>10. CbFiberOK(g)' BY <1>4, <2>4 DEF CbFiberOK
  <2>11. FibersOK'
    BY <1>1, <1>3, <2>3, <2>4, <2>5, <2>6, <2>7, <2>8, <2>9, <2>10, LeavesAll
    DEF Awaited
  <2>12. ListOK' BY <2>4, <2>5, ListSame
  <2> QED BY <2>11, <2>12
<1> QED BY <1>3, <1>8, <1>9, <1>10 DEF Ended

\* cb_fiber->reset(nullptr) accepts the fiber of a finished callback.
LEMMA SettleCallbackOK ==
  ASSUME IInv, FibersOK, ListOK, fault = "none", NEW t \in Threads, SettleCallback(t)
  PROVE /\ fault' = fault => FibersOK' /\ ListOK'
        /\ fault' # fault => \E f \in Fibers : m_state[f] = "EXCEPT"
<1>0. pc[t] = "settle" /\ pc[t] \in FiberPcs /\ ft[t] = None
  BY DEF SettleCallback, FiberPcs
<1>1. PICK g \in Fibers : g = Running(t) /\ Inside(t, g) /\ InsideOK(t, g)
  BY <1>0, InsideKnown
<1>2. g = cb_fiber[t] BY <1>0, <1>1 DEF Running
<1>3. Ended(g) /\ ctx[g] = "over"
  BY <1>0, <1>1, <1>2 DEF SettleCallback, InsideOK, Left
<1>4. /\ fault' = ResetFault(g)
      /\ m_state' = [m_state EXCEPT ![g] = "INIT"]
      /\ m_cb' = [m_cb EXCEPT ![g] = None]
      /\ ctx' = [ctx EXCEPT ![g] = "entry"]
      /\ m_fibers' = m_fibers /\ cb_fiber' = cb_fiber /\ wakers' = wakers
      /\ ft' = ft
  BY <1>2 DEF SettleCallback
<1>5. fault' # fault => m_state[g] = "EXCEPT"
  BY <1>3, <1>4 DEF ResetFault, Finished, Ended
<1>6. /\ m_state'[g] = "INIT" /\ m_cb'[g] = None /\ ctx'[g] = "entry"
      /\ \A f \in Fibers \ {g} :
           m_state'[f] = m_state[f] /\ m_cb'[f] = m_cb[f] /\ ctx'[f] = ctx[f]
  BY <1>4 DEF IInv, Typed
<1>7. Alone(t) /\ pc'[t] = "scan" BY ThreadMoves, MovesAlone
<1>8. \A f \in Fibers : Queued(f)' <=> Queued(f) BY <1>4 DEF Queued
<1>9. Only(t, g) BY <1>4, <1>6, <1>7, <1>8 DEF Only
<1>10. ~Awaited(g)'
  <2>1. ~Taken(t, g)' BY <1>7 DEF Taken
  <2>2. \A u \in Threads : ~Taken(u, g)'
    BY <1>3, <1>7, <2>1, AloneFrame DEF Ended, Awaited
  <2> QED BY <1>3, <1>4, <1>8, <2>2 DEF Ended, Awaited
<1>11. AtRest(g)' BY <1>6, <1>10 DEF AtRest
<1>12. CbFiberOK(g)'
  <2>1. None \notin AsFiber BY TasksAssumption
  <2> QED BY <1>4, <1>6, <2>1 DEF CbFiberOK, FibersOK, FiberOK
<1>13. FibersOK'
  BY <1>0, <1>1, <1>3, <1>4, <1>7, <1>8, <1>9, <1>10, <1>11, <1>12, LeavesAll
  DEF Awaited
<1>14. ListOK' BY <1>4, ListSame
<1> QED BY <1>5, <1>13, <1>14

LEMMA WriteHoldOK ==
  ASSUME IInv, FibersOK, ListOK, NEW t \in Threads, WriteHold(t)
  PROVE /\ FibersOK' /\ ListOK' /\ fault' = fault
        /\ m_state' = m_state /\ m_cb' = m_cb /\ ctx' = ctx
<1>0. pc[t] = "writeHold" /\ pc[t] \in FiberPcs BY DEF WriteHold, FiberPcs
<1>1. PICK g \in Fibers : g = Running(t) /\ Inside(t, g) /\ InsideOK(t, g)
  BY <1>0, InsideKnown
<1>2. /\ m_state[g] = "HOLD" /\ ctx[g] = "saved" /\ m_cb[g] # None
      /\ Awaited(g) /\ Yielding
  BY <1>0, <1>1 DEF InsideOK, Left
<1>3. HeldElsewhere(t, g) BY <1>2 DEF HeldElsewhere
<1>4. [m_state EXCEPT ![g] = "HOLD"] = m_state BY <1>2 DEF IInv, Typed
<1>5. Release(t, g, m_state, m_cb, ft[t] # None /\ ft[t] = cb_fiber[t])
  BY <1>1, <1>4 DEF WriteHold
<1>6. m_state' = m_state /\ m_cb' = m_cb /\ ctx' = ctx /\ fault' = fault
  BY <1>3, <1>5 DEF Release, IInv, Typed
<1>7. /\ m_fibers' = m_fibers /\ wakers' = wakers
      /\ ft' = [ft EXCEPT ![t] = None]
      /\ cb_fiber' = IF ft[t] = None THEN [cb_fiber EXCEPT ![t] = None]
                                     ELSE cb_fiber
  BY DEF WriteHold
<1>8. ft'[t] = None /\ \A u \in Threads : ft'[u] \in {ft[u], None}
  BY <1>7 DEF IInv, Typed
<1>9. Alone(t) /\ pc'[t] = "scan" BY ThreadMoves, MovesAlone
<1>10. \A f \in Fibers : Queued(f)' <=> Queued(f) BY <1>7 DEF Queued
<1>11. Only(t, g) BY <1>6, <1>7, <1>9, <1>10 DEF Only
<1>12. /\ cb_fiber'[t] \in {cb_fiber[t], None}
       /\ cb_fiber[t] # g => cb_fiber'[t] = cb_fiber[t]
  BY <1>1, <1>7 DEF IInv, Typed, Running
<1>13. \A u \in Threads : cb_fiber'[u] # g
  <2>0. g # None BY TasksAssumption
  <2>1. \A u \in Threads : cb_fiber[u] = g => u = t /\ ft[u] = None
    BY <1>1, <1>2 DEF FibersOK, FiberOK, CbFiberOK
  <2> QED BY <1>7, <2>0, <2>1 DEF IInv, Typed
<1>14. Awaited(g)'
  <2>1. ~Taken(t, g) BY <1>0 DEF Taken, FiberPcs
  <2>2. \A u \in Threads : Taken(u, g) => Taken(u, g)'
    BY <1>9, <2>1, AloneFrame
  <2> QED BY <1>2, <1>7, <1>10, <2>2 DEF Awaited
<1>15. AtRest(g)' BY <1>2, <1>6, <1>13, <1>14 DEF AtRest
<1>16. CbFiberOK(g)' BY <1>13 DEF CbFiberOK
<1>17. ~ (Queued(g) /\ g \in wakers) BY DEF FibersOK, FiberOK, AwaitedOnce
<1>18. FibersOK'
  BY <1>1, <1>7, <1>8, <1>9, <1>10, <1>11, <1>12, <1>15, <1>16, <1>17, LeavesAll
<1>19. ListOK' BY <1>7, <1>8, ListSame
<1> QED BY <1>6, <1>18, <1>19

----------------------------------------------------------------------------
\* Steps of a thread that enters a fiber g.

LEMMA EntersAll ==
  ASSUME FibersOK, NEW t \in Threads, NEW g \in Fibers, Only(t, g),
         pc[t] = "dispatch", pc'[t] = "run",
         ft[t] \notin Fibers \ {g},
         Inside(t, g)', InsideOK(t, g)',
         \A u \in Threads : ~Inside(u, g),
         ~Awaited(g)', CbFiberOK(g)',
         \A f \in Fibers \ {g} : cb_fiber'[t] = f <=> cb_fiber[t] = f
  PROVE FibersOK'
<1>1. FiberOK(g)' BY Enters DEF Only
<1>2. ASSUME NEW f \in Fibers \ {g} PROVE FiberOK(f)'
  <2>1. /\ ~Taken(t, f) /\ ~Taken(t, f)'
        /\ ~Inside(t, f) /\ ~Inside(t, f)'
    BY DEF Taken, Inside, FiberPcs
  <2>2. Elsewhere(t, f) BY <2>1 DEF Elsewhere, Only
  <2> QED BY <2>2, Others DEF FibersOK, Only
<1> QED BY <1>1, <1>2 DEF FibersOK

\* A fiber that a thread has taken is one that no thread is in.
LEMMA TakenAtRest ==
  ASSUME FibersOK, Supported, NEW t \in Threads, NEW g \in Fibers, Taken(t, g)
  PROVE /\ \A u \in Threads : ~Inside(u, g)
        /\ AtRest(g)
        /\ m_state[g] \in {"INIT", "HOLD", "READY"}
        /\ ctx[g] \in {"entry", "saved"}
        /\ m_cb[g] # None
        /\ \A u \in Threads : cb_fiber[u] # g
<1>1. Awaited(g) BY DEF Awaited
<1>2. ASSUME NEW u \in Threads, Inside(u, g) PROVE FALSE
  <2>1. Yielding
    BY <1>1, <1>2 DEF FibersOK, FiberOK, InsideOK, Inside, FiberPcs, Left, Ended
  <2>2. u = t BY <2>1 DEF Supported
  <2> QED BY <1>2, <2>2 DEF Taken, Inside, FiberPcs
<1>3. AtRest(g) BY <1>2 DEF FibersOK, FiberOK
<1> QED BY <1>1, <1>2, <1>3 DEF AtRest

LEMMA DispatchFiberOK ==
  ASSUME IInv, FibersOK, ListOK, Supported, fault = "none",
         NEW t \in Threads, DispatchFiber(t)
  PROVE FibersOK' /\ ListOK' /\ fault' = fault
<1>0. pc[t] = "dispatch" /\ ft[t] \in Fibers BY DEF DispatchFiber
<1>1. PICK g \in Fibers : g = ft[t] /\ Taken(t, g) BY <1>0 DEF Taken
<1>2. /\ \A u \in Threads : ~Inside(u, g)
      /\ m_state[g] \in {"INIT", "HOLD", "READY"}
      /\ ctx[g] \in {"entry", "saved"}
      /\ m_cb[g] # None
      /\ \A u \in Threads : cb_fiber[u] # g
  BY <1>1, TakenAtRest
<1>3. SwapIn(t, g, m_state) BY <1>1 DEF DispatchFiber
<1>4. /\ fault' = fault
      /\ m_state' = [m_state EXCEPT ![g] = "EXEC"]
      /\ ctx' = [ctx EXCEPT ![g] = "live"]
  BY <1>2, <1>3 DEF SwapIn
<1>5. /\ m_fibers' = m_fibers /\ m_cb' = m_cb /\ ft' = ft
      /\ cb_fiber' = cb_fiber /\ wakers' = wakers
  BY DEF DispatchFiber
<1>6. /\ m_state'[g] = "EXEC" /\ ctx'[g] = "live"
      /\ \A f \in Fibers \ {g} : m_state'[f] = m_state[f] /\ ctx'[f] = ctx[f]
  BY <1>4 DEF IInv, Typed
<1>7. Alone(t) /\ pc'[t] = "run" BY ThreadMoves, MovesAlone
<1>8. \A f \in Fibers : Queued(f)' <=> Queued(f) BY <1>5 DEF Queued
<1>9. Only(t, g) BY <1>5, <1>6, <1>7, <1>8 DEF Only
<1>10. Inside(t, g)'
  <2>1. g # None BY TasksAssumption
  <2> QED BY <1>1, <1>5, <1>7, <2>1 DEF Inside, Running, FiberPcs
<1>11. ~Awaited(g)'
  <2>1. ~Taken(t, g)' BY <1>7 DEF Taken
  <2>2. /\ ~Queued(g) /\ g \notin wakers
        /\ \A u \in Threads \ {t} : ~Taken(u, g)
    BY <1>1 DEF FibersOK, FiberOK, AwaitedOnce
  <2>3. \A u \in Threads : ~Taken(u, g)'
    BY <1>7, <2>1, <2>2, AloneFrame
  <2> QED BY <1>5, <1>8, <2>2, <2>3 DEF Awaited
<1>12. InsideOK(t, g)' BY <1>2, <1>5, <1>6, <1>7, <1>11 DEF InsideOK
<1>13. CbFiberOK(g)' BY <1>2, <1>5 DEF CbFiberOK
<1>14. FibersOK'
  BY <1>0, <1>1, <1>2, <1>5, <1>7, <1>9, <1>10, <1>11, <1>12, <1>13, EntersAll
<1>15. ListOK' BY <1>5, ListSame
<1> QED BY <1>4, <1>14, <1>15

\* The list never holds a fiber that has finished.
LEMMA NeverDrops ==
  ASSUME FibersOK, Supported, NEW t \in Threads
  PROVE ~DropFinished(t)
<1> SUFFICES ASSUME DropFinished(t) PROVE FALSE OBVIOUS
<1>1. PICK g \in Fibers : g = ft[t] /\ Taken(t, g) BY DEF DropFinished, Taken
<1>2. m_state[g] \in {"INIT", "HOLD", "READY"} BY <1>1, TakenAtRest
<1> QED BY <1>1, <1>2 DEF DropFinished

\* A callback starts in the thread's empty cb_fiber, or in a new one.
LEMMA StartCallbackOK ==
  ASSUME IInv, FibersOK, ListOK, fault = "none",
         NEW t \in Threads, ReuseFiber(t) \/ NewFiber(t)
  PROVE FibersOK' /\ ListOK' /\ fault' = fault
<1>0. /\ pc[t] = "dispatch" /\ ft[t] \in Callbacks
      /\ ft[t] \notin Fibers /\ ft[t] # None /\ ft[t] \notin AsFiber
  BY TasksAssumption DEF ReuseFiber, NewFiber, ListOK
<1>1. \A f \in Fibers : ~Inside(t, f) /\ ~Taken(t, f)
  BY <1>0 DEF Inside, Taken, FiberPcs
<1>2. PICK g \in Fibers :
        /\ ~Awaited(g) /\ ctx[g] = "entry"
        /\ \A u \in Threads : ~Inside(u, g)
        /\ \A u \in Threads \ {t} : cb_fiber[u] # g
        /\ m_cb' = [m_cb EXCEPT ![g] = ft[t]]
        /\ m_state' = [m_state EXCEPT ![g] = "EXEC"]
        /\ ctx' = [ctx EXCEPT ![g] = "live"]
        /\ cb_fiber' = [cb_fiber EXCEPT ![t] = g]
        /\ cb_fiber[t] \in {g, None}
        /\ fault' = "none"
  <2>1. CASE ReuseFiber(t)
    <3>1. PICK g \in Fibers : g = cb_fiber[t]
      BY <2>1 DEF ReuseFiber, IInv, Typed
    <3>2. m_state[g] = "INIT"
      BY <1>1, <3>1 DEF FibersOK, FiberOK, CbFiberOK
    <3>3. \A u \in Threads : ~Inside(u, g)
      BY <3>2 DEF FibersOK, FiberOK, InsideOK, Inside, FiberPcs, Left, Ended
    <3>4. AtRest(g) BY <3>3 DEF FibersOK, FiberOK
    <3>5. ~Awaited(g) /\ ctx[g] = "entry" BY <3>1, <3>2, <3>4 DEF AtRest
    <3>6. \A u \in Threads \ {t} : cb_fiber[u] # g
      BY <3>1 DEF FibersOK, FiberOK, CbFiberOK
    <3>7. ResetFault(g) = "none" BY <3>2, <3>5 DEF ResetFault, Finished
    <3>8. cb_fiber' = [cb_fiber EXCEPT ![t] = g]
      BY <2>1, <3>1 DEF ReuseFiber, IInv, Typed
    <3> QED BY <2>1, <3>1, <3>3, <3>5, <3>6, <3>7, <3>8 DEF ReuseFiber
  <2>2. CASE NewFiber(t)
    <3>1. PICK g \in Fibers :
            /\ m_state[g] = "FREE"
            /\ cb_fiber' = [cb_fiber EXCEPT ![t] = g]
            /\ m_cb' = [m_cb EXCEPT ![g] = ft[t]]
            /\ SwapIn(t, g, m_state)
      BY <2>2 DEF NewFiber
    <3>2. \A u \in Threads : ~Inside(u, g)
      BY <3>1 DEF FibersOK, FiberOK, InsideOK, Inside, FiberPcs, Left, Ended
    <3>3. AtRest(g) BY <3>2 DEF FibersOK, FiberOK
    <3>4. ~Awaited(g) /\ ctx[g] = "entry" /\ \A u \in Threads : cb_fiber[u] # g
      BY <3>1, <3>3 DEF AtRest
    <3>5. /\ fault' = "none"
          /\ m_state' = [m_state EXCEPT ![g] = "EXEC"]
          /\ ctx' = [ctx EXCEPT ![g] = "live"]
      BY <3>1, <3>4 DEF SwapIn
    <3> QED BY <2>2, <3>1, <3>2, <3>4, <3>5 DEF NewFiber
  <2> QED BY <2>1, <2>2
<1>3. /\ m_fibers' = m_fibers /\ wakers' = wakers
      /\ ft' = [ft EXCEPT ![t] = None]
  BY DEF ReuseFiber, NewFiber
<1>4. /\ m_state'[g] = "EXEC" /\ ctx'[g] = "live" /\ m_cb'[g] = ft[t]
      /\ cb_fiber'[t] = g /\ ft'[t] = None
      /\ \A f \in Fibers \ {g} :
           m_state'[f] = m_state[f] /\ m_cb'[f] = m_cb[f] /\ ctx'[f] = ctx[f]
      /\ \A u \in Threads : ft'[u] \in {ft[u], None}
  BY <1>2, <1>3 DEF IInv, Typed
<1>5. Alone(t) /\ pc'[t] = "run" BY ThreadMoves, MovesAlone
<1>6. \A f \in Fibers : Queued(f)' <=> Queued(f) BY <1>3 DEF Queued
<1>7. Only(t, g) BY <1>3, <1>4, <1>5, <1>6 DEF Only
<1>8. Inside(t, g)' BY <1>4, <1>5 DEF Inside, Running, FiberPcs
<1>9. ~Awaited(g)'
  <2>1. ~Taken(t, g)' BY <1>5 DEF Taken
  <2>2. \A u \in Threads : ~Taken(u, g)'
    BY <1>2, <1>5, <2>1, AloneFrame DEF Awaited
  <2> QED BY <1>2, <1>3, <1>6, <2>2 DEF Awaited
<1>10. InsideOK(t, g)' BY <1>0, <1>4, <1>5, <1>9 DEF InsideOK
<1>11. CbFiberOK(g)'
  <2>1. \A u \in Threads : cb_fiber'[u] = g => u = t
    BY <1>2, <1>5 DEF Alone
  <2> QED BY <1>0, <1>4, <1>8, <2>1 DEF CbFiberOK
<1>12. \A f \in Fibers \ {g} : cb_fiber'[t] = f <=> cb_fiber[t] = f
  BY <1>2, <1>4, TasksAssumption
<1>13. FibersOK'
  BY <1>0, <1>2, <1>5, <1>7, <1>8, <1>9, <1>10, <1>11, <1>12, EntersAll
<1>14. ListOK' BY <1>3, <1>4, ListSame
<1> QED BY <1>2, <1>13, <1>14

----------------------------------------------------------------------------
\* The other steps.

\* Steps that change no fiber and no reference to one: a thread moves between
\* points at which it holds nothing, the owner moves.
LEMMA NoFiberOK ==
  ASSUME IInv, FibersOK, ListOK,
         m_fibers' = m_fibers, m_state' = m_state, m_cb' = m_cb, ctx' = ctx,
         ft' = ft, cb_fiber' = cb_fiber, wakers' = wakers,
         \A t \in Threads : pc'[t] = pc[t] \/
           ({pc[t], pc'[t]} \cap (FiberPcs \cup {"dispatch"})) = {}
  PROVE FibersOK' /\ ListOK'
<1>1. ASSUME NEW f \in Fibers PROVE Untouched(f)
  <2>1. Queued(f)' <=> Queued(f) BY DEF Queued
  <2>2. \A t \in Threads :
          /\ Taken(t, f)' <=> Taken(t, f)
          /\ Inside(t, f)' <=> Inside(t, f)
          /\ Inside(t, f) => pc'[t] = pc[t] /\ ft'[t] = ft[t]
          /\ cb_fiber'[t] = f <=> cb_fiber[t] = f
    BY DEF Taken, Inside, Running
  <2> QED BY <2>1, <2>2 DEF Untouched
<1>2. FibersOK' BY <1>1, Frame DEF FibersOK
<1>3. ListOK' BY ListSame
<1> QED BY <1>2, <1>3

LEMMA IdlePartOK ==
  ASSUME IInv, FibersOK, ListOK, NEW t \in Threads,
         PickNothing(t) \/ EnterIdle(t) \/ IdleStep(t) \/ IdleBack(t)
  PROVE FibersOK' /\ ListOK'
<1>1. \A u \in Threads : pc'[u] = pc[u] \/
        ({pc[u], pc'[u]} \cap (FiberPcs \cup {"dispatch"})) = {}
  BY DEF PickNothing, EnterIdle, IdleStep, IdleBack, IInv, Typed, FiberPcs
<1> QED BY <1>1, NoFiberOK DEF PickNothing, EnterIdle, IdleStep, IdleBack

LEMMA OwnerStepOK ==
  ASSUME IInv, FibersOK, ListOK, Start \/ StopStep
  PROVE FibersOK' /\ ListOK'
<1>1. \A u \in Threads : pc'[u] = pc[u] \/
        ({pc[u], pc'[u]} \cap (FiberPcs \cup {"dispatch"})) = {}
  <2>1. CASE Start
    BY <2>1 DEF Start, IInv, OwnerOK, FiberPcs
  <2>2. CASE StopCallRoot
    BY <2>2 DEF StopCallRoot, IInv, Typed, OwnerOK, FiberPcs
  <2>3. CASE StopBegin \/ StopFlag \/ StopSkipRoot \/ RootReturn \/ Join
    BY <2>3 DEF StopBegin, StopFlag, StopSkipRoot, RootReturn, Join
  <2> QED BY <2>1, <2>2, <2>3 DEF StopStep
<1> QED
  BY <1>1, NoFiberOK DEF Start, StopStep, StopBegin, StopFlag, StopCallRoot,
                         StopSkipRoot, RootReturn, Join

\* run() ends and destroys its empty cb_fiber.
LEMMA ExitOK ==
  ASSUME IInv, FibersOK, ListOK, NEW t \in Threads, Exit(t)
  PROVE FibersOK' /\ ListOK' /\ fault' = fault
<1>0. pc[t] = "noTask" BY DEF Exit
<1>1. /\ m_fibers' = m_fibers /\ ft' = ft /\ wakers' = wakers
      /\ cb_fiber' = [cb_fiber EXCEPT ![t] = None]
  BY DEF Exit
<1>2. Alone(t) /\ pc'[t] = "exited" BY ThreadMoves, MovesAlone
<1>3. \A f \in Fibers : Queued(f)' <=> Queued(f) BY <1>1 DEF Queued
<1>4. \A f \in Fibers : /\ ~Taken(t, f) /\ ~Taken(t, f)'
                        /\ ~Inside(t, f) /\ ~Inside(t, f)'
  BY <1>0, <1>2 DEF Taken, Inside, FiberPcs
<1>5. ListOK' BY <1>1, ListSame
<1>6. None \notin Fibers /\ cb_fiber'[t] = None
  BY <1>1, TasksAssumption DEF IInv, Typed
<1>7. CASE cb_fiber[t] = None
  <2>1. m_state' = m_state /\ m_cb' = m_cb /\ ctx' = ctx /\ fault' = fault
    BY <1>6, <1>7 DEF Exit
  <2>2. \A f \in Fibers : Elsewhere(t, f)
    BY <1>1, <1>3, <1>4, <1>6, <1>7, <2>1 DEF Elsewhere
  <2> QED BY <1>2, <1>5, <2>1, <2>2, Others DEF FibersOK
<1>8. CASE cb_fiber[t] # None
  <2>1. PICK g \in Fibers : g = cb_fiber[t] BY <1>8 DEF IInv, Typed
  <2>2. m_state[g] = "INIT"
    BY <1>4, <2>1 DEF FibersOK, FiberOK, CbFiberOK
  <2>3. \A u \in Threads : ~Inside(u, g)
    BY <2>2 DEF FibersOK, FiberOK, InsideOK, Inside, FiberPcs, Left, Ended
  <2>4. AtRest(g) BY <2>3 DEF FibersOK, FiberOK
  <2>5. ~Awaited(g) /\ ctx[g] = "entry" BY <2>1, <2>2, <2>4 DEF AtRest
  <2>6. \A u \in Threads \ {t} : cb_fiber[u] # g
    BY <2>1 DEF FibersOK, FiberOK, CbFiberOK
  <2>7. \A u \in Threads : ft[u] # g
    <3> SUFFICES ASSUME NEW u \in Threads, ft[u] = g PROVE FALSE OBVIOUS
    <3>1. pc[u] = "dispatch" \/ pc[u] \in FiberPcs
      BY <1>6 DEF IInv, LocalsOK
    <3>2. Taken(u, g) \/ Inside(u, g) BY <1>6, <3>1 DEF Taken, Inside, Running
    <3> QED BY <2>3, <2>5, <3>2 DEF Awaited
  <2>8. ~HeldElsewhere(t, g)
    BY <2>5, <2>6, <2>7 DEF HeldElsewhere, Awaited
  <2>9. Release(t, g, m_state, m_cb, FALSE) BY <1>8, <2>1 DEF Exit
  <2>10. /\ m_state' = [m_state EXCEPT ![g] = "FREE"]
         /\ m_cb' = [m_cb EXCEPT ![g] = None]
         /\ ctx' = [ctx EXCEPT ![g] = "entry"]
         /\ fault' = fault
    BY <2>2, <2>8, <2>9 DEF Release, Finished
  <2>11. /\ m_state'[g] = "FREE" /\ m_cb'[g] = None /\ ctx'[g] = "entry"
         /\ \A f \in Fibers \ {g} :
              m_state'[f] = m_state[f] /\ m_cb'[f] = m_cb[f] /\ ctx'[f] = ctx[f]
    BY <2>10 DEF IInv, Typed
  <2>12. ASSUME NEW f \in Fibers \ {g} PROVE FiberOK(f)'
    <3>1. Elsewhere(t, f)
      BY <1>1, <1>3, <1>4, <1>6, <2>1, <2>11 DEF Elsewhere
    <3> QED BY <1>2, <3>1, Others DEF FibersOK
  <2>13. FiberOK(g)'
    <3>1. \A u \in Threads : ~Inside(u, g)' /\ ~Taken(u, g)'
      BY <1>2, <1>4, <2>3, <2>5, AloneFrame DEF Awaited
    <3>2. ~Awaited(g)' BY <1>1, <1>3, <2>5, <3>1 DEF Awaited
    <3>3. \A u \in Threads : cb_fiber'[u] # g
      BY <1>2, <1>6, <2>6 DEF Alone
    <3>4. AtRest(g)' BY <2>11, <3>2, <3>3 DEF AtRest
    <3>5. CbFiberOK(g)' BY <3>3 DEF CbFiberOK
    <3>6. AwaitedOnce(g)' BY <3>2 DEF AwaitedOnce, Awaited
    <3> QED BY <3>1, <3>4, <3>5, <3>6 DEF FiberOK
  <2> QED BY <1>5, <2>10, <2>12, <2>13 DEF FibersOK
<1> QED BY <1>7, <1>8

\* A thread takes an entry from the list.
LEMMA PickTaskOK ==
  ASSUME IInv, FibersOK, ListOK, NEW t \in Threads, PickTask(t)
  PROVE FibersOK' /\ ListOK'
<1>1. PICK k \in 1 .. Len(m_fibers) :
        /\ ft' = [ft EXCEPT ![t] = m_fibers[k].task]
        /\ m_fibers' = Without(m_fibers, k)
  BY DEF PickTask
<1>2. /\ pc[t] = "scan" /\ cb_fiber' = cb_fiber /\ wakers' = wakers
      /\ m_state' = m_state /\ m_cb' = m_cb /\ ctx' = ctx
  BY DEF PickTask
<1>3. Alone(t) /\ pc'[t] = "dispatch" BY ThreadMoves, MovesAlone
<1>4. PICK x \in Fibers \cup Callbacks : x = m_fibers[k].task
  <2>1. m_fibers[k] \in Entries BY ElementOfSeq DEF IInv, Typed
  <2> QED BY <2>1 DEF Entries
<1>5. ft'[t] = x BY <1>1, <1>4 DEF IInv, Typed
<1>6. \A f \in Fibers : Queued(f)' <=> Queued(f) /\ f # x
  <2>1. \A f \in Fibers : Queued(f)' <=>
          \E i \in 1 .. Len(m_fibers) : i # k /\ m_fibers[i].task = f
    BY <1>1, WithoutQueued
  <2>2. \A i \in 1 .. Len(m_fibers) :
          m_fibers[i].task \in Fibers /\ m_fibers[i].task = x => i = k
    BY <1>4 DEF ListOK
  <2>3. ASSUME NEW f \in Fibers, Queued(f), f # x
        PROVE \E i \in 1 .. Len(m_fibers) : i # k /\ m_fibers[i].task = f
    BY <1>4, <2>3 DEF Queued
  <2>4. ASSUME NEW f \in Fibers, NEW i \in 1 .. Len(m_fibers),
               i # k, m_fibers[i].task = f
        PROVE Queued(f) /\ f # x
    BY <2>2, <2>4 DEF Queued
  <2> QED BY <2>1, <2>3, <2>4
<1>7. \A f \in Fibers : ~Taken(t, f) /\ ~Inside(t, f) /\ ~Inside(t, f)'
  BY <1>2, <1>3 DEF Taken, Inside, FiberPcs
<1>8. ASSUME NEW f \in Fibers, f # x PROVE FiberOK(f)'
  <2>1. ~Taken(t, f)' BY <1>5, <1>8 DEF Taken
  <2>2. Elsewhere(t, f) BY <1>2, <1>6, <1>7, <1>8, <2>1 DEF Elsewhere
  <2> QED BY <1>3, <2>2, Others DEF FibersOK
<1>9. ASSUME x \in Fibers PROVE FiberOK(x)'
  <2>1. Queued(x) BY <1>4 DEF Queued
  <2>2. x \notin wakers /\ \A u \in Threads : ~Taken(u, x)
    BY <1>9, <2>1 DEF FibersOK, FiberOK, AwaitedOnce
  <2>3. ~Queued(x)' BY <1>6, <1>9
  <2>4. \A u \in Threads : Taken(u, x)' <=> u = t
    <3>1. Taken(t, x)' BY <1>3, <1>5 DEF Taken
    <3> QED BY <1>3, <1>9, <2>2, <3>1, AloneFrame
  <2>5. Awaited(x) /\ Awaited(x)' BY <2>1, <2>4 DEF Awaited
  <2>6. AwaitedOnce(x)' BY <1>2, <2>2, <2>3, <2>4 DEF AwaitedOnce
  <2>7. \A u \in Threads :
           /\ Inside(u, x)' <=> Inside(u, x)
           /\ Inside(u, x) => pc'[u] = pc[u] /\ ft'[u] = ft[u]
           /\ cb_fiber'[u] = cb_fiber[u]
    BY <1>2, <1>3, <1>7, <1>9, AloneFrame DEF Alone
  <2> QED BY <1>2, <1>9, <2>5, <2>6, <2>7, Passes DEF FibersOK
<1>10. ListOK'
  <2>1. m_fibers \in Seq(Entries) /\ Len(m_fibers) \in Nat
    BY LenProperties DEF IInv, Typed
  <2>2. /\ Len(m_fibers') = Len(m_fibers) - 1
        /\ \A i \in 1 .. Len(m_fibers) - 1 :
             m_fibers'[i] = m_fibers[IF i < k THEN i ELSE i + 1]
    BY <1>1, <2>1, WithoutAt
  <2>3. x \notin AsFiber BY <1>4 DEF ListOK
  <2>4. \A u \in Threads : ft'[u] \notin AsFiber
    BY <1>1, <1>4, <2>3 DEF ListOK, IInv, Typed
  <2>5. \A i \in 1 .. Len(m_fibers') : m_fibers'[i].task \notin AsFiber
    BY <2>1, <2>2 DEF ListOK
  <2>6. \A i, j \in 1 .. Len(m_fibers') :
          m_fibers'[i].task \in Fibers /\ m_fibers'[i].task = m_fibers'[j].task => i = j
    BY <2>1, <2>2 DEF ListOK
  <2> QED BY <1>2, <2>4, <2>5, <2>6 DEF ListOK
<1> QED BY <1>8, <1>9, <1>10 DEF FibersOK

\* A waiting fiber is put in the list.
LEMMA WakeOK ==
  ASSUME IInv, FibersOK, ListOK, NEW g \in Fibers, Wake(g)
  PROVE FibersOK' /\ ListOK'
<1>1. /\ g \in wakers /\ wakers' = wakers \ {g}
      /\ m_fibers' = Append(m_fibers, Entry(g, AnyThread))
      /\ m_state' = m_state /\ m_cb' = m_cb /\ ctx' = ctx
      /\ ft' = ft /\ cb_fiber' = cb_fiber /\ pc' = pc
  BY DEF Wake
<1>2. Entry(g, AnyThread) \in Entries /\ Entry(g, AnyThread).task = g
  BY DEF Entry, Entries
<1>3. \A f \in Fibers : Queued(f)' <=> Queued(f) \/ f = g
  BY <1>1, <1>2, AppendQueued
<1>4. ~Queued(g) /\ \A t \in Threads : ~Taken(t, g)
  BY <1>1 DEF FibersOK, FiberOK, AwaitedOnce
<1>5. \A f \in Fibers : \A t \in Threads :
        (Taken(t, f)' <=> Taken(t, f)) /\ (Inside(t, f)' <=> Inside(t, f))
  BY <1>1 DEF Taken, Inside, Running
<1>6. ASSUME NEW f \in Fibers, f # g PROVE FiberOK(f)'
  <2>1. Untouched(f) BY <1>1, <1>3, <1>5, <1>6 DEF Untouched
  <2> QED BY <2>1, Frame DEF FibersOK
<1>7. FiberOK(g)'
  <2>1. Awaited(g) /\ Awaited(g)' BY <1>1, <1>3 DEF Awaited
  <2>2. AwaitedOnce(g)' BY <1>1, <1>4, <1>5 DEF AwaitedOnce
  <2> QED BY <1>1, <1>5, <2>1, <2>2, Passes DEF FibersOK
<1>8. ListOK'
  <2>1. g \notin AsFiber BY TasksAssumption
  <2> QED BY <1>1, <1>2, <1>4, <2>1, ListAppend
<1> QED BY <1>6, <1>7, <1>8 DEF FibersOK

\* schedule() of a callback.
LEMMA EnqueueOK ==
  ASSUME IInv, FibersOK, ListOK, NEW c \in Callbacks, Enqueue(c),
         pc' = pc, ft' = ft, cb_fiber' = cb_fiber, wakers' = wakers
  PROVE FibersOK' /\ ListOK'
<1>0. Pin[c] \in Threads \cup {AnyThread} /\ c \notin Fibers BY TasksAssumption
<1>1. \A f \in Fibers : \A t \in Threads :
        (Taken(t, f)' <=> Taken(t, f)) /\ (Inside(t, f)' <=> Inside(t, f))
  BY DEF Taken, Inside, Running
<1>2. CASE c \notin AsFiber
  <2>1. Entry(c, Pin[c]) \in Entries /\ Entry(c, Pin[c]).task = c
    BY <1>0 DEF Entry, Entries
  <2>2. /\ m_fibers' = Append(m_fibers, Entry(c, Pin[c]))
        /\ m_state' = m_state /\ m_cb' = m_cb /\ ctx' = ctx
    BY <1>2 DEF Enqueue
  <2>3. \A f \in Fibers : Queued(f)' <=> Queued(f)
    BY <1>0, <2>1, <2>2, AppendQueued
  <2>4. \A f \in Fibers : Untouched(f) BY <1>1, <2>2, <2>3 DEF Untouched
  <2>5. FibersOK' BY <2>4, Frame DEF FibersOK
  <2>6. ListOK' BY <1>0, <1>2, <2>1, <2>2, ListAppend
  <2> QED BY <2>5, <2>6
<1>3. CASE c \in AsFiber
  <2>1. PICK g \in Fibers :
          /\ m_state[g] = "FREE"
          /\ m_state' = [m_state EXCEPT ![g] = "INIT"]
          /\ m_cb' = [m_cb EXCEPT ![g] = c]
          /\ ctx' = [ctx EXCEPT ![g] = "entry"]
          /\ m_fibers' = Append(m_fibers, Entry(g, Pin[c]))
    BY <1>3 DEF Enqueue
  <2>2. Entry(g, Pin[c]) \in Entries /\ Entry(g, Pin[c]).task = g
    BY <1>0 DEF Entry, Entries
  <2>3. \A f \in Fibers : Queued(f)' <=> Queued(f) \/ f = g
    BY <2>1, <2>2, AppendQueued
  <2>4. /\ m_state'[g] = "INIT" /\ m_cb'[g] = c /\ ctx'[g] = "entry"
        /\ \A f \in Fibers \ {g} :
             m_state'[f] = m_state[f] /\ m_cb'[f] = m_cb[f] /\ ctx'[f] = ctx[f]
    BY <2>1 DEF IInv, Typed
  <2>5. \A t \in Threads : ~Inside(t, g)
    BY <2>1 DEF FibersOK, FiberOK, InsideOK, Inside, FiberPcs, Left, Ended
  <2>6. AtRest(g) BY <2>5 DEF FibersOK, FiberOK
  <2>7. ~Awaited(g) /\ \A t \in Threads : cb_fiber[t] # g
    BY <2>1, <2>6 DEF AtRest
  <2>8. \A f \in Fibers \ {g} : Untouched(f)
    BY <1>1, <2>3, <2>4 DEF Untouched
  <2>9. FiberOK(g)'
    <3>1. c # None BY TasksAssumption
    <3>2. Awaited(g)' BY <2>3 DEF Awaited
    <3>3. AwaitedOnce(g)' BY <1>1, <2>7 DEF AwaitedOnce, Awaited
    <3>4. AtRest(g)' BY <2>4, <2>7, <3>1, <3>2 DEF AtRest
    <3>5. CbFiberOK(g)' BY <2>7 DEF CbFiberOK
    <3> QED BY <1>1, <2>5, <3>3, <3>4, <3>5 DEF FiberOK
  <2>10. FibersOK' BY <2>8, <2>9, Frame DEF FibersOK
  <2>11. ListOK'
    <3>1. g \notin AsFiber /\ ~Queued(g) BY <2>7, TasksAssumption DEF Awaited
    <3> QED BY <2>1, <2>2, <3>1, ListAppend
  <2> QED BY <2>10, <2>11
<1> QED BY <1>2, <1>3

----------------------------------------------------------------------------
\* stop().

\* stopping() answers TRUE exactly when its flags are set, the list is empty and
\* no thread holds an entry.
LEMMA StoppingMeans ==
  ASSUME IInv
  PROVE Stopping <=> /\ m_autoStop /\ m_stopping /\ m_fibers = << >>
                     /\ \A t \in Threads : pc[t] \notin ActivePcs
<1>1. m_activeThreadCount = Cardinality(At(pc, ActivePcs))
  BY DEF IInv, CountersExact, At
<1>2. m_activeThreadCount = 0 <=> At(pc, ActivePcs) = {}
  BY <1>1, CountNat, FS_EmptySet
<1> QED BY <1>2 DEF Stopping, At

\* Once nothing is left, nothing comes back.
LEMMA QuietStays ==
  ASSUME IInv, FibersOK, ListOK, Supported, StopOK, Quiet, fault = "none", Next
  PROVE /\ Quiet'
        /\ \A t \in Threads :
             /\ pc[t] \in {"off", "exited"} => pc'[t] = pc[t]
             /\ idleTerm'[t] => pc'[t] \in {"idleBack", "scan", "noTask", "exited"}
             /\ pc'[t] = "exited" => idleTerm'[t]
        /\ ~Start /\ ~StopBegin /\ ~StopFlag /\ ~StopCallRoot
<1>1. /\ m_autoStop /\ m_stopping
      /\ m_fibers = << >> /\ Len(m_fibers) = 0
      /\ mpc \notin {"new", "started", "stopping"}
      /\ \A t \in Threads : pc[t] \notin ActivePcs
      /\ pc \in [Threads -> Pcs] /\ idleTerm \in [Threads -> BOOLEAN]
  BY EmptySeq DEF Quiet, StopOK, IInv, Typed
<1>2. Stopping BY <1>1, StoppingMeans
<1>3. ~Start /\ ~StopBegin /\ ~StopFlag /\ ~StopCallRoot
      /\ \A c \in Callbacks : ~Submit(c)
  BY <1>1, <1>2 DEF Start, StopBegin, StopFlag, StopCallRoot, Submit
<1>4. \A t \in Threads : Yielding =>
        pc[t] = "off" \/ pc[t] \in {"idleBack", "scan", "noTask", "exited"}
  BY DEF Quiet, StopOK
<1>5. \A f \in Fibers : ~Wake(f)
  <2> SUFFICES ASSUME NEW f \in Fibers, Wake(f) PROVE FALSE OBVIOUS
  <2>1. Yielding BY DEF Wake, ListOK
  <2>2. PICK t \in Threads : pc[t] \in {"idle", "run"} BY <1>1 DEF Wake
  <2> QED BY <1>4, <2>1, <2>2
<1>6. CASE StopSkipRoot \/ RootReturn \/ Join \/ Halted
  <2>1. UNCHANGED <<m_fibers, pc, idleTerm, m_autoStop, m_stopping>>
    BY <1>6 DEF StopSkipRoot, RootReturn, Join, Halted, vars
  <2> QED BY <1>3, <2>1 DEF Quiet, StopOK
<1>7. ASSUME NEW t \in Threads, ThreadStep(t)
      PROVE /\ Quiet'
            /\ \A u \in Threads :
                 /\ pc[u] \in {"off", "exited"} => pc'[u] = pc[u]
                 /\ idleTerm'[u] => pc'[u] \in {"idleBack", "scan", "noTask", "exited"}
                 /\ pc'[u] = "exited" => idleTerm'[u]
  <2>1. ~PickTask(t) BY <1>1 DEF PickTask
  <2>2. /\ ~DispatchFiber(t) /\ ~DropFinished(t) /\ ~ReuseFiber(t) /\ ~NewFiber(t)
        /\ \A c \in Callbacks : ~ScheduleFrom(t, c)
        /\ ~ArmWake(t) /\ ~YieldToHold(t) /\ ~YieldToReady(t) /\ ~Return(t)
        /\ ~Throw(t) /\ ~SwapOut(t) /\ ~Back(t)
    BY <1>1 DEF DispatchFiber, DropFinished, ReuseFiber, NewFiber, ScheduleFrom,
                ArmWake, YieldToHold, YieldToReady, Return, Throw, SwapOut, Back,
                ActivePcs
  <2>3. ~SettleReady(t)
    <3> SUFFICES ASSUME SettleReady(t) PROVE FALSE OBVIOUS
    <3>1. PICK g \in Fibers : g = Running(t) /\ InsideOK(t, g)
      BY InsideKnown DEF SettleReady, FiberPcs
    <3>2. Yielding BY <3>1 DEF SettleReady, InsideOK, Left, Ended
    <3> QED BY <1>4, <3>2 DEF SettleReady
  <2>4. CASE PickNothing(t) \/ EnterIdle(t) \/ IdleBack(t) \/ Exit(t)
             \/ SettleFiber(t) \/ SettleCallback(t) \/ SettleOther(t) \/ WriteHold(t)
    <3>1. UNCHANGED <<m_fibers, idleTerm, m_autoStop, m_stopping>>
      BY <2>4 DEF PickNothing, EnterIdle, IdleBack, Exit, SettleFiber,
                  SettleCallback, SettleOther, WriteHold
    <3>2. PICK v \in {"noTask", "idle", "scan", "exited", "writeHold"} :
            /\ pc' = [pc EXCEPT ![t] = v]
            /\ pc[t] \notin {"off", "exited"}
            /\ v = "exited" => idleTerm[t]
            /\ idleTerm[t] => v \notin {"idle", "writeHold"}
      BY <2>4 DEF PickNothing, EnterIdle, IdleBack, Exit, SettleFiber,
                  SettleCallback, SettleOther, WriteHold, StopOK
    <3>3. \A u \in Threads : pc'[u] = IF u = t THEN v ELSE pc[u]
      BY <1>1, <3>2
    <3> QED BY <1>1, <3>1, <3>2, <3>3 DEF Quiet, StopOK, ActivePcs
  <2>5. CASE IdleStep(t)
    <3>1. /\ UNCHANGED <<m_fibers, m_autoStop, m_stopping>>
          /\ pc[t] = "idle"
          /\ \A u \in Threads : pc'[u] = IF u = t THEN "idleBack" ELSE pc[u]
          /\ \A u \in Threads : idleTerm'[u] = IF u = t THEN TRUE ELSE idleTerm[u]
      BY <1>1, <1>2, <2>5 DEF IdleStep
    <3> QED BY <1>1, <3>1 DEF Quiet, StopOK, ActivePcs
  <2> QED BY <1>7, <2>1, <2>2, <2>3, <2>4, <2>5 DEF ThreadStep
<1> QED BY <1>3, <1>5, <1>6, <1>7 DEF Next, StopStep

\* Only a thread whose idle fiber has ended leaves run().
LEMMA IdleTermSteps ==
  ASSUME IInv, NEW t \in Threads, ThreadStep(t)
  PROVE /\ pc[t] \notin {"off", "exited"}
        /\ \A u \in Threads \ {t} : pc'[u] = pc[u] /\ idleTerm'[u] = idleTerm[u]
        /\ pc'[t] = "exited" => idleTerm'[t]
        /\ \/ idleTerm'[t] = idleTerm[t]
           \/ IdleStep(t) /\ idleTerm'[t] = Stopping /\ pc'[t] = "idleBack"
        /\ UNCHANGED stopVars
<1>1. CASE IdleStep(t) BY <1>1 DEF IdleStep, IInv, Typed
<1>2. ASSUME NEW c \in Callbacks, ScheduleFrom(t, c)
      PROVE /\ UNCHANGED <<pc, idleTerm, stopVars>> /\ pc[t] = "run"
  BY <1>2 DEF ScheduleFrom
<1>3. CASE Exit(t) BY <1>3 DEF Exit, IInv, Typed
<1>4. CASE PickTask(t) \/ PickNothing(t) \/ EnterIdle(t) \/ IdleBack(t)
           \/ DispatchFiber(t) \/ DropFinished(t) \/ ReuseFiber(t) \/ NewFiber(t)
  BY <1>4 DEF PickTask, PickNothing, EnterIdle, IdleBack, DispatchFiber,
              DropFinished, ReuseFiber, NewFiber, SwapIn, IInv, Typed
<1>5. CASE ArmWake(t) \/ YieldToHold(t) \/ YieldToReady(t) \/ Return(t) \/ Throw(t)
           \/ SwapOut(t) \/ Back(t) \/ SettleReady(t) \/ SettleFiber(t)
           \/ SettleCallback(t) \/ SettleOther(t) \/ WriteHold(t)
  BY <1>5 DEF ArmWake, YieldToHold, YieldToReady, Yield, Return, Throw, SwapOut,
              Back, SettleReady, SettleFiber, SettleCallback, SettleOther,
              WriteHold, IInv, Typed
<1> QED BY <1>1, <1>2, <1>3, <1>4, <1>5 DEF ThreadStep

LEMMA StopNext ==
  ASSUME IInv, FibersOK, ListOK, Supported, StopOK, fault = "none", Next
  PROVE StopOK'
<1>0. /\ UseCaller => Root \in Threads
      /\ Workers \subseteq Threads
      /\ Workers = {} => UseCaller
  BY ThreadsFinite, ThreadsAssumption DEF Threads
<1>1. CASE Quiet
  <2>1. /\ Quiet'
        /\ \A t \in Threads :
             /\ pc[t] \in {"off", "exited"} => pc'[t] = pc[t]
             /\ idleTerm'[t] => pc'[t] \in {"idleBack", "scan", "noTask", "exited"}
             /\ pc'[t] = "exited" => idleTerm'[t]
        /\ ~Start /\ ~StopBegin /\ ~StopFlag /\ ~StopCallRoot
    BY <1>1, QuietStays
  <2>2. /\ UNCHANGED <<m_autoStop, m_stopping>>
        /\ \/ mpc' = mpc
           \/ mpc = "flagged" /\ mpc' = "join"
           \/ mpc = "rooted" /\ mpc' = "join" /\ pc[Root] = "exited"
           \/ mpc = "join" /\ mpc' = "done" /\ \A t \in Workers : pc[t] = "exited"
    <3>1. ASSUME NEW t \in Threads, ThreadStep(t) PROVE UNCHANGED stopVars
      BY <3>1, IdleTermSteps
    <3> QED
      BY <2>1, <3>1 DEF Next, StopStep, StopSkipRoot, RootReturn, Join, Halted,
                        vars, Submit, Wake
  <2>3. mpc = "flagged" /\ UseCaller => pc[Root] = "off" BY DEF IInv, OwnerOK
  <2> QED BY <1>0, <1>1, <2>1, <2>2, <2>3 DEF StopOK
<1>2. CASE ~Quiet
  <2>1. \A t \in Threads : ~idleTerm[t] /\ pc[t] # "exited"
    BY <1>2 DEF StopOK
  <2>2. mpc # "done" /\ ~ (mpc = "join" /\ UseCaller)
    BY <1>0, <1>2, <2>1 DEF StopOK
  <2>3. ~Join BY <1>0, <2>1, <2>2 DEF Join
  <2>4. ~Halted BY <2>2 DEF Halted
  <2>5. pc \in [Threads -> Pcs] /\ idleTerm \in [Threads -> BOOLEAN]
    BY DEF IInv, Typed
  <2>6. CASE Start \/ StopBegin \/ StopFlag \/ StopCallRoot
    <3>1. /\ idleTerm' = idleTerm
          /\ \A t \in Threads : pc'[t] # "exited"
          /\ mpc' \in {"started", "stopping", "flagged", "rooted"}
          /\ mpc' \in {"started", "stopping"} => ~m_stopping'
      BY <2>1, <2>5, <2>6 DEF Start, StopBegin, StopFlag, StopCallRoot, StopOK
    <3> QED BY <2>1, <3>1 DEF StopOK
  <2>7. CASE StopSkipRoot
    <3>1. ~UseCaller
      <4> SUFFICES ASSUME UseCaller PROVE FALSE OBVIOUS
      <4>1. Stopping /\ pc[Root] = "off" /\ Root \in Threads
        BY <1>0, <2>7 DEF StopSkipRoot, IInv, OwnerOK
      <4>2. Yielding => \A t \in Threads : pc[t] = "off"
        BY <4>1 DEF Supported
      <4> QED BY <1>2, <4>1, <4>2, StoppingMeans DEF Quiet
    <3> QED BY <2>1, <2>7, <3>1 DEF StopSkipRoot, StopOK
  <2>8. CASE RootReturn
    BY <1>0, <2>1, <2>8 DEF RootReturn, StopOK
  <2>9. CASE (\E c \in Callbacks : Submit(c)) \/ (\E f \in Fibers : Wake(f))
    BY <2>1, <2>2, <2>9 DEF Submit, Wake, StopOK
  <2>10. ASSUME NEW t \in Threads, ThreadStep(t) PROVE StopOK'
    <3>1. /\ \A u \in Threads \ {t} : pc'[u] = pc[u] /\ idleTerm'[u] = idleTerm[u]
          /\ pc'[t] = "exited" => idleTerm'[t]
          /\ \/ idleTerm'[t] = idleTerm[t]
             \/ IdleStep(t) /\ idleTerm'[t] = Stopping /\ pc'[t] = "idleBack"
          /\ UNCHANGED stopVars
      BY <2>10, IdleTermSteps
    <3>2. CASE idleTerm'[t]
      <4>1. IdleStep(t) /\ Stopping /\ pc'[t] = "idleBack" BY <2>1, <3>1, <3>2
      <4>2. m_fibers' = m_fibers BY <4>1 DEF IdleStep
      <4>3. Quiet'
        <5>1. \A u \in Threads : pc'[u] \notin ActivePcs
          BY <3>1, <4>1, StoppingMeans DEF ActivePcs
        <5>2. Yielding => \A u \in Threads : idleTerm'[u]
          BY <3>2 DEF Supported
        <5> QED BY <3>1, <4>1, <4>2, <5>1, <5>2, StoppingMeans DEF Quiet
      <4> QED BY <2>1, <2>2, <3>1, <4>1, <4>3 DEF StopOK
    <3>3. CASE ~idleTerm'[t]
      BY <2>1, <2>2, <3>1, <3>3 DEF StopOK
    <3> QED BY <3>2, <3>3
  <2> QED
    BY <2>3, <2>4, <2>6, <2>7, <2>8, <2>9, <2>10 DEF Next, StopStep
<1> QED BY <1>1, <1>2

----------------------------------------------------------------------------
\* Induction.

SoundInv == fault = "none" => FibersOK /\ ListOK /\ StopOK

\* One step of a thread keeps every fiber and the list in order, or a fiber whose
\* callback threw makes an assertion fail.
LEMMA ThreadOK ==
  ASSUME IInv, FibersOK, ListOK, Supported, fault = "none",
         NEW t \in Threads, ThreadStep(t)
  PROVE \/ FibersOK' /\ ListOK' /\ fault' = fault
        \/ fault' # fault /\ \E f \in Fibers : m_state[f] = "EXCEPT"
<1>1. CASE PickTask(t) BY <1>1, PickTaskOK DEF PickTask
<1>2. CASE PickNothing(t) \/ EnterIdle(t) \/ IdleStep(t) \/ IdleBack(t)
  BY <1>2, IdlePartOK DEF PickNothing, EnterIdle, IdleStep, IdleBack
<1>3. CASE Exit(t) BY <1>3, ExitOK
<1>4. CASE DispatchFiber(t) BY <1>4, DispatchFiberOK
<1>5. CASE DropFinished(t) BY <1>5, NeverDrops
<1>6. CASE ReuseFiber(t) \/ NewFiber(t) BY <1>6, StartCallbackOK
<1>7. ASSUME NEW c \in Callbacks, ScheduleFrom(t, c)
      PROVE FibersOK' /\ ListOK' /\ fault' = fault
  BY <1>7, EnqueueOK DEF ScheduleFrom
<1>8. CASE ArmWake(t) BY <1>8, ArmWakeOK DEF ArmWake
<1>9. CASE YieldToHold(t) \/ YieldToReady(t) BY <1>9, YieldOK
<1>10. CASE Return(t) \/ Throw(t) BY <1>10, EndOK DEF Return, Throw
<1>11. CASE SwapOut(t) \/ Back(t) \/ SettleOther(t)
  BY <1>11, SwitchOK DEF SwapOut, Back, SettleOther
<1>12. CASE SettleReady(t) BY <1>12, SettleReadyOK DEF SettleReady
<1>13. CASE SettleFiber(t) BY <1>13, SettleFiberOK
<1>14. CASE SettleCallback(t) BY <1>14, SettleCallbackOK
<1>15. CASE WriteHold(t) BY <1>15, WriteHoldOK
<1> QED
  BY <1>1, <1>2, <1>3, <1>4, <1>5, <1>6, <1>7, <1>8, <1>9, <1>10, <1>11, <1>12,
     <1>13, <1>14, <1>15 DEF ThreadStep

\* Nothing that a state formula reads changes.
LEMMA SoundStutter ==
  ASSUME SoundInv, UNCHANGED vars
  PROVE SoundInv'
<1> USE DEF vars
<1>2. \A f \in Fibers : Untouched(f)
  BY DEF Untouched, Queued, Taken, Inside, Running
<1>3. FibersOK => FibersOK' BY <1>2, Frame DEF FibersOK
<1>4. (ListOK => ListOK') /\ (StopOK => StopOK')
  BY DEF ListOK, StopOK, Quiet
<1> QED BY <1>3, <1>4 DEF SoundInv

LEMMA SoundStep ==
  ASSUME IInv, IInv', Supported, SoundInv, [Next]_vars
  PROVE /\ SoundInv'
        /\ fault' # fault => \E f \in Fibers : m_state[f] = "EXCEPT"
<1>1. CASE UNCHANGED vars \/ Halted
  BY <1>1, SoundStutter DEF Halted, vars
<1>2. CASE fault = "none" /\ Next /\ ~Halted
  <2>0. FibersOK /\ ListOK /\ StopOK BY <1>2 DEF SoundInv
  <2>2. StopOK' BY <1>2, <2>0, StopNext
  <2>3. CASE Start \/ StopStep
    <3>1. fault' = fault
      BY <2>3 DEF Start, StopStep, StopBegin, StopFlag, StopCallRoot,
                  StopSkipRoot, RootReturn, Join
    <3>2. FibersOK' /\ ListOK' BY <2>0, <2>3, OwnerStepOK
    <3> QED BY <2>2, <3>1, <3>2 DEF SoundInv
  <2>4. ASSUME NEW c \in Callbacks, Submit(c)
        PROVE SoundInv' /\ fault' = fault
    <3>1. fault' = fault /\ FibersOK' /\ ListOK'
      BY <2>0, <2>4, EnqueueOK DEF Submit
    <3> QED BY <2>2, <3>1 DEF SoundInv
  <2>5. ASSUME NEW f \in Fibers, Wake(f)
        PROVE SoundInv' /\ fault' = fault
    <3>1. fault' = fault /\ FibersOK' /\ ListOK'
      BY <2>0, <2>5, WakeOK DEF Wake
    <3> QED BY <2>2, <3>1 DEF SoundInv
  <2>6. ASSUME NEW t \in Threads, ThreadStep(t)
        PROVE /\ SoundInv'
              /\ fault' # fault => \E f \in Fibers : m_state[f] = "EXCEPT"
    BY <1>2, <2>0, <2>2, <2>6, ThreadOK DEF SoundInv
  <2> QED BY <1>2, <2>3, <2>4, <2>5, <2>6 DEF Next
<1> QED BY <1>1, <1>2 DEF Next

LEMMA InitSound == Init => SoundInv
<1> SUFFICES ASSUME Init PROVE SoundInv OBVIOUS
<1>0. Len(m_fibers) = 0 /\ None \notin AsFiber /\ None \notin Fibers
  BY EmptySeq, TasksAssumption DEF Init
<1>1. \A t \in Threads : pc[t] = "off" /\ ft[t] = None /\ cb_fiber[t] = None
                         /\ ~idleTerm[t]
  BY DEF Init
<1>3. ASSUME NEW f \in Fibers PROVE FiberOK(f)
  <2>1. \A t \in Threads : ~Taken(t, f) /\ ~Inside(t, f)
    BY <1>1 DEF Taken, Inside, FiberPcs
  <2>2. ~Queued(f) /\ f \notin wakers BY <1>0 DEF Queued, Init
  <2>3. ~Awaited(f) BY <2>1, <2>2 DEF Awaited
  <2>4. AtRest(f) BY <1>0, <1>1, <2>3 DEF AtRest, Init
  <2> QED BY <1>0, <1>1, <2>1, <2>2, <2>4 DEF FiberOK, AwaitedOnce, CbFiberOK
<1>4. ListOK BY <1>0, <1>1 DEF ListOK, Init
<1>5. StopOK BY <1>1, ThreadsFinite DEF StopOK, Init
<1> QED BY <1>3, <1>4, <1>5 DEF SoundInv, FibersOK

LEMMA SoundAlways == Supported => (Spec => []SoundInv)
<1> SUFFICES ASSUME Supported PROVE Spec => []SoundInv OBVIOUS
<1>1. IInv /\ IInv' /\ SoundInv /\ [Next]_vars => SoundInv'
  BY SoundStep
<1> QED BY <1>1, InitSound, IInvAlways, PTL DEF Spec

\* With callbacks that yield only where run() supports it, an assertion about a
\* fiber's state fails only after a callback has thrown, whatever the threads
\* interleave: the other case of FaultsOnlyThrown does not arise.
THEOREM SchedulerFaultsOnlyThrown ==
  Supported => (Spec => FaultsOnlyThrown /\ [][fault' # fault => Thrown]_vars)
<1> SUFFICES ASSUME Supported
             PROVE Spec => FaultsOnlyThrown /\ [][fault' # fault => Thrown]_vars
  OBVIOUS
<1>1. IInv /\ IInv' /\ SoundInv /\ [Next]_vars => [fault' # fault => Thrown]_vars
  BY SoundStep DEF Thrown
<1>2. [fault' # fault => Thrown]_vars => [fault' # fault => Thrown \/ CbFiberKept]_vars
  OBVIOUS
<1> QED BY <1>1, <1>2, SoundAlways, IInvAlways, PTL DEF Spec, FaultsOnlyThrown

\* Without exceptions no fiber is ever in EXCEPT.
NoExcept == \A f \in Fibers : m_state[f] # "EXCEPT"

LEMMA NoExceptStep ==
  ASSUME IInv, Supported, NoThrow, SoundInv, NoExcept, fault = "none", [Next]_vars
  PROVE NoExcept'
<1> USE DEF IInv, Typed, NoExcept
<1>1. CASE UNCHANGED vars \/ Halted BY <1>1 DEF Halted, vars
<1>2. CASE Start \/ StopStep \/ (\E f \in Fibers : Wake(f))
  BY <1>2 DEF Start, StopStep, StopBegin, StopFlag, StopCallRoot, StopSkipRoot,
              RootReturn, Join, Wake
<1>3. ASSUME NEW c \in Callbacks, Enqueue(c) PROVE NoExcept'
  BY <1>3 DEF Enqueue
<1>4. ASSUME NEW t \in Threads, ThreadStep(t) PROVE NoExcept'
  <2>1. ~Throw(t)
    <3> SUFFICES ASSUME Throw(t) PROVE FALSE OBVIOUS
    <3>1. PICK g \in Fibers : g = Running(t) /\ InsideOK(t, g)
      BY InsideKnown DEF Throw, FiberPcs, SoundInv
    <3>2. m_cb[g] \in Callbacks BY <3>1 DEF Throw, InsideOK
    <3>3. "throw" \in Ops[m_cb[g]] BY <3>1, <3>2, TasksAssumption DEF Throw, May
    <3> QED BY <3>2, <3>3 DEF NoThrow
  <2>2. CASE PickTask(t) \/ PickNothing(t) \/ EnterIdle(t) \/ IdleStep(t)
             \/ IdleBack(t) \/ ArmWake(t) \/ SwapOut(t) \/ Back(t)
             \/ SettleReady(t) \/ SettleOther(t)
    BY <2>2 DEF PickTask, PickNothing, EnterIdle, IdleStep, IdleBack, ArmWake,
                SwapOut, Back, SettleReady, SettleOther
  <2>3. CASE DispatchFiber(t) \/ ReuseFiber(t) \/ NewFiber(t) \/ Return(t)
             \/ YieldToHold(t) \/ YieldToReady(t) \/ SettleCallback(t)
    BY <2>3 DEF DispatchFiber, ReuseFiber, NewFiber, SwapIn, Return, YieldToHold,
                YieldToReady, Yield, SettleCallback
  <2>4. CASE Exit(t) \/ DropFinished(t) \/ SettleFiber(t) \/ WriteHold(t)
    BY <2>4 DEF Exit, DropFinished, SettleFiber, WriteHold, Release
  <2>5. ASSUME NEW c \in Callbacks, ScheduleFrom(t, c) PROVE NoExcept'
    BY <1>3, <2>5 DEF ScheduleFrom
  <2> QED BY <1>4, <2>1, <2>2, <2>3, <2>4, <2>5 DEF ThreadStep
<1>5. ASSUME NEW c \in Callbacks, Submit(c) PROVE NoExcept'
  BY <1>3, <1>5 DEF Submit
<1> QED BY <1>1, <1>2, <1>4, <1>5 DEF Next

LEMMA SafeAlways ==
  Supported /\ NoThrow => (Spec => [](NoFault /\ NoExcept))
<1> SUFFICES ASSUME Supported, NoThrow PROVE Spec => [](NoFault /\ NoExcept)
  OBVIOUS
<1>1. Init => NoFault /\ NoExcept BY DEF Init, NoFault, NoExcept
<1>2. IInv /\ IInv' /\ SoundInv /\ NoFault /\ NoExcept /\ [Next]_vars
        => (NoFault /\ NoExcept)'
  BY SoundStep, NoExceptStep DEF NoFault, NoExcept
<1> QED BY <1>1, <1>2, SoundAlways, IInvAlways, PTL DEF Spec

\* No assertion of fiber.cc fails and no thread enters a context that another
\* thread still uses, for every number of threads, when callbacks do not throw
\* and yield only where run() supports it.
THEOREM SchedulerNoFault == Supported /\ NoThrow => (Spec => []NoFault)
<1> SUFFICES ASSUME Supported, NoThrow PROVE Spec => []NoFault OBVIOUS
<1> QED BY SafeAlways, PTL

----------------------------------------------------------------------------
\* The scheduler implements TaskPool.

\* Callback c waits to be started; c is in a fiber that executes; c is in a fiber
\* that waits for its wake-up.
Unstarted(c) == Queued(c) \/ \E t \in Threads : ft[t] = c
InFiber(c) == \E f \in Fibers : m_cb[f] = c
Executes(c) == \E f \in Fibers : m_cb[f] = c /\ m_state[f] = "EXEC"
Waits(c) == \E f \in wakers : m_cb[f] = c

LEMMA StatusIs ==
  ASSUME NEW c \in Callbacks
  PROVE /\ StatusOf(c) = IF c \notin submitted THEN "new"
                         ELSE IF ~Unstarted(c) /\ ~InFiber(c) THEN "done"
                         ELSE IF Executes(c) THEN "running"
                         ELSE IF Waits(c) THEN "suspended"
                         ELSE "queued"
        /\ StatusOf(c)' = IF c \notin submitted' THEN "new"
                          ELSE IF ~Unstarted(c)' /\ ~InFiber(c)' THEN "done"
                          ELSE IF Executes(c)' THEN "running"
                          ELSE IF Waits(c)' THEN "suspended"
                          ELSE "queued"
<1>1. Places(c) = {} <=> ~Unstarted(c) /\ ~InFiber(c)
  BY DEF Places, Unstarted, InFiber, Queued
<1>2. Places(c)' = {} <=> ~Unstarted(c)' /\ ~InFiber(c)'
  BY DEF Places, Unstarted, InFiber, Queued
<1> QED BY <1>1, <1>2 DEF StatusOf, Executes, Waits

LEMMA StatusSame ==
  ASSUME NEW c \in Callbacks,
         c \in submitted' <=> c \in submitted,
         Unstarted(c)' <=> Unstarted(c),
         InFiber(c)' <=> InFiber(c),
         Executes(c)' <=> Executes(c),
         (Waits(c)' <=> Waits(c)) \/ Executes(c)
  PROVE StatusOf(c)' = StatusOf(c)
BY StatusIs

\* A step that gives fiber g, and no other, another callback or state leaves the
\* callbacks that are not in g alone.
LEMMA OtherCallbacks ==
  ASSUME IInv, IInv', NEW g \in Fibers, NEW d \in Callbacks,
         \A f \in Fibers \ {g} :
           /\ m_cb'[f] = m_cb[f] /\ m_state'[f] = m_state[f]
           /\ f \in wakers' <=> f \in wakers,
         m_cb[g] # d, m_cb'[g] # d,
         d \in submitted' <=> d \in submitted,
         Unstarted(d)' <=> Unstarted(d)
  PROVE StatusOf(d)' = StatusOf(d)
<1>1. InFiber(d)' <=> InFiber(d) BY DEF InFiber
<1>2. Executes(d)' <=> Executes(d) BY DEF Executes
<1>3. Waits(d)' <=> Waits(d) BY DEF Waits, IInv, Typed
<1> QED BY <1>1, <1>2, <1>3, StatusSame

\* The callback that moves, and the way it moves.
Moved(c) ==
  /\ <<StatusOf(c), StatusOf(c)'>> \in Pool!Transitions
  /\ \A d \in Callbacks \ {c} : StatusOf(d)' = StatusOf(d)

Unmoved == \A d \in Callbacks : StatusOf(d)' = StatusOf(d)

\* The steps that touch no callback.
LEMMA StillSteps ==
  ASSUME m_cb' = m_cb, m_state' = m_state, wakers' = wakers, submitted' = submitted,
         \A d \in Callbacks : Unstarted(d)' <=> Unstarted(d)
  PROVE Unmoved
<1> SUFFICES ASSUME NEW d \in Callbacks PROVE StatusOf(d)' = StatusOf(d)
  BY DEF Unmoved
<1>1. /\ InFiber(d)' <=> InFiber(d)
      /\ Executes(d)' <=> Executes(d)
      /\ Waits(d)' <=> Waits(d)
  BY DEF InFiber, Executes, Waits
<1> QED BY <1>1, StatusSame

LEMMA SameUnstarted ==
  ASSUME m_fibers' = m_fibers,
         \A t \in Threads : ft'[t] = ft[t] \/ {ft[t], ft'[t]} \cap Callbacks = {}
  PROVE \A d \in Callbacks : Unstarted(d)' <=> Unstarted(d)
BY DEF Unstarted, Queued

\* What is known of the one fiber a callback is in.
LEMMA OnlyIn ==
  ASSUME IInv, Once, NEW g \in Fibers, NEW c \in Callbacks, m_cb[g] = c
  PROVE /\ c \in submitted /\ ~Unstarted(c) /\ InFiber(c)
        /\ Executes(c) <=> m_state[g] = "EXEC"
        /\ Waits(c) <=> g \in wakers
        /\ \A f \in Fibers \ {g} : m_cb[f] # c
<1>1. OnceFor(c) BY DEF Once
<1>2. \A f \in Fibers \ {g} : m_cb[f] # c BY <1>1 DEF OnceFor
<1>3. c \in submitted BY <1>1 DEF OnceFor
<1>4. ~Unstarted(c) BY <1>1 DEF OnceFor, Unstarted, Queued
<1> QED BY <1>2, <1>3, <1>4 DEF InFiber, Executes, Waits, IInv, Typed

\* The locked scan hands a callback from the list to the thread.
LEMMA PickStill ==
  ASSUME IInv, NEW t \in Threads, PickTask(t)
  PROVE Unmoved
<1>1. PICK k \in 1 .. Len(m_fibers) :
        /\ ft' = [ft EXCEPT ![t] = m_fibers[k].task]
        /\ m_fibers' = Without(m_fibers, k)
  BY DEF PickTask
<1>2. /\ pc[t] = "scan" /\ ft[t] = None /\ None \notin Callbacks
      /\ m_cb' = m_cb /\ m_state' = m_state /\ wakers' = wakers
      /\ submitted' = submitted
  BY TasksAssumption DEF PickTask, IInv, LocalsOK, FiberPcs
<1>3. \A u \in Threads : ft'[u] = IF u = t THEN m_fibers[k].task ELSE ft[u]
  BY <1>1 DEF IInv, Typed
<1>4. \A d \in Callbacks : Queued(d)' <=>
        \E i \in 1 .. Len(m_fibers) : i # k /\ m_fibers[i].task = d
  BY <1>1, WithoutQueued
<1>5. ASSUME NEW d \in Callbacks PROVE Unstarted(d)' <=> Unstarted(d)
  <2>1. ASSUME Unstarted(d)' PROVE Unstarted(d)
    <3>1. CASE Queued(d)' BY <1>4, <3>1 DEF Unstarted, Queued
    <3>2. ASSUME NEW u \in Threads, ft'[u] = d PROVE Unstarted(d)
      BY <1>3, <3>2 DEF Unstarted, Queued
    <3> QED BY <2>1, <3>1, <3>2 DEF Unstarted
  <2>2. ASSUME Unstarted(d) PROVE Unstarted(d)'
    <3>1. CASE m_fibers[k].task = d BY <1>3, <3>1 DEF Unstarted
    <3>2. CASE m_fibers[k].task # d /\ Queued(d)
      BY <1>4, <3>2 DEF Unstarted, Queued
    <3>3. ASSUME NEW u \in Threads, ft[u] = d PROVE Unstarted(d)'
      BY <1>2, <1>3, <3>3 DEF Unstarted
    <3> QED BY <2>2, <3>1, <3>2, <3>3 DEF Unstarted
  <2> QED BY <2>1, <2>2
<1> QED BY <1>2, <1>5, StillSteps

\* schedule() makes a new callback a queued one.
LEMMA EnqueueMoves ==
  ASSUME IInv, IInv', Once, FibersOK, NEW c \in Callbacks, Enqueue(c),
         ft' = ft, wakers' = wakers
  PROVE Moved(c)
<1>0. /\ Pin[c] \in Threads \cup {AnyThread}
      /\ None \notin Callbacks /\ Fibers \cap Callbacks = {}
  BY TasksAssumption
<1>1. /\ c \notin submitted /\ submitted' = submitted \cup {c} BY DEF Enqueue
<1>2. /\ ~Unstarted(c) /\ ~InFiber(c)
  BY <1>1 DEF Once, OnceFor, Unstarted, InFiber, Queued
<1>3. StatusOf(c) = "new" BY <1>1, StatusIs
<1>4. CASE c \notin AsFiber
  <2>1. /\ m_fibers' = Append(m_fibers, Entry(c, Pin[c]))
        /\ m_state' = m_state /\ m_cb' = m_cb
    BY <1>4 DEF Enqueue
  <2>2. Entry(c, Pin[c]) \in Entries /\ Entry(c, Pin[c]).task = c
    BY <1>0 DEF Entry, Entries
  <2>3. \A d \in Callbacks : Queued(d)' <=> Queued(d) \/ d = c
    BY <2>1, <2>2, AppendQueued
  <2>4. StatusOf(c)' = "queued"
    <3>1. Unstarted(c)' BY <2>3 DEF Unstarted
    <3>2. ~Executes(c)' /\ ~Waits(c)'
      BY <1>2, <2>1 DEF InFiber, Executes, Waits, IInv, Typed
    <3> QED BY <1>1, <3>1, <3>2, StatusIs
  <2>5. ASSUME NEW d \in Callbacks \ {c} PROVE StatusOf(d)' = StatusOf(d)
    <3>1. /\ Unstarted(d)' <=> Unstarted(d)
          /\ InFiber(d)' <=> InFiber(d)
          /\ Executes(d)' <=> Executes(d)
          /\ Waits(d)' <=> Waits(d)
      BY <2>1, <2>3 DEF Unstarted, InFiber, Executes, Waits
    <3> QED BY <1>1, <3>1, StatusSame
  <2> QED BY <1>3, <2>4, <2>5 DEF Moved, Pool!Transitions
<1>5. CASE c \in AsFiber
  <2>1. PICK g \in Fibers :
          /\ m_state[g] = "FREE"
          /\ m_state' = [m_state EXCEPT ![g] = "INIT"]
          /\ m_cb' = [m_cb EXCEPT ![g] = c]
          /\ m_fibers' = Append(m_fibers, Entry(g, Pin[c]))
    BY <1>5 DEF Enqueue
  <2>2. Entry(g, Pin[c]) \in Entries /\ Entry(g, Pin[c]).task = g
    BY <1>0 DEF Entry, Entries
  <2>3. \A d \in Callbacks : Queued(d)' <=> Queued(d)
    BY <1>0, <2>1, <2>2, AppendQueued
  <2>4. \A d \in Callbacks : Unstarted(d)' <=> Unstarted(d)
    BY <2>3 DEF Unstarted
  <2>5. /\ m_cb'[g] = c /\ m_state'[g] = "INIT"
        /\ \A f \in Fibers \ {g} : m_cb'[f] = m_cb[f] /\ m_state'[f] = m_state[f]
    BY <2>1 DEF IInv, Typed
  <2>6. \A u \in Threads : ~Inside(u, g)
    BY <2>1 DEF FibersOK, FiberOK, InsideOK, Inside, FiberPcs, Left, Ended
  <2>7. AtRest(g) BY <2>6 DEF FibersOK, FiberOK
  <2>8. m_cb[g] = None /\ g \notin wakers BY <2>1, <2>7 DEF AtRest, Awaited
  <2>9. StatusOf(c)' = "queued"
    <3>1. InFiber(c)' BY <2>5 DEF InFiber
    <3>2. \A f \in Fibers : m_cb'[f] = c => f = g
      BY <1>2, <2>5 DEF InFiber
    <3>3. ~Executes(c)' /\ ~Waits(c)'
      BY <2>5, <2>8, <3>2 DEF Executes, Waits, IInv, Typed
    <3> QED BY <1>1, <3>1, <3>3, StatusIs
  <2>10. ASSUME NEW d \in Callbacks \ {c} PROVE StatusOf(d)' = StatusOf(d)
    BY <1>0, <1>1, <2>4, <2>5, <2>8, OtherCallbacks
  <2> QED BY <1>3, <2>9, <2>10 DEF Moved, Pool!Transitions
<1> QED BY <1>4, <1>5

\* schedule(f) makes a suspended callback a queued one.
LEMMA WakeMoves ==
  ASSUME IInv, IInv', Once, FibersOK, NEW g \in Fibers, Wake(g)
  PROVE Unmoved \/ \E c \in Callbacks : Moved(c)
<1>1. /\ g \in wakers /\ wakers' = wakers \ {g}
      /\ m_fibers' = Append(m_fibers, Entry(g, AnyThread))
      /\ m_state' = m_state /\ m_cb' = m_cb /\ ft' = ft /\ submitted' = submitted
  BY DEF Wake
<1>2. Entry(g, AnyThread) \in Entries /\ Entry(g, AnyThread).task = g
  BY DEF Entry, Entries
<1>3. \A d \in Callbacks : Unstarted(d)' <=> Unstarted(d)
  <2>1. \A d \in Callbacks : Queued(d)' <=> Queued(d)
    BY <1>1, <1>2, AppendQueued, TasksAssumption
  <2> QED BY <1>1, <2>1 DEF Unstarted
<1>4. \A d \in Callbacks : m_cb[g] # d => StatusOf(d)' = StatusOf(d)
  BY <1>1, <1>3, OtherCallbacks
<1>5. CASE m_cb[g] = None BY <1>4, <1>5, TasksAssumption DEF Unmoved
<1>6. CASE m_cb[g] # None
  <2>1. PICK c \in Callbacks : c = m_cb[g] BY <1>6 DEF IInv, Typed
  <2>2. /\ c \in submitted /\ ~Unstarted(c) /\ InFiber(c)
        /\ Waits(c) /\ \A f \in Fibers \ {g} : m_cb[f] # c
    BY <1>1, <2>1, OnlyIn
  <2>3. /\ InFiber(c)' /\ ~Waits(c)' /\ (Executes(c)' <=> Executes(c))
    BY <1>1, <2>1, <2>2 DEF InFiber, Waits, Executes, IInv, Typed
  <2>4. CASE Executes(c)
    <3>1. StatusOf(c)' = StatusOf(c)
      BY <1>1, <1>3, <2>2, <2>3, <2>4, StatusSame
    <3> QED BY <1>4, <2>1, <3>1 DEF Unmoved
  <2>5. CASE ~Executes(c)
    <3>1. StatusOf(c) = "suspended" /\ StatusOf(c)' = "queued"
      BY <1>1, <2>2, <2>3, <2>5, StatusIs
    <3> QED BY <1>4, <2>1, <3>1 DEF Moved, Pool!Transitions
  <2> QED BY <2>4, <2>5
<1> QED BY <1>5, <1>6

\* A thread starts or resumes a queued callback.
LEMMA DispatchMoves ==
  ASSUME IInv, IInv', Once, FibersOK, Supported, fault = "none",
         NEW t \in Threads, DispatchFiber(t)
  PROVE \E c \in Callbacks : Moved(c)
<1>1. PICK g \in Fibers : g = ft[t] /\ Taken(t, g) BY DEF DispatchFiber, Taken
<1>2. m_state[g] # "EXEC" /\ m_cb[g] # None BY <1>1, TakenAtRest
<1>3. g \notin wakers BY <1>1 DEF FibersOK, FiberOK, AwaitedOnce
<1>4. PICK c \in Callbacks : c = m_cb[g] BY <1>2 DEF IInv, Typed
<1>5. /\ m_state' = [m_state EXCEPT ![g] = "EXEC"]
      /\ m_cb' = m_cb /\ ft' = ft /\ m_fibers' = m_fibers /\ wakers' = wakers
      /\ submitted' = submitted
  BY <1>1 DEF DispatchFiber, SwapIn
<1>6. \A d \in Callbacks : Unstarted(d)' <=> Unstarted(d)
  BY <1>5, SameUnstarted
<1>7. StatusOf(c) = "queued"
  BY <1>2, <1>3, <1>4, OnlyIn, StatusIs
<1>8. StatusOf(c)' = "running"
  <2>1. InFiber(c)' /\ Executes(c)'
    BY <1>4, <1>5 DEF InFiber, Executes, IInv, Typed
  <2>2. c \in submitted' BY <1>4, <1>5, OnlyIn
  <2> QED BY <2>1, <2>2, StatusIs
<1>9. \A d \in Callbacks \ {c} : StatusOf(d)' = StatusOf(d)
  <2>1. \A f \in Fibers \ {g} : m_state'[f] = m_state[f] BY <1>5 DEF IInv, Typed
  <2> QED BY <1>4, <1>5, <1>6, <2>1, OtherCallbacks
<1> QED BY <1>7, <1>8, <1>9 DEF Moved, Pool!Transitions

LEMMA StartMoves ==
  ASSUME IInv, IInv', Once, FibersOK, NEW t \in Threads, ReuseFiber(t) \/ NewFiber(t)
  PROVE \E c \in Callbacks : Moved(c)
<1>0. /\ pc[t] = "dispatch" /\ None \notin Callbacks
      /\ m_fibers' = m_fibers /\ wakers' = wakers /\ submitted' = submitted
      /\ ft' = [ft EXCEPT ![t] = None]
  BY TasksAssumption DEF ReuseFiber, NewFiber
<1>1. PICK c \in Callbacks : c = ft[t] BY DEF ReuseFiber, NewFiber
<1>2. PICK g \in Fibers :
        /\ m_cb' = [m_cb EXCEPT ![g] = c]
        /\ m_state' = [m_state EXCEPT ![g] = "EXEC"]
        /\ m_state[g] \in {"INIT", "FREE"}
        /\ m_state[g] = "INIT" => cb_fiber[t] = g
  <2>1. CASE ReuseFiber(t)
    <3>1. PICK g \in Fibers : g = cb_fiber[t]
      BY <2>1 DEF ReuseFiber, IInv, Typed
    <3>2. ~Inside(t, g) BY <1>0 DEF Inside, FiberPcs
    <3>3. m_state[g] = "INIT"
      BY <3>1, <3>2 DEF FibersOK, FiberOK, CbFiberOK
    <3> QED BY <1>1, <2>1, <3>1, <3>3 DEF ReuseFiber
  <2>2. CASE NewFiber(t) BY <1>1, <2>2 DEF NewFiber, SwapIn
  <2> QED BY <2>1, <2>2
<1>3. \A u \in Threads : ~Inside(u, g)
  BY <1>2 DEF FibersOK, FiberOK, InsideOK, Inside, FiberPcs, Left, Ended
<1>4. m_cb[g] = None BY <1>2, <1>3 DEF FibersOK, FiberOK, AtRest
<1>5. OnceFor(c) BY DEF Once
<1>6. c \in submitted /\ Unstarted(c) /\ ~Executes(c) /\ ~Waits(c)
  BY <1>1, <1>5 DEF OnceFor, Unstarted, Executes, Waits, IInv, Typed
<1>7. StatusOf(c) = "queued" BY <1>6, StatusIs
<1>8. InFiber(c)' /\ Executes(c)'
  BY <1>2 DEF InFiber, Executes, IInv, Typed
<1>9. StatusOf(c)' = "running" BY <1>0, <1>6, <1>8, StatusIs
<1>10. ASSUME NEW d \in Callbacks \ {c} PROVE StatusOf(d)' = StatusOf(d)
  <2>1. Unstarted(d)' <=> Unstarted(d)
    <3>1. \A u \in Threads : ft'[u] = d <=> ft[u] = d
      BY <1>0, <1>1 DEF IInv, Typed
    <3> QED BY <1>0, <3>1 DEF Unstarted, Queued
  <2>2. /\ \A f \in Fibers \ {g} : m_cb'[f] = m_cb[f] /\ m_state'[f] = m_state[f]
        /\ m_cb'[g] = c
    BY <1>2 DEF IInv, Typed
  <2> QED BY <1>0, <1>4, <2>1, <2>2, OtherCallbacks
<1> QED BY <1>7, <1>9, <1>10 DEF Moved, Pool!Transitions

\* A callback yields: it is suspended, or queued when its wake-up came first.
LEMMA YieldMoves ==
  ASSUME IInv, IInv', Once, FibersOK, Supported, NEW t \in Threads,
         YieldToHold(t) \/ YieldToReady(t)
  PROVE \E c \in Callbacks : Moved(c)
<1>0. pc[t] \in {"run", "armed"} /\ pc[t] \in FiberPcs
  BY DEF YieldToHold, YieldToReady, FiberPcs
<1>1. PICK g \in Fibers : g = Running(t) /\ Inside(t, g) /\ InsideOK(t, g)
  BY <1>0, InsideKnown
<1>2. m_state[g] = "EXEC" /\ m_cb[g] # None BY <1>0, <1>1 DEF InsideOK
<1>3. PICK c \in Callbacks : c = m_cb[g] BY <1>2 DEF IInv, Typed
<1>4. PICK s \in {"HOLD", "READY"} : m_state' = [m_state EXCEPT ![g] = s]
  BY <1>1, <1>2 DEF YieldToHold, YieldToReady, Yield
<1>5. /\ m_cb' = m_cb /\ ft' = ft /\ m_fibers' = m_fibers /\ wakers' = wakers
      /\ submitted' = submitted
  BY DEF YieldToHold, YieldToReady, Yield
<1>6. \A d \in Callbacks : Unstarted(d)' <=> Unstarted(d)
  BY <1>5, SameUnstarted
<1>7. /\ m_state'[g] # "EXEC"
      /\ \A f \in Fibers \ {g} : m_state'[f] = m_state[f]
  BY <1>4 DEF IInv, Typed
<1>8. /\ c \in submitted /\ InFiber(c) /\ Executes(c)
      /\ \A f \in Fibers \ {g} : m_cb[f] # c
  BY <1>2, <1>3, OnlyIn
<1>9. StatusOf(c) = "running" BY <1>8, StatusIs
<1>10. InFiber(c)' /\ ~Executes(c)'
  BY <1>3, <1>5, <1>7, <1>8 DEF InFiber, Executes
<1>11. StatusOf(c)' \in {"suspended", "queued"}
  BY <1>5, <1>8, <1>10, StatusIs
<1>12. \A d \in Callbacks \ {c} : StatusOf(d)' = StatusOf(d)
  BY <1>3, <1>5, <1>6, <1>7, OtherCallbacks
<1> QED BY <1>9, <1>11, <1>12 DEF Moved, Pool!Transitions

\* A callback returns: it is done.
LEMMA ReturnMoves ==
  ASSUME IInv, IInv', Once, FibersOK, NEW t \in Threads, Return(t)
  PROVE \E c \in Callbacks : Moved(c)
<1>0. pc[t] = "run" /\ pc[t] \in FiberPcs BY DEF Return, FiberPcs
<1>1. PICK g \in Fibers : g = Running(t) /\ Inside(t, g) /\ InsideOK(t, g)
  BY <1>0, InsideKnown
<1>2. m_state[g] = "EXEC" /\ m_cb[g] # None BY <1>0, <1>1 DEF InsideOK
<1>3. PICK c \in Callbacks : c = m_cb[g] BY <1>2 DEF IInv, Typed
<1>4. /\ m_state' = [m_state EXCEPT ![g] = "TERM"]
      /\ m_cb' = [m_cb EXCEPT ![g] = None]
      /\ ft' = ft /\ m_fibers' = m_fibers /\ wakers' = wakers
      /\ submitted' = submitted
  BY <1>1 DEF Return
<1>5. \A d \in Callbacks : Unstarted(d)' <=> Unstarted(d)
  BY <1>4, SameUnstarted
<1>6. /\ m_cb'[g] = None
      /\ \A f \in Fibers \ {g} : m_state'[f] = m_state[f] /\ m_cb'[f] = m_cb[f]
  BY <1>4 DEF IInv, Typed
<1>7. /\ c \in submitted /\ InFiber(c) /\ Executes(c) /\ ~Unstarted(c)
      /\ \A f \in Fibers \ {g} : m_cb[f] # c
  BY <1>2, <1>3, OnlyIn
<1>8. StatusOf(c) = "running" BY <1>7, StatusIs
<1>9. ~InFiber(c)' BY <1>6, <1>7, TasksAssumption DEF InFiber
<1>10. StatusOf(c)' = "done" BY <1>4, <1>5, <1>7, <1>9, StatusIs
<1>11. \A d \in Callbacks \ {c} : StatusOf(d)' = StatusOf(d)
  BY <1>3, <1>4, <1>5, <1>6, TasksAssumption, OtherCallbacks
<1> QED BY <1>8, <1>10, <1>11 DEF Moved, Pool!Transitions

\* The other steps of a thread move no callback.
LEMMA ThreadStill ==
  ASSUME IInv, IInv', FibersOK, ListOK, NoExcept, NEW t \in Threads,
         \/ PickNothing(t) \/ EnterIdle(t) \/ IdleStep(t) \/ IdleBack(t) \/ Exit(t)
         \/ ArmWake(t) \/ SwapOut(t) \/ Back(t) \/ SettleReady(t)
         \/ SettleFiber(t) \/ SettleCallback(t) \/ SettleOther(t) \/ WriteHold(t)
  PROVE Unmoved
<1>0. None \notin Callbacks /\ Fibers \cap Callbacks = {} BY TasksAssumption
<1>1. CASE PickNothing(t) \/ EnterIdle(t) \/ IdleStep(t) \/ IdleBack(t)
           \/ SwapOut(t) \/ Back(t) \/ SettleOther(t)
  <2>1. /\ m_cb' = m_cb /\ m_state' = m_state /\ wakers' = wakers
        /\ submitted' = submitted /\ m_fibers' = m_fibers /\ ft' = ft
    BY <1>1 DEF PickNothing, EnterIdle, IdleStep, IdleBack, SwapOut, Back,
                SettleOther
  <2> QED BY <2>1, SameUnstarted, StillSteps
<1>2. CASE WriteHold(t)
  <2>1. m_cb' = m_cb /\ m_state' = m_state BY <1>2, WriteHoldOK
  <2>2. /\ wakers' = wakers /\ submitted' = submitted /\ m_fibers' = m_fibers
        /\ ft' = [ft EXCEPT ![t] = None] /\ ft[t] \in Fibers \cup {None}
    BY <1>2 DEF WriteHold, IInv, LocalsOK, FiberPcs
  <2>3. \A u \in Threads : ft'[u] = ft[u] \/ {ft[u], ft'[u]} \cap Callbacks = {}
    BY <1>0, <2>2 DEF IInv, Typed
  <2> QED BY <2>1, <2>2, <2>3, SameUnstarted, StillSteps
<1>3. CASE SettleReady(t)
  <2>1. /\ m_cb' = m_cb /\ m_state' = m_state /\ wakers' = wakers
        /\ submitted' = submitted
        /\ ft' = [ft EXCEPT ![t] = None] /\ ft[t] \in Fibers \cup {None}
    BY <1>3 DEF SettleReady, IInv, LocalsOK, FiberPcs
  <2>2. PICK g \in Fibers : g = Running(t)
    BY <1>3, RunningType DEF SettleReady, IInv, FiberPcs
  <2>3. m_fibers' = Append(m_fibers, Entry(g, AnyThread))
    BY <1>3, <2>2 DEF SettleReady
  <2>4. Entry(g, AnyThread) \in Entries /\ Entry(g, AnyThread).task = g
    BY DEF Entry, Entries
  <2>5. \A d \in Callbacks : Queued(d)' <=> Queued(d)
    BY <1>0, <2>3, <2>4, AppendQueued
  <2>6. \A d \in Callbacks : \A u \in Threads : ft'[u] = d <=> ft[u] = d
    BY <1>0, <2>1 DEF IInv, Typed
  <2>7. \A d \in Callbacks : Unstarted(d)' <=> Unstarted(d)
    BY <2>5, <2>6 DEF Unstarted
  <2> QED BY <2>1, <2>7, StillSteps
<1>4. CASE ArmWake(t)
  <2>1. PICK g \in Fibers : g = Running(t) /\ InsideOK(t, g)
    BY <1>4, InsideKnown DEF ArmWake, FiberPcs
  <2>2. m_state[g] = "EXEC" BY <1>4, <2>1 DEF ArmWake, InsideOK
  <2>3. /\ m_cb' = m_cb /\ m_state' = m_state /\ wakers' = wakers \cup {g}
        /\ submitted' = submitted /\ m_fibers' = m_fibers /\ ft' = ft
    BY <1>4, <2>1 DEF ArmWake
  <2>4. ASSUME NEW d \in Callbacks PROVE StatusOf(d)' = StatusOf(d)
    <3>1. /\ InFiber(d)' <=> InFiber(d)
          /\ Executes(d)' <=> Executes(d)
          /\ (Waits(d)' <=> Waits(d)) \/ Executes(d)
      BY <2>2, <2>3 DEF InFiber, Executes, Waits
    <3>2. Unstarted(d)' <=> Unstarted(d) BY <2>3, SameUnstarted
    <3> QED BY <2>3, <3>1, <3>2, StatusSame
  <2> QED BY <2>4 DEF Unmoved
\* The fiber that is reset or freed has no callback any more.
<1>5. ASSUME NEW g \in Fibers, m_cb[g] = None, m_cb'[g] = None,
             \A f \in Fibers \ {g} : m_cb'[f] = m_cb[f] /\ m_state'[f] = m_state[f],
             wakers' = wakers, submitted' = submitted, m_fibers' = m_fibers,
             \A u \in Threads : ft'[u] = ft[u] \/ {ft[u], ft'[u]} \cap Callbacks = {}
      PROVE Unmoved
  BY <1>0, <1>5, SameUnstarted, OtherCallbacks DEF Unmoved
<1>6. CASE SettleFiber(t)
  <2>0. pc[t] = "settle" /\ pc[t] \in FiberPcs BY <1>6 DEF SettleFiber, FiberPcs
  <2>1. PICK g \in Fibers : g = Running(t) /\ Inside(t, g) /\ InsideOK(t, g)
    BY <2>0, InsideKnown
  <2>2. g = ft[t] BY <1>6, <2>1 DEF SettleFiber, Running
  <2>3. m_cb[g] = None
    BY <1>6, <2>0, <2>1, <2>2 DEF SettleFiber, InsideOK, Left, Ended, NoExcept
  <2>4. /\ m_cb'[g] = None
        /\ \A f \in Fibers \ {g} : m_cb'[f] = m_cb[f] /\ m_state'[f] = m_state[f]
    BY <1>6, <2>2, <2>3 DEF SettleFiber, Release, IInv, Typed
  <2>5. /\ wakers' = wakers /\ submitted' = submitted /\ m_fibers' = m_fibers
        /\ \A u \in Threads : ft'[u] = ft[u] \/ {ft[u], ft'[u]} \cap Callbacks = {}
    BY <1>0, <1>6, <2>2 DEF SettleFiber, IInv, Typed
  <2> QED BY <1>5, <2>3, <2>4, <2>5
<1>7. CASE SettleCallback(t)
  <2>0. pc[t] = "settle" /\ pc[t] \in FiberPcs BY <1>7 DEF SettleCallback, FiberPcs
  <2>1. PICK g \in Fibers : g = Running(t) /\ Inside(t, g) /\ InsideOK(t, g)
    BY <2>0, InsideKnown
  <2>2. g = cb_fiber[t] BY <1>7, <2>1 DEF SettleCallback, Running
  <2>3. m_cb[g] = None
    BY <1>7, <2>0, <2>1, <2>2 DEF SettleCallback, InsideOK, Left, Ended, NoExcept
  <2>4. /\ m_cb'[g] = None
        /\ \A f \in Fibers \ {g} : m_cb'[f] = m_cb[f] /\ m_state'[f] = m_state[f]
        /\ wakers' = wakers /\ submitted' = submitted /\ m_fibers' = m_fibers
        /\ ft' = ft
    BY <1>7, <2>2 DEF SettleCallback, IInv, Typed
  <2> QED BY <1>5, <2>3, <2>4
<1>8. CASE Exit(t)
  <2>1. CASE cb_fiber[t] = None
    <3>1. /\ m_cb' = m_cb /\ m_state' = m_state /\ wakers' = wakers
          /\ submitted' = submitted /\ m_fibers' = m_fibers /\ ft' = ft
      BY <1>8, <2>1 DEF Exit
    <3> QED BY <3>1, SameUnstarted, StillSteps
  <2>2. CASE cb_fiber[t] # None
    <3>1. PICK g \in Fibers : g = cb_fiber[t] BY <2>2 DEF IInv, Typed
    <3>2. ~Inside(t, g) BY <1>8 DEF Exit, Inside, FiberPcs
    <3>3. m_state[g] = "INIT" BY <3>1, <3>2 DEF FibersOK, FiberOK, CbFiberOK
    <3>4. \A u \in Threads : ~Inside(u, g)
      BY <3>3 DEF FibersOK, FiberOK, InsideOK, Inside, FiberPcs, Left, Ended
    <3>5. m_cb[g] = None
      BY <3>1, <3>3, <3>4 DEF FibersOK, FiberOK, AtRest
    <3>6. /\ m_cb'[g] = None
          /\ \A f \in Fibers \ {g} : m_cb'[f] = m_cb[f] /\ m_state'[f] = m_state[f]
      BY <1>8, <2>2, <3>1, <3>5 DEF Exit, Release, IInv, Typed
    <3>7. wakers' = wakers /\ submitted' = submitted /\ m_fibers' = m_fibers /\ ft' = ft
      BY <1>8 DEF Exit
    <3> QED BY <1>5, <3>5, <3>6, <3>7
  <2> QED BY <2>1, <2>2
<1> QED BY <1>1, <1>2, <1>3, <1>4, <1>6, <1>7, <1>8

\* Once stop() has returned no thread, no wake-up and no schedule() is left.
LEMMA DoneMeansOver ==
  ASSUME IInv, StopOK, mpc = "done"
  PROVE /\ Quiet
        /\ \A t \in Threads : pc[t] \in {"off", "exited"}
        /\ \A t \in Threads : ~ThreadStep(t)
        /\ ~Start /\ ~StopStep
        /\ \A c \in Callbacks : ~Submit(c)
        /\ \A f \in Fibers : ~Wake(f)
<1>1. \A t \in Threads : pc[t] \in {"off", "exited"}
  BY DEF StopOK, Threads
<1>2. Quiet
  <2>1. CASE UseCaller BY <2>1 DEF StopOK
  <2>2. CASE ~UseCaller
    <3>1. PICK t \in Workers : TRUE BY <2>2, ThreadsAssumption DEF Threads
    <3> QED BY <3>1, ThreadsFinite DEF StopOK
  <2> QED BY <2>1, <2>2
<1>3. \A t \in Threads : ~ThreadStep(t) BY <1>1, IdleTermSteps
<1>4. /\ ~Start /\ ~StopStep /\ \A c \in Callbacks : ~Submit(c)
  BY DEF Start, StopStep, StopBegin, StopFlag, StopCallRoot, StopSkipRoot,
         RootReturn, Join, Submit
<1>5. \A f \in Fibers : ~Wake(f) BY <1>1 DEF Wake
<1> QED BY <1>1, <1>2, <1>3, <1>4, <1>5

\* When stop() returns, every callback is done, was never scheduled, or waits for
\* a wake-up.
LEMMA JoinCloses ==
  ASSUME IInv, FibersOK, StopOK, Join
  PROVE Pool!Close
<1>1. \A t \in Threads : pc[t] \in {"off", "exited"}
  BY DEF StopOK, Threads, Join
<1>2. Quiet
  <2>1. CASE UseCaller BY <2>1 DEF StopOK, Join
  <2>2. CASE ~UseCaller
    <3>1. PICK t \in Workers : TRUE BY <2>2, ThreadsAssumption DEF Threads
    <3> QED BY <3>1, ThreadsFinite DEF StopOK, Join
  <2> QED BY <2>1, <2>2
<1>3. Len(m_fibers) = 0 BY <1>2, EmptySeq DEF Quiet
<1>4. \A x : ~Queued(x) BY <1>3 DEF Queued
<1>5. \A t \in Threads : ft[t] = None
  BY <1>1 DEF IInv, LocalsOK, FiberPcs
<1>6. ASSUME NEW c \in Callbacks PROVE StatusOf(c) \notin {"queued", "running"}
  <2>1. ~Unstarted(c) BY <1>4, <1>5, TasksAssumption DEF Unstarted
  <2>2. ASSUME NEW g \in Fibers, m_cb[g] = c
        PROVE m_state[g] # "EXEC" /\ g \in wakers
    <3>1. \A t \in Threads : ~Inside(t, g) /\ ~Taken(t, g)
      BY <1>1 DEF Inside, Taken, FiberPcs
    <3>2. AtRest(g) BY <3>1 DEF FibersOK, FiberOK
    <3> QED BY <1>4, <2>2, <3>1, <3>2, TasksAssumption DEF AtRest, Awaited
  <2>3. ~Executes(c) /\ (InFiber(c) => Waits(c))
    BY <2>2 DEF Executes, InFiber, Waits
  <2> QED BY <2>1, <2>3, StatusIs
<1>7. Unmoved
  <2>1. /\ m_cb' = m_cb /\ m_state' = m_state /\ wakers' = wakers
        /\ submitted' = submitted /\ m_fibers' = m_fibers /\ ft' = ft
    BY DEF Join
  <2> QED BY <2>1, SameUnstarted, StillSteps
<1>8. mpc = "join" /\ mpc' = "done" BY DEF Join
<1> QED BY <1>6, <1>7, <1>8 DEF Pool!Close, Unmoved

\* Every step of a thread moves one callback along its life, or none.
LEMMA ThreadMovesPool ==
  ASSUME IInv, IInv', Once, FibersOK, ListOK, Supported, NoThrow, NoExcept,
         fault = "none", fault' = "none", NEW t \in Threads, ThreadStep(t)
  PROVE Unmoved \/ \E c \in Callbacks : Moved(c)
<1>1. CASE PickTask(t) BY <1>1, PickStill
<1>2. CASE DispatchFiber(t) BY <1>2, DispatchMoves
<1>3. CASE DropFinished(t) BY <1>3, NeverDrops
<1>4. CASE ReuseFiber(t) \/ NewFiber(t) BY <1>4, StartMoves
<1>5. ASSUME NEW c \in Callbacks, ScheduleFrom(t, c) PROVE Moved(c)
  BY <1>5, EnqueueMoves DEF ScheduleFrom
<1>6. CASE YieldToHold(t) \/ YieldToReady(t) BY <1>6, YieldMoves
<1>7. CASE Return(t) BY <1>7, ReturnMoves
<1>8. CASE Throw(t)
  <2>1. PICK g \in Fibers : g = Running(t) /\ InsideOK(t, g)
    BY <1>8, InsideKnown DEF Throw, FiberPcs
  <2>2. m_cb[g] \in Callbacks BY <1>8, <2>1 DEF Throw, InsideOK, IInv, Typed
  <2>3. "throw" \in Ops[m_cb[g]] BY <1>8, <2>1, <2>2, TasksAssumption DEF Throw, May
  <2> QED BY <2>2, <2>3 DEF NoThrow
<1>9. CASE \/ PickNothing(t) \/ EnterIdle(t) \/ IdleStep(t) \/ IdleBack(t) \/ Exit(t)
           \/ ArmWake(t) \/ SwapOut(t) \/ Back(t) \/ SettleReady(t)
           \/ SettleFiber(t) \/ SettleCallback(t) \/ SettleOther(t) \/ WriteHold(t)
  BY <1>9, ThreadStill
<1> QED
  BY <1>1, <1>2, <1>3, <1>4, <1>5, <1>6, <1>7, <1>8, <1>9 DEF ThreadStep

LEMMA PoolStep ==
  ASSUME IInv, IInv', Once, SoundInv, Supported, NoThrow, NoExcept, NoFault, NoFault',
         [Next]_vars
  PROVE [Pool!PoolNext]_(Pool!pvars)
<1>0. /\ FibersOK /\ ListOK /\ StopOK /\ fault = "none" /\ fault' = "none"
  BY DEF SoundInv, NoFault
<1>1. ASSUME Unmoved, mpc' = "done" <=> mpc = "done" PROVE UNCHANGED Pool!pvars
  BY <1>1 DEF Unmoved, Pool!pvars
<1>2. ASSUME NEW c \in Callbacks, Moved(c), mpc # "done", mpc' = mpc
      PROVE Pool!Advance(c)
  <2>1. \E s \in Pool!Statuses :
          /\ <<StatusOf(c), s>> \in Pool!Transitions
          /\ \A d \in Callbacks : StatusOf(d)' = IF d = c THEN s ELSE StatusOf(d)
    BY <1>2, StatusIs DEF Moved, Pool!Statuses
  <2> QED BY <1>2, <2>1 DEF Pool!Advance
<1>3. CASE UNCHANGED vars \/ Halted
  <2>1. /\ m_cb' = m_cb /\ m_state' = m_state /\ wakers' = wakers /\ mpc' = mpc
        /\ submitted' = submitted /\ m_fibers' = m_fibers /\ ft' = ft
    BY <1>3 DEF vars, Halted
  <2> QED BY <1>1, <2>1, SameUnstarted, StillSteps
<1>4. CASE Start \/ StopBegin \/ StopFlag \/ StopCallRoot \/ StopSkipRoot \/ RootReturn
  <2>1. /\ m_cb' = m_cb /\ m_state' = m_state /\ wakers' = wakers
        /\ submitted' = submitted /\ m_fibers' = m_fibers /\ ft' = ft
        /\ mpc # "done" /\ mpc' # "done"
    BY <1>4 DEF Start, StopBegin, StopFlag, StopCallRoot, StopSkipRoot, RootReturn
  <2> QED BY <1>1, <2>1, SameUnstarted, StillSteps
<1>5. CASE Join BY <1>0, <1>5, JoinCloses DEF Pool!PoolNext
<1>6. ASSUME NEW c \in Callbacks, Submit(c) PROVE Pool!PoolNext
  <2>1. Moved(c) BY <1>0, <1>6, EnqueueMoves DEF Submit
  <2>2. mpc # "done" /\ mpc' = mpc BY <1>6 DEF Submit
  <2> QED BY <1>2, <2>1, <2>2 DEF Pool!PoolNext
<1>7. ASSUME NEW f \in Fibers, Wake(f) PROVE [Pool!PoolNext]_(Pool!pvars)
  <2>1. mpc # "done" /\ mpc' = mpc BY <1>0, <1>7, DoneMeansOver DEF Wake
  <2>2. Unmoved \/ \E c \in Callbacks : Moved(c) BY <1>0, <1>7, WakeMoves
  <2> QED BY <1>1, <1>2, <2>1, <2>2 DEF Pool!PoolNext
<1>8. ASSUME NEW t \in Threads, ThreadStep(t) PROVE [Pool!PoolNext]_(Pool!pvars)
  <2>1. mpc # "done" /\ mpc' = mpc
    BY <1>0, <1>8, DoneMeansOver, IdleTermSteps
  <2>2. Unmoved \/ \E c \in Callbacks : Moved(c) BY <1>0, <1>8, ThreadMovesPool
  <2> QED BY <1>1, <1>2, <2>1, <2>2 DEF Pool!PoolNext
<1> QED BY <1>3, <1>4, <1>5, <1>6, <1>7, <1>8 DEF Next, StopStep

\* The scheduler keeps the promise of TaskPool: every callback lives its life
\* once, and stop() returns only when nothing is queued and nothing runs.
THEOREM SchedulerImplementsPool == Supported /\ NoThrow => (Spec => ImplementsPool)
<1> SUFFICES ASSUME Supported, NoThrow PROVE Spec => ImplementsPool OBVIOUS
<1>1. Init => Pool!PoolInit
  <2> SUFFICES ASSUME Init PROVE Pool!PoolInit OBVIOUS
  <2>1. \A c \in Callbacks : StatusOf(c) = "new" BY StatusIs DEF Init
  <2> QED BY <2>1 DEF Pool!PoolInit, Init
<1>2. IInv /\ IInv' /\ Once /\ SoundInv /\ NoExcept /\ NoFault /\ NoFault'
        /\ [Next]_vars => [Pool!PoolNext]_(Pool!pvars)
  BY PoolStep
<1> QED
  BY <1>1, <1>2, IInvAlways, OnceAlways, SoundAlways, SafeAlways, PTL
  DEF Spec, ImplementsPool, Pool!PoolSpec
=============================================================================
