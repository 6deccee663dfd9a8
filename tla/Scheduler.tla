----------------------------- MODULE Scheduler -----------------------------
(***************************************************************************)
(* megalo::Scheduler and megalo::Fiber (scheduler.h/.cc, fiber.h/.cc): the *)
(* N:M scheduler.  Threads share the list m_fibers of callbacks and        *)
(* fibers; each runs Scheduler::run(), which takes an entry, switches into *)
(* the fiber that executes it and, when the fiber switches back, decides   *)
(* from the fiber's m_state what to do with it.                            *)
(*                                                                         *)
(* m_mutex protects m_fibers only.  The counters are atomic.  m_state is a *)
(* plain field that the thread running a fiber, the thread it came back to *)
(* and every thread that scans the list read and write without the lock,   *)
(* so each of those accesses is a step of its own.  An assertion that      *)
(* fails ends the process: the model records which one in `fault`.         *)
(***************************************************************************)
EXTENDS Integers, Sequences, FiniteSets

CONSTANTS
  Workers,     \* the threads start() creates, m_threadCount of them
  Root,        \* the thread that constructs, starts and stops the scheduler
  UseCaller,   \* the constructor's use_caller
  Callbacks,   \* the std::function<void()> handed to schedule()
  AsFiber,     \* those handed over wrapped in a Fiber the user created
  Fibers,      \* the Fiber objects that can exist at the same time
  Pin,         \* Pin[c]: the `thread` argument c is scheduled with
  AnyThread,   \* the default of that argument, -1
  Ops,         \* Ops[c]: what c's code may do besides returning
  MaxQueue,    \* bound: callbacks do not yield READY on a longer list
  None         \* a null pointer

Threads == IF UseCaller THEN Workers \cup {Root} ELSE Workers

OpNames == {"schedule", "hold", "ready", "throw"}

ASSUME ThreadsAssumption ==
  /\ UseCaller \in BOOLEAN
  /\ IsFiniteSet(Workers)
  /\ Root \notin Workers
  /\ Threads # {}
  /\ AnyThread \notin Threads

ASSUME TasksAssumption ==
  /\ Fibers \cap Callbacks = {}
  /\ None \notin Fibers \cup Callbacks
  /\ AsFiber \subseteq Callbacks
  /\ Pin \in [Callbacks -> Threads \cup {AnyThread}]
  /\ Ops \in [Callbacks -> SUBSET OpNames]
  /\ MaxQueue \in Nat

VARIABLES
  m_fibers,             \* the list of FiberAndThread
  m_activeThreadCount,
  m_idleThreadCount,
  m_stopping,
  m_autoStop,
  m_state,              \* Fiber::m_state, "FREE" for an object not allocated
  m_cb,                 \* Fiber::m_cb
  ctx,                  \* Fiber::m_ctx: what a swapcontext into it would do
  pc,                   \* where each thread is in run()
  ft,                   \* run()'s local `ft`
  cb_fiber,             \* run()'s local `cb_fiber`
  idleTerm,             \* run()'s idle_fiber has reached TERM
  mpc,                  \* where the owner of the scheduler is
  wakers,               \* fibers that a timer, event or peer will schedule()
  submitted,            \* callbacks handed to schedule()
  fault                 \* the assertion that ended the process, or "none"

fiberVars == <<m_state, m_cb, ctx>>
localVars == <<ft, cb_fiber, idleTerm>>
countVars == <<m_activeThreadCount, m_idleThreadCount>>
stopVars == <<m_stopping, m_autoStop, mpc>>
vars == <<m_fibers, fiberVars, localVars, countVars, stopVars, pc,
          wakers, submitted, fault>>

FiberStates == {"FREE", "INIT", "HOLD", "EXEC", "TERM", "READY", "EXCEPT"}

\* "entry": made by makecontext; "live": a thread is on this stack and the
\* saved registers are old; "saved": swapcontext has stored it; "over":
\* MainFunc has left it for the last time.
Contexts == {"entry", "live", "saved", "over"}

\* scan: before the locked scan; dispatch: an entry was taken; run: inside the
\* callback; armed: inside it, its wake-up is arranged and YieldToHold is next;
\* out, fin: m_state is set, the context is not switched yet; back: switched,
\* active not yet decremented; settle: before run() looks at m_state;
\* writeHold: before run() writes HOLD; noTask, idle, idleBack: the idle part.
ActivePcs == {"dispatch", "run", "armed", "out", "fin", "back"}
IdlePcs == {"idle", "idleBack"}
Pcs == {"off", "scan", "settle", "writeHold", "noTask", "exited"}
         \cup ActivePcs \cup IdlePcs

Faults == {"none", "swapIn", "yield", "reset", "dtor",
           "staleContext", "neverReach"}

Entries == [task : Fibers \cup Callbacks, thread : Threads \cup {AnyThread}]

----------------------------------------------------------------------------
\* The list.

Entry(x, thr) == [task |-> x, thread |-> thr]

\* Mutant: the entry is copied but not erased.
WithoutErase(q, i) == q

Without(q, i) ==
  [j \in 1 .. Len(q) - 1 |-> IF j < i THEN q[j] ELSE q[j + 1]]

Queued(x) == \E i \in 1 .. Len(m_fibers) : m_fibers[i].task = x

\* Mutant: the scan forgets the thread test.
EligibleAnyThread(t, e) ==
  ~ (e.task \in Fibers /\ m_state[e.task] = "EXEC")

\* Which entry the scan of run() accepts on thread t.
Eligible(t, e) ==
  /\ e.thread \in {AnyThread, t}
  /\ ~ (e.task \in Fibers /\ m_state[e.task] = "EXEC")

\* Mutants: stopping() forgets the queue, or the active threads.
StoppingIgnoresQueue == m_autoStop /\ m_stopping /\ m_activeThreadCount = 0

StoppingIgnoresActive == m_autoStop /\ m_stopping /\ m_fibers = << >>

Stopping ==
  m_autoStop /\ m_stopping /\ m_fibers = << >> /\ m_activeThreadCount = 0

----------------------------------------------------------------------------
\* Fibers.

\* The fiber thread t executes, or has just come back from: run() clears ft
\* before it switches into cb_fiber.
Running(t) == IF ft[t] # None THEN ft[t] ELSE cb_fiber[t]

\* The states in which Fiber::reset and ~Fiber accept a fiber.
Finished(s) == s \in {"INIT", "TERM"}

\* Shared pointers to f outside thread t: the list, pending wake-ups, other
\* threads, and f's own stack (YieldToHold and MainFunc keep `cur` there).
HeldElsewhere(t, f) ==
  \/ Queued(f)
  \/ f \in wakers
  \/ \E u \in Threads \ {t} : f \in {ft[u], cb_fiber[u]}
  \/ ctx[f] \in {"live", "saved"}

\* ~Fiber, when thread t has dropped its pointers to f; st and cbs are the
\* states and callbacks at that moment.  mine: t still has a pointer to f.
Release(t, f, st, cbs, mine) ==
  LET last == ~mine /\ ~HeldElsewhere(t, f)
      free == last /\ Finished(st[f])
  IN /\ m_state' = [st EXCEPT ![f] = IF free THEN "FREE" ELSE @]
     /\ m_cb' = [cbs EXCEPT ![f] = IF free THEN None ELSE @]
     /\ ctx' = [ctx EXCEPT ![f] = IF free THEN "entry" ELSE @]
     /\ fault' = IF last /\ ~free THEN "dtor" ELSE fault

\* Fiber::swapIn (and the switch it makes) into f by thread t, the fiber
\* states being st.  Switching into a context that is still live resumes
\* stale registers on a stack in use: undefined, so the model stops there.
SwapIn(t, f, st) ==
  LET bad == CASE st[f] = "EXEC"     -> "swapIn"
               [] ctx[f] = "live"    -> "staleContext"
               [] ctx[f] = "over"    -> "neverReach"
               [] OTHER              -> "none"
  IN /\ fault' = bad
     /\ m_state' = [st EXCEPT ![f] = "EXEC"]
     /\ ctx' = [ctx EXCEPT ![f] = "live"]
     /\ pc' = [pc EXCEPT ![t] = "run"]

\* What is wrong with calling Fiber::reset on f: its assertion, or a stack that
\* a thread has not left yet.
ResetFault(f) ==
  CASE ~Finished(m_state[f]) -> "reset"
    [] ctx[f] = "live"       -> "staleContext"
    [] OTHER                 -> "none"

\* What schedule(c, Pin[c]) appends: c itself, or a new fiber for it.  The
\* id of a worker is known only once start() has created it.
Enqueue(c) ==
  /\ c \notin submitted
  /\ Pin[c] \in Workers => pc[Pin[c]] # "off"
  /\ submitted' = submitted \cup {c}
  /\ \/ /\ c \notin AsFiber
        /\ m_fibers' = Append(m_fibers, Entry(c, Pin[c]))
        /\ UNCHANGED fiberVars
     \/ /\ c \in AsFiber
        /\ \E f \in Fibers :
             /\ m_state[f] = "FREE"
             /\ m_state' = [m_state EXCEPT ![f] = "INIT"]
             /\ m_cb' = [m_cb EXCEPT ![f] = c]
             /\ ctx' = [ctx EXCEPT ![f] = "entry"]
             /\ m_fibers' = Append(m_fibers, Entry(f, Pin[c]))

----------------------------------------------------------------------------
\* The owner: schedule(), start() and stop().

Init ==
  /\ m_fibers = << >>
  /\ m_activeThreadCount = 0
  /\ m_idleThreadCount = 0
  /\ m_stopping = TRUE
  /\ m_autoStop = FALSE
  /\ m_state = [f \in Fibers |-> "FREE"]
  /\ m_cb = [f \in Fibers |-> None]
  /\ ctx = [f \in Fibers |-> "entry"]
  /\ pc = [t \in Threads |-> "off"]
  /\ ft = [t \in Threads |-> None]
  /\ cb_fiber = [t \in Threads |-> None]
  /\ idleTerm = [t \in Threads |-> FALSE]
  /\ mpc = "new"
  /\ wakers = {}
  /\ submitted = {}
  /\ fault = "none"

Submit(c) ==
  /\ mpc \in {"new", "started"}
  /\ Enqueue(c)
  /\ UNCHANGED <<localVars, countVars, stopVars, pc, wakers, fault>>

Start ==
  /\ mpc = "new"
  /\ m_stopping' = FALSE
  /\ pc' = [t \in Threads |-> IF t \in Workers THEN "scan" ELSE pc[t]]
  /\ mpc' = "started"
  /\ UNCHANGED <<m_fibers, fiberVars, localVars, countVars, m_autoStop,
                 wakers, submitted, fault>>

StopBegin ==
  /\ mpc = "started"
  /\ m_autoStop' = TRUE
  /\ mpc' = "stopping"
  /\ UNCHANGED <<m_fibers, fiberVars, localVars, countVars, m_stopping, pc,
                 wakers, submitted, fault>>

StopFlag ==
  /\ mpc = "stopping"
  /\ m_stopping' = TRUE
  /\ mpc' = "flagged"
  /\ UNCHANGED <<m_fibers, fiberVars, localVars, countVars, m_autoStop, pc,
                 wakers, submitted, fault>>

\* if(!stopping()) m_rootFiber->call(): the owner becomes a scheduling thread.
StopCallRoot ==
  /\ mpc = "flagged"
  /\ UseCaller
  /\ ~Stopping
  /\ pc' = [pc EXCEPT ![Root] = "scan"]
  /\ mpc' = "rooted"
  /\ UNCHANGED <<m_fibers, fiberVars, localVars, countVars, m_stopping,
                 m_autoStop, wakers, submitted, fault>>

StopSkipRoot ==
  /\ mpc = "flagged"
  /\ UseCaller => Stopping
  /\ mpc' = "join"
  /\ UNCHANGED <<m_fibers, fiberVars, localVars, countVars, m_stopping,
                 m_autoStop, pc, wakers, submitted, fault>>

RootReturn ==
  /\ mpc = "rooted"
  /\ pc[Root] = "exited"
  /\ mpc' = "join"
  /\ UNCHANGED <<m_fibers, fiberVars, localVars, countVars, m_stopping,
                 m_autoStop, pc, wakers, submitted, fault>>

Join ==
  /\ mpc = "join"
  /\ \A t \in Workers : pc[t] = "exited"
  /\ mpc' = "done"
  /\ UNCHANGED <<m_fibers, fiberVars, localVars, countVars, m_stopping,
                 m_autoStop, pc, wakers, submitted, fault>>

\* schedule(f) on a waiting fiber: by the owner, by another callback, or from
\* an idle() that found its timer expired or its descriptor ready.
Wake(f) ==
  /\ f \in wakers
  /\ \/ mpc = "started"
     \/ \E t \in Threads : pc[t] = "idle"
     \/ \E t \in Threads : pc[t] = "run" /\ Running(t) # f
  /\ wakers' = wakers \ {f}
  /\ m_fibers' = Append(m_fibers, Entry(f, AnyThread))
  /\ UNCHANGED <<fiberVars, localVars, countVars, stopVars, pc, submitted,
                 fault>>

----------------------------------------------------------------------------
\* run() on thread t: the scan and the idle part.

\* The locked scan takes the first acceptable entry.
PickTask(t) ==
  /\ pc[t] = "scan"
  /\ \E i \in 1 .. Len(m_fibers) :
       /\ Eligible(t, m_fibers[i])
       /\ \A j \in 1 .. i - 1 : ~Eligible(t, m_fibers[j])
       /\ ft' = [ft EXCEPT ![t] = m_fibers[i].task]
       /\ m_fibers' = Without(m_fibers, i)
  /\ m_activeThreadCount' = m_activeThreadCount + 1
  /\ pc' = [pc EXCEPT ![t] = "dispatch"]
  /\ UNCHANGED <<fiberVars, cb_fiber, idleTerm, m_idleThreadCount, stopVars,
                 wakers, submitted, fault>>

PickNothing(t) ==
  /\ pc[t] = "scan"
  /\ \A i \in 1 .. Len(m_fibers) : ~Eligible(t, m_fibers[i])
  /\ pc' = [pc EXCEPT ![t] = "noTask"]
  /\ UNCHANGED <<m_fibers, fiberVars, localVars, countVars, stopVars, wakers,
                 submitted, fault>>

EnterIdle(t) ==
  /\ pc[t] = "noTask"
  /\ ~idleTerm[t]
  /\ m_idleThreadCount' = m_idleThreadCount + 1
  /\ pc' = [pc EXCEPT ![t] = "idle"]
  /\ UNCHANGED <<m_fibers, fiberVars, localVars, m_activeThreadCount,
                 stopVars, wakers, submitted, fault>>

\* Scheduler::idle(): one turn of its loop, or its end.
IdleStep(t) ==
  /\ pc[t] = "idle"
  /\ idleTerm' = [idleTerm EXCEPT ![t] = Stopping]
  /\ pc' = [pc EXCEPT ![t] = "idleBack"]
  /\ UNCHANGED <<m_fibers, fiberVars, ft, cb_fiber, countVars, stopVars,
                 wakers, submitted, fault>>

\* Mutant: m_idleThreadCount is not decremented.
IdleBackLeak(t) ==
  /\ pc[t] = "idleBack"
  /\ pc' = [pc EXCEPT ![t] = "scan"]
  /\ UNCHANGED <<m_fibers, fiberVars, localVars, countVars, stopVars, wakers,
                 submitted, fault>>

IdleBack(t) ==
  /\ pc[t] = "idleBack"
  /\ m_idleThreadCount' = m_idleThreadCount - 1
  /\ pc' = [pc EXCEPT ![t] = "scan"]
  /\ UNCHANGED <<m_fibers, fiberVars, localVars, m_activeThreadCount,
                 stopVars, wakers, submitted, fault>>

\* idle_fiber is TERM: run() breaks out and destroys its cb_fiber.
Exit(t) ==
  /\ pc[t] = "noTask"
  /\ idleTerm[t]
  /\ pc' = [pc EXCEPT ![t] = "exited"]
  /\ cb_fiber' = [cb_fiber EXCEPT ![t] = None]
  /\ \/ /\ cb_fiber[t] = None
        /\ UNCHANGED <<fiberVars, fault>>
     \/ /\ cb_fiber[t] # None
        /\ Release(t, cb_fiber[t], m_state, m_cb, FALSE)
  /\ UNCHANGED <<m_fibers, ft, idleTerm, countVars, stopVars, wakers,
                 submitted>>

----------------------------------------------------------------------------
\* run() on thread t: dispatching the entry it took.

DispatchFiber(t) ==
  /\ pc[t] = "dispatch"
  /\ ft[t] \in Fibers
  /\ m_state[ft[t]] \notin {"TERM", "EXCEPT"}
  /\ SwapIn(t, ft[t], m_state)
  /\ UNCHANGED <<m_fibers, m_cb, localVars, countVars, stopVars, wakers,
                 submitted>>

\* The list held a fiber that has finished meanwhile: count down and go on.
DropFinished(t) ==
  /\ pc[t] = "dispatch"
  /\ ft[t] \in Fibers
  /\ m_state[ft[t]] \in {"TERM", "EXCEPT"}
  /\ m_activeThreadCount' = m_activeThreadCount - 1
  /\ ft' = [ft EXCEPT ![t] = None]
  /\ pc' = [pc EXCEPT ![t] = "scan"]
  /\ Release(t, ft[t], m_state, m_cb, ft[t] = cb_fiber[t])
  /\ UNCHANGED <<m_fibers, cb_fiber, idleTerm, m_idleThreadCount, stopVars,
                 wakers, submitted>>

\* A callback, and the thread has a fiber left from an earlier one.
ReuseFiber(t) ==
  LET f == cb_fiber[t] IN
  /\ pc[t] = "dispatch"
  /\ ft[t] \in Callbacks
  /\ f # None
  /\ ft' = [ft EXCEPT ![t] = None]
  /\ fault' = ResetFault(f)
  /\ m_cb' = [m_cb EXCEPT ![f] = ft[t]]
  /\ m_state' = [m_state EXCEPT ![f] = "EXEC"]
  /\ ctx' = [ctx EXCEPT ![f] = "live"]
  /\ pc' = [pc EXCEPT ![t] = "run"]
  /\ UNCHANGED <<m_fibers, cb_fiber, idleTerm, countVars, stopVars, wakers,
                 submitted>>

\* A callback, and a new fiber for it.
NewFiber(t) ==
  /\ pc[t] = "dispatch"
  /\ ft[t] \in Callbacks
  /\ cb_fiber[t] = None
  /\ \E f \in Fibers :
       /\ m_state[f] = "FREE"
       /\ cb_fiber' = [cb_fiber EXCEPT ![t] = f]
       /\ m_cb' = [m_cb EXCEPT ![f] = ft[t]]
       /\ SwapIn(t, f, m_state)
  /\ ft' = [ft EXCEPT ![t] = None]
  /\ UNCHANGED <<m_fibers, idleTerm, countVars, stopVars, wakers, submitted>>

----------------------------------------------------------------------------
\* The callback that thread t executes.

\* A fiber that was reset(nullptr) while still listed runs an empty function,
\* which throws std::bad_function_call.
May(t, op) ==
  LET c == m_cb[Running(t)] IN
  IF c = None THEN op = "throw" ELSE op \in Ops[c]

ScheduleFrom(t, c) ==
  /\ pc[t] = "run"
  /\ May(t, "schedule")
  /\ Enqueue(c)
  /\ UNCHANGED <<localVars, countVars, stopVars, pc, wakers, fault>>

\* It hands Fiber::GetThis() to whatever will wake it; YieldToHold comes next.
ArmWake(t) ==
  /\ pc[t] = "run"
  /\ May(t, "hold")
  /\ wakers' = wakers \cup {Running(t)}
  /\ pc' = [pc EXCEPT ![t] = "armed"]
  /\ UNCHANGED <<m_fibers, fiberVars, localVars, countVars, stopVars,
                 submitted, fault>>

\* Fiber::YieldToHold and YieldToReady up to the context switch.
Yield(t, s) ==
  LET f == Running(t) IN
  /\ \/ /\ m_state[f] = "EXEC"
        /\ m_state' = [m_state EXCEPT ![f] = s]
        /\ pc' = [pc EXCEPT ![t] = "out"]
        /\ UNCHANGED fault
     \/ /\ m_state[f] # "EXEC"
        /\ fault' = "yield"
        /\ UNCHANGED <<m_state, pc>>
  /\ UNCHANGED <<m_fibers, m_cb, ctx, localVars, countVars, stopVars, wakers,
                 submitted>>

YieldToHold(t) == pc[t] = "armed" /\ Yield(t, "HOLD")

YieldToReady(t) ==
  /\ pc[t] = "run"
  /\ May(t, "ready")
  /\ Len(m_fibers) < MaxQueue
  /\ Yield(t, "READY")

\* Mutant: MainFunc forgets m_state = TERM.
ReturnNoTerm(t) ==
  /\ pc[t] = "run"
  /\ m_cb[Running(t)] # None
  /\ m_cb' = [m_cb EXCEPT ![Running(t)] = None]
  /\ pc' = [pc EXCEPT ![t] = "fin"]
  /\ UNCHANGED <<m_fibers, m_state, ctx, localVars, countVars, stopVars,
                 wakers, submitted, fault>>

\* MainFunc: the callback returns.
Return(t) ==
  LET f == Running(t) IN
  /\ pc[t] = "run"
  /\ m_cb[f] # None
  /\ m_cb' = [m_cb EXCEPT ![f] = None]
  /\ m_state' = [m_state EXCEPT ![f] = "TERM"]
  /\ pc' = [pc EXCEPT ![t] = "fin"]
  /\ UNCHANGED <<m_fibers, ctx, localVars, countVars, stopVars, wakers,
                 submitted, fault>>

\* MainFunc: the callback throws; m_cb is kept.
Throw(t) ==
  /\ pc[t] = "run"
  /\ May(t, "throw")
  /\ m_state' = [m_state EXCEPT ![Running(t)] = "EXCEPT"]
  /\ pc' = [pc EXCEPT ![t] = "fin"]
  /\ UNCHANGED <<m_fibers, m_cb, ctx, localVars, countVars, stopVars, wakers,
                 submitted, fault>>

\* Fiber::swapOut: swapcontext stores the registers and run() continues.
SwapOut(t) ==
  /\ pc[t] \in {"out", "fin"}
  /\ ctx' = [ctx EXCEPT ![Running(t)] =
               IF pc[t] = "fin" THEN "over" ELSE "saved"]
  /\ pc' = [pc EXCEPT ![t] = "back"]
  /\ UNCHANGED <<m_fibers, m_state, m_cb, localVars, countVars, stopVars,
                 wakers, submitted, fault>>

----------------------------------------------------------------------------
\* run() on thread t: after the fiber has switched back.

\* Mutant: m_activeThreadCount is not decremented.
BackLeak(t) ==
  /\ pc[t] = "back"
  /\ pc' = [pc EXCEPT ![t] = "settle"]
  /\ UNCHANGED <<m_fibers, fiberVars, localVars, countVars, stopVars, wakers,
                 submitted, fault>>

Back(t) ==
  /\ pc[t] = "back"
  /\ m_activeThreadCount' = m_activeThreadCount - 1
  /\ pc' = [pc EXCEPT ![t] = "settle"]
  /\ UNCHANGED <<m_fibers, fiberVars, localVars, m_idleThreadCount, stopVars,
                 wakers, submitted, fault>>

\* READY: schedule(fiber), with no thread; a cb_fiber stays in cb_fiber.
SettleReady(t) ==
  /\ pc[t] = "settle"
  /\ m_state[Running(t)] = "READY"
  /\ m_fibers' = Append(m_fibers, Entry(Running(t), AnyThread))
  /\ ft' = [ft EXCEPT ![t] = None]
  /\ pc' = [pc EXCEPT ![t] = "scan"]
  /\ UNCHANGED <<fiberVars, cb_fiber, idleTerm, countVars, stopVars, wakers,
                 submitted, fault>>

\* TERM or EXCEPT of a fiber from the list: drop the pointer.
SettleFiber(t) ==
  /\ pc[t] = "settle"
  /\ ft[t] # None
  /\ m_state[ft[t]] \in {"TERM", "EXCEPT"}
  /\ ft' = [ft EXCEPT ![t] = None]
  /\ pc' = [pc EXCEPT ![t] = "scan"]
  /\ Release(t, ft[t], m_state, m_cb, ft[t] = cb_fiber[t])
  /\ UNCHANGED <<m_fibers, cb_fiber, idleTerm, countVars, stopVars, wakers,
                 submitted>>

\* TERM or EXCEPT of cb_fiber: cb_fiber->reset(nullptr).
SettleCallback(t) ==
  LET f == cb_fiber[t] IN
  /\ pc[t] = "settle"
  /\ ft[t] = None
  /\ m_state[f] \in {"TERM", "EXCEPT"}
  /\ pc' = [pc EXCEPT ![t] = "scan"]
  /\ fault' = ResetFault(f)
  /\ m_state' = [m_state EXCEPT ![f] = "INIT"]
  /\ m_cb' = [m_cb EXCEPT ![f] = None]
  /\ ctx' = [ctx EXCEPT ![f] = "entry"]
  /\ UNCHANGED <<m_fibers, localVars, countVars, stopVars, wakers, submitted>>

SettleOther(t) ==
  /\ pc[t] = "settle"
  /\ m_state[Running(t)] \notin {"READY", "TERM", "EXCEPT"}
  /\ pc' = [pc EXCEPT ![t] = "writeHold"]
  /\ UNCHANGED <<m_fibers, fiberVars, localVars, countVars, stopVars, wakers,
                 submitted, fault>>

\* m_state = HOLD, written whatever the state is by now; then ft.reset() or
\* cb_fiber.reset().
WriteHold(t) ==
  LET f == Running(t) IN
  /\ pc[t] = "writeHold"
  /\ pc' = [pc EXCEPT ![t] = "scan"]
  /\ ft' = [ft EXCEPT ![t] = None]
  /\ cb_fiber' = IF ft[t] = None THEN [cb_fiber EXCEPT ![t] = None]
                                 ELSE cb_fiber
  /\ Release(t, f, [m_state EXCEPT ![f] = "HOLD"], m_cb,
             ft[t] # None /\ ft[t] = cb_fiber[t])
  /\ UNCHANGED <<m_fibers, idleTerm, countVars, stopVars, wakers, submitted>>

----------------------------------------------------------------------------
\* One step of thread t in run(); one step of the owner.
ThreadStep(t) ==
  \/ PickTask(t) \/ PickNothing(t) \/ EnterIdle(t) \/ IdleStep(t)
  \/ IdleBack(t) \/ Exit(t)
  \/ DispatchFiber(t) \/ DropFinished(t) \/ ReuseFiber(t) \/ NewFiber(t)
  \/ \E c \in Callbacks : ScheduleFrom(t, c)
  \/ ArmWake(t) \/ YieldToHold(t) \/ YieldToReady(t) \/ Return(t) \/ Throw(t)
  \/ SwapOut(t) \/ Back(t)
  \/ SettleReady(t) \/ SettleFiber(t) \/ SettleCallback(t) \/ SettleOther(t)
  \/ WriteHold(t)

StopStep ==
  \/ StopBegin \/ StopFlag \/ StopCallRoot \/ StopSkipRoot \/ RootReturn
  \/ Join

\* stop() has returned, or an assertion has ended the process.
Halted ==
  /\ mpc = "done" \/ fault # "none"
  /\ UNCHANGED vars

Next ==
  \/ /\ fault = "none"
     /\ \/ Start
        \/ StopStep
        \/ \E c \in Callbacks : Submit(c)
        \/ \E f \in Fibers : Wake(f)
        \/ \E t \in Threads : ThreadStep(t)
  \/ Halted

Spec == Init /\ [][Next]_vars

\* Every thread keeps being scheduled by the kernel, callbacks return (one that
\* yields READY again and again still returns at last), and the owner calls
\* start() and stop().
FairSpec ==
  /\ Spec
  /\ WF_vars(fault = "none" /\ (Start \/ StopStep))
  /\ \A t \in Threads : WF_vars(fault = "none" /\ ThreadStep(t))
  /\ \A t \in Threads : SF_vars(fault = "none" /\ Return(t))

----------------------------------------------------------------------------
\* Properties.

\* Type correctness of the state of Scheduler, Fiber and run()'s locals.
TypeOK ==
  /\ m_fibers \in Seq(Entries)
  /\ m_activeThreadCount \in Nat
  /\ m_idleThreadCount \in 0 .. Cardinality(Threads)
  /\ m_stopping \in BOOLEAN
  /\ m_autoStop \in BOOLEAN
  /\ m_state \in [Fibers -> FiberStates]
  /\ m_cb \in [Fibers -> Callbacks \cup {None}]
  /\ ctx \in [Fibers -> Contexts]
  /\ pc \in [Threads -> Pcs]
  /\ ft \in [Threads -> Fibers \cup Callbacks \cup {None}]
  /\ cb_fiber \in [Threads -> Fibers \cup {None}]
  /\ idleTerm \in [Threads -> BOOLEAN]
  /\ mpc \in {"new", "started", "stopping", "flagged", "rooted", "join",
              "done"}
  /\ wakers \in SUBSET Fibers
  /\ submitted \in SUBSET Callbacks
  /\ fault \in Faults

\* The counters are exact: m_activeThreadCount is the number of threads that
\* hold an entry they took from the list, m_idleThreadCount the number inside
\* idle().  stopping() and tickle() decide from them.
CountersExact ==
  /\ m_activeThreadCount = Cardinality({t \in Threads : pc[t] \in ActivePcs})
  /\ m_idleThreadCount = Cardinality({t \in Threads : pc[t] \in IdlePcs})

\* No callback is ever in two places: two entries of the list, two threads'
\* ft, two fibers' m_cb, or any two of them.  A callback in two places would
\* run twice.
Places(c) ==
  {<<"list", i>> : i \in {j \in 1 .. Len(m_fibers) : m_fibers[j].task = c}}
  \cup {<<"ft", t>> : t \in {u \in Threads : ft[u] = c}}
  \cup {<<"m_cb", f>> : f \in {g \in Fibers : m_cb[g] = c}}

RunsOnce ==
  \A c \in Callbacks :
    \A p, q \in Places(c) : p = q

\* No assertion of fiber.cc fails and no thread enters a context that another
\* thread is still using.
NoFault == fault = "none"

\* A callback has thrown: its fiber stays in EXCEPT, which neither Fiber::reset
\* nor ~Fiber accepts.
Thrown == \E f \in Fibers : m_state[f] = "EXCEPT"

\* A thread holds its next task and still has, as cb_fiber, the fiber of a
\* callback that is not over: run() keeps cb_fiber when its callback yields
\* READY, and Fiber::reset does not accept it.
CbFiberKept ==
  \E t \in Threads :
    /\ ft[t] # None
    /\ cb_fiber[t] # None
    /\ m_state[cb_fiber[t]] \in {"READY", "HOLD"}

\* On one thread, however callbacks yield, wait, are woken and use fibers again,
\* an assertion about a fiber's state fails in two cases only: a callback has
\* thrown, or the thread takes a task while its cb_fiber belongs to a callback
\* that yielded READY and has not returned yet.
FaultsOnlyThrown == [][fault' # fault => Thrown \/ CbFiberKept]_vars

\* Fiber::YieldToHold and YieldToReady find the running fiber in state EXEC.
YieldFromExec == fault # "yield"

\* The step in which thread t enters callback c for the first time: it took the
\* callback itself, or a fiber of the user's that has not run yet.
Starts(t, c) ==
  /\ pc[t] = "dispatch" /\ pc'[t] = "run"
  /\ \/ ft[t] = c
     \/ ft[t] \in Fibers /\ ctx[ft[t]] = "entry" /\ m_cb[ft[t]] = c

\* A callback scheduled for a thread is started by that thread, whoever scans the
\* list first.  Nothing of the kind holds after a suspension: run() and the
\* wake-ups schedule the fiber again without its thread, and any thread resumes
\* it.
StartsWherePinned ==
  [][\A t \in Threads, c \in Callbacks :
       Starts(t, c) => Pin[c] \in {AnyThread, t}]_vars

\* The scheduler is a TaskPool: see the mapping.  Close of the pool is the
\* return of stop().
StatusOf(c) ==
  IF c \notin submitted THEN "new"
  ELSE IF Places(c) = {} THEN "done"
  ELSE IF \E f \in Fibers : m_cb[f] = c /\ m_state[f] = "EXEC" THEN "running"
  ELSE IF \E f \in wakers : m_cb[f] = c THEN "suspended"
  ELSE "queued"

Pool == INSTANCE TaskPool
          WITH status <- [c \in Callbacks |-> StatusOf(c)],
               closed <- (mpc = "done")

ImplementsPool == Pool!PoolSpec

\* Every callback handed to schedule() is eventually finished, stop() included:
\* the tasks still queued when it is called are executed first.
EveryTaskFinishes ==
  \A c \in Callbacks : c \in submitted ~> (c \in submitted /\ Places(c) = {})

\* stop() returns.
StopReturns == (mpc = "stopping") ~> (mpc = "done")
=============================================================================
