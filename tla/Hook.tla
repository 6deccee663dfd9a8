-------------------------------- MODULE Hook --------------------------------
(***************************************************************************)
(* The hooked system calls of hook.cc on one descriptor number: do_io (all *)
(* reads and writes), connect_with_timeout, socket and close, with the     *)
(* descriptor's entry in FdManager, the time-outs, and the part of         *)
(* IOManager they use.  addEvent, cancelEvent and cancelAll are one step   *)
(* each: IOManager.tla has their insides.                                  *)
(*                                                                         *)
(* A call that would block arms a conditional timer, registers its event   *)
(* and then suspends its fiber; readiness, the timer's callback or close() *)
(* hand it to schedule(), at any time from the registration on; once it is *)
(* suspended and scheduled it runs again, and tries again.  The timer's    *)
(* callback runs on another fiber, in three steps: it locks the call's     *)
(* timer_info, sets `cancelled` in it, and cancels the event, whoever has  *)
(* registered it by then.  After close() the descriptor number may be      *)
(* given to a new socket.                                                  *)
(***************************************************************************)
EXTENDS Integers, FiniteSets

CONSTANTS
  Dirs,         \* a subset of {"READ", "WRITE"}
  MaxGen,       \* bound: sockets that get this descriptor number
  MaxCalls,     \* bound: MaxCalls[f] calls of fiber f
  Connects,     \* fibers whose first call is connect, on WRITE; others do I/O
  MaxData,      \* bound: what a socket becomes ready for, per direction
  Timed,        \* directions whose calls have a time-out
  Interrupts,   \* a signal may interrupt a system call
  Late,         \* a timer may expire before its call has registered its event
  Closes,       \* which of the sockets somebody closes
  None

\* The fiber that uses direction f[1] of the f[2]-th socket; one per direction,
\* as addEvent demands.
Fibers == Dirs \X (1 .. MaxGen)

ASSUME BoundsAssumption ==
  /\ Dirs \subseteq {"READ", "WRITE"}
  /\ MaxGen \in Nat \ {0} /\ MaxCalls \in [Fibers -> Nat] /\ MaxData \in Nat
  /\ Timed \subseteq Dirs
  /\ Connects \subseteq {f \in Fibers : f[1] = "WRITE"}
  /\ Interrupts \in BOOLEAN /\ Late \in BOOLEAN /\ Closes \subseteq 1 .. MaxGen
  /\ None \notin Fibers

VARIABLES
  open,        \* the descriptor number is in use
  gen,         \* which socket it belongs to, or belonged to last
  fdCtx,       \* FdManager has an entry for it
  avail,       \* avail[d]: what the socket can deliver or take right now
  arrived,     \* arrived[d]: what it has been made ready for so far
  waiter,      \* waiter[d]: the fiber in the IOManager's EventContext
  interest,    \* what epoll watches on the descriptor
  scheduled,   \* fibers that triggerEvent has handed to schedule()
  pc,          \* where each fiber is in its call
  call,        \* its number of calls so far
  cancelled,   \* <<fiber, call>> whose timer_info has cancelled = ETIMEDOUT,
  expired,     \*   and of which a timer has expired; forgotten on the next call
  timers,      \* armed: <<fiber, call>>, at most one per call at a time
  fired,       \* their callbacks, from listExpiredCb on (of two callbacks of
               \*   one call the second does nothing, so they count as one),
  locked,      \*   with the timer_info locked,
  firing,      \*   with cancelled set, before cancelEvent
  cpc,         \* where close() is
  fault        \* the assertion that ended the process, or "none"

fdVars == <<open, gen, fdCtx>>
dataVars == <<avail, arrived>>
eventVars == <<waiter, interest, scheduled>>
timerVars == <<timers, fired, locked, firing, cancelled, expired>>
vars == <<fdVars, dataVars, eventVars, pc, call, timerVars, cpc, fault>>

Init ==
  /\ open = TRUE
  /\ gen = 1
  /\ fdCtx = TRUE
  /\ avail = [d \in Dirs |-> 0]
  /\ arrived = [d \in Dirs |-> 0]
  /\ waiter = [d \in Dirs |-> None]
  /\ interest = {}
  /\ scheduled = {}
  /\ pc = [f \in Fibers |-> "out"]
  /\ call = [f \in Fibers |-> 0]
  /\ cancelled = {} /\ expired = {}
  /\ timers = {} /\ fired = {} /\ locked = {} /\ firing = {}
  /\ cpc = "idle"
  /\ fault = "none"

Dir(f) == f[1]

ThisCall(f) == <<f, call[f]>>

\* connect_with_timeout rather than do_io.
Connecting(f) == f \in Connects /\ call[f] = 1

Events == {d \in Dirs : waiter[d] # None}

----------------------------------------------------------------------------
\* Inside a call, fiber f.

\* do_io and connect_with_timeout up to the first system call.  Without an
\* entry in FdManager do_io passes the call on to the kernel and connect
\* returns EBADF: neither changes anything this module knows of, except that
\* data may be delivered.
Enter(f) ==
  /\ pc[f] = "out"
  /\ call[f] < MaxCalls[f]
  /\ gen = f[2] /\ open
  /\ call' = [call EXCEPT ![f] = @ + 1]
  /\ cancelled' = {x \in cancelled : x[1] # f}
  /\ expired' = {x \in expired : x[1] # f}
  /\ IF fdCtx
     THEN pc' = [pc EXCEPT ![f] = "try"] /\ UNCHANGED avail
     ELSE /\ avail' = IF ~Connecting(f)' /\ avail[Dir(f)] > 0
                      THEN [avail EXCEPT ![Dir(f)] = @ - 1] ELSE avail
          /\ UNCHANGED pc
  /\ UNCHANGED <<fdVars, arrived, eventVars, timers, fired, locked, firing, cpc,
                 fault>>

\* The system call succeeds, or fails with EBADF: return.
Finish(f) ==
  /\ pc[f] = "try"
  /\ ~open \/ avail[Dir(f)] > 0
  /\ pc' = [pc EXCEPT ![f] = "out"]
  /\ avail' = IF open /\ ~Connecting(f)
              THEN [avail EXCEPT ![Dir(f)] = @ - 1] ELSE avail
  /\ UNCHANGED <<fdVars, arrived, eventVars, call, timerVars, cpc, fault>>

\* EAGAIN, or EINPROGRESS of connect: go and wait.
WouldBlock(f) ==
  /\ pc[f] = "try"
  /\ open /\ avail[Dir(f)] = 0
  /\ pc' = [pc EXCEPT ![f] = "arm"]
  /\ UNCHANGED <<fdVars, dataVars, eventVars, call, timerVars, cpc, fault>>

\* EINTR: do_io calls again until errno changes, and keeps the first result,
\* -1.  connect returns.
Interrupted(f) ==
  /\ Interrupts
  /\ pc[f] = "try"
  /\ pc' = [pc EXCEPT ![f] = IF Connecting(f) THEN "out" ELSE "eintr"]
  /\ UNCHANGED <<fdVars, dataVars, eventVars, call, timerVars, cpc, fault>>

\* What the repeated call delivers is dropped; a call that succeeds leaves
\* errno at EINTR.
RepeatTakes(f) ==
  /\ pc[f] = "eintr"
  /\ open /\ avail[Dir(f)] > 0
  /\ avail' = [avail EXCEPT ![Dir(f)] = @ - 1]
  /\ UNCHANGED <<fdVars, arrived, eventVars, pc, call, timerVars, cpc,
                 fault>>

RepeatEnds(f) ==
  /\ pc[f] = "eintr"
  /\ ~open \/ avail[Dir(f)] = 0
  /\ pc' = [pc EXCEPT ![f] = IF open THEN "arm" ELSE "out"]
  /\ UNCHANGED <<fdVars, dataVars, eventVars, call, timerVars, cpc, fault>>

\* addConditionTimer, if the call has a time-out.
Arm(f) ==
  /\ pc[f] = "arm"
  /\ timers' = IF Dir(f) \in Timed
               THEN timers \cup {ThisCall(f)} ELSE timers
  /\ pc' = [pc EXCEPT ![f] = "add"]
  /\ UNCHANGED <<fdVars, dataVars, eventVars, call, fired, locked,
                 firing, cancelled, expired, cpc, fault>>

\* Mutant: the failing path forgets timer->cancel().
AddEventFailsKeepsTimer(f) ==
  /\ pc[f] = "add"
  /\ waiter[Dir(f)] = None
  /\ pc' = [pc EXCEPT ![f] = "out"]
  /\ UNCHANGED <<fdVars, dataVars, eventVars, call, timerVars, cpc, fault>>

\* addEvent fails: the descriptor is closed, the IOManager and epoll disagree on
\* whether it is in the set, or the kernel refuses.  Cancel the timer and return.
AddEventFails(f) ==
  /\ pc[f] = "add"
  /\ waiter[Dir(f)] = None
  /\ timers' = timers \ {ThisCall(f)}
  /\ pc' = [pc EXCEPT ![f] = "out"]
  /\ UNCHANGED <<fdVars, dataVars, eventVars, call, fired, locked, firing,
                 cancelled, expired, cpc, fault>>

\* addEvent's assertion: nobody waits for this event of this number yet.
AddEventAsserts(f) ==
  /\ pc[f] = "add"
  /\ waiter[Dir(f)] # None
  /\ fault' = "addEvent"
  /\ UNCHANGED <<fdVars, dataVars, eventVars, pc, call, timerVars, cpc>>

\* Mutant: the event is registered with the IOManager and not with epoll.
AddEventNoEpoll(f) ==
  /\ pc[f] = "add"
  /\ waiter[Dir(f)] = None
  /\ open /\ (Events = {}) = (interest = {})
  /\ waiter' = [waiter EXCEPT ![Dir(f)] = f]
  /\ pc' = [pc EXCEPT ![f] = "yield"]
  /\ UNCHANGED <<fdVars, dataVars, interest, scheduled, call, timerVars, cpc, fault>>

\* addEvent: from here on the fiber may be scheduled, although it still runs.
AddEvent(f) ==
  /\ pc[f] = "add"
  /\ waiter[Dir(f)] = None
  /\ open /\ (Events = {}) = (interest = {})
  /\ waiter' = [waiter EXCEPT ![Dir(f)] = f]
  /\ interest' = interest \cup {Dir(f)}
  /\ pc' = [pc EXCEPT ![f] = "yield"]
  /\ UNCHANGED <<fdVars, dataVars, scheduled, call, timerVars, cpc, fault>>

\* YieldToHold.
YieldToHold(f) ==
  /\ pc[f] = "yield"
  /\ pc' = [pc EXCEPT ![f] = "hold"]
  /\ UNCHANGED <<fdVars, dataVars, eventVars, call, timerVars, cpc, fault>>

\* run() passes over a fiber that is still EXEC and swaps in one that holds.
\* (Scheduler.tla has the race for m_state between the two.)
Resume(f) ==
  /\ pc[f] = "hold"
  /\ f \in scheduled
  /\ scheduled' = scheduled \ {f}
  /\ pc' = [pc EXCEPT ![f] = "woken"]
  /\ UNCHANGED <<fdVars, dataVars, waiter, interest, call, timerVars, cpc, fault>>

\* Resumed: timer->cancel()...
CancelTimer(f) ==
  /\ pc[f] = "woken"
  /\ timers' = timers \ {ThisCall(f)}
  /\ pc' = [pc EXCEPT ![f] = "check"]
  /\ UNCHANGED <<fdVars, dataVars, eventVars, call, fired, locked, firing,
                 cancelled, expired, cpc, fault>>

\* ... then tinfo->cancelled: ETIMEDOUT, or try again; connect asks for
\* SO_ERROR and returns.
Check(f) ==
  /\ pc[f] = "check"
  /\ pc' = [pc EXCEPT ![f] =
              IF ThisCall(f) \in cancelled \/ Connecting(f)
              THEN "out" ELSE "try"]
  /\ UNCHANGED <<fdVars, dataVars, eventVars, call, timerVars, cpc, fault>>

----------------------------------------------------------------------------
\* What resumes a call.

\* Mutant: the EventContext keeps the fiber it has scheduled.
TriggerKeeps(ds) ==
  /\ scheduled' = scheduled \cup {waiter[d] : d \in ds}
  /\ interest' = interest \ ds
  /\ UNCHANGED waiter

\* triggerEvent of the events ds, all of them registered.
Trigger(ds) ==
  /\ waiter' = [d \in Dirs |-> IF d \in ds THEN None ELSE waiter[d]]
  /\ scheduled' = scheduled \cup {waiter[d] : d \in ds}
  /\ interest' = interest \ ds

\* The peer makes the socket ready.
Arrive(d) ==
  /\ open
  /\ arrived[d] < MaxData
  /\ arrived' = [arrived EXCEPT ![d] = @ + 1]
  /\ avail' = [avail EXCEPT ![d] = @ + 1]
  /\ UNCHANGED <<fdVars, eventVars, pc, call, timerVars, cpc, fault>>

\* idle() finds the descriptor ready.
Ready(d) ==
  /\ d \in interest /\ waiter[d] # None
  /\ avail[d] > 0
  /\ Trigger({d})
  /\ UNCHANGED <<fdVars, dataVars, pc, call, timerVars, cpc, fault>>

\* listExpiredCb takes timer x and schedules its callback.
Expire(x) ==
  /\ x \in timers
  /\ Late \/ pc[x[1]] # "add"
  /\ timers' = timers \ {x}
  /\ fired' = fired \cup {x}
  /\ expired' = expired \cup {x}
  /\ UNCHANGED <<fdVars, dataVars, eventVars, pc, call, locked, firing,
                 cancelled, cpc, fault>>

\* OnTimer and the callback lock the weak pointer: the timer_info lives as long
\* as its call.
Lock(x) ==
  /\ x \in fired
  /\ fired' = fired \ {x}
  /\ locked' = IF ThisCall(x[1]) = x /\ pc[x[1]] # "out"
               THEN locked \cup {x} ELSE locked
  /\ UNCHANGED <<fdVars, dataVars, eventVars, pc, call, timers, firing,
                 cancelled, expired, cpc, fault>>

\* Mutant: the callback finds its timer_info through the fiber, not through the
\* call's weak pointer.
SetCancelledOfFiber(x) ==
  /\ x \in locked
  /\ locked' = locked \ {x}
  /\ firing' = firing \cup {x}
  /\ cancelled' = cancelled \cup {ThisCall(x[1])}
  /\ UNCHANGED <<fdVars, dataVars, eventVars, pc, call, timers, fired, expired,
                 cpc, fault>>

\* if(t->cancelled) return; t->cancelled = ETIMEDOUT.
SetCancelled(x) ==
  /\ x \in locked
  /\ locked' = locked \ {x}
  /\ firing' = IF x \in cancelled THEN firing ELSE firing \cup {x}
  /\ cancelled' = cancelled \cup {x}
  /\ UNCHANGED <<fdVars, dataVars, eventVars, pc, call, timers, fired,
                 expired, cpc, fault>>

\* cancelEvent(fd, event): whatever call waits for the event now.
CancelEvent(x) ==
  LET d == Dir(x[1]) IN
  /\ x \in firing
  /\ firing' = firing \ {x}
  /\ Trigger({d} \cap Events \cap interest)
  /\ UNCHANGED <<fdVars, dataVars, pc, call, timers, fired, locked, cancelled,
                 expired, cpc, fault>>

----------------------------------------------------------------------------
\* close(), and socket() or accept() that gets the same number.

\* cancelAll(fd): epoll forgets the descriptor and everybody is resumed; it
\* gives up when epoll does not know the descriptor.
CloseCancel ==
  /\ gen \in Closes /\ cpc = "idle" /\ open
  /\ cpc' = "del"
  /\ Trigger(IF interest = {} THEN {} ELSE Events)
  /\ UNCHANGED <<fdVars, dataVars, pc, call, timerVars, fault>>

\* FdMgr::del.
CloseDel ==
  /\ cpc = "del"
  /\ fdCtx' = FALSE
  /\ cpc' = "close"
  /\ UNCHANGED <<open, gen, dataVars, eventVars, pc, call, timerVars, fault>>

\* close_f: the kernel takes the descriptor out of epoll.
CloseFd ==
  /\ cpc = "close"
  /\ open' = FALSE
  /\ interest' = {}
  /\ cpc' = "idle"
  /\ UNCHANGED <<gen, fdCtx, dataVars, waiter, scheduled, pc, call, timerVars,
                 fault>>

\* socket() and FdMgr::get(fd, true).
Reopen ==
  /\ ~open /\ gen < MaxGen
  /\ open' = TRUE
  /\ gen' = gen + 1
  /\ fdCtx' = TRUE
  /\ avail' = [d \in Dirs |-> 0]
  /\ arrived' = [d \in Dirs |-> 0]
  /\ UNCHANGED <<eventVars, pc, call, timerVars, cpc, fault>>

----------------------------------------------------------------------------
CallStep(f) ==
  \/ Finish(f) \/ WouldBlock(f) \/ Interrupted(f) \/ RepeatTakes(f)
  \/ RepeatEnds(f) \/ Arm(f) \/ AddEventFails(f) \/ AddEventAsserts(f)
  \/ AddEvent(f) \/ YieldToHold(f) \/ Resume(f) \/ CancelTimer(f) \/ Check(f)

TimerStep ==
  \/ \E x \in timers : Expire(x)
  \/ \E x \in fired : Lock(x)
  \/ \E x \in locked : SetCancelled(x)
  \/ \E x \in firing : CancelEvent(x)

\* Nobody calls any more, or the process died.
Rest ==
  /\ fault # "none" \/ \A f \in Fibers : pc[f] \in {"out", "hold"}
  /\ UNCHANGED vars

Next ==
  \/ /\ fault = "none"
     /\ \/ \E f \in Fibers : CallStep(f) \/ Enter(f)
        \/ \E d \in Dirs : Arrive(d) \/ Ready(d)
        \/ TimerStep
        \/ CloseCancel \/ CloseDel \/ CloseFd \/ Reopen
  \/ Rest

Spec == Init /\ [][Next]_vars

\* The scheduler runs every fiber that can run, idle() reports what is ready,
\* and time passes.  Nobody has to send, call or close.
FairSpec ==
  /\ Spec
  /\ \A f \in Fibers : WF_vars(fault = "none" /\ CallStep(f))
  /\ \A d \in Dirs : WF_vars(fault = "none" /\ Ready(d))
  /\ WF_vars(fault = "none" /\ TimerStep)

----------------------------------------------------------------------------
\* Properties.

Pcs == {"out", "try", "eintr", "arm", "add", "yield", "hold", "woken", "check"}

\* From addEvent to the swapIn that resumes the call.
Waits(f) == pc[f] \in {"yield", "hold"}

\* Type correctness.
TypeOK ==
  /\ open \in BOOLEAN /\ fdCtx \in BOOLEAN
  /\ gen \in 1 .. MaxGen
  /\ avail \in [Dirs -> 0 .. MaxData] /\ arrived \in [Dirs -> 0 .. MaxData]
  /\ waiter \in [Dirs -> Fibers \cup {None}]
  /\ interest \in SUBSET Dirs
  /\ scheduled \in SUBSET Fibers
  /\ pc \in [Fibers -> Pcs]
  /\ \A f \in Fibers : call[f] \in 0 .. MaxCalls[f]
  /\ \A x \in cancelled \cup expired \cup timers \cup fired \cup locked \cup firing :
       x \in Fibers \X Nat /\ x[2] \in 1 .. call[x[1]]
  /\ cpc \in {"idle", "del", "close"}
  /\ fault \in {"none", "addEvent"}

\* A call that has registered its event is either still registered or scheduled,
\* never both and never neither, until it runs again; and a fiber that does not
\* wait is neither.  Readiness, time-outs, stale timer callbacks and close(), before
\* and after the fiber has suspended, resume every wait once: a second entry in
\* m_fibers would resume a later wait, of this call or of another one.
ResumedOnce ==
  \A f \in Fibers :
    /\ Waits(f) <=> (waiter[Dir(f)] = f \/ f \in scheduled)
    /\ ~(waiter[Dir(f)] = f /\ f \in scheduled)

\* A call fails with ETIMEDOUT only if one of its own timers has expired; the
\* callback of an earlier call's timer may resume it, but not fail it.
TimeoutIsOwn ==
  \A f \in Fibers : ThisCall(f) \in cancelled => ThisCall(f) \in expired

\* No timer outlives the call that armed it, whichever way the call ends.
NoTimerLeft ==
  \A x \in timers : pc[x[1]] # "out" /\ x = ThisCall(x[1])

\* No call stays suspended for ever on an open socket that stays ready.
ReadyResumes ==
  \A f \in Fibers :
    []<>~(/\ Waits(f) /\ open /\ gen = f[2]
          /\ avail[Dir(f)] > 0 /\ fault = "none")

\* A call with a time-out returns (socket.h: setRecvTimeout, setSendTimeout).
TimedCallReturns ==
  \A f \in Fibers : (Dir(f) \in Timed /\ Waits(f)) ~> pc[f] = "out"
=============================================================================
