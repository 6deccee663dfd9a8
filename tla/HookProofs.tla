----------------------------- MODULE HookProofs -----------------------------
(***************************************************************************)
(* The hooked calls on one descriptor number, for any directions, sockets, *)
(* calls and amounts of data, with late time-outs, signals, close() and    *)
(* the reuse of the number: every wait is resumed once, a call fails       *)
(* only by its own time-out, and no timer outlives its call.               *)
(***************************************************************************)
EXTENDS Hook, TLAPS

Calls == Fibers \X Nat

\* What the proofs need of TypeOK.
Typed ==
  /\ waiter \in [Dirs -> Fibers \cup {None}]
  /\ scheduled \subseteq Fibers
  /\ pc \in [Fibers -> Pcs]
  /\ call \in [Fibers -> Nat]
  /\ timers \subseteq Calls /\ fired \subseteq Calls /\ locked \subseteq Calls
  /\ firing \subseteq Calls /\ cancelled \subseteq Calls /\ expired \subseteq Calls

\* The EventContext of a direction holds a fiber of that direction.
WaiterOK == \A d \in Dirs : waiter[d] # None => Dir(waiter[d]) = d

\* NoTimerLeft, and where its call is while a timer is armed.
ArmedOK ==
  \A x \in timers : x = ThisCall(x[1]) /\ pc[x[1]] \in {"add", "yield", "hold", "woken"}

\* A callback is of a call that was made, and if that is the fiber's present one,
\* the expiry is not forgotten.
FiredOK ==
  \A x \in fired \cup locked :
    x[2] <= call[x[1]] /\ (x = ThisCall(x[1]) => x \in expired)

\* The inductive invariant.
IInv == Typed /\ WaiterOK /\ ResumedOnce /\ ArmedOK /\ FiredOK /\ TimeoutIsOwn

----------------------------------------------------------------------------
LEMMA FibersAre ==
  /\ None \notin Fibers
  /\ \A f \in Fibers : f[1] \in Dirs
  /\ \A x \in Calls : x[1] \in Fibers /\ x[2] \in Nat /\ x = <<x[1], x[2]>>
BY BoundsAssumption DEF Fibers, Calls

\* Fiber f moves from one place in its call to another, not into or out of its
\* wait, and arms or cancels its own timer.
LEMMA CallMoves ==
  ASSUME IInv, NEW f \in Fibers, NEW v \in Pcs \ {"yield", "hold"},
         pc[f] \notin {"yield", "hold"},
         pc' = [pc EXCEPT ![f] = v],
         timers' \subseteq timers \cup {ThisCall(f)},
         ThisCall(f) \in timers' => v \in {"add", "woken"},
         UNCHANGED <<waiter, scheduled, call, fired, locked, firing, cancelled, expired>>
  PROVE IInv'
<1> USE FibersAre
<1>1. ThisCall(f) \in Calls BY DEF IInv, Typed, ThisCall, Calls
<1>2. Typed' BY <1>1 DEF IInv, Typed
<1>3. \A g \in Fibers \ {f} : pc'[g] = pc[g] BY DEF IInv, Typed
<1>4. pc'[f] = v BY DEF IInv, Typed
<1>5. WaiterOK' /\ ResumedOnce'
  BY <1>3, <1>4 DEF IInv, WaiterOK, ResumedOnce, Waits, Dir
<1>6. ArmedOK'
  <2> SUFFICES ASSUME NEW x \in timers'
               PROVE x = <<x[1], call[x[1]]>> /\ pc'[x[1]] \in {"add", "yield", "hold", "woken"}
    BY DEF ArmedOK, ThisCall
  <2>1. CASE x = ThisCall(f) BY <1>4, <2>1 DEF ThisCall
  <2>2. CASE x # ThisCall(f)
    <3>1. x \in timers /\ x = ThisCall(x[1]) /\ pc[x[1]] \in {"add", "yield", "hold", "woken"}
      BY <2>2 DEF IInv, ArmedOK
    <3>2. x[1] \in Fibers \ {f} BY <2>2, <3>1 DEF IInv, Typed
    <3> QED BY <1>3, <3>1, <3>2 DEF ThisCall
  <2> QED BY <2>1, <2>2
<1>7. FiredOK' /\ TimeoutIsOwn' BY DEF IInv, FiredOK, TimeoutIsOwn, ThisCall
<1> QED BY <1>2, <1>5, <1>6, <1>7 DEF IInv

\* triggerEvent schedules the fibers that are registered.
LEMMA TriggerMoves ==
  ASSUME IInv, NEW ds \in SUBSET Dirs, \A d \in ds : waiter[d] # None, Trigger(ds),
         UNCHANGED <<pc, call, timers, fired, locked, cancelled, expired>>,
         firing' \subseteq firing
  PROVE IInv'
<1> USE FibersAre
<1>1. /\ waiter' = [d \in Dirs |-> IF d \in ds THEN None ELSE waiter[d]]
      /\ scheduled' = scheduled \cup {waiter[d] : d \in ds}
  BY DEF Trigger
<1>2. Typed'
  <2>1. waiter' \in [Dirs -> Fibers \cup {None}] BY <1>1 DEF IInv, Typed
  <2>2. scheduled' \subseteq Fibers BY <1>1 DEF IInv, Typed
  <2> QED BY <2>1, <2>2 DEF IInv, Typed
<1>3. WaiterOK' BY <1>1 DEF IInv, WaiterOK, Dir
<1>4. \A f \in Fibers : (\E d \in ds : waiter[d] = f) <=> (f[1] \in ds /\ waiter[f[1]] = f)
  BY DEF IInv, WaiterOK, Dir
<1>5. ResumedOnce'
  <2> SUFFICES ASSUME NEW f \in Fibers
               PROVE /\ pc[f] \in {"yield", "hold"} <=>
                          (waiter'[f[1]] = f \/ f \in scheduled')
                     /\ ~(waiter'[f[1]] = f /\ f \in scheduled')
    BY DEF ResumedOnce, Waits, Dir
  <2>1. /\ pc[f] \in {"yield", "hold"} <=> (waiter[f[1]] = f \/ f \in scheduled)
        /\ ~(waiter[f[1]] = f /\ f \in scheduled)
    BY DEF IInv, ResumedOnce, Waits, Dir
  <2>2. f \in scheduled' <=> f \in scheduled \/ (f[1] \in ds /\ waiter[f[1]] = f)
    BY <1>1, <1>4
  <2>3. waiter'[f[1]] = f <=> f[1] \notin ds /\ waiter[f[1]] = f BY <1>1
  <2> QED BY <2>1, <2>2, <2>3
<1>6. ArmedOK' /\ FiredOK' /\ TimeoutIsOwn'
  BY DEF IInv, ArmedOK, FiredOK, TimeoutIsOwn, ThisCall
<1> QED BY <1>2, <1>3, <1>5, <1>6 DEF IInv

LEMMA CallStepIInv ==
  ASSUME IInv, NEW f \in Fibers, CallStep(f)
  PROVE IInv'
<1> USE FibersAre
<1>0. \A x \in timers : x[1] = f => pc[f] \in {"add", "yield", "hold", "woken"} BY DEF IInv, ArmedOK
<1>1. pc[f] \notin {"add", "yield", "hold", "woken"} => ThisCall(f) \notin timers BY <1>0 DEF ThisCall
<1>2. CASE Finish(f)
  BY <1>1, <1>2, CallMoves DEF Finish, eventVars, timerVars, Pcs
<1>3. CASE WouldBlock(f)
  BY <1>1, <1>3, CallMoves DEF WouldBlock, eventVars, timerVars, Pcs
<1>4. CASE Interrupted(f)
  BY <1>1, <1>4, CallMoves DEF Interrupted, eventVars, timerVars, Pcs
<1>5. CASE RepeatTakes(f)
  BY <1>5 DEF RepeatTakes, eventVars, timerVars, IInv, Typed, WaiterOK, ResumedOnce,
              Waits, ArmedOK, FiredOK, TimeoutIsOwn, ThisCall, Dir
<1>6. CASE RepeatEnds(f)
  BY <1>1, <1>6, CallMoves DEF RepeatEnds, eventVars, timerVars, Pcs
<1>7. CASE Arm(f)
  BY <1>7, CallMoves DEF Arm, eventVars, Pcs
<1>8. CASE AddEventFails(f)
  BY <1>8, CallMoves DEF AddEventFails, eventVars, Pcs
<1>9. CASE AddEventAsserts(f)
  BY <1>9 DEF AddEventAsserts, eventVars, timerVars, IInv, Typed, WaiterOK, ResumedOnce,
              Waits, ArmedOK, FiredOK, TimeoutIsOwn, ThisCall, Dir
<1>10. CASE AddEvent(f)
  <2>1. /\ pc[f] = "add" /\ waiter[f[1]] = None /\ scheduled' = scheduled
        /\ waiter' = [waiter EXCEPT ![f[1]] = f] /\ pc' = [pc EXCEPT ![f] = "yield"]
        /\ UNCHANGED <<call, timers, fired, locked, firing, cancelled, expired>>
    BY <1>10 DEF AddEvent, timerVars, Dir
  <2>2. Typed' /\ WaiterOK' BY <2>1 DEF IInv, Typed, WaiterOK, Dir, Pcs
  <2>3. ResumedOnce' BY <2>1 DEF IInv, Typed, ResumedOnce, Waits, Dir
  <2>4. ArmedOK' BY <2>1 DEF IInv, Typed, ArmedOK, ThisCall
  <2>5. FiredOK' /\ TimeoutIsOwn' BY <2>1 DEF IInv, FiredOK, TimeoutIsOwn, ThisCall
  <2> QED BY <2>2, <2>3, <2>4, <2>5 DEF IInv
<1>13. CASE YieldToHold(f)
  <2>1. /\ pc[f] = "yield" /\ pc' = [pc EXCEPT ![f] = "hold"]
        /\ UNCHANGED <<waiter, scheduled, call, timers, fired, locked, firing,
                       cancelled, expired>>
    BY <1>13 DEF YieldToHold, eventVars, timerVars
  <2>2. Typed' /\ WaiterOK' BY <2>1 DEF IInv, Typed, WaiterOK, Dir, Pcs
  <2>3. ResumedOnce' BY <2>1 DEF IInv, Typed, ResumedOnce, Waits, Dir
  <2>4. ArmedOK' BY <2>1 DEF IInv, Typed, ArmedOK, ThisCall
  <2>5. FiredOK' /\ TimeoutIsOwn' BY <2>1 DEF IInv, FiredOK, TimeoutIsOwn, ThisCall
  <2> QED BY <2>2, <2>3, <2>4, <2>5 DEF IInv
<1>14. CASE Resume(f)
  <2>1. /\ pc[f] = "hold" /\ pc' = [pc EXCEPT ![f] = "woken"]
        /\ f \in scheduled /\ scheduled' = scheduled \ {f}
        /\ UNCHANGED <<waiter, call, timers, fired, locked, firing, cancelled, expired>>
    BY <1>14 DEF Resume, timerVars
  <2>2. Typed' /\ WaiterOK' BY <2>1 DEF IInv, Typed, WaiterOK, Dir, Pcs
  <2>3. ResumedOnce' BY <2>1 DEF IInv, Typed, ResumedOnce, Waits, Dir
  <2>4. ArmedOK' BY <2>1 DEF IInv, Typed, ArmedOK, ThisCall
  <2>5. FiredOK' /\ TimeoutIsOwn' BY <2>1 DEF IInv, FiredOK, TimeoutIsOwn, ThisCall
  <2> QED BY <2>2, <2>3, <2>4, <2>5 DEF IInv
<1>11. CASE CancelTimer(f)
  BY <1>11, CallMoves DEF CancelTimer, eventVars, Pcs
<1>12. CASE Check(f)
  BY <1>1, <1>12, CallMoves DEF Check, eventVars, timerVars, Pcs
<1> QED BY <1>2, <1>3, <1>4, <1>5, <1>6, <1>7, <1>8, <1>9, <1>10, <1>11, <1>12,
           <1>13, <1>14 DEF CallStep

\* A new call: what is left of earlier ones is of earlier numbers.
LEMMA EnterIInv ==
  ASSUME IInv, NEW f \in Fibers, Enter(f)
  PROVE IInv'
<1> USE FibersAre
<1>1. /\ pc[f] = "out" /\ call' = [call EXCEPT ![f] = @ + 1]
      /\ cancelled' = {x \in cancelled : x[1] # f} /\ expired' = {x \in expired : x[1] # f}
      /\ pc' = [pc EXCEPT ![f] = "try"] \/ pc' = pc
      /\ UNCHANGED <<waiter, scheduled, timers, fired, locked, firing>>
  BY DEF Enter, eventVars
<1>2. Typed' BY <1>1 DEF IInv, Typed, Pcs
<1>3. WaiterOK' /\ ResumedOnce'
  BY <1>1 DEF IInv, Typed, WaiterOK, ResumedOnce, Waits, Dir
<1>4. \A g \in Fibers \ {f} : call'[g] = call[g] /\ pc'[g] = pc[g] BY <1>1 DEF IInv, Typed
<1>5. call'[f] = call[f] + 1 BY <1>1 DEF IInv, Typed
<1>6. ArmedOK' BY <1>1, <1>4 DEF IInv, Typed, ArmedOK, ThisCall
<1>7. FiredOK'
  <2> SUFFICES ASSUME NEW x \in fired \cup locked
               PROVE x[2] <= call'[x[1]] /\ (x = <<x[1], call'[x[1]]>> => x \in expired')
    BY <1>1 DEF FiredOK, ThisCall
  <2>1. /\ x[1] \in Fibers /\ x[2] \in Nat /\ x = <<x[1], x[2]>> /\ x[2] <= call[x[1]]
        /\ call[x[1]] \in Nat /\ (x = <<x[1], call[x[1]]>> => x \in expired)
    BY DEF IInv, Typed, FiredOK, ThisCall
  <2>2. CASE x[1] = f
    <3>1. x[2] < call'[x[1]] /\ x[2] <= call'[x[1]] /\ x[2] # call'[x[1]] BY <1>5, <2>1, <2>2
    <3> QED BY <2>1, <3>1
  <2>3. CASE x[1] # f BY <1>1, <1>4, <2>1, <2>3
  <2> QED BY <2>2, <2>3
<1>8. TimeoutIsOwn' BY <1>1, <1>4 DEF IInv, Typed, TimeoutIsOwn, ThisCall
<1> QED BY <1>2, <1>3, <1>6, <1>7, <1>8 DEF IInv

\* The stages of a time-out.
LEMMA TimerIInv ==
  ASSUME IInv, TimerStep
  PROVE IInv'
<1> USE FibersAre
<1>1. ASSUME NEW x \in timers, Expire(x) PROVE IInv'
  <2>1. /\ timers' = timers \ {x} /\ fired' = fired \cup {x} /\ expired' = expired \cup {x}
        /\ UNCHANGED <<waiter, scheduled, pc, call, locked, firing, cancelled>>
    BY <1>1 DEF Expire, eventVars
  <2>2. x \in Calls /\ x = <<x[1], call[x[1]]>> /\ call[x[1]] \in Nat
    BY DEF IInv, Typed, ArmedOK, ThisCall
  <2>3. Typed' /\ WaiterOK' /\ ResumedOnce'
    BY <2>1, <2>2 DEF IInv, Typed, WaiterOK, ResumedOnce, Waits, Dir
  <2>4. ArmedOK' /\ TimeoutIsOwn' BY <2>1 DEF IInv, ArmedOK, TimeoutIsOwn, ThisCall
  <2>5. x[2] <= call[x[1]] BY <2>2
  <2>6. FiredOK' BY <2>1, <2>5 DEF IInv, FiredOK, ThisCall
  <2> QED BY <2>3, <2>4, <2>6 DEF IInv
<1>2. ASSUME NEW x \in fired, Lock(x) PROVE IInv'
  <2>1. /\ fired' = fired \ {x} /\ locked' \subseteq locked \cup {x}
        /\ UNCHANGED <<waiter, scheduled, pc, call, timers, firing, cancelled, expired>>
    BY <1>2 DEF Lock, eventVars
  <2>2. Typed' /\ WaiterOK' /\ ResumedOnce'
    BY <2>1 DEF IInv, Typed, WaiterOK, ResumedOnce, Waits, Dir
  <2>3. ArmedOK' /\ TimeoutIsOwn' /\ FiredOK'
    BY <2>1 DEF IInv, ArmedOK, TimeoutIsOwn, FiredOK, ThisCall
  <2> QED BY <2>2, <2>3 DEF IInv
<1>3. ASSUME NEW x \in locked, SetCancelled(x) PROVE IInv'
  <2>1. /\ locked' = locked \ {x} /\ firing' \subseteq firing \cup {x}
        /\ cancelled' = cancelled \cup {x}
        /\ UNCHANGED <<waiter, scheduled, pc, call, timers, fired, expired>>
    BY <1>3 DEF SetCancelled, eventVars
  <2>2. Typed' /\ WaiterOK' /\ ResumedOnce'
    BY <2>1 DEF IInv, Typed, WaiterOK, ResumedOnce, Waits, Dir
  <2>3. TimeoutIsOwn'
    <3>1. ASSUME NEW f \in Fibers, <<f, call[f]>> = x PROVE x \in expired
      BY <3>1 DEF IInv, FiredOK, ThisCall
    <3> QED BY <2>1, <3>1 DEF IInv, TimeoutIsOwn, ThisCall
  <2>4. ArmedOK' /\ FiredOK' BY <2>1 DEF IInv, ArmedOK, FiredOK, ThisCall
  <2> QED BY <2>2, <2>3, <2>4 DEF IInv
<1>4. ASSUME NEW x \in firing, CancelEvent(x) PROVE IInv'
  <2>1. PICK ds \in SUBSET Dirs : Trigger(ds) /\ \A d \in ds : waiter[d] # None
    BY <1>4 DEF CancelEvent, Events
  <2> QED BY <1>4, <2>1, TriggerMoves DEF CancelEvent
<1> QED BY <1>1, <1>2, <1>3, <1>4 DEF TimerStep

----------------------------------------------------------------------------
LEMMA InitIInv == Init => IInv
BY FibersAre DEF Init, IInv, Typed, WaiterOK, ResumedOnce, Waits, ArmedOK, FiredOK, TimeoutIsOwn,
                 ThisCall, Dir, Pcs

\* Steps that leave calls, waiters and timers alone.
LEMMA Elsewhere ==
  ASSUME IInv, UNCHANGED <<waiter, scheduled, pc, call, timerVars>>
  PROVE IInv'
BY DEF timerVars, IInv, Typed, WaiterOK, ResumedOnce, Waits, ArmedOK, FiredOK, TimeoutIsOwn,
       ThisCall, Dir

LEMMA NextIInv == IInv /\ [Next]_vars => IInv'
<1> SUFFICES ASSUME IInv, [Next]_vars PROVE IInv'
  OBVIOUS
<1>1. ASSUME NEW f \in Fibers, CallStep(f) \/ Enter(f) PROVE IInv'
  BY <1>1, CallStepIInv, EnterIInv
<1>2. ASSUME NEW d \in Dirs, Arrive(d) PROVE IInv'
  BY <1>2, Elsewhere DEF Arrive, eventVars
<1>3. ASSUME NEW d \in Dirs, Ready(d) PROVE IInv'
  <2>1. {d} \in SUBSET Dirs /\ Trigger({d}) /\ waiter[d] # None BY <1>3 DEF Ready
  <2> QED BY <1>3, <2>1, TriggerMoves DEF Ready, timerVars
<1>4. CASE TimerStep BY <1>4, TimerIInv
<1>5. CASE CloseCancel
  <2>1. PICK ds \in SUBSET Dirs : Trigger(ds) /\ \A d \in ds : waiter[d] # None
    BY <1>5 DEF CloseCancel, Events
  <2> QED BY <1>5, <2>1, TriggerMoves DEF CloseCancel, timerVars
<1>6. CASE CloseDel BY <1>6, Elsewhere DEF CloseDel, eventVars
<1>7. CASE CloseFd BY <1>7, Elsewhere DEF CloseFd
<1>8. CASE Reopen BY <1>8, Elsewhere DEF Reopen, eventVars
<1>9. CASE UNCHANGED vars BY <1>9, Elsewhere DEF vars, eventVars
<1> QED BY <1>1, <1>2, <1>3, <1>4, <1>5, <1>6, <1>7, <1>8, <1>9 DEF Next, Rest

LEMMA IInvAlways == Spec => []IInv
BY InitIInv, NextIInv, PTL DEF Spec

\* From addEvent until it runs again a call is registered or scheduled, not both:
\* whatever triggers, cancels or closes before or after YieldToHold, every wait is
\* resumed once, and a fiber that does not wait is never handed to the scheduler.
THEOREM HookResumedOnce == Spec => []ResumedOnce
<1>1. IInv => ResumedOnce BY DEF IInv
<1> QED BY <1>1, IInvAlways, PTL

\* do_io and connect return ETIMEDOUT only after a timer of that very call expired.
THEOREM HookTimeoutIsOwn == Spec => []TimeoutIsOwn
<1>1. IInv => TimeoutIsOwn BY DEF IInv
<1> QED BY <1>1, IInvAlways, PTL

\* Every way out of do_io and connect has cancelled the timer, or it has expired.
THEOREM HookNoTimerLeft == Spec => []NoTimerLeft
<1>1. IInv => NoTimerLeft BY DEF IInv, ArmedOK, NoTimerLeft
<1> QED BY <1>1, IInvAlways, PTL
=============================================================================
