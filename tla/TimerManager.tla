---------------------------- MODULE TimerManager ----------------------------
(***************************************************************************)
(* megalo::Timer and megalo::TimerManager (timer.h/.cc) with the part of   *)
(* IOManager::idle that drives them: idle threads ask getNextTimer() how   *)
(* long they may sleep, sleep in epoll_wait, and collect the callbacks of  *)
(* expired timers with listExpiredCb(); any thread adds, cancels,          *)
(* refreshes and resets timers meanwhile.                                  *)
(*                                                                         *)
(* m_mutex makes each operation on m_timers atomic.  What lies outside it  *)
(* is a step of its own: a timer's first expiry time and listExpiredCb's   *)
(* now_ms are read before the lock is taken, onTimerInsertAtFront() is     *)
(* called after it is released, and an idle thread looks at the first      *)
(* timer, enters epoll_wait, collects the callbacks and empties the tickle *)
(* pipe one after the other.  Time is wall-clock time and may be set back. *)
(***************************************************************************)
EXTENDS Integers

CONSTANTS
  Timers,       \* the Timer objects
  Recurring,    \* those created with recurring = true
  Durations,    \* the values of `ms`
  Idlers,       \* threads that execute IOManager::idle
  StartTime,    \* the wall clock at construction
  MaxTime,      \* bound: the time that passes ends here
  Hour,         \* 60 * 60 * 1000, the tolerance of deleteClockRollover
  MaxTimeout,   \* MAX_TIMEOUT of IOManager::idle
  ClockBack,    \* amounts by which the wall clock may be set back
  MaxBack       \* bound: how far in all

ASSUME TimesAssumption ==
  /\ Recurring \subseteq Timers
  /\ StartTime \in Nat /\ MaxTime \in Nat /\ Hour \in Nat /\ MaxTimeout \in Nat
  /\ Durations \subseteq Nat
  /\ ClockBack \subseteq Nat /\ MaxBack \in Nat
  /\ Idlers # {}

VARIABLES
  now,             \* GetCurrentMS()
  back,            \* how far the clock was set back in all
  m_timers,        \* the ordered set: <<m_next at insertion, timer>>
  m_tickled,
  m_previousTime,
  m_ms, m_next,    \* fields of each Timer
  m_cb,            \* m_cb[t]: Timer::m_cb is not null
  life,            \* "none", "made" (constructed, not inserted), "used"
  announcing,      \* timers whose onTimerInsertAtFront() call is on its way
  wpc,             \* where each idle thread is
  due,             \* when it looked at the timers, plus its next_timeout
  now_ms,          \* its local now_ms in listExpiredCb
  got,             \* whether its epoll_wait reported the tickle pipe
  pipe,            \* the tickle pipe: "empty", "new" (written since epoll last
                   \* reported it; it is watched with EPOLLET), "seen"
  cbs,             \* timers whose callbacks the last step handed out
  retired          \* cancelled timers and one-shot timers that fired

clockVars == <<now, back>>
timerVars == <<m_ms, m_next, m_cb, life>>
idleVars == <<wpc, due, now_ms, got>>
vars == <<clockVars, m_timers, m_tickled, m_previousTime, timerVars, announcing,
          idleVars, pipe, cbs, retired>>

\* std::set::find with the comparator: an entry under another key is missed.
Found(t) == <<m_next[t], t>> \in m_timers

Keys == {e[1] : e \in m_timers}

Init ==
  /\ now = StartTime
  /\ back = 0
  /\ m_timers = {}
  /\ m_tickled = FALSE
  /\ m_previousTime = StartTime
  /\ m_ms = [t \in Timers |-> 0]
  /\ m_next = [t \in Timers |-> 0]
  /\ m_cb = [t \in Timers |-> FALSE]
  /\ life = [t \in Timers |-> "none"]
  /\ announcing = {}
  /\ wpc = [w \in Idlers |-> "top"]
  /\ due = [w \in Idlers |-> 0]
  /\ now_ms = [w \in Idlers |-> 0]
  /\ got = [w \in Idlers |-> FALSE]
  /\ pipe = "empty"
  /\ cbs = {}
  /\ retired = {}

----------------------------------------------------------------------------
\* Users.

\* The protected addTimer(val, lock), when the set has become `set` and t's
\* m_next is k.  Two timers due at the same time are ordered by address.
AddToSet(t, set, k) ==
  /\ m_timers' = set \cup {<<k, t>>}
  /\ \E at_front \in BOOLEAN :
       /\ IF at_front THEN ~m_tickled /\ \A e \in set : k <= e[1]
                      ELSE m_tickled \/ \E e \in set : e[1] <= k
       /\ announcing' = IF at_front THEN announcing \cup {t} ELSE announcing
       /\ m_tickled' = (m_tickled \/ at_front)

\* addTimer: the constructor reads the clock...
Construct(t, d) ==
  /\ life[t] = "none"
  /\ life' = [life EXCEPT ![t] = "made"]
  /\ m_ms' = [m_ms EXCEPT ![t] = d]
  /\ m_next' = [m_next EXCEPT ![t] = now + d]
  /\ m_cb' = [m_cb EXCEPT ![t] = TRUE]
  /\ cbs' = {}
  /\ UNCHANGED <<clockVars, m_timers, m_tickled, m_previousTime, announcing,
                 idleVars, pipe, retired>>

\* ... and the timer is inserted under the lock.
Insert(t) ==
  /\ life[t] = "made"
  /\ life' = [life EXCEPT ![t] = "used"]
  /\ AddToSet(t, m_timers, m_next[t])
  /\ cbs' = {}
  /\ UNCHANGED <<clockVars, m_previousTime, m_ms, m_next, m_cb, idleVars, pipe,
                 retired>>

\* IOManager::tickle() writes to the pipe only if hasIdleThread().  A thread at
\* "top" may have entered idle() or not, and may leave it unwoken.
Tickled ==
  /\ pipe' \in {pipe, "new"}
  /\ (\E w \in Idlers : wpc[w] # "top") => pipe' = "new"

\* onTimerInsertAtFront(), which is tickle().
Announce(t) ==
  /\ t \in announcing
  /\ announcing' = announcing \ {t}
  /\ Tickled
  /\ cbs' = {}
  /\ UNCHANGED <<clockVars, m_timers, m_tickled, m_previousTime, timerVars, idleVars,
                 retired>>

\* Somebody else's tickle(), when it writes: schedule() on another thread, run(),
\* stop().
Tickle ==
  /\ pipe' = "new"
  /\ cbs' = {}
  /\ UNCHANGED <<clockVars, m_timers, m_tickled, m_previousTime, timerVars,
                 announcing, idleVars, retired>>

\* Scheduler::stop() calls IOManager::stopping(), and so getNextTimer(), on a
\* thread that is not idle.
Stopping ==
  /\ m_tickled' = FALSE
  /\ cbs' = {}
  /\ UNCHANGED <<clockVars, m_timers, m_previousTime, timerVars, announcing,
                 idleVars, pipe, retired>>

\* Timer::cancel returning true; otherwise it changes nothing.
Cancel(t) ==
  /\ life[t] = "used"
  /\ m_cb[t]
  /\ m_cb' = [m_cb EXCEPT ![t] = FALSE]
  /\ m_timers' = m_timers \ {<<m_next[t], t>>}
  /\ retired' = retired \cup {t}
  /\ cbs' = {}
  /\ UNCHANGED <<clockVars, m_tickled, m_previousTime, m_ms, m_next, life,
                 announcing, idleVars, pipe>>

\* Mutant: refresh does not test m_cb and the iterator.
RefreshUnchecked(t) ==
  /\ life[t] = "used"
  /\ m_next' = [m_next EXCEPT ![t] = now + m_ms[t]]
  /\ m_timers' = (m_timers \ {<<m_next[t], t>>}) \cup {<<now + m_ms[t], t>>}
  /\ cbs' = {}
  /\ UNCHANGED <<clockVars, m_tickled, m_previousTime, m_ms, m_cb, life, announcing,
                 idleVars, pipe, retired>>

\* Timer::refresh returning true.
Refresh(t) ==
  /\ life[t] = "used"
  /\ m_cb[t] /\ Found(t)
  /\ m_next' = [m_next EXCEPT ![t] = now + m_ms[t]]
  /\ m_timers' = (m_timers \ {<<m_next[t], t>>}) \cup {<<now + m_ms[t], t>>}
  /\ cbs' = {}
  /\ UNCHANGED <<clockVars, m_tickled, m_previousTime, m_ms, m_cb, life, announcing,
                 idleVars, pipe, retired>>

\* Mutant: reset assigns m_next before it takes the timer out of the set.
ResetInPlace(t, d, from_now) ==
  LET start == IF from_now THEN now ELSE m_next[t] - m_ms[t] IN
  /\ life[t] = "used"
  /\ d # m_ms[t] \/ from_now
  /\ m_cb[t] /\ Found(t)
  /\ m_ms' = [m_ms EXCEPT ![t] = d]
  /\ m_next' = [m_next EXCEPT ![t] = start + d]
  /\ AddToSet(t, m_timers \ {<<start + d, t>>}, start + d)
  /\ cbs' = {}
  /\ UNCHANGED <<clockVars, m_previousTime, m_cb, life, idleVars, pipe, retired>>

\* Timer::reset(d, from_now) when it changes something.
Reset(t, d, from_now) ==
  LET start == IF from_now THEN now ELSE m_next[t] - m_ms[t] IN
  /\ life[t] = "used"
  /\ d # m_ms[t] \/ from_now
  /\ m_cb[t] /\ Found(t)
  /\ m_ms' = [m_ms EXCEPT ![t] = d]
  /\ m_next' = [m_next EXCEPT ![t] = start + d]
  /\ AddToSet(t, m_timers \ {<<m_next[t], t>>}, start + d)
  /\ cbs' = {}
  /\ UNCHANGED <<clockVars, m_previousTime, m_cb, life, idleVars, pipe, retired>>

----------------------------------------------------------------------------
\* Idle threads.

\* stopping(next_timeout): getNextTimer() clears m_tickled; the time-out is the
\* time to the first timer, MAX_TIMEOUT at most.  (A timer 2^31 ms away, whose
\* time-out the cast to int makes negative, is out of the modelled range.)
GetNextTimer(w) ==
  /\ wpc[w] = "top"
  /\ m_tickled' = FALSE
  /\ LET waits == {MaxTimeout} \cup {IF k > now THEN k - now ELSE 0 : k \in Keys}
     IN \E x \in waits :
          /\ \A y \in waits : x <= y
          /\ due' = [due EXCEPT ![w] = now + x]
  /\ wpc' = [wpc EXCEPT ![w] = "ready"]
  /\ cbs' = {}
  /\ UNCHANGED <<clockVars, m_timers, m_previousTime, timerVars, announcing, now_ms,
                 got, pipe, retired>>

\* epoll_wait is entered.
EpollWait(w) ==
  /\ wpc[w] = "ready"
  /\ wpc' = [wpc EXCEPT ![w] = "wait"]
  /\ cbs' = {}
  /\ UNCHANGED <<clockVars, m_timers, m_tickled, m_previousTime, timerVars,
                 announcing, due, now_ms, got, pipe, retired>>

\* EINTR: epoll_wait is called again, with the same next_timeout.
Interrupted(w) ==
  /\ wpc[w] = "wait"
  /\ wpc' = [wpc EXCEPT ![w] = "ready"]
  /\ cbs' = {}
  /\ UNCHANGED <<clockVars, m_timers, m_tickled, m_previousTime, timerVars,
                 announcing, due, now_ms, got, pipe, retired>>

\* epoll_wait returns: after the time-out, or with events of descriptors, which
\* come at any time; with the pipe among them or (there may be more than
\* MAX_EVENTS) not.  The pipe is reported once for what was written.
\* listExpiredCb reads the clock.
EpollReturns(w) ==
  /\ wpc[w] = "wait"
  /\ \E reported \in BOOLEAN :
       /\ reported => pipe = "new"
       /\ got' = [got EXCEPT ![w] = reported]
       /\ pipe' = IF reported THEN "seen" ELSE pipe
  /\ due' = [due EXCEPT ![w] = 0]
  /\ now_ms' = [now_ms EXCEPT ![w] = now]
  /\ wpc' = [wpc EXCEPT ![w] = "expire"]
  /\ cbs' = {}
  /\ UNCHANGED <<clockVars, m_timers, m_tickled, m_previousTime, timerVars,
                 announcing, retired>>

\* Mutant: after reading the pipe, idle() waits again without looking at the
\* timers.
DrainAndWait(w) ==
  /\ wpc[w] = "drain"
  /\ wpc' = [wpc EXCEPT ![w] = "ready"]
  /\ due' = [due EXCEPT ![w] = now + MaxTimeout]
  /\ got' = [got EXCEPT ![w] = FALSE]
  /\ pipe' = "empty"
  /\ cbs' = {}
  /\ UNCHANGED <<clockVars, m_timers, m_tickled, m_previousTime, timerVars,
                 announcing, now_ms, retired>>

\* After listExpiredCb and schedule() the events are handled: a thread that was
\* told of the pipe reads all that is in it by now.  Then idle() swaps out.
Drain(w) ==
  /\ wpc[w] = "drain"
  /\ wpc' = [wpc EXCEPT ![w] = "top"]
  /\ got' = [got EXCEPT ![w] = FALSE]
  /\ pipe' = "empty"
  /\ cbs' = {}
  /\ UNCHANGED <<clockVars, m_timers, m_tickled, m_previousTime, timerVars,
                 announcing, due, now_ms, retired>>

\* Mutant: any earlier reading counts as a clock that was set back.
RolloverStrict(w) == now_ms[w] < m_previousTime

\* deleteClockRollover.
Rollover(w) ==
  now_ms[w] < m_previousTime /\ now_ms[w] < m_previousTime - Hour

\* The timers listExpiredCb takes out of the set.
Expired(w) ==
  {e[2] : e \in {x \in m_timers : x[1] <= now_ms[w] \/ Rollover(w)}}

\* Mutant: a one-shot timer keeps its m_cb.
ListExpiredKeepCb(w) ==
  LET again == Expired(w) \cap Recurring
      next(t) == now_ms[w] + m_ms[t]
  IN
  /\ wpc[w] = "expire"
  /\ wpc' = [wpc EXCEPT ![w] = IF got[w] THEN "drain" ELSE "top"]
  /\ now_ms' = [now_ms EXCEPT ![w] = 0]
  /\ m_previousTime' = IF m_timers = {} THEN m_previousTime ELSE now_ms[w]
  /\ m_next' = [t \in Timers |-> IF t \in again THEN next(t) ELSE m_next[t]]
  /\ m_timers' = {e \in m_timers : e[2] \notin Expired(w)}
                   \cup {<<next(t), t>> : t \in again}
  /\ retired' = retired \cup (Expired(w) \ Recurring)
  /\ cbs' = Expired(w)
  /\ UNCHANGED <<clockVars, m_tickled, m_ms, m_cb, life, announcing, due, got,
                 pipe>>

\* listExpiredCb under the write lock.  A recurring timer is inserted again,
\* counted from now_ms; a one-shot timer loses its callback.
ListExpired(w) ==
  LET again == Expired(w) \cap Recurring
      next(t) == now_ms[w] + m_ms[t]
  IN
  /\ wpc[w] = "expire"
  /\ wpc' = [wpc EXCEPT ![w] = IF got[w] THEN "drain" ELSE "top"]
  /\ now_ms' = [now_ms EXCEPT ![w] = 0]
  /\ m_previousTime' = IF m_timers = {} THEN m_previousTime ELSE now_ms[w]
  /\ m_next' = [t \in Timers |-> IF t \in again THEN next(t) ELSE m_next[t]]
  /\ m_cb' = [t \in Timers |-> m_cb[t] /\ t \notin Expired(w) \ Recurring]
  /\ m_timers' = {e \in m_timers : e[2] \notin Expired(w)}
                   \cup {<<next(t), t>> : t \in again}
  /\ retired' = retired \cup (Expired(w) \ Recurring)
  /\ cbs' = Expired(w)
  /\ UNCHANGED <<clockVars, m_tickled, m_ms, life, announcing, due, got, pipe>>

----------------------------------------------------------------------------
\* The wall clock.

Tick ==
  /\ now + back < MaxTime
  /\ now' = now + 1
  /\ cbs' = {}
  /\ UNCHANGED <<back, m_timers, m_tickled, m_previousTime, timerVars, announcing,
                 idleVars, pipe, retired>>

\* The clock is set back by d.  epoll_wait counts elapsed time, so a sleeping
\* thread's time-out moves with it (and stays due if it is).  The clock stays
\* past the first hour of the epoch, where m_previousTime - Hour does not wrap
\* around.
SetBack(d) ==
  /\ back + d <= MaxBack
  /\ now - d >= Hour
  /\ now' = now - d
  /\ back' = back + d
  /\ due' = [w \in Idlers |-> IF due[w] <= now THEN now - d ELSE due[w] - d]
  /\ cbs' = {}
  /\ UNCHANGED <<m_timers, m_tickled, m_previousTime, timerVars, announcing,
                 wpc, now_ms, got, pipe, retired>>

\* The end of the modelled time.
TimeIsUp ==
  /\ now + back = MaxTime
  /\ UNCHANGED vars

UserStep(t) ==
  \/ \E d \in Durations : Construct(t, d)
  \/ Insert(t) \/ Announce(t) \/ Cancel(t) \/ Refresh(t)
  \/ \E d \in Durations, b \in BOOLEAN : Reset(t, d, b)

IdleStep(w) ==
  \/ GetNextTimer(w) \/ EpollWait(w) \/ Interrupted(w) \/ EpollReturns(w)
  \/ ListExpired(w) \/ Drain(w)

Next ==
  \/ \E t \in Timers : UserStep(t)
  \/ \E w \in Idlers : IdleStep(w)
  \/ Tickle \/ Stopping
  \/ Tick
  \/ \E d \in ClockBack : SetBack(d)
  \/ TimeIsUp

Spec == Init /\ [][Next]_vars

----------------------------------------------------------------------------
\* Properties.

\* Type correctness of the manager, the timers and the idle threads.
TypeOK ==
  /\ now \in Int /\ back \in Nat
  /\ m_timers \in SUBSET (Int \X Timers)
  /\ m_tickled \in BOOLEAN
  /\ m_previousTime \in Int
  /\ m_ms \in [Timers -> Nat]
  /\ m_next \in [Timers -> Int]
  /\ m_cb \in [Timers -> BOOLEAN]
  /\ life \in [Timers -> {"none", "made", "used"}]
  /\ announcing \in SUBSET Timers
  /\ wpc \in [Idlers -> {"top", "ready", "wait", "expire", "drain"}]
  /\ due \in [Idlers -> Int]
  /\ now_ms \in [Idlers -> Int]
  /\ got \in [Idlers -> BOOLEAN]
  /\ pipe \in {"empty", "new", "seen"}
  /\ cbs \in SUBSET Timers
  /\ retired \in SUBSET Timers

\* A timer that users may touch has its callback exactly while it is in the
\* set, once, under the key m_next: cancel's erase(find(...)) never erases
\* end(), refresh and reset never fail on a live timer, and no timer that is
\* listed twice survives its own cancellation.
CbIffListed ==
  /\ \A t \in Timers : life[t] = "used" => (m_cb[t] <=> Found(t))
  /\ \A e \in m_timers : life[e[2]] = "used" /\ e[1] = m_next[e[2]]

\* After cancel() has returned true, and after a one-shot timer has fired, no
\* listExpiredCb of any thread hands its callback out again.
RetiredStaysRetired == [][cbs' \cap retired = {}]_vars

\* While the clock is never set back, no callback is handed out before its
\* time, although listExpiredCb works with a clock value read earlier: unless a
\* thread is held up for more than the hour of deleteClockRollover between
\* reading the clock and taking the lock.
Punctual == \A w \in Idlers : wpc[w] = "expire" => now - now_ms[w] <= Hour
NeverEarly == [][back = 0 /\ Punctual => \A t \in cbs' : m_next[t] <= now]_vars

\* While the clock is never set back: when every idle thread has looked at the
\* timers and is in or just before epoll_wait, and no tickle is unreported or
\* about to be written, some thread has asked epoll_wait to return no later than
\* the first timer (or than MAX_TIMEOUT allows).  m_tickled suppresses tickles and
\* the drain after listExpiredCb swallows them, but never the last one that was
\* needed: whoever swallows it looks again.  How much later than asked the thread
\* wakes is its own delay before epoll_wait, and the time signals make it repeat.
NoOversleep ==
  (/\ back = 0
   /\ \A w \in Idlers : wpc[w] \in {"ready", "wait"}
   /\ pipe # "new"
   /\ announcing = {})
  => \A k \in Keys : \E w \in Idlers : due[w] <= k \/ due[w] <= now
=============================================================================
