------------------------- MODULE TimerManagerProofs -------------------------
(***************************************************************************)
(* For every set of timers, threads and durations, and however the wall    *)
(* clock is set back: a timer has a callback exactly while it is in the    *)
(* set under its own m_next, and a retired timer never fires again.        *)
(***************************************************************************)
EXTENDS TimerManager, TLAPS

\* A constructed timer has its callback; a retired one has lost it for good.
LifeOK ==
  /\ \A t \in Timers : life[t] = "made" => m_cb[t]
  /\ \A t \in retired : life[t] = "used" /\ ~m_cb[t]

\* The inductive invariant.
IInv == TypeOK /\ CbIffListed /\ LifeOK

USE DEF clockVars, timerVars, idleVars

LEMMA InitIInv == Init => IInv
<1> SUFFICES ASSUME Init PROVE IInv OBVIOUS
<1>1. TypeOK
  <2>1. m_cb \in [Timers -> BOOLEAN] BY Zenon DEF Init
  <2>2. m_timers \in SUBSET (Int \X Timers) BY DEF Init
  <2>3. m_ms \in [Timers -> Nat] /\ m_next \in [Timers -> Int] BY DEF Init
  <2>4. life \in [Timers -> {"none", "made", "used"}] BY DEF Init
  <2>5. /\ wpc \in [Idlers -> {"top", "ready", "wait", "expire", "drain"}]
        /\ due \in [Idlers -> Int] /\ now_ms \in [Idlers -> Int]
    BY DEF Init
  <2>6. now \in Int /\ back \in Nat /\ m_previousTime \in Int
    BY TimesAssumption DEF Init
  <2>7. /\ m_tickled \in BOOLEAN /\ pipe \in {"empty", "new", "seen"}
        /\ got \in [Idlers -> BOOLEAN]
    BY Zenon DEF Init
  <2>8. announcing = {} /\ cbs = {} /\ retired = {} BY DEF Init
  <2> QED BY <2>1, <2>2, <2>3, <2>4, <2>5, <2>6, <2>7, <2>8 DEF TypeOK
<1>2. CbIffListed BY DEF Init, CbIffListed, Found
<1>3. LifeOK BY DEF Init, LifeOK
<1> QED BY <1>1, <1>2, <1>3 DEF IInv

\* An entry of the set is a pair of a key and a timer.
LEMMA EntryShape ==
  ASSUME TypeOK, NEW e \in m_timers
  PROVE e[1] \in Int /\ e[2] \in Timers /\ e = <<e[1], e[2]>>
BY DEF TypeOK

LEMMA AddToSetType ==
  ASSUME TypeOK, NEW t \in Timers, NEW set \in SUBSET (Int \X Timers),
         NEW k \in Int, AddToSet(t, set, k)
  PROVE /\ m_timers' = set \cup {<<k, t>>}
        /\ m_timers' \in SUBSET (Int \X Timers)
        /\ announcing' \in SUBSET Timers
        /\ m_tickled' \in BOOLEAN
BY DEF AddToSet, TypeOK

LEMMA ConstructInv ==
  ASSUME IInv, NEW t \in Timers, NEW d \in Durations, Construct(t, d)
  PROVE IInv'
<1>1. d \in Nat /\ now \in Int BY TimesAssumption DEF IInv, TypeOK
<1>2. TypeOK' BY <1>1 DEF Construct, IInv, TypeOK
<1>3. CbIffListed'
  BY EntryShape DEF Construct, IInv, TypeOK, CbIffListed, Found
<1>4. LifeOK' BY DEF Construct, IInv, TypeOK, LifeOK
<1> QED BY <1>2, <1>3, <1>4 DEF IInv

LEMMA InsertInv ==
  ASSUME IInv, NEW t \in Timers, Insert(t)
  PROVE IInv'
<1>1. AddToSet(t, m_timers, m_next[t]) /\ m_next[t] \in Int
  BY DEF Insert, IInv, TypeOK
<1>2. /\ m_timers' = m_timers \cup {<<m_next[t], t>>}
      /\ m_timers' \in SUBSET (Int \X Timers)
      /\ announcing' \in SUBSET Timers
      /\ m_tickled' \in BOOLEAN
  BY <1>1, AddToSetType DEF IInv, TypeOK
<1>3. TypeOK' BY <1>2 DEF Insert, IInv, TypeOK
<1>4. CbIffListed'
  BY <1>2, EntryShape DEF Insert, IInv, TypeOK, CbIffListed, Found, LifeOK
<1>5. LifeOK' BY DEF Insert, IInv, TypeOK, LifeOK
<1> QED BY <1>3, <1>4, <1>5 DEF IInv

\* tickle() leaves the pipe as it is or makes it readable.
LEMMA TickledType ==
  ASSUME TypeOK, Tickled PROVE pipe' \in {"empty", "new", "seen"}
BY DEF Tickled, TypeOK

LEMMA AnnounceInv ==
  ASSUME IInv, NEW t \in Timers, Announce(t)
  PROVE IInv'
<1>1. pipe' \in {"empty", "new", "seen"} BY TickledType DEF Announce, IInv
<1> QED BY <1>1 DEF Announce, IInv, TypeOK, CbIffListed, Found, LifeOK

LEMMA OthersInv ==
  ASSUME IInv, Tickle \/ Stopping
  PROVE IInv'
<1>1. pipe' \in {"empty", "new", "seen"}
  BY TickledType DEF Tickle, Stopping, IInv, TypeOK
<1> QED BY <1>1 DEF Tickle, Stopping, IInv, TypeOK, CbIffListed, Found, LifeOK

LEMMA CancelInv ==
  ASSUME IInv, NEW t \in Timers, Cancel(t)
  PROVE IInv'
<1>1. TypeOK' BY DEF Cancel, IInv, TypeOK
<1>2. CbIffListed'
  BY EntryShape DEF Cancel, IInv, TypeOK, CbIffListed, Found
<1>3. LifeOK' BY DEF Cancel, IInv, TypeOK, LifeOK
<1> QED BY <1>1, <1>2, <1>3 DEF IInv

\* refresh and reset take a listed timer out and put it back under key k.
LEMMA RelistInv ==
  ASSUME IInv, NEW t \in Timers, NEW k \in Int,
         life[t] = "used", m_cb[t], Found(t),
         m_next' = [m_next EXCEPT ![t] = k],
         m_timers' = (m_timers \ {<<m_next[t], t>>}) \cup {<<k, t>>},
         m_cb' = m_cb, life' = life, retired' = retired
  PROVE CbIffListed' /\ LifeOK'
<1>1. CbIffListed'
  BY EntryShape DEF IInv, TypeOK, CbIffListed, Found
<1>2. LifeOK' BY DEF IInv, LifeOK
<1> QED BY <1>1, <1>2

LEMMA RefreshInv ==
  ASSUME IInv, NEW t \in Timers, Refresh(t)
  PROVE IInv'
<1>1. now + m_ms[t] \in Int BY DEF IInv, TypeOK
<1>2. TypeOK' BY <1>1 DEF Refresh, IInv, TypeOK
<1>3. CbIffListed' /\ LifeOK' BY <1>1, RelistInv DEF Refresh
<1> QED BY <1>2, <1>3 DEF IInv

LEMMA ResetInv ==
  ASSUME IInv, NEW t \in Timers, NEW d \in Durations, NEW b \in BOOLEAN,
         Reset(t, d, b)
  PROVE IInv'
<1> DEFINE k == (IF b THEN now ELSE m_next[t] - m_ms[t]) + d
           rest == m_timers \ {<<m_next[t], t>>}
<1>1. d \in Nat /\ k \in Int BY TimesAssumption DEF IInv, TypeOK
<1>2. rest \in SUBSET (Int \X Timers) BY DEF IInv, TypeOK
<1>3. AddToSet(t, rest, k) BY DEF Reset
<1>4. /\ m_timers' = rest \cup {<<k, t>>}
      /\ m_timers' \in SUBSET (Int \X Timers)
      /\ announcing' \in SUBSET Timers
      /\ m_tickled' \in BOOLEAN
  BY <1>1, <1>2, <1>3, AddToSetType DEF IInv
<1>5. m_next' = [m_next EXCEPT ![t] = k] BY DEF Reset
<1> HIDE DEF k
<1>6. TypeOK' BY <1>1, <1>4, <1>5 DEF Reset, IInv, TypeOK
<1>7. CbIffListed' /\ LifeOK'
  BY <1>1, <1>4, <1>5, RelistInv DEF Reset
<1> QED BY <1>6, <1>7 DEF IInv

\* A step that leaves the timers and the set alone.
LEMMA SetUntouched ==
  ASSUME IInv, m_timers' = m_timers, m_next' = m_next, m_cb' = m_cb,
         life' = life, retired' = retired
  PROVE CbIffListed' /\ LifeOK'
BY DEF IInv, CbIffListed, Found, LifeOK

LEMMA GetNextTimerInv ==
  ASSUME IInv, NEW w \in Idlers, GetNextTimer(w)
  PROVE IInv'
<1> DEFINE waits == {MaxTimeout} \cup {IF k > now THEN k - now ELSE 0 : k \in Keys}
<1>1. PICK x \in waits : due' = [due EXCEPT ![w] = now + x]
  BY DEF GetNextTimer
<1>2. \A k \in Keys : k \in Int BY EntryShape DEF Keys, IInv
<1>3. now + x \in Int BY <1>2, TimesAssumption DEF IInv, TypeOK
<1>4. TypeOK' BY <1>1, <1>3 DEF GetNextTimer, IInv, TypeOK
<1>5. CbIffListed' /\ LifeOK' BY SetUntouched DEF GetNextTimer
<1> QED BY <1>4, <1>5 DEF IInv

LEMMA EpollInv ==
  ASSUME IInv, NEW w \in Idlers,
         EpollWait(w) \/ Interrupted(w) \/ EpollReturns(w) \/ Drain(w)
  PROVE IInv'
<1>1. CASE EpollWait(w) \/ Interrupted(w)
  <2>1. TypeOK' BY <1>1 DEF EpollWait, Interrupted, IInv, TypeOK
  <2>2. CbIffListed' /\ LifeOK'
    BY <1>1, SetUntouched DEF EpollWait, Interrupted
  <2> QED BY <2>1, <2>2 DEF IInv
<1>2. CASE EpollReturns(w)
  <2>1. now_ms' \in [Idlers -> Int] /\ due' \in [Idlers -> Int]
    BY <1>2 DEF EpollReturns, IInv, TypeOK
  <2>2. wpc' \in [Idlers -> {"top", "ready", "wait", "expire", "drain"}]
    BY <1>2 DEF EpollReturns, IInv, TypeOK
  <2>3. got' \in [Idlers -> BOOLEAN] BY <1>2, Zenon DEF EpollReturns, IInv, TypeOK
  <2>4. pipe' \in {"empty", "new", "seen"} BY <1>2 DEF EpollReturns, IInv, TypeOK
  <2>5. TypeOK' BY <1>2, <2>1, <2>2, <2>3, <2>4 DEF EpollReturns, IInv, TypeOK
  <2>6. CbIffListed' /\ LifeOK' BY <1>2, SetUntouched DEF EpollReturns
  <2> QED BY <2>5, <2>6 DEF IInv
<1>3. CASE Drain(w)
  <2>1. wpc' \in [Idlers -> {"top", "ready", "wait", "expire", "drain"}]
    BY <1>3 DEF Drain, IInv, TypeOK
  <2>2. got' \in [Idlers -> BOOLEAN] BY <1>3 DEF Drain, IInv, TypeOK
  <2>3. TypeOK' BY <1>3, <2>1, <2>2 DEF Drain, IInv, TypeOK
  <2>4. CbIffListed' /\ LifeOK' BY <1>3, SetUntouched DEF Drain
  <2> QED BY <2>3, <2>4 DEF IInv
<1> QED BY <1>1, <1>2, <1>3

LEMMA ClockInv ==
  ASSUME IInv, Tick \/ \E d \in ClockBack : SetBack(d)
  PROVE IInv'
<1>1. CASE Tick
  <2>1. TypeOK' BY <1>1 DEF Tick, IInv, TypeOK
  <2>2. CbIffListed' /\ LifeOK' BY <1>1, SetUntouched DEF Tick
  <2> QED BY <2>1, <2>2 DEF IInv
<1>2. ASSUME NEW d \in ClockBack, SetBack(d) PROVE IInv'
  <2>1. d \in Nat BY TimesAssumption
  <2>2. TypeOK' BY <1>2, <2>1 DEF SetBack, IInv, TypeOK
  <2>3. CbIffListed' /\ LifeOK' BY <1>2, SetUntouched DEF SetBack
  <2> QED BY <2>2, <2>3 DEF IInv
<1> QED BY <1>1, <1>2

\* A timer expires only from the set: it is used, has its callback, and has
\* no other entry.
LEMMA ExpiredListed ==
  ASSUME IInv, NEW w \in Idlers
  PROVE \A t \in Expired(w) : t \in Timers /\ life[t] = "used" /\ Found(t) /\ m_cb[t]
<1> SUFFICES ASSUME NEW t \in Expired(w)
             PROVE t \in Timers /\ life[t] = "used" /\ Found(t) /\ m_cb[t]
  OBVIOUS
<1>1. PICK e \in m_timers : t = e[2] BY DEF Expired
<1>2. e[1] \in Int /\ t \in Timers /\ e = <<e[1], t>>
  BY <1>1, EntryShape DEF IInv
<1>3. life[t] = "used" /\ e[1] = m_next[t]
  BY <1>1 DEF IInv, CbIffListed
<1>4. <<m_next[t], t>> \in m_timers BY <1>2, <1>3
<1>5. Found(t) BY <1>4 DEF Found
<1> QED BY <1>2, <1>3, <1>5 DEF IInv, CbIffListed

LEMMA ListExpiredInv ==
  ASSUME IInv, NEW w \in Idlers, ListExpired(w)
  PROVE IInv'
<1> DEFINE X == Expired(w)
           again == X \cap Recurring
           next(t) == now_ms[w] + m_ms[t]
<1>1. \A t \in X : t \in Timers /\ life[t] = "used" /\ Found(t) /\ m_cb[t]
  BY ExpiredListed
<1>2. \A t \in Timers : next(t) \in Int BY DEF IInv, TypeOK
<1>3. /\ m_next' = [t \in Timers |-> IF t \in again THEN next(t) ELSE m_next[t]]
      /\ m_cb' = [t \in Timers |-> m_cb[t] /\ t \notin X \ Recurring]
      /\ m_timers' = {e \in m_timers : e[2] \notin X}
                       \cup {<<next(t), t>> : t \in again}
      /\ retired' = retired \cup (X \ Recurring)
      /\ cbs' = X
      /\ life' = life
  BY DEF ListExpired
<1> HIDE DEF X, next
<1>4. TypeOK'
  <2>1. m_timers' \in SUBSET (Int \X Timers)
    BY <1>1, <1>2, <1>3 DEF IInv, TypeOK
  <2>2. m_next' \in [Timers -> Int] BY <1>2, <1>3 DEF IInv, TypeOK
  <2>3. m_cb' \in [Timers -> BOOLEAN] BY <1>3 DEF IInv, TypeOK
  <2>4. retired' \in SUBSET Timers /\ cbs' \in SUBSET Timers
    BY <1>1, <1>3 DEF IInv, TypeOK
  <2>5. now_ms' \in [Idlers -> Int] /\ m_previousTime' \in Int
    BY DEF ListExpired, IInv, TypeOK
  <2>6. wpc' \in [Idlers -> {"top", "ready", "wait", "expire", "drain"}]
    BY DEF ListExpired, IInv, TypeOK
  <2> QED
    BY <2>1, <2>2, <2>3, <2>4, <2>5, <2>6 DEF ListExpired, IInv, TypeOK
<1>5. CbIffListed'
  <2>1. ASSUME NEW e \in m_timers'
        PROVE life'[e[2]] = "used" /\ e[1] = m_next'[e[2]]
    <3>1. CASE e \in m_timers /\ e[2] \notin X
      BY <1>3, <3>1, EntryShape DEF IInv, CbIffListed
    <3>2. CASE \E t \in again : e = <<next(t), t>>
      BY <1>1, <1>3, <3>2
    <3> QED BY <1>3, <3>1, <3>2
  <2>2. ASSUME NEW t \in Timers, life'[t] = "used"
        PROVE m_cb'[t] <=> Found(t)'
    <3>0. life[t] = "used" /\ (m_cb[t] <=> <<m_next[t], t>> \in m_timers)
      BY <1>3, <2>2 DEF IInv, CbIffListed, Found
    <3>1. CASE t \in again
      <4>1. m_next'[t] = next(t) /\ (m_cb'[t] <=> m_cb[t]) BY <1>3, <3>1
      <4>2. <<next(t), t>> \in m_timers' BY <1>3, <3>1
      <4> QED BY <1>1, <3>1, <4>1, <4>2 DEF Found
    <3>2. CASE t \in X /\ t \notin again
      <4>1. ~m_cb'[t] BY <1>3, <3>2
      <4>2. \A e \in m_timers' : e[2] # t BY <1>3, <3>2
      <4> QED BY <4>1, <4>2 DEF Found
    <3>3. CASE t \notin X
      <4>1. m_next'[t] = m_next[t] /\ (m_cb'[t] <=> m_cb[t]) BY <1>3, <3>3
      <4>2. <<m_next[t], t>> \in m_timers' <=> <<m_next[t], t>> \in m_timers
        BY <1>3, <3>3
      <4> QED BY <3>0, <4>1, <4>2 DEF Found
    <3> QED BY <3>1, <3>2, <3>3
  <2> QED BY <2>1, <2>2 DEF CbIffListed
<1>6. LifeOK'
  <2>1. ASSUME NEW t \in Timers, life'[t] = "made" PROVE m_cb'[t]
    BY <1>1, <1>3, <2>1 DEF IInv, LifeOK
  <2>2. ASSUME NEW t \in retired' PROVE life'[t] = "used" /\ ~m_cb'[t]
    BY <1>1, <1>3, <2>2 DEF IInv, TypeOK, LifeOK
  <2> QED BY <2>1, <2>2 DEF LifeOK
<1> QED BY <1>4, <1>5, <1>6 DEF IInv

LEMMA NextIInv == IInv /\ [Next]_vars => IInv'
<1> SUFFICES ASSUME IInv, [Next]_vars PROVE IInv' OBVIOUS
<1>1. ASSUME NEW t \in Timers, UserStep(t) PROVE IInv'
  BY <1>1, ConstructInv, InsertInv, AnnounceInv, CancelInv, RefreshInv, ResetInv
  DEF UserStep
<1>2. ASSUME NEW w \in Idlers, IdleStep(w) PROVE IInv'
  BY <1>2, GetNextTimerInv, EpollInv, ListExpiredInv DEF IdleStep
<1>3. CASE Tickle \/ Stopping BY <1>3, OthersInv
<1>4. CASE Tick \/ \E d \in ClockBack : SetBack(d)
  BY <1>4, ClockInv
<1>5. CASE UNCHANGED vars \/ TimeIsUp
  BY <1>5 DEF TimeIsUp, vars, IInv, TypeOK, CbIffListed, Found, LifeOK
<1> QED BY <1>1, <1>2, <1>3, <1>4, <1>5 DEF Next

LEMMA IInvAlways == Spec => []IInv
BY InitIInv, NextIInv, PTL DEF Spec

\* The state of the timers, the set and the idle threads keeps its types.
THEOREM TimersTyped == Spec => []TypeOK
<1>1. IInv => TypeOK BY DEF IInv
<1> QED BY <1>1, IInvAlways, PTL

\* Whatever cancel, refresh, reset and listExpiredCb interleave, and however
\* the clock jumps: a timer has its callback exactly while the set lists it
\* under its m_next, so erase(find(timer)) in cancel never gets end().
THEOREM TimerCbIffListed == Spec => []CbIffListed
<1>1. IInv => CbIffListed BY DEF IInv
<1> QED BY <1>1, IInvAlways, PTL

\* Only listExpiredCb hands callbacks out.
LEMMA CbsFrom ==
  ASSUME Next
  PROVE cbs' = {} \/ (\E w \in Idlers : ListExpired(w)) \/ UNCHANGED vars
<1>1. ASSUME NEW w \in Idlers, IdleStep(w), ~ListExpired(w) PROVE cbs' = {}
  BY <1>1 DEF IdleStep, GetNextTimer, EpollWait, Interrupted, EpollReturns, Drain
<1>2. ASSUME NEW t \in Timers, UserStep(t) PROVE cbs' = {}
  BY <1>2 DEF UserStep, Construct, Insert, Announce, Cancel, Refresh, Reset
<1>3. CASE Tickle \/ Stopping \/ Tick \/ \E d \in ClockBack : SetBack(d)
  BY <1>3 DEF Tickle, Stopping, Tick, SetBack
<1> QED BY <1>1, <1>2, <1>3 DEF Next, TimeIsUp

\* A cancelled timer, and a one-shot timer that fired, is never handed out
\* by a later listExpiredCb.
THEOREM TimerRetiredStaysRetired == Spec => RetiredStaysRetired
<1>1. IInv /\ [Next]_vars => [cbs' \cap retired = {}]_vars
  <2> SUFFICES ASSUME IInv, Next PROVE cbs' \cap retired = {} \/ UNCHANGED vars
    OBVIOUS
  <2>1. ASSUME NEW w \in Idlers, ListExpired(w) PROVE cbs' \cap retired = {}
    <3>1. cbs' = Expired(w) BY <2>1 DEF ListExpired
    <3>2. \A t \in Expired(w) : m_cb[t] BY ExpiredListed
    <3> QED BY <3>1, <3>2 DEF IInv, LifeOK
  <2> QED BY <2>1, CbsFrom
<1> QED BY <1>1, IInvAlways, PTL DEF Spec, RetiredStaysRetired

----------------------------------------------------------------------------
\* No callback before its time.

\* While the clock is never set back, every clock value that was read lies in
\* the past: the local now_ms of a thread in listExpiredCb, m_previousTime, and
\* the time a timer's m_next was counted from.
ReadBefore ==
  back = 0 =>
    /\ \A w \in Idlers : wpc[w] = "expire" => now_ms[w] <= now
    /\ m_previousTime <= now
    /\ \A t \in Timers : life[t] # "none" => m_next[t] - m_ms[t] <= now

LEMMA InitReadBefore == Init => ReadBefore
BY TimesAssumption DEF Init, ReadBefore

\* A step that moves neither a clock value nor a timer's time.
LEMMA TimesUntouched ==
  ASSUME IInv, ReadBefore, now' = now, back' = back, m_ms' = m_ms,
         m_next' = m_next, m_previousTime' = m_previousTime,
         \A w \in Idlers : wpc'[w] = "expire" =>
            \/ wpc[w] = "expire" /\ now_ms'[w] = now_ms[w]
            \/ now_ms'[w] = now,
         \A t \in Timers : life'[t] # "none" => life[t] # "none"
  PROVE ReadBefore'
BY DEF IInv, TypeOK, ReadBefore

LEMMA NextReadBefore == IInv /\ ReadBefore /\ [Next]_vars => ReadBefore'
<1> SUFFICES ASSUME IInv, ReadBefore, [Next]_vars PROVE ReadBefore' OBVIOUS
<1>1. ASSUME NEW t \in Timers, NEW d \in Durations, Construct(t, d)
      PROVE ReadBefore'
  <2>1. d \in Nat BY TimesAssumption
  <2> QED BY <1>1, <2>1 DEF Construct, IInv, TypeOK, ReadBefore
<1>2. ASSUME NEW t \in Timers, Insert(t) \/ Announce(t) \/ Cancel(t)
      PROVE ReadBefore'
  <2>1. \A u \in Timers : life'[u] # "none" => life[u] # "none"
    BY <1>2 DEF Insert, Announce, Cancel, IInv, TypeOK
  <2> QED BY <1>2, <2>1, TimesUntouched DEF Insert, Announce, Cancel
<1>3. ASSUME NEW t \in Timers, Refresh(t) PROVE ReadBefore'
  BY <1>3 DEF Refresh, IInv, TypeOK, ReadBefore
<1>4. ASSUME NEW t \in Timers, NEW d \in Durations, NEW b \in BOOLEAN,
             Reset(t, d, b)
      PROVE ReadBefore'
  <2> DEFINE start == IF b THEN now ELSE m_next[t] - m_ms[t]
  <2>1. d \in Nat BY TimesAssumption
  <2>2. start \in Int /\ (back = 0 => start <= now)
    BY <1>4 DEF Reset, IInv, TypeOK, ReadBefore
  <2>3. /\ m_ms' = [m_ms EXCEPT ![t] = d]
        /\ m_next' = [m_next EXCEPT ![t] = start + d]
    BY <1>4 DEF Reset
  <2> HIDE DEF start
  <2> QED BY <1>4, <2>1, <2>2, <2>3 DEF Reset, IInv, TypeOK, ReadBefore
<1>5. ASSUME NEW w \in Idlers, IdleStep(w), ~ListExpired(w) PROVE ReadBefore'
  <2>1. \A v \in Idlers : wpc'[v] = "expire" =>
            \/ wpc[v] = "expire" /\ now_ms'[v] = now_ms[v]
            \/ now_ms'[v] = now
    <3>1. CASE EpollReturns(w) BY <3>1 DEF EpollReturns, IInv, TypeOK
    <3>2. CASE GetNextTimer(w) BY <3>2 DEF GetNextTimer, IInv, TypeOK
    <3>3. CASE EpollWait(w) \/ Interrupted(w) \/ Drain(w)
      BY <3>3 DEF EpollWait, Interrupted, Drain, IInv, TypeOK
    <3> QED BY <1>5, <3>1, <3>2, <3>3 DEF IdleStep
  <2>2. /\ now' = now /\ back' = back /\ m_ms' = m_ms /\ m_next' = m_next
        /\ m_previousTime' = m_previousTime /\ life' = life
    BY <1>5 DEF IdleStep, GetNextTimer, EpollWait, Interrupted, EpollReturns, Drain
  <2> QED BY <2>1, <2>2, TimesUntouched
<1>6. ASSUME NEW w \in Idlers, ListExpired(w) PROVE ReadBefore'
  <2>1. /\ m_next' = [t \in Timers |-> IF t \in Expired(w) \cap Recurring
                                       THEN now_ms[w] + m_ms[t] ELSE m_next[t]]
        /\ m_previousTime' \in {m_previousTime, now_ms[w]}
        /\ wpc[w] = "expire"
        /\ wpc' = [wpc EXCEPT ![w] = IF got[w] THEN "drain" ELSE "top"]
        /\ now_ms' = [now_ms EXCEPT ![w] = 0]
        /\ now' = now /\ back' = back /\ m_ms' = m_ms /\ life' = life
    BY <1>6 DEF ListExpired
  <2> QED BY <2>1 DEF IInv, TypeOK, ReadBefore
<1>7. CASE Tick BY <1>7 DEF Tick, IInv, TypeOK, ReadBefore
<1>8. ASSUME NEW d \in ClockBack, SetBack(d) PROVE ReadBefore'
  <2>1. d \in Nat BY TimesAssumption
  <2>2. back' = 0 => back = 0 /\ now' = now
    BY <1>8, <2>1 DEF SetBack, IInv, TypeOK
  <2> QED BY <1>8, <2>2 DEF SetBack, ReadBefore
<1>9. CASE UNCHANGED vars \/ TimeIsUp \/ Tickle \/ Stopping
  BY <1>9 DEF TimeIsUp, Tickle, Stopping, vars, ReadBefore
<1> QED
  BY <1>1, <1>2, <1>3, <1>4, <1>5, <1>6, <1>7, <1>8, <1>9
  DEF Next, UserStep

LEMMA ReadBeforeAlways == Spec => []ReadBefore
BY InitReadBefore, NextReadBefore, IInvAlways, PTL DEF Spec

\* While the clock is not set back and no thread is held up for an hour between
\* reading the clock and taking the lock, listExpiredCb hands out only timers
\* that are due, however many threads run it at once.
THEOREM TimerNeverEarly == Spec => NeverEarly
<1>1. IInv /\ ReadBefore /\ [Next]_vars =>
        [back = 0 /\ Punctual => \A t \in cbs' : m_next[t] <= now]_vars
  <2> SUFFICES ASSUME IInv, ReadBefore, Next, back = 0, Punctual
               PROVE (\A t \in cbs' : m_next[t] <= now) \/ UNCHANGED vars
    OBVIOUS
  <2>1. ASSUME NEW w \in Idlers, ListExpired(w), NEW t \in cbs'
        PROVE m_next[t] <= now
    <3>1. wpc[w] = "expire" /\ cbs' = Expired(w) BY <2>1 DEF ListExpired
    <3>2. PICK e \in m_timers : t = e[2] /\ (e[1] <= now_ms[w] \/ Rollover(w))
      BY <2>1, <3>1 DEF Expired
    <3>3. /\ now_ms[w] <= now /\ now - now_ms[w] <= Hour
          /\ m_previousTime <= now
      BY <3>1 DEF ReadBefore, Punctual
    <3>4. /\ now \in Int /\ now_ms[w] \in Int /\ m_previousTime \in Int
          /\ e[1] \in Int /\ Hour \in Nat
      BY EntryShape, TimesAssumption DEF IInv, TypeOK
    <3>5. ~Rollover(w) BY <3>3, <3>4 DEF Rollover
    <3>6. e[1] = m_next[t] BY <3>2 DEF IInv, CbIffListed
    <3> QED BY <3>2, <3>3, <3>4, <3>5, <3>6
  <2> QED BY <2>1, CbsFrom
<1> QED BY <1>1, IInvAlways, ReadBeforeAlways, PTL DEF Spec, NeverEarly

----------------------------------------------------------------------------
\* Nobody oversleeps.

\* Somebody will look at the set again before it sleeps: a thread that is not
\* in or just before epoll_wait, one that the pipe will wake, or a tickle on its
\* way.
LookComes ==
  \/ announcing # {}
  \/ pipe = "new"
  \/ \E w \in Idlers : wpc[w] \notin {"ready", "wait"}

\* A thread has asked to sleep no longer than to key k.
Covered(k) == \E w \in Idlers : due[w] <= k \/ due[w] <= now

\* m_tickled stands for a look that is still to come, so an insertion may rely
\* on it; and without such a look every key is covered.
Attended ==
  /\ m_tickled => LookComes
  /\ back = 0 => LookComes \/ \A k \in Keys : Covered(k)

LEMMA InitAttended == Init => Attended
BY TimesAssumption DEF Init, Attended, LookComes, Keys

\* The keys of a set with one more entry.
LEMMA KeysOf ==
  ASSUME NEW S, NEW k, NEW t, m_timers' = S \cup {<<k, t>>}, S \subseteq m_timers
  PROVE \A j \in Keys' : j = k \/ \E e \in S : e[1] = j
BY DEF Keys

\* addTimer(val, lock): if it does not tickle, the first key is not later, or a
\* tickle is already on its way.
LEMMA AddToSetAttended ==
  ASSUME IInv, Attended, NEW t \in Timers, NEW S \in SUBSET m_timers, NEW k \in Int,
         AddToSet(t, S, k),
         now' = now, back' = back, wpc' = wpc, due' = due, pipe' = pipe
  PROVE Attended'
<1>1. m_timers' = S \cup {<<k, t>>} BY DEF AddToSet
<1>2. PICK at_front \in BOOLEAN :
        /\ IF at_front THEN ~m_tickled /\ \A e \in S : k <= e[1]
                       ELSE m_tickled \/ \E e \in S : e[1] <= k
        /\ announcing' = IF at_front THEN announcing \cup {t} ELSE announcing
        /\ m_tickled' = (m_tickled \/ at_front)
  BY DEF AddToSet
<1>3. CASE at_front
  <2>1. t \in announcing' BY <1>2, <1>3
  <2> QED BY <2>1 DEF Attended, LookComes
<1>4. CASE ~at_front /\ m_tickled
  <2>1. announcing' = announcing BY <1>2, <1>4
  <2>2. LookComes' BY <1>4, <2>1 DEF Attended, LookComes
  <2> QED BY <2>2 DEF Attended
<1>5. CASE ~at_front /\ ~m_tickled
  <2>1. announcing' = announcing /\ ~m_tickled' BY <1>2, <1>5
  <2>2. PICK e \in S : e[1] <= k BY <1>2, <1>5
  <2>3. e[1] \in Int /\ e[1] <= k BY <2>2, EntryShape DEF IInv
  <2>4. SUFFICES ASSUME back = 0, ~LookComes PROVE \A j \in Keys' : Covered(j)'
    BY <2>1 DEF Attended, LookComes
  <2>5. \A j \in Keys : Covered(j) BY <2>4 DEF Attended
  <2>6. \A f \in S : f[1] \in Keys BY DEF Keys
  <2>7. \A f \in S : Covered(f[1])' BY <2>5, <2>6 DEF Covered
  <2>8. Covered(k)'
    BY <2>3, <2>7 DEF Covered, IInv, TypeOK
  <2> QED BY <1>1, <2>7, <2>8, KeysOf
<1> QED BY <1>3, <1>4, <1>5

\* A step that removes keys at most.
LEMMA FewerKeys ==
  ASSUME Attended, Keys' \subseteq Keys, now' = now, back' = back, wpc' = wpc,
         due' = due, pipe' = pipe, announcing' = announcing,
         m_tickled' = m_tickled
  PROVE Attended'
BY DEF Attended, LookComes, Covered

\* tickle() wakes a sleeper, or nobody sleeps.
LEMMA TickledLooks ==
  ASSUME Tickled, wpc' = wpc PROVE LookComes'
<1>1. CASE \E w \in Idlers : wpc[w] # "top"
  BY <1>1 DEF Tickled, LookComes
<1>2. CASE \A w \in Idlers : wpc[w] = "top"
  <2>1. PICK w \in Idlers : TRUE BY TimesAssumption
  <2>2. wpc'[w] = "top" BY <1>2
  <2> QED BY <2>1, <2>2 DEF LookComes
<1> QED BY <1>1, <1>2

LEMMA NextAttended ==
  IInv /\ ReadBefore /\ Attended /\ [Next]_vars => Attended'
<1> SUFFICES ASSUME IInv, ReadBefore, Attended, [Next]_vars PROVE Attended'
  OBVIOUS
<1>1. ASSUME NEW t \in Timers, NEW d \in Durations, Construct(t, d)
      PROVE Attended'
  BY <1>1, FewerKeys DEF Construct, Keys
<1>2. ASSUME NEW t \in Timers, Insert(t) PROVE Attended'
  <2>1. m_next[t] \in Int BY DEF IInv, TypeOK
  <2> QED BY <1>2, <2>1, AddToSetAttended DEF Insert
<1>3. ASSUME NEW t \in Timers, Announce(t) PROVE Attended'
  <2>1. LookComes' BY <1>3, TickledLooks DEF Announce
  <2> QED BY <2>1 DEF Attended
<1>4. ASSUME NEW t \in Timers, Cancel(t) PROVE Attended'
  <2>1. Keys' \subseteq Keys BY <1>4 DEF Cancel, Keys
  <2> QED BY <1>4, <2>1, FewerKeys DEF Cancel
<1>5. ASSUME NEW t \in Timers, Refresh(t) PROVE Attended'
  <2> DEFINE S == m_timers \ {<<m_next[t], t>>}
  <2>0. PICK k \in Int : k = now + m_ms[t] BY DEF IInv, TypeOK
  <2>1. m_timers' = S \cup {<<k, t>>} /\ m_next[t] \in Keys /\ life[t] = "used"
    BY <1>5, <2>0 DEF Refresh, Found, Keys
  <2>2. m_next[t] \in Int /\ (back = 0 => m_next[t] <= k) /\ now <= k
    BY <2>0, <2>1 DEF IInv, TypeOK, ReadBefore
  <2>3. SUFFICES ASSUME back = 0, ~LookComes PROVE \A j \in Keys' : Covered(j)'
    BY <1>5 DEF Refresh, Attended, LookComes
  <2>4. \A j \in Keys : Covered(j) BY <2>3 DEF Attended
  <2>5. \A f \in S : Covered(f[1])'
    BY <1>5, <2>4 DEF Refresh, Covered, Keys
  <2>6. Covered(k)'
    BY <1>5, <2>1, <2>2, <2>3, <2>4 DEF Refresh, Covered, IInv, TypeOK
  <2> QED BY <2>1, <2>5, <2>6, KeysOf
<1>6. ASSUME NEW t \in Timers, NEW d \in Durations, NEW b \in BOOLEAN,
             Reset(t, d, b)
      PROVE Attended'
  <2> DEFINE k == (IF b THEN now ELSE m_next[t] - m_ms[t]) + d
  <2>1. k \in Int BY TimesAssumption DEF IInv, TypeOK
  <2>2. AddToSet(t, m_timers \ {<<m_next[t], t>>}, k) BY <1>6 DEF Reset
  <2> HIDE DEF k
  <2> QED BY <1>6, <2>1, <2>2, AddToSetAttended DEF Reset
<1>7. ASSUME NEW w \in Idlers, GetNextTimer(w) PROVE Attended'
  <2> DEFINE waits == {MaxTimeout} \cup {IF k > now THEN k - now ELSE 0 : k \in Keys}
  <2>1. PICK x \in waits : /\ \A y \in waits : x <= y
                           /\ due' = [due EXCEPT ![w] = now + x]
    BY <1>7 DEF GetNextTimer
  <2>2. \A k \in Keys : k \in Int BY EntryShape DEF Keys, IInv
  <2>3. x \in Int BY <2>2, TimesAssumption DEF IInv, TypeOK
  <2>4. now \in Int BY DEF IInv, TypeOK
  <2>5. ASSUME NEW k \in Keys PROVE Covered(k)'
    <3>1. (IF k > now THEN k - now ELSE 0) \in waits OBVIOUS
    <3>2. x <= IF k > now THEN k - now ELSE 0 BY <2>1, <3>1
    <3>3. due'[w] = now + x /\ now' = now
      BY <1>7, <2>1 DEF GetNextTimer, IInv, TypeOK
    <3>4. now + x <= k \/ now + x <= now BY <2>2, <2>3, <2>4, <3>2
    <3> QED BY <3>3, <3>4 DEF Covered
  <2>6. Keys' = Keys /\ ~m_tickled' BY <1>7 DEF GetNextTimer, Keys
  <2> QED BY <2>5, <2>6 DEF Attended
<1>8. ASSUME NEW w \in Idlers, EpollReturns(w) \/ ListExpired(w) \/ Drain(w)
      PROVE Attended'
  <2>1. wpc'[w] \notin {"ready", "wait"}
    BY <1>8 DEF EpollReturns, ListExpired, Drain, IInv, TypeOK
  <2> QED BY <2>1 DEF Attended, LookComes
<1>12. ASSUME NEW w \in Idlers, EpollWait(w) \/ Interrupted(w) PROVE Attended'
  <2>1. LookComes' <=> LookComes
    BY <1>12 DEF EpollWait, Interrupted, LookComes, IInv, TypeOK
  <2>2. Keys' = Keys /\ \A k \in Keys : Covered(k) => Covered(k)'
    BY <1>12 DEF EpollWait, Interrupted, Keys, Covered
  <2> QED BY <1>12, <2>1, <2>2 DEF EpollWait, Interrupted, Attended
<1>13. CASE Tickle
  <2>1. LookComes' BY <1>13 DEF Tickle, LookComes
  <2> QED BY <2>1 DEF Attended
<1>14. CASE Stopping
  <2>1. LookComes' <=> LookComes BY <1>14 DEF Stopping, LookComes
  <2>2. Keys' = Keys /\ \A k \in Keys : Covered(k) => Covered(k)'
    BY <1>14 DEF Stopping, Keys, Covered
  <2> QED BY <1>14, <2>1, <2>2 DEF Stopping, Attended
<1>9. CASE Tick
  <2>1. Keys' = Keys BY <1>9 DEF Tick, Keys
  <2>2. \A k \in Keys : Covered(k) => Covered(k)'
    BY <1>9 DEF Tick, Covered, IInv, TypeOK
  <2> QED BY <1>9, <2>1, <2>2 DEF Tick, Attended, LookComes
<1>10. ASSUME NEW d \in ClockBack, SetBack(d) PROVE Attended'
  <2>1. d \in Nat BY TimesAssumption
  <2>2. Keys' = Keys BY <1>10 DEF SetBack, Keys
  <2>3. LookComes' <=> LookComes BY <1>10 DEF SetBack, LookComes
  <2>4. ASSUME back' = 0 PROVE back = 0 /\ \A k \in Keys : Covered(k) => Covered(k)'
    <3>1. back = 0 /\ d = 0 BY <1>10, <2>1, <2>4 DEF SetBack, IInv, TypeOK
    <3>2. /\ now' = now
          /\ \A w \in Idlers : due'[w] =
               IF due[w] <= now THEN now ELSE due[w]
      BY <1>10, <3>1 DEF SetBack, IInv, TypeOK
    <3>3. \A w \in Idlers : due[w] \in Int /\ now \in Int
      BY DEF IInv, TypeOK
    <3>4. \A k \in Keys : k \in Int BY EntryShape DEF Keys, IInv
    <3> QED BY <3>1, <3>2, <3>3, <3>4 DEF Covered
  <2> QED BY <1>10, <2>2, <2>3, <2>4 DEF SetBack, Attended
<1>11. CASE UNCHANGED vars \/ TimeIsUp
  BY <1>11, FewerKeys DEF TimeIsUp, vars, Keys
<1> QED
  BY <1>1, <1>2, <1>3, <1>4, <1>5, <1>6, <1>7, <1>8, <1>9, <1>10, <1>11, <1>12,
     <1>13, <1>14
  DEF Next, UserStep, IdleStep

\* m_tickled never suppresses, and the drain never swallows, the tickle that was
\* needed: while the clock is not set back, when all idle threads sleep or are
\* about to and no tickle is under way, one of them has asked to be woken in time
\* for every timer of the set.
THEOREM TimerNoOversleep == Spec => []NoOversleep
<1>1. Attended => NoOversleep
  BY DEF Attended, NoOversleep, LookComes, Covered
<1> QED
  BY <1>1, InitAttended, NextAttended, IInvAlways, ReadBeforeAlways, PTL DEF Spec
=============================================================================
