CONSTANTS
  t1 = t1
  t2 = t2
  t3 = t3
  w1 = w1
  w2 = w2
  Timers = {t1, t2}
  Recurring = {t1}
  Durations = {0, 1}
  Idlers = {w1, w2}
  StartTime = 5
  MaxTime = 6
  Hour = 1
  MaxTimeout = 2
  ClockBack = {3}
  MaxBack = 3
SPECIFICATION Spec
SYMMETRY Symmetric
INVARIANT NoOversleep
INVARIANT CbIffListed
PROPERTY RetiredStaysRetired
PROPERTY NeverEarly
