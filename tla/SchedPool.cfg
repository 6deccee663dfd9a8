CONSTANTS
  w1 = w1
  w2 = w2
  c1 = c1
  c2 = c2
  c3 = c3
  f1 = f1
  f2 = f2
  f3 = f3
  Root = r0
  AnyThread = any
  None = none
  Workers = {w1, w2}
  MaxQueue = 2
  UseCaller = TRUE
  Callbacks = {c1, c2, c3}
  AsFiber = {c3}
  Fibers = {f1, f2, f3}
  Pin <- PinAll
  Ops <- Pooled
SPECIFICATION FairSpec
INVARIANT CountersExact
INVARIANT NoFault
INVARIANT RunsOnce
PROPERTY StartsWherePinned
PROPERTY ImplementsPool
PROPERTY EveryTaskFinishes
PROPERTY StopReturns
