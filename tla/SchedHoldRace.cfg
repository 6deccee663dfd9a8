CONSTANTS
  w1 = w1
  w2 = w2
  c1 = c1
  c2 = c2
  c3 = c3
  f1 = f1
  f2 = f2
  f3 = f3
  Root = r0
  AnyThread = any
  None = none
  Workers = {w1, w2}
  MaxQueue = 2
  UseCaller = FALSE
  Callbacks = {c1, c2}
  AsFiber = {}
  Fibers = {f1, f2}
  Pin <- Unpinned
  Ops <- Holds
SPECIFICATION Spec
INVARIANT YieldFromExec
