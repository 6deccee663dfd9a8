CONSTANTS
  k1 = k1
  k2 = k2
  i1 = i1
  i2 = i2
  None = none
  Fds = {3, 4}
  Events = {"READ", "WRITE"}
  Callers = {k1}
  Idlers = {i1, i2}
  Calls = {"del", "cancel", "cancelAll"}
  InitialSize = 2
  MaxGen = 2
  MaxAdds <- FewAdds
SPECIFICATION Spec
SYMMETRY Symmetric
INVARIANT PendingExact
INVARIANT StopSafe
INVARIANT EpollAgrees
INVARIANT RegisteredReachable
