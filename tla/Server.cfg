CONSTANTS
  Programs <- MCPrograms
  Addresses = {"a", "b", "taken"}
  Servlets = {"s1", "s2", "s3"}
  Taken = {"taken"}
  Fds = {1, 2}
  AcceptThreads = 2
  MaxLoops = 4
  Conns = {"c1", "c2"}
  AddrOf <- Addrs
  Uris <- MCUris
  UriOf <- Paths
  fnmatch <- MCfnmatch
SPECIFICATION FairSpec
INVARIANT NoTwoWaiters
INVARIANT DispatchAgrees
PROPERTY StopQuiesces
PROPERTY ConnectionsServed
