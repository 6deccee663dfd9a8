CONSTANTS
  Dirs = {"WRITE"}
  MaxGen = 2
  MaxCalls <- TwoThenOne
  Connects <- FirstConnects
  MaxData = 1
  Timed = {"WRITE"}
  Interrupts = TRUE
  Late = TRUE
  Closes = {1}
  None = none
SPECIFICATION FairSpec
INVARIANT ResumedOnce
INVARIANT TimeoutIsOwn
INVARIANT NoTimerLeft
PROPERTY ReadyResumes
