CONSTANTS
  Dirs = {"READ"}
  MaxGen = 1
  MaxCalls <- OneEach
  Connects = {}
  MaxData = 1
  Timed = {"READ"}
  Interrupts = FALSE
  Late = TRUE
  Closes = {}
  None = none
SPECIFICATION FairSpec
PROPERTY TimedCallReturns
