CONSTANTS
  Scripts <- Pairs
  Responses <- MCResponses
  Chunks <- MCChunks
  Cuts = {1, 3}
  BuffSize = 120
  Garbage = {FALSE}
SPECIFICATION Spec
INVARIANT NreadWithinLength
