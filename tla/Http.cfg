CONSTANTS
  Scripts <- MCScripts
  Responses <- MCResponses
  Chunks <- MCChunks
  Cuts = {1, 3}
  BuffSize = 120
  Garbage = {TRUE, FALSE}
SPECIFICATION FairSpec
INVARIANT RequestsAsWritten
INVARIANT NothingLeftOver
INVARIANT FaultsOnlyIfSplit
INVARIANT AnswerReadsBack
PROPERTY SessionEnds
