CONSTANTS
  BaseSize = 2
  MaxNodes = 3
  ByteBits = 2
  Width16 = 4
  Width32 = 4
  Width64 = 8
  KindSets = {{"Int32"}, {"Fint16"}, {"Fuint8"}, {"Uint32"}, {"Uint64"}, {"Int64"}, {"StringF16"}, {"StringVint"}}
  Values <- Edges
  Fresh = {3}
  Chunks = {3}
  MaxItems = 1
SPECIFICATION Spec
CHECK_DEADLOCK FALSE
INVARIANT CurAgrees
INVARIANT ViewsAgree
INVARIANT CrashesOnlyAtEnd
INVARIANT ReadsBack
PROPERTY ImplementsFlat
