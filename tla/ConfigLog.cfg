CONSTANTS
  Programs <- MCPrograms
  Threads = {"t1", "t2"}
  Invalid = {"PORT"}
  Statics <- LogStatics
  Cast <- FromStr
  Members <- ListAllMember
  Number <- MCNumber
  FromLog <- LogDefine
  alpha <- MCAlpha
  Items <- MCItems
SPECIFICATION Spec
INVARIANT ListenersFollow
INVARIANT HandlesAgree
INVARIANT LoadTakesEffect
INVARIANT LoggersAgree
INVARIANT PatternsAsWritten
