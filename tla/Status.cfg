SPECIFICATION FairSpec
CONSTANTS
  Requests = {r1, r2}
  Official = {o1, o2}
  Others = {x1}
  None = None
  TTL = 2
  MaxTime = 3
INVARIANTS ConnectedIsTrue IInv
PROPERTIES EveryCheckEnds CacheMovesForward
