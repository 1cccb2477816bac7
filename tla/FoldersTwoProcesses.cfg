SPECIFICATION FairSpec
CONSTANTS
  p1 = p1
  p2 = p2
  s1 = s1
  s2 = s2
  Processes = {p1, p2}
  Slots = {s1, s2}
  Tasks <- ThreeTasks
  tmp = tmp
  avatars = avatars
  lia = lia
  v1 = v1
  Official = {tmp, avatars}
  Present = {tmp}
  Paths <- OnePath
  FolderIds = {f1, f2, f3}
  Root = Root
  None = None
  MaxRetries = 1
  MaxLost = 0
  MaxRemoved = 0
INVARIANTS DuplicatesExplained
PROPERTIES EveryResolutionEnds
