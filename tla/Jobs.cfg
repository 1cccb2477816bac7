SPECIFICATION FairSpec
CONSTANTS
  Jobs = {j1}
  Workers = {w1, w2}
  Pollers = {c1, c2}
  None = None
  MaxRepeats = 2
  MaxCrashes = 2
  MaxResets = 1
INVARIANTS AcceptedIsQueryable AcceptedIsNotLost SuccessIsFinal IInv
CHECK_DEADLOCK FALSE
PROPERTIES SubmissionsAreAnswered AcceptedFinishes
