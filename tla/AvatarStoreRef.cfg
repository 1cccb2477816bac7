CONSTANTS
  Ids = {a1, a2}
  Slugs = {s1}
  Data = {d1, d2}
  LastStage = 1
  ExpectedVersions = {1}
  Absent = Absent
  Keep = Keep
  Requests = {r1, r2}
SPECIFICATION FairSpec
PROPERTIES ImplementsStore EveryRequestAnswered
