CONSTANTS
  Ids = {a1, a2}
  Slugs = {s1}
  Data = {d1}
  LastStage = 2
  ExpectedVersions = {1, 2}
  Absent = Absent
  Keep = Keep
  Requests = {r1, r2, r3}
SPECIFICATION Spec
SYMMETRY Symmetry
INVARIANTS ChecksHoldAtCommit StageBehindVersion SlugUnique IInv
PROPERTY RowLifecycle
