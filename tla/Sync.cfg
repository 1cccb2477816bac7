SPECIFICATION SyncSpec
CONSTANTS
  avatars = avatars
  Tasks = {s1, t1}
  Syncers = {s1}
  Operations = {"upload"}
  Files = {f1, f2}
  Folders = {avatars}
  Names = {a, b}
  Contents = {c1, c2}
  Scratch <- MCScratch
  None = None
  Partial = Partial
  MaxRetries = 1
  MaxLost = 1
  MaxSessions = 2
  MaxEdits = 1
INVARIANTS ReportIsComplete ReportedIsMirrored
PROPERTIES SyncReports

SYMMETRY MCSymmetry
