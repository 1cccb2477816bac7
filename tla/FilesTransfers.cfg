SPECIFICATION Spec
CONSTANTS
  Tasks = {t1}
  Operations = {"upload", "download", "lookup"}
  Files = {f1, f2, f3, f4}
  tmp = tmp
  avatars = avatars
  a = a
  b = b
  Folders = {tmp}
  Names = {a, b}
  Contents = {c1, c2}
  Scratch <- MCScratch
  None = None
  Partial = Partial
  MaxRetries = 1
  MaxLost = 2
  MaxSessions = 3
SYMMETRY FileSymmetry
INVARIANTS NamesTaken LocalCopyIntact IInv
PROPERTIES UploadIsVisible
