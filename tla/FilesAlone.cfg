SPECIFICATION Spec
CONSTANTS
  Tasks = {t1}
  Operations = {"upload", "trash", "purge", "copy", "move", "download", "lookup"}
  Files = {f1, f2, f3}
  tmp = tmp
  avatars = avatars
  a = a
  b = b
  Folders = {tmp, avatars}
  Names = {a}
  Contents = {c1, c2}
  Scratch <- MCScratch
  None = None
  Partial = Partial
  MaxRetries = 1
  MaxLost = 0
  MaxSessions = 2
SYMMETRY FileSymmetry
PROPERTIES ImplementsFileStore OnlyScratchIsTrashed
