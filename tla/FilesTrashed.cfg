SPECIFICATION Spec
CONSTANTS
  Tasks = {t1, t2}
  Operations = {"upload", "trash", "move"}
  Files = {f1}
  tmp = tmp
  avatars = avatars
  a = a
  b = b
  Folders = {tmp, avatars}
  Names = {a}
  Contents = {c1, c2}
  Scratch <- MCScratch
  None = None
  Partial = Partial
  MaxRetries = 0
  MaxLost = 0
  MaxSessions = 1
SYMMETRY FileSymmetry
PROPERTIES OnlyScratchIsTrashed
