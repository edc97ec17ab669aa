SPECIFICATION Spec
CONSTANTS
  b1 = b1
  b2 = b2
  Procs = {b1, b2}
  NumFiles = 1
  InPlace = {}
  Recent = {1}
  Writers = {"publish", "delete", "write", "pin", "chmod"}
  Attempts = 2
  Cap = 1
  Fits <- MCFits
  Settle = 0
  Hot = 0
  MaxInode = 3
  MaxDirs = 3
  MaxOps = 1
  MaxTime = 2
  MaxKills = 1
  None = None
CHECK_DEADLOCK FALSE
INVARIANTS
  StagingSafe
SYMMETRY MCSymmetry
