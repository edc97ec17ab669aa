SPECIFICATION Spec
CONSTANTS
  b1 = b1
  b2 = b2
  Procs = {b1}
  NumFiles = 2
  InPlace = {2}
  Recent = {1}
  Writers = {"publish", "delete", "write", "pin", "chmod"}
  Attempts = 3
  Cap = 2
  Fits <- MCFits
  Settle = 0
  Hot = 0
  MaxInode = 4
  MaxDirs = 3
  MaxOps = 3
  MaxTime = 3
  MaxKills = 0
  None = None
CHECK_DEADLOCK FALSE
INVARIANTS
  TypeOK
  FenceBytes
