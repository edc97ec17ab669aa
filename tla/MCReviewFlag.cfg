SPECIFICATION Spec
CONSTANTS
  r1 = r1
  r2 = r2
  t1 = t1
  t2 = t2
  Reviewers = {r1}
  Tools = {t1}
  Jobs = {"request_changes"}
  MaxCalls = 1
  MaxEdits = 1
  MaxFaults = 0
  None = None
CHECK_DEADLOCK FALSE
PROPERTIES
  UpdatesKeepFlag
