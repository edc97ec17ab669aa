SPECIFICATION Spec
CONSTANTS
  p = p
  q = q
  a = a
  Runners = {"engine", "pack"}
  Pages = {p, q, a}
  InitialPages = {p, q}
  NumMigs = 3
  To <- MCTo
  Target = 2
  Touch <- MCTouch
  Make <- MCMake
  Drop <- MCDrop
  BadMigs = {1}
  Flags <- MCFlags
  Keep = 1
  MaxRuns = 3
  MaxCuts = 1
  MaxEdits = 1
  None = None
CHECK_DEADLOCK FALSE
INVARIANTS
  TypeOK
  ClaimIsTrue
  RollbackUnchanges
  NoPageLost
  GateEditsSurvive
  OneReplayPerCut
PROPERTIES
  RecoveryPointsStay
