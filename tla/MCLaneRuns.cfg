SPECIFICATION FairSpec
CONSTANTS
  up = up
  down = down
  Lanes = {up, down}
  After <- MCAfter
  Limit <- MCLimit
  Pids = {101, 102}
  Tick = Tick
  MaxRuns = 3
  MaxKills = 1
  MaxDeploys = 1
  None = None
CHECK_DEADLOCK FALSE
INVARIANTS
  TypeOK
PROPERTIES
  OutcomesStand
  InputsExact
  NewestSettles
