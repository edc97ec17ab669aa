SPECIFICATION FairSpec
CONSTANTS
  g1 = g1
  g2 = g2
  c1 = c1
  service = service
  deploy = deploy
  Pages = {g1, g2}
  Contents = {c1}
  Absent = Absent
  InitialWiki <- MCInitialWiki
  InitialEpoch = 1
  IdOf <- MCIdOf
  Projectors = {service, deploy}
  Forced = {deploy}
  MaxAttempts = 2
  MaxDeleteAbs = 0
  MaxDeletePct = 60
  MaxTx = 2
  MaxFaults = 1
  Nil = Nil
CHECK_DEADLOCK FALSE
INVARIANTS
  TypeOK
  ProjectionFollowsCorpus
PROPERTIES
  ServedRowsAreCommitted
  RewindsReconcile
  CatchesUp
