SPECIFICATION Spec
CONSTANTS
  r1 = r1
  r2 = r2
  r3 = r3
  service = service
  cli = cli
  Runs = {r1, r2, r3}
  Hosts = {service, cli}
  HostOf <- MCHostOf
  Need <- MCNeed
  NumLocks = 2
  MaxInode = 6
  MaxDeaths = 1
  None = None
CHECK_DEADLOCK FALSE
INVARIANTS
  TypeOK
  NoFlockLeaks
  HoldersOwnTheirFiles
PROPERTIES
  EveryRunDecides
