SPECIFICATION FairSpec
CONSTANTS
  a1 = a1
  c2 = c2
  c1 = c1
  other = other
  Api = {a1}
  Cli = {c1, c2}
  Other = other
  Endings <- MCEndings
  None = None
  MaxCrashes = 1
CHECK_DEADLOCK FALSE
INVARIANTS
  TypeOK
  NoFalseSuccess
  AttendedWorkIsFenced
  NoOtherLeak
PROPERTIES
  FinalUnlessResumed
  RequestSettles
