SPECIFICATION FairSpec
CONSTANTS
  p1 = p1
  p2 = p2
  g1 = g1
  g2 = g2
  c1 = c1
  Procs = {p1, p2}
  Pages = {g1}
  Contents = {c1}
  Absent = Absent
  None = None
  Fragment = Fragment
  InitialWiki <- MCInitialWiki
  TornTails <- MCFragmentOnly
  MaxTx = 2
  MaxFaults = 2
INVARIANTS
  TypeOK
  ReceiptExactlyOnce
  JournalExplainsWiki
  EpochsContiguous
  RecoveryNeverRefused
PROPERTIES
  ImplementsLedger
  EventuallyReceipted
