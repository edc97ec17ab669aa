SPECIFICATION Spec
CONSTANTS
  r1 = r1
  r2 = r2
  t1 = t1
  t2 = t2
  Reviewers = {r1, r2}
  Tools = {t1, t2}
  Jobs = {"approve", "request_changes", "reject", "dismiss", "defer", "assign", "machine"}
  MaxCalls = 2
  MaxEdits = 2
  MaxFaults = 1
  None = None
CHECK_DEADLOCK FALSE
INVARIANTS
  TypeOK
  DecidedTextWasRead
  LedgerBacksPage
PROPERTIES
  HistoryOnlyGrows
SYMMETRY MCSymmetry
