\* Three components, one at a time (see MCProgress).
SPECIFICATION MCSpec
CONSTANTS
  Processes = {s1, s2}
  Logins = {l1, l2}
  Table = Table
  MaxFailures = 2
  Window = 2
  MaxOutages = 1
  Turns = {t1, t2}
  MaxConcurrent = 1
  MaxTokens = 1
  DeleteCalls = {c1, c2}
  MaxDeleteFaults = 1
INVARIANTS
  ProgressTypeOK
  GuessesBounded
  PermitsAreKept
  ServedIsIndexed
  NoOrphanPoints
PROPERTIES
  ImplementsTurns
  LockoutEnds
  TurnsEnd
  PermitsReturn
  StuckDeletionEnds
\* Every turn may have ended, and the document and its job may be gone.
CHECK_DEADLOCK FALSE
