\* A failed attempt followed by a successful one; no failed call.
SPECIFICATION Spec
CONSTANTS
  Jobs = {j1}
  NoJob = NoJob
  Workers = {w1, w2}
  MaxRetry = 2
  MaxFaults = 0
  MaxControls = 0
  MaxPublications = 0
  SlowWorkers = FALSE
SYMMETRY MCWorkerSymmetry
INVARIANTS
  ReviewCanPublish
\* Every job may be decided and every bound used up.
CHECK_DEADLOCK FALSE
