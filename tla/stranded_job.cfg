\* A worker that outlives its lease and one crash.
SPECIFICATION FairSpec
CONSTANTS
  Jobs = {j1}
  NoJob = NoJob
  Workers = {w1, w2}
  MaxRetry = 2
  MaxFaults = 1
  MaxControls = 0
  MaxPublications = 0
  SlowWorkers = TRUE
PROPERTIES
  JobsSettle
\* Every job may be decided and every bound used up.
CHECK_DEADLOCK FALSE
