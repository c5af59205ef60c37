\* One upload and its document, two workers, attempts within the lease: two failures or crashes, three operations of administrators.
SPECIFICATION FairSpec
CONSTANTS
  Jobs = {j1}
  NoJob = NoJob
  Workers = {w1, w2}
  MaxRetry = 2
  MaxFaults = 2
  MaxControls = 3
  MaxPublications = 1
  SlowWorkers = FALSE
INVARIANTS
  TypeOK
  OneWorker
  Recoverable
  PublishedIsIndexed
PROPERTIES
  JobsSettle
  ImplementsQueue
\* Every job may be decided and every bound used up.
CHECK_DEADLOCK FALSE
