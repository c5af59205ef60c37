\* One failed call while the document is being published.
SPECIFICATION Spec
CONSTANTS
  Jobs = {j1}
  NoJob = NoJob
  Workers = {w1, w2}
  MaxRetry = 2
  MaxFaults = 1
  MaxControls = 2
  MaxPublications = 1
  SlowWorkers = FALSE
SYMMETRY MCWorkerSymmetry
PROPERTIES
  PublishedNotReingested
\* Every job may be decided and every bound used up.
CHECK_DEADLOCK FALSE
