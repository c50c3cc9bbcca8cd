CONSTANTS
  NoJob = NoJob
  Job <- ScanJobs
  Source <- ScanSource
  KeyOf <- ScanKey
  Limited <- ScanLimited
  OkResult = {"ok"}
  Workers = 3
  PerKey = 2
  Window = 12
SPECIFICATION Spec
INVARIANTS LimitsHold JobsConserved NoIdleWorker
PROPERTIES NothingNewAfterCancel ImplementsPool
