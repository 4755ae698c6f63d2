CONSTANTS
  ev1 = ev1
  ev2 = ev2
  Slug <- MCSlug
  FillDelay = 2
  Backoff = 3
  Capacity = 2
  MaxJobs = 4
SPECIFICATION FairSpec
INVARIANTS
  TypeOK
  JobsConserved
  FillsHaveSettled
  CycleCoversEachEventOnce
  FailuresAreDamped
PROPERTIES
  ClosedWorkerExits
  ImplementsJobService
