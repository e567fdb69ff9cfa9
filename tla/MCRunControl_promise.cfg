SPECIFICATION FairSpec
CONSTANTS
  NumWorkers = 3
  Setups <- Usual
  MaxReRuns = 2
INVARIANTS
  NothingRunsWhenStopped StartsAfterDependencies StopsAfterDependents
PROPERTIES
  Settles ClosedIsDeleted
CHECK_DEADLOCK FALSE
