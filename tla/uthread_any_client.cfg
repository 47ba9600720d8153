SPECIFICATION Spec
CONSTANTS
  UTH_MAX_UTHREADS = 3
  UTH_MAXPRIO = 1
  MaxCreate = 2
  Mutexes = {m1}
  Conds = {c1}
  Client <- AnyClient
INVARIANTS SafeForAnyClient RunQueueExact MutualExclusion
PROPERTIES HighestPriorityRuns
CHECK_DEADLOCK FALSE
