SPECIFICATION Spec
CONSTANTS
  UTH_MAX_UTHREADS = 4
  UTH_MAXPRIO = 0
  MaxCreate = 3
  Mutexes = {m1}
  Conds = {c1}
  Client <- RuleClient
INVARIANTS WaitHasWaker NoJoinCycle
PROPERTIES JoinReturnsItsThread LocksAreFifo
CHECK_DEADLOCK FALSE
