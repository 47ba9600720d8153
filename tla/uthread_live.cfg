SPECIFICATION FairSpec
CONSTANTS
  UTH_MAX_UTHREADS = 4
  UTH_MAXPRIO = 0
  MaxCreate = 2
  Mutexes = {m1}
  Conds = {}
  Client <- LiveClient
PROPERTIES ReapedEventually TopPriorityRuns JoinReturns LockGranted
CHECK_DEADLOCK FALSE
