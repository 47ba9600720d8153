SPECIFICATION FairSpec
CONSTANTS
  None = None
  Home = Home
  d1 = d1
  x1 = x1
  y1 = y1
  t1 = t1
  Terminals = {t1, t2}
  Dirs = {d1}
  Files = {x1, y1}
  In <- MCIn
  MaxEdits = 3
  MaxFaults = 2
INVARIANTS SyncedIsOnServer
PROPERTIES  CatchesUp
ACTION_CONSTRAINT SecondTerminalBound
CHECK_DEADLOCK FALSE
