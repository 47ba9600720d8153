SPECIFICATION FairSpec
CONSTANTS
  None = None
  Servers = {s1}
  Names = {a}
  Pwds = {p1}
  Nodes = {n1,n2,n3}
  Accepts = {t1,t2,t3}
  MAX_TRY = 2
  MaxClientNum = 1
  MaxCommands = 2
  MaxFaults = 1
  Env = {"crash","close","cut","full"}
PROPERTIES GoneIsForgotten
CHECK_DEADLOCK FALSE
