SPECIFICATION Spec
CONSTANTS
  None = None
  Servers = {s1,s2}
  Names = {a,b}
  Pwds = {p1}
  Nodes = {n1,n2}
  Accepts = {t1,t2}
  MAX_TRY = 2
  MaxClientNum = 2
  MaxCommands = 3
  MaxFaults = 1
  Env = {"crash", "master", "cut_early", "half", "foreign", "cme", "slow_start"}
SYMMETRY Alike
INVARIANTS NamesUnique DeadRecordsHaveRemover RecordsAgree RecordedIsDurable
ACTION_CONSTRAINT SecondServerBound
CHECK_DEADLOCK FALSE
