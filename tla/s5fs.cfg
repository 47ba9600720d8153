CONSTANTS
  nameA = nameA
  nameB = nameB
  p1 = p1
  p2 = p2
  Procs <- MCProcs
  Disks <- MCDisks
  Calls <- MCCalls
  Spans <- MCSpans
  S5_NBLKS_PER_FNODE = 3
  S5_NDIRECT_BLOCKS = 1
  S5_NIDIRECT_BLOCKS = 2
  NumBlocks = 7
  NumInodes = 4
  DirentsPerBlock = 3
  NFILES = 2
  MaxCalls = 4
SPECIFICATION Spec
SYMMETRY Symmetry
CHECK_DEADLOCK FALSE
INVARIANTS
  BlocksExact
  LinksExact
  RefsExact
  UnusedIsFree
  LocksExact
  AssertsHoldAlone
