SPECIFICATION FairSpec
CONSTANTS
  NULL = NULL
  Slots = {c1, c2, c3}
  Stations = {s1}
  MAX_STATION_NUM = 1
  InitialStations = 1
  MaxCounter = 4
  Env = {"leave"}
  Commands = {"l"}
INVARIANTS NoFault ListsExact PassServesListeners
PROPERTIES HandlersReturn StreamFlows
CHECK_DEADLOCK FALSE
