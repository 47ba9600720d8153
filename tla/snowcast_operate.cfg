SPECIFICATION Spec
CONSTANTS
  NULL = NULL
  Slots = {c1, c2}
  Stations = {s1, s2}
  MAX_STATION_NUM = 2
  InitialStations = 1
  MaxCounter = 2
  Env = {"leave", "next_song"}
  Commands = {"a", "d", "s"}
SYMMETRY Alike
INVARIANTS ListsExact CurStationLive ListedAreLive
CHECK_DEADLOCK FALSE
