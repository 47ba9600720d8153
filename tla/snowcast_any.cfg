SPECIFICATION Spec
CONSTANTS
  NULL = NULL
  Slots = {c1, c2}
  Stations = {s1, s2}
  MAX_STATION_NUM = 2
  InitialStations = 2
  MaxCounter = 2
  Env = {"leave", "move", "same", "early_set", "early_leave", "busy", "no_udp", "bad_song"}
  Commands = {"d", "q"}
SYMMETRY Alike
INVARIANTS LockedStationLive
CHECK_DEADLOCK FALSE
