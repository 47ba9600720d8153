SPECIFICATION Spec
CONSTANTS
  Scenes <- MCScenes
  Eyes <- MCEyes
  Directions <- MCDirections
  MAX_TREE_DEPTH = 2
  POS_INF = 4096
INVARIANTS TreeExact TreeAgrees
