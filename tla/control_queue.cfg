SPECIFICATION FairSpec
CONSTANTS
  Numbers <- MCNumbers
  Ports <- MCPorts
  Ids = {0, 1}
  Sizes = {9, 10}
  MaxSongs = 2
  MaxCommands = 3
  MaxNews = 1
INVARIANTS QueueInStep ConfirmedAsAsked
PROPERTIES PendingDrains
CHECK_DEADLOCK FALSE
