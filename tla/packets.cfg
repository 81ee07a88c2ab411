SPECIFICATION FairSpec
CONSTANTS
  Base = 2
  MaxCount = 4
  Packets <- MCPackets
  Capacity = 3
  MaxQueued = 3
  MaxReconnects = 1
INVARIANTS NeverFails
PROPERTIES ImplementsChannel AllHandled
CHECK_DEADLOCK FALSE
