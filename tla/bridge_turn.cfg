\* Connections that are refused at once.
SPECIFICATION FairSpec
CONSTANTS
  address_count = 2
  StartTypes = {"automatic"}
  threshold = 2
  Retained = 0
  MaxQueued = 3
  AtOnce = TRUE
  MaxChanges = 0
PROPERTIES NextTried
CHECK_DEADLOCK FALSE
