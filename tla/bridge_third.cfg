\* Two silent hosts before one that is up.
SPECIFICATION FairSpec
CONSTANTS
  address_count = 3
  StartTypes = {"automatic"}
  threshold = 2
  Retained = 0
  MaxQueued = 3
  AtOnce = FALSE
  MaxChanges = 0
PROPERTIES AllReconnect
CHECK_DEADLOCK FALSE
