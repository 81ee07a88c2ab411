\* The main host accepts a connection at once.
SPECIFICATION FairSpec
CONSTANTS
  address_count = 2
  StartTypes = {"automatic"}
  threshold = 2
  Retained = 0
  MaxQueued = 1
  AtOnce = TRUE
  MaxChanges = 1
PROPERTIES MainAgain
CHECK_DEADLOCK FALSE
