\* Three addresses whose hosts come and go, for each start type.
SPECIFICATION FairSpec
CONSTANTS
  address_count = 3
  StartTypes = {"automatic", "lazy", "once"}
  threshold = 2
  Retained = 0
  MaxQueued = 3
  AtOnce = FALSE
  MaxChanges = 2
INVARIANTS LazyNeeded
PROPERTIES NextTried Reconnects MainAgain
CHECK_DEADLOCK FALSE
