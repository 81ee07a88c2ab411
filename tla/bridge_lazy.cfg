\* A retained message for a lazy bridge.
SPECIFICATION FairSpec
CONSTANTS
  address_count = 3
  StartTypes = {"automatic", "lazy", "once"}
  threshold = 2
  Retained = 1
  MaxQueued = 3
  AtOnce = FALSE
  MaxChanges = 1
INVARIANTS LazyNeeded
CHECK_DEADLOCK FALSE
