SPECIFICATION Spec
CONSTANTS
  MaxInflight = 1
  MaxMid = 3
  PeerMids = 3
  OwnThread = {FALSE}
  OutQoS = {1, 2}
  InQoS = {1, 2}
  MaxPublished = 0
  MaxSent = 1
  MaxLosses = 2
INVARIANTS ArrivesOnce
CHECK_DEADLOCK FALSE
