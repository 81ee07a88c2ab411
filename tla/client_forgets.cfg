SPECIFICATION Spec
CONSTANTS
  MaxInflight = 1
  MaxMid = 3
  PeerMids = 3
  OwnThread = {TRUE}
  OutQoS = {1, 2}
  InQoS = {1, 2}
  MaxPublished = 2
  MaxSent = 0
  MaxLosses = 1
INVARIANTS Resent
CHECK_DEADLOCK FALSE
