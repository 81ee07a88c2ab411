SPECIFICATION FairSpec
CONSTANTS
  MaxInflight = 1
  MaxMid = 3
  PeerMids = 3
  OwnThread = {TRUE, FALSE}
  OutQoS = {1, 2}
  InQoS = {1, 2}
  MaxPublished = 2
  MaxSent = 1
  MaxLosses = 2
INVARIANTS Window InOrder Arrives
PROPERTIES ImplementsDelivery Announced
CHECK_DEADLOCK FALSE
