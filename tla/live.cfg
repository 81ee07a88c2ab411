\* One client that publishes to its own subscription, so that messages of
\* both directions wait for each other in its lists.
SPECIFICATION FairSpec
CONSTANTS
  Clients = {s}
  Publishers = {s}
  Subscribers = {s}
  PubQoS = {2}
  SubQoS = {2}
  Lens = {1}
  Retains = {FALSE}
  Denials = {FALSE}
  Cleans = {FALSE}
  Wills = {FALSE}
  WillQoS = 1
  WillLen = 1
  WillRetain = FALSE
  UpgradeQoS = FALSE
  Expires = FALSE
  ClientMids = {1, 2}
  MaxPubs = 2
  MaxConnects = 2
  MaxSubs = 1
  MaxInflight = 1
  MaxInflightBytes = 0
  MaxQueued = 0
  MaxQueuedBytes = 0
  QueueQoS0 = FALSE
  ULong = 65536
  MidMax = 65535
  MaxLen = 1
INVARIANTS CountersExact
PROPERTIES AllAcknowledged HandshakeEnds
