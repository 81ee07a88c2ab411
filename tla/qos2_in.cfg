\* A publisher of QoS 2 that keeps to the window of the broker, loses its
\* connection and comes back, and is denied some publications.
SPECIFICATION Spec
CONSTANTS
  Clients = {p, s}
  Publishers = {p}
  Subscribers = {s}
  PubQoS = {2}
  SubQoS = {0}
  Lens = {1}
  Retains = {FALSE}
  Denials = {FALSE, TRUE}
  Cleans = {FALSE}
  Wills = {FALSE}
  WillQoS = 1
  WillLen = 1
  WillRetain = FALSE
  UpgradeQoS = FALSE
  Expires = FALSE
  ClientMids = {1, 2}
  MaxPubs = 3
  MaxConnects = 3
  MaxSubs = 1
  MaxInflight = 2
  MaxInflightBytes = 0
  MaxQueued = 1
  MaxQueuedBytes = 0
  QueueQoS0 = FALSE
  ULong = 65536
  MidMax = 65535
  MaxLen = 1
INVARIANTS RoutedOnce CompletedIsRouted InMidsUnique NeverEchoed
