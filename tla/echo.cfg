\* A client publishes more messages of QoS 2 than the window holds, and
\* connects again while one of them waits in the queue.
SPECIFICATION Spec
CONSTANTS
  Clients = {s}
  Publishers = {s}
  Subscribers = {s}
  PubQoS = {2}
  SubQoS = {0}
  Lens = {1}
  Retains = {FALSE}
  Denials = {FALSE}
  Cleans = {FALSE}
  Wills = {FALSE}
  WillQoS = 1
  WillLen = 1
  WillRetain = FALSE
  UpgradeQoS = FALSE
  Expires = FALSE
  ClientMids = {1, 2, 3}
  MaxPubs = 3
  MaxConnects = 2
  MaxSubs = 1
  MaxInflight = 2
  MaxInflightBytes = 0
  MaxQueued = 0
  MaxQueuedBytes = 0
  QueueQoS0 = FALSE
  ULong = 65536
  MidMax = 65535
  MaxLen = 1
INVARIANTS NeverEchoed
