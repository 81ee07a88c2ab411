\* A denied publication of QoS 2 when the window is full.
SPECIFICATION Spec
CONSTANTS
  Clients = {p, s}
  Publishers = {p}
  Subscribers = {s}
  PubQoS = {2}
  SubQoS = {2}
  Lens = {1}
  Retains = {FALSE}
  Denials = {FALSE, TRUE}
  Cleans = {FALSE}
  Wills = {FALSE}
  WillQoS = 1
  WillLen = 1
  WillRetain = FALSE
  UpgradeQoS = FALSE
  Expires = FALSE
  ClientMids = {1, 2}
  MaxPubs = 3
  MaxConnects = 3
  MaxSubs = 1
  MaxInflight = 1
  MaxInflightBytes = 0
  MaxQueued = 1
  MaxQueuedBytes = 0
  QueueQoS0 = FALSE
  ULong = 65536
  MidMax = 65535
  MaxLen = 1
PROPERTIES PublishKeepsConnection
