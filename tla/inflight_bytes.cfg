\* The byte limit of the window when queued messages go into flight.
SPECIFICATION Spec
CONSTANTS
  Clients = {p, s}
  Publishers = {p}
  Subscribers = {s}
  PubQoS = {1}
  SubQoS = {2}
  Lens = {1}
  Retains = {FALSE}
  Denials = {FALSE}
  Cleans = {FALSE}
  Wills = {FALSE}
  WillQoS = 1
  WillLen = 1
  WillRetain = FALSE
  UpgradeQoS = FALSE
  Expires = FALSE
  ClientMids = {1}
  MaxPubs = 3
  MaxConnects = 3
  MaxSubs = 1
  MaxInflight = 0
  MaxInflightBytes = 1
  MaxQueued = 0
  MaxQueuedBytes = 0
  QueueQoS0 = FALSE
  ULong = 65536
  MidMax = 65535
  MaxLen = 1
INVARIANTS InflightBytesWindow
