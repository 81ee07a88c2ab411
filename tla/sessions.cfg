\* Clean and durable sessions, takeover, expiry and wills, and a retained
\* message that is replaced, cleared and sent to new subscriptions.
SPECIFICATION Spec
CONSTANTS
  Clients = {p, s}
  Publishers = {p}
  Subscribers = {s}
  PubQoS = {1}
  SubQoS = {2}
  Lens = {0, 1}
  Retains = {FALSE, TRUE}
  Denials = {FALSE}
  Cleans = {FALSE, TRUE}
  Wills = {FALSE, TRUE}
  WillQoS = 1
  WillLen = 1
  WillRetain = TRUE
  UpgradeQoS = FALSE
  Expires = TRUE
  ClientMids = {1}
  MaxPubs = 2
  MaxConnects = 3
  MaxSubs = 2
  MaxInflight = 1
  MaxInflightBytes = 0
  MaxQueued = 1
  MaxQueuedBytes = 0
  QueueQoS0 = FALSE
  ULong = 65536
  MidMax = 65535
  MaxLen = 1
INVARIANTS TypeOK NoLeak RefsExact
