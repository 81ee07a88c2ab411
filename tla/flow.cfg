\* A publisher that outruns a durable subscriber that comes and goes, with
\* room for one message in flight and two in the queue.
SPECIFICATION Spec
CONSTANTS
  Clients = {p, s}
  Publishers = {p}
  Subscribers = {s}
  PubQoS = {1, 2}
  SubQoS = {2}
  Lens = {1}
  Retains = {FALSE}
  Denials = {FALSE}
  Cleans = {FALSE}
  Wills = {FALSE}
  WillQoS = 1
  WillLen = 1
  WillRetain = FALSE
  UpgradeQoS = FALSE
  Expires = FALSE
  ClientMids = {1}
  MaxPubs = 4
  MaxConnects = 3
  MaxSubs = 1
  MaxInflight = 1
  MaxInflightBytes = 0
  MaxQueued = 2
  MaxQueuedBytes = 0
  QueueQoS0 = FALSE
  ULong = 65536
  MidMax = 65535
  MaxLen = 1
INVARIANTS InflightWindow QueueBounded InOrder StatesMatch DeliveredOnce
PROPERTIES NothingLost
