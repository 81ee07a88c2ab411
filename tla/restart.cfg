\* A durable client that publishes to its own subscription and leaves a will,
\* through a save, and a shutdown or a crash.
SPECIFICATION RSpec
CONSTANTS
  Clients = {s}
  Publishers = {s}
  Subscribers = {s}
  PubQoS = {2}
  SubQoS = {2}
  Lens = {1}
  Retains = {TRUE}
  Denials = {FALSE, TRUE}
  Cleans = {FALSE}
  Wills = {TRUE}
  WillQoS = 1
  WillLen = 1
  WillRetain = FALSE
  UpgradeQoS = FALSE
  Expires = FALSE
  ClientMids = {1}
  MaxPubs = 1
  MaxConnects = 2
  MaxSubs = 1
  MaxInflight = 1
  MaxInflightBytes = 0
  MaxQueued = 0
  MaxQueuedBytes = 0
  QueueQoS0 = FALSE
  ULong = 65536
  MidMax = 65535
  MaxLen = 1
  WriteErrors = FALSE
  MaxSaves = 1
  MaxStops = 1
INVARIANTS RefsExact OnceOverShutdowns
PROPERTIES RestoredIsSaved
