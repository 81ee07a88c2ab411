\* A publisher, and a subscriber of the topic and of topic/push.
SPECIFICATION FairSpec
CONSTANTS
  Clients = {a, b}
  Publishers = {a}
  Subscribers = {b}
  Pushers = {b}
  PubQoS = {1, 2}
  MaxPubs = 2
  MaxConnects = 1
  MaxInflight = 1
  MaxInflightBytes = 0
  MaxQueued = 2
  MaxQueuedBytes = 0
  QueueQoS0 = TRUE
  ULong = 65536
  MidMax = 8
  MaxLen = 1
INVARIANTS SentOnce
PROPERTIES AllOffered WalkEnds
CHECK_DEADLOCK FALSE
