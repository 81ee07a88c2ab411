\* A retained message at the level above the "#" of a filter with a "+".
SPECIFICATION Spec
CONSTANTS
  Clients = {c}
  Contexts = {x}
  TopicNames <- AboveTopics
  Filters <- AboveFilters
  QoS = {0}
  Duplicates = FALSE
  MaxOps = 3
PROPERTIES ImplementsTopics
CHECK_DEADLOCK FALSE
