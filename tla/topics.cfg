SPECIFICATION Spec
CONSTANTS
  Clients = {c, d}
  Contexts = {x, y, z}
  TopicNames <- MCTopics
  Filters <- MCFilters
  QoS = {0, 1}
  Duplicates = FALSE
  MaxOps = 4
INVARIANTS BackReferences CountsExact
PROPERTIES PrunesBranches ImplementsTopics
SYMMETRY Symmetry
CHECK_DEADLOCK FALSE
