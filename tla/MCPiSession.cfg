CONSTANTS
  Operations = {1, 2, 3, 4}
  Overlaps = {}
  Backlog = 2
SPECIFICATION Spec
INVARIANTS
  ConversationIsTrue
  ProcessIsOwned
PROPERTIES
  StopEnds
CHECK_DEADLOCK FALSE
