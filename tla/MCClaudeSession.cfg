CONSTANTS
  Turns = {1, 2, 3}
  Items = {a, b}
  Requests = {a, b}
  Overlaps = {}
SPECIFICATION Spec
INVARIANTS
  ConversationIsTrue
  TurnEndsClean
PROPERTY
  StopEnds
