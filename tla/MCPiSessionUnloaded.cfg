CONSTANTS
  Operations = {1, 2, 3}
  Overlaps = {"send before load"}
  Backlog = 2
SPECIFICATION Spec
INVARIANT HistoryIsWhole
CHECK_DEADLOCK FALSE
