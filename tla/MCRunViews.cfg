CONSTANTS
  Overlaps = {}
  MaxRuns = 2
  MaxEvents = 1
  MaxFaults = 1
SPECIFICATION Spec
CHECK_DEADLOCK FALSE
INVARIANTS
  ShownIsTrue
PROPERTIES
  EventuallyCurrent
