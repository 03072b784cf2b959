CONSTANTS
  Turns = {1, 2}
  Items = {a1}
  Requests = {e1}
SPECIFICATION Spec
INVARIANT
  StopDrains
