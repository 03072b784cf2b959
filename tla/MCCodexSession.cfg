CONSTANTS
  Turns = {1, 2}
  Items = {a1}
  Requests = {e1, e2}
SPECIFICATION Spec
INVARIANTS
  ActiveTurnsAreLive
  FinishedTurnIsSettled
  ClientIsNotAhead
  ShownRequestIsOpen
  AnsweredOnce
  IdleSessionHasNoTurn
  PendingIsInFlight
PROPERTIES
  SendEnds
  StopEnds
