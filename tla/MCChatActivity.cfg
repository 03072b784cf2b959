CONSTANTS
  Runs = {r1, r2}
  Inputs = {i1, i2}
  Chats = {c1}
  NoRun = NoRun
SPECIFICATION Spec
INVARIANTS
  WaitingNamesItsInput
  StuckMeansProcessLost
PROPERTIES
  TerminalIsFinal
  ProcessLossKeepsInput
  LostProcessIsNoticed
