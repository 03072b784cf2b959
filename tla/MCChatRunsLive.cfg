CONSTANTS
  Runs = {r1}
  Inputs = {i1, i2}
  c1 = c1
  Chats = {c1}
  NoRun = NoRun
  ChatOf <- MCChatOf
  Runtimes = {"native", "claude"}
  Overlaps = {"delete during start"}
  MaxAccepts = 2
  MaxCrashes = 1
SPECIFICATION Spec
INVARIANTS
  LateSuccessIsAnswerable
PROPERTIES
  QueuedIsDispatched
  StopEndsRun
  RunEnds
