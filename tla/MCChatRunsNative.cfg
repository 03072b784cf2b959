CONSTANTS
  Runs = {r1, r2}
  Inputs = {i1}
  c1 = c1
  Chats = {c1}
  NoRun = NoRun
  ChatOf <- MCChatOf
  Runtimes = {"native"}
  Overlaps = {"delete during start"}
  MaxAccepts = 2
  MaxCrashes = 1
SPECIFICATION SafetySpec
SYMMETRY Symmetry
INVARIANTS
  RegistryAgrees
  NeverResent
  InFlightIsDurable
  ActivityIsTrue
  OpenPromptIsAnswerable
PROPERTIES
  DeliversMessages
  StopIsFinal
