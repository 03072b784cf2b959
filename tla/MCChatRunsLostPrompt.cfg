CONSTANTS
  Runs = {r1}
  Inputs = {i1, i2}
  c1 = c1
  Chats = {c1}
  NoRun = NoRun
  ChatOf <- MCChatOf
  Runtimes = {"claude"}
  Overlaps = {}
  MaxAccepts = 1
  MaxCrashes = 0
SPECIFICATION SafetySpec
INVARIANT
  OpenPromptIsAnswerable
