SPECIFICATION Spec
CONSTANTS
  Chats = {c1, c2}
  Agents = {a1, a2}
  Sessions = {s1, s2, s3}
  NoChat = NoChat
  NoAgent = NoAgent
  NoSession = NoSession
  Requests = {q1, q2}
  MaxPrewarmSessions = 1
  Overlaps = {}
SYMMETRY Symmetry
INVARIANTS
  SessionsAreOwned
  OneOwner
  AgentMatches
  MirrorIsCurrent
