CONSTANTS
  Sessions = {s1, s2}
  NoSession = NoSession
  Calls = {c1, c2, c3}
SPECIFICATION Spec
PROPERTY RemovalSparesOtherMarks
