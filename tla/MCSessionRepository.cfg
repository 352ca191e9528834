CONSTANTS
  Sessions = {s1, s2}
  NoSession = NoSession
  Calls = {c1, c2, c3}
SYMMETRY Symmetric
SPECIFICATION Spec
INVARIANTS
  ForgottenLeavesNoTrace
PROPERTY DigestNeverGetsARemovedSession
