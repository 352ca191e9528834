CONSTANTS
  Calls = {a1, a2}
  Phones = {p1}
  Clients = {c1, c2, c3}
  NoClient = NoClient
SPECIFICATION Spec
INVARIANT EveryLoginClientIsHeld
