CONSTANTS
  Subjects = {k1, k2, k3, stranger}
  ApiKeys = {k1, k2, k3}
  Phones = {"+7", "7", "?"}
  NoDigits = ""
  Digits <- MCDigits
  MaxRequests = 2
  WindowMs = 2
  PhoneMax = 2
  PhoneWindow = 3
  MaxEntries = 2
  MaxTime = 7
SYMMETRY Symmetric
SPECIFICATION Spec
INVARIANTS
  SizeBound
  RetryAfterIsHonest
  NumberQuota
  QuotasAreSpentByTheirOwners
PROPERTIES
  LiveCounterSurvives
