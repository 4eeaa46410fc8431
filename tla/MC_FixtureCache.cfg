SPECIFICATION Spec
CONSTANTS
  p1 = p1
  p2 = p2
  p3 = p3
  a = a
  b = b
  good = good
  other = other
  Calls = {p1, p2, p3}
  Shas = {a}
  Payloads = {good, other}
  Digest <- MCDigest
  Absent = Absent
  Partial = Partial
INVARIANTS
  ReturnsVerified
  NothingLeftBehind
PROPERTIES
  NeverClobbered
  EveryCallEnds
CHECK_DEADLOCK FALSE
