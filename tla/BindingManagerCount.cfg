\* The active-drains gauge against the number of connected drains.
CONSTANTS
  b1 = b1
  b2 = b2
  b3 = b3
  s1 = s1
  s2 = s2
  Binding = {b1, b2, b3}
  Source = {s1, s2}
  AppId <- MCAppId
  Unconnectable = {}
  Ctx = {c1, c2, c3, c4, c5, c6}
  IdleTimeout = 1
  CountMod = 8
SPECIFICATION Spec
INVARIANTS
  ActiveCountIsConnected
