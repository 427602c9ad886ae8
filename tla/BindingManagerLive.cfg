\* One binding for each of two apps; enough contexts that a cleanup never
\* waits for one.
CONSTANTS
  b1 = b1
  b2 = b2
  b3 = b3
  s1 = s1
  s2 = s2
  Binding = {b1, b3}
  Source = {s1, s2}
  AppId <- MCAppId
  Unconnectable = {}
  Ctx = {c1, c2, c3, c4}
  IdleTimeout = 1
  CountMod = 8
SPECIFICATION Spec
PROPERTIES
  IdleDrainReleased
