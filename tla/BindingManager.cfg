\* Three bindings of two apps, one of them unconnectable; safety only, so
\* that the contexts can be treated as interchangeable.
CONSTANTS
  b1 = b1
  b2 = b2
  b3 = b3
  s1 = s1
  s2 = s2
  Binding = {b1, b2, b3}
  Source = {s1, s2}
  AppId <- MCAppId
  Unconnectable = {b2}
  Ctx = {c1, c2, c3, c4, c5, c6}
  IdleTimeout = 1
  CountMod = 8
SPECIFICATION Spec
SYMMETRY ContextSymmetry
INVARIANTS
  TypeOK
  RegistryMatchesLastGoodFetch
  WritersAccounted
  ConnectedIsTracked
PROPERTIES
  WriterCutOnlyForCause
  CountMovesWithConnections
