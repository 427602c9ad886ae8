\* One app with two bindings, one without; diodes of one slot, so that every overlap
\* of a read with the next write laps.
CONSTANTS
  b1 = b1
  b2 = b2
  s1 = s1
  s2 = s2
  Binding = {b1, b2}
  Source = {s1, s2}
  AppId <- MCAppId
  Unconnectable = {}
  IdleTimeout = 0
  DiodeSize = 1
  IngressSize = 1
  MaxContexts = 2
  MaxEnvelopes = 2
SPECIFICATION Spec
INVARIANTS
  IngressAccounted
  DrainGetsItsStream
  AtMostOneStaleWrite
  LossIsOneStaleEnvelope
PROPERTIES
  IngressDrains
