\* One manager is enough to see where the connector dials.
CONSTANTS
  Manager = {m1}
  Conn = {c1, c2}
  NoConn = NoConn
  MaxWrites = 2
  ResetCap = 1
SPECIFICATION Spec
PROPERTIES
  FallsBackToAnyDoppler
