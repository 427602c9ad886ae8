\* Two managers, connections worn after two sends, reset channels of one slot;
\* three connections, as many as can be open at once.
CONSTANTS
  Manager = {m1, m2}
  Conn = {c1, c2, c3}
  NoConn = NoConn
  MaxWrites = 2
  ResetCap = 1
SPECIFICATION Spec
INVARIANTS
  NothingLeaks
  OneConnectionEach
  LoadedIsCurrent
  GaugeIsOpen
  WornConnectionsReplaced
  BatchSentOnce
PROPERTIES
  SignalReturns
  Reconnects
