\* Three envelopes or datagrams, two downstreams, totals forgotten at the third
\* counter, diodes of one slot, batches of two.
CONSTANTS
  counterA = counterA
  counterB = counterB
  NoName = NoName
  NoTag = NoTag
  UDPTag = d1
  ForwarderTag = d1
  AgentTag = d2
  MaxCounters = 1
  UDPSize = 1
  ForwarderSize = 1
  ClientSize = 1
  AgentSize = 1
  NumClients = 2
  BatchSize = 2
  CountMod = 2
  TotalMod = 8
  EnvelopeBytes = {2}
  Envelopes <- MCEnvelopes
  Datagrams <- MCDatagrams
  MaxEnvelopes = 3
  MaxTicks = 1
SPECIFICATION Spec
INVARIANTS
  Accounted
  TotalsSurviveLosses
  DownstreamsAgree
  AverageOfInterval
PROPERTIES
  BatchIsSent
