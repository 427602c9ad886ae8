\* Two envelopes of any kind over any protocol, with and without two tries.
CONSTANTS
  Writer = {w1}
  Drain = w1
  Message <- MCMessage
  Parts <- MCParts
  Valid <- MCValid
  DiodeSize = 1
  MaxRetries = 2
  MaxSends = 2
  MaxWrites = 2
SPECIFICATION MCSpec
INVARIANTS
  FramesWhole
  SuccessIsSent
PROPERTIES
  ImplementsDiodeWriter
CHECK_DEADLOCK FALSE
