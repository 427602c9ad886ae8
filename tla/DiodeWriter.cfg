\* One writer with a diode of two slots and enough messages to lap one twice.
CONSTANTS
  Writer = {w1}
  Message <- MCMessage
  DiodeSize = 2
  MaxWrites = 6
SPECIFICATION MCSpec
INVARIANTS
  WriterTypeOK
  Accounted
  FlushedUnlessFailed
  RunsUntilCancelled
PROPERTIES
  CancelledWriterCloses
  MessageIsRead
CHECK_DEADLOCK FALSE
