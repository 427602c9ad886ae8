\* Two apps on two pages, four drains of which two are usable, a limit of two
\* drains per app, one crash.
CONSTANTS
  a1 = a1
  a2 = a2
  App = {a1, a2}
  NumPages = 2
  PageOf <- MCPageOf
  Drain = {1, 2, 3, 4}
  DrainSets <- MCDrainSets
  Kind <- MCKind
  Limit = 2
  MaxCrashes = 1
  NoAnswer = NoAnswer
SPECIFICATION Spec
PROPERTIES
  PollStoresResult
