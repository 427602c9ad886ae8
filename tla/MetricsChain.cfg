\* Two scrapes of the agent and of one other target, two collections.
CONSTANTS
  MayHave = {"health"}
  MaxCollections = 2
  MaxCores = 2
  Target = {agent, other}
  Agent = agent
  MaxScrapes = 2
  Families <- MCFamilies
SPECIFICATION Spec
INVARIANTS
  ScrapeOutcome
PROPERTIES
  EmittedInOrder
  StopReturns
CHECK_DEADLOCK FALSE
