SPECIFICATION FairSpec
CONSTANTS
  Executions = {e1}
  Modes = {"no", "live", "after"}
  DatabaseFaults = TRUE
  MaxCancels = 2
  MaxCrashes = 1
INVARIANTS
  IInv
  OutcomeMatchesStore
  LiveEventsOrdered
PROPERTIES
  ImplementsRunHistory
  EveryRunSettles
