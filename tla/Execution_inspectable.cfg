SPECIFICATION Spec
CONSTANTS
  Executions = {e1}
  Modes = {"no", "live"}
  DatabaseFaults = FALSE
  MaxCancels = 1
  MaxCrashes = 0
INVARIANTS
  FinishedRunsAreInspectable
