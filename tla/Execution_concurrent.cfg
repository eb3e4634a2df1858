SPECIFICATION InspectionSpec
CONSTANTS
  Executions = {e1, e2}
  Requests = {r1}
  MaxEvents = 100
  Modes = {"no", "after"}
  DatabaseFaults = TRUE
  MaxCancels = 1
  MaxCrashes = 0
SYMMETRY Symmetry
INVARIANTS
  StatusBackedByHistory
  AnnouncedOutcomeIsStored
  ResponsesTellTheStory
