SPECIFICATION Spec
CONSTANTS
  MaxRequests = 1
  MaxAttempts = 1
  MaxProgress = 1
  MaxInFlight = 2
INVARIANTS
  CancelledIsShownCancelled
