SPECIFICATION FairSpec
CONSTANTS
  MaxRequests = 2
  MaxAttempts = 2
  MaxProgress = 1
  MaxInFlight = 3
INVARIANTS
  RunningIsWorkedOn
  AskedOnce
  ShownMatchesServer
PROPERTIES
  OutcomeStays
  EverySentRequestEnds
