SPECIFICATION LifespanSpec
CONSTANTS
  Requests = {r1, r2, r3}
  None = none
INVARIANTS
  ServingIsConsistent
  ShutdownCloses
  ModelServiceIsShared
CHECK_DEADLOCK FALSE
