SPECIFICATION Spec
CONSTANTS
  Chunks = {c1, c2, c3, bad}
  Broken = {bad}
  RetrievalLimit = 3
INVARIANTS
  AnswersAreGrounded
  FailuresAreTold
PROPERTIES
  ImplementsGraphRun
CHECK_DEADLOCK FALSE
