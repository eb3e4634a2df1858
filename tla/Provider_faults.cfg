SPECIFICATION FairSpec
CONSTANTS
  Calls = {c1, c2, c3}
  MaxConcurrency = 1
  MaxRetries = 1
  MaxChunks = 2
INVARIANTS
  SlotsConserved
  NoTextTwice
  CountedAsEnded
PROPERTIES
  EveryCallEnds
