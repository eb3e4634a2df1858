SPECIFICATION FairSpec
CONSTANTS
  MaxLength = 8
  ShortLength = 3
  MaxSize = 5
  Texts <- MCTexts
  Documents <- MCDocuments
  Settings <- MCSettings
INVARIANTS
  NoTextIsLost
  ChunksFit
  NoChunkRepeats
PROPERTIES
  SplittingEnds
CHECK_DEADLOCK FALSE
