SPECIFICATION Spec
CONSTANTS
  Uploads = {u1, u2, u3}
  Sources = {s1, s2, guide}
  Notes = {s1, s2}
  MaxChunks = 2
  PageSize = 2
  DocumentOf <- MCDocumentOf
  Contents <- MCContents
  Faults = TRUE
  MaxCrashes = 1
SYMMETRY Symmetry
INVARIANTS
  OneWholeVersion
  IndexFollowsDisk
  VanishesOnlyMidReplacement
  IndexIsGrounded
  ReadersTellTheIndex
