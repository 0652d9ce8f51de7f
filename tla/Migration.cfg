\* Deployments in any order with and without a dimension, on both dialects.
SPECIFICATION MigSpec
CONSTANTS
  Doc = {d1, d2}
  Dims = {0, 2, 3}
  Widths = {2, 3}
  MaxPieces = 2
  Dialects = {"sqlite", "postgresql"}
SYMMETRY Interchangeable
INVARIANTS MigTypeOK ServesWhatItReads ChunksIffIndexed FoundByCollection
PROPERTY FittingVectorsSurvive
