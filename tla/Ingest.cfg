\* Uploads of up to MaxLines lines with headings of three levels.
SPECIFICATION IngestSpec
CONSTANTS
  Levels = {1, 2, 3}
  MaxLines = 6
  Texts <- MCTexts
  Sizes = {2, 3}
  Overlaps = {0, 1}
  BatchSizes = {1, 2}
  max_upload_bytes = 6
  Largest = 7
  Growth <- MCGrowth
  Undeclared = Undeclared
INVARIANTS
  SectionsTypeOK PathsEnclose TextKeptOnce
  HeldWithinLimit RefusedForItsSize VectorsInOrder
  EveryLineSearchable RowsMatchTheirVectors ReasonIsTrue
\* The upload has been refused, or the document indexed or failed.
CHECK_DEADLOCK FALSE
