\* Scans of up to MaxRows rows, in partitions of three.
SPECIFICATION SearchSpec
CONSTANTS
  Scores <- MCScores
  Limits = {1, 2, 3}
  Floors = {0, 1}
  PARTITION_SIZE = 3
  MaxRows = 7
  Reads <- MCReads
INVARIANTS SearchTypeOK KeepsTheBest Ranking BackendsAgree
\* The query has been answered.
CHECK_DEADLOCK FALSE
