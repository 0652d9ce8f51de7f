\* Every stripped body of up to MaxLength characters.
SPECIFICATION SplitSpec
CONSTANTS
  MaxLength = 6
  Bodies <- MCBodies
  Sizes = {1, 2, 3, 4}
  Overlaps = {0, 1, 2, 5}
INVARIANTS SplitTypeOK NothingLost PiecesFit
PROPERTY Advances
\* The call has returned.
CHECK_DEADLOCK FALSE
