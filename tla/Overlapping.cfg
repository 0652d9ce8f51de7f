\* Requests overlap freely; one database error and one crash.
SPECIFICATION Spec
CONSTANTS
  None = None  Unborn = Unborn  Gone = Gone
  Task = {t1, t2}
  DocId = {d1, d2}
  CollId = {c1, c2}
  CollKey = {"faq"}
  Sha = {"text", "blank"}
  Pieces <- MCPieces
  Unreadable <- MCUnreadable
  Overlap = TRUE
  MaxFaults = 1
  MaxCrashes = 1
SYMMETRY Interchangeable
INVARIANTS TypeOK NoOrphanChunks AllOrNothing
\* The instance stops when every id is used and deleted.
CHECK_DEADLOCK FALSE
