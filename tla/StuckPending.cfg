\* A database error inside an indexing run.
SPECIFICATION Spec
CONSTANTS
  None = None  Unborn = Unborn  Gone = Gone
  Task = {t1, t2}
  DocId = {d1}
  CollId = {c1}
  CollKey = {"faq"}
  Sha = {"text"}
  Pieces <- MCPieces
  Unreadable <- MCUnreadable
  Overlap = FALSE
  MaxFaults = 1
  MaxCrashes = 0
INVARIANT NoStrandedPending
\* The instance stops when every id is used and deleted.
CHECK_DEADLOCK FALSE
