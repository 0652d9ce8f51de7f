\* A collection deleted inside an upload.
SPECIFICATION Spec
CONSTANTS
  None = None  Unborn = Unborn  Gone = Gone
  Task = {t1, t2}
  DocId = {d1}
  CollId = {c1}
  CollKey = {"faq"}
  Sha = {"text"}
  Pieces <- MCPieces
  Unreadable <- MCUnreadable
  Overlap = FALSE
  MaxFaults = 0
  MaxCrashes = 0
INVARIANT DocumentHasCollection
\* The instance stops when every id is used and deleted.
CHECK_DEADLOCK FALSE
