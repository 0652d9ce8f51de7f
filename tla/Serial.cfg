\* Callers never overlap attempts on one document.  Deletes, one database
\* error and one crash fall anywhere.
SPECIFICATION Spec
CONSTANTS
  None = None  Unborn = Unborn  Gone = Gone
  Task = {t1, t2, t3}
  DocId = {d1, d2}
  CollId = {c1}
  CollKey = {"faq"}
  Sha = {"text", "blank", "binary"}
  Pieces <- MCPieces
  Unreadable <- MCUnreadable
  Overlap = FALSE
  MaxFaults = 1
  MaxCrashes = 1
SYMMETRY Interchangeable
INVARIANTS ChunksOnlyForIndexed IndexedIsComplete RowCoherent
PROPERTY KeepsPromise
\* The instance stops when every id is used and deleted.
CHECK_DEADLOCK FALSE
