\* Liveness: every coroutine is resumed; the database answers.
SPECIFICATION FairSpec
CONSTANTS
  None = None  Unborn = Unborn  Gone = Gone
  Task = {t1, t2}
  DocId = {d1, d2}
  CollId = {c1}
  CollKey = {"faq"}
  Sha = {"text", "blank"}
  Pieces <- MCPieces
  Unreadable <- MCUnreadable
  Overlap = TRUE
  MaxFaults = 0
  MaxCrashes = 1
INVARIANT NoStrandedPending
PROPERTY PendingSettles
\* The instance stops when every id is used and deleted.
CHECK_DEADLOCK FALSE
