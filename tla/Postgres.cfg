\* Attempts do not overlap; deletes, one database error, one crash and one process
\* that joins fall anywhere.
SPECIFICATION PgSpec
CONSTANTS
  None = None  Unborn = Unborn  Gone = Gone  Other = Other
  Task = {t1, t2}
  DocId = {d1, d2}
  CollId = {c1}
  CollKey = {"faq"}
  Sha = {s1, s2}
  Copy = {k1, k2, k3}
  Pieces <- MCPieces
  Unreadable = {}
  Overlap = FALSE
  MaxFaults = 1
  MaxCrashes = 1
  MaxJoins = 1
SYMMETRY Interchangeable
INVARIANTS
  PgTypeOK  
  SerialAsOnSqlite SearchSurvivesJoin
PROPERTY PromiseOnPostgres
\* The instance stops when every id is used and deleted.
CHECK_DEADLOCK FALSE
