\* A process dies between ALTER TABLE and the commit of the backfill.
SPECIFICATION MigSpec
CONSTANTS
  Doc = {d1, d2}
  Dims = {0, 2, 3}
  Widths = {2, 3}
  MaxPieces = 2
  Dialects = {"sqlite"}
SYMMETRY Interchangeable
INVARIANT OldDatabaseWorks
