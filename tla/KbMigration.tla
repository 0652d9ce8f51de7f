------------------------------ MODULE KbMigration ------------------------------
(***************************************************************************)
(* The database over a sequence of deployments: what each start of the     *)
(* service makes of the chunks table it finds, and what it then writes.    *)
(*                                                                         *)
(* The table may be older than its column collection_id, and its column    *)
(* embedding is JSON or, once a deployment with KB_EMBED_DIM = n on        *)
(* Postgres has converted it, vector(n).  A vector is its width.           *)
(***************************************************************************)
EXTENDS Naturals, Sequences

CONSTANTS
  Doc,
  Dims,         \* values of KB_EMBED_DIM; 0 is unset
  Widths,       \* widths of vectors that the configured models return
  MaxPieces,    \* bound on the pieces of a document
  Dialects

ASSUME DimsAssumption == Dims \subseteq Nat /\ Widths \subseteq Nat \ {0}
ASSUME PiecesAssumption == MaxPieces \in Nat
ASSUME DialectsAssumption == Dialects \subseteq {"sqlite", "postgresql"}

VARIABLES
  dialect,
  column,      \* chunks.embedding: 0 is JSON, n is vector(n)
  has_coll,    \* chunks has the column collection_id
  status,      \* of each document
  vectors,     \* of each document, by ordinal; a NULL has width 0
  placed,      \* its chunks carry the id of its collection
  phase,       \* where the process is: down, starting, or serving
  dim          \* the process's KB_EMBED_DIM

corpus == <<status, vectors>>
mvars == <<dialect, column, has_coll, status, vectors, placed, phase, dim>>

Phase == {"down", "create_all", "backfill", "create_schema", "sweep", "serving"}
Status == {"none", "pending", "indexed", "failed"}
Vectors(W) == UNION {[1 .. n -> W] : n \in 1 .. MaxPieces}

\* choose_index.
Pgvector == dialect = "postgresql" /\ dim > 0

\* A new database, or one from before collection_id existed.
MigInit ==
  /\ dialect \in Dialects /\ column = 0 /\ dim = 0 /\ phase = "down"
  /\ has_coll \in BOOLEAN
  /\ status \in [Doc -> IF has_coll THEN {"none"} ELSE Status]
  /\ vectors \in [Doc -> {<<>>} \cup Vectors(Widths)]
  /\ \A d \in Doc : vectors[d] # <<>> <=> status[d] = "indexed"
  /\ placed = [d \in Doc |-> FALSE]

-----------------------------------------------------------------------------
(* The lifespan of a process, up to `yield'.                               *)

Deploy(n) ==
  /\ phase = "down"
  /\ phase' = "create_all" /\ dim' = n
  /\ UNCHANGED <<dialect, column, has_coll, corpus, placed>>

\* A slip: the column is added and never filled.
AddColumnOnly ==
  /\ phase = "create_all"
  /\ has_coll' = TRUE
  /\ phase' = "create_schema"
  /\ UNCHANGED <<dialect, column, corpus, placed, dim>>

\* create_all and _ensure_chunk_collection_id.  On SQLite the driver opens a
\* transaction at the first DML statement, so that ALTER TABLE is committed by
\* itself; on Postgres it is part of the transaction that fills the column.
AddColumn ==
  /\ phase = "create_all"
  /\ has_coll' = TRUE
  /\ IF ~ has_coll /\ dialect = "sqlite"
       THEN phase' = "backfill" /\ UNCHANGED placed
       ELSE /\ phase' = "create_schema"
            /\ placed' = [d \in Doc |-> ~ has_coll \/ placed[d]]
  /\ UNCHANGED <<dialect, column, corpus, dim>>

Backfill ==
  /\ phase = "backfill"
  /\ placed' = [d \in Doc |-> TRUE]
  /\ phase' = "create_schema"
  /\ UNCHANGED <<dialect, column, has_coll, corpus, dim>>

\* A slip: the scanning backend builds nothing and checks nothing.
ScanSchemaUnchecked ==
  /\ phase = "create_schema" /\ ~ Pgvector
  /\ phase' = "sweep"
  /\ UNCHANGED <<dialect, column, has_coll, corpus, placed, dim>>

\* SqlScanIndex.create_schema: a converted column is fatal.
ScanSchema ==
  /\ phase = "create_schema" /\ ~ Pgvector
  /\ phase' = IF dialect = "postgresql" /\ column # 0 THEN "down" ELSE "sweep"
  /\ UNCHANGED <<dialect, column, has_coll, corpus, placed, dim>>

\* PgVectorIndex.create_schema of a column that is a vector already.
FindVectorColumn ==
  /\ phase = "create_schema" /\ Pgvector /\ column # 0
  /\ phase' = IF column = dim THEN "sweep" ELSE "down"
  /\ UNCHANGED <<dialect, column, has_coll, corpus, placed, dim>>

Misfit(d) == \E k \in DOMAIN vectors[d] : vectors[d][k] # dim

\* A slip: only the chunks that did not convert are deleted.
ConvertKeepingTheRest ==
  /\ phase = "create_schema" /\ Pgvector /\ column = 0
  /\ column' = dim
  /\ status' = [d \in Doc |-> IF Misfit(d) THEN "failed" ELSE status[d]]
  /\ vectors' = [d \in Doc |-> SelectSeq(vectors[d], LAMBDA w : w = dim)]
  /\ phase' = "sweep"
  /\ UNCHANGED <<dialect, has_coll, placed, dim>>

\* A slip: every start adds an empty column and drops the one it replaces.
ConvertAgain ==
  /\ phase = "create_schema" /\ Pgvector
  /\ column' = dim
  /\ vectors' = [d \in Doc |->
       [k \in DOMAIN vectors[d] |-> IF column = 0 THEN vectors[d][k] ELSE 0]]
  /\ phase' = "sweep"
  /\ UNCHANGED <<dialect, has_coll, status, placed, dim>>

\* ... and of a JSON column: what fits is copied, a document with a chunk that
\* does not fit fails and loses all of its chunks, in one transaction.
Convert ==
  /\ phase = "create_schema" /\ Pgvector /\ column = 0
  /\ column' = dim
  /\ status' = [d \in Doc |-> IF Misfit(d) THEN "failed" ELSE status[d]]
  /\ vectors' = [d \in Doc |-> IF Misfit(d) THEN <<>> ELSE vectors[d]]
  /\ phase' = "sweep"
  /\ UNCHANGED <<dialect, has_coll, placed, dim>>

\* fail_stale_pending.
Sweep ==
  /\ phase = "sweep"
  /\ status' = [d \in Doc |-> IF status[d] = "pending" THEN "failed" ELSE status[d]]
  /\ vectors' = [d \in Doc |-> IF status[d] = "pending" THEN <<>> ELSE vectors[d]]
  /\ phase' = "serving"
  /\ UNCHANGED <<dialect, column, has_coll, placed, dim>>

-----------------------------------------------------------------------------
(* A serving process, and its end.                                         *)

\* An upload or a reindex.
Queue(d) ==
  /\ phase = "serving" /\ status[d] # "pending"
  /\ status' = [status EXCEPT ![d] = "pending"]
  /\ vectors' = [vectors EXCEPT ![d] = <<>>]
  /\ UNCHANGED <<dialect, column, has_coll, placed, phase, dim>>

\* The run ends: vectors of any widths into a JSON column, and into a vector
\* column only those that fit, for it refuses the others and the run fails.
Index(d) ==
  /\ phase = "serving" /\ status[d] = "pending"
  /\ \E v \in Vectors(Widths) :
       \/ /\ column # 0 => \A k \in DOMAIN v : v[k] = column
          /\ status' = [status EXCEPT ![d] = "indexed"]
          /\ vectors' = [vectors EXCEPT ![d] = v]
          /\ placed' = [placed EXCEPT ![d] = TRUE]
       \/ /\ status' = [status EXCEPT ![d] = "failed"]
          /\ UNCHANGED <<vectors, placed>>
  /\ UNCHANGED <<dialect, column, has_coll, phase, dim>>

\* With the document go its chunks, found by its id: whether placed or not.
Delete(d) ==
  /\ phase = "serving" /\ status[d] # "none"
  /\ status' = [status EXCEPT ![d] = "none"]
  /\ vectors' = [vectors EXCEPT ![d] = <<>>]
  /\ placed' = [placed EXCEPT ![d] = FALSE]
  /\ UNCHANGED <<dialect, column, has_coll, phase, dim>>

\* The process dies or is stopped, in any phase: a transaction under way is
\* rolled back.
Stop ==
  /\ phase # "down"
  /\ phase' = "down"
  /\ UNCHANGED <<dialect, column, has_coll, corpus, placed, dim>>

MigNext ==
  \/ \E n \in Dims : Deploy(n)
  \/ AddColumn \/ Backfill \/ ScanSchema \/ FindVectorColumn \/ Convert \/ Sweep
  \/ \E d \in Doc : Queue(d) \/ Index(d) \/ Delete(d)
  \/ Stop

MigSpec == MigInit /\ [][MigNext]_mvars

-----------------------------------------------------------------------------
\* Types; in particular no vector is NULL, which the converted column allows.
MigTypeOK ==
  /\ dialect \in {"sqlite", "postgresql"}
  /\ column \in Nat /\ has_coll \in BOOLEAN /\ dim \in Nat
  /\ status \in [Doc -> Status]
  /\ vectors \in [Doc -> Seq(Nat \ {0})]
  /\ placed \in [Doc -> BOOLEAN]
  /\ phase \in Phase

\* A process serves only a table its backend can read: the scan never meets a
\* vector column, nor pgvector a column of another width.  Starting anyway
\* would answer every search with nothing over an intact corpus.
ServesWhatItReads ==
  phase = "serving" =>
    /\ column = IF Pgvector THEN dim ELSE 0
    /\ column # 0 => \A d \in Doc : \A k \in DOMAIN vectors[d] : vectors[d][k] = column

\* Chunks belong to indexed documents only, and an indexed one has some, in
\* every phase of every start: search relies on it and asks for no status.
ChunksIffIndexed ==
  \A d \in Doc : vectors[d] # <<>> <=> status[d] = "indexed"

\* No start loses a vector that is worth keeping: outside service a document's
\* vectors change only in the one conversion, and only if one does not fit.
FittingVectorsSurvive ==
  [][ phase # "serving" => \A d \in Doc :
        vectors'[d] # vectors[d] => /\ column = 0 /\ column' = dim
                                    /\ vectors'[d] = <<>> /\ Misfit(d) ]_mvars

\* On Postgres a search by collection finds every chunk there is.
FoundByCollection ==
  phase = "serving" /\ dialect = "postgresql" =>
    \A d \in Doc : status[d] = "indexed" => placed[d]

\* tests/test_schema_upgrade.py:1 asks it of both: "A database written before a
\* column existed still has to work."
OldDatabaseWorks ==
  phase = "serving" => \A d \in Doc : status[d] = "indexed" => placed[d]
=============================================================================
