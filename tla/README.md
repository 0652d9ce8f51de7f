# Verification of the knowledge service

This directory holds a TLA+ model of `kbase`, a multi-tenant document store with
semantic search: TLC configurations that check it on small instances, and proofs
that TLAPS checks for every instance. Paths below are relative to
`src/src/kbase/`.

## The system

| Part | Source | State | Operations |
|---|---|---|---|
| Collections | `store.py` `CollectionStore` | table `collections`, unique on (tenant, name) | create, list, get, resolve, delete with everything in it |
| Documents | `store.py` `DocumentStore` | table `documents`, unique on (collection, sha256); status `pending`, `indexed` or `failed`, error, count, time | create or find, retry a failed one, mark pending, finish, fail, delete, sweep at startup |
| Chunk index | `index.py` `SqlScanIndex`, `pgindex.py` `PgVectorIndex` | table `chunks` with the vectors | replace, drop (inside the store's transactions), query |
| Indexing pipeline | `indexer.py` | none: a coroutine's locals | extract, chunk, embed, finish; or record a failure |
| Routes | `server/routes.py` | none | check ownership, call the stores, schedule the pipeline as a background task |
| Process | `server/app.py` | meant to be one per database | create the schema, sweep what the last process left, serve |
| Body limit | `server/limits.py`, `server/routes.py` | a counter per request | refuse a body, declared or streamed, that is too long |
| Chunker | `chunker.py` | none: pure | cut on headings, then on length |
| Scoring | `search.py` | none: pure | cosine of one partition, floor, top `limit` |
| Embedding client | `embedding.py` | connection pool | batches of texts to vectors |
| Schema | `db.py`, `index.py` `choose_index`, both `create_schema` | the shape of table `chunks` | at each start: add and fill `collection_id`; convert `embedding` to `vector(n)`, or refuse |
| Auth, settings | `server/auth.py`, `settings.py` | none at run time | see "Not modelled" |

The parts meet in the database. A request coroutine awaits one round trip after
another, and between two of them any other coroutine may run; an upload or a
reindex ends by running the pipeline in the same task, after the reply. No lock,
queue or claim tells two runs on one document apart. The status column says how
far a document is, and search does not look at it: it relies on chunks existing
for indexed documents only.

What is hard here:

- a row read in one round trip and written back in a later one, with the ORM
  sending only the columns that changed;
- deletes and further attempts that land inside a run;
- a failure that is recorded in two transactions, and the failure of that;
- a process that dies at any await, and a sweep that repairs what it left;
- a schema that each start may upgrade, under settings that change from one
  deployment to the next;
- on Postgres, transactions of several statements that each see another snapshot,
  wait for each other's rows and may deadlock, and a second process that sweeps
  what the first is at;
- positions that four loops have to agree on: sections, windows, batches, rows;
- boundary arithmetic in the chunker, and selection with ties in the search.

What makes each part correct: chunks never outlive their document, and are all
or none of it (stores, pipeline); a pending document is being worked on and is
decided (pipeline, process); chunks exist for indexed documents only and the
row agrees with them (stores); no sequence of starts loses vectors or serves a
column it cannot read (schema); no text is lost or filed under a wrong heading
(chunker); each vector embeds the text it is stored with (embedding client); the
best rows are found with bounded memory, the same by either backend (search).

## Modules

| Module | Models |
|---|---|
| `KbRows` | a row of `documents`, the values the store writes, and the flush of the ORM |
| `KbState` | the tables, the tasks' frames, the parameters and their assumptions |
| `KbService` | one action per round trip of every route and of `index_document`; database errors, death and restart of the process; `Spec` and `FairSpec` |
| `KbPromise` | the abstract specification: a document's life as a caller sees it |
| `KbProperties` | the properties of `KbService` and the refinement mapping to `KbPromise` |
| `KbSections`, `KbSplit` | `_sections` and `_split_body` of the chunker |
| `KbPostgres` | the transactions of `KbService` taken apart into statements under READ COMMITTED; a second process |
| `KbBody`, `KbEmbed` | the bounds on an upload; one call of the embedding client |
| `KbIngest` | one document from its body to its rows: `KbBody`, `KbSections`, `KbSplit` and `KbEmbed` composed |
| `KbSearch` | `SqlScanIndex.query` with `_score_batch`, and `PgVectorIndex.query` beside it |
| `KbMigration` | the lifespan of a process up to `yield`, over sequences of deployments |
| `MC...` | the data TLC uses |
| `KbServiceProofs`, `KbSerialProofs` | theorems about `KbService`: types, any overlap, attempts that do not overlap with the refinement of `KbPromise` |
| `KbSplitProofs`, `KbIngestProofs`, `KbPipelineProofs` | theorems about the windows; the body, the sections and the embedding call; all of them composed |
| `KbPostgresProofs` | theorems about `KbPostgres`: locks, deadlocks, attempts that do not overlap with the refinement of `KbPromise` |
| `KbSearchProofs`, `KbMigrationProofs` | theorems about the scan and about sequences of starts |

`KbService` extends `KbState` and `KbRows`; `KbProperties` extends
`KbService` and instantiates `KbPromise`. `KbPostgres` extends `KbProperties`: what
a request reads and decides is the same on both databases, how it writes is not.
`KbIngest` extends `KbSections`, `KbBody` and `KbEmbed` and instantiates `KbSplit`, and
follows one document alone; the service sees it as the constant `Pieces` (how many
pieces an upload makes) and as the await `Embed`. `KbMigration` stands beside it: the
service takes the schema as given, the migration takes a document's run as one
step, and both have the sweep in common. The search is pure and stands alone; the service
sees it as the count of chunks a search could return. A definition
marked "a slip" is what a plausible bug would make of the definition after it: no
specification uses it, and each property is violated when it takes that place.

### The service

A task is one request coroutine. Its frame (`loc[t]`) has a program counter, one
value per await, and the locals the code holds over an await: the collection id,
the bytes, the document id, the row as it was read (`seen`), and the failure to
record (`why`). What an action is follows from how SQLAlchemy and pysqlite use
SQLite:

- A SELECT runs outside any transaction. It is an action of its own whose result
  goes into the frame.
- A transaction begins at its first DML statement and holds SQLite's write lock
  until it commits. DML to commit is one action, and reads the database as it is
  then.
- The unit of work sends an UPDATE of the columns whose new value differs from
  the value that was loaded, and no UPDATE if there is none (`KbRows!Flush`). A
  column another task wrote in between keeps that task's value unless this one
  changes it too. `indexed_at` gets a new timestamp and always differs.
- An UPDATE of a row that is gone matches nothing and raises: the transaction
  rolls back. A DELETE that matches nothing only warns.
- Foreign keys are declared and SQLite is not told to enforce them.

| Action | Code |
|---|---|
| `StartCreateCollection`, `CreateCollection` | `CollectionStore.create`: lookup, INSERT or the constraint's refusal |
| `StartDeleteCollection`, `DeleteCollection` | `CollectionStore.delete` |
| `StartUpload` ... `ReplyDuplicate` | `create_document` and `DocumentStore.create`: lookup, INSERT, the loser's reread, the reply 200 |
| `StartReindex`, `ReadForPending` | `reindex_document` and `mark_pending` |
| `WriteReset` | the transaction of `mark_pending` and of `_retry_if_failed` |
| `StartDeleteDocument`, `DeleteDocument` | `delete_document` and `DocumentStore.delete` |
| `GetDocument` ... `ReadOwner` | `index_document` up to the vectors |
| `ReadToFinish`, `FinishIndexing` | `finish_indexing` |
| `DropChunks`, `ReadToFail`, `MarkFailed` | the exception handler: `drop_chunks`, `mark_failed` |
| `DatabaseError` | any round trip raises: handled inside the `try`, or the end of the task |
| `Crash`, `Startup` | death of the process; the lifespan's sweep |

Abstractions: a tenant is part of a collection's key, since a request of another
tenant is answered 404 and changes nothing; bytes are one element of `Sha`; a
chunk is a unit of its document's count, because a chunk's collection never
changes and neither do a document's bytes; an error is told by who writes it;
ids are uuids and never used again, so an instance stops when its ids are used
up (that is why deadlock is not checked). `Overlap` is a switch on the callers,
not on the code: with `FALSE` a caller waits for its last attempt on the same
bytes in the same collection to end before it makes another. Deletes, crashes and
errors stay unrestricted.

### The service on Postgres

`KbPostgres` keeps the frames of `KbService` and adds what the database holds for
each session (`tx[x]`): how far its transaction is (`stage`), the chunk rows it has deleted
(`cut`) and those its DELETE has not come to (`want`), those it has inserted (`put`), the
documents it has deleted or swept (`rows`) and those it has not come to (`todo`). `copies`
are the committed chunk rows: one element is all that one run inserted for one document,
so that two copies can be told from one.

- Every statement takes a snapshot of what is committed. A DELETE finds its rows in
  that snapshot, locks them one by one in any order, waits for those that another
  transaction deletes, and passes over what is gone by then; rows committed since are
  not looked for. The sweep's UPDATE locks its rows in the same way.
- An INSERT of chunks locks the key of its document (FOR KEY SHARE): a DELETE of the
  document waits for it.
- `DELETE FROM documents` takes its rows first. Then the foreign key looks for chunks
  that refer to them (`Checking`): it waits, with the rows held, for who is deleting one,
  and refuses the DELETE for one that nobody deletes. `DELETE FROM collections` does the
  same to documents.
- The IntegrityError of a collection that is gone is taken by `create()` for a lost
  race, and its reread then finds nothing.
- `Waits` is who may wait for whom, and a `Deadlock` a set of transactions in which each
  waits for every other through others of it. It is ended by an error in any of them:
  `Victim` of a task; `SweepFails`, with which a process does not start, of the one that joins.
- `Join` is the sweep of a second process on the same database. Its requests are left
  out: they would be tasks like the others.

| Action | Code |
|---|---|
| `DeleteChunks`, `DeleteChunk` | the first statement of every transaction: `drop_document`, `drop_where_document_in`, the DELETE of `replace` |
| `CommitReset` | `mark_pending`, `_retry_if_failed`: UPDATE, COMMIT |
| `InsertChunks`, `CommitFinish` | `replace`'s INSERTs, `finish_indexing`'s UPDATE and COMMIT |
| `CommitDrop`, `CommitFailure` | `drop_chunks`, `mark_failed` |
| `LockDocuments`, `LockDocument` | `DELETE FROM documents`, and the sweep's UPDATE, row by row |
| `CommitDelete` | `DocumentStore.delete`, past the foreign key |
| `DeleteOwned`, `HoldCollection`, `CommitDeleteCollection` | `CollectionStore.delete`, past the foreign key of its documents; the DELETE of its own row |
| `RefuseDelete` | a foreign key refuses either delete |
| `Insert` | `DocumentStore.create`, waiting for a delete of the same bytes |
| `Join`, `FailPending`, `SweepFails` | `fail_stale_pending` of a process that starts while another works |
| `PgDatabaseError`, `Victim`, `PgCrash`, `PgStartup` | a lost connection, a deadlock, death and restart of everything |

A statement that needs one row and ends its transaction is one action with the COMMIT: it
waits until nobody has that row, and a transaction that waits holds what it held
before. The chunk rows that one run inserted are one row here, so that two transactions
that take the chunks of one document in different orders are not told apart; on one
document that takes a delete (two deletes, or a delete and an attempt), and it ends as the
deadlocks of a delete that are here. An UPDATE that changes no key does not wait
for FOR KEY SHARE, and the INSERTs of one `replace` are one.

### From body to rows

`KbBody` counts the messages of one body: `ReadHeaders` is the refusal of a declared
length, `Receive` one `http.request` message through `counted()`, `TakeData` the route's
look at the length of the document itself. The document can be longer than the body
it came in, because JSON may be in UTF-16 and the bytes stored are UTF-8 (`Growth`).
`KbEmbed` sends batches; the provider may fail any, and may answer one with any
number of vectors up to one too many. A vector is named by the text it embeds.
A document's bytes may also be unreadable, of a type or in an encoding that
`extract_text` refuses, and the database may fail, or refuse a vector, when the rows are
written: `error` is the reason that then goes on the row, and `FailWith` the handler.
`KbIngest` runs them in the order of the code and counts a document in lines: a line of
text is one letter of a section's body, a blank line an empty one. Its pieces know
which lines they hold, so that a row can be held against the text it came from.

### The chunker

`KbSections` has one action per kind of line. A title is named by its line, a
body by its first and last line. `KbSplit` has one action per turn of the loop;
characters are letters, full stops, blanks and line ends, which is all that
`_BOUNDARY` and `strip()` tell apart, and a piece is a pair of offsets.

### The migration

`KbMigration` follows a process through `create_all`, the choice of backend,
`create_schema` and the sweep (`phase`), then lets it queue, index and delete
documents, and stops it anywhere. A vector is its width; `column` is 0 while the
embeddings are JSON and n once they are `vector(n)`. Postgres runs DDL inside the
transaction, so that `AddColumn` with its backfill and `Convert` are one step each.
On SQLite the driver begins a transaction only at a DML statement, so that `ALTER
TABLE` is committed by itself and `Backfill` is a step of its own. The HNSW index is
left out: it changes the plan of a query and no row. One instance per database: the
repository's README asks for it while a database is converted.

### The search

`KbSearch` has one action per partition. A row is its score and whether its
vector has the query's width, and whether its norm is zero. `np.argpartition` promises
which scores it puts first and no order among them: any such result is allowed.
`PgQuery` is the answer of the other backend to the same request, as an exact order
with NaN last; the HNSW index, which may miss rows, is not in it.

## Runs

| Run | Instance | Shows |
|---|---|---|
| `overlapping` | 2 tasks, 2 documents, 2 collections, uploads with text and without, 1 error, 1 crash, any overlap | `TypeOK`; `NoOrphanChunks`; `AllOrNothing` |
| `settling` | 2 tasks, 2 documents, 1 crash, no database error, `FairSpec` | `NoStrandedPending`; `PendingSettles` |
| `serial` | 3 tasks, 2 documents, 1 error, 1 crash, `Overlap` FALSE | `ChunksOnlyForIndexed`; `IndexedIsComplete`; `RowCoherent`; `KeepsPromise` |
| `postgres` | 2 tasks, 2 documents, 2 uploads, 1 collection, 3 copies, 1 error, 1 crash, 1 process that joins, `Overlap` FALSE | `PromiseOnPostgres`; `SerialAsOnSqlite`; `SearchSurvivesJoin`; `NothingStrandedOnPostgres`; `DeadlocksSpareIndexing`; `PgTypeOK` |
| `ingest` | every body of up to 7 units against a limit of 6, every text of up to 6 lines, 3 heading levels, windows 2 and 3, overlaps 0 and 1, batches of 1 and 2 | `EveryLineSearchable`; `RowsMatchTheirVectors`; `ReasonIsTrue`; `PathsEnclose`; `TextKeptOnce`; `VectorsInOrder`; `HeldWithinLimit`; `RefusedForItsSize`; `SectionsTypeOK` |
| `split` | every body of up to 6 characters, windows 1 to 4, overlaps 0, 1, 2, 5 | `NothingLost`; `PiecesFit`; `Advances`; `SplitTypeOK` |
| `search` | every scan of up to 7 rows, partitions of 3, scores -1 to 1, limits 1 to 3, floors 0 and 1 | `KeepsTheBest`; `Ranking`; `BackendsAgree`; `SearchTypeOK` |
| `migration` | 2 documents of up to 2 pieces, widths 2 and 3, settings unset, 2 and 3, both dialects, any number of deployments | `ServesWhatItReads`; `ChunksIffIndexed`; `FoundByCollection`; `FittingVectorsSurvive`; `MigTypeOK` |
| `unfiltered_search` | 2 tasks, 1 document | `ChunksOnlyForIndexed` is violated when attempts overlap |
| `orphan_document` | 2 tasks | `DocumentHasCollection` is violated |
| `stuck_pending` | 2 tasks, 1 error | `NoStrandedPending` is violated |
| `half_backfilled` | as `migration`, on SQLite | `OldDatabaseWorks` is violated |

### Why the bounds are enough

Two tasks on one document meet in every pair of places, and with two documents
and collections a task is also seen beside an unrelated one. The third task of
`serial` lets a delete and a fresh upload fall around a run, which is the
shortest story that moves a document id under a task's hands. Two pieces tell
"all" from "part" from "twice"; an empty and an unreadable upload drive the two
early failures (`serial` has both; `overlapping` and `settling` have the empty one,
and an unreadable one fails at the same await). One error and one crash reach every handler; a second crash
finds the state a first one leaves, since the sweep leaves no document pending.
Tasks and documents are interchangeable in the safety runs, so TLC may identify
permutations; the liveness run uses no symmetry. In the chunker four window
sizes include odd and even halves and a window of one, for which the overlap
rounds to nothing; overlaps go past the window. Six lines are enough for three
levels to open, close and reopen. Seven rows are three partitions, each able to
overflow a limit of one or two, and none a limit of three. In the migration two pieces make
a document that fits in part, two widths and three settings make every pair of an
old and a new column, and nothing bounds the number of deployments.

On Postgres two tasks and the process that joins are three transactions at once, each of
them anywhere. Within these bounds there are deadlocks of a delete with a reset, of two
deletes, of a collection's delete with a sweep, of a run's commit after a join, and of all
three transactions. The same properties held on three tasks with one upload, where a
delete of a document, a delete of its collection and a run are inside their transactions
together; the theorems take any number. Three copies are one more than two documents
should ever have. In `ingest` the six lines are cut into up to
six pieces, so that a call has up to six batches, the last of them short or not; a
reply may be short, empty or one too long. The limit lies one below
the longest body and can be crossed by a message, by a header or by decoding alone.

### Fairness

`FairSpec` is weak fairness of each task's next step. The event loop resumes a
coroutine whose await is answered; the database driver and the HTTP client (with
its 60 s timeout) answer, by an error if need be. Nothing is assumed of callers,
of errors, or that a dead process is started again, so `PendingSettles` excuses a
document whose process died. `MaxFaults = 0` there because one database error in
the wrong place does strand a document: that is the run `stuck_pending`. Such
errors need no broken disk: a long search holds a read lock, and a commit that
waits too long for it fails with "database is locked".

### Divergences

- `unfiltered_search`: a reindex request of a document that is pending schedules a
  second run (`server/routes.py:249`). One run's write-back of a row it read as
  `indexed` or `failed` leaves a status that the other has changed since, next to
  new chunks: a pending document that searches return. In the same way a failing
  run drops the chunks of a document that the other has just indexed, which is
  `indexed` with nothing to search until the failure is written.
- `orphan_document`: a collection deleted between an upload's lookup and its INSERT
  leaves a document that no request can reach or delete.
- `stuck_pending`: `indexer.py:48` says "Never raises: a failure is recorded on the
  row"; an error before the `try` block or inside its handler is not recorded.
- `half_backfilled`: on SQLite a process that dies between `ALTER TABLE` and the
  commit of the backfill leaves a column that the next start takes for a filled one
  (`db.py:42`); no search finds those chunks, though their documents are `indexed`.

Four more were read and have no run of their own:

- An upload of bytes that are still pending is answered 200 (`store.py:231`), which
  `server/routes.py:114-115` says of bytes that "are already indexed here". The reply
  is all that differs.
- Rows of one partition that tie do not come back in the order they were read, as
  `index.py:181-182` says they do: `_score_batch` hands over what `np.argpartition`
  left, in an order it does not promise. `Ranking` states what is true, that ties
  keep the order of their partitions.
- At a floor of zero a vector of norm zero is a hit of the scan, with score 0, and
  never one of pgvector, whose distance is NaN: there the two are not "equivalent"
  (`pgindex.py:211-213`). The comment at `tests/test_pgvector.py:199-201` asks for less
  of the scan than it does: "The scan path returns 0.0 for an uncomparable vector; `<=>`
  returns NaN, and NaN passes a `>= min_score` test in some comparisons. Neither backend
  may admit it as a hit." Of the scan that is true of a floor above zero only, and the test
  below it asks pgvector alone. `BackendsAgree` excuses exactly that (`ZeroIsFloored`).
- On Postgres overlapping runs violate the same properties as `unfiltered_search`, and
  can also leave two copies of a document's chunks, or end each other by a deadlock;
  the cause is again `server/routes.py:249`. Deletes can be in a deadlock whatever callers
  do: a delete finds no chunks of a document that is pending, the run commits them, a
  reindex or a second delete deletes them, the first delete takes the document's row
  (`store.py:301`) and its foreign key waits for those chunks, and the other one waits for
  the row. A collection's delete that takes several rows meets a sweep or another
  delete in the same way. The one that is ended answers 500 (or does not start) and
  leaves nothing behind; after a join it may be a run's commit, which then records a failure.
  `DeadlocksSpareIndexing` says who is never in one.

## Proofs

| Theorem | States |
|---|---|
| `KbServiceProofs!TypeCorrect` | `Spec => []TypeOK` |
| `KbServiceProofs!FramesStayMatched` | `Spec => []FramesMatch` |
| `KbServiceProofs!NoChunkOutlives`, `ChunksAreWhole` | `Spec => []NoOrphanChunks`, `[]AllOrNothing` |
| `KbServiceProofs!NothingStranded` | if `MaxFaults = 0` then `Spec => []NoStrandedPending` |
| `KbSerialProofs!SerialIsInvariant` | if `Overlap = FALSE` then `Spec => []SerialInv`, and from it: |
| `KbSerialProofs!SearchesSeeIndexedOnly` | `[]ChunksOnlyForIndexed` |
| `KbSerialProofs!IndexedMeansWhole` | `[]IndexedIsComplete` |
| `KbSerialProofs!RowsStayCoherent` | `[]RowCoherent` |
| `KbSerialProofs!ServiceKeepsPromise` | `KeepsPromise`: the service implements `KbPromise` |
| `KbPostgresProofs!PgShapeHolds`, `PgTypeCorrect` | `PgSpec => []PgShape`, `[]PgTypeOK` |
| `KbPostgresProofs!PgInvHolds` | if `Overlap = FALSE` then `PgSpec => []PgInv`, and from it: |
| `KbPostgresProofs!SearchesSurvive` | `[]SearchSurvivesJoin` |
| `KbPostgresProofs!SerialOnPostgres` | `[]SerialAsOnSqlite` |
| `KbPostgresProofs!IndexingIsSpared` | `[]DeadlocksSpareIndexing` |
| `KbPostgresProofs!NothingStrandsOnPostgres` | `[]NothingStrandedOnPostgres` |
| `KbPostgresProofs!PostgresKeepsPromise` | `PromiseOnPostgres`: until a process joins, the service on Postgres implements `KbPromise` |
| `KbSplitProofs!SplitTypeCorrect`, `SplitLosesNothing`, `SplitPiecesFit` | `SplitSpec => []SplitTypeOK`, `[]NothingLost`, `[]PiecesFit` |
| `KbSplitProofs!SplitAdvances` | `SplitSpec => Advances` |
| `KbIngestProofs!BodyIsBounded`, `NothingElseRefused` | `BodySpec => []HeldWithinLimit`, `[]RefusedForItsSize` |
| `KbIngestProofs!SectionsTypeCorrect`, `PathsAreRight`, `SectionsLoseNothing` | `SectionsSpec => []SectionsTypeOK`, `[]PathsEnclose`, `[]TextKeptOnce` |
| `KbIngestProofs!EachTextItsVector` | `EmbedSpec => []VectorsInOrder` |
| `KbPipelineProofs!PartsKeepTheirPromises` | the six invariants of the body, the sections and the embedding call hold of `IngestSpec` too |
| `KbPipelineProofs!IndexedTextIsSearchable` | `IngestSpec => []EveryLineSearchable` |
| `KbPipelineProofs!EachRowItsVector` | `IngestSpec => []RowsMatchTheirVectors` |
| `KbPipelineProofs!ReasonsHold` | `IngestSpec => []ReasonIsTrue` |
| `KbSearchProofs!SearchTypeCorrect` | `SearchSpec => []SearchTypeOK` |
| `KbSearchProofs!ScanKeepsTheBest` | `SearchSpec => []KeepsTheBest` |
| `KbSearchProofs!AnswersAreRanked` | `SearchSpec => []Ranking` |
| `KbSearchProofs!BackendsGiveOneAnswer` | `SearchSpec => []BackendsAgree` |
| `KbMigrationProofs!MigrationTypeCorrect`, `EveryStartIsSound` | `MigSpec => []MigTypeOK`, `[]ServesWhatItReads` |
| `KbMigrationProofs!StartsKeepChunks`, `ServedChunksAreFound` | `MigSpec => []ChunksIffIndexed`, `[]FoundByCollection` |
| `KbMigrationProofs!NoStartLosesVectors` | `MigSpec => FittingVectorsSurvive` |

They hold for any sets of tasks, documents, collections and uploads, any number
of crashes, errors and processes that join, any supply of chunk ids, any text, window,
overlap, batch, partition and limit. The
assumptions are those named in the modules that declare the constants: `Pieces` maps
uploads to naturals, bounds are naturals, the three sentinels are no other value;
bodies are stripped and not empty, windows, batches, partitions and limits positive;
widths are positive. `KbServiceProofs` holds for either value of
`Overlap`, and so does `PgShapeHolds`. `KbSerialProofs` and the rest of `KbPostgresProofs`
assume it `FALSE`, and `unfiltered_search` shows that they must.

### The service

`TypeOK` is inductive by itself once it says which locals are set at which place
(`FrameOK`). `NoOrphanChunks` and `AllOrNothing` are not inductive: a run writes
the chunks of the bytes in its frame under the id in its frame, so the proof needs
`FramesMatch`, that a task past its insert works on an id that was inserted and,
while the row lives, on that row's bytes. Ids are never reused, so no later insert
can disturb it; each step then either clears the chunks, writes all of them
for a live row, or leaves them. `NoStrandedPending` needs the same invariant and a
finer notion of who is `Responsible`: a run about to write back a row that it read
as `indexed` would not move it out of `pending`, so such a run does not count; the
proof shows that whoever makes a document pending, or stops being responsible for
one, leaves a responsible task or a decided row. It assumes no database errors, and
`stuck_pending` shows that it must.

When attempts do not overlap, `SerialInv` says why nothing goes wrong between a read and
the write-back of it:

- `OneAttempt`: no two tasks attempt the same bytes in one collection. The guard of
  `Overlap` gives it at the start of an attempt, and an attempt keeps its bytes.
- `OnItsRow`: a task at work holds its row as the table has it (`seen`), and the
  status is the one its place needs. So the flush writes what the method
  assigned: no other task can have written the row since, because a task writes only
  its own row, and by `OneAttempt` and the unique constraint a row is one task's.
- `HasPieces`: past the check for an empty document there are pieces.
- `Whole`: the row and the chunks of each document agree.
- `DownIsIdle`: no coroutine outlives its process, so that a sweep meets no worker.

None is inductive alone: `Whole` needs `OnItsRow` at each write-back, which needs
`OneAttempt` against the others' writes, and `DownIsIdle` against the sweep's. TLC
checked `SerialInv` on the instance of `serial` before it was proved. The refinement
goes step by step: `TaskEffects` says what a step may do to documents (it accepts
one, requeues, completes or gives up its own, or removes some), each of these is an
action of `KbPromise`, and the rest stutter.

### The service on Postgres

`PgTypeOK` says who holds which rows and is not inductive: that a commit frees only rows
that are its own rests on what a transaction can hold at each stage (`StageFits`) and on
what two transactions never share (the last part of `PgShape`). `PgShape` is proved
under any overlap: the locks are Postgres's, and no caller can break them.

When attempts do not overlap, `PgInv` takes the place of `SerialInv`. `OneAttempt`,
`HasPieces` and `DownIsIdle` are the same; the others change for what SQLite's write
lock no longer gives:

- `PgOnItsRow`: the row a task read may have been failed by a process that joined
  since. `SeenOrSwept` says that this is the only write that can come between, and the
  proof of each write-back has this case beside the old one: columns that the run sets
  win, and the reason of the sweep may stay behind.
- `HoldsItsOwn`: a transaction has deleted, or waits for, chunks of its own documents
  only; an attempt has all of them in hand, though its DELETE saw an older snapshot. No
  one else can insert chunks of that document in between, because only an
  attempt does. A delete of a collection that is past its foreign key has deleted every
  chunk of its documents, and a delete of a document has its row unless it is gone.
- `PgWhole`: an indexed document has exactly one copy of its chunks, any other none.
- A sweep deletes no chunks, since a document that is pending has none.
- `Born`: a task's document has been inserted, so that its id is no one else's.

TLC checked `PgInv` on two tasks, two documents and a process that joins before it was
proved. `PgTaskEffects` then says of every statement what `TaskEffects` says of every
step: it does nothing to any document, accepts one, decides the task's own, or removes
some. `EffectsOnRows` counts the rows that come with the copies, and
`PromiseOfEffects`, which `KbSerialProofs` uses too, makes a step of `KbPromise` of them: so
one argument carries both refinements.

`IndexingIsSpared` follows from `PgInv` without another invariant. In a deadlock each waits
for one of it and one of it waits for each (`WaitsInDeadlock`). Nobody waits for a
transaction that holds nothing (`HoldersOnly`), and by `PgWhole` a run and the retry of a
failed upload have no chunks to delete: all that a run ever holds is the key of the
document its new chunks refer to (`RunsHoldLittle`), so that only its commit can be in one.
That commit waits for its own document alone, which only a sweep can hold against it: hence
not with one process. Of two transactions that delete no document, one waits for the other
only where that is a sweep (`NoneWaitsForAWriter`): if it waited for chunks, both would work
on the one indexed document they belong to, against `OneAttempt`. A sweep does not wait
for itself, so a deadlock takes a delete. The victim is then a request, a sweep, or a
commit inside the `try`, whose handler goes on to record the failure; that is the part of
`NothingStrandsOnPostgres` that `NothingStranded` did not need.

### From body to rows

For the chunker's windows the strengthening is `LoopInv`: between two turns the next
window starts no later than the last one ended and no more than the step back before
it. A boundary is accepted only in the last part of a window, beyond the step back
(`WindowBounds`), so the next window ends later; that is the argument the comment
at `chunker.py:61` leaves to the reader.

For the sections it is `StackEncloses`, that the stack is the set of headings that
enclose the next line, in the order of their lines and of their levels, whether or not
the document skips levels or starts below the first; and `BodyFollows`, that the body at
hand is the run of lines since the last heading, after everything that was emitted.
A line of the body is then under the headings on the stack (`BodyEnclosed`), which
is what `flush` files it under.

For the body limit it is that no more is kept than was counted, and for the embedding
client that batches are strung together without a gap (`Strung`): the vectors up to
`start` and a reply of the length asked for are the vectors up to the batch's end.

`PipelineInv` puts these together for a document on its whole way. `KbSplit` is
instantiated as in `KbIngest` and its theorems with it (`SplitFacts`): a section handed
to it is stripped and not empty (`CharsOfSection`), which is the assumption it makes of its
bodies. `CutInv` says where the split of the section at hand is, `PiecesInv` that the
pieces so far are numbered from zero and hold every line of the sections before it,
`VectorsInv` and `RowsInv` that the embedding call has exactly those pieces for its
texts, the table exactly its vectors, and a failure the reason of the place it came from. The windows that cover a section's letters
cover its lines (`WindowsOfSection`), because a line of text has one place in the body
(`Offset` is injective on them). TLC checked each conjunct on texts of up to four
lines.

### The search

What lets a scan forget is `MergeTop`: the best of what was kept and of the next
partition are the best of everything read, since a row that was dropped had `limit`
better or equal ones, and they or better ones are still there. `SearchInv`
says that the list holds the best rows read, each once with its score (`Listed`, `TopOf`), that
the scan stands at a boundary of partitions (`Aligned`), and that a hit's position
lies in the partition of its row (`Placed`), whatever `argpartition` did inside of it:
that is what the order of ties rests on. `Sorted` is defined by counting, for each hit, those
that come before it. `Ranks` shows that a strict order ranks a finite set from zero
without a gap, `ByRankPermutes` that listing a set by rank permutes it, and `SortedIsSorted`
that a sorted list is in order. `SearchInv` was checked by TLC on scans of up to five rows.

That the two backends agree needs no invariant of its own. In the database's order no row
comes before a nearer one (`OrderedIsOrdered`), so the rows that reach the floor come
first and cutting before flooring gives a list of the `limit` best of them
(`PgQueryIsTop`); the scan's answer is such a list too (`AnswerIsTop`). The lists need not
hold the same rows, but they have the same scores place by place (`OneRanking`): if one
were better at place k, its first k rows could not all be among the k - 1 before that
place in the other, and the one that is not would have been left out for a worse one.

### The migration

The strengthening says what holds between the starts:
`ColumnFits`, that a vector column never holds a vector of another width and only
Postgres has one, and `PlacedTogether`, that on Postgres the column `collection_id`
and its contents arrive in one step. Without the first, `ServesWhatItReads` would
have to be rechecked against whatever an earlier deployment wrote.

### Only model-checked

- `PendingSettles`: liveness, and `ENABLED`, are outside the prover's reach.

## Not modelled

- The HNSW index of `pgindex.py`: an approximate order, which may leave rows out of an
  answer and changes nothing stored.
- The two statements of `PgVectorIndex.query` as separate snapshots: a document deleted
  in between drops out of the answer, as the last line of the method intends.
- Authentication, settings and the command line, and the rules of `extract.py`: pure or
  without state that the modelled parts share. That extraction may refuse is modelled.
- `mark_indexed` and `replace_chunks`, which only tests call; the read-only routes.
- Floating point in the cosine: scores are the few values that the order depends on.

## Plan

Every safety and action property of the passing runs is a theorem. What is left is
`PendingSettles`. Its temporal half stays with TLC, but the half that is about single
steps can be stated as an action property and proved: a measure of a task's remaining
stages that each of its steps lowers, that no other actor raises, and that is zero only
when the row is decided. With `NothingStranded`, which says that a pending document always
has such a task, it is the argument that fairness then completes.
