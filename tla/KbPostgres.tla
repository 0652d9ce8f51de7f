------------------------------ MODULE KbPostgres ------------------------------
(***************************************************************************)
(* The service over Postgres and PgVectorIndex, where a transaction is     *)
(* several statements: each takes its own snapshot of what is committed    *)
(* (READ COMMITTED) and waits for the rows it needs, and the foreign keys  *)
(* are enforced.  A second process may start on the same database and      *)
(* sweep it while the first one works.                                     *)
(*                                                                         *)
(* What a request reads, decides and holds is KbService's; its             *)
(* transactions are taken apart here.  A statement that needs several rows *)
(* locks them one by one, in any order.  One that needs a single row and   *)
(* ends its transaction is one action with the COMMIT.                     *)
(***************************************************************************)
EXTENDS KbProperties

CONSTANTS
  Copy,      \* ids for the chunk rows of one document that one run inserted
  Other,     \* the transaction of the process that joins
  MaxJoins   \* bound on processes that join

ASSUME JoinsAssumption == MaxJoins \in Nat
ASSUME CopyAssumption  == None \notin Copy /\ Other \notin Task

VARIABLES
  copies,    \* the document of each committed copy, or None
  tx,        \* the open transaction of each task, and of the one that joins
  joined     \* processes that have joined

pgvars == <<vars, copies, tx, joined>>

Tx == Task \cup {Other}

\* cut: chunk rows deleted; want: those of the DELETE's snapshot it has not come
\* to yet; put: rows inserted, which lock their document against deletion; rows:
\* documents deleted, or updated by the sweep; todo: those it has not come to.
Transaction == [stage : {"none", "wait", "cut", "put", "take", "gone", "held"},
                cut : SUBSET Copy, want : SUBSET Copy, put : Copy \cup {None},
                rows : SUBSET DocId, todo : SUBSET DocId]

NoTx == [stage |-> "none", cut |-> {}, want |-> {}, put |-> None,
         rows |-> {}, todo |-> {}]

WritePc == {"retry", "pend_write", "del_write", "c_drop", "fin_write", "drop",
            "fail_write"}

Doing(x) == IF x = Other THEN "sweep" ELSE loc[x].pc

\* A task at pc p whose transaction is at stage s.
In(t, p, s) == At(t, p) /\ tx[t].stage = s

\* The documents a transaction is about, found when a statement runs.
Targets(x) ==
  CASE Doing(x) = "sweep"  -> {d \in DocId : Live(d) /\ docs[d].status = "pending"}
    [] Doing(x) = "c_drop" -> {d \in DocId : Live(d) /\ docs[d].coll = loc[x].coll}
    [] OTHER               -> {loc[x].doc}

Deletes(x) == Doing(x) \in {"del_write", "c_drop"}

\* The document x updates, or that its new chunks refer to.  mark_failed sends
\* no UPDATE when the row it read says all of it already.
Writes(x) ==
  \/ Doing(x) \in {"retry", "pend_write", "fin_write"}
  \/ Doing(x) = "fail_write" /\ FailedRow(loc[x].seen, loc[x].why) # loc[x].seen

\* The statement x is at needs the row of document d.
Needs(x, d) ==
  \/ tx[x].stage = "take" /\ d \in tx[x].todo
  \/ tx[x].stage = "cut" /\ Writes(x) /\ d = loc[x].doc
  \/ tx[x].stage = "put" /\ d = loc[x].doc

\* y has the row of d locked against it.  A chunk that refers to a document
\* locks its key (FOR KEY SHARE): against a delete, and not against an update.
Blocks(y, x, d) ==
  \/ d \in tx[y].rows /\ (Deletes(y) \/ Doing(x) # "fin_write" \/ tx[x].stage = "put")
  \/ Deletes(x) /\ tx[y].put # None /\ loc[y].doc = d

\* The foreign key of chunks is checked once DELETE FROM documents has its rows,
\* against what is committed then.
Checking(x) == Deletes(x) /\ tx[x].stage = "take" /\ tx[x].todo = {}
Unseen(x)   == {k \in Copy \ tx[x].cut : copies[k] \in tx[x].rows}

\* Both delete the collection loc[x].coll.
SameCollection(x, y) ==
  Doing(x) = "c_drop" /\ Doing(y) = "c_drop" /\ loc[x].coll = loc[y].coll

\* x may have to wait for y to end: for a chunk or a document that y holds, for
\* what y deletes and a foreign key still finds, or for the collection.
Waits(x, y) ==
  /\ x # y
  /\ \/ tx[x].stage = "wait" /\ tx[x].want \cap tx[y].cut # {}
     \/ \E d \in DocId : Needs(x, d) /\ Blocks(y, x, d)
     \/ Checking(x) /\ Unseen(x) \cap tx[y].cut # {}
     \/ tx[x].stage = "gone" /\ SameCollection(x, y) /\ tx[y].stage = "held"
     \/ tx[x].stage = "held" /\ Deletes(y) /\ Targets(x) \cap tx[y].rows # {}

Open == {x \in Tx : tx[x].stage # "none"}

Granted(x) == \A y \in Tx : ~ Waits(x, y)

\* Each of C waits for every other, through others of C; a statement waits for
\* one row at a time, so any of them may be the one on Postgres's cycle.
Deadlock(C) ==
  /\ Cardinality(C) > 1
  /\ \A S \in (SUBSET C) \ {{}, C} : \E x \in S, y \in C \ S : Waits(x, y)

Locked(x) == UNION {tx[y].cut : y \in Tx \ {x}}

FreshCopies ==
  {k \in Copy : copies[k] = None /\
     \A x \in Tx : k # tx[x].put /\ k \notin tx[x].cut \cup tx[x].want}

\* How many rows carry each document_id.
ChunkRows ==
  [d \in DocId |-> Cardinality({k \in Copy : copies[k] = d}) *
                     (IF Live(d) THEN Pieces[docs[d].sha] ELSE 1)]

Commit(x) ==
  /\ copies' = [k \in Copy |-> IF k \in tx[x].cut THEN None
                               ELSE IF k = tx[x].put THEN loc[x].doc
                               ELSE copies[k]]
  /\ tx' = [tx EXCEPT ![x] = NoTx]

\* A slip: the transaction is left open.
RollbackNothing(x) == UNCHANGED <<tx, copies, cols, docs>>

Rollback(x) ==
  /\ tx' = [tx EXCEPT ![x] = NoTx]
  /\ UNCHANGED <<copies, cols, docs>>

\* An exception in a task: handled in index_document or the end of a request.
Raise(t) == IF InTry(t) THEN Fail(t, "unexpected") ELSE Finish(t)

-----------------------------------------------------------------------------
(* The first statement of every transaction: DELETE FROM chunks.           *)

\* It sees the rows that are committed.
DeleteChunks(x) ==
  /\ tx[x].stage = "none"
  /\ LET seen == {k \in Copy : copies[k] \in Targets(x)} IN
     tx' = [tx EXCEPT ![x] = [NoTx EXCEPT
       !.want = seen, !.stage = IF seen = {} THEN "cut" ELSE "wait"]]
  /\ UNCHANGED <<cols, docs, copies, loc>>

\* A row that another transaction has deleted by now is passed over.  Rows
\* committed since the statement began are not looked for.
DeleteChunk(x) ==
  /\ tx[x].stage = "wait"
  /\ \E k \in tx[x].want \ Locked(x) :
       tx' = [tx EXCEPT
         ![x].want  = @ \ {k},
         ![x].cut   = IF copies[k] # None THEN @ \cup {k} ELSE @,
         ![x].stage = IF tx[x].want = {k} THEN "cut" ELSE "wait"]
  /\ UNCHANGED <<cols, docs, copies, loc>>

-----------------------------------------------------------------------------
(* The other statements, and how each transaction ends.                    *)

\* A slip: the chunks are left for the next run to replace.
CommitResetOnly(t) ==
  /\ In(t, "retry", "cut") \/ In(t, "pend_write", "cut")
  /\ Granted(t)
  /\ LET d == loc[t].doc
         r == loc[t].seen IN
     IF Live(d)
       THEN /\ docs' = [docs EXCEPT ![d] = Flush(docs[d], r, ResetRow(r))]
            /\ tx' = [tx EXCEPT ![t] = NoTx]
            /\ Enter(t) /\ UNCHANGED <<cols, copies>>
       ELSE Rollback(t) /\ Finish(t)

CommitReset(t) ==
  /\ In(t, "retry", "cut") \/ In(t, "pend_write", "cut")
  /\ Granted(t)
  /\ LET d == loc[t].doc
         r == loc[t].seen IN
     IF Live(d)
       THEN /\ docs' = [docs EXCEPT ![d] = Flush(docs[d], r, ResetRow(r))]
            /\ Commit(t) /\ Enter(t) /\ UNCHANGED cols
       ELSE Rollback(t) /\ Finish(t)

\* A document gone by now is the foreign key's business: IntegrityError.
InsertChunks(t) ==
  /\ In(t, "fin_write", "cut") /\ Granted(t)
  /\ IF Live(loc[t].doc)
       THEN /\ \E k \in FreshCopies :
                 tx' = [tx EXCEPT ![t].stage = "put", ![t].put = k]
            /\ UNCHANGED <<cols, docs, copies, loc>>
       ELSE Rollback(t) /\ Raise(t)

\* A slip: a row another process has failed meanwhile keeps its status.
CommitFinishYielding(t) ==
  /\ In(t, "fin_write", "put") /\ Granted(t)
  /\ LET d == loc[t].doc
         r == FlushIndexed(docs[d], loc[t].seen, Pieces[loc[t].sha]) IN
     docs' = [docs EXCEPT ![d] =
       IF @.status = "failed" THEN [r EXCEPT !.status = "failed"] ELSE r]
  /\ Commit(t) /\ Finish(t) /\ UNCHANGED cols

CommitFinish(t) ==
  /\ In(t, "fin_write", "put") /\ Granted(t)
  /\ LET d == loc[t].doc IN
     docs' = [docs EXCEPT ![d] =
       FlushIndexed(@, loc[t].seen, Pieces[loc[t].sha])]
  /\ Commit(t) /\ Finish(t) /\ UNCHANGED cols

\* A slip: the exception handler drops the chunks and does not mark the row.
CommitDropOnly(t) ==
  /\ In(t, "drop", "cut")
  /\ Commit(t) /\ Finish(t) /\ UNCHANGED <<cols, docs>>

CommitDrop(t) ==
  /\ In(t, "drop", "cut")
  /\ Commit(t) /\ Goto(t, "fail_read") /\ UNCHANGED <<cols, docs>>

CommitFailure(t) ==
  /\ In(t, "fail_write", "cut") /\ Granted(t)
  /\ LET d == loc[t].doc
         r == loc[t].seen IN
     IF Live(d) \/ ~ Writes(t)
       THEN /\ docs' = IF Live(d)
                         THEN [docs EXCEPT ![d] = Flush(@, r, FailedRow(r, loc[t].why))]
                         ELSE docs
            /\ Commit(t) /\ Finish(t) /\ UNCHANGED cols
       ELSE Rollback(t) /\ Raise(t)

\* DELETE FROM documents, or the UPDATE of the sweep, begins.
LockDocuments(x) ==
  /\ tx[x].stage = "cut" /\ (Deletes(x) \/ x = Other)
  /\ tx' = [tx EXCEPT ![x].stage = "take", ![x].todo = Targets(x)]
  /\ UNCHANGED <<cols, docs, copies, loc>>

\* A row that the WHERE clause no longer describes is passed over.
LockDocument(x) ==
  /\ tx[x].stage = "take"
  /\ \E d \in tx[x].todo :
       /\ \A y \in Tx \ {x} : ~ Blocks(y, x, d)
       /\ tx' = [tx EXCEPT
            ![x].todo = @ \ {d},
            ![x].rows = IF d \in Targets(x) /\ Live(d) THEN @ \cup {d} ELSE @]
  /\ UNCHANGED <<cols, docs, copies, loc>>

\* Documents that are neither this transaction's to delete nor another's.
Uploaded(t) ==
  {d \in Targets(t) \ tx[t].rows : \A y \in Task : Deletes(y) => d \notin tx[y].rows}

\* A foreign key finds a row that nobody deletes: chunks of a document, or, once
\* DELETE FROM collections has its row, a document uploaded since.
RefuseDelete(t) ==
  /\ \/ Checking(t) /\ Unseen(t) \ Locked(t) # {}
     \/ In(t, "c_drop", "held") /\ Uploaded(t) # {}
  /\ Rollback(t) /\ Finish(t)

CommitDelete(t) ==
  /\ At(t, "del_write") /\ Checking(t) /\ Unseen(t) = {}
  /\ docs' = [d \in DocId |-> IF d \in tx[t].rows THEN Gone ELSE docs[d]]
  /\ Commit(t) /\ Finish(t) /\ UNCHANGED cols

DeleteOwned(t) ==
  /\ At(t, "c_drop") /\ Checking(t) /\ Unseen(t) = {}
  /\ tx' = [tx EXCEPT ![t].stage = "gone"]
  /\ UNCHANGED <<cols, docs, copies, loc>>

HoldCollection(t) ==
  /\ In(t, "c_drop", "gone") /\ Granted(t)
  /\ tx' = [tx EXCEPT ![t].stage = "held"]
  /\ UNCHANGED <<cols, docs, copies, loc>>

CommitDeleteCollection(t) ==
  /\ In(t, "c_drop", "held") /\ Targets(t) \subseteq tx[t].rows
  /\ docs' = [d \in DocId |-> IF d \in tx[t].rows THEN Gone ELSE docs[d]]
  /\ cols' = [cols EXCEPT ![loc[t].coll] = Gone]
  /\ Commit(t) /\ Finish(t)

\* It waits for who deletes or updates the row with its key, or deletes the
\* collection.  A deleted collection is refused by the foreign key, and create()
\* takes any IntegrityError for a lost race.
Insert(t) ==
  /\ At(t, "insert")
  /\ \A x \in Tx : \A d \in tx[x].rows : ~ Holds(d, loc[t].coll, loc[t].sha)
  /\ \A y \in Task : tx[y].stage = "held" => loc[y].coll # loc[t].coll
  /\ IF LiveCol(loc[t].coll)
       THEN InsertDocument(t)
       ELSE Goto(t, "reread") /\ UNCHANGED <<cols, docs>>
  /\ UNCHANGED <<copies, tx>>

\* The connection fails in the middle of a transaction, or outside one.
PgDatabaseError(t) == Rollback(t) /\ DatabaseError(t)

\* Postgres ends a deadlock by an error in one of the transactions.
Deadlocked(x) == \E C \in SUBSET Open : x \in C /\ Deadlock(C)

Victim(t) == Deadlocked(t) /\ Rollback(t) /\ Raise(t)

-----------------------------------------------------------------------------
(* Processes.                                                              *)

\* A second process starts, and sweeps: the first of its two statements.
Join ==
  /\ up /\ joined < MaxJoins
  /\ DeleteChunks(Other)
  /\ joined' = joined + 1

FailPending ==
  /\ tx[Other].stage = "take" /\ tx[Other].todo = {}
  /\ docs' = [d \in DocId |-> IF d \in tx[Other].rows
                                THEN FailedRow(docs[d], "interrupted")
                                ELSE docs[d]]
  /\ Commit(Other)
  /\ UNCHANGED <<cols, loc>> /\ NoFault

\* A process whose sweep fails does not start.
SweepFails ==
  /\ \/ Deadlocked(Other) /\ UNCHANGED faults
     \/ tx[Other].stage # "none" /\ faults < MaxFaults /\ faults' = faults + 1
  /\ Rollback(Other)
  /\ UNCHANGED <<loc, up, crashes>>

\* Every process on the database dies, and Postgres rolls back for them.
PgCrash ==
  /\ Crash
  /\ tx' = [x \in Tx |-> NoTx]
  /\ UNCHANGED copies

\* With nothing else connected the sweep is one step.
PgStartup ==
  /\ copies' = [k \in Copy |-> IF copies[k] \in Targets(Other) THEN None
                               ELSE copies[k]]
  /\ UNCHANGED tx
  /\ Startup

-----------------------------------------------------------------------------
PgInit ==
  /\ Init
  /\ copies = [k \in Copy |-> None]
  /\ tx = [x \in Tx |-> NoTx]
  /\ joined = 0

\* What KbService has for any database.
Read(t) ==
  /\ \/ \E k \in CollKey : StartCreateCollection(t, k)
     \/ \E c \in CollId : StartDeleteCollection(t, c)
     \/ \E c \in CollId, s \in Sha : StartUpload(t, c, s)
     \/ \E d \in DocId : StartReindex(t, d)
     \/ \E d \in DocId : StartDeleteDocument(t, d)
     \/ CreateCollection(t) /\ \A y \in Task :
          tx[y].stage = "held" => cols[loc[y].coll] # loc[t].key
     \/ LookupExisting(t) \/ RereadExisting(t) \/ ReplyDuplicate(t)
     \/ ReadForPending(t)
     \/ GetDocument(t) \/ ReadAndChunk(t) \/ Embed(t) \/ ReadOwner(t)
     \/ ReadToFinish(t) \/ ReadToFail(t)
  /\ UNCHANGED <<copies, tx>>

Statement(t) ==
  /\ \/ up /\ loc[t].pc \in WritePc /\ DeleteChunks(t)
     \/ CommitReset(t) \/ InsertChunks(t) \/ CommitFinish(t)
     \/ CommitDrop(t) \/ CommitFailure(t) \/ CommitDelete(t)
     \/ DeleteOwned(t) \/ HoldCollection(t) \/ CommitDeleteCollection(t)
     \/ RefuseDelete(t) \/ Insert(t) \/ Victim(t)
  /\ NoFault

\* The statement a transaction is in comes to its next row, or the next begins.
Continue ==
  /\ \E x \in Tx : DeleteChunk(x) \/ LockDocuments(x) \/ LockDocument(x)
  /\ NoFault

PgNext ==
  /\ \/ /\ \/ \E t \in Task : Read(t) \/ Statement(t) \/ PgDatabaseError(t)
           \/ Continue \/ FailPending \/ SweepFails \/ PgCrash \/ PgStartup
        /\ UNCHANGED joined
     \/ Join /\ NoFault
  /\ chunks' = ChunkRows'

PgSpec == PgInit /\ [][PgNext]_pgvars

-----------------------------------------------------------------------------
\* Locks are held by who may hold them: no two transactions have deleted one
\* row, none has deleted a row that is not committed or inserted one that is,
\* and a task outside a transaction holds nothing.
PgTypeOK ==
  /\ copies \in [Copy -> DocId \cup {None}]
  /\ tx \in [Tx -> Transaction]
  /\ \A x \in Tx :
       /\ tx[x].stage = "none" => tx[x] = NoTx
       /\ tx[x].stage # "none" /\ x # Other => up /\ loc[x].pc \in WritePc
       /\ tx[x].put # None => copies[tx[x].put] = None
       /\ \A k \in tx[x].cut : copies[k] # None /\ k \notin Locked(x)
       /\ \A d \in tx[x].rows : Live(d)
  /\ joined \in 0 .. MaxJoins

\* While callers do not overlap attempts, a deadlock takes a delete (DELETE FROM
\* documents holds its row while the foreign key waits for chunks), and what has
\* to decide a document is never in one: not a run that records its failure, nor
\* the retry of a failed upload, nor, with one process, the commit of a run.
DeadlocksSpareIndexing ==
  \A C \in SUBSET Open : Deadlock(C) =>
    /\ \E x \in C : Deletes(x)
    /\ \A x \in C : /\ Doing(x) \notin {"retry", "drop", "fail_write"}
                    /\ joined = 0 => Doing(x) # "fin_write"

\* Nor does a deadlock strand a document, or a statement the foreign keys refuse:
\* unless the connection fails, each pending one has a task to decide it.
NothingStrandedOnPostgres == faults = 0 => NoStrandedPending

\* One process, attempts that do not overlap: statements that see different
\* snapshots leave the rows as SQLite's write lock leaves them, with one copy of
\* the chunks of an indexed document, whatever deletes fall in between.
SerialAsOnSqlite ==
  joined = 0 =>
    ChunksOnlyForIndexed /\ IndexedIsComplete /\ RowCoherent

\* ... and every commit is a step of KbPromise, as it is there.
PromiseOnPostgres ==
  Promise!PInit /\ [][joined' = 0 => Promise!PNext]_(Promise!pvars)

\* A process that starts while another works fails what the other is indexing,
\* which app.py:33-35 accepts; but what a search finds stays right, and the run
\* that was failed still ends with its document whole.
SearchSurvivesJoin == ChunksOnlyForIndexed /\ IndexedIsComplete
=============================================================================
