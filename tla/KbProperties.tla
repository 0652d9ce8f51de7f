----------------------------- MODULE KbProperties -----------------------------
(***************************************************************************)
(* What should be true of the service, grouped by what it is true under.   *)
(***************************************************************************)
EXTENDS KbService

\* Every variable holds a value of its kind, and a task has the locals that
\* the place it is at reads.
FrameOK(f) ==
  /\ f \in Frame
  /\ f.pc = "c_insert" => f.key \in CollKey
  /\ f.pc \in AttemptPc => f.coll \in CollId /\ f.sha \in Sha
  /\ f.pc = "c_drop" => f.coll \in CollId
  /\ f.pc \in DocPc => f.doc \in DocId
  /\ f.pc \in WriteBackPc \cup {"dup"} => f.seen \in Row
  /\ f.pc \in CleanupPc => f.why \in Failure

TypeOK ==
  /\ cols \in [CollId -> CollKey \cup {Unborn, Gone}]
  /\ docs \in [DocId -> Row \cup {Unborn, Gone}]
  /\ chunks \in [DocId -> Nat]
  /\ loc \in [Task -> Frame]
  /\ \A t \in Task : FrameOK(loc[t])
  /\ up \in BOOLEAN
  /\ faults \in Nat
  /\ crashes \in Nat

-----------------------------------------------------------------------------
(* Under any overlap of requests.                                          *)

\* A chunk never outlives its document: a delete that lands anywhere inside
\* an indexing run leaves nothing behind that no later delete could find.
NoOrphanChunks == \A d \in DocId : chunks[d] > 0 => Live(d)

\* A document has all the pieces of its bytes or none of them, whatever
\* failed, crashed or raced while it was indexed.
AllOrNothing ==
  \A d \in DocId : Live(d) => chunks[d] \in {0, Pieces[docs[d].sha]}

\* What makes the two above inductive: a task works on the bytes of the row it
\* was started for, and on a row that has been inserted, so that no insert
\* puts another document under its hands.
FramesMatch ==
  \A t \in Task : loc[t].pc \in DocPc =>
    /\ docs[loc[t].doc] # Unborn
    /\ loc[t].pc # "del_write" /\ Live(loc[t].doc)
         => docs[loc[t].doc].sha = loc[t].sha

\* A task that will take document d out of `pending' unless something else
\* does first.  A write-back of a row that was read in the target status
\* already does not: its UPDATE leaves the status alone.
Responsible(t, d) ==
  /\ loc[t].doc = d
  /\ \/ loc[t].pc \in IndexPc \ {"fin_write", "fail_write"}
     \/ loc[t].pc = "fin_write" /\ loc[t].seen.status # "indexed"
     \/ loc[t].pc = "fail_write" /\ loc[t].seen.status # "failed"

\* While the process serves, every pending document has a task that is going
\* to decide it: none waits for work that nobody does.
NoStrandedPending ==
  up => \A d \in DocId :
          Live(d) /\ docs[d].status = "pending" => \E t \in Task : Responsible(t, d)

\* ... and so it is decided, as long as the process lives.
PendingSettles ==
  \A d \in DocId :
    (Live(d) /\ docs[d].status = "pending")
      ~> (~ up \/ ~ Live(d) \/ docs[d].status # "pending")

-----------------------------------------------------------------------------
(* When callers do not overlap attempts on one document; deletes, crashes  *)
(* and database errors fall anywhere.                                      *)

\* The invariant search relies on instead of filtering by status: a document
\* that has chunks is an indexed one.
ChunksOnlyForIndexed ==
  \A d \in DocId : chunks[d] > 0 => Live(d) /\ docs[d].status = "indexed"

\* An indexed document answers searches with every piece of its bytes, there
\* is one, and its row counts them.
IndexedIsComplete ==
  \A d \in DocId : Live(d) /\ docs[d].status = "indexed" =>
    /\ chunks[d] > 0
    /\ chunks[d] = Pieces[docs[d].sha]
    /\ docs[d].count = chunks[d]

\* The other columns agree with the status: an error exactly when failed, a
\* count and a time exactly when indexed.
RowCoherent ==
  \A d \in DocId : Live(d) =>
    /\ (docs[d].error # "") <=> (docs[d].status = "failed")
    /\ (docs[d].count > 0) <=> (docs[d].status = "indexed")
    /\ docs[d].at <=> (docs[d].status = "indexed")

\* The service keeps the promise of KbPromise, where a search shows the chunks
\* of every live document: the query does not look at the status.
Promise == INSTANCE KbPromise WITH
  Doc <- DocId,
  Size <- {Pieces[s] : s \in Sha},
  life <- [d \in DocId |-> IF docs[d] = Unborn THEN "none"
                           ELSE IF docs[d] = Gone THEN "gone"
                           ELSE docs[d].status],
  content <- [d \in DocId |-> IF Live(d) THEN Pieces[docs[d].sha] ELSE 0],
  shown <- [d \in DocId |-> IF Live(d) THEN chunks[d] ELSE 0]

KeepsPromise == Promise!PSpec

-----------------------------------------------------------------------------
(* What the repository says of the program and the program does not do.    *)

\* models.py: documents.collection_id is a foreign key.
DocumentHasCollection ==
  \A d \in DocId : Live(d) => LiveCol(docs[d].coll)
=============================================================================
