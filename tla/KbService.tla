------------------------------ MODULE KbService ------------------------------
(***************************************************************************)
(* The knowledge service: every request and background indexing run, over  *)
(* the state of KbState.                                                   *)
(*                                                                         *)
(* Between two database round trips a task is at an `await' and any other  *)
(* task may run, so an action is one round trip: a SELECT (it runs outside *)
(* any transaction, and its result is kept in the task's frame), or the    *)
(* transaction from its first DML to its commit (atomic under SQLite's     *)
(* write lock).                                                            *)
(*                                                                         *)
(* A definition marked "a slip" is what a plausible bug would make of the  *)
(* one after it: no specification uses it, and a property notices it.      *)
(***************************************************************************)
EXTENDS KbState

-----------------------------------------------------------------------------
Init ==
  /\ cols = [c \in CollId |-> Unborn]
  /\ docs = [d \in DocId |-> Unborn]
  /\ chunks = [d \in DocId |-> 0]
  /\ loc = [t \in Task |-> Idle]
  /\ up = TRUE
  /\ faults = 0
  /\ crashes = 0

-----------------------------------------------------------------------------
(* Collections.                                                            *)

\* The lookup found nothing (when it finds a row the request only replies).
StartCreateCollection(t, k) ==
  /\ At(t, "idle")
  /\ \A c \in CollId : cols[c] # k
  /\ Cardinality(Fresh(CollId, cols)) > Cardinality(InFlight({"c_insert"}))
  /\ Become(t, [Idle EXCEPT !.pc = "c_insert", !.key = k])
  /\ UNCHANGED db /\ NoFault

\* The constraint on (tenant, name) refuses the loser of a race, which replies
\* with the winner's row.
CreateCollection(t) ==
  /\ At(t, "c_insert")
  /\ \/ /\ \E c \in CollId : cols[c] = loc[t].key
        /\ UNCHANGED cols
     \/ /\ \A c \in CollId : cols[c] # loc[t].key
        /\ \E c \in Fresh(CollId, cols) :
             cols' = [cols EXCEPT ![c] = loc[t].key]
  /\ Finish(t)
  /\ UNCHANGED <<docs, chunks>> /\ NoFault

StartDeleteCollection(t, c) ==
  /\ At(t, "idle")
  /\ LiveCol(c)
  /\ Become(t, [Idle EXCEPT !.pc = "c_drop", !.coll = c])
  /\ UNCHANGED db /\ NoFault

\* Chunks, documents and the collection go in one transaction, found by
\* subquery when it runs.
DeleteCollection(t) ==
  /\ At(t, "c_drop")
  /\ LET owned == {d \in DocId : Live(d) /\ docs[d].coll = loc[t].coll} IN
       /\ chunks' = [d \in DocId |-> IF d \in owned THEN 0 ELSE chunks[d]]
       /\ docs' = [d \in DocId |-> IF d \in owned THEN Gone ELSE docs[d]]
  /\ cols' = [cols EXCEPT ![loc[t].coll] = Gone]
  /\ Finish(t)
  /\ NoFault

-----------------------------------------------------------------------------
(* POST /v1/documents.                                                     *)

\* resolve_id found the collection.
StartUpload(t, c, s) ==
  /\ At(t, "idle")
  /\ LiveCol(c)
  /\ MayAttempt(c, s)
  /\ Cardinality(Fresh(DocId, docs)) > Cardinality(InFlight({"lookup", "insert"}))
  /\ Become(t, [Idle EXCEPT !.pc = "lookup", !.coll = c, !.sha = s])
  /\ UNCHANGED db /\ NoFault

LookupExisting(t) ==
  /\ At(t, "lookup")
  /\ \/ \E d \in DocId : Existing(t, d)
     \/ Nowhere(t) /\ Goto(t, "insert")
  /\ UNCHANGED db /\ NoFault

\* INSERT of a new pending row, or the unique constraint's refusal.  Nothing
\* asks whether the collection still exists: SQLite does not enforce the
\* foreign key.
InsertDocument(t) ==
  /\ At(t, "insert")
  /\ \/ /\ ~ Nowhere(t)
        /\ Goto(t, "reread")
        /\ UNCHANGED docs
     \/ /\ Nowhere(t)
        /\ \E d \in Fresh(DocId, docs) :
             /\ docs' = [docs EXCEPT ![d] = FreshRow(loc[t].coll, loc[t].sha)]
             /\ Become(t, [loc[t] EXCEPT !.pc = "get", !.doc = d])
  /\ UNCHANGED <<cols, chunks>> /\ NoFault

\* A slip: scalar_one_or_none() after a lost insert, its None taken for a row.
RereadTrustingWinner(t) ==
  /\ At(t, "reread")
  /\ \/ \E d \in DocId : Existing(t, d)
     \/ Nowhere(t) /\ Goto(t, "dup")
  /\ UNCHANGED db /\ NoFault

\* The loser of the insert reads the winner's row; scalar_one() raises if that
\* was deleted meanwhile, and the request ends in an error.
RereadExisting(t) ==
  /\ At(t, "reread")
  /\ \/ \E d \in DocId : Existing(t, d)
     \/ Nowhere(t) /\ Finish(t)
  /\ UNCHANGED db /\ NoFault

\* 200: "already indexed here and nothing was scheduled".
ReplyDuplicate(t) ==
  /\ At(t, "dup")
  /\ Finish(t)
  /\ UNCHANGED db /\ NoFault

-----------------------------------------------------------------------------
(* POST /v1/documents/{id}/reindex and DELETE /v1/documents/{id}.          *)

\* The ownership check found the row.
StartReindex(t, d) ==
  /\ At(t, "idle")
  /\ Live(d)
  /\ LiveCol(docs[d].coll)
  /\ MayAttempt(docs[d].coll, docs[d].sha)
  /\ Become(t, [Idle EXCEPT !.pc = "pend_read", !.doc = d,
                            !.coll = docs[d].coll, !.sha = docs[d].sha])
  /\ UNCHANGED db /\ NoFault

\* A slip: mark_pending lets the run overwrite the row in place.
ReadForPendingInPlace(t) ==
  /\ At(t, "pend_read")
  /\ IF Live(loc[t].doc) THEN Enter(t) ELSE Finish(t)
  /\ UNCHANGED db /\ NoFault

\* A pending row is returned untouched, and the route schedules the run all
\* the same.
ReadForPending(t) ==
  /\ At(t, "pend_read")
  /\ LET d == loc[t].doc IN
     \/ ~ Live(d) /\ Finish(t)
     \/ Live(d) /\ docs[d].status = "pending" /\ Enter(t)
     \/ Live(d) /\ docs[d].status # "pending" /\ Load(t, "pend_write", docs[d])
  /\ UNCHANGED db /\ NoFault

\* A slip: the chunks are left for the next run to replace.
WriteResetKeepingChunks(t) ==
  /\ At(t, "retry") \/ At(t, "pend_write")
  /\ LET d == loc[t].doc
         r == loc[t].seen IN
     \/ /\ Live(d)
        /\ docs' = [docs EXCEPT ![d] = Flush(docs[d], r, ResetRow(r))]
        /\ Enter(t)
     \/ ~ Live(d) /\ Finish(t) /\ UNCHANGED docs
  /\ UNCHANGED <<cols, chunks>> /\ NoFault

\* The write of mark_pending and of _retry_if_failed: chunks dropped and the
\* row reset in one transaction.  An UPDATE that matches no row raises, which
\* rolls the transaction back and ends the request.
WriteReset(t) ==
  /\ At(t, "retry") \/ At(t, "pend_write")
  /\ LET d == loc[t].doc
         r == loc[t].seen IN
     \/ /\ Live(d)
        /\ chunks' = [chunks EXCEPT ![d] = 0]
        /\ docs' = [docs EXCEPT ![d] = Flush(docs[d], r, ResetRow(r))]
        /\ Enter(t)
     \/ /\ ~ Live(d)
        /\ Finish(t)
        /\ UNCHANGED <<docs, chunks>>
  /\ UNCHANGED cols /\ NoFault

\* Ownership check and the SELECT of DocumentStore.delete: both ask only
\* whether the row is there, and a row that is not never comes back.
StartDeleteDocument(t, d) ==
  /\ At(t, "idle")
  /\ Live(d)
  /\ LiveCol(docs[d].coll)
  /\ Become(t, [Idle EXCEPT !.pc = "del_write", !.doc = d])
  /\ UNCHANGED db /\ NoFault

\* A DELETE that matches no row is not an error.
DeleteDocument(t) ==
  /\ At(t, "del_write")
  /\ chunks' = [chunks EXCEPT ![loc[t].doc] = 0]
  /\ docs' = [docs EXCEPT ![loc[t].doc] = Gone]
  /\ Finish(t)
  /\ UNCHANGED cols /\ NoFault

-----------------------------------------------------------------------------
(* index_document.                                                         *)

GetDocument(t) ==
  /\ At(t, "get")
  /\ IF Live(loc[t].doc) THEN Goto(t, "raw") ELSE Finish(t)
  /\ UNCHANGED db /\ NoFault

\* A slip: no check for a document that yields no pieces.
ReadAndChunkAnything(t) ==
  /\ At(t, "raw")
  /\ IF loc[t].sha \in Unreadable THEN Fail(t, "extract") ELSE Goto(t, "embed")
  /\ UNCHANGED db /\ NoFault

\* raw_bytes, extract_text, chunk_markdown.  A document deleted since `get'
\* has no bytes, which extract to nothing or are refused for their suffix.
ReadAndChunk(t) ==
  /\ At(t, "raw")
  /\ LET live == Live(loc[t].doc)
         s == loc[t].sha IN
     \/ (~ live \/ s \in Unreadable) /\ Fail(t, "extract")
     \/ (~ live \/ (s \notin Unreadable /\ Pieces[s] = 0)) /\ Fail(t, "empty")
     \/ live /\ s \notin Unreadable /\ Pieces[s] > 0 /\ Goto(t, "embed")
  /\ UNCHANGED db /\ NoFault

\* One vector per piece, or a failure: the provider's (a short reply is one)
\* or an exception nothing wrapped.
Embed(t) ==
  /\ At(t, "embed")
  /\ \/ Goto(t, "owner")
     \/ \E why \in {"provider", "unexpected"} : Fail(t, why)
  /\ UNCHANGED db /\ NoFault

ReadOwner(t) ==
  /\ At(t, "owner")
  /\ IF Live(loc[t].doc) THEN Goto(t, "fin_read") ELSE Finish(t)
  /\ UNCHANGED db /\ NoFault

ReadToFinish(t) ==
  /\ At(t, "fin_read")
  /\ IF Live(loc[t].doc) THEN Load(t, "fin_write", docs[loc[t].doc])
                         ELSE Finish(t)
  /\ UNCHANGED db /\ NoFault

\* A slip: the chunks are inserted whether or not the row is still there.
FinishIndexingBlindly(t) ==
  /\ At(t, "fin_write")
  /\ LET d == loc[t].doc
         n == Pieces[loc[t].sha] IN
     /\ chunks' = [chunks EXCEPT ![d] = n]
     /\ docs' = IF Live(d)
                  THEN [docs EXCEPT ![d] = FlushIndexed(docs[d], loc[t].seen, n)]
                  ELSE docs
  /\ Finish(t)
  /\ UNCHANGED cols /\ NoFault

\* A slip: index.replace does not delete the old chunks.
FinishIndexingAppending(t) ==
  /\ At(t, "fin_write")
  /\ LET d == loc[t].doc
         n == Pieces[loc[t].sha] IN
     \/ /\ Live(d)
        /\ chunks' = [chunks EXCEPT ![d] = @ + n]
        /\ docs' = [docs EXCEPT ![d] = FlushIndexed(docs[d], loc[t].seen, n)]
        /\ Finish(t)
     \/ ~ Live(d) /\ Fail(t, "unexpected") /\ UNCHANGED <<docs, chunks>>
  /\ UNCHANGED cols /\ NoFault

\* The chunks replaced and the row marked in one transaction.  The UPDATE
\* always carries indexed_at, so a row deleted since it was read is noticed:
\* the transaction rolls back and index_document handles the exception.
FinishIndexing(t) ==
  /\ At(t, "fin_write")
  /\ LET d == loc[t].doc
         n == Pieces[loc[t].sha] IN
     \/ /\ Live(d)
        /\ chunks' = [chunks EXCEPT ![d] = n]
        /\ docs' = [docs EXCEPT ![d] = FlushIndexed(docs[d], loc[t].seen, n)]
        /\ Finish(t)
     \/ /\ ~ Live(d)
        /\ Fail(t, "unexpected")
        /\ UNCHANGED <<docs, chunks>>
  /\ UNCHANGED cols /\ NoFault

\* A slip: the exception handler drops the chunks and does not mark the row.
DropChunksOnly(t) ==
  /\ At(t, "drop")
  /\ chunks' = [chunks EXCEPT ![loc[t].doc] = 0]
  /\ Finish(t)
  /\ UNCHANGED <<cols, docs>> /\ NoFault

\* First of the two transactions that record a failure.
DropChunks(t) ==
  /\ At(t, "drop")
  /\ chunks' = [chunks EXCEPT ![loc[t].doc] = 0]
  /\ Goto(t, "fail_read")
  /\ UNCHANGED <<cols, docs>> /\ NoFault

ReadToFail(t) ==
  /\ At(t, "fail_read")
  /\ IF Live(loc[t].doc) THEN Load(t, "fail_write", docs[loc[t].doc])
                         ELSE Finish(t)
  /\ UNCHANGED db /\ NoFault

\* Second transaction: mark_failed.  No UPDATE is sent when the row read says
\* all of it already; one that matches no row raises.
MarkFailed(t) ==
  /\ At(t, "fail_write")
  /\ LET d == loc[t].doc
         r == loc[t].seen
         new == FailedRow(r, loc[t].why) IN
     \/ /\ Live(d)
        /\ chunks' = [chunks EXCEPT ![d] = 0]
        /\ docs' = [docs EXCEPT ![d] = Flush(docs[d], r, new)]
        /\ Finish(t)
     \/ /\ ~ Live(d)
        /\ IF InTry(t) /\ new # r THEN Fail(t, "unexpected") ELSE Finish(t)
        /\ UNCHANGED <<docs, chunks>>
  /\ UNCHANGED cols /\ NoFault

-----------------------------------------------------------------------------
(* Failure.                                                                *)

DatabasePc == Pc \ {"idle", "embed", "dup"}

\* A database error (a locked database, a full disk): the transaction at hand
\* is rolled back, and the exception is handled in index_document or ends the
\* task.
DatabaseError(t) ==
  /\ up /\ loc[t].pc \in DatabasePc
  /\ faults < MaxFaults
  /\ faults' = faults + 1
  /\ IF InTry(t) THEN Fail(t, "unexpected") ELSE Finish(t)
  /\ UNCHANGED db /\ UNCHANGED <<up, crashes>>

\* The process dies: every request and every background run is gone, the
\* database file is not.
Crash ==
  /\ up
  /\ crashes < MaxCrashes
  /\ crashes' = crashes + 1
  /\ up' = FALSE
  /\ loc' = [t \in Task |-> Idle]
  /\ UNCHANGED db /\ UNCHANGED faults

\* A slip: the process serves without sweeping what the last one left.
StartupWithoutSweep ==
  /\ ~ up
  /\ up' = TRUE
  /\ UNCHANGED db /\ UNCHANGED <<loc, faults, crashes>>

\* A slip: a sweep whose UPDATE sets the status and nothing else.
StartupSettingStatusOnly ==
  /\ ~ up
  /\ LET stale == {d \in DocId : Live(d) /\ docs[d].status = "pending"} IN
       /\ chunks' = [d \in DocId |-> IF d \in stale THEN 0 ELSE chunks[d]]
       /\ docs' = [d \in DocId |-> IF d \in stale
                                     THEN [docs[d] EXCEPT !.status = "failed"]
                                     ELSE docs[d]]
  /\ up' = TRUE
  /\ UNCHANGED <<cols, loc, faults, crashes>>

\* The lifespan of a new process: fail_stale_pending, then serve.
Startup ==
  /\ ~ up
  /\ LET stale == {d \in DocId : Live(d) /\ docs[d].status = "pending"} IN
       /\ chunks' = [d \in DocId |-> IF d \in stale THEN 0 ELSE chunks[d]]
       /\ docs' = [d \in DocId |-> IF d \in stale
                                     THEN FailedRow(docs[d], "interrupted")
                                     ELSE docs[d]]
  /\ up' = TRUE
  /\ UNCHANGED <<cols, loc, faults, crashes>>

-----------------------------------------------------------------------------
\* A caller's request arrives.
Arrive(t) ==
  \/ \E k \in CollKey : StartCreateCollection(t, k)
  \/ \E c \in CollId : StartDeleteCollection(t, c)
  \/ \E c \in CollId, s \in Sha : StartUpload(t, c, s)
  \/ \E d \in DocId : StartReindex(t, d)
  \/ \E d \in DocId : StartDeleteDocument(t, d)

\* A task in flight takes its next step.
Step(t) ==
  \/ CreateCollection(t) \/ DeleteCollection(t)
  \/ LookupExisting(t) \/ InsertDocument(t) \/ RereadExisting(t)
  \/ ReplyDuplicate(t)
  \/ ReadForPending(t) \/ WriteReset(t) \/ DeleteDocument(t)
  \/ GetDocument(t) \/ ReadAndChunk(t) \/ Embed(t) \/ ReadOwner(t)
  \/ ReadToFinish(t) \/ FinishIndexing(t)
  \/ DropChunks(t) \/ ReadToFail(t) \/ MarkFailed(t)

Next ==
  \/ \E t \in Task : Arrive(t) \/ Step(t) \/ DatabaseError(t)
  \/ Crash
  \/ Startup

Spec == Init /\ [][Next]_vars

\* The event loop resumes every coroutine whose await has an answer; SQLite
\* and the provider's HTTP client give one in bounded time, an error if need be.
FairSpec == Spec /\ \A t \in Task : WF_vars(Step(t))
=============================================================================
