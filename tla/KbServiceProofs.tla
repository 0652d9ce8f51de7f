--------------------------- MODULE KbServiceProofs ---------------------------
(***************************************************************************)
(* Theorems about the service under any overlap of requests, for any       *)
(* number of tasks, documents, collections, faults and crashes: types,     *)
(* the safety of a document's chunks, and that none is left pending.       *)
(*                                                                         *)
(* Two lemmas reduce the next-state relation to what the invariants see:   *)
(* Effects, what a step can do to one document, and AllMoves, what it can  *)
(* do to one frame.                                                        *)
(***************************************************************************)
EXTENDS KbProperties, TLAPS

-----------------------------------------------------------------------------
(* Rows.                                                                   *)

\* What the store assigns to a row is a row.
LEMMA AssignedRows ==
  ASSUME NEW r \in Row, NEW n \in Nat, NEW why \in Failure
  PROVE  ResetRow(r) \in Row /\ IndexedRow(r, n) \in Row /\ FailedRow(r, why) \in Row
BY DEF ResetRow, IndexedRow, FailedRow, Row, Status, Error, Failure

LEMMA FreshRows ==
  ASSUME NEW c \in CollId, NEW s \in Sha
  PROVE  FreshRow(c, s) \in Row
BY DEF FreshRow, Row, Status, Error

\* A flush mixes the columns of three rows into a row, and keeps those that
\* are never assigned.
LEMMA FlushedRows ==
  ASSUME NEW cur \in Row, NEW seen \in Row, NEW new \in Row
  PROVE  /\ Flush(cur, seen, new) \in Row
         /\ Flush(cur, seen, new).coll = cur.coll
         /\ Flush(cur, seen, new).sha = cur.sha
BY DEF Flush, Col, Row

LEMMA FlushedIndexedRows ==
  ASSUME NEW cur \in Row, NEW seen \in Row, NEW n \in Nat
  PROVE  /\ FlushIndexed(cur, seen, n) \in Row
         /\ FlushIndexed(cur, seen, n).coll = cur.coll
         /\ FlushIndexed(cur, seen, n).sha = cur.sha
<1> DEFINE f == Flush(cur, seen, IndexedRow(seen, n))
<1>1. "empty" \in Failure
  BY DEF Failure
<1>2. f \in Row /\ f.coll = cur.coll /\ f.sha = cur.sha
  BY <1>1, AssignedRows, FlushedRows
<1> HIDE DEF f
<1>3. [f EXCEPT !.at = TRUE] \in Row
  BY <1>2 DEF Row
<1>4. [f EXCEPT !.at = TRUE].coll = f.coll /\ [f EXCEPT !.at = TRUE].sha = f.sha
  BY <1>2 DEF Row
<1>5. FlushIndexed(cur, seen, n) = [f EXCEPT !.at = TRUE]
  BY DEF FlushIndexed, f
<1> QED
  BY <1>2, <1>3, <1>4, <1>5

-----------------------------------------------------------------------------
(* Type correctness.                                                       *)

LEMMA IdleFrame == FrameOK(Idle)
BY DEF FrameOK, Frame, Idle, Pc, OtherPc, AttemptPc, UploadPc, ReindexPc,
       IndexPc, CleanupPc, DocPc, WriteBackPc

\* A step that gives one task a proper frame leaves all frames proper.
LEMMA FramesAfter ==
  ASSUME TypeOK, NEW t \in Task, NEW f, FrameOK(f), Become(t, f)
  PROVE  /\ loc' \in [Task -> Frame]
         /\ \A u \in Task : FrameOK(loc'[u])
         /\ loc'[t] = f
BY DEF TypeOK, Become, FrameOK

LEMMA FramesAfterFinish ==
  ASSUME TypeOK, NEW t \in Task, Finish(t)
  PROVE  /\ loc' \in [Task -> Frame]
         /\ \A u \in Task : FrameOK(loc'[u])
BY IdleFrame, FramesAfter DEF Finish

LEMMA FramesAfterFail ==
  ASSUME TypeOK, NEW t \in Task, loc[t].pc \in IndexPc,
         NEW why \in Failure, Fail(t, why)
  PROVE  /\ loc' \in [Task -> Frame]
         /\ \A u \in Task : FrameOK(loc'[u])
<1> DEFINE f == [loc[t] EXCEPT !.pc = "drop", !.seen = None, !.why = why]
<1>1. FrameOK(f)
  BY DEF TypeOK, FrameOK, Frame, Pc, OtherPc, AttemptPc, UploadPc, ReindexPc,
         IndexPc, CleanupPc, DocPc, WriteBackPc
<1> QED
  BY <1>1, FramesAfter DEF Fail

\* Enough for the steps that only read.
LEMMA FramesOnly ==
  ASSUME TypeOK, UNCHANGED db, NoFault,
         loc' \in [Task -> Frame], \A u \in Task : FrameOK(loc'[u])
  PROVE  TypeOK'
BY DEF TypeOK, db, NoFault, FrameOK

LEMMA ArriveType ==
  ASSUME TypeOK, NEW t \in Task, Arrive(t)
  PROVE  TypeOK'
<1> USE DEF FrameOK, Frame, Idle, Pc, OtherPc, AttemptPc, UploadPc, ReindexPc,
            IndexPc, CleanupPc, DocPc, WriteBackPc
<1>1. ASSUME NEW k \in CollKey, StartCreateCollection(t, k) PROVE TypeOK'
  <2> DEFINE f == [Idle EXCEPT !.pc = "c_insert", !.key = k]
  <2>1. FrameOK(f) OBVIOUS
  <2> QED BY <1>1, <2>1, FramesAfter, FramesOnly DEF StartCreateCollection
<1>2. ASSUME NEW c \in CollId, StartDeleteCollection(t, c) PROVE TypeOK'
  <2> DEFINE f == [Idle EXCEPT !.pc = "c_drop", !.coll = c]
  <2>1. FrameOK(f) OBVIOUS
  <2> QED BY <1>2, <2>1, FramesAfter, FramesOnly DEF StartDeleteCollection
<1>3. ASSUME NEW c \in CollId, NEW s \in Sha, StartUpload(t, c, s) PROVE TypeOK'
  <2> DEFINE f == [Idle EXCEPT !.pc = "lookup", !.coll = c, !.sha = s]
  <2>1. FrameOK(f) OBVIOUS
  <2> QED BY <1>3, <2>1, FramesAfter, FramesOnly DEF StartUpload
<1>4. ASSUME NEW d \in DocId, StartReindex(t, d) PROVE TypeOK'
  <2> DEFINE f == [Idle EXCEPT !.pc = "pend_read", !.doc = d,
                               !.coll = docs[d].coll, !.sha = docs[d].sha]
  <2>1. docs[d] \in Row
    BY <1>4 DEF StartReindex, Live, TypeOK
  <2>2. FrameOK(f) BY <2>1 DEF Row
  <2> QED BY <1>4, <2>2, FramesAfter, FramesOnly DEF StartReindex
<1>5. ASSUME NEW d \in DocId, StartDeleteDocument(t, d) PROVE TypeOK'
  <2> DEFINE f == [Idle EXCEPT !.pc = "del_write", !.doc = d]
  <2>1. FrameOK(f) OBVIOUS
  <2> QED BY <1>5, <2>1, FramesAfter, FramesOnly DEF StartDeleteDocument
<1> QED BY <1>1, <1>2, <1>3, <1>4, <1>5 DEF Arrive

\* The steps of a task that only read the database.
LEMMA ReadType ==
  ASSUME TypeOK, NEW t \in Task,
         \/ LookupExisting(t) \/ RereadExisting(t) \/ ReplyDuplicate(t)
         \/ ReadForPending(t) \/ GetDocument(t) \/ ReadAndChunk(t) \/ Embed(t)
         \/ ReadOwner(t) \/ ReadToFinish(t) \/ ReadToFail(t)
  PROVE  TypeOK'
<1> USE DEF FrameOK, Frame, Pc, OtherPc, AttemptPc, UploadPc, ReindexPc,
            IndexPc, CleanupPc, DocPc, WriteBackPc
<1>1. ASSUME NEW p \in Pc, Goto(t, p), FrameOK([loc[t] EXCEPT !.pc = p]),
             UNCHANGED db, NoFault
      PROVE  TypeOK'
  BY <1>1, FramesAfter, FramesOnly DEF Goto
<1>2. ASSUME NEW p \in WriteBackPc, NEW d \in DocId, Load(t, p, docs[d]), Live(d),
             FrameOK([loc[t] EXCEPT !.pc = p, !.seen = docs[d]]),
             UNCHANGED db, NoFault
      PROVE  TypeOK'
  BY <1>2, FramesAfter, FramesOnly DEF Load
<1>3. ASSUME Finish(t), UNCHANGED db, NoFault PROVE TypeOK'
  BY <1>3, FramesAfterFinish, FramesOnly
<1>4. ASSUME NEW why \in Failure, Fail(t, why), loc[t].pc \in IndexPc,
             UNCHANGED db, NoFault
      PROVE  TypeOK'
  BY <1>4, FramesAfterFail, FramesOnly
<1>5. ASSUME NEW d \in DocId, Existing(t, d), loc[t].pc \in {"lookup", "reread"},
             UNCHANGED db, NoFault
      PROVE  TypeOK'
  <2> DEFINE f == [loc[t] EXCEPT
                     !.pc = IF docs[d].status = "failed" THEN "retry" ELSE "dup",
                     !.doc = d, !.seen = docs[d]]
  <2>1. docs[d] \in Row
    BY <1>5 DEF Existing, Holds, Live, TypeOK
  <2>2. FrameOK(f)
    <3>1. loc[t] \in Frame /\ loc[t].coll \in CollId /\ loc[t].sha \in Sha
      BY <1>5 DEF TypeOK
    <3>2. CASE docs[d].status = "failed"
      BY <2>1, <3>1, <3>2
    <3>3. CASE docs[d].status # "failed"
      BY <2>1, <3>1, <3>3
    <3> QED BY <3>2, <3>3
  <2>3. Become(t, f)
    BY <1>5 DEF Existing
  <2> HIDE DEF f, FrameOK
  <2> QED BY <1>5, <2>2, <2>3, FramesAfter, FramesOnly
<1>6. CASE LookupExisting(t)
  <2>1. ASSUME Goto(t, "insert") PROVE TypeOK'
    <3>1. FrameOK([loc[t] EXCEPT !.pc = "insert"])
      BY <1>6 DEF LookupExisting, At, TypeOK
    <3> QED BY <1>1, <1>6, <2>1, <3>1 DEF LookupExisting
  <2> QED BY <1>5, <1>6, <2>1 DEF LookupExisting, At
<1>7. CASE RereadExisting(t)
  BY <1>3, <1>5, <1>7 DEF RereadExisting, At
<1>8. CASE ReplyDuplicate(t)
  BY <1>3, <1>8 DEF ReplyDuplicate
<1>9. CASE ReadForPending(t)
  <2> DEFINE d == loc[t].doc
  <2>1. d \in DocId /\ (Live(d) => docs[d] \in Row)
    BY <1>9 DEF ReadForPending, At, TypeOK, Live
  <2>2. ASSUME Enter(t) PROVE TypeOK'
    <3>1. FrameOK([loc[t] EXCEPT !.pc = "get", !.seen = None])
      BY <1>9 DEF ReadForPending, At, TypeOK
    <3> QED BY <1>9, <2>2, <3>1, FramesAfter, FramesOnly DEF ReadForPending, Enter
  <2>3. ASSUME Live(d), Load(t, "pend_write", docs[d]) PROVE TypeOK'
    <3>1. FrameOK([loc[t] EXCEPT !.pc = "pend_write", !.seen = docs[d]])
      BY <1>9, <2>1, <2>3 DEF ReadForPending, At, TypeOK
    <3> QED BY <1>2, <1>9, <2>1, <2>3, <3>1 DEF ReadForPending
  <2> QED BY <1>3, <1>9, <2>2, <2>3 DEF ReadForPending
<1>10. CASE GetDocument(t)
  <2>1. FrameOK([loc[t] EXCEPT !.pc = "raw"])
    BY <1>10 DEF GetDocument, At, TypeOK
  <2> QED BY <1>1, <1>3, <1>10, <2>1 DEF GetDocument
<1>11. CASE ReadAndChunk(t)
  <2>1. FrameOK([loc[t] EXCEPT !.pc = "embed"])
    BY <1>11 DEF ReadAndChunk, At, TypeOK
  <2>2. {"extract", "empty"} \subseteq Failure /\ loc[t].pc \in IndexPc
    BY <1>11 DEF Failure, ReadAndChunk, At
  <2> QED BY <1>1, <1>4, <1>11, <2>1, <2>2 DEF ReadAndChunk
<1>12. CASE Embed(t)
  <2>1. FrameOK([loc[t] EXCEPT !.pc = "owner"])
    BY <1>12 DEF Embed, At, TypeOK
  <2>2. {"provider", "unexpected"} \subseteq Failure /\ loc[t].pc \in IndexPc
    BY <1>12 DEF Failure, Embed, At
  <2> QED BY <1>1, <1>4, <1>12, <2>1, <2>2 DEF Embed
<1>13. CASE ReadOwner(t)
  <2>1. FrameOK([loc[t] EXCEPT !.pc = "fin_read"])
    BY <1>13 DEF ReadOwner, At, TypeOK
  <2> QED BY <1>1, <1>3, <1>13, <2>1 DEF ReadOwner
<1>14. CASE ReadToFinish(t)
  <2> DEFINE d == loc[t].doc
  <2>1. d \in DocId /\ (Live(d) => docs[d] \in Row)
    BY <1>14 DEF ReadToFinish, At, TypeOK, Live
  <2>2. Live(d) => FrameOK([loc[t] EXCEPT !.pc = "fin_write", !.seen = docs[d]])
    BY <1>14, <2>1 DEF ReadToFinish, At, TypeOK
  <2> QED BY <1>2, <1>3, <1>14, <2>1, <2>2 DEF ReadToFinish
<1>15. CASE ReadToFail(t)
  <2> DEFINE d == loc[t].doc
  <2>1. d \in DocId /\ (Live(d) => docs[d] \in Row)
    BY <1>15 DEF ReadToFail, At, TypeOK, Live
  <2>2. Live(d) => FrameOK([loc[t] EXCEPT !.pc = "fail_write", !.seen = docs[d]])
    BY <1>15, <2>1 DEF ReadToFail, At, TypeOK
  <2> QED BY <1>2, <1>3, <1>15, <2>1, <2>2 DEF ReadToFail
<1> QED BY <1>6, <1>7, <1>8, <1>9, <1>10, <1>11, <1>12, <1>13, <1>14, <1>15

\* The steps that write.
LEMMA WriteType ==
  ASSUME TypeOK, NEW t \in Task,
         \/ CreateCollection(t) \/ DeleteCollection(t) \/ InsertDocument(t)
         \/ WriteReset(t) \/ DeleteDocument(t) \/ FinishIndexing(t)
         \/ DropChunks(t) \/ MarkFailed(t)
  PROVE  TypeOK'
<1> DEFINE FramesOK == loc' \in [Task -> Frame] /\ \A u \in Task : FrameOK(loc'[u])
           DataOK   == /\ cols' \in [CollId -> CollKey \cup {Unborn, Gone}]
                       /\ docs' \in [DocId -> Row \cup {Unborn, Gone}]
                       /\ chunks' \in [DocId -> Nat]
<1>0. ASSUME FramesOK, DataOK, NoFault PROVE TypeOK'
  BY <1>0 DEF TypeOK, NoFault, FrameOK
<1>f. Finish(t) => FramesOK
  BY FramesAfterFinish
<1>p. loc[t] \in Frame /\ FrameOK(loc[t])
  BY DEF TypeOK
<1> USE DEF FrameOK, Frame, Pc, OtherPc, AttemptPc, UploadPc, ReindexPc,
            IndexPc, CleanupPc, DocPc, WriteBackPc
<1>1. CASE CreateCollection(t)
  <2>1. loc[t].key \in CollKey
    BY <1>1, <1>p DEF CreateCollection, At
  <2>2. DataOK
    BY <1>1, <2>1 DEF CreateCollection, TypeOK, Fresh
  <2> QED BY <1>0, <1>f, <1>1, <2>2 DEF CreateCollection
<1>2. CASE DeleteCollection(t)
  <2>1. DataOK
    BY <1>2 DEF DeleteCollection, TypeOK
  <2> QED BY <1>0, <1>f, <1>2, <2>1 DEF DeleteCollection
<1>3. CASE InsertDocument(t)
  <2>1. loc[t].coll \in CollId /\ loc[t].sha \in Sha
    BY <1>3, <1>p DEF InsertDocument, At
  <2>2. DataOK
    <3>1. \/ UNCHANGED docs
          \/ \E d \in DocId :
               docs' = [docs EXCEPT ![d] = FreshRow(loc[t].coll, loc[t].sha)]
      BY <1>3 DEF InsertDocument, Fresh
    <3>2. FreshRow(loc[t].coll, loc[t].sha) \in Row
      BY <2>1, FreshRows
    <3>3. docs' \in [DocId -> Row \cup {Unborn, Gone}]
      BY <3>1, <3>2 DEF TypeOK
    <3> QED BY <1>3, <3>3 DEF InsertDocument, TypeOK
  <2>3. ASSUME Goto(t, "reread") PROVE FramesOK
    <3>1. FrameOK([loc[t] EXCEPT !.pc = "reread"])
      BY <1>3, <1>p, <2>1 DEF InsertDocument, At
    <3> QED BY <2>3, <3>1, FramesAfter DEF Goto
  <2>4. ASSUME NEW d \in DocId, Become(t, [loc[t] EXCEPT !.pc = "get", !.doc = d])
        PROVE  FramesOK
    <3>1. FrameOK([loc[t] EXCEPT !.pc = "get", !.doc = d])
      BY <1>3, <1>p, <2>1 DEF InsertDocument, At
    <3> QED BY <2>4, <3>1, FramesAfter
  <2>5. FramesOK
    BY <1>3, <2>3, <2>4 DEF InsertDocument, Fresh
  <2> QED BY <1>0, <1>3, <2>2, <2>5 DEF InsertDocument
<1>4. CASE WriteReset(t)
  <2> DEFINE d == loc[t].doc
             r == loc[t].seen
  <2>1. d \in DocId /\ r \in Row
    BY <1>4, <1>p DEF WriteReset, At
  <2>2. Live(d) => Flush(docs[d], r, ResetRow(r)) \in Row
    <3>1. ResetRow(r) \in Row
      BY <2>1, AssignedRows DEF Failure
    <3> QED BY <2>1, <3>1, FlushedRows DEF TypeOK, Live
  <2>3. DataOK
    BY <1>4, <2>1, <2>2 DEF WriteReset, TypeOK
  <2>4. ASSUME Enter(t) PROVE FramesOK
    <3>1. FrameOK([loc[t] EXCEPT !.pc = "get", !.seen = None])
      BY <1>4, <1>p DEF WriteReset, At
    <3> QED BY <2>4, <3>1, FramesAfter DEF Enter
  <2> QED BY <1>0, <1>f, <1>4, <2>3, <2>4 DEF WriteReset
<1>5. CASE DeleteDocument(t)
  <2>1. DataOK
    BY <1>5 DEF DeleteDocument, TypeOK
  <2> QED BY <1>0, <1>f, <1>5, <2>1 DEF DeleteDocument
<1>6. CASE FinishIndexing(t)
  <2> DEFINE d == loc[t].doc
             r == loc[t].seen
             n == Pieces[loc[t].sha]
  <2>1. d \in DocId /\ r \in Row /\ n \in Nat /\ loc[t].pc \in IndexPc
    BY <1>6, <1>p, PiecesAssumption DEF FinishIndexing, At
  <2>2. Live(d) => FlushIndexed(docs[d], r, n) \in Row
    BY <2>1, FlushedIndexedRows DEF TypeOK, Live
  <2>3. DataOK
    BY <1>6, <2>1, <2>2 DEF FinishIndexing, TypeOK
  <2>4. Fail(t, "unexpected") => FramesOK
    BY <2>1, FramesAfterFail DEF Failure
  <2> QED BY <1>0, <1>f, <1>6, <2>3, <2>4 DEF FinishIndexing
<1>7. CASE DropChunks(t)
  <2>1. DataOK
    BY <1>7 DEF DropChunks, TypeOK
  <2>2. FrameOK([loc[t] EXCEPT !.pc = "fail_read"])
    BY <1>7, <1>p DEF DropChunks, At
  <2>3. FramesOK
    BY <1>7, <2>2, FramesAfter DEF DropChunks, Goto
  <2> QED BY <1>0, <1>7, <2>1, <2>3 DEF DropChunks
<1>8. CASE MarkFailed(t)
  <2> DEFINE d == loc[t].doc
             r == loc[t].seen
             w == loc[t].why
  <2>1. d \in DocId /\ r \in Row /\ w \in Failure /\ loc[t].pc \in IndexPc
    BY <1>8, <1>p DEF MarkFailed, At
  <2>2. Live(d) => Flush(docs[d], r, FailedRow(r, w)) \in Row
    BY <2>1, AssignedRows, FlushedRows DEF TypeOK, Live
  <2>3. DataOK
    BY <1>8, <2>1, <2>2 DEF MarkFailed, TypeOK
  <2>4. Fail(t, "unexpected") => FramesOK
    BY <2>1, FramesAfterFail DEF Failure
  <2> QED BY <1>0, <1>f, <1>8, <2>3, <2>4 DEF MarkFailed
<1> QED BY <1>1, <1>2, <1>3, <1>4, <1>5, <1>6, <1>7, <1>8

LEMMA FailureType ==
  ASSUME TypeOK,
         \/ \E t \in Task : DatabaseError(t)
         \/ Crash
         \/ Startup
  PROVE  TypeOK'
<1>1. ASSUME NEW t \in Task, DatabaseError(t) PROVE TypeOK'
  <2>1. ASSUME InTry(t), Fail(t, "unexpected")
        PROVE  loc' \in [Task -> Frame] /\ \A u \in Task : FrameOK(loc'[u])
    <3>1. loc[t].pc \in IndexPc
      BY <2>1 DEF InTry, IndexPc, CleanupPc
    <3> QED BY <2>1, <3>1, FramesAfterFail DEF Failure
  <2>2. loc' \in [Task -> Frame] /\ \A u \in Task : FrameOK(loc'[u])
    BY <1>1, <2>1, FramesAfterFinish DEF DatabaseError
  <2> QED BY <1>1, <2>2 DEF DatabaseError, TypeOK, db, FrameOK
<1>2. CASE Crash
  <2>1. loc' \in [Task -> Frame] /\ \A u \in Task : FrameOK(loc'[u])
    BY <1>2, IdleFrame DEF Crash, FrameOK
  <2>2. crashes \in Nat /\ faults \in Nat
    BY DEF TypeOK
  <2>3. crashes' \in Nat /\ faults' \in Nat
    BY <1>2, <2>2 DEF Crash
  <2>4. UNCHANGED db /\ up' \in BOOLEAN
    BY <1>2 DEF Crash
  <2> QED BY <2>1, <2>3, <2>4 DEF TypeOK, db, FrameOK
<1>3. CASE Startup
  <2>1. \A d \in DocId : Live(d) => FailedRow(docs[d], "interrupted") \in Row
    BY AssignedRows DEF TypeOK, Live, Failure
  <2> QED BY <1>3, <2>1 DEF Startup, TypeOK, FrameOK
<1> QED BY <1>1, <1>2, <1>3

\* Rows, chunk counts and frames keep their types, and a task always has the
\* locals its place reads: no store method is resumed with a row, a reason or
\* a document it never loaded.
THEOREM TypeCorrect == Spec => []TypeOK
<1>1. Init => TypeOK
  BY IdleFrame DEF Init, TypeOK, FrameOK
<1>2. TypeOK /\ [Next]_vars => TypeOK'
  <2> SUFFICES ASSUME TypeOK, [Next]_vars PROVE TypeOK'
    OBVIOUS
  <2>1. CASE UNCHANGED vars
    BY <2>1 DEF vars, TypeOK, FrameOK
  <2>2. ASSUME NEW t \in Task, Step(t) PROVE TypeOK'
    BY <2>2, ReadType, WriteType DEF Step
  <2> QED BY <2>1, <2>2, ArriveType, FailureType DEF Next
<1> QED BY <1>1, <1>2, PTL DEF Spec


-----------------------------------------------------------------------------
(* What a step does to one document.                                       *)

SameRow(d)  == docs'[d] = docs[d] /\ chunks'[d] \in {0, chunks[d]}
Inserted(d) == docs[d] = Unborn /\ docs'[d] \in Row /\ chunks'[d] = chunks[d]
Deleted(d)  == docs'[d] = Gone /\ chunks'[d] = 0
Updated(d)  == /\ Live(d) /\ docs'[d] \in Row
               /\ docs'[d].sha = docs[d].sha
               /\ \/ chunks'[d] = 0
                  \/ \E t \in Task : /\ loc[t].pc = "fin_write"
                                     /\ loc[t].doc = d
                                     /\ chunks'[d] = Pieces[loc[t].sha]

\* The step of a task that writes, on one document.
LEMMA WriteEffects ==
  ASSUME TypeOK, NEW t \in Task, NEW d \in DocId,
         \/ CreateCollection(t) \/ DeleteCollection(t) \/ InsertDocument(t)
         \/ WriteReset(t) \/ DeleteDocument(t) \/ FinishIndexing(t)
         \/ DropChunks(t) \/ MarkFailed(t)
  PROVE  SameRow(d) \/ Inserted(d) \/ Deleted(d) \/ Updated(d)
<1> DEFINE e == loc[t].doc
           r == loc[t].seen
<1>t. /\ docs \in [DocId -> Row \cup {Unborn, Gone}]
      /\ chunks \in [DocId -> Nat]
      /\ FrameOK(loc[t])
  BY DEF TypeOK
<1>u. UNCHANGED <<docs, chunks>> => SameRow(d)
  BY DEF SameRow
<1>1. CASE CreateCollection(t)
  BY <1>u, <1>1 DEF CreateCollection
<1>2. CASE DeleteCollection(t)
  BY <1>2, <1>t DEF DeleteCollection, SameRow, Deleted
<1>3. CASE InsertDocument(t)
  <2>1. loc[t].coll \in CollId /\ loc[t].sha \in Sha
    BY <1>3, <1>t DEF InsertDocument, At, FrameOK, AttemptPc, UploadPc
  <2>2. FreshRow(loc[t].coll, loc[t].sha) \in Row
    BY <2>1, FreshRows
  <2>3. ASSUME NEW n \in Fresh(DocId, docs),
               docs' = [docs EXCEPT ![n] = FreshRow(loc[t].coll, loc[t].sha)],
               UNCHANGED chunks
        PROVE  SameRow(d) \/ Inserted(d)
    BY <2>2, <2>3, <1>t DEF SameRow, Inserted, Fresh
  <2> QED BY <1>3, <1>u, <2>3 DEF InsertDocument
<1>4. CASE WriteReset(t)
  <2>1. e \in DocId /\ r \in Row
    BY <1>4, <1>t DEF WriteReset, At, FrameOK, DocPc, AttemptPc, UploadPc,
                      ReindexPc, WriteBackPc
  <2>2. ASSUME Live(e)
        PROVE  /\ Flush(docs[e], r, ResetRow(r)) \in Row
               /\ Flush(docs[e], r, ResetRow(r)).sha = docs[e].sha
    <3>1. docs[e] \in Row
      BY <2>1, <2>2, <1>t DEF Live
    <3>2. ResetRow(r) \in Row
      BY <2>1, AssignedRows DEF Failure
    <3> QED BY <2>1, <3>1, <3>2, FlushedRows
  <2>3. ASSUME Live(e),
               chunks' = [chunks EXCEPT ![e] = 0],
               docs' = [docs EXCEPT ![e] = Flush(docs[e], r, ResetRow(r))]
        PROVE  SameRow(d) \/ Updated(d)
    BY <2>1, <2>2, <2>3, <1>t DEF SameRow, Updated
  <2> QED BY <1>4, <1>u, <2>3 DEF WriteReset
<1>5. CASE DeleteDocument(t)
  BY <1>5, <1>t DEF DeleteDocument, SameRow, Deleted
<1>6. CASE FinishIndexing(t)
  <2> DEFINE n == Pieces[loc[t].sha]
             new == FlushIndexed(docs[e], r, n)
  <2>1. e \in DocId /\ r \in Row /\ n \in Nat /\ loc[t].pc = "fin_write"
    BY <1>6, <1>t, PiecesAssumption
       DEF FinishIndexing, At, FrameOK, DocPc, AttemptPc, IndexPc, WriteBackPc
  <2>2. ASSUME Live(e) PROVE new \in Row /\ new.sha = docs[e].sha
    <3>1. docs[e] \in Row
      BY <2>1, <2>2, <1>t DEF Live
    <3> QED BY <2>1, <3>1, FlushedIndexedRows
  <2> HIDE DEF new
  <2>3. ASSUME Live(e),
               chunks' = [chunks EXCEPT ![e] = n],
               docs' = [docs EXCEPT ![e] = new]
        PROVE  SameRow(d) \/ Updated(d)
    BY <2>1, <2>2, <2>3, <1>t DEF SameRow, Updated
  <2> QED BY <1>6, <1>u, <2>3 DEF FinishIndexing, new
<1>7. CASE DropChunks(t)
  BY <1>7, <1>t DEF DropChunks, SameRow
<1>8. CASE MarkFailed(t)
  <2> DEFINE new == FailedRow(r, loc[t].why)
  <2>1. e \in DocId /\ r \in Row /\ loc[t].why \in Failure
    BY <1>8, <1>t DEF MarkFailed, At, FrameOK, DocPc, AttemptPc, IndexPc,
                      CleanupPc, WriteBackPc
  <2>2. ASSUME Live(e)
        PROVE  /\ Flush(docs[e], r, new) \in Row
               /\ Flush(docs[e], r, new).sha = docs[e].sha
    <3>1. docs[e] \in Row
      BY <2>1, <2>2, <1>t DEF Live
    <3>2. new \in Row
      BY <2>1, AssignedRows
    <3> QED BY <2>1, <3>1, <3>2, FlushedRows
  <2> HIDE DEF new
  <2>3. ASSUME Live(e),
               chunks' = [chunks EXCEPT ![e] = 0],
               docs' = [docs EXCEPT ![e] = Flush(docs[e], r, new)]
        PROVE  SameRow(d) \/ Updated(d)
    BY <2>1, <2>2, <2>3, <1>t DEF SameRow, Updated
  <2> QED BY <1>8, <1>u, <2>3 DEF MarkFailed, new
<1> QED BY <1>1, <1>2, <1>3, <1>4, <1>5, <1>6, <1>7, <1>8

\* Requests arriving, reads, database errors and a crash touch no document.
LEMMA QuietSteps ==
  ASSUME NEW t \in Task,
         \/ Arrive(t) \/ DatabaseError(t) \/ Crash
         \/ LookupExisting(t) \/ RereadExisting(t) \/ ReplyDuplicate(t)
         \/ ReadForPending(t) \/ GetDocument(t) \/ ReadAndChunk(t) \/ Embed(t)
         \/ ReadOwner(t) \/ ReadToFinish(t) \/ ReadToFail(t)
  PROVE  UNCHANGED <<docs, chunks>>
<1> USE DEF db
<1>1. CASE Arrive(t)
  BY <1>1 DEF Arrive, StartCreateCollection, StartDeleteCollection, StartUpload,
              StartReindex, StartDeleteDocument
<1>2. CASE DatabaseError(t) \/ Crash
  BY <1>2 DEF DatabaseError, Crash
<1>3. CASE LookupExisting(t) \/ RereadExisting(t) \/ ReplyDuplicate(t)
  BY <1>3 DEF LookupExisting, RereadExisting, ReplyDuplicate
<1>4. CASE ReadForPending(t) \/ GetDocument(t) \/ ReadAndChunk(t) \/ Embed(t)
  BY <1>4 DEF ReadForPending, GetDocument, ReadAndChunk, Embed
<1>5. CASE ReadOwner(t) \/ ReadToFinish(t) \/ ReadToFail(t)
  BY <1>5 DEF ReadOwner, ReadToFinish, ReadToFail
<1> QED BY <1>1, <1>2, <1>3, <1>4, <1>5

LEMMA Effects ==
  ASSUME TypeOK, [Next]_vars, NEW d \in DocId
  PROVE  SameRow(d) \/ Inserted(d) \/ Deleted(d) \/ Updated(d)
<1>1. ASSUME UNCHANGED <<docs, chunks>> PROVE SameRow(d)
  BY <1>1 DEF SameRow
<1>2. ASSUME NEW t \in Task, Step(t)
      PROVE  SameRow(d) \/ Inserted(d) \/ Deleted(d) \/ Updated(d)
  BY <1>1, <1>2, QuietSteps, WriteEffects DEF Step
<1>3. ASSUME Startup PROVE SameRow(d) \/ Updated(d)
  <2>1. docs \in [DocId -> Row \cup {Unborn, Gone}]
    BY DEF TypeOK
  <2>2. CASE Live(d) /\ docs[d].status = "pending"
    <3> DEFINE new == FailedRow(docs[d], "interrupted")
    <3>1. docs[d] \in Row
      BY <2>1, <2>2 DEF Live
    <3>2. new \in Row
      BY <3>1, AssignedRows DEF Failure
    <3>3. new.sha = docs[d].sha
      BY <3>1 DEF FailedRow, Row
    <3>4. docs'[d] = new /\ chunks'[d] = 0
      BY <1>3, <2>2 DEF Startup
    <3> QED BY <2>2, <3>2, <3>3, <3>4 DEF Updated
  <2>3. CASE ~ (Live(d) /\ docs[d].status = "pending")
    BY <1>3, <2>3 DEF Startup, SameRow
  <2> QED BY <2>2, <2>3
<1>4. CASE Crash
  BY <1>1, <1>4 DEF Crash, db
<1>5. CASE UNCHANGED vars
  BY <1>1, <1>5 DEF vars
<1> QED BY <1>1, <1>2, <1>3, <1>4, <1>5, QuietSteps DEF Next

-----------------------------------------------------------------------------
(* What a step does to one frame.                                          *)

\* The task moves on, on the same document and bytes.
Proceeds(t) == /\ loc[t].pc \in DocPc \ {"del_write"}
               /\ loc'[t].pc # "del_write"
               /\ loc'[t].doc = loc[t].doc
               /\ loc'[t].sha = loc[t].sha
\* The task takes up a document it found or inserted.
TakesUp(t)  == /\ loc'[t].doc \in DocId
               /\ docs'[loc'[t].doc] \in Row
               /\ loc'[t].pc # "del_write"
                    => docs'[loc'[t].doc].sha = loc'[t].sha
Moves(t)    == loc'[t].pc \notin DocPc \/ Proceeds(t) \/ TakesUp(t)

LEMMA FinishMoves ==
  ASSUME TypeOK, NEW t \in Task, Finish(t)
  PROVE  Moves(t)
BY DEF TypeOK, Finish, Become, Idle, Moves, DocPc, AttemptPc, UploadPc,
       ReindexPc, IndexPc

\* The moves of a task that is on a document already.
LEMMA ProceedMoves ==
  ASSUME TypeOK, NEW t \in Task, loc[t].pc \in DocPc \ {"del_write"},
         \/ \E p \in Pc \ {"del_write"} : Goto(t, p)
         \/ \E p \in Pc \ {"del_write"}, r \in Row : Load(t, p, r)
         \/ Enter(t)
         \/ \E why \in Failure : Fail(t, why)
  PROVE  Moves(t)
<1>1. loc[t] \in Frame /\ loc \in [Task -> Frame]
  BY DEF TypeOK
<1> DEFINE Kept == /\ loc'[t].pc # "del_write"
                   /\ loc'[t].doc = loc[t].doc
                   /\ loc'[t].sha = loc[t].sha
<1>2. ASSUME NEW p \in Pc \ {"del_write"}, Goto(t, p) PROVE Kept
  BY <1>1, <1>2 DEF Goto, Become, Frame
<1>3. ASSUME NEW p \in Pc \ {"del_write"}, NEW r \in Row, Load(t, p, r) PROVE Kept
  BY <1>1, <1>3 DEF Load, Become, Frame
<1>4. ASSUME Enter(t) PROVE Kept
  BY <1>1, <1>4 DEF Enter, Become, Frame
<1>5. ASSUME NEW why \in Failure, Fail(t, why) PROVE Kept
  BY <1>1, <1>5 DEF Fail, Become, Frame
<1> QED BY <1>2, <1>3, <1>4, <1>5 DEF Moves, Proceeds

\* The lookups of an upload end on the row that holds its bytes.
LEMMA ExistingMoves ==
  ASSUME TypeOK, NEW t \in Task, NEW d \in DocId, Existing(t, d), UNCHANGED db
  PROVE  Moves(t)
<1>1. loc[t] \in Frame /\ loc \in [Task -> Frame]
  BY DEF TypeOK
<1>2. loc'[t].doc = d /\ loc'[t].sha = loc[t].sha
  BY <1>1 DEF Existing, Become, Frame
<1>3. docs'[d] \in Row /\ docs'[d].sha = loc[t].sha
  BY DEF Existing, Holds, Live, TypeOK, db
<1> QED BY <1>2, <1>3 DEF Moves, TakesUp

LEMMA ArriveMoves ==
  ASSUME TypeOK, NEW t \in Task, Arrive(t)
  PROVE  Moves(t)
<1> USE DEF TypeOK, Become, Idle, Moves
<1>1. ASSUME NEW k \in CollKey, StartCreateCollection(t, k) PROVE Moves(t)
  BY <1>1 DEF StartCreateCollection, DocPc, AttemptPc, UploadPc, ReindexPc, IndexPc
<1>2. ASSUME NEW c \in CollId, StartDeleteCollection(t, c) PROVE Moves(t)
  BY <1>2 DEF StartDeleteCollection, DocPc, AttemptPc, UploadPc, ReindexPc, IndexPc
<1>3. ASSUME NEW c \in CollId, NEW s \in Sha, StartUpload(t, c, s) PROVE Moves(t)
  BY <1>3 DEF StartUpload, DocPc, AttemptPc, UploadPc, ReindexPc, IndexPc
<1>4. ASSUME NEW d \in DocId, StartReindex(t, d) PROVE Moves(t)
  <2>1. docs'[d] \in Row /\ docs' = docs
    BY <1>4 DEF StartReindex, Live, db
  <2>2. loc'[t].doc = d /\ loc'[t].sha = docs[d].sha
    BY <1>4 DEF StartReindex
  <2> QED BY <2>1, <2>2 DEF TakesUp
<1>5. ASSUME NEW d \in DocId, StartDeleteDocument(t, d) PROVE Moves(t)
  <2>1. docs'[d] \in Row
    BY <1>5 DEF StartDeleteDocument, Live, db
  <2>2. loc'[t].doc = d /\ loc'[t].pc = "del_write"
    BY <1>5 DEF StartDeleteDocument
  <2> QED BY <2>1, <2>2 DEF TakesUp
<1> QED BY <1>1, <1>2, <1>3, <1>4, <1>5 DEF Arrive

LEMMA StepMoves ==
  ASSUME TypeOK, NEW t \in Task, Step(t)
  PROVE  Moves(t)
<1>f. Finish(t) => Moves(t)
  BY FinishMoves
<1>g. ASSUME NEW p \in Pc \ {"del_write"}, Goto(t, p),
             loc[t].pc \in DocPc \ {"del_write"}
      PROVE  Moves(t)
  BY <1>g, ProceedMoves
<1>w. ASSUME NEW why \in Failure, Fail(t, why), loc[t].pc \in IndexPc
      PROVE  Moves(t)
  BY <1>w, ProceedMoves DEF DocPc, AttemptPc, IndexPc
<1>e. ASSUME Enter(t), loc[t].pc \in DocPc \ {"del_write"} PROVE Moves(t)
  BY <1>e, ProceedMoves
<1>x. ASSUME NEW d \in DocId, Existing(t, d), UNCHANGED db PROVE Moves(t)
  BY <1>x, ExistingMoves
<1>l. ASSUME NEW p \in WriteBackPc, Load(t, p, docs[loc[t].doc]), Live(loc[t].doc),
             loc[t].pc \in DocPc \ {"del_write"}
      PROVE  Moves(t)
  <2>1. FrameOK(loc[t])
    BY DEF TypeOK
  <2>2. docs[loc[t].doc] \in Row
    BY <1>l, <2>1 DEF TypeOK, FrameOK, Live
  <2>3. p \in Pc \ {"del_write"}
    BY DEF WriteBackPc, Pc, UploadPc, ReindexPc, IndexPc
  <2> QED BY <1>l, <2>2, <2>3, ProceedMoves
<1> USE DEF At, Pc, DocPc, AttemptPc, UploadPc, ReindexPc, IndexPc, OtherPc
<1>1. CASE CreateCollection(t) \/ DeleteCollection(t) \/ DeleteDocument(t)
  BY <1>f, <1>1 DEF CreateCollection, DeleteCollection, DeleteDocument
<1>2. CASE LookupExisting(t)
  <2>1. ASSUME Goto(t, "insert") PROVE Moves(t)
    BY <2>1 DEF TypeOK, Goto, Become, Frame, Moves
  <2> QED BY <1>x, <1>2, <2>1 DEF LookupExisting
<1>3. CASE InsertDocument(t)
  <2>1. ASSUME Goto(t, "reread") PROVE Moves(t)
    BY <2>1 DEF TypeOK, Goto, Become, Frame, Moves
  <2>2. ASSUME NEW d \in DocId,
               docs' = [docs EXCEPT ![d] = FreshRow(loc[t].coll, loc[t].sha)],
               Become(t, [loc[t] EXCEPT !.pc = "get", !.doc = d])
        PROVE  Moves(t)
    <3>1. loc[t] \in Frame /\ loc[t].coll \in CollId /\ loc[t].sha \in Sha
      BY <1>3 DEF InsertDocument, TypeOK, FrameOK
    <3>2. /\ FreshRow(loc[t].coll, loc[t].sha) \in Row
          /\ FreshRow(loc[t].coll, loc[t].sha).sha = loc[t].sha
      BY <3>1, FreshRows DEF FreshRow
    <3>3. loc'[t].doc = d /\ loc'[t].sha = loc[t].sha
      BY <2>2, <3>1 DEF TypeOK, Become, Frame
    <3>4. docs'[d] = FreshRow(loc[t].coll, loc[t].sha)
      BY <2>2 DEF TypeOK
    <3> QED BY <3>2, <3>3, <3>4 DEF Moves, TakesUp
  <2> QED BY <1>3, <2>1, <2>2 DEF InsertDocument, Fresh
<1>4. CASE RereadExisting(t)
  BY <1>f, <1>x, <1>4 DEF RereadExisting
<1>5. CASE ReplyDuplicate(t)
  BY <1>f, <1>5 DEF ReplyDuplicate
<1>6. CASE ReadForPending(t)
  BY <1>f, <1>e, <1>l, <1>6 DEF ReadForPending, WriteBackPc
<1>7. CASE WriteReset(t)
  BY <1>f, <1>e, <1>7 DEF WriteReset
<1>8. CASE GetDocument(t) \/ ReadOwner(t) \/ DropChunks(t)
  BY <1>f, <1>g, <1>8 DEF GetDocument, ReadOwner, DropChunks
<1>9. CASE ReadAndChunk(t) \/ Embed(t)
  BY <1>g, <1>w, <1>9 DEF ReadAndChunk, Embed, Failure
<1>10. CASE ReadToFinish(t) \/ ReadToFail(t)
  BY <1>f, <1>l, <1>10 DEF ReadToFinish, ReadToFail, WriteBackPc
<1>11. CASE FinishIndexing(t) \/ MarkFailed(t)
  BY <1>f, <1>w, <1>11 DEF FinishIndexing, MarkFailed, Failure
<1> QED BY <1>1, <1>2, <1>3, <1>4, <1>5, <1>6, <1>7, <1>8, <1>9, <1>10, <1>11
        DEF Step

\* A task's step changes its own frame only.
LEMMA StepBecomes ==
  ASSUME NEW t \in Task, Arrive(t) \/ Step(t) \/ DatabaseError(t)
  PROVE  \E f : Become(t, f)
<1> USE DEF Finish, Goto, Load, Enter, Fail, Existing
<1>1. CASE Arrive(t)
  BY <1>1 DEF Arrive, StartCreateCollection, StartDeleteCollection, StartUpload,
              StartReindex, StartDeleteDocument
<1>2. CASE DatabaseError(t)
  BY <1>2 DEF DatabaseError
<1>3. CASE CreateCollection(t) \/ DeleteCollection(t) \/ DeleteDocument(t)
           \/ LookupExisting(t) \/ InsertDocument(t) \/ RereadExisting(t)
  BY <1>3 DEF CreateCollection, DeleteCollection, DeleteDocument,
              LookupExisting, InsertDocument, RereadExisting
<1>4. CASE ReplyDuplicate(t) \/ ReadForPending(t) \/ WriteReset(t)
           \/ GetDocument(t) \/ ReadAndChunk(t) \/ Embed(t)
  BY <1>4 DEF ReplyDuplicate, ReadForPending, WriteReset, GetDocument,
              ReadAndChunk, Embed
<1>5. CASE ReadOwner(t) \/ ReadToFinish(t) \/ FinishIndexing(t)
           \/ DropChunks(t) \/ ReadToFail(t) \/ MarkFailed(t)
  BY <1>5 DEF ReadOwner, ReadToFinish, FinishIndexing, DropChunks, ReadToFail,
              MarkFailed
<1> QED BY <1>1, <1>2, <1>3, <1>4, <1>5 DEF Step

\* Nothing but a process that serves takes a step.
LEMMA StepIsServed ==
  ASSUME NEW t \in Task, Step(t)
  PROVE  up
BY DEF Step, CreateCollection, DeleteCollection, DeleteDocument, LookupExisting,
       InsertDocument, RereadExisting, ReplyDuplicate, ReadForPending, WriteReset,
       GetDocument, ReadAndChunk, Embed, ReadOwner, ReadToFinish, FinishIndexing,
       DropChunks, ReadToFail, MarkFailed, At

\* A step moves one task, or none, or (a crash) ends them all.
LEMMA AllMoves ==
  ASSUME TypeOK, [Next]_vars, NEW u \in Task
  PROVE  loc'[u] = loc[u] \/ Moves(u)
<1>1. ASSUME NEW t \in Task, u # t, NEW f, Become(t, f) PROVE loc'[u] = loc[u]
  BY <1>1 DEF TypeOK, Become
<1>2. ASSUME NEW t \in Task, Arrive(t) \/ Step(t) \/ DatabaseError(t), u # t
      PROVE  loc'[u] = loc[u]
  BY <1>1, <1>2, StepBecomes
<1>3. ASSUME DatabaseError(u) PROVE Moves(u)
  <2>1. ASSUME InTry(u), Fail(u, "unexpected") PROVE Moves(u)
    BY <2>1, ProceedMoves DEF InTry, CleanupPc, DocPc, AttemptPc, IndexPc, Failure
  <2> QED BY <1>3, <2>1, FinishMoves DEF DatabaseError
<1>4. ASSUME Crash PROVE Moves(u)
  BY <1>4 DEF Crash, Idle, Moves, DocPc, AttemptPc, UploadPc, ReindexPc, IndexPc
<1>5. ASSUME Startup \/ UNCHANGED vars PROVE loc'[u] = loc[u]
  BY <1>5 DEF Startup, vars
<1> QED BY <1>2, <1>3, <1>4, <1>5, ArriveMoves, StepMoves DEF Next

-----------------------------------------------------------------------------
(* The inductive invariant.                                                *)

LEMMA FramesMatchStep ==
  ASSUME TypeOK, FramesMatch, [Next]_vars
  PROVE  FramesMatch'
<1> SUFFICES ASSUME NEW t \in Task, loc'[t].pc \in DocPc
             PROVE  /\ docs'[loc'[t].doc] # Unborn
                    /\ loc'[t].pc # "del_write"
                         /\ docs'[loc'[t].doc] \notin {Unborn, Gone}
                         => docs'[loc'[t].doc].sha = loc'[t].sha
  BY DEF FramesMatch, Live
<1>1. CASE TakesUp(t)
  BY <1>1, SentinelAssumption DEF TakesUp
<1>2. CASE loc'[t] = loc[t] \/ Proceeds(t)
  <2> DEFINE d == loc[t].doc
  <2>1. /\ loc'[t].doc = d /\ loc'[t].sha = loc[t].sha
        /\ loc[t].pc \in DocPc
        /\ loc[t].pc = "del_write" => loc'[t].pc = "del_write"
    BY <1>2 DEF Proceeds
  <2>2. d \in DocId /\ docs[d] # Unborn
    BY <2>1 DEF TypeOK, FrameOK, FramesMatch
  <2>3. docs'[d] # Unborn
    BY <2>2, Effects, SentinelAssumption DEF SameRow, Inserted, Deleted, Updated
  <2>4. ASSUME docs'[d] \notin {Unborn, Gone}
        PROVE  Live(d) /\ docs'[d].sha = docs[d].sha
    BY <2>2, <2>4, Effects DEF SameRow, Inserted, Deleted, Updated, Live
  <2> QED BY <2>1, <2>3, <2>4 DEF FramesMatch
<1> QED BY <1>1, <1>2, AllMoves DEF Moves

LEMMA ChunksStep ==
  ASSUME TypeOK, FramesMatch, NoOrphanChunks, AllOrNothing, [Next]_vars
  PROVE  NoOrphanChunks' /\ AllOrNothing'
<1> SUFFICES ASSUME NEW d \in DocId
             PROVE  /\ chunks'[d] > 0 => Live(d)'
                    /\ Live(d)' => chunks'[d] \in {0, Pieces[docs'[d].sha]}
  BY DEF NoOrphanChunks, AllOrNothing
<1>t. docs[d] \in Row \cup {Unborn, Gone} /\ chunks[d] \in Nat
  BY DEF TypeOK
<1>o. /\ chunks[d] > 0 => Live(d)
      /\ Live(d) => chunks[d] \in {0, Pieces[docs[d].sha]}
  BY DEF NoOrphanChunks, AllOrNothing
<1>1. CASE SameRow(d)
  <2>1. Live(d)' <=> Live(d)
    BY <1>1 DEF SameRow, Live
  <2> QED BY <1>1, <1>o, <2>1 DEF SameRow
<1>2. CASE Inserted(d)
  <2>1. ~ Live(d)
    BY <1>2 DEF Inserted, Live
  <2>2. chunks'[d] = 0
    BY <1>2, <1>o, <1>t, <2>1 DEF Inserted
  <2> QED BY <2>2
<1>3. CASE Deleted(d)
  BY <1>3 DEF Deleted, Live
<1>4. CASE Updated(d)
  <2>1. Live(d)'
    BY <1>4, SentinelAssumption DEF Updated, Live
  <2>2. ASSUME NEW t \in Task, loc[t].pc = "fin_write", loc[t].doc = d
        PROVE  loc[t].sha = docs'[d].sha
    <3>1. loc[t].pc \in DocPc /\ loc[t].pc # "del_write"
      BY <2>2 DEF DocPc, AttemptPc, IndexPc
    <3>2. docs[d].sha = loc[t].sha
      BY <1>4, <2>2, <3>1 DEF Updated, FramesMatch
    <3> QED BY <1>4, <3>2 DEF Updated
  <2>3. chunks'[d] \in {0, Pieces[docs'[d].sha]}
    BY <1>4, <2>2 DEF Updated
  <2> QED BY <2>1, <2>3
<1> QED BY <1>1, <1>2, <1>3, <1>4, Effects

\* An indexing run works on the bytes of the document it was started for: no
\* delete, re-upload or crash puts other bytes under a run in flight.
THEOREM FramesStayMatched == Spec => []FramesMatch
<1>1. Init => FramesMatch
  BY DEF Init, FramesMatch, Idle, DocPc, AttemptPc, UploadPc, ReindexPc, IndexPc
<1>2. TypeOK /\ FramesMatch /\ [Next]_vars => FramesMatch'
  BY FramesMatchStep
<1> QED BY <1>1, <1>2, TypeCorrect, PTL DEF Spec

LEMMA ChunksAreSafe == Spec => [](NoOrphanChunks /\ AllOrNothing)
<1>1. Init => NoOrphanChunks /\ AllOrNothing
  BY DEF Init, NoOrphanChunks, AllOrNothing
<1>2. TypeOK /\ FramesMatch /\ NoOrphanChunks /\ AllOrNothing /\ [Next]_vars
        => NoOrphanChunks' /\ AllOrNothing'
  BY ChunksStep
<1> QED BY <1>1, <1>2, TypeCorrect, FramesStayMatched, PTL DEF Spec

\* No chunk outlives its document, whatever requests, deletes, database errors
\* and crashes overlap.
THEOREM NoChunkOutlives == Spec => []NoOrphanChunks
BY ChunksAreSafe, PTL

\* No document has part of its chunks, or those of other bytes, under the same.
THEOREM ChunksAreWhole == Spec => []AllOrNothing
BY ChunksAreSafe, PTL

-----------------------------------------------------------------------------
(* No pending document is stranded while the database answers.             *)

Pending(d) == Live(d) /\ docs[d].status = "pending"

\* Only a commit that starts an indexing run makes a document pending.
LEMMA BecomesPending ==
  ASSUME TypeOK, NEW t \in Task, Step(t), NEW d \in DocId,
         ~ Pending(d), Pending(d)'
  PROVE  Responsible(t, d)'
<1> DEFINE e == loc[t].doc
           r == loc[t].seen
<1>t. /\ docs \in [DocId -> Row \cup {Unborn, Gone}]
      /\ loc \in [Task -> Frame]
      /\ FrameOK(loc[t]) /\ loc[t] \in Frame
  BY DEF TypeOK
<1>u. docs' # docs
  BY DEF Pending, Live
<1>g. ASSUME loc'[t].pc = "get", loc'[t].doc = d PROVE Responsible(t, d)'
  BY <1>g DEF Responsible, IndexPc
<1>1. CASE DeleteCollection(t) \/ DeleteDocument(t)
  BY <1>1, <1>t DEF DeleteCollection, DeleteDocument, Pending, Live
<1>2. CASE InsertDocument(t)
  <2>1. PICK n \in DocId :
          /\ docs' = [docs EXCEPT ![n] = FreshRow(loc[t].coll, loc[t].sha)]
          /\ Become(t, [loc[t] EXCEPT !.pc = "get", !.doc = n])
    BY <1>2, <1>u DEF InsertDocument, Fresh
  <2>2. n = d
    BY <1>t, <2>1 DEF Pending, Live
  <2>3. loc'[t].pc = "get" /\ loc'[t].doc = d
    BY <1>t, <2>1, <2>2 DEF Become, Frame
  <2> QED BY <1>g, <2>3
<1>3. CASE WriteReset(t)
  <2>1. /\ docs' = [docs EXCEPT ![e] = Flush(docs[e], r, ResetRow(r))]
        /\ Enter(t)
    BY <1>3, <1>u DEF WriteReset
  <2>2. e = d
    BY <1>t, <2>1 DEF Pending, Live
  <2>3. loc'[t].pc = "get" /\ loc'[t].doc = d
    BY <1>t, <2>1, <2>2 DEF Enter, Become, Frame
  <2> QED BY <1>g, <2>3
<1>4. CASE FinishIndexing(t)
  <2> DEFINE n == Pieces[loc[t].sha]
             new == FlushIndexed(docs[e], r, n)
  <2>1. Live(e) /\ docs' = [docs EXCEPT ![e] = new]
    BY <1>4, <1>u DEF FinishIndexing
  <2>2. e = d
    BY <1>t, <2>1 DEF Pending, Live
  <2>3. new.status \in {docs[e].status, "indexed"}
    <3>1. r \in Row
      BY <1>4, <1>t DEF FinishIndexing, At, FrameOK, WriteBackPc
    <3>2. IndexedRow(r, n).status = "indexed"
      BY <3>1 DEF IndexedRow, Row
    <3> QED BY <3>2 DEF FlushIndexed, Flush, Col
  <2>4. docs'[d] = new
    BY <1>t, <2>1, <2>2
  <2> QED BY <2>1, <2>2, <2>3, <2>4 DEF Pending
<1>5. CASE MarkFailed(t)
  <2> DEFINE new == FailedRow(r, loc[t].why)
  <2>1. Live(e) /\ docs' = [docs EXCEPT ![e] = Flush(docs[e], r, new)]
    BY <1>5, <1>u DEF MarkFailed
  <2>2. e = d
    BY <1>t, <2>1 DEF Pending, Live
  <2>3. Flush(docs[e], r, new).status \in {docs[e].status, "failed"}
    <3>1. r \in Row
      BY <1>5, <1>t DEF MarkFailed, At, FrameOK, WriteBackPc
    <3>2. new.status = "failed"
      BY <3>1 DEF FailedRow, Row
    <3> QED BY <3>2 DEF Flush, Col
  <2>4. docs'[d] = Flush(docs[e], r, new)
    BY <1>t, <2>1, <2>2
  <2> QED BY <2>1, <2>2, <2>3, <2>4 DEF Pending
<1>6. CASE CreateCollection(t) \/ DropChunks(t)
  BY <1>6, <1>u DEF CreateCollection, DropChunks
<1> QED BY <1>1, <1>2, <1>3, <1>4, <1>5, <1>6, <1>u, QuietSteps DEF Step

\* The task that answers for a pending document goes on answering for it until
\* the document is pending no more.
LEMMA StaysResponsible ==
  ASSUME TypeOK, NEW t \in Task, Step(t), NEW d \in DocId,
         Pending(d), Pending(d)', Responsible(t, d)
  PROVE  Responsible(t, d)'
<1> DEFINE r == loc[t].seen
<1>t. /\ docs \in [DocId -> Row \cup {Unborn, Gone}]
      /\ loc \in [Task -> Frame]
      /\ FrameOK(loc[t]) /\ loc[t] \in Frame
      /\ loc[t].doc = d /\ loc[t].pc \in IndexPc
  BY DEF TypeOK, Responsible, IndexPc
<1>g. ASSUME NEW p \in IndexPc \ {"fin_write", "fail_write"}, Goto(t, p)
      PROVE  Responsible(t, d)'
  <2>1. loc'[t].pc = p /\ loc'[t].doc = d
    BY <1>g, <1>t DEF Goto, Become, Frame
  <2> QED BY <2>1 DEF Responsible
<1>w. ASSUME NEW why, Fail(t, why) PROVE Responsible(t, d)'
  <2>1. loc'[t].pc = "drop" /\ loc'[t].doc = d
    BY <1>w, <1>t DEF Fail, Become, Frame
  <2> QED BY <2>1 DEF Responsible, IndexPc
<1>l. ASSUME NEW p \in {"fin_write", "fail_write"}, Load(t, p, docs[d])
      PROVE  Responsible(t, d)'
  <2>1. loc'[t].pc = p /\ loc'[t].doc = d /\ loc'[t].seen = docs[d]
    BY <1>l, <1>t DEF Load, Become, Frame
  <2> QED BY <2>1 DEF Responsible, Pending
<1>1. CASE GetDocument(t) \/ ReadOwner(t) \/ DropChunks(t)
  BY <1>1, <1>g, <1>t DEF GetDocument, ReadOwner, DropChunks, Pending, IndexPc
<1>2. CASE ReadAndChunk(t) \/ Embed(t)
  BY <1>2, <1>g, <1>w DEF ReadAndChunk, Embed, IndexPc
<1>3. CASE ReadToFinish(t) \/ ReadToFail(t)
  BY <1>3, <1>l, <1>t DEF ReadToFinish, ReadToFail, Pending
<1>4. CASE FinishIndexing(t)
  <2> DEFINE n == Pieces[loc[t].sha]
  <2>1. r \in Row /\ r.status # "indexed"
    BY <1>4, <1>t DEF FinishIndexing, At, FrameOK, WriteBackPc, Responsible, IndexPc
  <2>2. FlushIndexed(docs[d], r, n).status = "indexed"
    BY <2>1 DEF FlushIndexed, Flush, Col, IndexedRow, Row
  <2>3. docs'[d] = FlushIndexed(docs[d], r, n)
    BY <1>4, <1>t DEF FinishIndexing, Pending
  <2> QED BY <2>2, <2>3 DEF Pending
<1>5. CASE MarkFailed(t)
  <2> DEFINE new == FailedRow(r, loc[t].why)
  <2>1. r \in Row /\ r.status # "failed"
    BY <1>5, <1>t DEF MarkFailed, At, FrameOK, WriteBackPc, Responsible, IndexPc
  <2>2. Flush(docs[d], r, new).status = "failed"
    BY <2>1 DEF Flush, Col, FailedRow, Row
  <2>3. docs'[d] = Flush(docs[d], r, new)
    BY <1>5, <1>t DEF MarkFailed, Pending
  <2> QED BY <2>2, <2>3 DEF Pending
<1>6. ~ (CreateCollection(t) \/ DeleteCollection(t) \/ LookupExisting(t)
         \/ InsertDocument(t) \/ RereadExisting(t) \/ ReplyDuplicate(t)
         \/ ReadForPending(t) \/ WriteReset(t) \/ DeleteDocument(t))
  BY <1>t DEF CreateCollection, DeleteCollection, LookupExisting, InsertDocument,
              RereadExisting, ReplyDuplicate, ReadForPending, WriteReset,
              DeleteDocument, At, IndexPc
<1> QED BY <1>1, <1>2, <1>3, <1>4, <1>5, <1>6 DEF Step

LEMMA StrandedStep ==
  ASSUME MaxFaults = 0, TypeOK, NoStrandedPending, [Next]_vars
  PROVE  NoStrandedPending'
<1> SUFFICES ASSUME up', NEW d \in DocId, Pending(d)'
             PROVE  \E t \in Task : Responsible(t, d)'
  BY DEF NoStrandedPending, Pending
<1>s. ASSUME up, UNCHANGED <<docs, loc>> PROVE \E t \in Task : Responsible(t, d)'
  BY <1>s DEF NoStrandedPending, Pending, Responsible, Live
<1>o. ASSUME NEW t \in Task, NEW f, Become(t, f), NEW u \in Task, u # t,
             Responsible(u, d)
      PROVE  Responsible(u, d)'
  BY <1>o DEF Responsible, Become, TypeOK
<1>1. ASSUME NEW t \in Task, Step(t) PROVE \E u \in Task : Responsible(u, d)'
  <2>1. CASE ~ Pending(d)
    BY <1>1, <2>1, BecomesPending
  <2>2. CASE Pending(d)
    <3>1. PICK u \in Task : Responsible(u, d)
      BY <1>1, <2>2, StepIsServed DEF NoStrandedPending, Pending
    <3>2. CASE u = t
      BY <1>1, <2>2, <3>1, <3>2, StaysResponsible
    <3>3. CASE u # t
      BY <1>1, <1>o, <3>1, <3>3, StepBecomes
    <3> QED BY <3>2, <3>3
  <2> QED BY <2>1, <2>2
<1>2. ASSUME NEW t \in Task, Arrive(t) PROVE \E u \in Task : Responsible(u, d)'
  <2>1. docs' = docs /\ loc[t].pc = "idle" /\ up
    BY <1>2, QuietSteps DEF Arrive, StartCreateCollection, StartDeleteCollection,
         StartUpload, StartReindex, StartDeleteDocument, At
  <2>2. PICK u \in Task : Responsible(u, d)
    BY <2>1 DEF NoStrandedPending, Pending, Live
  <2>3. u # t
    BY <2>1, <2>2 DEF Responsible, IndexPc
  <2> QED BY <1>2, <1>o, <2>2, <2>3, StepBecomes
<1>3. ASSUME NEW t \in Task, DatabaseError(t) PROVE FALSE
  BY <1>3 DEF DatabaseError, TypeOK
<1>4. CASE Crash
  BY <1>4 DEF Crash
<1>5. CASE Startup
  <2>1. docs'[d] = IF Live(d) /\ docs[d].status = "pending"
                     THEN FailedRow(docs[d], "interrupted") ELSE docs[d]
    BY <1>5 DEF Startup
  <2>2. Live(d) => docs[d] \in Row
    BY DEF TypeOK, Live
  <2>3. FALSE
    BY <2>1, <2>2 DEF Pending, Live, FailedRow, Row
  <2> QED BY <2>3
<1>6. CASE UNCHANGED vars
  BY <1>6, <1>s DEF vars
<1> QED BY <1>1, <1>2, <1>3, <1>4, <1>5, <1>6 DEF Next

\* While the database answers, every pending document has a task that is going
\* to decide it: the startup sweep covers what a crash left behind, and no
\* interleaving of retries, reindexes and deletes loses the run of an accepted
\* upload.
THEOREM NothingStranded == MaxFaults = 0 => (Spec => []NoStrandedPending)
<1> SUFFICES ASSUME MaxFaults = 0 PROVE Spec => []NoStrandedPending
  OBVIOUS
<1>1. Init => NoStrandedPending
  BY DEF Init, NoStrandedPending, Live
<1>2. TypeOK /\ NoStrandedPending /\ [Next]_vars => NoStrandedPending'
  BY StrandedStep
<1> QED BY <1>1, <1>2, TypeCorrect, PTL DEF Spec
=============================================================================
