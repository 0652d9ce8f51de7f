---------------------------- MODULE KbSerialProofs ----------------------------
(***************************************************************************)
(* The service when callers do not overlap attempts on one document, for   *)
(* any number of tasks, documents, errors and crashes: what searches rely  *)
(* on, and the refinement of KbPromise.                                    *)
(***************************************************************************)
EXTENDS KbServiceProofs

-----------------------------------------------------------------------------
(* The inductive invariant.                                                *)

Attempting(t) == loc[t].pc \in AttemptPc
Working(t)    == loc[t].pc \in AttemptPc \cap DocPc

\* No two tasks attempt the same bytes in the same collection.
OneAttempt ==
  \A t, u \in Task : t # u /\ Attempting(t) /\ Attempting(u) =>
    loc[t].coll # loc[u].coll \/ loc[t].sha # loc[u].sha

\* A task that works on a live document is the one its row belongs to, holds
\* the row as it is, and runs while the row is pending.
OnItsRow(t) ==
  Working(t) /\ Live(loc[t].doc) =>
    LET r == docs[loc[t].doc] IN
    /\ r.coll = loc[t].coll /\ r.sha = loc[t].sha
    /\ loc[t].pc \in WriteBackPc => loc[t].seen = r
    /\ loc[t].pc = "retry" => r.status = "failed"
    /\ loc[t].pc = "pend_write" => r.status # "pending"
    /\ loc[t].pc \in IndexPc => r.status = "pending"

\* Past the check for an empty document there are pieces.
HasPieces(t) ==
  loc[t].pc \in {"embed", "owner", "fin_read", "fin_write"} =>
    Pieces[loc[t].sha] > 0

\* A document and its chunks tell one story.
Whole(d) ==
  IF Live(d) /\ docs[d].status = "indexed"
    THEN /\ docs[d].error = "" /\ docs[d].at
         /\ docs[d].count = Pieces[docs[d].sha] /\ docs[d].count > 0
         /\ chunks[d] = docs[d].count
    ELSE /\ chunks[d] = 0
         /\ Live(d) => /\ ~ docs[d].at /\ docs[d].count = 0
                       /\ docs[d].error = "" <=> docs[d].status = "pending"

\* No coroutine outlives its process.
DownIsIdle == ~ up => \A t \in Task : loc[t] = Idle

SerialInv ==
  /\ OneAttempt
  /\ \A t \in Task : OnItsRow(t) /\ HasPieces(t)
  /\ \A d \in DocId : Whole(d)
  /\ DownIsIdle

-----------------------------------------------------------------------------
(* What a step does to the documents, when the invariant holds.            *)

Same(d)      == docs'[d] = docs[d] /\ chunks'[d] = chunks[d]
Accepted(d)  == /\ docs[d] = Unborn
                /\ \E c \in CollId, s \in Sha : docs'[d] = FreshRow(c, s)
                /\ chunks'[d] = 0
Requeued(d)  == /\ Live(d) /\ docs[d].status # "pending"
                /\ docs'[d] = ResetRow(docs[d])
                /\ chunks'[d] = 0
Completed(d) == /\ Live(d) /\ docs[d].status = "pending"
                /\ Pieces[docs[d].sha] > 0
                /\ docs'[d] = IndexedRow(docs[d], Pieces[docs[d].sha])
                /\ chunks'[d] = Pieces[docs[d].sha]
GivenUp(d)   == /\ Live(d) /\ docs[d].status = "pending"
                /\ \E why \in Failure : docs'[d] = FailedRow(docs[d], why)
                /\ chunks'[d] = 0
Removed(d)   == Live(d) /\ docs'[d] = Gone /\ chunks'[d] = 0

\* What a run does to its own document.
Decided(t) == LET d == loc[t].doc IN
                /\ Working(t)
                /\ Requeued(d) \/ Completed(d) \/ GivenUp(d)
OnlyOn(d)  == \A e \in DocId \ {d} : Same(e)

\* A write-back of a row that is still as it was read writes what the method
\* assigned.
LEMMA FlushOfCurrent ==
  ASSUME NEW r \in Row, NEW new \in Row, new.coll = r.coll, new.sha = r.sha
  PROVE  Flush(r, r, new) = new
BY DEF Flush, Col, Row

LEMMA WritesOfCurrent ==
  ASSUME NEW r \in Row, NEW n \in Nat, NEW why \in Failure
  PROVE  /\ Flush(r, r, ResetRow(r)) = ResetRow(r)
         /\ Flush(r, r, FailedRow(r, why)) = FailedRow(r, why)
         /\ FlushIndexed(r, r, n) = IndexedRow(r, n)
<1>1. ResetRow(r) \in Row /\ IndexedRow(r, n) \in Row /\ FailedRow(r, why) \in Row
  BY AssignedRows
<1>2. /\ ResetRow(r).coll = r.coll /\ ResetRow(r).sha = r.sha
      /\ FailedRow(r, why).coll = r.coll /\ FailedRow(r, why).sha = r.sha
      /\ IndexedRow(r, n).coll = r.coll /\ IndexedRow(r, n).sha = r.sha
  BY DEF ResetRow, FailedRow, IndexedRow, Row
<1>3. [IndexedRow(r, n) EXCEPT !.at = TRUE] = IndexedRow(r, n)
  BY DEF IndexedRow, Row
<1> QED BY <1>1, <1>2, <1>3, FlushOfCurrent DEF FlushIndexed

\* The type of a task's frame at the places that write.
LEMMA WorkersFrame ==
  ASSUME TypeOK, FramesMatch, SerialInv, NEW t \in Task, Working(t)
  PROVE  /\ loc[t].doc \in DocId /\ loc[t].coll \in CollId /\ loc[t].sha \in Sha
         /\ docs[loc[t].doc] # Unborn
         /\ Live(loc[t].doc) => docs[loc[t].doc] \in Row
         /\ Whole(loc[t].doc)
         /\ OnItsRow(t) /\ HasPieces(t)
BY DEF TypeOK, FrameOK, FramesMatch, SerialInv, Working, Live

\* The step of a task that writes documents: it adds one, decides its own, or
\* deletes.
LEMMA TaskEffects ==
  ASSUME TypeOK, FramesMatch, SerialInv, NEW t \in Task, Step(t)
  PROVE  \/ \A d \in DocId : Same(d) \/ Removed(d)
         \/ \E d \in DocId : Accepted(d) /\ OnlyOn(d)
         \/ Decided(t) /\ OnlyOn(loc[t].doc)
<1> DEFINE d == loc[t].doc
           r == loc[t].seen
           Goal == \/ \A e \in DocId : Same(e) \/ Removed(e)
                   \/ \E e \in DocId : Accepted(e) /\ OnlyOn(e)
                   \/ Decided(t) /\ OnlyOn(d)
<1>t. /\ docs \in [DocId -> Row \cup {Unborn, Gone}]
      /\ chunks \in [DocId -> Nat]
      /\ FrameOK(loc[t])
  BY DEF TypeOK
<1>w. \A e \in DocId : Whole(e)
  BY DEF SerialInv
<1>u. UNCHANGED <<docs, chunks>> => \A e \in DocId : Same(e)
  BY DEF Same
<1>1. CASE CreateCollection(t)
  BY <1>u, <1>1 DEF CreateCollection
<1>2. CASE DeleteCollection(t)
  BY <1>2, <1>t DEF DeleteCollection, Same, Removed
<1>3. CASE DeleteDocument(t)
  <2>1. d \in DocId /\ docs[d] # Unborn
    BY <1>3, <1>t DEF DeleteDocument, At, FrameOK, DocPc, FramesMatch
  <2>2. docs' = [docs EXCEPT ![d] = Gone] /\ chunks' = [chunks EXCEPT ![d] = 0]
    BY <1>3 DEF DeleteDocument
  <2>3. Live(d) => Removed(d)
    BY <2>1, <2>2, <1>t DEF Removed
  <2>4. ~ Live(d) => Same(d)
    BY <2>1, <2>2, <1>t, <1>w DEF Same, Live, Whole
  <2>5. \A e \in DocId : e # d => Same(e)
    BY <2>2, <1>t DEF Same
  <2> QED BY <2>3, <2>4, <2>5
<1>4. CASE InsertDocument(t)
  <2>1. loc[t].coll \in CollId /\ loc[t].sha \in Sha
    BY <1>4, <1>t DEF InsertDocument, At, FrameOK, AttemptPc, UploadPc
  <2>2. ASSUME NEW n \in Fresh(DocId, docs),
               docs' = [docs EXCEPT ![n] = FreshRow(loc[t].coll, loc[t].sha)],
               UNCHANGED chunks
        PROVE  Goal
    <3>1. n \in DocId /\ docs[n] = Unborn
      BY <2>2 DEF Fresh
    <3>2. chunks[n] = 0
      BY <3>1, <1>w DEF Whole, Live
    <3>3. Accepted(n)
      BY <2>1, <2>2, <3>1, <3>2, <1>t DEF Accepted
    <3>4. OnlyOn(n)
      BY <2>2, <1>t DEF OnlyOn, Same
    <3> QED BY <3>1, <3>3, <3>4
  <2> QED BY <1>4, <1>u, <2>2 DEF InsertDocument
<1>5. ASSUME WriteReset(t) \/ FinishIndexing(t) \/ DropChunks(t) \/ MarkFailed(t)
      PROVE  Working(t) /\ d \in DocId /\ FrameOK(loc[t])
  BY <1>5, <1>t DEF WriteReset, FinishIndexing, DropChunks, MarkFailed, At,
                    Working, FrameOK, AttemptPc, UploadPc, ReindexPc, IndexPc, DocPc
<1>6. ASSUME d \in DocId, NEW new, NEW n,
             docs' = [docs EXCEPT ![d] = new], chunks' = [chunks EXCEPT ![d] = n]
      PROVE  docs'[d] = new /\ chunks'[d] = n /\ OnlyOn(d)
  BY <1>6, <1>t DEF OnlyOn, Same
<1>7. CASE WriteReset(t)
  <2>1. ASSUME Live(d), chunks' = [chunks EXCEPT ![d] = 0],
               docs' = [docs EXCEPT ![d] = Flush(docs[d], r, ResetRow(r))]
        PROVE  Goal
    <3>1. docs[d] \in Row /\ r = docs[d] /\ docs[d].status # "pending"
      BY <1>5, <1>7, <2>1, WorkersFrame
         DEF WriteReset, At, OnItsRow, WriteBackPc
    <3>2. Flush(docs[d], r, ResetRow(r)) = ResetRow(docs[d])
      BY <3>1, WritesOfCurrent DEF Failure
    <3>3. Requeued(d) /\ OnlyOn(d)
      BY <1>5, <1>6, <1>7, <2>1, <3>1, <3>2 DEF Requeued
    <3> QED BY <1>5, <1>7, <3>3 DEF Decided
  <2> QED BY <1>7, <1>u, <2>1 DEF WriteReset
<1>8. CASE FinishIndexing(t)
  <2> DEFINE n == Pieces[loc[t].sha]
  <2>1. ASSUME Live(d), chunks' = [chunks EXCEPT ![d] = n],
               docs' = [docs EXCEPT ![d] = FlushIndexed(docs[d], r, n)]
        PROVE  Goal
    <3>1. /\ docs[d] \in Row /\ r = docs[d] /\ docs[d].status = "pending"
          /\ docs[d].sha = loc[t].sha /\ n > 0
      BY <1>5, <1>8, <2>1, WorkersFrame
         DEF FinishIndexing, At, OnItsRow, HasPieces, WriteBackPc, IndexPc
    <3>2. n \in Nat
      BY <1>5, <1>8, WorkersFrame, PiecesAssumption
    <3>3. FlushIndexed(docs[d], r, n) = IndexedRow(docs[d], n)
      BY <3>1, <3>2, WritesOfCurrent DEF Failure
    <3>4. Completed(d) /\ OnlyOn(d)
      BY <1>5, <1>6, <1>8, <2>1, <3>1, <3>3 DEF Completed
    <3> QED BY <1>5, <1>8, <3>4 DEF Decided
  <2> QED BY <1>8, <1>u, <2>1 DEF FinishIndexing
<1>9. CASE DropChunks(t)
  <2>1. chunks[d] = 0
    BY <1>5, <1>9, <1>w, WorkersFrame
       DEF DropChunks, At, OnItsRow, Whole, IndexPc
  <2>2. docs' = docs /\ chunks' = [chunks EXCEPT ![d] = 0]
    BY <1>9 DEF DropChunks
  <2> QED BY <2>1, <2>2, <1>t DEF Same
<1>10. CASE MarkFailed(t)
  <2> DEFINE new == FailedRow(r, loc[t].why)
  <2>1. ASSUME Live(d), chunks' = [chunks EXCEPT ![d] = 0],
               docs' = [docs EXCEPT ![d] = Flush(docs[d], r, new)]
        PROVE  Goal
    <3>1. docs[d] \in Row /\ r = docs[d] /\ docs[d].status = "pending"
      BY <1>5, <1>10, <2>1, WorkersFrame
         DEF MarkFailed, At, OnItsRow, WriteBackPc, IndexPc
    <3>2. loc[t].why \in Failure
      BY <1>5, <1>10 DEF MarkFailed, At, FrameOK, CleanupPc
    <3>3. Flush(docs[d], r, new) = FailedRow(docs[d], loc[t].why)
      BY <3>1, <3>2, WritesOfCurrent
    <3>4. GivenUp(d) /\ OnlyOn(d)
      BY <1>5, <1>6, <1>10, <2>1, <3>1, <3>2, <3>3 DEF GivenUp
    <3> QED BY <1>5, <1>10, <3>4 DEF Decided
  <2> QED BY <1>10, <1>u, <2>1 DEF MarkFailed
<1> HIDE DEF Goal
<1> QED BY <1>1, <1>2, <1>3, <1>4, <1>7, <1>8, <1>9, <1>10, <1>u, QuietSteps
        DEF Step, Goal

-----------------------------------------------------------------------------
(* What a step does to the frames.                                         *)

\* A task ends its attempt or goes on with the same bytes.
CarriesOn(t) == \/ loc'[t] = Idle
                \/ /\ Attempting(t)
                   /\ loc'[t].coll = loc[t].coll
                   /\ loc'[t].sha = loc[t].sha

LEMMA FailCarriesOn ==
  ASSUME TypeOK, NEW t \in Task, loc[t].pc \in IndexPc,
         NEW why \in Failure, Fail(t, why)
  PROVE  CarriesOn(t)
BY DEF TypeOK, Fail, Become, Frame, CarriesOn, Attempting, AttemptPc

LEMMA StepCarriesOn ==
  ASSUME TypeOK, NEW t \in Task, Step(t)
  PROVE  CarriesOn(t)
<1>t. loc[t] \in Frame /\ loc \in [Task -> Frame]
  BY DEF TypeOK
<1>f. Finish(t) => CarriesOn(t)
  BY <1>t DEF Finish, Become, CarriesOn
<1>g. ASSUME NEW p, Goto(t, p), Attempting(t) PROVE CarriesOn(t)
  BY <1>t, <1>g DEF Goto, Become, Frame, CarriesOn
<1>e. ASSUME Enter(t), Attempting(t) PROVE CarriesOn(t)
  BY <1>t, <1>e DEF Enter, Become, Frame, CarriesOn
<1>l. ASSUME NEW p, NEW r, Load(t, p, r), Attempting(t) PROVE CarriesOn(t)
  BY <1>t, <1>l DEF Load, Become, Frame, CarriesOn
<1>x. ASSUME NEW d, Existing(t, d), Attempting(t) PROVE CarriesOn(t)
  BY <1>t, <1>x DEF Existing, Become, Frame, CarriesOn
<1>w. ASSUME NEW why \in Failure, Fail(t, why), loc[t].pc \in IndexPc
      PROVE  CarriesOn(t)
  BY <1>w, FailCarriesOn
<1> USE DEF At, Attempting, AttemptPc, UploadPc, ReindexPc, IndexPc, Failure
<1>1. CASE CreateCollection(t) \/ DeleteCollection(t) \/ DeleteDocument(t)
           \/ ReplyDuplicate(t)
  BY <1>f, <1>1 DEF CreateCollection, DeleteCollection, DeleteDocument, ReplyDuplicate
<1>2. CASE LookupExisting(t) \/ RereadExisting(t)
  BY <1>f, <1>g, <1>x, <1>2 DEF LookupExisting, RereadExisting
<1>3. CASE InsertDocument(t)
  <2>1. ASSUME NEW d, Become(t, [loc[t] EXCEPT !.pc = "get", !.doc = d])
        PROVE  CarriesOn(t)
    BY <1>t, <1>3, <2>1 DEF InsertDocument, Become, Frame, CarriesOn
  <2> QED BY <1>g, <1>3, <2>1 DEF InsertDocument
<1>4. CASE ReadForPending(t) \/ WriteReset(t)
  BY <1>f, <1>e, <1>l, <1>4 DEF ReadForPending, WriteReset
<1>5. CASE GetDocument(t) \/ ReadAndChunk(t) \/ Embed(t) \/ ReadOwner(t) \/ DropChunks(t)
  BY <1>f, <1>g, <1>w, <1>5 DEF GetDocument, ReadAndChunk, Embed, ReadOwner, DropChunks
<1>6. CASE ReadToFinish(t) \/ ReadToFail(t)
  BY <1>f, <1>l, <1>6 DEF ReadToFinish, ReadToFail
<1>7. CASE FinishIndexing(t) \/ MarkFailed(t)
  BY <1>f, <1>w, <1>7 DEF FinishIndexing, MarkFailed
<1> QED BY <1>1, <1>2, <1>3, <1>4, <1>5, <1>6, <1>7 DEF Step

LEMMA ErrorCarriesOn ==
  ASSUME TypeOK, NEW t \in Task, DatabaseError(t)
  PROVE  CarriesOn(t)
<1>1. Finish(t) => CarriesOn(t)
  BY DEF TypeOK, Finish, Become, CarriesOn
<1>2. InTry(t) => loc[t].pc \in IndexPc
  BY DEF InTry, IndexPc, CleanupPc
<1> QED BY <1>1, <1>2, FailCarriesOn DEF DatabaseError, Failure

\* A new attempt is on bytes no other task is on.
LEMMA ArriveAlone ==
  ASSUME TypeOK, Overlap = FALSE, NEW t \in Task, Arrive(t),
         loc'[t].pc \in AttemptPc, NEW u \in Task, u # t, Attempting(u)
  PROVE  loc'[t].coll # loc[u].coll \/ loc'[t].sha # loc[u].sha
<1> USE DEF TypeOK, Become, Idle, Attempting
<1>1. ASSUME NEW k \in CollKey, StartCreateCollection(t, k) PROVE FALSE
  BY <1>1 DEF StartCreateCollection, AttemptPc, UploadPc, ReindexPc, IndexPc
<1>2. ASSUME NEW c \in CollId, StartDeleteCollection(t, c) PROVE FALSE
  BY <1>2 DEF StartDeleteCollection, AttemptPc, UploadPc, ReindexPc, IndexPc
<1>3. ASSUME NEW c \in CollId, NEW s \in Sha, StartUpload(t, c, s)
      PROVE  loc'[t].coll # loc[u].coll \/ loc'[t].sha # loc[u].sha
  BY <1>3 DEF StartUpload, MayAttempt
<1>4. ASSUME NEW d \in DocId, StartReindex(t, d)
      PROVE  loc'[t].coll # loc[u].coll \/ loc'[t].sha # loc[u].sha
  BY <1>4 DEF StartReindex, MayAttempt
<1>5. ASSUME NEW d \in DocId, StartDeleteDocument(t, d) PROVE FALSE
  BY <1>5 DEF StartDeleteDocument, AttemptPc, UploadPc, ReindexPc, IndexPc
<1> QED BY <1>1, <1>2, <1>3, <1>4, <1>5 DEF Arrive

LEMMA OneAttemptStep ==
  ASSUME TypeOK, OneAttempt, Overlap = FALSE,
         NEW t \in Task, Arrive(t) \/ Step(t) \/ DatabaseError(t)
  PROVE  OneAttempt'
<1>1. \A u \in Task : u # t => loc'[u] = loc[u]
  BY StepBecomes DEF TypeOK, Become
<1>2. ASSUME NEW u \in Task, u # t, Attempting(u), loc'[t].pc \in AttemptPc
      PROVE  loc'[t].coll # loc[u].coll \/ loc'[t].sha # loc[u].sha
  <2>1. CASE Arrive(t)
    BY <1>2, <2>1, ArriveAlone
  <2>2. CASE CarriesOn(t)
    BY <1>2, <2>2 DEF CarriesOn, OneAttempt, Idle, AttemptPc, UploadPc, ReindexPc,
                      IndexPc
  <2> QED BY <2>1, <2>2, StepCarriesOn, ErrorCarriesOn
<1> QED BY <1>1, <1>2 DEF OneAttempt, Attempting

\* What a task holds of its document, whoever wrote last.
Sound(t) == OnItsRow(t) /\ HasPieces(t)

LEMMA IdleIsSound == ASSUME NEW t \in Task, loc'[t] = Idle PROVE Sound(t)'
BY DEF Idle, Sound, OnItsRow, HasPieces, Working, AttemptPc, UploadPc, ReindexPc, IndexPc

\* Inside the indexing run only the place changes, or nothing is loaded that
\* the row does not say.
LEMMA FailIsSound ==
  ASSUME TypeOK, FramesMatch, SerialInv, NEW t \in Task, loc[t].pc \in IndexPc,
         NEW why \in Failure, Fail(t, why), UNCHANGED docs
  PROVE  Sound(t)'
<1>1. Working(t)
  BY DEF Working, IndexPc, AttemptPc, DocPc
<1>2. /\ loc'[t].pc = "drop" /\ loc'[t].doc = loc[t].doc
      /\ loc'[t].coll = loc[t].coll /\ loc'[t].sha = loc[t].sha
  BY DEF TypeOK, Fail, Become, Frame
<1> QED BY <1>1, <1>2, WorkersFrame
        DEF Sound, OnItsRow, HasPieces, WriteBackPc, IndexPc, Live

LEMMA GotoIsSound ==
  ASSUME TypeOK, FramesMatch, SerialInv, NEW t \in Task, loc[t].pc \in IndexPc,
         NEW p \in IndexPc \ WriteBackPc, Goto(t, p), UNCHANGED docs,
         p \in {"embed", "owner", "fin_read"} => Pieces[loc[t].sha] > 0
  PROVE  Sound(t)'
<1>1. Working(t)
  BY DEF Working, IndexPc, AttemptPc, DocPc
<1>2. /\ loc'[t].pc = p /\ loc'[t].doc = loc[t].doc
      /\ loc'[t].coll = loc[t].coll /\ loc'[t].sha = loc[t].sha
  BY DEF TypeOK, Goto, Become, Frame
<1> QED BY <1>1, <1>2, WorkersFrame
        DEF Sound, OnItsRow, HasPieces, WriteBackPc, IndexPc, Live

LEMMA LoadIsSound ==
  ASSUME TypeOK, FramesMatch, SerialInv, NEW t \in Task, Working(t),
         NEW p \in {"pend_write", "fin_write", "fail_write"},
         Load(t, p, docs[loc[t].doc]), UNCHANGED docs,
         p = "pend_write" => docs[loc[t].doc].status # "pending",
         p # "pend_write" => loc[t].pc \in IndexPc,
         p = "fin_write" => Pieces[loc[t].sha] > 0
  PROVE  Sound(t)'
<1>1. /\ loc'[t].pc = p /\ loc'[t].doc = loc[t].doc
      /\ loc'[t].coll = loc[t].coll /\ loc'[t].sha = loc[t].sha
      /\ loc'[t].seen = docs[loc[t].doc]
  BY DEF TypeOK, Load, Become, Frame
<1> QED BY <1>1, WorkersFrame
        DEF Sound, OnItsRow, HasPieces, WriteBackPc, IndexPc, Live

LEMMA EnterIsSound ==
  ASSUME TypeOK, FramesMatch, SerialInv, NEW t \in Task, Working(t), Enter(t),
         docs'[loc[t].doc] \notin {Unborn, Gone} =>
           /\ docs'[loc[t].doc].status = "pending"
           /\ docs'[loc[t].doc].coll = docs[loc[t].doc].coll
           /\ docs'[loc[t].doc].sha = docs[loc[t].doc].sha
           /\ Live(loc[t].doc)
  PROVE  Sound(t)'
<1>1. /\ loc'[t].pc = "get" /\ loc'[t].doc = loc[t].doc
      /\ loc'[t].coll = loc[t].coll /\ loc'[t].sha = loc[t].sha
  BY DEF TypeOK, Enter, Become, Frame
<1> QED BY <1>1, WorkersFrame
        DEF Sound, OnItsRow, HasPieces, WriteBackPc, IndexPc, Live

LEMMA ExistingIsSound ==
  ASSUME TypeOK, NEW t \in Task, NEW d \in DocId, Existing(t, d), UNCHANGED docs
  PROVE  Sound(t)'
<1>1. /\ loc'[t].doc = d /\ loc'[t].seen = docs[d]
      /\ loc'[t].pc = IF docs[d].status = "failed" THEN "retry" ELSE "dup"
      /\ loc'[t].coll = loc[t].coll /\ loc'[t].sha = loc[t].sha
  BY DEF TypeOK, Existing, Become, Frame
<1>2. docs[d].coll = loc[t].coll /\ docs[d].sha = loc[t].sha
  BY DEF Existing, Holds
<1> QED BY <1>1, <1>2 DEF Sound, OnItsRow, HasPieces, WriteBackPc, IndexPc

LEMMA StepIsSound ==
  ASSUME TypeOK, FramesMatch, SerialInv, NEW t \in Task, Step(t)
  PROVE  Sound(t)'
<1> DEFINE d == loc[t].doc
<1>f. ASSUME Finish(t) PROVE Sound(t)'
  <2>1. loc'[t] = Idle
    BY <1>f DEF TypeOK, Finish, Become
  <2> QED BY <2>1, IdleIsSound
<1>i. loc[t].pc \in IndexPc \cup {"retry", "pend_read", "pend_write"} => Working(t)
  BY DEF Working, AttemptPc, UploadPc, ReindexPc, IndexPc, DocPc
<1>w. ASSUME NEW why \in Failure, Fail(t, why), loc[t].pc \in IndexPc, UNCHANGED docs
      PROVE  Sound(t)'
  BY <1>w, FailIsSound
<1>g. ASSUME NEW p \in IndexPc \ WriteBackPc, Goto(t, p), loc[t].pc \in IndexPc,
             UNCHANGED docs,
             p \in {"embed", "owner", "fin_read"} => Pieces[loc[t].sha] > 0
      PROVE  Sound(t)'
  BY <1>g, GotoIsSound
<1>p. HasPieces(t)
  BY DEF SerialInv
<1>1. CASE CreateCollection(t) \/ DeleteCollection(t) \/ DeleteDocument(t)
           \/ ReplyDuplicate(t)
  BY <1>f, <1>1 DEF CreateCollection, DeleteCollection, DeleteDocument, ReplyDuplicate
<1>2. CASE LookupExisting(t) \/ RereadExisting(t)
  <2>1. ASSUME Goto(t, "insert") PROVE Sound(t)'
    BY <2>1 DEF TypeOK, Goto, Become, Frame, Sound, OnItsRow, HasPieces, Working, DocPc
  <2> QED BY <1>f, <1>2, <2>1, ExistingIsSound DEF LookupExisting, RereadExisting, db
<1>3. CASE InsertDocument(t)
  <2>1. ASSUME Goto(t, "reread") PROVE Sound(t)'
    BY <2>1 DEF TypeOK, Goto, Become, Frame, Sound, OnItsRow, HasPieces, Working, DocPc
  <2>2. ASSUME NEW e \in Fresh(DocId, docs),
               docs' = [docs EXCEPT ![e] = FreshRow(loc[t].coll, loc[t].sha)],
               Become(t, [loc[t] EXCEPT !.pc = "get", !.doc = e])
        PROVE  Sound(t)'
    <3>1. /\ loc'[t].pc = "get" /\ loc'[t].doc = e
          /\ loc'[t].coll = loc[t].coll /\ loc'[t].sha = loc[t].sha
      BY <2>2 DEF TypeOK, Become, Frame
    <3>2. docs'[e] = FreshRow(loc[t].coll, loc[t].sha)
      BY <2>2 DEF TypeOK, Fresh
    <3>3. /\ docs'[e].coll = loc[t].coll /\ docs'[e].sha = loc[t].sha
          /\ docs'[e].status = "pending"
      <4>1. ASSUME NEW c, NEW k
            PROVE  FreshRow(c, k).coll = c /\ FreshRow(c, k).sha = k
                   /\ FreshRow(c, k).status = "pending"
        BY DEF FreshRow
      <4> QED BY <3>2, <4>1
    <3> QED BY <3>1, <3>3 DEF Sound, OnItsRow, HasPieces, WriteBackPc
  <2> QED BY <1>3, <2>1, <2>2 DEF InsertDocument
<1>4. CASE ReadForPending(t)
  <2>1. Working(t) /\ docs' = docs
    BY <1>i, <1>4 DEF ReadForPending, At, db
  <2>2. ASSUME Enter(t), docs[d].status = "pending" PROVE Sound(t)'
    BY <2>1, <2>2, EnterIsSound DEF Live
  <2>3. ASSUME Load(t, "pend_write", docs[d]), docs[d].status # "pending"
        PROVE  Sound(t)'
    BY <2>1, <2>3, LoadIsSound
  <2> QED BY <1>f, <1>4, <2>2, <2>3 DEF ReadForPending
<1>5. CASE WriteReset(t)
  <2>1. Working(t)
    BY <1>i, <1>5 DEF WriteReset, At
  <2>2. ASSUME Live(d), Enter(t),
               docs' = [docs EXCEPT ![d] = Flush(docs[d], loc[t].seen, ResetRow(loc[t].seen))]
        PROVE  Sound(t)'
    <3>1. docs[d] \in Row /\ loc[t].seen = docs[d] /\ d \in DocId
      BY <1>5, <2>1, <2>2, WorkersFrame DEF WriteReset, At, OnItsRow, WriteBackPc
    <3>2. docs'[d] = ResetRow(docs[d])
      BY <2>2, <3>1, WritesOfCurrent DEF TypeOK, Failure
    <3>3. /\ docs'[d].status = "pending"
          /\ docs'[d].coll = docs[d].coll /\ docs'[d].sha = docs[d].sha
      BY <3>1, <3>2 DEF ResetRow, Row
    <3> QED BY <2>1, <2>2, <3>3, EnterIsSound
  <2> QED BY <1>f, <1>5, <2>2 DEF WriteReset
<1>6. CASE GetDocument(t) \/ ReadOwner(t) \/ DropChunks(t)
  <2>1. CASE GetDocument(t)
    BY <1>f, <1>g, <2>1 DEF GetDocument, At, IndexPc, WriteBackPc, db
  <2>2. CASE ReadOwner(t)
    BY <1>f, <1>g, <1>p, <2>2 DEF ReadOwner, At, IndexPc, WriteBackPc, db, HasPieces
  <2>3. CASE DropChunks(t)
    BY <1>g, <2>3 DEF DropChunks, At, IndexPc, WriteBackPc
  <2> QED BY <1>6, <2>1, <2>2, <2>3
<1>7. CASE ReadAndChunk(t)
  BY <1>g, <1>w, <1>7 DEF ReadAndChunk, At, IndexPc, WriteBackPc, db, Failure
<1>8. CASE Embed(t)
  BY <1>g, <1>w, <1>p, <1>8 DEF Embed, At, IndexPc, WriteBackPc, db, Failure, HasPieces
<1>9. CASE ReadToFinish(t) \/ ReadToFail(t)
  <2>1. ASSUME NEW p \in {"fin_write", "fail_write"}, Load(t, p, docs[d]),
               p = "fin_write" => Pieces[loc[t].sha] > 0
        PROVE  Sound(t)'
    <3>1. loc[t].pc \in IndexPc /\ docs' = docs
      BY <1>9 DEF ReadToFinish, ReadToFail, At, IndexPc, db
    <3> QED BY <1>i, <2>1, <3>1, LoadIsSound
  <2> QED BY <1>f, <1>p, <1>9, <2>1 DEF ReadToFinish, ReadToFail, At, HasPieces
<1>10. CASE FinishIndexing(t) \/ MarkFailed(t)
  BY <1>f, <1>w, <1>10 DEF FinishIndexing, MarkFailed, At, IndexPc, Failure
<1> QED BY <1>1, <1>2, <1>3, <1>4, <1>5, <1>6, <1>7, <1>8, <1>9, <1>10 DEF Step

LEMMA ErrorIsSound ==
  ASSUME TypeOK, FramesMatch, SerialInv, NEW t \in Task, DatabaseError(t)
  PROVE  Sound(t)'
<1>1. ASSUME Finish(t) PROVE Sound(t)'
  <2>1. loc'[t] = Idle
    BY <1>1 DEF TypeOK, Finish, Become
  <2> QED BY <2>1, IdleIsSound
<1>2. InTry(t) => loc[t].pc \in IndexPc
  BY DEF InTry, IndexPc, CleanupPc
<1> QED BY <1>1, <1>2, FailIsSound DEF DatabaseError, Failure, db

LEMMA ArriveIsSound ==
  ASSUME TypeOK, NEW t \in Task, Arrive(t)
  PROVE  Sound(t)'
<1> USE DEF TypeOK, Become, Idle, Sound, OnItsRow, HasPieces, Working, AttemptPc,
            DocPc, UploadPc, ReindexPc, IndexPc, WriteBackPc
<1>1. ASSUME NEW k \in CollKey, StartCreateCollection(t, k) PROVE Sound(t)'
  BY <1>1 DEF StartCreateCollection
<1>2. ASSUME NEW c \in CollId, StartDeleteCollection(t, c) PROVE Sound(t)'
  BY <1>2 DEF StartDeleteCollection
<1>3. ASSUME NEW c \in CollId, NEW s \in Sha, StartUpload(t, c, s) PROVE Sound(t)'
  BY <1>3 DEF StartUpload
<1>4. ASSUME NEW d \in DocId, StartReindex(t, d) PROVE Sound(t)'
  BY <1>4 DEF StartReindex, db
<1>5. ASSUME NEW d \in DocId, StartDeleteDocument(t, d) PROVE Sound(t)'
  BY <1>5 DEF StartDeleteDocument
<1> QED BY <1>1, <1>2, <1>3, <1>4, <1>5 DEF Arrive

\* A step of another task leaves what u holds as true as it was: the document
\* is deleted, or nobody else could write it.
LEMMA OthersStaySound ==
  ASSUME TypeOK, FramesMatch, SerialInv, NEW t \in Task, Step(t),
         NEW u \in Task, u # t
  PROVE  Sound(u)'
<1> DEFINE d == loc[u].doc
<1>1. loc'[u] = loc[u]
  BY StepBecomes DEF TypeOK, Become
<1>2. HasPieces(u)'
  BY <1>1 DEF SerialInv, HasPieces
<1>3. ASSUME Working(u), docs'[d] \notin {Unborn, Gone} PROVE docs'[d] = docs[d]
  <2>1. d \in DocId /\ docs[d] # Unborn /\ OnItsRow(u)
    BY <1>3, WorkersFrame
  <2>2. ASSUME Decided(t), loc[t].doc = d PROVE FALSE
    <3>1. Live(d) /\ Working(t)
      BY <2>2 DEF Decided, Requeued, Completed, GivenUp
    <3>2. loc[t].coll = loc[u].coll /\ loc[t].sha = loc[u].sha
      BY <1>3, <2>1, <2>2, <3>1, WorkersFrame DEF OnItsRow
    <3> QED BY <1>3, <3>1, <3>2 DEF SerialInv, OneAttempt, Attempting, Working
  <2> QED BY <1>3, <2>1, <2>2, TaskEffects DEF Same, Removed, Accepted, OnlyOn
<1>4. ASSUME Working(u), docs'[d] = docs[d] PROVE OnItsRow(u)'
  BY <1>1, <1>4, WorkersFrame DEF OnItsRow, Live
<1> QED BY <1>1, <1>2, <1>3, <1>4 DEF Sound, OnItsRow, Working, Live

LEMMA SerialEffects ==
  ASSUME TypeOK, FramesMatch, SerialInv, [Next]_vars, NEW d \in DocId
  PROVE  Same(d) \/ Accepted(d) \/ Requeued(d) \/ Completed(d) \/ GivenUp(d)
         \/ Removed(d)
<1>1. ASSUME UNCHANGED <<docs, chunks>> PROVE Same(d)
  BY <1>1 DEF Same
<1>2. ASSUME Startup PROVE Same(d) \/ GivenUp(d)
  BY <1>2 DEF Startup, Same, GivenUp, Failure
<1>3. CASE Crash \/ UNCHANGED vars
  BY <1>1, <1>3 DEF Crash, db, vars
<1>4. ASSUME NEW t \in Task, Step(t)
      PROVE  Same(d) \/ Accepted(d) \/ Requeued(d) \/ Completed(d) \/ GivenUp(d)
             \/ Removed(d)
  BY <1>4, TaskEffects DEF Decided, OnlyOn
<1> QED BY <1>1, <1>2, <1>3, <1>4, QuietSteps DEF Next

LEMMA WholeStep ==
  ASSUME TypeOK, FramesMatch, SerialInv, [Next]_vars, NEW d \in DocId
  PROVE  Whole(d)'
<1>t. docs[d] \in Row \cup {Unborn, Gone} /\ Whole(d)
  BY DEF TypeOK, SerialInv
<1>r. Live(d) => docs[d] \in Row
  BY <1>t DEF Live
<1>1. CASE Same(d)
  BY <1>1, <1>t DEF Same, Whole, Live
<1>2. CASE Accepted(d)
  <2>1. PICK c \in CollId, s \in Sha : docs'[d] = FreshRow(c, s)
    BY <1>2 DEF Accepted
  <2> DEFINE r == FreshRow(c, s)
  <2>2. r.status = "pending" /\ r.error = "" /\ r.count = 0 /\ ~ r.at
    BY DEF FreshRow
  <2> HIDE DEF r
  <2> QED BY <1>2, <2>1, <2>2 DEF Accepted, Whole, r
<1>3. CASE Requeued(d)
  BY <1>3, <1>r DEF Requeued, Whole, ResetRow, Row
<1>4. CASE Completed(d)
  <2>1. docs[d].sha \in Sha /\ Pieces[docs[d].sha] \in Nat
    BY <1>4, <1>r, PiecesAssumption DEF Completed, Row
  <2>2. docs'[d] \in Row
    BY <1>4, <1>r, <2>1, AssignedRows DEF Completed, Failure
  <2>3. Live(d)'
    BY <2>2, SentinelAssumption DEF Live
  <2> QED BY <1>4, <1>r, <2>1, <2>3 DEF Completed, Whole, IndexedRow, Row
<1>5. CASE GivenUp(d)
  BY <1>5, <1>r DEF GivenUp, Whole, FailedRow, Row, Failure
<1>6. CASE Removed(d)
  BY <1>6 DEF Removed, Whole, Live
<1> QED BY <1>1, <1>2, <1>3, <1>4, <1>5, <1>6, SerialEffects

\* A task's step is no crash and no start.
LEMMA TaskKeepsUp ==
  ASSUME NEW t \in Task, Arrive(t) \/ Step(t) \/ DatabaseError(t)
  PROVE  up' = up
<1>1. CASE Arrive(t) \/ DatabaseError(t)
  BY <1>1 DEF Arrive, StartCreateCollection, StartDeleteCollection, StartUpload,
              StartReindex, StartDeleteDocument, DatabaseError, NoFault
<1>2. CASE Step(t)
  BY <1>2 DEF Step, CreateCollection, DeleteCollection, LookupExisting,
              InsertDocument, RereadExisting, ReplyDuplicate, ReadForPending,
              WriteReset, DeleteDocument, GetDocument, ReadAndChunk, Embed,
              ReadOwner, ReadToFinish, FinishIndexing, DropChunks, ReadToFail,
              MarkFailed, NoFault
<1> QED BY <1>1, <1>2

LEMMA SerialStep ==
  ASSUME Overlap = FALSE, TypeOK, FramesMatch, SerialInv, [Next]_vars
  PROVE  SerialInv'
<1>w. \A d \in DocId : Whole(d)'
  BY WholeStep
<1>k. \A t \in Task : Sound(t)
  BY DEF SerialInv, Sound
<1>1. ASSUME NEW t \in Task, Arrive(t) \/ Step(t) \/ DatabaseError(t)
      PROVE  OneAttempt' /\ (\A u \in Task : Sound(u)') /\ DownIsIdle'
  <2>1. OneAttempt'
    BY <1>1, OneAttemptStep DEF SerialInv
  <2>2. ASSUME UNCHANGED docs, NEW u \in Task, u # t PROVE Sound(u)'
    <3>1. loc'[u] = loc[u]
      BY <1>1, <2>2, StepBecomes DEF TypeOK, Become
    <3> QED BY <1>k, <2>2, <3>1 DEF Sound, OnItsRow, HasPieces, Working, Live
  <2>3. \A u \in Task : Sound(u)'
    BY <1>1, <2>2, ArriveIsSound, StepIsSound, ErrorIsSound, OthersStaySound,
       QuietSteps
  <2>4. up
    BY <1>1, StepIsServed
       DEF Arrive, StartCreateCollection, StartDeleteCollection, StartUpload,
           StartReindex, StartDeleteDocument, DatabaseError, At
  <2>5. up' = up
    BY <1>1, TaskKeepsUp
  <2> QED BY <2>1, <2>3, <2>4, <2>5 DEF DownIsIdle
<1>2. CASE Crash
  <2>1. \A t \in Task : loc'[t] = Idle
    BY <1>2 DEF Crash
  <2>2. OneAttempt' /\ DownIsIdle'
    BY <2>1 DEF OneAttempt, DownIsIdle, Attempting, Idle, AttemptPc, UploadPc,
                ReindexPc, IndexPc
  <2> QED BY <1>w, <2>1, <2>2, IdleIsSound DEF SerialInv, Sound
<1>3. CASE Startup
  <2>1. \A t \in Task : loc'[t] = Idle
    BY <1>3 DEF Startup, SerialInv, DownIsIdle
  <2>2. OneAttempt' /\ DownIsIdle'
    BY <2>1 DEF OneAttempt, DownIsIdle, Attempting, Idle, AttemptPc, UploadPc,
                ReindexPc, IndexPc
  <2> QED BY <1>w, <2>1, <2>2, IdleIsSound DEF SerialInv, Sound
<1>4. CASE UNCHANGED vars
  BY <1>4 DEF vars, SerialInv, OneAttempt, Attempting, Working, OnItsRow, HasPieces,
              Whole, DownIsIdle, Live
<1> QED BY <1>w, <1>1, <1>2, <1>3, <1>4 DEF Next, SerialInv, Sound

LEMMA SerialInit == Init => SerialInv
<1> SUFFICES ASSUME Init PROVE SerialInv
  OBVIOUS
<1>1. \A t \in Task : loc[t] = Idle
  BY DEF Init
<1>2. Idle.pc \notin AttemptPc
  BY DEF Idle, AttemptPc, UploadPc, ReindexPc, IndexPc
<1>3. OneAttempt /\ DownIsIdle /\ \A t \in Task : OnItsRow(t)
  BY <1>1, <1>2 DEF OneAttempt, DownIsIdle, OnItsRow, Attempting, Working
<1>4. \A t \in Task : HasPieces(t)
  BY <1>1 DEF HasPieces, Idle
<1>5. \A d \in DocId : Whole(d)
  BY DEF Init, Whole, Live
<1> QED BY <1>3, <1>4, <1>5 DEF SerialInv

-----------------------------------------------------------------------------
\* While callers do not overlap attempts on one document, every task works on
\* the row as it read it and every document agrees with its chunks, wherever
\* deletes, database errors and crashes fall.
THEOREM SerialIsInvariant ==
  ASSUME Overlap = FALSE
  PROVE  Spec => []SerialInv
<1>1. TypeOK /\ FramesMatch /\ SerialInv /\ [Next]_vars => SerialInv'
  BY SerialStep
<1> QED BY <1>1, SerialInit, TypeCorrect, FramesStayMatched, PTL DEF Spec

\* The invariant that lets a search not filter by status.
THEOREM SearchesSeeIndexedOnly ==
  ASSUME Overlap = FALSE
  PROVE  Spec => []ChunksOnlyForIndexed
<1>1. ASSUME TypeOK, SerialInv, NEW d \in DocId, chunks[d] > 0
      PROVE  Live(d) /\ docs[d].status = "indexed"
  <2>1. Whole(d) /\ chunks[d] \in Nat
    BY <1>1 DEF SerialInv, TypeOK
  <2>2. chunks[d] # 0
    BY <1>1, <2>1
  <2> QED BY <2>1, <2>2 DEF Whole
<1>2. TypeOK /\ SerialInv => ChunksOnlyForIndexed
  BY <1>1 DEF ChunksOnlyForIndexed
<1> QED BY <1>2, SerialIsInvariant, TypeCorrect, PTL

\* A document that says it is indexed is all there, and counts its pieces.
THEOREM IndexedMeansWhole ==
  ASSUME Overlap = FALSE
  PROVE  Spec => []IndexedIsComplete
<1>1. SerialInv => IndexedIsComplete
  BY DEF SerialInv, Whole, IndexedIsComplete
<1> QED BY <1>1, SerialIsInvariant, PTL

\* The columns of a document that is whole agree.
LEMMA WholeIsCoherent ==
  ASSUME TypeOK, \A d \in DocId : Whole(d)
  PROVE  RowCoherent
<1>1. ASSUME NEW d \in DocId, Live(d)
      PROVE  /\ (docs[d].error # "") <=> (docs[d].status = "failed")
             /\ (docs[d].count > 0) <=> (docs[d].status = "indexed")
             /\ docs[d].at <=> (docs[d].status = "indexed")
  <2>1. docs[d].status \in Status /\ docs[d].count \in Nat
    BY <1>1 DEF TypeOK, Live, Row
  <2>2. Whole(d)
    OBVIOUS
  <2>3. CASE docs[d].status = "indexed"
    <3>1. docs[d].error = "" /\ docs[d].count > 0
      BY <1>1, <2>2, <2>3 DEF Whole
    <3>2. docs[d].at
      BY <1>1, <2>2, <2>3 DEF Whole
    <3> QED BY <2>3, <3>1, <3>2
  <2>4. CASE docs[d].status # "indexed"
    <3>1. docs[d].count = 0 /\ (docs[d].error = "" <=> docs[d].status = "pending")
      BY <1>1, <2>2, <2>4 DEF Whole
    <3>2. ~ docs[d].at
      BY <1>1, <2>2, <2>4 DEF Whole
    <3>3. ~ (docs[d].count > 0)
      <4>1. \A n \in Nat : n = 0 => ~ (n > 0)
        OBVIOUS
      <4> QED BY <2>1, <3>1, <4>1, Zenon
    <3>4. (docs[d].error # "") <=> (docs[d].status = "failed")
      BY <2>1, <2>4, <3>1 DEF Status
    <3> QED BY <2>4, <3>2, <3>3, <3>4
  <2> QED BY <2>3, <2>4
<1> QED BY <1>1 DEF RowCoherent

\* What GET /v1/documents/{id} returns does not contradict itself.
THEOREM RowsStayCoherent ==
  ASSUME Overlap = FALSE
  PROVE  Spec => []RowCoherent
<1>1. TypeOK /\ SerialInv => RowCoherent
  BY WholeIsCoherent DEF SerialInv
<1> QED BY <1>1, SerialIsInvariant, TypeCorrect, PTL

-----------------------------------------------------------------------------
(* The refinement of KbPromise.                                            *)

\* What the promise sees of a document.
LifeOf(d)    == IF docs[d] = Unborn THEN "none"
                ELSE IF docs[d] = Gone THEN "gone" ELSE docs[d].status
ContentOf(d) == IF Live(d) THEN Pieces[docs[d].sha] ELSE 0
ShownOf(d)   == IF Live(d) THEN chunks[d] ELSE 0

LEMMA SameIsUnseen ==
  ASSUME NEW d \in DocId, Same(d)
  PROVE  LifeOf(d)' = LifeOf(d) /\ ContentOf(d)' = ContentOf(d) /\ ShownOf(d)' = ShownOf(d)
BY DEF Same, LifeOf, ContentOf, ShownOf, Live

\* A row is not one of the marks for a document that is not there.
LEMMA RowsAreLive ==
  ASSUME NEW d \in DocId, docs'[d] \in Row
  PROVE  /\ LifeOf(d)' = docs'[d].status
         /\ ContentOf(d)' = Pieces[docs'[d].sha]
         /\ ShownOf(d)' = chunks'[d]
BY SentinelAssumption DEF LifeOf, ContentOf, ShownOf, Live

LEMMA AcceptSeen ==
  ASSUME TypeOK, NEW d \in DocId, Accepted(d)
  PROVE  /\ LifeOf(d) = "none" /\ LifeOf(d)' = "pending"
         /\ ContentOf(d)' \in {Pieces[s] : s \in Sha}
         /\ ShownOf(d)' = ShownOf(d)
<1>1. PICK c \in CollId, s \in Sha : docs'[d] = FreshRow(c, s)
  BY DEF Accepted
<1>2. /\ FreshRow(c, s) \in Row
      /\ FreshRow(c, s).status = "pending" /\ FreshRow(c, s).sha = s
  BY FreshRows DEF FreshRow
<1>3. LifeOf(d) = "none" /\ ShownOf(d) = 0
  BY DEF Accepted, LifeOf, ShownOf, Live
<1>4. docs'[d] \in Row /\ docs'[d].status = "pending" /\ docs'[d].sha = s
  BY <1>1, <1>2
<1> QED BY <1>3, <1>4, RowsAreLive DEF Accepted

\* The three ways a document is decided, as the promise sees them.
LEMMA DecisionSeen ==
  ASSUME TypeOK, NEW d \in DocId, Whole(d),
         Requeued(d) \/ Completed(d) \/ GivenUp(d)
  PROVE  /\ LifeOf(d) = docs[d].status /\ docs[d].status \in Status
         /\ ContentOf(d)' = ContentOf(d)
         /\ Requeued(d)  => LifeOf(d)' = "pending" /\ ShownOf(d)' = 0
         /\ Completed(d) => /\ LifeOf(d)' = "indexed" /\ ContentOf(d) > 0
                            /\ ShownOf(d)' = ContentOf(d)
         /\ GivenUp(d)   => LifeOf(d)' = "failed" /\ ShownOf(d)' = ShownOf(d)
<1>1. Live(d) /\ docs[d] \in Row /\ Whole(d) /\ chunks[d] \in Nat
  BY DEF Requeued, Completed, GivenUp, TypeOK, Live
<1>2. /\ LifeOf(d) = docs[d].status /\ docs[d].status \in Status
      /\ ContentOf(d) = Pieces[docs[d].sha] /\ ShownOf(d) = chunks[d]
  BY <1>1 DEF LifeOf, ContentOf, ShownOf, Live, Row
<1>3. Pieces[docs[d].sha] \in Nat
  BY <1>1, PiecesAssumption DEF Row
<1>4. ASSUME Requeued(d)
      PROVE  docs'[d] \in Row /\ docs'[d].status = "pending" /\ docs'[d].sha = docs[d].sha
  BY <1>1, <1>4, AssignedRows DEF Requeued, ResetRow, Row, Failure
<1>5. ASSUME Completed(d)
      PROVE  docs'[d] \in Row /\ docs'[d].status = "indexed" /\ docs'[d].sha = docs[d].sha
  <2>1. IndexedRow(docs[d], Pieces[docs[d].sha]) \in Row
    BY <1>1, <1>3, AssignedRows DEF Failure
  <2> QED BY <1>1, <1>5, <2>1 DEF Completed, IndexedRow, Row
<1>6. ASSUME GivenUp(d)
      PROVE  docs'[d] \in Row /\ docs'[d].status = "failed" /\ docs'[d].sha = docs[d].sha
  <2>1. PICK why \in Failure : docs'[d] = FailedRow(docs[d], why)
    BY <1>6 DEF GivenUp
  <2>2. FailedRow(docs[d], why) \in Row
    BY <1>1, AssignedRows
  <2> QED BY <1>1, <2>1, <2>2 DEF FailedRow, Row
<1>7. CASE Requeued(d)
  BY <1>1, <1>2, <1>4, <1>7, RowsAreLive DEF Requeued, Completed, GivenUp
<1>8. CASE Completed(d)
  <2>1. ~ Requeued(d) /\ ~ GivenUp(d)
    <3>1. \A why \in Failure : FailedRow(docs[d], why).status # "indexed"
      BY <1>1 DEF FailedRow, Row
    <3> QED BY <1>5, <1>8, <3>1 DEF Requeued, Completed, GivenUp
  <2> QED BY <1>1, <1>2, <1>5, <1>8, <2>1, RowsAreLive DEF Completed
<1>9. CASE GivenUp(d)
  <2>1. ~ Requeued(d) /\ ~ Completed(d)
    BY <1>5, <1>6, <1>9 DEF Requeued, GivenUp
  <2>2. chunks[d] = 0
    BY <1>1, <1>9 DEF GivenUp, Whole
  <2> QED BY <1>1, <1>2, <1>6, <1>9, <2>1, <2>2, RowsAreLive DEF GivenUp
<1> QED BY <1>7, <1>8, <1>9

LEMMA RemovalSeen ==
  ASSUME TypeOK, NEW d \in DocId, Removed(d)
  PROVE  /\ LifeOf(d) \in Status /\ LifeOf(d)' = "gone"
         /\ ContentOf(d)' = 0 /\ ShownOf(d)' = 0
BY SentinelAssumption DEF TypeOK, Removed, LifeOf, ContentOf, ShownOf, Live, Row

\* What is done to the documents in one step, whoever does it.
Undecided(d) == Live(d) /\ docs[d].status = "pending"
OneStep ==
  \/ \A d \in DocId : Same(d)
  \/ \A d \in DocId : Same(d) \/ Removed(d)
  \/ \E d \in DocId : Accepted(d) /\ OnlyOn(d)
  \/ \E d \in DocId : (Requeued(d) \/ Completed(d) \/ GivenUp(d)) /\ OnlyOn(d)
  \/ \A d \in DocId : IF Undecided(d) THEN GivenUp(d) ELSE Same(d)

\* Any of it is a step of the promise, or changes nothing of it.
LEMMA PromiseOfEffects ==
  ASSUME TypeOK, \A d \in DocId : Whole(d), OneStep
  PROVE  [Promise!PNext]_(Promise!pvars)
<1> DEFINE life    == [d \in DocId |-> LifeOf(d)]
           content == [d \in DocId |-> ContentOf(d)]
           shown   == [d \in DocId |-> ShownOf(d)]
           Sizes   == {Pieces[s] : s \in Sha}
<1>1. ASSUME \A d \in DocId : Same(d)
      PROVE  UNCHANGED <<life, content, shown>>
  BY <1>1, SameIsUnseen
<1>o. ASSUME NEW d \in DocId, OnlyOn(d)
      PROVE  /\ life' = [life EXCEPT ![d] = LifeOf(d)']
             /\ content' = [content EXCEPT ![d] = ContentOf(d)']
             /\ shown' = [shown EXCEPT ![d] = ShownOf(d)']
  BY <1>o, SameIsUnseen DEF OnlyOn
<1>2. ASSUME NEW d \in DocId, Accepted(d), OnlyOn(d)
      PROVE  Promise!Accept(d)
  <2>1. /\ life[d] = "none"
        /\ life' = [life EXCEPT ![d] = "pending"]
        /\ \E n \in Sizes : content' = [content EXCEPT ![d] = n]
        /\ UNCHANGED shown
    BY <1>2, <1>o, AcceptSeen
  <2> QED BY <2>1 DEF Promise!Accept, LifeOf, ContentOf, ShownOf
<1>3. ASSUME NEW d \in DocId, OnlyOn(d), Requeued(d) \/ Completed(d) \/ GivenUp(d)
      PROVE  Promise!Requeue(d) \/ Promise!Complete(d) \/ Promise!GiveUp(d)
  <2>1. content' = content
    BY <1>3, <1>o, DecisionSeen
  <2>2. ASSUME Requeued(d) PROVE Promise!Requeue(d)
    <3>1. /\ life[d] \in {"indexed", "failed"}
          /\ life' = [life EXCEPT ![d] = "pending"]
          /\ shown' = [shown EXCEPT ![d] = 0]
      BY <1>3, <1>o, <2>2, DecisionSeen DEF Requeued, Status
    <3> QED BY <2>1, <3>1 DEF Promise!Requeue, LifeOf, ContentOf, ShownOf
  <2>3. ASSUME Completed(d) PROVE Promise!Complete(d)
    <3>1. /\ life[d] = "pending" /\ content[d] > 0
          /\ life' = [life EXCEPT ![d] = "indexed"]
          /\ shown' = [shown EXCEPT ![d] = content[d]]
      BY <1>3, <1>o, <2>3, DecisionSeen DEF Completed
    <3> QED BY <2>1, <3>1 DEF Promise!Complete, LifeOf, ContentOf, ShownOf
  <2>4. ASSUME GivenUp(d) PROVE Promise!GiveUp(d)
    <3>1. /\ life[d] = "pending"
          /\ life' = [life EXCEPT ![d] = "failed"]
          /\ UNCHANGED shown
      BY <1>3, <1>o, <2>4, DecisionSeen DEF GivenUp
    <3> QED BY <2>1, <3>1 DEF Promise!GiveUp, LifeOf, ContentOf, ShownOf
  <2> QED BY <1>3, <2>2, <2>3, <2>4
<1>4. ASSUME \A d \in DocId : Same(d) \/ Removed(d)
      PROVE  \E D \in SUBSET DocId : Promise!Remove(D)
  <2>1. PICK D \in SUBSET DocId : D = {d \in DocId : Removed(d)}
    OBVIOUS
  <2>2. /\ \A d \in D : life[d] \in {"pending", "indexed", "failed"}
        /\ life' = [d \in DocId |-> IF d \in D THEN "gone" ELSE life[d]]
        /\ content' = [d \in DocId |-> IF d \in D THEN 0 ELSE content[d]]
        /\ shown' = [d \in DocId |-> IF d \in D THEN 0 ELSE shown[d]]
    BY <1>4, <2>1, SameIsUnseen, RemovalSeen DEF Status
  <2>3. Promise!Remove(D)
    BY <2>2 DEF Promise!Remove, LifeOf, ContentOf, ShownOf
  <2> QED BY <2>3
<1>5. ASSUME \A d \in DocId : IF Undecided(d) THEN GivenUp(d) ELSE Same(d)
      PROVE  Promise!Restart
  <2>1. \A d \in DocId :
          /\ LifeOf(d)' = IF LifeOf(d) = "pending" THEN "failed" ELSE LifeOf(d)
          /\ ContentOf(d)' = ContentOf(d) /\ ShownOf(d)' = ShownOf(d)
    <3> SUFFICES ASSUME NEW d \in DocId
                 PROVE  /\ LifeOf(d)' = IF LifeOf(d) = "pending" THEN "failed"
                                                                ELSE LifeOf(d)
                        /\ ContentOf(d)' = ContentOf(d)
                        /\ ShownOf(d)' = ShownOf(d)
      OBVIOUS
    <3>1. CASE Undecided(d)
      BY <1>5, <3>1, DecisionSeen DEF Undecided
    <3>2. CASE ~ Undecided(d)
      <4>1. LifeOf(d) # "pending"
        BY <3>2 DEF Undecided, LifeOf, Live
      <4> QED BY <1>5, <3>2, <4>1, SameIsUnseen
    <3> QED BY <3>1, <3>2
  <2>2. /\ life' = [d \in DocId |-> IF life[d] = "pending" THEN "failed" ELSE life[d]]
        /\ UNCHANGED <<content, shown>>
    BY <2>1
  <2> QED BY <2>2 DEF Promise!Restart, LifeOf, ContentOf, ShownOf
<1>7. ASSUME \A d \in DocId : Same(d) PROVE UNCHANGED Promise!pvars
  BY <1>1, <1>7 DEF Promise!pvars, LifeOf, ContentOf, ShownOf
<1> HIDE DEF life, content, shown, Sizes
<1> QED BY <1>2, <1>3, <1>4, <1>5, <1>7 DEF OneStep, Promise!PNext

\* Every step of the service is one of these.
LEMMA PromiseStep ==
  ASSUME TypeOK, FramesMatch, SerialInv, [Next]_vars
  PROVE  [Promise!PNext]_(Promise!pvars)
<1>w. \A d \in DocId : Whole(d)
  BY DEF SerialInv
<1>1. UNCHANGED <<docs, chunks>> => OneStep
  BY DEF Same, OneStep
<1>2. ASSUME NEW t \in Task, Step(t) PROVE OneStep
  <2>1. Decided(t) => loc[t].doc \in DocId
    BY WorkersFrame DEF Decided
  <2> QED BY <1>2, <2>1, TaskEffects DEF Decided, OneStep
<1>3. ASSUME Startup PROVE OneStep
  <2>1. ASSUME NEW d \in DocId, Undecided(d) PROVE GivenUp(d)
    BY <1>3, <2>1 DEF Undecided, Startup, GivenUp, Failure
  <2>2. ASSUME NEW d \in DocId, ~ Undecided(d) PROVE Same(d)
    BY <1>3, <2>2 DEF Undecided, Startup, Same
  <2> QED BY <2>1, <2>2 DEF OneStep
<1>4. Crash \/ UNCHANGED vars => OneStep
  BY <1>1 DEF Crash, db, vars
<1>5. OneStep
  BY <1>1, <1>2, <1>3, <1>4, QuietSteps DEF Next
<1> QED BY <1>w, <1>5, PromiseOfEffects

\* While callers do not overlap attempts on one document, the service with its
\* awaits, retries, sweeps and two-transaction failures implements the promise:
\* each document is accepted, decided, requeued and removed in one step each,
\* and is searchable exactly while it is indexed.
THEOREM ServiceKeepsPromise ==
  ASSUME Overlap = FALSE
  PROVE  Spec => KeepsPromise
<1>1. Init => Promise!PInit
  BY SentinelAssumption DEF Init, Promise!PInit, Live
<1>2. TypeOK /\ FramesMatch /\ SerialInv /\ [Next]_vars
        => [Promise!PNext]_(Promise!pvars)
  BY PromiseStep
<1> QED BY <1>1, <1>2, TypeCorrect, FramesStayMatched, SerialIsInvariant, PTL
        DEF Spec, KeepsPromise, Promise!PSpec

=============================================================================
