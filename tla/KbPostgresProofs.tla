--------------------------- MODULE KbPostgresProofs ---------------------------
(***************************************************************************)
(* Theorems about the service over Postgres, for any number of tasks,      *)
(* documents, errors, crashes and processes that join.                     *)
(***************************************************************************)
EXTENDS KbPostgres, KbSerialProofs, FiniteSetTheorems

CopiesOf(d) == {k \in Copy : copies[k] = d}

-----------------------------------------------------------------------------
(* Transactions, under any overlap.                                        *)

\* What a transaction holds fits its stage, and what two hold is apart.
StageFits(x) ==
  /\ tx[x].stage # "wait" => tx[x].want = {}
  /\ tx[x].put # None <=> tx[x].stage = "put"
  /\ tx[x].stage \notin {"take", "gone", "held"} => tx[x].rows = {}
  /\ tx[x].stage # "take" => tx[x].todo = {}
  /\ tx[x].stage = "put" => x # Other /\ loc[x].pc = "fin_write" /\ Live(loc[x].doc)
  /\ tx[x].stage = "take" => Deletes(x) \/ x = Other
  /\ tx[x].stage \in {"gone", "held"} => x # Other /\ loc[x].pc = "c_drop"
  /\ x = Other => \A d \in tx[x].rows : docs[d].status = "pending"

PgShape ==
  /\ TypeOK /\ PgTypeOK
  /\ IsFiniteSet({k \in Copy : copies[k] # None})
  /\ \A x \in Tx : StageFits(x)
  /\ \A x, y \in Tx : x # y =>
       /\ tx[x].put = None \/ tx[x].put # tx[y].put
       /\ tx[x].put = None \/ tx[x].put \notin tx[y].want
       /\ tx[x].put = None \/ y = Other \/ loc[x].doc \notin tx[y].rows
       /\ tx[x].rows \cap tx[y].rows = {}
  /\ tx[Other].stage # "none" => up /\ joined > 0


\* The number of copies of a document is a number.
LEMMA CountedCopies ==
  ASSUME NEW f \in [Copy -> DocId \cup {None}],
         IsFiniteSet({k \in Copy : f[k] # None}), NEW d \in DocId
  PROVE  Cardinality({k \in Copy : f[k] = d}) \in Nat
<1>1. {k \in Copy : f[k] = d} \subseteq {k \in Copy : f[k] # None}
  BY SentinelAssumption
<1> QED BY <1>1, FS_Subset, FS_CardinalityType

\* The locals a transaction of a task reads.
LEMMA WritersFrame ==
  ASSUME TypeOK, NEW t \in Task, loc[t].pc \in WritePc
  PROVE  /\ loc[t].pc # "c_drop" => loc[t].doc \in DocId
         /\ loc[t].pc = "c_drop" => loc[t].coll \in CollId
         /\ loc[t].pc \in {"retry", "pend_write", "fin_write", "fail_write"}
              => loc[t].seen \in Row
         /\ loc[t].pc \notin {"del_write", "c_drop"}
              => loc[t].coll \in CollId /\ loc[t].sha \in Sha /\ Pieces[loc[t].sha] \in Nat
         /\ loc[t].pc \in {"drop", "fail_write"} => loc[t].why \in Failure
<1>1. FrameOK(loc[t]) /\ loc[t] \in Frame
  BY DEF TypeOK
<1> QED BY <1>1, PiecesAssumption
        DEF FrameOK, WritePc, AttemptPc, UploadPc, ReindexPc, IndexPc, DocPc,
            WriteBackPc, CleanupPc

\* A transaction is about documents.
LEMMA TargetsAreDocuments ==
  ASSUME TypeOK, NEW x \in Tx, x # Other => loc[x].pc \in WritePc
  PROVE  Targets(x) \subseteq DocId
<1>1. CASE x = Other
  BY <1>1 DEF Targets, Doing
<1>2. CASE x # Other
  <2>1. x \in Task /\ loc[x].pc \in WritePc
    BY <1>2 DEF Tx
  <2> QED BY <1>2, <2>1, WritersFrame DEF Targets, Doing, WritePc
<1> QED BY <1>1, <1>2

LEMMA ShapeTypes ==
  ASSUME PgShape
  PROVE  /\ copies \in [Copy -> DocId \cup {None}]
         /\ tx \in [Tx -> Transaction]
         /\ docs \in [DocId -> Row \cup {Unborn, Gone}]
         /\ loc \in [Task -> Frame]
         /\ up \in BOOLEAN
BY DEF PgShape, PgTypeOK, TypeOK

\* What holds of one transaction, and of two.
OneTx(x) ==
  /\ StageFits(x)
  /\ tx[x].stage = "none" => tx[x] = NoTx
  /\ tx[x].stage # "none" /\ x # Other => up /\ loc[x].pc \in WritePc
  /\ tx[x].put # None => copies[tx[x].put] = None
  /\ \A k \in tx[x].cut : copies[k] # None
  /\ \A d \in tx[x].rows : Live(d)

Apart(x, y) ==
  /\ tx[x].cut \cap tx[y].cut = {}
  /\ tx[x].put = None \/ tx[x].put # tx[y].put
  /\ tx[x].put = None \/ tx[x].put \notin tx[y].want
  /\ tx[x].put = None \/ y = Other \/ loc[x].doc \notin tx[y].rows
  /\ tx[x].rows \cap tx[y].rows = {}

LEMMA ShapeParts ==
  ASSUME PgShape
  PROVE  /\ \A x \in Tx : OneTx(x)
         /\ \A x, y \in Tx : x # y => Apart(x, y)
<1>1. ASSUME NEW x \in Tx PROVE OneTx(x)
  BY DEF PgShape, PgTypeOK, OneTx
<1>2. ASSUME NEW x \in Tx, NEW y \in Tx, x # y PROVE Apart(x, y)
  <2>1. tx[x].cut \cap tx[y].cut = {}
    BY <1>2 DEF PgShape, PgTypeOK, Locked
  <2> QED BY <1>2, <2>1 DEF PgShape, Apart
<1> QED BY <1>1, <1>2

LEMMA PartsShape ==
  ASSUME (\A x \in Tx : OneTx(x))',
         (\A x, y \in Tx : x # y => Apart(x, y))',
         TypeOK', copies' \in [Copy -> DocId \cup {None}],
         tx' \in [Tx -> Transaction], joined' \in 0 .. MaxJoins,
         IsFiniteSet({k \in Copy : copies'[k] # None}),
         tx'[Other].stage # "none" => up' /\ joined' > 0
  PROVE  PgShape'
<1>1. ASSUME NEW x \in Tx, NEW k \in tx'[x].cut PROVE k \notin Locked(x)'
  BY <1>1 DEF Locked, Apart
<1>2. PgTypeOK'
  BY <1>1 DEF PgTypeOK, OneTx
<1> QED BY <1>2 DEF PgShape, OneTx, Apart

\* The rows a transaction has locked do not change, and the document its chunks
\* refer to stays.
KeepsDocuments(x) ==
  /\ \A d \in tx[x].rows : docs'[d] = docs[d]
  /\ tx[x].put # None => docs'[loc[x].doc] \notin {Unborn, Gone}

\* A transaction ends: what it held is free, and what the others hold stays.
LEMMA ShapeAfterEnd ==
  ASSUME PgShape, NEW x \in Tx, tx' = [tx EXCEPT ![x] = NoTx], TypeOK',
         UNCHANGED <<up, joined>>,
         \A u \in Task \ {x} : loc'[u] = loc[u],
         copies' \in [Copy -> DocId \cup {None}],
         \A k \in Copy : \/ copies'[k] = copies[k]
                         \/ k \in tx[x].cut \/ k = tx[x].put,
         IsFiniteSet({k \in Copy : copies'[k] # None}),
         \A y \in Tx \ {x} : KeepsDocuments(y)
  PROVE  PgShape'
<1>t. /\ tx \in [Tx -> Transaction] /\ Other \in Tx
      /\ joined \in 0 .. MaxJoins
  BY DEF PgShape, PgTypeOK, Tx
<1>n. NoTx \in Transaction
  BY DEF NoTx, Transaction
<1>p. \A y \in Tx : OneTx(y) /\ \A z \in Tx : y # z => Apart(y, z)
  BY ShapeParts
<1>1. /\ tx'[x] = NoTx /\ tx' \in [Tx -> Transaction]
      /\ \A y \in Tx \ {x} : tx'[y] = tx[y]
  BY <1>t, <1>n
<1>2. /\ NoTx.stage = "none" /\ NoTx.cut = {} /\ NoTx.want = {} /\ NoTx.put = None
      /\ NoTx.rows = {} /\ NoTx.todo = {}
  BY DEF NoTx
<1>3. OneTx(x)'
  BY <1>1, <1>2 DEF OneTx, StageFits
<1>4. ASSUME NEW y \in Tx, y # x PROVE OneTx(y)'
  <2>1. OneTx(y) /\ Apart(x, y) /\ tx'[y] = tx[y] /\ tx[y] \in Transaction
    BY <1>p, <1>1, <1>4, <1>t
  <2>2. y # Other => loc'[y] = loc[y]
    BY <1>4 DEF Tx
  <2>3. \A k \in tx[y].cut : copies'[k] = copies[k]
    <3>1. ASSUME NEW k \in tx[y].cut PROVE copies'[k] = copies[k]
      <4>1. k \in Copy /\ copies[k] # None /\ k \notin tx[x].cut
        BY <2>1 DEF OneTx, Apart, Transaction
      <4>2. k # tx[x].put
        BY <1>p, <4>1, CopyAssumption DEF OneTx
      <4> QED BY <4>1, <4>2
    <3> QED BY <3>1
  <2>4. tx[y].put # None => copies'[tx[y].put] = None
    <3>1. ASSUME tx[y].put # None PROVE copies'[tx[y].put] = None
      <4>1. tx[y].put \in Copy /\ copies[tx[y].put] = None /\ tx[y].put # tx[x].put
        BY <2>1, <3>1 DEF OneTx, Apart, Transaction
      <4>2. tx[y].put \notin tx[x].cut
        BY <1>p, <4>1 DEF OneTx
      <4> QED BY <4>1, <4>2
    <3> QED BY <3>1
  <2>5. \A d \in tx[y].rows : docs'[d] = docs[d]
    BY <1>4 DEF KeepsDocuments
  <2>6. StageFits(y)'
    BY <1>4, <2>1, <2>2, <2>5
       DEF OneTx, StageFits, KeepsDocuments, Live, Deletes, Doing
  <2> QED BY <2>1, <2>2, <2>3, <2>4, <2>5, <2>6 DEF OneTx, Live
<1>5. ASSUME NEW y \in Tx, NEW z \in Tx, y # z PROVE Apart(y, z)'
  <2>1. tx[y].put # None => y \in Task
    BY <1>p DEF OneTx, StageFits, Tx
  <2> QED BY <1>5, <1>1, <1>2, <1>p, <2>1 DEF Apart
<1>6. tx'[Other].stage # "none" => up' /\ joined' > 0
  BY <1>1, <1>2, <1>t DEF PgShape
<1> QED BY <1>1, <1>3, <1>4, <1>5, <1>6, <1>t, PartsShape

\* What x may hold as r, by itself and beside the others.
FitsAs(x, r) ==
  /\ r.stage # "none"
  /\ r.stage # "wait" => r.want = {}
  /\ r.put # None <=> r.stage = "put"
  /\ r.stage \notin {"take", "gone", "held"} => r.rows = {}
  /\ r.stage # "take" => r.todo = {}
  /\ r.stage = "put" => x # Other /\ loc[x].pc = "fin_write" /\ Live(loc[x].doc)
  /\ r.stage = "take" => Deletes(x) \/ x = Other
  /\ r.stage \in {"gone", "held"} => x # Other /\ loc[x].pc = "c_drop"
  /\ r.put # None => copies[r.put] = None
  /\ \A k \in r.cut : copies[k] # None
  /\ \A d \in r.rows : Live(d) /\ (x = Other => docs[d].status = "pending")

ApartAs(x, r, y) ==
  /\ r.cut \cap tx[y].cut = {}
  /\ r.put = None \/ r.put # tx[y].put
  /\ r.put = None \/ r.put \notin tx[y].want
  /\ tx[y].put = None \/ tx[y].put \notin r.want
  /\ r.put = None \/ y = Other \/ loc[x].doc \notin tx[y].rows
  /\ tx[y].put = None \/ x = Other \/ loc[y].doc \notin r.rows
  /\ r.rows \cap tx[y].rows = {}

\* A transaction runs a statement that commits nothing.
LEMMA ShapeAfterStatement ==
  ASSUME PgShape, NEW x \in Tx, NEW r \in Transaction, tx' = [tx EXCEPT ![x] = r],
         TypeOK', UNCHANGED <<copies, docs, loc, up>>, up,
         joined' \in 0 .. MaxJoins, x = Other => joined' > 0, joined' >= joined,
         x # Other => loc[x].pc \in WritePc,
         FitsAs(x, r), \A y \in Tx \ {x} : ApartAs(x, r, y)
  PROVE  PgShape'
<1>t. /\ tx \in [Tx -> Transaction] /\ copies \in [Copy -> DocId \cup {None}]
      /\ IsFiniteSet({k \in Copy : copies[k] # None}) /\ joined \in Int
  BY DEF PgShape, PgTypeOK
<1>p. \A y \in Tx : OneTx(y) /\ \A z \in Tx : y # z => Apart(y, z)
  BY ShapeParts
<1>1. /\ tx'[x] = r /\ tx' \in [Tx -> Transaction]
      /\ \A y \in Tx \ {x} : tx'[y] = tx[y]
  BY <1>t
<1>2. OneTx(x)'
  BY <1>1 DEF OneTx, StageFits, Live, Deletes, Doing, FitsAs
<1>3. ASSUME NEW y \in Tx, y # x PROVE OneTx(y)'
  BY <1>1, <1>3, <1>p DEF OneTx, StageFits, Live, Deletes, Doing
<1>4. ASSUME NEW y \in Tx, NEW z \in Tx, y # z PROVE Apart(y, z)'
  BY <1>4, <1>1, <1>p DEF Apart, ApartAs
<1>5. tx'[Other].stage # "none" => up' /\ joined' > 0
  <2>1. CASE x = Other
    BY <2>1
  <2>2. CASE x # Other
    <3>1. tx'[Other] = tx[Other]
      BY <1>1, <2>2 DEF Tx
    <3>2. tx[Other].stage # "none" => joined > 0
      BY DEF PgShape
    <3>3. joined > 0 => joined' > 0
      BY <1>t
    <3> QED BY <3>1, <3>2, <3>3
  <2> QED BY <2>1, <2>2
<1> QED BY <1>1, <1>2, <1>3, <1>4, <1>5, <1>t, PartsShape

\* A task that is in no transaction moves.
LEMMA ShapeAfterRead ==
  ASSUME PgShape, NEW t \in Task, tx[t].stage = "none", TypeOK',
         UNCHANGED <<copies, tx, up, joined>>,
         \A u \in Task \ {t} : loc'[u] = loc[u],
         \A d \in DocId : Live(d) => docs'[d] = docs[d]
  PROVE  PgShape'
<1>t. t \in Tx /\ tx \in [Tx -> Transaction]
  BY DEF Tx, PgShape, PgTypeOK
<1>p. \A y \in Tx : OneTx(y) /\ \A z \in Tx : y # z => Apart(y, z)
  BY ShapeParts
<1>1. ASSUME NEW y \in Tx PROVE OneTx(y)'
  <2>1. OneTx(y) /\ tx[y] \in Transaction
    BY <1>p, <1>t
  <2>2. \A d \in tx[y].rows : docs'[d] = docs[d] /\ Live(d)
    BY <2>1 DEF OneTx, Transaction
  <2>3. y = t \/ y = Other \/ (y \in Task /\ loc'[y] = loc[y])
    BY DEF Tx
  <2>4. tx[y].stage = "put" => loc[y].doc \in DocId /\ loc'[y] = loc[y]
    BY <2>1, <2>3, WritersFrame DEF OneTx, StageFits, PgShape, WritePc
  <2>5. tx[y].stage # "none" => y = Other \/ loc'[y] = loc[y]
    BY <2>3
  <2> QED BY <2>1, <2>2, <2>3, <2>4, <2>5 DEF OneTx, StageFits, Live, Deletes, Doing
<1>2. ASSUME NEW y \in Tx, NEW z \in Tx, y # z PROVE Apart(y, z)'
  <2>1. tx[y].put # None => y \in Task \ {t}
    BY <1>p DEF OneTx, StageFits, Tx
  <2> QED BY <1>2, <1>p, <2>1 DEF Apart
<1> QED BY <1>1, <1>2, PartsShape DEF PgShape, PgTypeOK

\* What a commit makes of the copies.
LEMMA CommittedCopies ==
  ASSUME PgShape, NEW x \in Tx, Commit(x)
  PROVE  /\ copies' \in [Copy -> DocId \cup {None}]
         /\ IsFiniteSet({k \in Copy : copies'[k] # None})
         /\ \A k \in Copy : copies'[k] = IF k \in tx[x].cut THEN None
                                         ELSE IF k = tx[x].put THEN loc[x].doc
                                         ELSE copies[k]
         /\ tx[x].put # None => x \in Task /\ loc[x].pc = "fin_write" /\ loc[x].doc \in DocId
<1>1. OneTx(x) /\ copies \in [Copy -> DocId \cup {None}]
  BY ShapeParts, ShapeTypes
<1>2. tx[x].put # None => x \in Task /\ loc[x].pc = "fin_write"
  BY <1>1 DEF OneTx, StageFits, Tx
<1>3. tx[x].put # None => loc[x].doc \in DocId
  BY <1>2, WritersFrame DEF PgShape, WritePc
<1>4. \A k \in Copy : copies'[k] = IF k \in tx[x].cut THEN None
                                   ELSE IF k = tx[x].put THEN loc[x].doc
                                   ELSE copies[k]
  BY DEF Commit
<1>5. \A k \in Copy : copies'[k] \in DocId \cup {None}
  BY <1>1, <1>3, <1>4, CopyAssumption
<1>6. copies' \in [Copy -> DocId \cup {None}]
  BY <1>5 DEF Commit
<1>7. IsFiniteSet({k \in Copy : copies[k] # None} \cup {tx[x].put})
  BY FS_AddElement DEF PgShape
<1>8. {k \in Copy : copies'[k] # None}
        \subseteq {k \in Copy : copies[k] # None} \cup {tx[x].put}
  BY <1>4
<1>9. IsFiniteSet({k \in Copy : copies'[k] # None})
  BY <1>7, <1>8, FS_Subset
<1> QED BY <1>2, <1>3, <1>4, <1>6, <1>9

\* The tables and the frames keep their types.
LEMMA TablesTyped ==
  ASSUME copies' \in [Copy -> DocId \cup {None}],
         IsFiniteSet({k \in Copy : copies'[k] # None}),
         cols' \in [CollId -> CollKey \cup {Unborn, Gone}],
         docs' \in [DocId -> Row \cup {Unborn, Gone}],
         chunks' = ChunkRows',
         loc' \in [Task -> Frame], \A u \in Task : FrameOK(loc'[u]),
         up' \in BOOLEAN, faults' \in Nat, crashes' \in Nat
  PROVE  TypeOK'
<1>1. ASSUME NEW d \in DocId PROVE chunks'[d] \in Nat
  <2> DEFINE n == Cardinality({k \in Copy : copies'[k] = d})
             m == IF docs'[d] \notin {Unborn, Gone} THEN Pieces[docs'[d].sha] ELSE 1
  <2>1. n \in Nat
    BY <1>1, CountedCopies
  <2>2. m \in Nat
    BY <1>1, PiecesAssumption DEF Row
  <2>3. chunks'[d] = n * m
    BY <1>1 DEF ChunkRows, Live
  <2> HIDE DEF n, m
  <2> QED BY <2>1, <2>2, <2>3
<1>2. chunks' \in [DocId -> Nat]
  BY <1>1 DEF ChunkRows
<1> QED BY <1>2 DEF TypeOK, FrameOK

FramesTyped == loc' \in [Task -> Frame] /\ \A u \in Task : FrameOK(loc'[u])

\* A transaction ends, whichever way.
LEMMA EndsInShape ==
  ASSUME PgShape, NEW x \in Tx,
         Commit(x) \/ (tx' = [tx EXCEPT ![x] = NoTx] /\ UNCHANGED copies),
         chunks' = ChunkRows', UNCHANGED <<up, joined>>,
         faults' \in Nat, crashes' \in Nat,
         FramesTyped, \A u \in Task \ {x} : loc'[u] = loc[u],
         cols' \in [CollId -> CollKey \cup {Unborn, Gone}],
         docs' \in [DocId -> Row \cup {Unborn, Gone}],
         \A y \in Tx \ {x} : KeepsDocuments(y)
  PROVE  PgShape'
<1>1. /\ copies' \in [Copy -> DocId \cup {None}]
      /\ IsFiniteSet({k \in Copy : copies'[k] # None})
      /\ \A k \in Copy : copies'[k] = copies[k] \/ k \in tx[x].cut \/ k = tx[x].put
  <2>1. CASE Commit(x)
    BY <2>1, CommittedCopies
  <2>2. CASE UNCHANGED copies
    BY <2>2 DEF PgShape, PgTypeOK
  <2> QED BY <2>1, <2>2
<1>2. tx' = [tx EXCEPT ![x] = NoTx]
  BY DEF Commit
<1>3. TypeOK'
  BY <1>1, TablesTyped, ShapeTypes DEF FramesTyped
<1> QED BY <1>1, <1>2, <1>3, ShapeAfterEnd

LEMMA RaiseTyped ==
  ASSUME TypeOK, NEW t \in Task, Raise(t)
  PROVE  FramesTyped
<1>1. InTry(t) => loc[t].pc \in IndexPc
  BY DEF InTry, IndexPc, CleanupPc
<1> QED BY <1>1, FramesAfterFail, FramesAfterFinish DEF Raise, FramesTyped, Failure

LEMMA FinishTyped ==
  ASSUME TypeOK, NEW t \in Task, Finish(t)
  PROVE  FramesTyped
BY FramesAfterFinish DEF FramesTyped

\* Nothing but its own frame.
LEMMA OwnFrame ==
  ASSUME TypeOK, NEW t \in Task,
         \/ Finish(t) \/ Raise(t) \/ Enter(t) \/ \E p : Goto(t, p)
  PROVE  \A u \in Task \ {t} : loc'[u] = loc[u]
BY DEF TypeOK, Finish, Raise, Fail, Enter, Goto, Become

\* A rollback, and whatever the task makes of it.
LEMMA RollbackShape ==
  ASSUME PgShape, NEW t \in Task, Rollback(t), Finish(t) \/ Raise(t),
         chunks' = ChunkRows', UNCHANGED <<up, joined>>,
         faults' \in Nat, crashes' \in Nat
  PROVE  PgShape'
<1>1. FramesTyped /\ \A u \in Task \ {t} : loc'[u] = loc[u]
  BY FinishTyped, RaiseTyped, OwnFrame DEF PgShape
<1>2. \A y \in Tx : KeepsDocuments(y)
  BY ShapeParts DEF OneTx, StageFits, Rollback, Live, KeepsDocuments
<1>3. t \in Tx
  BY DEF Tx
<1> QED BY <1>1, <1>2, <1>3, EndsInShape DEF Rollback, PgShape, TypeOK

-----------------------------------------------------------------------------
(* Transactions keep their shape.                                          *)

\* A task that reads is in no transaction.
LEMMA ReadersHoldNothing ==
  ASSUME PgShape, NEW t \in Task, Read(t)
  PROVE  /\ tx[t].stage = "none" /\ t \in Tx
         /\ Arrive(t) \/ Step(t)
         /\ docs' = docs /\ chunks' = chunks
<1>1. loc[t].pc \notin WritePc
  BY DEF Read, StartCreateCollection, StartDeleteCollection, StartUpload, StartReindex,
         StartDeleteDocument, CreateCollection, LookupExisting, RereadExisting,
         ReplyDuplicate, ReadForPending, GetDocument, ReadAndChunk, Embed, ReadOwner,
         ReadToFinish, ReadToFail, At, WritePc
<1>2. t \in Tx /\ t # Other
  BY CopyAssumption DEF Tx
<1>3. Arrive(t) \/ Step(t)
  BY DEF Read, Arrive, Step
<1>4. CASE CreateCollection(t)
  BY <1>1, <1>2, <1>3, <1>4, ShapeParts DEF OneTx, CreateCollection
<1>5. CASE ~ CreateCollection(t)
  <2>1. UNCHANGED <<docs, chunks>>
    BY <1>5, QuietSteps DEF Read, Arrive
  <2> QED BY <1>1, <1>2, <1>3, <2>1, ShapeParts DEF OneTx
<1> QED BY <1>4, <1>5

LEMMA ReadShape ==
  ASSUME PgShape, NEW t \in Task, Read(t), UNCHANGED joined
  PROVE  PgShape'
<1>1. TypeOK
  BY DEF PgShape
<1>2. TypeOK'
  <2>1. CASE Arrive(t)
    BY <1>1, <2>1, ArriveType
  <2>2. CASE ~ Arrive(t)
    BY <1>1, <2>2, ReadType, WriteType DEF Read, Arrive
  <2> QED BY <2>1, <2>2
<1>3. up' = up /\ \A u \in Task \ {t} : loc'[u] = loc[u]
  BY <1>1, ReadersHoldNothing, TaskKeepsUp, StepBecomes DEF TypeOK, Become
<1>4. UNCHANGED <<copies, tx>>
  BY DEF Read
<1> QED BY <1>2, <1>3, <1>4, ReadersHoldNothing, ShapeAfterRead DEF Live

\* A statement that commits nothing leaves the types alone.
LEMMA NothingCommitted ==
  ASSUME PgShape, UNCHANGED <<cols, docs, copies, loc, up>>, chunks' = ChunkRows',
         faults' \in Nat, crashes' \in Nat
  PROVE  TypeOK'
<1>1. FramesTyped
  BY DEF PgShape, TypeOK, FramesTyped, FrameOK
<1> QED BY <1>1, TablesTyped DEF PgShape, PgTypeOK, TypeOK, FramesTyped

LEMMA DeleteShape ==
  ASSUME PgShape, NEW x \in Tx, up, x # Other => loc[x].pc \in WritePc,
         DeleteChunks(x), NoFault, chunks' = ChunkRows',
         joined' \in 0 .. MaxJoins, x = Other => joined' > 0, joined' >= joined
  PROVE  PgShape'
<1> DEFINE seen == {k \in Copy : copies[k] \in Targets(x)}
           r == [NoTx EXCEPT !.want = seen,
                             !.stage = IF seen = {} THEN "cut" ELSE "wait"]
<1>1. tx' = [tx EXCEPT ![x] = r]
  BY DEF DeleteChunks
<1>2. /\ r.cut = {} /\ r.want = seen /\ r.put = None /\ r.rows = {} /\ r.todo = {}
      /\ r.stage = IF seen = {} THEN "cut" ELSE "wait"
  BY DEF NoTx
<1>3. r \in Transaction
  BY DEF NoTx, Transaction
<1>4. \A k \in seen : copies[k] # None
  <2>1. Targets(x) \subseteq DocId
    BY TargetsAreDocuments DEF PgShape
  <2> QED BY <2>1, SentinelAssumption
<1>5. TypeOK' /\ UNCHANGED <<copies, docs, loc, up>>
  BY NothingCommitted DEF DeleteChunks, NoFault, PgShape, TypeOK
<1> HIDE DEF r, seen
<1>6. \A y \in Tx : tx[y].put = None \/ tx[y].put \notin r.want
  BY <1>2, <1>4, ShapeParts DEF OneTx
<1>7. r.stage \in {"cut", "wait"} /\ (r.stage # "wait" => r.want = {})
  BY <1>2
<1>8. FitsAs(x, r) /\ \A y \in Tx \ {x} : ApartAs(x, r, y)
  BY <1>2, <1>6, <1>7 DEF FitsAs, ApartAs
<1> QED BY <1>1, <1>3, <1>5, <1>8, ShapeAfterStatement

\* The process of a transaction that is open serves.
LEMMA OpenIsUp ==
  ASSUME PgShape, NEW x \in Tx, tx[x].stage # "none", UNCHANGED joined
  PROVE  /\ x # Other => loc[x].pc \in WritePc
         /\ up /\ joined' \in 0 .. MaxJoins /\ joined' >= joined
         /\ x = Other => joined' > 0
<1>1. x # Other => up /\ loc[x].pc \in WritePc
  BY ShapeParts DEF OneTx
<1> QED BY <1>1 DEF PgShape, PgTypeOK

LEMMA ChunkShape ==
  ASSUME PgShape, NEW x \in Tx, DeleteChunk(x), NoFault, chunks' = ChunkRows',
         UNCHANGED joined
  PROVE  PgShape'
<1>0. OneTx(x) /\ tx[x] \in Transaction /\ tx[x].stage = "wait"
  BY ShapeParts, ShapeTypes DEF DeleteChunk
<1>1. PICK k \in tx[x].want \ Locked(x) :
        tx' = [tx EXCEPT
          ![x].want  = @ \ {k},
          ![x].cut   = IF copies[k] # None THEN @ \cup {k} ELSE @,
          ![x].stage = IF tx[x].want = {k} THEN "cut" ELSE "wait"]
  BY DEF DeleteChunk
<1> DEFINE cut == IF copies[k] # None THEN tx[x].cut \cup {k} ELSE tx[x].cut
           r == [tx[x] EXCEPT !.want = tx[x].want \ {k}, !.cut = cut,
                              !.stage = IF tx[x].want = {k} THEN "cut" ELSE "wait"]
<1>2. cut \in SUBSET Copy
  BY <1>0 DEF Transaction
<1>3. tx' = [tx EXCEPT ![x] = r]
  BY <1>0, <1>1, ShapeTypes DEF Transaction
<1> HIDE DEF cut
<1>4. /\ r.cut = cut /\ r.want = tx[x].want \ {k} /\ r.put = tx[x].put
      /\ r.rows = tx[x].rows /\ r.todo = tx[x].todo /\ r \in Transaction
      /\ r.stage = IF tx[x].want = {k} THEN "cut" ELSE "wait"
  BY <1>0, <1>2 DEF Transaction
<1> HIDE DEF r
<1>5. tx[x].put = None /\ tx[x].rows = {} /\ tx[x].todo = {}
  BY <1>0 DEF OneTx, StageFits
<1>6. \A y \in Tx \ {x} : cut \cap tx[y].cut = {}
  <2>1. \A y \in Tx \ {x} : k \notin tx[y].cut
    BY DEF Locked
  <2> QED BY <2>1, ShapeParts DEF Apart, cut
<1>7. \A j \in cut : copies[j] # None
  BY <1>0 DEF OneTx, cut
<1>8. TypeOK' /\ UNCHANGED <<copies, docs, loc, up>>
  BY NothingCommitted DEF DeleteChunk, NoFault, PgShape, TypeOK
<1>9. r.stage \in {"cut", "wait"} /\ (r.stage # "wait" => r.want = {})
  BY <1>4
<1>10. \A y \in Tx \ {x} : tx[y].put = None \/ tx[y].put \notin r.want
  BY <1>4, ShapeParts DEF Apart
<1>11. \A y \in Tx \ {x} : ApartAs(x, r, y)
  BY <1>4, <1>5, <1>6, <1>10 DEF ApartAs
<1>12. /\ x # Other => loc[x].pc \in WritePc
       /\ up /\ joined' \in 0 .. MaxJoins /\ joined' >= joined
       /\ x = Other => joined' > 0
  BY <1>0, OpenIsUp
<1>13. /\ \A j \in r.cut : copies[j] # None
       /\ r.put = None /\ r.rows = {} /\ r.todo = {}
  BY <1>4, <1>5, <1>7
<1>14. FitsAs(x, r)
  BY <1>9, <1>13 DEF FitsAs
<1> HIDE DEF cut
<1> QED BY <1>3, <1>4, <1>8, <1>11, <1>12, <1>14, ShapeAfterStatement

LEMMA LockBeginsShape ==
  ASSUME PgShape, NEW x \in Tx, LockDocuments(x), NoFault, chunks' = ChunkRows',
         UNCHANGED joined
  PROVE  PgShape'
<1> DEFINE r == [tx[x] EXCEPT !.stage = "take", !.todo = Targets(x)]
<1>0. OneTx(x) /\ tx[x] \in Transaction /\ tx[x].stage = "cut"
  BY ShapeParts, ShapeTypes DEF LockDocuments
<1>1. Targets(x) \subseteq DocId
  BY <1>0, OpenIsUp, TargetsAreDocuments DEF PgShape, OneTx
<1>2. tx' = [tx EXCEPT ![x] = r]
  BY <1>0, ShapeTypes DEF LockDocuments, Transaction
<1>3. /\ r.cut = tx[x].cut /\ r.want = tx[x].want /\ r.put = tx[x].put
      /\ r.rows = tx[x].rows /\ r.stage = "take" /\ r \in Transaction
  BY <1>0, <1>1 DEF Transaction
<1> HIDE DEF r
<1>4. /\ tx[x].put = None /\ tx[x].rows = {} /\ tx[x].want = {}
      /\ \A j \in tx[x].cut : copies[j] # None
  BY <1>0 DEF OneTx, StageFits
<1>5. \A y \in Tx \ {x} : tx[x].cut \cap tx[y].cut = {}
  BY ShapeParts DEF Apart
<1>6. TypeOK' /\ UNCHANGED <<copies, docs, loc, up>>
  BY NothingCommitted DEF LockDocuments, NoFault, PgShape, TypeOK
<1>7. Deletes(x) \/ x = Other
  BY DEF LockDocuments
<1>8. FitsAs(x, r) /\ \A y \in Tx \ {x} : ApartAs(x, r, y)
  BY <1>3, <1>4, <1>5, <1>7 DEF FitsAs, ApartAs
<1> QED BY <1>0, <1>2, <1>3, <1>6, <1>8, OpenIsUp, ShapeAfterStatement

LEMMA LockShape ==
  ASSUME PgShape, NEW x \in Tx, LockDocument(x), NoFault, chunks' = ChunkRows',
         UNCHANGED joined
  PROVE  PgShape'
<1>0. /\ OneTx(x) /\ tx[x] \in Transaction /\ tx[x].stage = "take"
      /\ Deletes(x) \/ x = Other
  BY ShapeParts, ShapeTypes DEF LockDocument, OneTx, StageFits
<1>1. PICK d \in tx[x].todo :
        /\ \A y \in Tx \ {x} : ~ Blocks(y, x, d)
        /\ tx' = [tx EXCEPT
             ![x].todo = @ \ {d},
             ![x].rows = IF d \in Targets(x) /\ Live(d) THEN @ \cup {d} ELSE @]
  BY DEF LockDocument
<1> DEFINE rows == IF d \in Targets(x) /\ Live(d) THEN tx[x].rows \cup {d} ELSE tx[x].rows
           r == [tx[x] EXCEPT !.todo = tx[x].todo \ {d}, !.rows = rows]
<1>2. rows \in SUBSET DocId /\ d \in DocId
  BY <1>0 DEF Transaction
<1>3. tx' = [tx EXCEPT ![x] = r]
  BY <1>0, <1>1, ShapeTypes DEF Transaction
<1> HIDE DEF rows
<1>4. /\ r.cut = tx[x].cut /\ r.want = tx[x].want /\ r.put = tx[x].put
      /\ r.rows = rows /\ r.stage = "take" /\ r \in Transaction
  BY <1>0, <1>2 DEF Transaction
<1> HIDE DEF r
<1>5. /\ tx[x].put = None /\ tx[x].want = {}
      /\ \A j \in tx[x].cut : copies[j] # None
  BY <1>0 DEF OneTx, StageFits
<1>6. \A y \in Tx \ {x} : /\ tx[x].cut \cap tx[y].cut = {}
                          /\ tx[x].rows \cap tx[y].rows = {}
                          /\ tx[y].put = None \/ x = Other \/ loc[y].doc \notin tx[x].rows
  BY ShapeParts DEF Apart
<1>7. TypeOK' /\ UNCHANGED <<copies, docs, loc, up>>
  BY NothingCommitted DEF LockDocument, NoFault, PgShape, TypeOK
<1>8. \A y \in Tx \ {x} : /\ d \notin tx[y].rows
                          /\ tx[y].put = None \/ x = Other \/ loc[y].doc # d
  BY <1>0, <1>1 DEF Blocks, Deletes, Doing
<1>9. \A e \in rows : Live(e) /\ (x = Other => docs[e].status = "pending")
  BY <1>0 DEF rows, OneTx, StageFits, Targets, Doing
<1>10. \A y \in Tx \ {x} : /\ rows \cap tx[y].rows = {}
                           /\ tx[y].put = None \/ x = Other \/ loc[y].doc \notin rows
  BY <1>6, <1>8 DEF rows
<1>11. \A y \in Tx \ {x} : ApartAs(x, r, y)
  BY <1>4, <1>5, <1>6, <1>10 DEF ApartAs
<1>12. /\ x # Other => loc[x].pc \in WritePc
       /\ up /\ joined' \in 0 .. MaxJoins /\ joined' >= joined
       /\ x = Other => joined' > 0
  BY <1>0, OpenIsUp
<1>13. /\ \A j \in r.cut : copies[j] # None
       /\ \A e \in r.rows : Live(e) /\ (x = Other => docs[e].status = "pending")
       /\ r.put = None /\ r.want = {}
  BY <1>4, <1>5, <1>9
<1>14. FitsAs(x, r)
  BY <1>0, <1>4, <1>13 DEF FitsAs
<1> QED BY <1>3, <1>4, <1>7, <1>11, <1>12, <1>14, ShapeAfterStatement

\* Where nothing that a transaction has locked changes, it keeps what it relies on.
LEMMA LockedKeepAll ==
  ASSUME PgShape, NEW y \in Tx,
         \A d \in DocId : Live(d) => docs'[d] \notin {Unborn, Gone},
         \A d \in tx[y].rows : docs'[d] = docs[d]
  PROVE  KeepsDocuments(y)
<1>1. OneTx(y)
  BY ShapeParts
<1>2. tx[y].put # None => y \in Task /\ loc[y].pc = "fin_write" /\ Live(loc[y].doc)
  BY <1>1 DEF OneTx, StageFits, Tx
<1>3. tx[y].put # None => loc[y].doc \in DocId
  BY <1>2, WritersFrame DEF PgShape, WritePc
<1> QED BY <1>2, <1>3 DEF KeepsDocuments

\* A transaction that has been granted the row of its document is alone on it.
LEMMA GrantedRow ==
  ASSUME PgShape, NEW t \in Task, Granted(t), NEW d \in DocId, Needs(t, d),
         Doing(t) # "fin_write" \/ tx[t].stage = "put", NEW y \in Tx \ {t}
  PROVE  d \notin tx[y].rows
<1>1. ~ Waits(t, y) /\ t # y
  BY DEF Granted
<1> QED BY <1>1 DEF Waits, Blocks

\* The commit of a transaction that rewrites the row of its document, or none.
LEMMA UpdateShape ==
  ASSUME PgShape, NEW t \in Task, Commit(t), chunks' = ChunkRows', NoFault,
         UNCHANGED <<cols, joined>>,
         FramesTyped, \A u \in Task \ {t} : loc'[u] = loc[u],
         \/ docs' = docs
         \/ /\ \E r \in Row : docs' = [docs EXCEPT ![loc[t].doc] = r]
            /\ \A y \in Tx \ {t} : loc[t].doc \notin tx[y].rows
  PROVE  PgShape'
<1>1. docs' \in [DocId -> Row \cup {Unborn, Gone}]
  BY ShapeTypes
<1>2. \A d \in DocId : Live(d) => docs'[d] \notin {Unborn, Gone}
  BY ShapeTypes, SentinelAssumption DEF Live
<1>3. \A y \in Tx \ {t} : KeepsDocuments(y)
  <2>1. ASSUME NEW y \in Tx \ {t}, NEW d \in tx[y].rows PROVE docs'[d] = docs[d]
    <3>1. d \in DocId
      BY <2>1, ShapeTypes DEF Transaction
    <3> QED BY <2>1, <3>1, ShapeTypes
  <2>2. ASSUME NEW y \in Tx \ {t} PROVE KeepsDocuments(y)
    <3>1. \A d \in tx[y].rows : docs'[d] = docs[d]
      BY <2>1, <2>2
    <3> QED BY <1>2, <3>1, LockedKeepAll
  <2> QED BY <2>2
<1>4. t \in Tx
  BY DEF Tx
<1>5. /\ cols' \in [CollId -> CollKey \cup {Unborn, Gone}]
      /\ faults' \in Nat /\ crashes' \in Nat /\ up' = up /\ joined' = joined
  BY DEF PgShape, TypeOK, NoFault
<1> QED BY <1>1, <1>3, <1>4, <1>5, EndsInShape

LEMMA ResetShape ==
  ASSUME PgShape, NEW t \in Task, CommitReset(t), chunks' = ChunkRows', NoFault,
         UNCHANGED joined
  PROVE  PgShape'
<1> DEFINE d == loc[t].doc
           r == loc[t].seen
<1>1. loc[t].pc \in {"retry", "pend_write"} /\ TypeOK
  BY DEF CommitReset, In, At, PgShape
<1>2. r \in Row /\ d \in DocId /\ loc[t].sha \in Sha /\ loc[t].coll \in CollId
  BY <1>1, WritersFrame DEF WritePc
<1>3. CASE Live(d)
  <2>1. Flush(docs[d], r, ResetRow(r)) \in Row
    <3>1. docs[d] \in Row
      BY <1>2, <1>3, ShapeTypes DEF Live
    <3>2. ResetRow(r) \in Row
      BY <1>2, AssignedRows DEF Failure
    <3> QED BY <1>2, <3>1, <3>2, FlushedRows
  <2>2. Enter(t) /\ Commit(t) /\ UNCHANGED cols
        /\ docs' = [docs EXCEPT ![d] = Flush(docs[d], r, ResetRow(r))]
    BY <1>3 DEF CommitReset
  <2>3. FramesTyped
    <3>1. FrameOK([loc[t] EXCEPT !.pc = "get", !.seen = None])
      BY <1>1, <1>2 DEF TypeOK, FrameOK, Frame, Pc, OtherPc, AttemptPc, UploadPc,
         ReindexPc, IndexPc, CleanupPc, DocPc, WriteBackPc
    <3> QED BY <1>1, <2>2, <3>1, FramesAfter DEF Enter, FramesTyped
  <2>4. \A u \in Task \ {t} : loc'[u] = loc[u]
    BY <1>1, <2>2, OwnFrame
  <2>5. Needs(t, d) /\ Doing(t) # "fin_write" /\ Granted(t)
    BY <1>1, CopyAssumption DEF CommitReset, In, Needs, Writes, Doing
  <2>6. \A y \in Tx \ {t} : d \notin tx[y].rows
    BY <1>2, <2>5, GrantedRow
  <2> QED BY <2>1, <2>2, <2>3, <2>4, <2>6, UpdateShape
<1>4. CASE ~ Live(d)
  BY <1>4, RollbackShape DEF CommitReset, NoFault, PgShape, TypeOK
<1> QED BY <1>3, <1>4

LEMMA InsertChunksShape ==
  ASSUME PgShape, NEW t \in Task, InsertChunks(t), chunks' = ChunkRows', NoFault,
         UNCHANGED joined
  PROVE  PgShape'
<1>0. t \in Tx /\ t # Other /\ loc[t].pc = "fin_write" /\ up /\ tx[t].stage = "cut"
  BY CopyAssumption DEF InsertChunks, In, At, Tx
<1>1. OneTx(t) /\ tx[t] \in Transaction /\ tx \in [Tx -> Transaction]
  BY <1>0, ShapeParts, ShapeTypes
<1>2. CASE Live(loc[t].doc)
  <2>1. PICK k \in FreshCopies : tx' = [tx EXCEPT ![t].stage = "put", ![t].put = k]
    BY <1>2 DEF InsertChunks
  <2> DEFINE r == [tx[t] EXCEPT !.stage = "put", !.put = k]
  <2>2. /\ k \in Copy /\ k # None /\ copies[k] = None
        /\ \A x \in Tx : k # tx[x].put /\ k \notin tx[x].want
    BY CopyAssumption DEF FreshCopies
  <2>3. /\ r \in Transaction /\ r.stage = "put" /\ r.put = k /\ r.cut = tx[t].cut
        /\ r.want = tx[t].want /\ r.rows = tx[t].rows /\ r.todo = tx[t].todo
        /\ tx' = [tx EXCEPT ![t] = r]
    BY <1>0, <1>1, <2>1, <2>2 DEF Transaction
  <2> HIDE DEF r
  <2>4. r.want = {} /\ r.rows = {} /\ r.todo = {} /\ \A j \in r.cut : copies[j] # None
    BY <1>0, <1>1, <2>3 DEF OneTx, StageFits
  <2>5. \A y \in Tx \ {t} : r.cut \cap tx[y].cut = {}
    BY <1>0, <2>3, ShapeParts DEF Apart
  <2>6. TypeOK' /\ UNCHANGED <<copies, docs, loc, up>>
    BY <1>2, NothingCommitted DEF InsertChunks, NoFault, PgShape, TypeOK
  <2>7. joined' \in 0 .. MaxJoins /\ joined' >= joined
    BY DEF PgShape, PgTypeOK
  <2>8. loc[t].pc \in WritePc
    BY <1>0 DEF WritePc
  <2>9. ASSUME NEW y \in Tx \ {t}, y # Other PROVE loc[t].doc \notin tx[y].rows
    <3>1. ~ Waits(t, y) /\ t # y /\ Needs(t, loc[t].doc) /\ loc[t].doc \in DocId
      BY <1>0, <2>8, WritersFrame
         DEF InsertChunks, In, Granted, Needs, Writes, Doing, PgShape
    <3>2. tx[y].rows # {} => Deletes(y)
      BY <2>9, ShapeParts DEF OneTx, StageFits, Deletes, Doing
    <3> QED BY <3>1, <3>2 DEF Waits, Blocks
  <2>10. FitsAs(t, r)
    BY <1>0, <1>2, <2>2, <2>3, <2>4 DEF FitsAs
  <2>11. \A y \in Tx \ {t} : ApartAs(t, r, y)
    BY <1>0, <2>2, <2>3, <2>4, <2>5, <2>9 DEF ApartAs
  <2> QED BY <1>0, <2>3, <2>6, <2>7, <2>8, <2>10, <2>11, ShapeAfterStatement
<1>3. CASE ~ Live(loc[t].doc)
  BY <1>3, RollbackShape DEF InsertChunks, NoFault, PgShape, TypeOK
<1> QED BY <1>2, <1>3

LEMMA FinishShape ==
  ASSUME PgShape, NEW t \in Task, CommitFinish(t), chunks' = ChunkRows', NoFault,
         UNCHANGED joined
  PROVE  PgShape'
<1> DEFINE d == loc[t].doc
           new == FlushIndexed(docs[d], loc[t].seen, Pieces[loc[t].sha])
<1>1. loc[t].pc = "fin_write" /\ TypeOK
  BY DEF CommitFinish, In, At, PgShape
<1>2. loc[t].seen \in Row /\ d \in DocId /\ Pieces[loc[t].sha] \in Nat
  BY <1>1, WritersFrame DEF WritePc
<1>3. docs[d] \in Row
  BY <1>2, ShapeParts, ShapeTypes DEF CommitFinish, In, OneTx, StageFits, Live, Tx
<1>4. new \in Row
  BY <1>2, <1>3, FlushedIndexedRows
<1>5. FramesTyped /\ \A u \in Task \ {t} : loc'[u] = loc[u]
  BY <1>1, FinishTyped, OwnFrame DEF CommitFinish
<1>6. docs' = [docs EXCEPT ![d] = new]
  BY DEF CommitFinish
<1>7. \A y \in Tx \ {t} : d \notin tx[y].rows
  <2>1. Needs(t, d) /\ tx[t].stage = "put" /\ Granted(t)
    BY DEF CommitFinish, In, Needs
  <2> QED BY <1>2, <2>1, GrantedRow
<1> HIDE DEF new
<1> QED BY <1>4, <1>5, <1>6, <1>7, UpdateShape DEF CommitFinish

LEMMA DropShape ==
  ASSUME PgShape, NEW t \in Task, CommitDrop(t), chunks' = ChunkRows', NoFault,
         UNCHANGED joined
  PROVE  PgShape'
<1>1. loc[t].pc = "drop" /\ TypeOK
  BY DEF CommitDrop, In, At, PgShape
<1>2. FrameOK([loc[t] EXCEPT !.pc = "fail_read"])
  BY <1>1 DEF TypeOK, FrameOK, Frame, Pc, OtherPc, AttemptPc, UploadPc,
              ReindexPc, IndexPc, CleanupPc, DocPc, WriteBackPc
<1>3. FramesTyped
  BY <1>1, <1>2, FramesAfter DEF CommitDrop, Goto, FramesTyped
<1>4. \A u \in Task \ {t} : loc'[u] = loc[u]
  BY <1>1, OwnFrame DEF CommitDrop
<1> QED BY <1>3, <1>4, UpdateShape DEF CommitDrop

\* A flush that changes no column leaves the row.
LEMMA FlushNothing ==
  ASSUME NEW cur \in Row, NEW r
  PROVE  Flush(cur, r, r) = cur
BY DEF Flush, Col, Row

LEMMA FailureShape ==
  ASSUME PgShape, NEW t \in Task, CommitFailure(t), chunks' = ChunkRows', NoFault,
         UNCHANGED joined
  PROVE  PgShape'
<1> DEFINE d == loc[t].doc
           new == Flush(docs[d], loc[t].seen, FailedRow(loc[t].seen, loc[t].why))
<1>1. loc[t].pc = "fail_write" /\ TypeOK
  BY DEF CommitFailure, In, At, PgShape
<1>2. loc[t].seen \in Row /\ d \in DocId /\ loc[t].why \in Failure
  BY <1>1, WritersFrame DEF WritePc
<1>3. CASE Live(d) \/ ~ Writes(t)
  <2>1. FramesTyped /\ \A u \in Task \ {t} : loc'[u] = loc[u]
    BY <1>1, <1>3, FinishTyped, OwnFrame DEF CommitFailure
  <2>2. Live(d) => new \in Row
    <3>1. Live(d) => docs[d] \in Row
      BY <1>2, ShapeTypes DEF Live
    <3> QED BY <1>2, <3>1, AssignedRows, FlushedRows
  <2>3. docs' = docs \/ (Live(d) /\ docs' = [docs EXCEPT ![d] = new])
    BY <1>3 DEF CommitFailure
  <2>4. docs' = docs \/ \E r \in Row : docs' = [docs EXCEPT ![d] = r]
    BY <2>2, <2>3
  <2> HIDE DEF new
  <2>5. CASE Writes(t)
    <3>1. Needs(t, d) /\ Doing(t) # "fin_write" /\ Granted(t)
      BY <1>1, <2>5, CopyAssumption DEF CommitFailure, In, Needs, Doing
    <3>2. \A y \in Tx \ {t} : d \notin tx[y].rows
      BY <1>2, <3>1, GrantedRow
    <3> QED BY <1>3, <2>1, <2>4, <3>2, UpdateShape DEF CommitFailure
  <2>6. CASE ~ Writes(t)
    <3>1. Live(d) => new = docs[d]
      <4>1. FailedRow(loc[t].seen, loc[t].why) = loc[t].seen
        BY <1>1, <2>6, CopyAssumption DEF Writes, Doing
      <4>2. ASSUME Live(d) PROVE Flush(docs[d], loc[t].seen, loc[t].seen) = docs[d]
        BY <1>2, <4>2, ShapeTypes, FlushNothing DEF Live
      <4> QED BY <4>1, <4>2 DEF new
    <3>2. docs' = docs
      BY <1>2, <2>3, <3>1, ShapeTypes
    <3> QED BY <1>3, <2>1, <3>2, UpdateShape DEF CommitFailure
  <2> QED BY <2>5, <2>6
<1>4. CASE ~ (Live(d) \/ ~ Writes(t))
  BY <1>4, RollbackShape DEF CommitFailure, NoFault, PgShape, TypeOK
<1> QED BY <1>3, <1>4

\* Where the documents of x go, nobody else relies on one.
LEMMA DeletedKeepOthers ==
  ASSUME PgShape, NEW x \in Task, tx[x].rows # {} => Deletes(x),
         docs' = [d \in DocId |-> IF d \in tx[x].rows THEN Gone ELSE docs[d]],
         NEW y \in Tx \ {x}
  PROVE  KeepsDocuments(y)
<1>1. /\ OneTx(y) /\ tx[y] \in Transaction /\ x \in Tx /\ x # Other
      /\ tx[x].rows \cap tx[y].rows = {}
      /\ tx[y].put = None \/ loc[y].doc \notin tx[x].rows
  BY ShapeParts, ShapeTypes, CopyAssumption DEF Apart, Tx
<1>2. tx[y].put # None => y \in Task /\ loc[y].pc = "fin_write" /\ Live(loc[y].doc)
  BY <1>1 DEF OneTx, StageFits, Tx
<1>3. tx[y].put # None => loc[y].doc \in DocId
  BY <1>2, WritersFrame DEF PgShape, WritePc
<1>4. tx[y].rows \subseteq DocId
  BY <1>1 DEF Transaction
<1> QED BY <1>1, <1>2, <1>3, <1>4 DEF KeepsDocuments, Live

\* The commit of a delete.
LEMMA DeletedShape ==
  ASSUME PgShape, NEW t \in Task, Commit(t), Finish(t), NoFault, chunks' = ChunkRows',
         UNCHANGED joined, Deletes(t),
         docs' = [d \in DocId |-> IF d \in tx[t].rows THEN Gone ELSE docs[d]],
         cols' \in [CollId -> CollKey \cup {Unborn, Gone}]
  PROVE  PgShape'
<1>1. t \in Tx /\ TypeOK
  BY DEF Tx, PgShape
<1>2. \A y \in Tx \ {t} : KeepsDocuments(y)
  BY DeletedKeepOthers
<1>3. FramesTyped /\ \A u \in Task \ {t} : loc'[u] = loc[u]
  BY <1>1, FinishTyped, OwnFrame
<1>4. docs' \in [DocId -> Row \cup {Unborn, Gone}]
  BY ShapeTypes
<1>5. faults' \in Nat /\ crashes' \in Nat /\ up' = up /\ joined' = joined
  BY DEF PgShape, TypeOK, NoFault
<1> QED BY <1>1, <1>2, <1>3, <1>4, <1>5, EndsInShape

LEMMA DeleteDocumentShape ==
  ASSUME PgShape, NEW t \in Task, CommitDelete(t), chunks' = ChunkRows', NoFault,
         UNCHANGED joined
  PROVE  PgShape'
<1>1. cols' \in [CollId -> CollKey \cup {Unborn, Gone}]
  BY DEF CommitDelete, PgShape, TypeOK
<1> QED BY <1>1, DeletedShape DEF CommitDelete, Checking

LEMMA DeleteCollectionShape ==
  ASSUME PgShape, NEW t \in Task, CommitDeleteCollection(t), chunks' = ChunkRows',
         NoFault, UNCHANGED joined
  PROVE  PgShape'
<1>1. cols' \in [CollId -> CollKey \cup {Unborn, Gone}]
  BY DEF CommitDeleteCollection, PgShape, TypeOK
<1>2. Deletes(t)
  BY CopyAssumption DEF CommitDeleteCollection, In, At, Deletes, Doing
<1> QED BY <1>1, <1>2, DeletedShape DEF CommitDeleteCollection

LEMMA RefusedShape ==
  ASSUME PgShape, NEW t \in Task, RefuseDelete(t), chunks' = ChunkRows', NoFault,
         UNCHANGED joined
  PROVE  PgShape'
BY RollbackShape DEF RefuseDelete, NoFault, PgShape, TypeOK

\* A collection's delete comes to its next statement.
LEMMA DeleteOwnedShape ==
  ASSUME PgShape, NEW t \in Task, chunks' = ChunkRows', NoFault, UNCHANGED joined,
         DeleteOwned(t) \/ HoldCollection(t)
  PROVE  PgShape'
<1> DEFINE s == IF DeleteOwned(t) THEN "gone" ELSE "held"
           r == [tx[t] EXCEPT !.stage = s]
<1>1. /\ loc[t].pc = "c_drop" /\ t \in Tx /\ t # Other /\ up
      /\ tx[t].stage \in {"take", "gone"} /\ tx[t].todo = {}
  <2>1. t \in Tx /\ t # Other
    BY CopyAssumption DEF Tx
  <2>2. StageFits(t)
    BY <2>1 DEF PgShape
  <2> QED BY <2>1, <2>2 DEF DeleteOwned, HoldCollection, In, At, Checking, StageFits
<1>2. OneTx(t) /\ tx[t] \in Transaction /\ tx \in [Tx -> Transaction]
  BY <1>1, ShapeParts, ShapeTypes
<1>3. s \in {"gone", "held"} /\ tx' = [tx EXCEPT ![t].stage = s]
  <2>1. DeleteOwned(t) => tx' = [tx EXCEPT ![t].stage = "gone"]
    BY DEF DeleteOwned
  <2>2. ~ DeleteOwned(t) => tx' = [tx EXCEPT ![t].stage = "held"]
    BY DEF HoldCollection
  <2> QED BY <2>1, <2>2
<1> HIDE DEF s
<1>4. /\ r \in Transaction /\ r.stage = s /\ r.put = tx[t].put
      /\ r.cut = tx[t].cut /\ r.want = tx[t].want /\ r.rows = tx[t].rows
      /\ r.todo = tx[t].todo /\ tx' = [tx EXCEPT ![t] = r]
  BY <1>2, <1>3 DEF Transaction
<1> HIDE DEF r
<1>5. /\ r.want = {} /\ r.put = None /\ \A j \in r.cut : copies[j] # None
      /\ \A d \in r.rows : Live(d)
  BY <1>1, <1>2, <1>4 DEF OneTx, StageFits
<1>6. \A y \in Tx \ {t} : /\ r.cut \cap tx[y].cut = {}
                          /\ tx[y].put = None \/ loc[y].doc \notin r.rows
                          /\ r.rows \cap tx[y].rows = {}
  BY <1>1, <1>4, ShapeParts DEF Apart
<1>7. TypeOK' /\ UNCHANGED <<copies, docs, loc, up>>
  BY NothingCommitted DEF DeleteOwned, HoldCollection, NoFault, PgShape, TypeOK
<1>8. joined' \in 0 .. MaxJoins /\ joined' >= joined /\ loc[t].pc \in WritePc
  BY <1>1 DEF PgShape, PgTypeOK, WritePc
<1>9. \A y \in Tx \ {t} : ApartAs(t, r, y)
  BY <1>5, <1>6 DEF ApartAs
<1>10. /\ r.todo = {} /\ r.stage \in {"gone", "held"}
       /\ \A d \in r.rows : Live(d) /\ (t = Other => docs[d].status = "pending")
  BY <1>1, <1>3, <1>4, <1>5
<1>11. FitsAs(t, r)
  BY <1>1, <1>5, <1>10 DEF FitsAs
<1> QED BY <1>1, <1>4, <1>7, <1>8, <1>9, <1>11, ShapeAfterStatement

LEMMA InsertShape ==
  ASSUME PgShape, NEW t \in Task, Insert(t), chunks' = ChunkRows', NoFault,
         UNCHANGED joined
  PROVE  PgShape'
<1>1. /\ loc[t].pc = "insert" /\ TypeOK /\ t \in Tx /\ t # Other /\ up
  BY CopyAssumption DEF Insert, At, PgShape, Tx
<1>2. tx[t].stage = "none"
  BY <1>1, ShapeParts DEF OneTx, WritePc
<1>3. UNCHANGED <<copies, tx, up>>
  BY DEF Insert, NoFault
<1>4. CASE LiveCol(loc[t].coll)
  <2>1. InsertDocument(t) /\ Step(t)
    BY <1>4 DEF Insert, Step
  <2>2. TypeOK'
    BY <1>1, <2>1, WriteType
  <2>3. \A u \in Task \ {t} : loc'[u] = loc[u]
    BY <1>1, <2>1, StepBecomes DEF TypeOK, Become
  <2>4. \A d \in DocId : Live(d) => docs'[d] = docs[d]
    BY <2>1, ShapeTypes DEF InsertDocument, Fresh, Live
  <2> QED BY <1>2, <1>3, <2>2, <2>3, <2>4, ShapeAfterRead
<1>5. CASE ~ LiveCol(loc[t].coll)
  <2>1. Goto(t, "reread") /\ UNCHANGED <<cols, docs>>
    BY <1>5 DEF Insert
  <2>2. FrameOK([loc[t] EXCEPT !.pc = "reread"])
    BY <1>1 DEF TypeOK, FrameOK, Frame, Pc, OtherPc, AttemptPc, UploadPc,
                ReindexPc, IndexPc, CleanupPc, DocPc, WriteBackPc
  <2>3. FramesTyped
    BY <1>1, <2>1, <2>2, FramesAfter DEF Goto, FramesTyped
  <2>4. \A u \in Task \ {t} : loc'[u] = loc[u]
    BY <1>1, <2>1, OwnFrame
  <2>5. TypeOK'
    BY <1>3, <2>1, <2>3, TablesTyped
       DEF PgShape, PgTypeOK, TypeOK, FramesTyped, NoFault
  <2>6. \A d \in DocId : Live(d) => docs'[d] = docs[d]
    BY <2>1
  <2> QED BY <1>2, <1>3, <2>4, <2>5, <2>6, ShapeAfterRead
<1> QED BY <1>4, <1>5

LEMMA ErrorShape ==
  ASSUME PgShape, NEW t \in Task, chunks' = ChunkRows', UNCHANGED joined,
         PgDatabaseError(t) \/ (Victim(t) /\ NoFault)
  PROVE  PgShape'
<1>1. Rollback(t) /\ UNCHANGED up /\ (Finish(t) \/ Raise(t))
  BY DEF PgDatabaseError, DatabaseError, Victim, Raise, NoFault
<1>2. faults' \in Nat /\ crashes' \in Nat
  BY DEF PgDatabaseError, DatabaseError, NoFault, PgShape, TypeOK
<1> QED BY <1>1, <1>2, RollbackShape

LEMMA SweepShape ==
  ASSUME PgShape, chunks' = ChunkRows', UNCHANGED joined, FailPending \/ SweepFails
  PROVE  PgShape'
<1>1. Other \in Tx
  BY DEF Tx
<1>2. FramesTyped /\ \A u \in Task : loc'[u] = loc[u]
  BY DEF FailPending, SweepFails, PgShape, TypeOK, FramesTyped, FrameOK
<1>3. CASE FailPending
  <2>0. \A d \in tx[Other].rows : d \in DocId /\ Live(d)
    BY <1>1, ShapeParts, ShapeTypes DEF OneTx, Transaction
  <2>1. \A d \in DocId : /\ Live(d) => docs'[d] \notin {Unborn, Gone}
                         /\ docs'[d] \in Row \cup {Unborn, Gone}
                         /\ d \notin tx[Other].rows => docs'[d] = docs[d]
    <3> TAKE d \in DocId
    <3>1. Live(d) => docs[d] \in Row /\ FailedRow(docs[d], "interrupted") \in Row
      BY AssignedRows, ShapeTypes DEF Live, Failure
    <3>2. docs'[d] = IF d \in tx[Other].rows THEN FailedRow(docs[d], "interrupted")
                                              ELSE docs[d]
      BY <1>3 DEF FailPending
    <3> QED BY <2>0, <3>1, <3>2, SentinelAssumption, ShapeTypes DEF Live
  <2>2. docs' \in [DocId -> Row \cup {Unborn, Gone}]
    BY <1>3, <2>1 DEF FailPending
  <2>3. ASSUME NEW y \in Tx \ {Other} PROVE KeepsDocuments(y)
    <3>1. \A d \in tx[y].rows : d \in DocId /\ d \notin tx[Other].rows
      BY <1>1, ShapeParts, ShapeTypes DEF Apart, Transaction
    <3> QED BY <2>1, <3>1, LockedKeepAll
  <2> QED BY <1>1, <1>2, <1>3, <2>2, <2>3, EndsInShape
          DEF FailPending, PgShape, TypeOK, NoFault
<1>4. CASE SweepFails
  <2>1. \A y \in Tx : KeepsDocuments(y)
    BY <1>4, LockedKeepAll DEF SweepFails, Rollback, Live
  <2>2. /\ tx' = [tx EXCEPT ![Other] = NoTx] /\ UNCHANGED <<copies, cols, docs, up>>
        /\ crashes' \in Nat
    BY <1>4 DEF SweepFails, Rollback, PgShape, TypeOK
  <2>3. faults' \in Nat
    BY <1>4 DEF SweepFails, PgShape, TypeOK
  <2>4. /\ cols' \in [CollId -> CollKey \cup {Unborn, Gone}]
        /\ docs' \in [DocId -> Row \cup {Unborn, Gone}]
    BY <2>2 DEF PgShape, TypeOK
  <2> QED BY <1>1, <1>2, <2>1, <2>2, <2>3, <2>4, EndsInShape
<1> QED BY <1>3, <1>4

LEMMA NoTxShape ==
  ASSUME PgShape, \A x \in Tx : tx'[x] = NoTx, tx' \in [Tx -> Transaction], TypeOK',
         copies' \in [Copy -> DocId \cup {None}], UNCHANGED joined,
         IsFiniteSet({k \in Copy : copies'[k] # None})
  PROVE  PgShape'
<1>1. /\ NoTx.stage = "none" /\ NoTx.cut = {} /\ NoTx.want = {} /\ NoTx.put = None
      /\ NoTx.rows = {} /\ NoTx.todo = {}
  BY DEF NoTx
<1>2. \A x \in Tx : OneTx(x)'
  BY <1>1 DEF OneTx, StageFits
<1>3. \A x, y \in Tx : x # y => Apart(x, y)'
  BY <1>1 DEF Apart
<1>4. tx'[Other].stage # "none" => up' /\ joined' > 0
  BY <1>1 DEF Tx
<1>5. joined' \in 0 .. MaxJoins
  BY DEF PgShape, PgTypeOK
<1> QED BY <1>2, <1>3, <1>4, <1>5, PartsShape

LEMMA CrashShape ==
  ASSUME PgShape, PgCrash, UNCHANGED joined
  PROVE  PgShape'
<1>1. TypeOK' /\ UNCHANGED copies /\ tx' = [x \in Tx |-> NoTx]
  BY FailureType DEF PgCrash, PgShape
<1>2. NoTx \in Transaction
  BY DEF NoTx, Transaction
<1>3. tx' \in [Tx -> Transaction] /\ \A x \in Tx : tx'[x] = NoTx
  BY <1>1, <1>2
<1> QED BY <1>1, <1>3, NoTxShape DEF PgShape, PgTypeOK

LEMMA StartupShape ==
  ASSUME PgShape, PgStartup, UNCHANGED joined
  PROVE  PgShape'
<1>1. TypeOK' /\ UNCHANGED tx /\ ~ up
  BY FailureType DEF PgStartup, Startup, PgShape
<1>2. \A x \in Tx : tx[x] = NoTx
  <2>1. \A x \in Tx : tx[x].stage = "none"
    BY <1>1, ShapeParts DEF OneTx, PgShape
  <2> QED BY <2>1, ShapeParts DEF OneTx
<1>3. \A k \in Copy : copies'[k] \in {None, copies[k]}
  BY DEF PgStartup
<1>4. copies' \in [Copy -> DocId \cup {None}]
  BY <1>3, ShapeTypes DEF PgStartup
<1>5. {k \in Copy : copies'[k] # None} \subseteq {k \in Copy : copies[k] # None}
  BY <1>3
<1>6. IsFiniteSet({k \in Copy : copies'[k] # None})
  BY <1>5, FS_Subset DEF PgShape
<1> QED BY <1>1, <1>2, <1>4, <1>6, NoTxShape, ShapeTypes

LEMMA StatementShape ==
  ASSUME PgShape, NEW t \in Task, Statement(t), chunks' = ChunkRows', UNCHANGED joined
  PROVE  PgShape'
<1>1. NoFault
  BY DEF Statement
<1>2. ASSUME up, loc[t].pc \in WritePc, DeleteChunks(t) PROVE PgShape'
  <2>1. t \in Tx /\ t # Other
    BY CopyAssumption DEF Tx
  <2>2. joined' \in 0 .. MaxJoins /\ joined' >= joined
    BY DEF PgShape, PgTypeOK
  <2> QED BY <1>1, <1>2, <2>1, <2>2, DeleteShape
<1>3. CASE CommitReset(t) \/ InsertChunks(t) \/ CommitFinish(t)
  BY <1>1, <1>3, ResetShape, InsertChunksShape, FinishShape
<1>4. CASE CommitDrop(t) \/ CommitFailure(t) \/ CommitDelete(t)
  BY <1>1, <1>4, DropShape, FailureShape, DeleteDocumentShape
<1>5. CASE DeleteOwned(t) \/ HoldCollection(t) \/ CommitDeleteCollection(t)
  BY <1>1, <1>5, DeleteOwnedShape, DeleteCollectionShape
<1>6. CASE RefuseDelete(t) \/ Insert(t) \/ Victim(t)
  BY <1>1, <1>6, RefusedShape, InsertShape, ErrorShape
<1> QED BY <1>2, <1>3, <1>4, <1>5, <1>6 DEF Statement

LEMMA JoinShape ==
  ASSUME PgShape, Join, NoFault, chunks' = ChunkRows'
  PROVE  PgShape'
<1>1. joined \in 0 .. MaxJoins /\ joined < MaxJoins /\ joined' = joined + 1
  BY DEF Join, PgShape, PgTypeOK
<1>2. joined' \in 0 .. MaxJoins /\ joined' > 0 /\ joined' >= joined
  BY <1>1, JoinsAssumption
<1>3. Other \in Tx /\ up /\ DeleteChunks(Other)
  BY DEF Join, Tx
<1> QED BY <1>2, <1>3, DeleteShape

LEMMA ShapeStep ==
  ASSUME PgShape, [PgNext]_pgvars
  PROVE  PgShape'
<1>1. CASE UNCHANGED pgvars
  BY <1>1 DEF pgvars, vars, PgShape, PgTypeOK, TypeOK, FrameOK, StageFits, Locked, Live,
               Deletes, Doing
<1>2. CASE PgNext
  <2>1. CASE Join /\ NoFault
    BY <1>2, <2>1, JoinShape DEF PgNext
  <2>2. ASSUME NEW t \in Task, Read(t) \/ Statement(t) \/ PgDatabaseError(t),
               UNCHANGED joined
        PROVE  PgShape'
    BY <1>2, <2>2, ReadShape, StatementShape, ErrorShape DEF PgNext
  <2>3. CASE Continue /\ UNCHANGED joined
    BY <1>2, <2>3, ChunkShape, LockBeginsShape, LockShape DEF PgNext, Continue
  <2>4. CASE (FailPending \/ SweepFails \/ PgCrash \/ PgStartup) /\ UNCHANGED joined
    BY <1>2, <2>4, SweepShape, CrashShape, StartupShape DEF PgNext
  <2> QED BY <1>2, <2>1, <2>2, <2>3, <2>4 DEF PgNext
<1> QED BY <1>1, <1>2

\* Locks are held by who may hold them, however callers overlap, and whatever
\* joins, fails and dies: no two transactions have deleted one chunk row or one
\* document, and new chunks are never those of a document that is going.
THEOREM PgShapeHolds == PgSpec => []PgShape
<1>1. PgInit => PgShape
  <2> SUFFICES ASSUME PgInit PROVE PgShape
    OBVIOUS
  <2>1. TypeOK
    BY IdleFrame DEF PgInit, Init, TypeOK, FrameOK
  <2>2. \A x \in Tx : tx[x] = NoTx
    BY DEF PgInit
  <2>3. /\ NoTx \in Transaction /\ NoTx.stage = "none" /\ NoTx.cut = {}
        /\ NoTx.want = {} /\ NoTx.put = None /\ NoTx.rows = {} /\ NoTx.todo = {}
    BY DEF NoTx, Transaction
  <2>4. \A x \in Tx : StageFits(x)
    BY <2>2, <2>3 DEF StageFits
  <2>5. {k \in Copy : copies[k] # None} = {}
    BY DEF PgInit
  <2>6. PgTypeOK
    BY <2>2, <2>3, JoinsAssumption DEF PgInit, PgTypeOK
  <2>7. tx[Other].stage = "none"
    BY <2>2, <2>3 DEF Tx
  <2>8. IsFiniteSet({k \in Copy : copies[k] # None})
    BY <2>5, FS_EmptySet
  <2> QED BY <2>1, <2>2, <2>3, <2>4, <2>6, <2>7, <2>8 DEF PgShape
<1>2. PgShape /\ [PgNext]_pgvars => PgShape'
  BY ShapeStep
<1> QED BY <1>1, <1>2, PTL DEF PgSpec

\* Locks are held by who may hold them: no two transactions have deleted one
\* chunk row, each row one has deleted is committed and each document it has
\* deleted is there, and a task between transactions holds nothing.
THEOREM PgTypeCorrect == PgSpec => []PgTypeOK
<1>1. PgShape => PgTypeOK
  BY DEF PgShape
<1> QED BY <1>1, PgShapeHolds, PTL

-----------------------------------------------------------------------------
(* Attempts that do not overlap.                                           *)

\* The row a task read is still there, or a process that joined has failed it
\* since.
SeenOrSwept(seen, r) ==
  \/ seen = r
  \/ /\ joined > 0
     /\ seen = FreshRow(r.coll, r.sha) /\ r = FailedRow(seen, "interrupted")

PgOnItsRow(t) ==
  Working(t) /\ Live(loc[t].doc) =>
    LET r == docs[loc[t].doc] IN
    /\ r.coll = loc[t].coll /\ r.sha = loc[t].sha
    /\ loc[t].pc \in {"fin_write", "fail_write"} => SeenOrSwept(loc[t].seen, r)
    /\ loc[t].pc \in {"retry", "pend_write"} => loc[t].seen = r
    /\ loc[t].pc = "retry" => r.status = "failed"
    /\ loc[t].pc = "pend_write" => r.status # "pending"
    /\ loc[t].pc \in IndexPc => r.status # "indexed" /\ (joined = 0 => r.status = "pending")

\* The document a task is about has been inserted.
Born(t) == loc[t].pc \in DocPc => docs[loc[t].doc] # Unborn

\* An indexed document has one copy of its chunks, and no other has any.
PgWhole(d) ==
  IF Live(d) /\ docs[d].status = "indexed"
    THEN /\ docs[d].at /\ docs[d].count = Pieces[docs[d].sha] /\ docs[d].count > 0
         /\ joined = 0 => docs[d].error = ""
         /\ \E k \in Copy : CopiesOf(d) = {k}
    ELSE /\ CopiesOf(d) = {}
         /\ Live(d) => /\ ~ docs[d].at /\ docs[d].count = 0
                       /\ docs[d].error = "" <=> docs[d].status = "pending"

\* A transaction deletes chunks of its own documents only.  An attempt has all
\* of them in hand, and a delete of a collection, once it has its documents,
\* those of each.  A delete of a document takes its row, or finds it gone.
HoldsItsOwn(t) ==
  LET d == loc[t].doc
      held == tx[t].cut \cup tx[t].want
      mine == {k \in held : copies[k] # None} IN
  /\ tx[t].stage # "none" /\ loc[t].pc # "c_drop" => \A k \in mine : copies[k] = d
  /\ tx[t].stage # "none" /\ Attempting(t) => CopiesOf(d) \subseteq held
  /\ loc[t].pc = "c_drop" => \A k \in mine : docs[copies[k]].coll = loc[t].coll
  /\ loc[t].pc = "del_write" /\ tx[t].stage = "take" =>
       d \in tx[t].todo \cup tx[t].rows \/ ~ Live(d)
  /\ tx[t].stage \in {"gone", "held"} =>
       \A e \in tx[t].rows : CopiesOf(e) \subseteq tx[t].cut

PgInv ==
  /\ OneAttempt
  /\ \A t \in Task : PgOnItsRow(t) /\ HasPieces(t) /\ Born(t) /\ HoldsItsOwn(t)
  /\ \A d \in DocId : PgWhole(d)
  /\ DownIsIdle
  /\ tx[Other].cut = {} /\ tx[Other].want = {}

-----------------------------------------------------------------------------
(* What a step does to the documents, when the invariant holds.            *)

\* A document that waits is as it was accepted.
LEMMA PendingIsFresh ==
  ASSUME PgShape, NEW d \in DocId, PgWhole(d), Live(d), docs[d].status = "pending"
  PROVE  /\ docs[d] = FreshRow(docs[d].coll, docs[d].sha)
         /\ CopiesOf(d) = {}
<1>1. docs[d] \in Row
  BY ShapeTypes DEF Live
<1>2. docs[d].error = "" /\ docs[d].count = 0 /\ ~ docs[d].at /\ CopiesOf(d) = {}
  BY DEF PgWhole
<1>3. docs[d].at = FALSE
  BY <1>1, <1>2 DEF Row
<1> QED BY <1>1, <1>2, <1>3 DEF Row, FreshRow

LEMMA PgWorkersFrame ==
  ASSUME PgShape, PgInv, NEW t \in Task, Working(t)
  PROVE  /\ loc[t].doc \in DocId /\ loc[t].coll \in CollId /\ loc[t].sha \in Sha
         /\ docs[loc[t].doc] # Unborn
         /\ Live(loc[t].doc) => docs[loc[t].doc] \in Row
         /\ PgWhole(loc[t].doc)
         /\ PgOnItsRow(t) /\ HasPieces(t) /\ HoldsItsOwn(t)
<1>1. TypeOK
  BY DEF PgShape
<1> QED BY <1>1 DEF TypeOK, FrameOK, PgInv, Born, Working, Live

\* Two attempts are never on one row.
LEMMA AloneOnItsRow ==
  ASSUME PgShape, PgInv, NEW t \in Task, NEW u \in Task, t # u, Working(t), Working(u),
         Live(loc[t].doc)
  PROVE  loc[u].doc # loc[t].doc
<1> SUFFICES ASSUME loc[u].doc = loc[t].doc PROVE FALSE
  OBVIOUS
<1>1. loc[t].coll = loc[u].coll /\ loc[t].sha = loc[u].sha
  BY PgWorkersFrame DEF PgOnItsRow
<1> QED BY <1>1 DEF PgInv, OneAttempt, Attempting, Working

\* A chunk row is of an indexed document.
LEMMA CopiesAreOfIndexed ==
  ASSUME PgShape, PgInv, NEW k \in Copy, copies[k] # None
  PROVE  copies[k] \in DocId /\ Live(copies[k]) /\ docs[copies[k]].status = "indexed"
<1>1. copies[k] \in DocId /\ k \in CopiesOf(copies[k])
  BY ShapeTypes DEF CopiesOf
<1> QED BY <1>1 DEF PgInv, PgWhole

CopiesAfter(d) == {k \in Copy : copies'[k] = d}

PgSame(d)      == docs'[d] = docs[d] /\ CopiesAfter(d) = CopiesOf(d)
PgAccepted(d)  == /\ docs[d] = Unborn
                  /\ \E c \in CollId, s \in Sha : docs'[d] = FreshRow(c, s)
                  /\ CopiesAfter(d) = {}
PgRequeued(d)  == /\ Live(d) /\ docs[d].status # "pending"
                  /\ docs'[d] = ResetRow(docs[d])
                  /\ CopiesAfter(d) = {}
\* A run whose row a process that joined has failed leaves the reason behind.
PgCompleted(d) == LET r == IndexedRow(docs[d], Pieces[docs[d].sha]) IN
                  /\ Live(d) /\ docs[d].status # "indexed"
                  /\ Pieces[docs[d].sha] > 0
                  /\ docs[d].status = "pending" \/ joined > 0
                  /\ \/ docs'[d] = r
                     \/ joined > 0 /\ \E e \in Error : docs'[d] = [r EXCEPT !.error = e]
                  /\ \E k \in Copy : CopiesAfter(d) = {k}
PgGivenUp(d)   == /\ Live(d) /\ docs[d].status # "indexed"
                  /\ docs[d].status = "pending" \/ joined > 0
                  /\ \E why \in Failure : docs'[d] = FailedRow(docs[d], why)
                  /\ CopiesAfter(d) = {}
PgRemoved(d)   == Live(d) /\ docs'[d] = Gone /\ CopiesAfter(d) = {}

PgDecided(t) == LET d == loc[t].doc IN
                  /\ Working(t)
                  /\ PgRequeued(d) \/ PgCompleted(d) \/ PgGivenUp(d)
PgOnlyOn(d)  == \A e \in DocId \ {d} : PgSame(e)

\* A commit replaces the chunks of the documents it has deleted some of, and of
\* no other.
LEMMA CommitReplaces ==
  ASSUME PgShape, NEW t \in Tx, Commit(t), NEW D \in SUBSET DocId,
         \A k \in tx[t].cut : copies[k] \in D,
         \A d \in D : CopiesOf(d) \subseteq tx[t].cut,
         tx[t].put # None => loc[t].doc \in D
  PROVE  /\ \A d \in DocId \ D : CopiesAfter(d) = CopiesOf(d)
         /\ \A d \in D : tx[t].put = None \/ loc[t].doc # d => CopiesAfter(d) = {}
         /\ tx[t].put # None => CopiesAfter(loc[t].doc) = {tx[t].put}
<1>1. \A k \in Copy : copies'[k] = IF k \in tx[t].cut THEN None
                                   ELSE IF k = tx[t].put THEN loc[t].doc
                                   ELSE copies[k]
  BY CommittedCopies
<1>2. OneTx(t) /\ tx[t] \in Transaction /\ None \notin DocId
  BY ShapeParts, ShapeTypes, SentinelAssumption
<1>3. tx[t].put # None => /\ tx[t].put \in Copy /\ copies[tx[t].put] = None
                          /\ tx[t].put \notin tx[t].cut
  BY <1>2 DEF OneTx, Transaction
<1>4. ASSUME NEW d \in DocId \ D PROVE CopiesAfter(d) = CopiesOf(d)
  <2>1. \A k \in Copy : copies'[k] = d <=> copies[k] = d
    BY <1>1, <1>2, <1>3, <1>4, CopyAssumption
  <2> QED BY <2>1 DEF CopiesOf, CopiesAfter
<1>5. ASSUME NEW d \in D, tx[t].put = None \/ loc[t].doc # d PROVE CopiesAfter(d) = {}
  <2>1. \A k \in Copy : copies'[k] # d
    BY <1>1, <1>2, <1>5, CopyAssumption DEF CopiesOf, CopiesAfter
  <2> QED BY <2>1 DEF CopiesOf, CopiesAfter
<1>6. ASSUME tx[t].put # None PROVE CopiesAfter(loc[t].doc) = {tx[t].put}
  <2>1. \A k \in Copy : copies'[k] = loc[t].doc <=> k = tx[t].put
    BY <1>1, <1>2, <1>3, <1>6 DEF CopiesOf, CopiesAfter
  <2> QED BY <1>3, <1>6, <2>1 DEF CopiesOf, CopiesAfter
<1> QED BY <1>4, <1>5, <1>6

LEMMA CommitReplacesOne ==
  ASSUME PgShape, NEW t \in Tx, Commit(t), NEW d \in DocId,
         \A k \in tx[t].cut : copies[k] = d,
         CopiesOf(d) \subseteq tx[t].cut,
         tx[t].put # None => loc[t].doc = d
  PROVE  /\ \A e \in DocId \ {d} : CopiesAfter(e) = CopiesOf(e)
         /\ tx[t].put = None => CopiesAfter(d) = {}
         /\ tx[t].put # None => CopiesAfter(d) = {tx[t].put}
<1> DEFINE D == {d}
<1>1. D \in SUBSET DocId /\ d \in D
  OBVIOUS
<1>2. /\ \A k \in tx[t].cut : copies[k] \in D
      /\ \A e \in D : CopiesOf(e) \subseteq tx[t].cut
      /\ tx[t].put # None => loc[t].doc \in D
  OBVIOUS
<1>3. \A e \in DocId \ {d} : e \in DocId \ D
  OBVIOUS
<1> HIDE DEF D
<1> QED BY <1>1, <1>2, <1>3, CommitReplaces

\* What a transaction that has deleted has in hand.
LEMMA HandsOn ==
  ASSUME PgShape, PgInv, NEW t \in Task, tx[t].stage \notin {"none", "wait"}
  PROVE  /\ t \in Tx /\ tx[t].want = {} /\ up /\ loc[t].pc \in WritePc
         /\ loc[t].pc # "c_drop" => \A k \in tx[t].cut : copies[k] = loc[t].doc
         /\ Attempting(t) => CopiesOf(loc[t].doc) \subseteq tx[t].cut
         /\ loc[t].pc = "c_drop" =>
              \A k \in tx[t].cut : docs[copies[k]].coll = loc[t].coll
         /\ \A k \in tx[t].cut : k \in Copy /\ copies[k] # None
<1>1. t \in Tx /\ t # Other
  BY CopyAssumption DEF Tx
<1>2. OneTx(t) /\ tx[t] \in Transaction /\ HoldsItsOwn(t)
  BY <1>1, ShapeParts, ShapeTypes DEF PgInv
<1>3. tx[t].want = {} /\ up /\ loc[t].pc \in WritePc
  BY <1>1, <1>2 DEF OneTx, StageFits
<1>4. \A k \in tx[t].cut : k \in Copy /\ copies[k] # None
  BY <1>2 DEF OneTx, Transaction
<1> QED BY <1>1, <1>2, <1>3, <1>4 DEF HoldsItsOwn

LEMMA ResetEffects ==
  ASSUME PgShape, PgInv, NEW t \in Task, CommitReset(t), Live(loc[t].doc)
  PROVE  PgDecided(t) /\ PgOnlyOn(loc[t].doc)
<1> DEFINE d == loc[t].doc
           r == loc[t].seen
<1>1. /\ loc[t].pc \in {"retry", "pend_write"} /\ tx[t].stage = "cut"
      /\ Working(t) /\ Attempting(t)
  BY DEF CommitReset, In, At, Working, Attempting, AttemptPc, UploadPc, ReindexPc, DocPc
<1>2. d \in DocId /\ docs[d] \in Row /\ r = docs[d] /\ docs[d].status # "pending"
  BY <1>1, PgWorkersFrame DEF PgOnItsRow
<1>3. docs' = [docs EXCEPT ![d] = Flush(docs[d], r, ResetRow(r))] /\ Commit(t)
  BY DEF CommitReset
<1>4. docs'[d] = ResetRow(docs[d]) /\ \A e \in DocId \ {d} : docs'[e] = docs[e]
  BY <1>2, <1>3, WritesOfCurrent, ShapeTypes DEF Failure
<1>5. tx[t].put = None
  BY <1>1, HandsOn, ShapeParts DEF OneTx, StageFits
<1>6. CopiesAfter(d) = {} /\ \A e \in DocId \ {d} : CopiesAfter(e) = CopiesOf(e)
  <2>1. t \in Tx /\ (\A k \in tx[t].cut : copies[k] = d) /\ CopiesOf(d) \subseteq tx[t].cut
    BY <1>1, HandsOn
  <2> QED BY <1>2, <1>3, <1>5, <2>1, CommitReplacesOne
<1>7. PgRequeued(d)
  BY <1>2, <1>4, <1>6 DEF PgRequeued
<1>8. PgOnlyOn(d)
  BY <1>4, <1>6 DEF PgOnlyOn, PgSame
<1> QED BY <1>1, <1>7, <1>8 DEF PgDecided


\* Two rows are equal when their columns are.
LEMMA EqualRows ==
  ASSUME NEW r \in Row, NEW q \in Row,
         r.coll = q.coll, r.sha = q.sha, r.status = q.status, r.error = q.error,
         r.count = q.count, r.at = q.at
  PROVE  r = q
BY DEF Row

\* The columns of what the store assigns.
LEMMA IndexedColumns ==
  ASSUME NEW r \in Row, NEW n \in Nat
  PROVE  /\ IndexedRow(r, n).coll = r.coll /\ IndexedRow(r, n).sha = r.sha
         /\ IndexedRow(r, n).status = "indexed" /\ IndexedRow(r, n).error = ""
         /\ IndexedRow(r, n).count = n /\ IndexedRow(r, n).at = TRUE
BY DEF IndexedRow, Row

LEMMA FailedColumns ==
  ASSUME NEW r \in Row, NEW why \in Failure
  PROVE  /\ FailedRow(r, why).coll = r.coll /\ FailedRow(r, why).sha = r.sha
         /\ FailedRow(r, why).status = "failed" /\ FailedRow(r, why).error = why
         /\ FailedRow(r, why).count = 0 /\ FailedRow(r, why).at = FALSE
BY DEF FailedRow, Row

\* A row that has been read pending and is failed by now.
LEMMA SweptRows ==
  ASSUME NEW r \in Row, NEW seen \in Row, SeenOrSwept(seen, r), seen # r
  PROVE  /\ joined > 0
         /\ seen.status = "pending" /\ seen.error = "" /\ seen.count = 0 /\ seen.at = FALSE
         /\ r.status = "failed" /\ r.error = "interrupted" /\ r.count = 0 /\ r.at = FALSE
<1>1. /\ joined > 0
      /\ seen = FreshRow(r.coll, r.sha) /\ r = FailedRow(seen, "interrupted")
  BY DEF SeenOrSwept
<1>2. /\ seen.status = "pending" /\ seen.error = "" /\ seen.count = 0 /\ seen.at = FALSE
  BY <1>1 DEF FreshRow
<1>3. "interrupted" \in Failure
  BY DEF Failure
<1>4. /\ FailedRow(seen, "interrupted").status = "failed"
      /\ FailedRow(seen, "interrupted").error = "interrupted"
      /\ FailedRow(seen, "interrupted").count = 0
      /\ FailedRow(seen, "interrupted").at = FALSE
  BY <1>3, FailedColumns
<1> QED BY <1>1, <1>2, <1>4

LEMMA ErrorReplaced ==
  ASSUME NEW r \in Row, NEW e \in Error
  PROVE  LET q == [r EXCEPT !.error = e] IN
         /\ q \in Row /\ q.coll = r.coll /\ q.sha = r.sha /\ q.status = r.status
         /\ q.error = e /\ q.count = r.count /\ q.at = r.at
BY DEF Row

\* What a run that finishes writes, whatever a process that joined wrote.
LEMMA IndexedWrites ==
  ASSUME NEW r \in Row, NEW seen \in Row, SeenOrSwept(seen, r), NEW n \in Nat, n > 0
  PROVE  \/ seen = r /\ FlushIndexed(r, seen, n) = IndexedRow(r, n)
         \/ /\ joined > 0 /\ r.status = "failed"
            /\ \E e \in Error :
                 FlushIndexed(r, seen, n) = [IndexedRow(r, n) EXCEPT !.error = e]
<1>1. CASE seen = r
  BY <1>1, WritesOfCurrent DEF Failure
<1>2. CASE seen # r
  <2> DEFINE new == FlushIndexed(r, seen, n)
             f   == Flush(r, seen, IndexedRow(seen, n))
             q   == [IndexedRow(r, n) EXCEPT !.error = "interrupted"]
  <2>1. /\ joined > 0 /\ r.status = "failed" /\ r.error = "interrupted" /\ r.count = 0
        /\ seen.status = "pending" /\ seen.error = "" /\ seen.count = 0
    BY <1>2, SweptRows
  <2>2. /\ f.coll = r.coll /\ f.sha = r.sha /\ f.status = "indexed"
        /\ f.error = "interrupted" /\ f.count = n
    <3>1. /\ IndexedRow(seen, n).status = "indexed" /\ IndexedRow(seen, n).error = ""
          /\ IndexedRow(seen, n).count = n
      BY IndexedColumns
    <3> QED BY <2>1, <3>1 DEF Flush, Col
  <2>3. f \in Row
    BY AssignedRows, FlushedRows DEF Failure
  <2>4. new = [f EXCEPT !.at = TRUE]
    BY DEF FlushIndexed
  <2> HIDE DEF f, new
  <2>5. /\ new \in Row /\ new.coll = r.coll /\ new.sha = r.sha /\ new.status = "indexed"
        /\ new.error = "interrupted" /\ new.count = n /\ new.at = TRUE
    BY <2>2, <2>3, <2>4 DEF Row
  <2>6. IndexedRow(r, n) \in Row
    BY AssignedRows DEF Failure
  <2>7. /\ q \in Row /\ q.coll = r.coll /\ q.sha = r.sha /\ q.status = "indexed"
        /\ q.error = "interrupted" /\ q.count = n /\ q.at = TRUE
    <3> DEFINE i == IndexedRow(r, n)
    <3>1. /\ i \in Row /\ i.coll = r.coll /\ i.sha = r.sha /\ i.status = "indexed"
          /\ i.count = n /\ i.at = TRUE
      BY <2>6, IndexedColumns
    <3>2. "interrupted" \in Error
      BY DEF Error, Failure
    <3>3. q = [i EXCEPT !.error = "interrupted"]
      OBVIOUS
    <3> HIDE DEF i, q
    <3>4. LET p == [i EXCEPT !.error = "interrupted"] IN
          /\ p \in Row /\ p.coll = i.coll /\ p.sha = i.sha /\ p.status = i.status
          /\ p.error = "interrupted" /\ p.count = i.count /\ p.at = i.at
      BY <3>1, <3>2, ErrorReplaced
    <3> QED BY <3>1, <3>3, <3>4
  <2> HIDE DEF q
  <2>8. new = q
    BY <2>5, <2>7, EqualRows
  <2> QED BY <2>1, <2>8 DEF new, q, Error, Failure
<1> QED BY <1>1, <1>2

LEMMA FailedWrites ==
  ASSUME NEW r \in Row, NEW seen \in Row, SeenOrSwept(seen, r), NEW why \in Failure
  PROVE  Flush(r, seen, FailedRow(seen, why)) = FailedRow(r, why)
<1>1. CASE seen = r
  BY <1>1, WritesOfCurrent
<1>2. CASE seen # r
  <2> DEFINE f == Flush(r, seen, FailedRow(seen, why))
  <2>1. /\ r.status = "failed" /\ r.error = "interrupted" /\ r.count = 0 /\ r.at = FALSE
        /\ seen.status = "pending" /\ seen.error = "" /\ seen.count = 0 /\ seen.at = FALSE
    BY <1>2, SweptRows
  <2>2. why # ""
    BY DEF Failure
  <2>3. /\ f.coll = r.coll /\ f.sha = r.sha /\ f.status = "failed"
        /\ f.error = why /\ f.count = 0 /\ f.at = FALSE
    <3>1. /\ FailedRow(seen, why).status = "failed" /\ FailedRow(seen, why).error = why
          /\ FailedRow(seen, why).count = 0 /\ FailedRow(seen, why).at = FALSE
      BY FailedColumns
    <3> QED BY <2>1, <2>2, <3>1 DEF Flush, Col
  <2>4. f \in Row /\ FailedRow(r, why) \in Row
    BY AssignedRows, FlushedRows
  <2> DEFINE g == FailedRow(r, why)
  <2>5. /\ g.coll = r.coll /\ g.sha = r.sha /\ g.status = "failed"
        /\ g.error = why /\ g.count = 0 /\ g.at = FALSE
    BY FailedColumns
  <2> HIDE DEF f, g
  <2>6. f = g
    BY <2>3, <2>4, <2>5, EqualRows DEF g
  <2> QED BY <2>6 DEF f, g
<1> QED BY <1>1, <1>2

\* Where a transaction has nothing to delete and nothing to insert, no chunk row
\* moves.
LEMMA CommitOfNothing ==
  ASSUME PgShape, NEW x \in Tx, Commit(x), tx[x].cut = {}, tx[x].put = None
  PROVE  copies' = copies /\ \A d \in DocId : CopiesAfter(d) = CopiesOf(d)
<1>1. \A k \in Copy : copies'[k] = IF k \in tx[x].cut THEN None
                                   ELSE IF k = tx[x].put THEN loc[x].doc
                                   ELSE copies[k]
  BY CommittedCopies
<1>2. copies \in [Copy -> DocId \cup {None}] /\ copies' = [k \in Copy |-> copies'[k]]
  BY ShapeTypes DEF Commit
<1>3. \A k \in Copy : copies'[k] = copies[k]
  BY <1>1, CopyAssumption
<1>4. copies' = copies
  BY <1>2, <1>3
<1> QED BY <1>4 DEF CopiesAfter, CopiesOf

\* A row that is not indexed has no chunks in anybody's hand.
LEMMA NothingInHand ==
  ASSUME PgShape, PgInv, NEW t \in Task, loc[t].pc \in IndexPc \cup {"retry"},
         tx[t].stage # "none"
  PROVE  /\ tx[t].cut = {} /\ Working(t) /\ loc[t].doc \in DocId
         /\ CopiesOf(loc[t].doc) = {}
<1>1. Working(t) /\ t \in Tx
  BY DEF Working, AttemptPc, UploadPc, IndexPc, DocPc, Tx
<1>2. ~ (Live(loc[t].doc) /\ docs[loc[t].doc].status = "indexed")
  BY <1>1, PgWorkersFrame DEF PgOnItsRow
<1>3. CopiesOf(loc[t].doc) = {}
  BY <1>1, <1>2, PgWorkersFrame DEF PgWhole
<1>4. ASSUME NEW k \in tx[t].cut PROVE k \in Copy /\ copies[k] = loc[t].doc
  <2>1. k \in Copy /\ copies[k] # None
    BY <1>1, <1>4, ShapeParts, ShapeTypes DEF OneTx, Transaction
  <2> QED BY <1>4, <2>1 DEF PgInv, HoldsItsOwn, IndexPc
<1> QED BY <1>1, <1>3, <1>4, PgWorkersFrame DEF CopiesOf

LEMMA FinishEffects ==
  ASSUME PgShape, PgInv, NEW t \in Task, CommitFinish(t)
  PROVE  PgDecided(t) /\ PgOnlyOn(loc[t].doc)
<1> DEFINE d == loc[t].doc
           r == loc[t].seen
           n == Pieces[loc[t].sha]
<1>1. loc[t].pc = "fin_write" /\ tx[t].stage = "put" /\ t \in Tx /\ t # Other
  BY CopyAssumption DEF CommitFinish, In, At, Tx
<1>2. /\ tx[t].cut = {} /\ Working(t) /\ d \in DocId /\ CopiesOf(d) = {}
  BY <1>1, NothingInHand DEF IndexPc
<1>3. Live(d) /\ tx[t].put # None /\ tx[t].put \in Copy
  BY <1>1, ShapeParts, ShapeTypes DEF OneTx, StageFits, Transaction
<1>4. /\ docs[d] \in Row /\ docs[d].sha = loc[t].sha /\ SeenOrSwept(r, docs[d])
      /\ docs[d].status # "indexed" /\ (joined = 0 => docs[d].status = "pending")
      /\ n > 0 /\ n \in Nat
  BY <1>1, <1>2, <1>3, PgWorkersFrame, PiecesAssumption
     DEF PgOnItsRow, HasPieces, IndexPc
<1>5. r \in Row
  BY <1>1 DEF PgShape, TypeOK, FrameOK, WriteBackPc
<1>6. docs' = [docs EXCEPT ![d] = FlushIndexed(@, r, n)] /\ Commit(t)
  BY DEF CommitFinish
<1>7. docs'[d] = FlushIndexed(docs[d], r, n) /\ \A e \in DocId \ {d} : docs'[e] = docs[e]
  BY <1>2, <1>6, ShapeTypes
<1>8. /\ \A e \in DocId \ {d} : CopiesAfter(e) = CopiesOf(e)
      /\ CopiesAfter(d) = {tx[t].put}
  BY <1>1, <1>2, <1>3, <1>6, CommitReplacesOne
<1>9. \/ r = docs[d] /\ docs'[d] = IndexedRow(docs[d], n)
      \/ /\ joined > 0 /\ docs[d].status = "failed"
         /\ \E e \in Error : docs'[d] = [IndexedRow(docs[d], n) EXCEPT !.error = e]
  BY <1>4, <1>5, <1>7, IndexedWrites
<1>10. joined \in Nat
  BY JoinsAssumption DEF PgShape, PgTypeOK
<1>11. PgCompleted(d)
  BY <1>3, <1>4, <1>8, <1>9, <1>10 DEF PgCompleted
<1>12. PgOnlyOn(d)
  BY <1>7, <1>8 DEF PgOnlyOn, PgSame
<1> QED BY <1>2, <1>11, <1>12 DEF PgDecided

LEMMA FailureEffects ==
  ASSUME PgShape, PgInv, NEW t \in Task, CommitFailure(t)
  PROVE  \/ \A d \in DocId : PgSame(d)
         \/ PgDecided(t) /\ PgOnlyOn(loc[t].doc)
<1> DEFINE d == loc[t].doc
           r == loc[t].seen
           why == loc[t].why
<1>1. loc[t].pc = "fail_write" /\ tx[t].stage = "cut" /\ t \in Tx /\ t # Other
  BY CopyAssumption DEF CommitFailure, In, At, Tx
<1>2. tx[t].cut = {} /\ Working(t) /\ d \in DocId /\ CopiesOf(d) = {}
  BY <1>1, NothingInHand DEF IndexPc
<1>3. tx[t].put = None
  BY <1>1, ShapeParts DEF OneTx, StageFits
<1>4. Commit(t) => \A e \in DocId : CopiesAfter(e) = CopiesOf(e)
  BY <1>1, <1>2, <1>3, CommitOfNothing
<1>5. why \in Failure /\ r \in Row
  BY <1>1 DEF PgShape, TypeOK, FrameOK, WriteBackPc, CleanupPc
<1>c. (Live(d) \/ ~ Writes(t)) => Commit(t)
  BY DEF CommitFailure
<1>6. CASE Live(d)
  <2>1. /\ docs[d] \in Row /\ SeenOrSwept(r, docs[d])
        /\ docs[d].status # "indexed" /\ (joined = 0 => docs[d].status = "pending")
    BY <1>1, <1>2, <1>6, PgWorkersFrame DEF PgOnItsRow, IndexPc
  <2>3. docs' = [docs EXCEPT ![d] = Flush(@, r, FailedRow(r, why))] /\ Commit(t)
    BY <1>6 DEF CommitFailure
  <2>4. docs'[d] = FailedRow(docs[d], why) /\ \A e \in DocId \ {d} : docs'[e] = docs[e]
    BY <1>2, <1>5, <2>1, <2>3, FailedWrites, ShapeTypes
  <2>5. joined \in Nat
    BY JoinsAssumption DEF PgShape, PgTypeOK
  <2>6. PgGivenUp(d)
    BY <1>2, <1>4, <1>5, <1>6, <2>1, <2>3, <2>4, <2>5 DEF PgGivenUp
  <2>7. PgOnlyOn(d)
    BY <1>4, <2>3, <2>4 DEF PgOnlyOn, PgSame
  <2> QED BY <1>2, <2>6, <2>7 DEF PgDecided
<1>7. CASE ~ Live(d) /\ Commit(t)
  <2>1. docs' = docs
    BY <1>7 DEF CommitFailure, Rollback
  <2> QED BY <1>4, <1>7, <2>1 DEF PgSame
<1>8. CASE ~ Live(d) /\ ~ Commit(t)
  BY <1>8 DEF CommitFailure, Rollback, PgSame, CopiesAfter, CopiesOf
<1> QED BY <1>6, <1>7, <1>8

LEMMA DropEffects ==
  ASSUME PgShape, PgInv, NEW t \in Task, CommitDrop(t)
  PROVE  copies' = copies /\ docs' = docs
<1>1. loc[t].pc = "drop" /\ tx[t].stage = "cut" /\ t \in Tx /\ t # Other
  BY CopyAssumption DEF CommitDrop, In, At, Tx
<1>2. tx[t].cut = {} /\ tx[t].put = None
  BY <1>1, NothingInHand, ShapeParts DEF IndexPc, OneTx, StageFits
<1> QED BY <1>1, <1>2, CommitOfNothing DEF CommitDrop

\* A transaction that deletes documents has deleted all their chunks.
LEMMA RowsWithChunks ==
  ASSUME PgShape, NEW t \in Tx, Checking(t), Unseen(t) = {}
  PROVE  \A e \in tx[t].rows : CopiesOf(e) \subseteq tx[t].cut
BY DEF Unseen, CopiesOf

LEMMA DeletedEffects ==
  ASSUME PgShape, NEW t \in Tx, Commit(t), tx[t].put = None,
         NEW D \in SUBSET DocId, tx[t].rows \subseteq D,
         \A d \in D \ tx[t].rows : docs[d] = Gone,
         \A k \in tx[t].cut : copies[k] \in D,
         \A d \in D : CopiesOf(d) \subseteq tx[t].cut /\ (~ Live(d) => CopiesOf(d) = {}),
         docs' = [d \in DocId |-> IF d \in tx[t].rows THEN Gone ELSE docs[d]]
  PROVE  \A e \in DocId : PgSame(e) \/ PgRemoved(e)
<1>1. /\ \A e \in DocId \ D : CopiesAfter(e) = CopiesOf(e)
      /\ \A e \in D : CopiesAfter(e) = {}
  BY CommitReplaces
<1>2. \A e \in tx[t].rows : Live(e) /\ e \in DocId
  BY ShapeParts DEF OneTx
<1>3. ASSUME NEW e \in DocId \ D PROVE PgSame(e)
  BY <1>1, <1>3 DEF PgSame
<1>4. ASSUME NEW e \in tx[t].rows PROVE PgRemoved(e)
  BY <1>1, <1>2, <1>4 DEF PgRemoved
<1>5. ASSUME NEW e \in D \ tx[t].rows PROVE PgSame(e)
  <2>1. docs[e] = Gone /\ CopiesOf(e) = {} /\ docs'[e] = docs[e]
    BY <1>5 DEF Live
  <2> QED BY <1>1, <1>5, <2>1 DEF PgSame
<1> QED BY <1>3, <1>4, <1>5

LEMMA DeleteEffects ==
  ASSUME PgShape, PgInv, NEW t \in Task, CommitDelete(t)
  PROVE  \A e \in DocId : PgSame(e) \/ PgRemoved(e)
<1> DEFINE d == loc[t].doc
           D == tx[t].rows \cup {d}
<1>1. /\ loc[t].pc = "del_write" /\ tx[t].stage = "take" /\ t \in Tx /\ t # Other
      /\ tx[t].todo = {} /\ Commit(t)
      /\ docs' = [e \in DocId |-> IF e \in tx[t].rows THEN Gone ELSE docs[e]]
  BY CopyAssumption DEF CommitDelete, At, Checking, Tx
<1>2. d \in DocId /\ docs[d] # Unborn /\ PgWhole(d) /\ HoldsItsOwn(t)
  BY <1>1 DEF PgShape, TypeOK, FrameOK, DocPc, PgInv, Born
<1>3. OneTx(t) /\ tx[t].put = None /\ tx[t].rows \subseteq DocId
  BY <1>1, ShapeParts, ShapeTypes DEF OneTx, StageFits, Transaction
<1>4. d \in tx[t].rows \/ ~ Live(d)
  BY <1>1, <1>2 DEF HoldsItsOwn
<1>5. \A e \in tx[t].rows : CopiesOf(e) \subseteq tx[t].cut /\ Live(e)
  BY <1>1, <1>3, RowsWithChunks DEF CommitDelete, OneTx
<1>6. ~ Live(d) => CopiesOf(d) = {} /\ docs[d] = Gone
  BY <1>2 DEF PgWhole, Live
<1>7. \A k \in tx[t].cut : copies[k] \in D
  BY <1>1, HandsOn
<1>8. /\ D \in SUBSET DocId /\ tx[t].rows \subseteq D
      /\ \A e \in D \ tx[t].rows : docs[e] = Gone
      /\ \A e \in D : CopiesOf(e) \subseteq tx[t].cut /\ (~ Live(e) => CopiesOf(e) = {})
  BY <1>2, <1>3, <1>4, <1>5, <1>6
<1> HIDE DEF D
<1> QED BY <1>1, <1>3, <1>7, <1>8, DeletedEffects

LEMMA DeleteCollectionEffects ==
  ASSUME PgShape, PgInv, NEW t \in Task, CommitDeleteCollection(t)
  PROVE  \A e \in DocId : PgSame(e) \/ PgRemoved(e)
<1> DEFINE G == tx[t].rows
<1>1. /\ loc[t].pc = "c_drop" /\ tx[t].stage = "held" /\ t \in Tx /\ t # Other
      /\ Commit(t) /\ Targets(t) \subseteq G
      /\ docs' = [e \in DocId |-> IF e \in tx[t].rows THEN Gone ELSE docs[e]]
  BY CopyAssumption DEF CommitDeleteCollection, In, At, Tx
<1>2. OneTx(t) /\ tx[t].put = None /\ G \in SUBSET DocId /\ HoldsItsOwn(t)
  BY <1>1, ShapeParts, ShapeTypes DEF OneTx, StageFits, Transaction, PgInv
<1>3. ASSUME NEW k \in tx[t].cut PROVE copies[k] \in G
  <2>1. /\ k \in Copy /\ copies[k] # None /\ docs[copies[k]].coll = loc[t].coll
    BY <1>1, <1>3, HandsOn
  <2>2. copies[k] \in DocId /\ Live(copies[k])
    BY <2>1, CopiesAreOfIndexed
  <2>3. copies[k] \in Targets(t)
    BY <1>1, <2>1, <2>2 DEF Targets, Doing
  <2> QED BY <1>1, <2>3
<1>4. \A e \in G : CopiesOf(e) \subseteq tx[t].cut /\ Live(e)
  BY <1>1, <1>2 DEF HoldsItsOwn, OneTx
<1>5. \A e \in G \ tx[t].rows : docs[e] = Gone
  OBVIOUS
<1> QED BY <1>1, <1>2, <1>3, <1>4, <1>5, DeletedEffects

LEMMA InsertEffects ==
  ASSUME PgShape, PgInv, NEW t \in Task, Insert(t)
  PROVE  \/ \A d \in DocId : PgSame(d)
         \/ \E d \in DocId : PgAccepted(d) /\ PgOnlyOn(d)
<1>1. loc[t].coll \in CollId /\ loc[t].sha \in Sha
  BY DEF Insert, At, PgShape, TypeOK, FrameOK, AttemptPc, UploadPc
<1>2. copies' = copies
  BY DEF Insert
<1>3. ASSUME NEW n \in Fresh(DocId, docs),
             docs' = [docs EXCEPT ![n] = FreshRow(loc[t].coll, loc[t].sha)]
      PROVE  n \in DocId /\ PgAccepted(n) /\ PgOnlyOn(n)
  <2>1. n \in DocId /\ docs[n] = Unborn
    BY <1>3 DEF Fresh
  <2>2. CopiesOf(n) = {}
    BY <2>1 DEF PgInv, PgWhole, Live
  <2>3. /\ docs'[n] = FreshRow(loc[t].coll, loc[t].sha)
        /\ \A e \in DocId \ {n} : docs'[e] = docs[e]
    BY <1>3, <2>1, ShapeTypes
  <2>4. \A e \in DocId : CopiesAfter(e) = CopiesOf(e)
    BY <1>2 DEF CopiesAfter, CopiesOf
  <2> QED BY <1>1, <2>1, <2>2, <2>3, <2>4 DEF PgAccepted, PgOnlyOn, PgSame
<1>4. docs' = docs => \A d \in DocId : PgSame(d)
  BY <1>2 DEF PgSame, CopiesAfter, CopiesOf
<1> QED BY <1>3, <1>4 DEF Insert, InsertDocument

\* A process that starts fails what is pending, and moves no chunk row: a
\* document that waits has none.
LEMMA SweepEffects ==
  ASSUME PgShape, PgInv, FailPending
  PROVE  copies' = copies /\ \A d \in DocId : PgSame(d) \/ PgGivenUp(d)
<1>1. Other \in Tx /\ tx[Other].stage = "take" /\ OneTx(Other)
  BY ShapeParts DEF FailPending, Tx
<1>2. tx[Other].cut = {} /\ tx[Other].put = None /\ joined > 0
  BY <1>1 DEF PgInv, OneTx, StageFits, PgShape
<1>3. copies' = copies /\ \A d \in DocId : CopiesAfter(d) = CopiesOf(d)
  BY <1>1, <1>2, CommitOfNothing DEF FailPending
<1>4. ASSUME NEW d \in DocId, d \in tx[Other].rows PROVE PgGivenUp(d)
  <2>1. Live(d) /\ docs[d].status = "pending"
    BY <1>1, <1>4 DEF OneTx, StageFits
  <2>2. docs'[d] = FailedRow(docs[d], "interrupted")
    BY <1>4 DEF FailPending
  <2>3. CopiesOf(d) = {}
    BY <2>1 DEF PgInv, PgWhole
  <2>4. "interrupted" \in Failure
    BY DEF Failure
  <2> QED BY <1>2, <1>3, <2>1, <2>2, <2>3, <2>4 DEF PgGivenUp
<1>5. ASSUME NEW d \in DocId, d \notin tx[Other].rows PROVE PgSame(d)
  BY <1>3, <1>5 DEF FailPending, PgSame
<1> QED BY <1>3, <1>4, <1>5

LEMMA StartupEffects ==
  ASSUME PgShape, PgInv, PgStartup
  PROVE  /\ copies' = copies
         /\ \A d \in DocId : IF Undecided(d) THEN PgGivenUp(d) ELSE PgSame(d)
<1>1. ASSUME NEW k \in Copy PROVE copies[k] \notin Targets(Other)
  <2>1. copies[k] # None => docs[copies[k]].status = "indexed"
    BY CopiesAreOfIndexed
  <2> QED BY <2>1, SentinelAssumption DEF Targets, Doing
<1>2. \A k \in Copy : copies'[k] = copies[k]
  BY <1>1 DEF PgStartup
<1>3. copies' = copies
  BY <1>2, ShapeTypes DEF PgStartup
<1>4. \A d \in DocId : CopiesAfter(d) = CopiesOf(d)
  BY <1>3 DEF CopiesAfter, CopiesOf
<1>5. ASSUME NEW d \in DocId, Undecided(d) PROVE PgGivenUp(d)
  <2>1. docs'[d] = FailedRow(docs[d], "interrupted")
    BY <1>5 DEF Undecided, PgStartup, Startup
  <2>2. CopiesOf(d) = {}
    BY <1>5 DEF Undecided, PgInv, PgWhole
  <2>3. "interrupted" \in Failure
    BY DEF Failure
  <2> QED BY <1>4, <1>5, <2>1, <2>2, <2>3 DEF Undecided, PgGivenUp
<1>6. ASSUME NEW d \in DocId, ~ Undecided(d) PROVE PgSame(d)
  BY <1>4, <1>6 DEF Undecided, PgStartup, Startup, PgSame
<1> QED BY <1>3, <1>5, <1>6

\* A statement that does not end a transaction changes no table.
LEMMA QuietStatements ==
  ASSUME NEW x \in Tx, \/ DeleteChunks(x) \/ DeleteChunk(x) \/ LockDocuments(x)
                       \/ LockDocument(x) \/ InsertChunks(x) \/ RefuseDelete(x)
                       \/ DeleteOwned(x) \/ HoldCollection(x) \/ Victim(x)
                       \/ PgDatabaseError(x)
  PROVE  docs' = docs /\ copies' = copies
BY DEF DeleteChunks, DeleteChunk, LockDocuments, LockDocument, InsertChunks, RefuseDelete,
       DeleteOwned, HoldCollection, Victim, PgDatabaseError, Rollback

\* The step of a task adds one document, decides its own, or deletes.
LEMMA PgTaskEffects ==
  ASSUME PgShape, PgInv, NEW t \in Task, Read(t) \/ Statement(t) \/ PgDatabaseError(t)
  PROVE  \/ \A d \in DocId : PgSame(d) \/ PgRemoved(d)
         \/ \E d \in DocId : PgAccepted(d) /\ PgOnlyOn(d)
         \/ PgDecided(t) /\ PgOnlyOn(loc[t].doc)
<1>t. t \in Tx
  BY DEF Tx
<1>1. docs' = docs /\ copies' = copies => \A d \in DocId : PgSame(d)
  BY DEF PgSame, CopiesAfter, CopiesOf
<1>2. CASE Read(t)
  BY <1>1, <1>2, ReadersHoldNothing DEF Read
<1>3. CASE PgDatabaseError(t) \/ Victim(t) \/ DeleteChunks(t) \/ InsertChunks(t)
           \/ DeleteOwned(t) \/ HoldCollection(t) \/ RefuseDelete(t)
  BY <1>t, <1>1, <1>3, QuietStatements
<1>4. CASE CommitReset(t)
  <2>1. CASE Live(loc[t].doc)
    BY <1>4, <2>1, ResetEffects
  <2>2. CASE ~ Live(loc[t].doc)
    BY <1>1, <1>4, <2>2 DEF CommitReset, Rollback
  <2> QED BY <2>1, <2>2
<1>5. CASE CommitFinish(t) \/ CommitFailure(t)
  BY <1>5, FinishEffects, FailureEffects
<1>6. CASE CommitDrop(t)
  BY <1>1, <1>6, DropEffects
<1>7. CASE CommitDelete(t) \/ CommitDeleteCollection(t)
  BY <1>7, DeleteEffects, DeleteCollectionEffects
<1>8. CASE Insert(t)
  BY <1>8, InsertEffects
<1> QED BY <1>2, <1>3, <1>4, <1>5, <1>6, <1>7, <1>8 DEF Statement

LEMMA PgEffects ==
  ASSUME PgShape, PgInv, [PgNext]_pgvars, NEW d \in DocId
  PROVE  PgSame(d) \/ PgAccepted(d) \/ PgRequeued(d) \/ PgCompleted(d) \/ PgGivenUp(d)
         \/ PgRemoved(d)
<1>1. docs' = docs /\ copies' = copies => PgSame(d)
  BY DEF PgSame, CopiesAfter, CopiesOf
<1>2. ASSUME NEW t \in Task, Read(t) \/ Statement(t) \/ PgDatabaseError(t)
      PROVE  PgSame(d) \/ PgAccepted(d) \/ PgRequeued(d) \/ PgCompleted(d) \/ PgGivenUp(d)
             \/ PgRemoved(d)
  BY <1>2, PgTaskEffects DEF PgDecided, PgOnlyOn
<1>3. CASE Join \/ Continue
  BY <1>1, <1>3, QuietStatements DEF Join, Continue, Tx
<1>4. CASE SweepFails \/ PgCrash \/ UNCHANGED pgvars
  BY <1>1, <1>4 DEF SweepFails, Rollback, PgCrash, Crash, db, pgvars, vars
<1>5. CASE FailPending \/ PgStartup
  BY <1>5, SweepEffects, StartupEffects
<1> QED BY <1>2, <1>3, <1>4, <1>5 DEF PgNext

-----------------------------------------------------------------------------
(* Documents stay whole.                                                   *)

LEMMA JoinedGrows ==
  ASSUME PgShape, [PgNext]_pgvars
  PROVE  /\ joined \in Nat /\ joined' \in Nat
         /\ joined > 0 => joined' > 0
         /\ joined' = joined \/ Join
<1>1. joined \in Nat
  BY JoinsAssumption DEF PgShape, PgTypeOK
<1>2. joined' = joined \/ (Join /\ joined' = joined + 1)
  BY DEF PgNext, Join, pgvars
<1> QED BY <1>1, <1>2

\* What the row of a completed document says.
LEMMA CompletedColumns ==
  ASSUME NEW d \in DocId, docs[d] \in Row, PgCompleted(d)
  PROVE  /\ docs'[d] \in Row
         /\ docs'[d].coll = docs[d].coll /\ docs'[d].sha = docs[d].sha
         /\ docs'[d].status = "indexed" /\ docs'[d].count = Pieces[docs[d].sha]
         /\ docs'[d].at = TRUE /\ (docs'[d].error = "" \/ joined > 0)
         /\ docs'[d].count \in Nat /\ docs'[d].count > 0
<1> DEFINE n == Pieces[docs[d].sha]
           i == IndexedRow(docs[d], n)
<1>1. n \in Nat /\ n > 0
  BY PiecesAssumption DEF PgCompleted, Row
<1>2. /\ i \in Row /\ i.coll = docs[d].coll /\ i.sha = docs[d].sha
      /\ i.status = "indexed" /\ i.error = "" /\ i.count = n /\ i.at = TRUE
  BY <1>1, AssignedRows, IndexedColumns DEF Failure
<1>3. CASE docs'[d] = i
  BY <1>1, <1>2, <1>3
<1>4. ASSUME joined > 0, NEW e \in Error, docs'[d] = [i EXCEPT !.error = e]
      PROVE  /\ docs'[d] \in Row
             /\ docs'[d].coll = docs[d].coll /\ docs'[d].sha = docs[d].sha
             /\ docs'[d].status = "indexed" /\ docs'[d].count = n
             /\ docs'[d].at = TRUE /\ (docs'[d].error = "" \/ joined > 0)
  <2> DEFINE q == [i EXCEPT !.error = e]
  <2> HIDE DEF i
  <2>1. /\ q \in Row /\ q.coll = i.coll /\ q.sha = i.sha /\ q.status = i.status
        /\ q.error = e /\ q.count = i.count /\ q.at = i.at
    BY <1>2, ErrorReplaced
  <2> QED BY <1>2, <1>4, <2>1
<1> HIDE DEF i
<1> QED BY <1>1, <1>3, <1>4 DEF PgCompleted, i

\* A document that is there before and after a step keeps its collection and
\* its bytes.
LEMMA ColumnsStay ==
  ASSUME PgShape, PgInv, [PgNext]_pgvars, NEW d \in DocId, Live(d),
         docs'[d] \notin {Unborn, Gone}
  PROVE  docs'[d].coll = docs[d].coll /\ docs'[d].sha = docs[d].sha
<1>1. docs[d] \in Row
  BY ShapeTypes DEF Live
<1>3. CASE PgSame(d) \/ PgAccepted(d) \/ PgRemoved(d)
  BY <1>3 DEF PgSame, PgAccepted, PgRemoved, Live
<1>4. CASE PgRequeued(d)
  BY <1>1, <1>4 DEF PgRequeued, ResetRow, Row
<1>5. CASE PgGivenUp(d)
  <2>1. PICK why \in Failure : docs'[d] = FailedRow(docs[d], why)
    BY <1>5 DEF PgGivenUp
  <2>2. /\ FailedRow(docs[d], why).coll = docs[d].coll
        /\ FailedRow(docs[d], why).sha = docs[d].sha
    BY <1>1, FailedColumns
  <2> QED BY <2>1, <2>2
<1>6. CASE PgCompleted(d)
  BY <1>1, <1>6, CompletedColumns
<1> QED BY <1>3, <1>4, <1>5, <1>6, PgEffects

LEMMA PgWholeStep ==
  ASSUME PgShape, PgInv, [PgNext]_pgvars, NEW d \in DocId
  PROVE  PgWhole(d)'
<1>t. docs[d] \in Row \cup {Unborn, Gone} /\ PgWhole(d)
  BY ShapeTypes DEF PgInv
<1>r. Live(d) => docs[d] \in Row
  BY <1>t DEF Live
<1>j. joined \in Nat /\ joined' \in Nat /\ (joined > 0 => joined' > 0)
  BY JoinedGrows
<1>c. CopiesOf(d)' = CopiesAfter(d)
  BY DEF CopiesOf, CopiesAfter
<1>1. CASE PgSame(d)
  <2>1. docs'[d] = docs[d] /\ CopiesOf(d)' = CopiesOf(d) /\ (joined' = 0 => joined = 0)
    BY <1>1, <1>j, <1>c DEF PgSame
  <2> QED BY <1>t, <2>1 DEF PgWhole, Live
<1>2. CASE PgAccepted(d)
  <2>1. PICK c \in CollId, s \in Sha : docs'[d] = FreshRow(c, s)
    BY <1>2 DEF PgAccepted
  <2> DEFINE r == FreshRow(c, s)
  <2>2. r.status = "pending" /\ r.error = "" /\ r.count = 0 /\ ~ r.at
    BY DEF FreshRow
  <2> HIDE DEF r
  <2> QED BY <1>2, <1>c, <2>1, <2>2 DEF PgAccepted, PgWhole, r
<1>3. CASE PgRequeued(d)
  <2>1. /\ ResetRow(docs[d]).status = "pending" /\ ResetRow(docs[d]).error = ""
        /\ ResetRow(docs[d]).count = 0 /\ ResetRow(docs[d]).at = FALSE
    BY <1>3, <1>r DEF PgRequeued, ResetRow, Row
  <2> QED BY <1>3, <1>c, <2>1 DEF PgRequeued, PgWhole
<1>4. CASE PgCompleted(d)
  <2>1. joined' = 0 => joined = 0
    BY <1>j
  <2>2. /\ docs'[d] \in Row /\ docs'[d].sha = docs[d].sha /\ docs'[d].status = "indexed"
        /\ docs'[d].count = Pieces[docs[d].sha] /\ docs'[d].count > 0
        /\ docs'[d].at = TRUE /\ (joined = 0 => docs'[d].error = "")
    <3>1. docs[d] \in Row
      BY <1>4, <1>r DEF PgCompleted
    <3>2. /\ docs'[d] \in Row /\ docs'[d].sha = docs[d].sha /\ docs'[d].status = "indexed"
          /\ docs'[d].count = Pieces[docs[d].sha] /\ docs'[d].count > 0
          /\ docs'[d].at = TRUE /\ (docs'[d].error = "" \/ joined > 0)
      BY <1>4, <3>1, CompletedColumns
    <3>3. joined = 0 => ~ (joined > 0)
      BY <1>j
    <3> QED BY <3>2, <3>3
  <2>3. Live(d)'
    BY <2>2, SentinelAssumption DEF Live
  <2>4. \E k \in Copy : CopiesOf(d)' = {k}
    BY <1>4, <1>c DEF PgCompleted
  <2> QED BY <2>1, <2>2, <2>3, <2>4 DEF PgWhole
<1>5. CASE PgGivenUp(d)
  <2>1. PICK why \in Failure : docs'[d] = FailedRow(docs[d], why)
    BY <1>5 DEF PgGivenUp
  <2>2. /\ FailedRow(docs[d], why).status = "failed" /\ FailedRow(docs[d], why).error = why
        /\ FailedRow(docs[d], why).count = 0 /\ FailedRow(docs[d], why).at = FALSE
    BY <1>5, <1>r, FailedColumns DEF PgGivenUp
  <2>3. why # ""
    BY DEF Failure
  <2> QED BY <1>5, <1>c, <2>1, <2>2, <2>3 DEF PgGivenUp, PgWhole
<1>6. CASE PgRemoved(d)
  BY <1>6, <1>c DEF PgRemoved, PgWhole, Live
<1> QED BY <1>1, <1>2, <1>3, <1>4, <1>5, <1>6, PgEffects

-----------------------------------------------------------------------------
(* Transactions hold their own.                                            *)

LEMMA MovedCopies ==
  ASSUME PgShape, NEW x \in Tx, Commit(x) \/ copies' = copies, NEW k \in Copy
  PROVE  \/ copies'[k] = copies[k]
         \/ k \in tx[x].cut /\ copies'[k] = None
         \/ k = tx[x].put /\ copies'[k] = loc[x].doc
BY CommittedCopies

\* Who is in a deadlock is in a transaction.
LEMMA VictimsAreIn ==
  ASSUME NEW t \in Task, Victim(t)
  PROVE  tx[t].stage # "none"
BY DEF Victim, Deadlocked, Open

\* A task moves its own frame and its own transaction.
LEMMA OwnMoves ==
  ASSUME PgShape, NEW t \in Task, Read(t) \/ Statement(t) \/ PgDatabaseError(t)
  PROVE  /\ Commit(t) \/ copies' = copies
         /\ \A y \in Tx \ {t} : tx'[y] = tx[y]
         /\ \A u \in Task \ {t} : loc'[u] = loc[u]
         /\ up /\ up' = up
<1>t. /\ t \in Tx /\ tx \in [Tx -> Transaction] /\ loc \in [Task -> Frame]
      /\ TypeOK
  BY ShapeTypes DEF Tx, PgShape
<1>o. Finish(t) \/ Raise(t) \/ Enter(t) \/ (\E p : Goto(t, p)) \/ loc' = loc
        => \A u \in Task \ {t} : loc'[u] = loc[u]
  BY <1>t, OwnFrame
<1>1. CASE Read(t)
  <2>1. Arrive(t) \/ Step(t)
    BY <1>1, ReadersHoldNothing
  <2>2. loc'[t] = loc'[t] /\ \A u \in Task \ {t} : loc'[u] = loc[u]
    BY <1>t, <2>1, StepBecomes DEF Become
  <2>3. up
    BY <1>1 DEF Read, StartCreateCollection, StartDeleteCollection, StartUpload,
                StartReindex, StartDeleteDocument, CreateCollection, LookupExisting,
                RereadExisting, ReplyDuplicate, ReadForPending, GetDocument, ReadAndChunk,
                Embed, ReadOwner, ReadToFinish, ReadToFail, At
  <2> QED BY <1>1, <2>1, <2>2, <2>3, TaskKeepsUp DEF Read
<1>2. CASE PgDatabaseError(t)
  BY <1>t, <1>o, <1>2 DEF PgDatabaseError, DatabaseError, Rollback, Raise
<1>3. CASE Statement(t)
  <2>u. up' = up
    BY <1>3 DEF Statement, NoFault
  <2>1. CASE up /\ loc[t].pc \in WritePc /\ DeleteChunks(t)
    BY <1>t, <2>u, <2>1 DEF DeleteChunks
  <2>2. CASE CommitReset(t) \/ InsertChunks(t) \/ CommitFinish(t)
    BY <1>t, <1>o, <2>u, <2>2
       DEF CommitReset, InsertChunks, CommitFinish, Commit, Rollback, In, At
  <2>3. CASE CommitDrop(t) \/ CommitFailure(t) \/ CommitDelete(t)
    BY <1>t, <1>o, <2>u, <2>3
       DEF CommitDrop, CommitFailure, CommitDelete, Commit, Rollback, In, At
  <2>4. CASE DeleteOwned(t) \/ HoldCollection(t) \/ CommitDeleteCollection(t)
    BY <1>t, <1>o, <2>u, <2>4
       DEF DeleteOwned, HoldCollection, CommitDeleteCollection, Commit, Rollback, In, At
  <2>5. CASE Insert(t)
    BY <1>t, <1>o, <2>u, <2>5 DEF Insert, InsertDocument, Goto, Become, At
  <2>6. CASE Victim(t) \/ RefuseDelete(t)
    <3>1. tx[t].stage # "none"
      BY <2>6, VictimsAreIn DEF RefuseDelete, Checking, In
    <3>2. up
      BY <1>t, <3>1, ShapeParts, CopyAssumption DEF OneTx
    <3> QED BY <1>t, <1>o, <2>u, <2>6, <3>2 DEF Victim, RefuseDelete, Rollback
  <2> QED BY <1>3, <2>1, <2>2, <2>3, <2>4, <2>5, <2>6 DEF Statement
<1> QED BY <1>1, <1>2, <1>3

LEMMA NothingHeld ==
  ASSUME NEW t \in Task, tx'[t] = NoTx PROVE HoldsItsOwn(t)'
<1>1. NoTx.stage = "none" /\ NoTx.cut = {} /\ NoTx.want = {}
  BY DEF NoTx
<1> QED BY <1>1 DEF HoldsItsOwn

\* What another transaction commits leaves what a task holds alone.
LEMMA OthersHold ==
  ASSUME PgShape, PgInv, PgShape', (\A d \in DocId : PgWhole(d))', [PgNext]_pgvars,
         NEW x \in Tx, Commit(x) \/ copies' = copies,
         NEW u \in Task, u # x, tx'[u] = tx[u], loc'[u] = loc[u],
         tx[x].put # None /\ tx[u].stage # "none" /\ Attempting(u)
           => loc[u].doc # loc[x].doc
  PROVE  HoldsItsOwn(u)'
<1> DEFINE d    == loc[u].doc
           held == tx[u].cut \cup tx[u].want
<1>1. u \in Tx /\ u # Other
  BY CopyAssumption DEF Tx
<1>2. /\ OneTx(u) /\ OneTx(x) /\ Apart(x, u) /\ HoldsItsOwn(u)
      /\ tx[u] \in Transaction /\ tx[x] \in Transaction
  BY <1>1, ShapeParts, ShapeTypes DEF PgInv
<1>3. held \subseteq Copy /\ tx[u].rows \subseteq DocId
  BY <1>2 DEF Transaction
<1>4. tx[x].put # None => tx[x].put \notin held /\ loc[x].doc \notin tx[u].rows
  BY <1>1, <1>2 DEF OneTx, Apart
<1>5. ASSUME NEW k \in held, copies'[k] # None PROVE copies'[k] = copies[k]
  BY <1>3, <1>4, <1>5, MovedCopies, CopyAssumption
<1>7. ASSUME NEW e \in DocId, NEW k \in Copy, copies'[k] = e
      PROVE  copies[k] = e \/ (tx[x].put # None /\ e = loc[x].doc)
  BY <1>7, MovedCopies, CopyAssumption, SentinelAssumption
<1>8. ASSUME tx[u].stage # "none", loc[u].pc # "c_drop",
             NEW k \in held, copies'[k] # None
      PROVE  copies'[k] = d
  BY <1>2, <1>5, <1>8 DEF HoldsItsOwn
<1>9. ASSUME tx[u].stage # "none", Attempting(u), NEW k \in Copy, copies'[k] = d
      PROVE  k \in held
  <2>1. d \in DocId
    BY <1>1, <1>2, <1>9, WritersFrame
       DEF OneTx, PgShape, Attempting, AttemptPc, UploadPc, ReindexPc, IndexPc
  <2>2. copies[k] = d
    BY <1>7, <1>9, <2>1
  <2> QED BY <1>2, <1>9, <2>2 DEF HoldsItsOwn, CopiesOf
<1>10. ASSUME loc[u].pc = "c_drop", NEW k \in held, copies'[k] # None
       PROVE  docs'[copies'[k]].coll = loc[u].coll
  <2>1. copies[k] = copies'[k] /\ k \in Copy /\ docs[copies[k]].coll = loc[u].coll
    BY <1>2, <1>3, <1>5, <1>10 DEF HoldsItsOwn
  <2>2. copies[k] \in DocId /\ Live(copies[k])
    BY <1>10, <2>1, CopiesAreOfIndexed
  <2>3. k \in CopiesOf(copies[k])'
    BY <2>1 DEF CopiesOf
  <2> DEFINE e == copies[k]
  <2>4. e \in DocId /\ Live(e) /\ copies'[k] = e
    BY <2>1, <2>2
  <2> HIDE DEF e
  <2>5. docs'[e] \notin {Unborn, Gone}
    BY <1>3, <1>10, <2>4 DEF PgWhole, CopiesOf, Live
  <2>6. docs'[e].coll = docs[e].coll
    BY <2>4, <2>5, ColumnsStay
  <2> QED BY <2>1, <2>6 DEF e
<1>11. ASSUME tx[u].stage \in {"gone", "held"}, NEW e \in tx[u].rows, NEW k \in Copy,
              copies'[k] = e
       PROVE  k \in tx[u].cut
  BY <1>2, <1>3, <1>4, <1>7, <1>11 DEF HoldsItsOwn, CopiesOf
<1>12. ASSUME loc[u].pc = "del_write", tx[u].stage = "take",
              d \notin tx[u].todo \cup tx[u].rows
       PROVE  ~ Live(d)'
  <2>1. d \in DocId /\ docs[d] # Unborn /\ ~ Live(d)
    BY <1>2, <1>12 DEF PgShape, TypeOK, FrameOK, DocPc, PgInv, Born, HoldsItsOwn
  <2>2. PgSame(d)
    BY <2>1, PgEffects DEF PgAccepted, PgRequeued, PgCompleted, PgGivenUp, PgRemoved
  <2> QED BY <2>1, <2>2 DEF PgSame, Live
<1> QED BY <1>8, <1>9, <1>10, <1>11, <1>12 DEF HoldsItsOwn, CopiesOf, Attempting

\* The first statement of a transaction takes all it sees into its hands.
LEMMA DeleteHolds ==
  ASSUME PgShape, PgInv, NEW t \in Task, loc[t].pc \in WritePc, DeleteChunks(t)
  PROVE  HoldsItsOwn(t)'
<1> DEFINE d    == loc[t].doc
           seen == {k \in Copy : copies[k] \in Targets(t)}
<1>1. t \in Tx /\ t # Other /\ tx \in [Tx -> Transaction]
  BY ShapeTypes, CopyAssumption DEF Tx
<1>2. tx' = [tx EXCEPT ![t] = [NoTx EXCEPT
        !.want = seen, !.stage = IF seen = {} THEN "cut" ELSE "wait"]]
  BY DEF DeleteChunks
<1>3. UNCHANGED <<docs, copies, loc>>
  BY DEF DeleteChunks
<1>4. /\ tx'[t].cut = {} /\ tx'[t].want = seen /\ tx'[t].stage \in {"cut", "wait"}
  BY <1>1, <1>2 DEF NoTx
<1>5. tx'[t].cut \cup tx'[t].want = seen
  BY <1>4
<1>6. loc[t].pc # "c_drop" => Targets(t) = {d}
  BY <1>1 DEF Targets, Doing, WritePc
<1>7. loc[t].pc = "c_drop" => \A e \in Targets(t) : docs[e].coll = loc[t].coll
  BY <1>1 DEF Targets, Doing
<1>8. loc[t].pc # "c_drop" =>
        (\A k \in seen : copies[k] = d) /\ (\A k \in Copy : copies[k] = d => k \in seen)
  BY <1>6
<1>9. loc[t].pc = "c_drop" => \A k \in seen : docs[copies[k]].coll = loc[t].coll
  BY <1>7
<1>10. loc[t].pc = "c_drop" => ~ Attempting(t)
  BY DEF Attempting, AttemptPc, UploadPc, ReindexPc, IndexPc
<1> HIDE DEF seen
<1> QED BY <1>3, <1>4, <1>5, <1>8, <1>9, <1>10 DEF HoldsItsOwn, CopiesOf, Attempting

LEMMA ChunkHolds ==
  ASSUME PgShape, PgInv, NEW t \in Task, DeleteChunk(t)
  PROVE  HoldsItsOwn(t)'
<1> DEFINE d == loc[t].doc
<1>1. t \in Tx /\ t # Other /\ tx \in [Tx -> Transaction]
  BY ShapeTypes, CopyAssumption DEF Tx
<1>2. /\ OneTx(t) /\ HoldsItsOwn(t) /\ tx[t].stage = "wait" /\ TypeOK
      /\ loc[t].pc \in WritePc
  BY <1>1, ShapeParts DEF PgInv, DeleteChunk, PgShape, OneTx
<1>3. UNCHANGED <<docs, copies, loc>>
  BY DEF DeleteChunk
<1>4. PICK k \in tx[t].want :
        tx' = [tx EXCEPT
          ![t].want  = @ \ {k},
          ![t].cut   = IF copies[k] # None THEN @ \cup {k} ELSE @,
          ![t].stage = IF tx[t].want = {k} THEN "cut" ELSE "wait"]
  BY DEF DeleteChunk
<1>5. /\ tx'[t].stage \in {"cut", "wait"} /\ tx'[t].want = tx[t].want \ {k}
      /\ tx'[t].cut = IF copies[k] # None THEN tx[t].cut \cup {k} ELSE tx[t].cut
  <2> DEFINE more == IF copies[k] # None THEN tx[t].cut \cup {k} ELSE tx[t].cut
             s    == IF tx[t].want = {k} THEN "cut" ELSE "wait"
  <2>1. tx' = [tx EXCEPT ![t].want = tx[t].want \ {k}, ![t].cut = more, ![t].stage = s]
    BY <1>1, <1>4
  <2>2. s \in {"cut", "wait"}
    OBVIOUS
  <2> HIDE DEF more, s
  <2>3. /\ tx'[t].stage = s /\ tx'[t].want = tx[t].want \ {k} /\ tx'[t].cut = more
    BY <1>1, <2>1 DEF Transaction
  <2> QED BY <2>2, <2>3 DEF more
<1>k. k \in tx[t].want
  BY <1>4
<1>6. ASSUME NEW j \in tx'[t].cut \cup tx'[t].want
      PROVE  j \in tx[t].cut \cup tx[t].want
  BY <1>k, <1>5, <1>6
<1>7. ASSUME Attempting(t), NEW j \in Copy, copies[j] = d
      PROVE  j \in tx'[t].cut \cup tx'[t].want
  <2>1. d \in DocId
    BY <1>2, <1>7, WritersFrame DEF Attempting, AttemptPc, UploadPc, ReindexPc, IndexPc
  <2>2. j \in tx[t].cut \cup tx[t].want
    BY <1>2, <1>7 DEF HoldsItsOwn, CopiesOf
  <2>3. copies[j] # None
    BY <1>7, <2>1, SentinelAssumption
  <2> QED BY <1>5, <2>2, <2>3
<1>8. ASSUME loc[t].pc # "c_drop", NEW j \in tx'[t].cut \cup tx'[t].want, copies[j] # None
      PROVE  copies[j] = d
  BY <1>2, <1>6, <1>8 DEF HoldsItsOwn
<1>9. ASSUME loc[t].pc = "c_drop", NEW j \in tx'[t].cut \cup tx'[t].want, copies[j] # None
      PROVE  docs[copies[j]].coll = loc[t].coll
  BY <1>2, <1>6, <1>9 DEF HoldsItsOwn
<1> QED BY <1>3, <1>5, <1>7, <1>8, <1>9 DEF HoldsItsOwn, CopiesOf, Attempting

\* A transaction that goes on with documents keeps the chunks it has deleted.
LEMMA KeepsChunks ==
  ASSUME PgInv, NEW t \in Task, UNCHANGED <<docs, copies, loc>>, tx[t].stage # "none",
         tx'[t].cut = tx[t].cut, tx'[t].want = tx[t].want,
         loc[t].pc = "del_write" /\ tx'[t].stage = "take" =>
           loc[t].doc \in tx'[t].todo \cup tx'[t].rows \/ ~ Live(loc[t].doc),
         tx'[t].stage \in {"gone", "held"} =>
           \A e \in tx'[t].rows : CopiesOf(e) \subseteq tx[t].cut
  PROVE  HoldsItsOwn(t)'
BY DEF PgInv, HoldsItsOwn, CopiesOf, Attempting, Live

LEMMA LockHolds ==
  ASSUME PgShape, PgInv, NEW t \in Task, LockDocuments(t) \/ LockDocument(t)
  PROVE  HoldsItsOwn(t)'
<1> DEFINE d == loc[t].doc
<1>1. t \in Tx /\ t # Other /\ tx \in [Tx -> Transaction] /\ HoldsItsOwn(t)
  BY ShapeTypes, CopyAssumption DEF Tx, PgInv
<1>2. UNCHANGED <<docs, copies, loc>> /\ tx[t].stage \in {"cut", "take"}
  BY DEF LockDocuments, LockDocument
<1>3. loc[t].pc = "del_write" => Targets(t) = {d}
  BY <1>1 DEF Targets, Doing
<1>4. CASE LockDocuments(t)
  <2>1. /\ tx'[t].cut = tx[t].cut /\ tx'[t].want = tx[t].want
        /\ tx'[t].stage = "take" /\ tx'[t].todo = Targets(t)
    BY <1>1, <1>4 DEF LockDocuments, Transaction
  <2> QED BY <1>2, <1>3, <2>1, KeepsChunks
<1>5. CASE LockDocument(t)
  <2>1. PICK e \in tx[t].todo :
          tx' = [tx EXCEPT
            ![t].todo = @ \ {e},
            ![t].rows = IF e \in Targets(t) /\ Live(e) THEN @ \cup {e} ELSE @]
    BY <1>5 DEF LockDocument
  <2>2. /\ tx'[t].cut = tx[t].cut /\ tx'[t].want = tx[t].want
        /\ tx'[t].stage = tx[t].stage /\ tx'[t].todo = tx[t].todo \ {e}
        /\ tx'[t].rows = IF e \in Targets(t) /\ Live(e) THEN tx[t].rows \cup {e}
                                                      ELSE tx[t].rows
    BY <1>1, <2>1 DEF Transaction
  <2>3. tx[t].stage = "take"
    BY <1>5 DEF LockDocument
  <2>4. loc[t].pc = "del_write" => d \in tx'[t].todo \cup tx'[t].rows \/ ~ Live(d)
    BY <1>1, <1>3, <2>2, <2>3 DEF HoldsItsOwn
  <2> QED BY <1>2, <2>2, <2>3, <2>4, KeepsChunks
<1> QED BY <1>4, <1>5

LEMMA InsertChunksHolds ==
  ASSUME PgShape, PgInv, NEW t \in Task, InsertChunks(t)
  PROVE  HoldsItsOwn(t)'
<1>1. t \in Tx /\ tx \in [Tx -> Transaction]
  BY ShapeTypes DEF Tx
<1>2. CASE Live(loc[t].doc)
  <2>1. PICK k \in FreshCopies : tx' = [tx EXCEPT ![t].stage = "put", ![t].put = k]
    BY <1>2 DEF InsertChunks
  <2>2. UNCHANGED <<docs, copies, loc>>
    BY <1>2 DEF InsertChunks
  <2>3. /\ tx'[t].cut = tx[t].cut /\ tx'[t].want = tx[t].want /\ tx'[t].stage = "put"
        /\ tx[t].stage # "none"
    BY <1>1, <2>1 DEF InsertChunks, In, Transaction
  <2> QED BY <2>2, <2>3, KeepsChunks
<1>3. CASE ~ Live(loc[t].doc)
  BY <1>1, <1>3, NothingHeld DEF InsertChunks, Rollback
<1> QED BY <1>2, <1>3

LEMMA DeleteOwnedHolds ==
  ASSUME PgShape, PgInv, NEW t \in Task, DeleteOwned(t) \/ HoldCollection(t)
  PROVE  HoldsItsOwn(t)'
<1>1. t \in Tx /\ t # Other /\ tx \in [Tx -> Transaction]
  BY ShapeTypes, CopyAssumption DEF Tx
<1>2. UNCHANGED <<docs, copies, loc>> /\ HoldsItsOwn(t) /\ loc[t].pc = "c_drop"
  BY DEF DeleteOwned, HoldCollection, In, At, PgInv
<1>3. /\ tx'[t].cut = tx[t].cut /\ tx'[t].want = tx[t].want /\ tx'[t].rows = tx[t].rows
  BY <1>1 DEF DeleteOwned, HoldCollection, Transaction
<1>4. \A e \in tx[t].rows : CopiesOf(e) \subseteq tx[t].cut
  <2>1. CASE DeleteOwned(t)
    BY <1>1, <2>1, RowsWithChunks DEF DeleteOwned
  <2>2. CASE HoldCollection(t)
    BY <1>2, <2>2 DEF HoldCollection, In, HoldsItsOwn
  <2> QED BY <2>1, <2>2
<1>5. tx[t].stage # "none"
  BY DEF DeleteOwned, HoldCollection, Checking, In
<1> QED BY <1>2, <1>3, <1>4, <1>5, KeepsChunks

LEMMA OwnHold ==
  ASSUME PgShape, PgInv, NEW t \in Task, Read(t) \/ Statement(t) \/ PgDatabaseError(t)
  PROVE  HoldsItsOwn(t)'
<1>1. t \in Tx /\ tx \in [Tx -> Transaction]
  BY ShapeTypes DEF Tx
<1>n. tx' = [tx EXCEPT ![t] = NoTx] => HoldsItsOwn(t)'
  BY <1>1, NothingHeld
<1>2. CASE Read(t)
  BY <1>1, <1>2, ReadersHoldNothing, ShapeParts, NothingHeld DEF OneTx, Read
<1>3. CASE PgDatabaseError(t) \/ Victim(t) \/ CommitReset(t) \/ CommitFinish(t)
           \/ CommitDrop(t) \/ CommitFailure(t) \/ CommitDelete(t)
           \/ CommitDeleteCollection(t) \/ RefuseDelete(t)
  BY <1>n, <1>3 DEF PgDatabaseError, Victim, CommitReset, CommitFinish, CommitDrop,
       CommitFailure, CommitDelete, CommitDeleteCollection, RefuseDelete, Commit, Rollback
<1>4. CASE loc[t].pc \in WritePc /\ DeleteChunks(t)
  BY <1>4, DeleteHolds
<1>5. CASE InsertChunks(t) \/ DeleteOwned(t) \/ HoldCollection(t)
  BY <1>5, InsertChunksHolds, DeleteOwnedHolds
<1>7. CASE Insert(t)
  <2>1. loc[t].pc \notin WritePc /\ t # Other
    BY <1>7, CopyAssumption DEF Insert, At, WritePc
  <2>2. tx[t] = NoTx
    BY <1>1, <2>1, ShapeParts DEF OneTx
  <2> QED BY <1>1, <1>7, <2>2, NothingHeld DEF Insert
<1> QED BY <1>2, <1>3, <1>4, <1>5, <1>7 DEF Statement

\* A task works alone on its row when it has inserted chunks.
LEMMA AloneWhereItPuts ==
  ASSUME PgShape, PgInv, NEW t \in Task, tx[t].put # None,
         NEW u \in Task, u # t, tx[u].stage # "none", Attempting(u)
  PROVE  loc[u].doc # loc[t].doc
<1>1. t \in Tx /\ u \in Tx /\ t # Other /\ u # Other
  BY CopyAssumption DEF Tx
<1>2. loc[t].pc = "fin_write" /\ Live(loc[t].doc)
  BY <1>1, ShapeParts DEF OneTx, StageFits
<1>3. loc[u].pc \in WritePc
  BY <1>1, ShapeParts DEF OneTx
<1>4. Working(t) /\ Working(u)
  BY <1>2, <1>3 DEF Working, Attempting, AttemptPc, UploadPc, ReindexPc, IndexPc, DocPc, WritePc
<1> QED BY <1>2, <1>4, AloneOnItsRow

LEMMA TaskHolds ==
  ASSUME PgShape, PgInv, PgShape', (\A d \in DocId : PgWhole(d))', [PgNext]_pgvars,
         NEW t \in Task, Read(t) \/ Statement(t) \/ PgDatabaseError(t), NEW u \in Task
  PROVE  HoldsItsOwn(u)'
<1>1. CASE u = t
  BY <1>1, OwnHold
<1>2. CASE u # t
  <2>1. Commit(t) \/ copies' = copies
    BY OwnMoves DEF Tx
  <2>2. t \in Tx /\ tx'[u] = tx[u] /\ loc'[u] = loc[u]
    BY <1>2, OwnMoves DEF Tx
  <2>3. tx[t].put # None /\ tx[u].stage # "none" /\ Attempting(u)
          => loc[u].doc # loc[t].doc
    BY <1>2, AloneWhereItPuts
  <2> QED BY <1>2, <2>1, <2>2, <2>3, OthersHold
<1> QED BY <1>1, <1>2

\* ... and when no task commits: a process joins, sweeps, starts or dies.
LEMMA ProcessHolds ==
  ASSUME PgShape, PgInv, PgShape', (\A d \in DocId : PgWhole(d))', [PgNext]_pgvars,
         \/ Join \/ Continue \/ FailPending \/ SweepFails \/ PgCrash \/ PgStartup
         \/ UNCHANGED pgvars,
         NEW u \in Task
  PROVE  HoldsItsOwn(u)'
<1>1. Other \in Tx /\ u \in Tx /\ u # Other /\ tx \in [Tx -> Transaction]
  BY ShapeTypes, CopyAssumption DEF Tx
<1>p. tx[Other].put = None
  BY <1>1, ShapeParts DEF OneTx, StageFits
<1>o. ASSUME Commit(Other) \/ copies' = copies, tx'[u] = tx[u], loc'[u] = loc[u]
      PROVE  HoldsItsOwn(u)'
  BY <1>1, <1>p, <1>o, OthersHold
<1>2. CASE Join
  BY <1>1, <1>o, <1>2 DEF Join, DeleteChunks
<1>3. ASSUME NEW x \in Tx, DeleteChunk(x) \/ LockDocuments(x) \/ LockDocument(x)
      PROVE  HoldsItsOwn(u)'
  <2>1. CASE x = u
    BY <1>3, <2>1, ChunkHolds, LockHolds
  <2>2. CASE x # u
    <3>1. copies' = copies /\ tx'[u] = tx[u] /\ loc'[u] = loc[u]
      BY <1>1, <1>3, <2>2 DEF DeleteChunk, LockDocuments, LockDocument
    <3> QED BY <1>o, <3>1
  <2> QED BY <2>1, <2>2
<1>4. CASE FailPending \/ SweepFails
  BY <1>1, <1>o, <1>4 DEF FailPending, SweepFails, Commit, Rollback
<1>5. CASE PgCrash
  BY <1>1, <1>5, NothingHeld DEF PgCrash
<1>6. CASE PgStartup
  BY <1>1, <1>o, <1>6, StartupEffects DEF PgStartup, Startup
<1>7. CASE UNCHANGED pgvars
  BY <1>o, <1>7 DEF pgvars, vars
<1> QED BY <1>2, <1>3, <1>4, <1>5, <1>6, <1>7 DEF Continue

-----------------------------------------------------------------------------
(* Tasks stay on their rows.                                               *)

\* What a task holds of its document, whoever wrote last.
PgSound(t) == PgOnItsRow(t) /\ HasPieces(t) /\ Born(t)

LEMMA StayBorn ==
  ASSUME PgShape, PgInv, [PgNext]_pgvars, NEW d \in DocId, docs[d] # Unborn
  PROVE  docs'[d] # Unborn
<1>r. Live(d) => docs[d] \in Row
  BY ShapeTypes DEF Live
<1>1. CASE PgSame(d) \/ PgAccepted(d) \/ PgRemoved(d)
  BY <1>1, SentinelAssumption DEF PgSame, PgAccepted, PgRemoved
<1>2. CASE PgRequeued(d)
  <2>1. docs'[d] = ResetRow(docs[d]) /\ docs[d] \in Row
    BY <1>2, <1>r DEF PgRequeued
  <2>2. ResetRow(docs[d]) \in Row
    BY <2>1, AssignedRows DEF Failure
  <2> QED BY <2>1, <2>2, SentinelAssumption
<1>3. CASE PgCompleted(d)
  <2>1. docs[d] \in Row
    BY <1>3, <1>r DEF PgCompleted
  <2> QED BY <1>3, <2>1, CompletedColumns, SentinelAssumption
<1>4. CASE PgGivenUp(d)
  <2>1. PICK why \in Failure : docs'[d] = FailedRow(docs[d], why)
    BY <1>4 DEF PgGivenUp
  <2>2. docs[d] \in Row
    BY <1>4, <1>r DEF PgGivenUp
  <2>3. FailedRow(docs[d], why) \in Row
    BY <2>2, AssignedRows
  <2> QED BY <2>1, <2>3, SentinelAssumption
<1> QED BY <1>1, <1>2, <1>3, <1>4, PgEffects

LEMMA PgIdleIsSound == ASSUME NEW t \in Task, loc'[t] = Idle PROVE PgSound(t)'
BY DEF Idle, PgSound, PgOnItsRow, HasPieces, Born, Working, AttemptPc, UploadPc, ReindexPc,
       IndexPc, DocPc

LEMMA PgFinishIsSound == ASSUME PgShape, NEW t \in Task, Finish(t) PROVE PgSound(t)'
<1>1. loc'[t] = Idle
  BY ShapeTypes DEF Finish, Become
<1> QED BY <1>1, PgIdleIsSound

LEMMA PgFailIsSound ==
  ASSUME PgShape, PgInv, NEW t \in Task, loc[t].pc \in IndexPc,
         NEW why \in Failure, Fail(t, why), UNCHANGED <<docs, joined>>
  PROVE  PgSound(t)'
<1>1. Working(t)
  BY DEF Working, IndexPc, AttemptPc, DocPc
<1>2. /\ loc'[t].pc = "drop" /\ loc'[t].doc = loc[t].doc
      /\ loc'[t].coll = loc[t].coll /\ loc'[t].sha = loc[t].sha
  BY ShapeTypes DEF Fail, Become, Frame
<1> QED BY <1>1, <1>2, PgWorkersFrame
        DEF PgSound, PgOnItsRow, HasPieces, Born, IndexPc, Live

LEMMA PgRaiseIsSound ==
  ASSUME PgShape, PgInv, NEW t \in Task, Raise(t), UNCHANGED <<docs, joined>>
  PROVE  PgSound(t)'
<1>1. InTry(t) => loc[t].pc \in IndexPc
  BY DEF InTry, IndexPc, CleanupPc
<1>2. "unexpected" \in Failure
  BY DEF Failure
<1> QED BY <1>1, <1>2, PgFailIsSound, PgFinishIsSound DEF Raise

LEMMA PgGotoIsSound ==
  ASSUME PgShape, PgInv, NEW t \in Task, loc[t].pc \in IndexPc,
         NEW p \in IndexPc \ WriteBackPc, Goto(t, p), UNCHANGED <<docs, joined>>,
         p \in {"embed", "owner", "fin_read"} => Pieces[loc[t].sha] > 0
  PROVE  PgSound(t)'
<1>1. Working(t)
  BY DEF Working, IndexPc, AttemptPc, DocPc
<1>2. /\ loc'[t].pc = p /\ loc'[t].doc = loc[t].doc
      /\ loc'[t].coll = loc[t].coll /\ loc'[t].sha = loc[t].sha
  BY ShapeTypes DEF Goto, Become, Frame
<1> QED BY <1>1, <1>2, PgWorkersFrame
        DEF PgSound, PgOnItsRow, HasPieces, Born, WriteBackPc, IndexPc, Live

LEMMA PgLoadIsSound ==
  ASSUME PgShape, PgInv, NEW t \in Task, Working(t),
         NEW p \in {"pend_write", "fin_write", "fail_write"},
         Load(t, p, docs[loc[t].doc]), UNCHANGED <<docs, joined>>,
         p = "pend_write" => docs[loc[t].doc].status # "pending",
         p # "pend_write" => loc[t].pc \in IndexPc,
         p = "fin_write" => Pieces[loc[t].sha] > 0
  PROVE  PgSound(t)'
<1>1. /\ loc'[t].pc = p /\ loc'[t].doc = loc[t].doc
      /\ loc'[t].coll = loc[t].coll /\ loc'[t].sha = loc[t].sha
      /\ loc'[t].seen = docs[loc[t].doc]
  BY ShapeTypes DEF Load, Become, Frame
<1> QED BY <1>1, PgWorkersFrame
        DEF PgSound, PgOnItsRow, HasPieces, Born, SeenOrSwept, IndexPc, Live

LEMMA PgEnterIsSound ==
  ASSUME PgShape, PgInv, NEW t \in Task, Working(t), Enter(t),
         Live(loc[t].doc), docs'[loc[t].doc] # Unborn,
         docs'[loc[t].doc].status = "pending",
         docs'[loc[t].doc].coll = docs[loc[t].doc].coll,
         docs'[loc[t].doc].sha = docs[loc[t].doc].sha
  PROVE  PgSound(t)'
<1>1. /\ loc'[t].pc = "get" /\ loc'[t].doc = loc[t].doc
      /\ loc'[t].coll = loc[t].coll /\ loc'[t].sha = loc[t].sha
  BY ShapeTypes DEF Enter, Become, Frame
<1> QED BY <1>1, PgWorkersFrame
        DEF PgSound, PgOnItsRow, HasPieces, Born, IndexPc, Live

LEMMA PgExistingIsSound ==
  ASSUME PgShape, NEW t \in Task, NEW d \in DocId, Existing(t, d), UNCHANGED docs
  PROVE  PgSound(t)'
<1>1. /\ loc'[t].doc = d /\ loc'[t].seen = docs[d]
      /\ loc'[t].pc = IF docs[d].status = "failed" THEN "retry" ELSE "dup"
      /\ loc'[t].coll = loc[t].coll /\ loc'[t].sha = loc[t].sha
  BY ShapeTypes DEF Existing, Become, Frame
<1>2. docs[d].coll = loc[t].coll /\ docs[d].sha = loc[t].sha /\ docs[d] # Unborn
  BY DEF Existing, Holds, Live
<1> QED BY <1>1, <1>2 DEF PgSound, PgOnItsRow, HasPieces, Born, IndexPc

LEMMA PgArriveIsSound ==
  ASSUME PgShape, NEW t \in Task, Arrive(t)
  PROVE  PgSound(t)'
<1>l. loc \in [Task -> Frame]
  BY ShapeTypes
<1> USE DEF Become, Idle, PgSound, PgOnItsRow, HasPieces, Born, Working, AttemptPc,
            DocPc, UploadPc, ReindexPc, IndexPc
<1>1. ASSUME NEW k \in CollKey, StartCreateCollection(t, k) PROVE PgSound(t)'
  BY <1>l, <1>1 DEF StartCreateCollection
<1>2. ASSUME NEW c \in CollId, StartDeleteCollection(t, c) PROVE PgSound(t)'
  BY <1>l, <1>2 DEF StartDeleteCollection
<1>3. ASSUME NEW c \in CollId, NEW s \in Sha, StartUpload(t, c, s) PROVE PgSound(t)'
  BY <1>l, <1>3 DEF StartUpload
<1>4. ASSUME NEW d \in DocId, StartReindex(t, d) PROVE PgSound(t)'
  BY <1>l, <1>4 DEF StartReindex, db, Live
<1>5. ASSUME NEW d \in DocId, StartDeleteDocument(t, d) PROVE PgSound(t)'
  BY <1>l, <1>5 DEF StartDeleteDocument, db, Live
<1> QED BY <1>1, <1>2, <1>3, <1>4, <1>5 DEF Arrive

LEMMA PgReadIsSound ==
  ASSUME PgShape, PgInv, NEW t \in Task, Read(t), UNCHANGED joined
  PROVE  PgSound(t)'
<1> DEFINE d == loc[t].doc
<1>u. UNCHANGED <<docs, joined>>
  BY ReadersHoldNothing
<1>f. Finish(t) => PgSound(t)'
  BY PgFinishIsSound
<1>i. loc[t].pc \in IndexPc \cup {"pend_read"} => Working(t)
  BY DEF Working, AttemptPc, UploadPc, ReindexPc, IndexPc, DocPc
<1>w. ASSUME NEW why \in Failure, Fail(t, why), loc[t].pc \in IndexPc PROVE PgSound(t)'
  BY <1>u, <1>w, PgFailIsSound
<1>g. ASSUME NEW p \in IndexPc \ WriteBackPc, Goto(t, p), loc[t].pc \in IndexPc,
             p \in {"embed", "owner", "fin_read"} => Pieces[loc[t].sha] > 0
      PROVE  PgSound(t)'
  BY <1>u, <1>g, PgGotoIsSound
<1>p. HasPieces(t)
  BY DEF PgInv
<1>1. CASE Arrive(t)
  BY <1>1, PgArriveIsSound
<1>2. CASE CreateCollection(t) \/ ReplyDuplicate(t)
  BY <1>f, <1>2 DEF CreateCollection, ReplyDuplicate
<1>3. CASE LookupExisting(t) \/ RereadExisting(t)
  <2>1. ASSUME Goto(t, "insert") PROVE PgSound(t)'
    <3>1. loc'[t].pc = "insert"
      BY <2>1, ShapeTypes DEF Goto, Become, Frame
    <3> QED BY <3>1 DEF PgSound, PgOnItsRow, HasPieces, Born, Working, DocPc
  <2> QED BY <1>f, <1>u, <1>3, <2>1, PgExistingIsSound DEF LookupExisting, RereadExisting
<1>4. CASE ReadForPending(t)
  <2>1. Working(t)
    BY <1>i, <1>4 DEF ReadForPending, At
  <2>2. ASSUME Enter(t), Live(d), docs[d].status = "pending" PROVE PgSound(t)'
    BY <1>u, <2>1, <2>2, PgEnterIsSound DEF Live
  <2>3. ASSUME Load(t, "pend_write", docs[d]), docs[d].status # "pending"
        PROVE  PgSound(t)'
    BY <1>u, <2>1, <2>3, PgLoadIsSound
  <2> QED BY <1>f, <1>4, <2>2, <2>3 DEF ReadForPending
<1>5. CASE GetDocument(t) \/ ReadOwner(t)
  <2>1. CASE GetDocument(t)
    BY <1>f, <1>g, <2>1 DEF GetDocument, At, IndexPc, WriteBackPc
  <2>2. CASE ReadOwner(t)
    BY <1>f, <1>g, <1>p, <2>2 DEF ReadOwner, At, IndexPc, WriteBackPc, HasPieces
  <2> QED BY <1>5, <2>1, <2>2
<1>6. CASE ReadAndChunk(t)
  BY <1>g, <1>w, <1>6 DEF ReadAndChunk, At, IndexPc, WriteBackPc, Failure
<1>7. CASE Embed(t)
  BY <1>g, <1>w, <1>p, <1>7 DEF Embed, At, IndexPc, WriteBackPc, Failure, HasPieces
<1>8. CASE ReadToFinish(t) \/ ReadToFail(t)
  <2>1. ASSUME NEW p \in {"fin_write", "fail_write"}, Load(t, p, docs[d]),
               p = "fin_write" => Pieces[loc[t].sha] > 0
        PROVE  PgSound(t)'
    <3>1. loc[t].pc \in IndexPc
      BY <1>8 DEF ReadToFinish, ReadToFail, At, IndexPc
    <3> QED BY <1>i, <1>u, <2>1, <3>1, PgLoadIsSound
  <2> QED BY <1>f, <1>p, <1>8, <2>1 DEF ReadToFinish, ReadToFail, At, HasPieces
<1> QED BY <1>1, <1>2, <1>3, <1>4, <1>5, <1>6, <1>7, <1>8 DEF Read, Arrive

\* Nothing that a task holds, and nothing that it relies on, has changed.
LEMMA PgStillSound ==
  ASSUME PgShape, PgInv, NEW t \in Task, loc'[t] = loc[t], UNCHANGED <<docs, joined>>
  PROVE  PgSound(t)'
BY DEF PgInv, PgSound, PgOnItsRow, HasPieces, Born, SeenOrSwept, Working, Live

LEMMA PgInsertIsSound ==
  ASSUME PgShape, PgInv, NEW t \in Task, Insert(t)
  PROVE  PgSound(t)'
<1>1. ASSUME Goto(t, "reread") PROVE PgSound(t)'
  <2>1. loc'[t].pc = "reread"
    BY <1>1, ShapeTypes DEF Goto, Become, Frame
  <2> QED BY <2>1 DEF PgSound, PgOnItsRow, HasPieces, Born, Working, DocPc
<1>2. ASSUME NEW e \in Fresh(DocId, docs),
             docs' = [docs EXCEPT ![e] = FreshRow(loc[t].coll, loc[t].sha)],
             Become(t, [loc[t] EXCEPT !.pc = "get", !.doc = e])
      PROVE  PgSound(t)'
  <2>1. /\ loc'[t].pc = "get" /\ loc'[t].doc = e
        /\ loc'[t].coll = loc[t].coll /\ loc'[t].sha = loc[t].sha
    BY <1>2, ShapeTypes DEF Become, Frame
  <2>2. loc[t].coll \in CollId /\ loc[t].sha \in Sha
    BY DEF Insert, At, PgShape, TypeOK, FrameOK, AttemptPc, UploadPc
  <2>3. docs'[e] = FreshRow(loc[t].coll, loc[t].sha) /\ e \in DocId
    BY <1>2, ShapeTypes DEF Fresh
  <2>4. docs'[e] \in Row
    BY <2>2, <2>3, FreshRows
  <2>5. /\ docs'[e].coll = loc[t].coll /\ docs'[e].sha = loc[t].sha
        /\ docs'[e].status = "pending"
    <3>1. ASSUME NEW c, NEW k
          PROVE  FreshRow(c, k).coll = c /\ FreshRow(c, k).sha = k
                 /\ FreshRow(c, k).status = "pending"
      BY DEF FreshRow
    <3> QED BY <2>3, <3>1
  <2> QED BY <2>1, <2>4, <2>5, SentinelAssumption DEF PgSound, PgOnItsRow, HasPieces, Born
<1> QED BY <1>1, <1>2 DEF Insert, InsertDocument

LEMMA PgStatementIsSound ==
  ASSUME PgShape, PgInv, NEW t \in Task, Statement(t), UNCHANGED joined
  PROVE  PgSound(t)'
<1> DEFINE d == loc[t].doc
<1>f. Finish(t) => PgSound(t)'
  BY PgFinishIsSound
<1>r. Rollback(t) /\ Raise(t) => PgSound(t)'
  BY PgRaiseIsSound DEF Rollback
<1>s. UNCHANGED <<docs, loc>> => PgSound(t)'
  BY PgStillSound
<1>1. CASE DeleteChunks(t) \/ DeleteOwned(t) \/ HoldCollection(t) \/ InsertChunks(t)
  BY <1>f, <1>r, <1>s, <1>1 DEF DeleteChunks, DeleteOwned, HoldCollection, InsertChunks
<1>2. CASE CommitReset(t)
  <2>1. CASE Live(d)
    <3>1. PgDecided(t) /\ Working(t) /\ Enter(t)
      BY <1>2, <2>1, ResetEffects DEF PgDecided, CommitReset
    <3>2. loc[t].pc \in {"retry", "pend_write"} /\ d \in DocId
      BY <1>2, <3>1, PgWorkersFrame DEF CommitReset, In, At
    <3>3. docs[d] \in Row /\ loc[t].seen = docs[d]
      BY <2>1, <3>1, <3>2, PgWorkersFrame DEF PgOnItsRow
    <3>4. docs' = [docs EXCEPT ![d] = Flush(docs[d], docs[d], ResetRow(docs[d]))]
      BY <1>2, <2>1, <3>3 DEF CommitReset
    <3>5. docs'[d] = ResetRow(docs[d])
      BY <3>2, <3>3, <3>4, WritesOfCurrent, ShapeTypes DEF Failure
    <3>6. /\ docs'[d].status = "pending"
          /\ docs'[d].coll = docs[d].coll /\ docs'[d].sha = docs[d].sha
      BY <3>3, <3>5 DEF ResetRow, Row
    <3>7. docs'[d] # Unborn
      <4>1. ResetRow(docs[d]) \in Row
        BY <3>3, AssignedRows DEF Failure
      <4> QED BY <3>5, <4>1, SentinelAssumption
    <3> QED BY <2>1, <3>1, <3>6, <3>7, PgEnterIsSound
  <2>2. CASE ~ Live(d)
    BY <1>f, <1>2, <2>2 DEF CommitReset
  <2> QED BY <2>1, <2>2
<1>3. CASE CommitFinish(t) \/ CommitDelete(t) \/ CommitDeleteCollection(t) \/ RefuseDelete(t)
  BY <1>f, <1>3 DEF CommitFinish, CommitDelete, CommitDeleteCollection, RefuseDelete
<1>4. CASE CommitDrop(t)
  BY <1>4, PgGotoIsSound DEF CommitDrop, In, At, IndexPc, WriteBackPc
<1>5. CASE CommitFailure(t) \/ Victim(t)
  BY <1>f, <1>r, <1>5 DEF CommitFailure, Victim
<1>6. CASE Insert(t)
  BY <1>6, PgInsertIsSound
<1> QED BY <1>1, <1>2, <1>3, <1>4, <1>5, <1>6 DEF Statement

LEMMA PgErrorIsSound ==
  ASSUME PgShape, PgInv, NEW t \in Task, PgDatabaseError(t), UNCHANGED joined
  PROVE  PgSound(t)'
BY PgRaiseIsSound DEF PgDatabaseError, DatabaseError, Rollback, Raise

\* A step of another task leaves what u holds as true as it was: the document
\* is deleted, or nobody else could write it.
LEMMA PgOthersStaySound ==
  ASSUME PgShape, PgInv, [PgNext]_pgvars, UNCHANGED joined,
         NEW t \in Task, Read(t) \/ Statement(t) \/ PgDatabaseError(t),
         NEW u \in Task, u # t
  PROVE  PgSound(u)'
<1> DEFINE d == loc[u].doc
<1>1. loc'[u] = loc[u]
  BY OwnMoves
<1>2. HasPieces(u)' /\ PgOnItsRow(u) /\ Born(u)
  BY <1>1 DEF PgInv, HasPieces
<1>3. Born(u)'
  <2>1. loc[u].pc \in DocPc => d \in DocId /\ docs[d] # Unborn
    BY <1>2 DEF PgShape, TypeOK, FrameOK, Born
  <2>2. loc[u].pc \in DocPc => docs'[d] # Unborn
    BY <2>1, StayBorn
  <2> QED BY <1>1, <2>2 DEF Born
<1>4. ASSUME Working(u), docs'[d] \notin {Unborn, Gone}
      PROVE  docs'[d] = docs[d]
  <2>1. d \in DocId /\ docs[d] # Unborn
    BY <1>4, PgWorkersFrame
  <2>2. ASSUME PgDecided(t), loc[t].doc = d PROVE FALSE
    <3>1. Live(d) /\ Working(t)
      BY <2>2 DEF PgDecided, PgRequeued, PgCompleted, PgGivenUp
    <3> QED BY <1>4, <2>2, <3>1, AloneOnItsRow
  <2> QED BY <1>4, <2>1, <2>2, PgTaskEffects DEF PgSame, PgRemoved, PgAccepted, PgOnlyOn
<1>5. ASSUME Working(u), docs'[d] = docs[d] PROVE PgOnItsRow(u)'
  BY <1>1, <1>2, <1>5 DEF PgOnItsRow, SeenOrSwept, Live, Working
<1> QED BY <1>1, <1>2, <1>3, <1>4, <1>5 DEF PgSound, PgOnItsRow, Working, Live

\* A process that joins fails the rows that wait, and what a task has read of
\* one is then what the row was.
LEMMA PgSweptStaysSound ==
  ASSUME PgShape, PgInv, [PgNext]_pgvars, FailPending, UNCHANGED joined, NEW u \in Task
  PROVE  PgSound(u)'
<1> DEFINE d == loc[u].doc
<1>1. loc'[u] = loc[u]
  BY DEF FailPending
<1>2. HasPieces(u)' /\ PgOnItsRow(u) /\ Born(u)
  BY <1>1 DEF PgInv, HasPieces
<1>3. Born(u)'
  <2>1. loc[u].pc \in DocPc => d \in DocId /\ docs[d] # Unborn
    BY <1>2 DEF PgShape, TypeOK, FrameOK, Born
  <2>2. loc[u].pc \in DocPc => docs'[d] # Unborn
    BY <2>1, StayBorn
  <2> QED BY <1>1, <2>2 DEF Born
<1>4. joined > 0
  BY DEF FailPending, PgShape
<1>5. ASSUME Working(u), docs'[d] \notin {Unborn, Gone} PROVE PgOnItsRow(u)'
  <2>1. d \in DocId /\ docs[d] # Unborn /\ (Live(d) => docs[d] \in Row) /\ PgWhole(d)
    BY <1>5, PgWorkersFrame
  <2>2. CASE d \in tx[Other].rows
    <3>1. Live(d) /\ docs[d].status = "pending" /\ docs[d] \in Row
      BY <2>1, <2>2, ShapeParts DEF OneTx, StageFits, Tx
    <3>2. docs'[d] = FailedRow(docs[d], "interrupted")
      BY <2>1, <2>2 DEF FailPending
    <3>3. "interrupted" \in Failure
      BY DEF Failure
    <3>4. /\ docs'[d].coll = docs[d].coll /\ docs'[d].sha = docs[d].sha
          /\ docs'[d].status = "failed"
      <4>1. /\ FailedRow(docs[d], "interrupted").coll = docs[d].coll
            /\ FailedRow(docs[d], "interrupted").sha = docs[d].sha
            /\ FailedRow(docs[d], "interrupted").status = "failed"
        BY <3>1, <3>3, FailedColumns
      <4> QED BY <3>2, <4>1
    <3>5. loc[u].pc \notin {"retry", "pend_write"}
      BY <1>2, <1>5, <3>1 DEF PgOnItsRow
    <3>6. docs[d] = FreshRow(docs[d].coll, docs[d].sha)
      BY <2>1, <3>1, PendingIsFresh
    <3>7. ASSUME loc[u].pc \in {"fin_write", "fail_write"}
          PROVE  SeenOrSwept(loc[u].seen, docs[d])'
      <4>1. SeenOrSwept(loc[u].seen, docs[d])
        BY <1>2, <1>5, <3>1, <3>7 DEF PgOnItsRow
      <4>2. loc[u].seen \in Row
        BY <3>7 DEF PgShape, TypeOK, FrameOK, WriteBackPc
      <4>3. loc[u].seen = docs[d]
        BY <3>1, <4>1, <4>2, SweptRows
      <4>4. loc[u].seen = FreshRow(docs'[d].coll, docs'[d].sha)
        BY <3>4, <3>6, <4>3
      <4>5. docs'[d] = FailedRow(loc[u].seen, "interrupted")
        BY <3>2, <4>3
      <4> QED BY <1>1, <1>4, <4>4, <4>5 DEF SeenOrSwept
    <3>8. docs'[d].coll = loc[u].coll /\ docs'[d].sha = loc[u].sha
      BY <1>2, <1>5, <3>1, <3>4 DEF PgOnItsRow
    <3> QED BY <1>1, <1>4, <3>4, <3>5, <3>7, <3>8 DEF PgOnItsRow, SeenOrSwept
  <2>3. CASE d \notin tx[Other].rows
    <3>1. docs'[d] = docs[d]
      BY <2>1, <2>3 DEF FailPending
    <3> QED BY <1>1, <1>2, <1>5, <3>1 DEF PgOnItsRow, SeenOrSwept, Live, Working
  <2> QED BY <2>2, <2>3
<1> QED BY <1>1, <1>2, <1>3, <1>5 DEF PgSound, PgOnItsRow, Working, Live

LEMMA PgJoinStaysSound ==
  ASSUME PgShape, PgInv, [PgNext]_pgvars, UNCHANGED <<docs, loc>>, NEW u \in Task
  PROVE  PgSound(u)'
<1>1. /\ joined \in Nat /\ joined' \in Nat /\ (joined > 0 => joined' > 0)
      /\ PgOnItsRow(u) /\ HasPieces(u) /\ Born(u)
  BY JoinedGrows DEF PgInv
<1>2. joined' = 0 => joined = 0
  BY <1>1
<1>3. HasPieces(u)' /\ Born(u)'
  BY <1>1 DEF HasPieces, Born
<1> DEFINE d == loc[u].doc
<1>4. SeenOrSwept(loc[u].seen, docs[d]) => SeenOrSwept(loc[u].seen, docs[d])'
  BY <1>1 DEF SeenOrSwept
<1>5. PgOnItsRow(u)'
  BY <1>1, <1>2, <1>4 DEF PgOnItsRow, Working, Live
<1> QED BY <1>3, <1>5 DEF PgSound

-----------------------------------------------------------------------------
(* The invariant.                                                          *)

LEMMA StatementCarriesOn ==
  ASSUME PgShape, NEW t \in Task, Statement(t)
  PROVE  CarriesOn(t) \/ loc' = loc
<1>t. loc[t] \in Frame /\ loc \in [Task -> Frame] /\ TypeOK
  BY ShapeTypes DEF PgShape
<1>f. Finish(t) => CarriesOn(t)
  BY <1>t DEF Finish, Become, CarriesOn
<1>g. ASSUME NEW p, Goto(t, p), Attempting(t) PROVE CarriesOn(t)
  BY <1>t, <1>g DEF Goto, Become, Frame, CarriesOn
<1>e. ASSUME Enter(t), Attempting(t) PROVE CarriesOn(t)
  BY <1>t, <1>e DEF Enter, Become, Frame, CarriesOn
<1>r. ASSUME Raise(t) PROVE CarriesOn(t)
  <2>1. InTry(t) => loc[t].pc \in IndexPc
    BY DEF InTry, IndexPc, CleanupPc
  <2>2. "unexpected" \in Failure
    BY DEF Failure
  <2> QED BY <1>t, <1>f, <1>r, <2>1, <2>2, FailCarriesOn DEF Raise
<1> USE DEF At, In, Attempting, AttemptPc, UploadPc, ReindexPc, IndexPc
<1>1. CASE DeleteChunks(t) \/ DeleteOwned(t) \/ HoldCollection(t) \/ InsertChunks(t)
  BY <1>f, <1>r, <1>1 DEF DeleteChunks, DeleteOwned, HoldCollection, InsertChunks
<1>2. CASE CommitReset(t)
  BY <1>f, <1>e, <1>2 DEF CommitReset
<1>3. CASE CommitFinish(t) \/ CommitDelete(t) \/ CommitDeleteCollection(t) \/ RefuseDelete(t)
  BY <1>f, <1>3 DEF CommitFinish, CommitDelete, CommitDeleteCollection, RefuseDelete
<1>4. CASE CommitDrop(t)
  BY <1>g, <1>4 DEF CommitDrop
<1>5. CASE CommitFailure(t) \/ Victim(t)
  BY <1>f, <1>r, <1>5 DEF CommitFailure, Victim
<1>6. CASE Insert(t)
  <2>1. ASSUME NEW d, Become(t, [loc[t] EXCEPT !.pc = "get", !.doc = d])
        PROVE  CarriesOn(t)
    BY <1>t, <1>6, <2>1 DEF Insert, Become, Frame, CarriesOn
  <2> QED BY <1>g, <1>6, <2>1 DEF Insert, InsertDocument
<1> QED BY <1>1, <1>2, <1>3, <1>4, <1>5, <1>6 DEF Statement

LEMMA PgOneAttempt ==
  ASSUME PgShape, PgInv, Overlap = FALSE, NEW t \in Task,
         Read(t) \/ Statement(t) \/ PgDatabaseError(t)
  PROVE  OneAttempt'
<1>t. TypeOK /\ OneAttempt
  BY DEF PgShape, PgInv
<1>1. CASE Read(t) \/ PgDatabaseError(t)
  BY <1>t, <1>1, ReadersHoldNothing, OneAttemptStep DEF PgDatabaseError
<1>2. CASE loc' = loc
  BY <1>t, <1>2 DEF OneAttempt, Attempting
<1>3. CASE CarriesOn(t) /\ Statement(t)
  <2>1. \A u \in Task \ {t} : loc'[u] = loc[u]
    BY <1>3, OwnMoves
  <2>2. ASSUME NEW u \in Task, u # t, Attempting(u), loc'[t].pc \in AttemptPc
        PROVE  loc'[t].coll # loc[u].coll \/ loc'[t].sha # loc[u].sha
    BY <1>t, <1>3, <2>2
       DEF CarriesOn, OneAttempt, Idle, AttemptPc, UploadPc, ReindexPc, IndexPc
  <2> QED BY <1>t, <2>1, <2>2 DEF OneAttempt, Attempting
<1> QED BY <1>1, <1>2, <1>3, StatementCarriesOn

\* The process that joins deletes no chunks: a document that waits has none.
LEMMA SweepCutsNothing ==
  ASSUME PgShape, PgInv, [PgNext]_pgvars
  PROVE  tx'[Other].cut = {} /\ tx'[Other].want = {}
<1>1. Other \in Tx /\ tx \in [Tx -> Transaction] /\ Other \notin Task
  BY ShapeTypes, CopyAssumption DEF Tx
<1>2. tx[Other].cut = {} /\ tx[Other].want = {}
  BY DEF PgInv
<1>n. NoTx.cut = {} /\ NoTx.want = {}
  BY DEF NoTx
<1>3. ASSUME NEW t \in Task, Read(t) \/ Statement(t) \/ PgDatabaseError(t)
      PROVE  tx'[Other] = tx[Other]
  BY <1>1, <1>3, OwnMoves
<1>4. ASSUME Join PROVE tx'[Other].cut = {} /\ tx'[Other].want = {}
  <2> DEFINE seen == {k \in Copy : copies[k] \in Targets(Other)}
  <2>1. seen = {}
    <3>1. ASSUME NEW k \in Copy PROVE copies[k] \notin Targets(Other)
      <4>1. copies[k] # None => docs[copies[k]].status = "indexed"
        BY CopiesAreOfIndexed
      <4> QED BY <4>1, SentinelAssumption DEF Targets, Doing
    <3> QED BY <3>1
  <2>2. tx' = [tx EXCEPT ![Other] = [NoTx EXCEPT
          !.want = seen, !.stage = IF seen = {} THEN "cut" ELSE "wait"]]
    BY <1>4 DEF Join, DeleteChunks
  <2>3. tx'[Other].cut = {} /\ tx'[Other].want = seen
    BY <1>1, <2>2 DEF NoTx
  <2> QED BY <2>1, <2>3
<1>5. ASSUME NEW x \in Tx, DeleteChunk(x) \/ LockDocuments(x) \/ LockDocument(x)
      PROVE  tx'[Other].cut = {} /\ tx'[Other].want = {}
  <2>1. CASE x = Other
    <3>1. ~ DeleteChunk(Other)
      BY <1>2 DEF DeleteChunk
    <3>2. tx'[Other].cut = tx[Other].cut /\ tx'[Other].want = tx[Other].want
      <4>1. CASE LockDocuments(Other)
        BY <1>1, <4>1 DEF LockDocuments, Transaction
      <4>2. CASE LockDocument(Other)
        <5>1. PICK e \in tx[Other].todo :
                tx' = [tx EXCEPT
                  ![Other].todo = @ \ {e},
                  ![Other].rows = IF e \in Targets(Other) /\ Live(e) THEN @ \cup {e}
                                  ELSE @]
          BY <4>2 DEF LockDocument
        <5> QED BY <1>1, <5>1 DEF Transaction
      <4> QED BY <1>5, <2>1, <3>1, <4>1, <4>2
    <3> QED BY <1>2, <3>2
  <2>2. CASE x # Other
    <3>1. tx'[Other] = tx[Other]
      BY <1>1, <1>5, <2>2 DEF DeleteChunk, LockDocuments, LockDocument
    <3> QED BY <1>2, <3>1
  <2> QED BY <2>1, <2>2
<1>6. CASE FailPending \/ SweepFails \/ PgCrash
  BY <1>1, <1>n, <1>6 DEF FailPending, SweepFails, PgCrash, Commit, Rollback
<1>7. CASE PgStartup \/ UNCHANGED pgvars
  BY <1>2, <1>7 DEF PgStartup, pgvars
<1> QED BY <1>2, <1>3, <1>4, <1>5, <1>6, <1>7 DEF PgNext, Continue

LEMMA PgInvStep ==
  ASSUME Overlap = FALSE, PgShape, PgInv, [PgNext]_pgvars
  PROVE  PgInv'
<1>s. PgShape'
  BY ShapeStep
<1>w. \A d \in DocId : PgWhole(d)'
  BY PgWholeStep
<1>c. tx'[Other].cut = {} /\ tx'[Other].want = {}
  BY SweepCutsNothing
<1>k. OneAttempt /\ DownIsIdle
  BY DEF PgInv
<1>1. ASSUME NEW t \in Task, Read(t) \/ Statement(t) \/ PgDatabaseError(t),
             UNCHANGED joined
      PROVE  PgInv'
  <2>1. OneAttempt'
    BY <1>1, PgOneAttempt
  <2>2. \A u \in Task : PgSound(u)'
    BY <1>1, PgReadIsSound, PgStatementIsSound, PgErrorIsSound, PgOthersStaySound
  <2>3. \A u \in Task : HoldsItsOwn(u)'
    BY <1>s, <1>w, <1>1, TaskHolds
  <2>4. DownIsIdle'
    BY <1>1, OwnMoves DEF DownIsIdle
  <2> QED BY <1>w, <1>c, <2>1, <2>2, <2>3, <2>4 DEF PgInv, PgSound
<1>p. ASSUME \/ Join \/ Continue \/ FailPending \/ SweepFails \/ PgCrash \/ PgStartup
             \/ UNCHANGED pgvars,
             \A u \in Task : PgSound(u)', OneAttempt', DownIsIdle'
      PROVE  PgInv'
  <2>1. \A u \in Task : HoldsItsOwn(u)'
    BY <1>s, <1>w, <1>p, ProcessHolds
  <2> QED BY <1>w, <1>c, <1>p, <2>1 DEF PgInv, PgSound
<1>a. loc' = loc => OneAttempt'
  BY <1>k DEF OneAttempt, Attempting
<1>2. CASE (Join \/ Continue) /\ NoFault
  <2>1. UNCHANGED <<docs, loc, up>>
    BY <1>2 DEF Join, Continue, DeleteChunks, DeleteChunk, LockDocuments, LockDocument,
                NoFault
  <2> QED BY <1>a, <1>k, <1>p, <1>2, <2>1, PgJoinStaysSound DEF DownIsIdle
<1>3. CASE FailPending /\ UNCHANGED joined
  <2>1. UNCHANGED <<loc, up>>
    BY <1>3 DEF FailPending, NoFault
  <2> QED BY <1>a, <1>k, <1>p, <1>3, <2>1, PgSweptStaysSound DEF DownIsIdle
<1>4. CASE SweepFails
  <2>1. UNCHANGED <<docs, loc, up>>
    BY <1>4 DEF SweepFails, Rollback
  <2> QED BY <1>a, <1>k, <1>p, <1>4, <2>1, PgJoinStaysSound DEF DownIsIdle
<1>5. CASE PgCrash
  <2>1. \A u \in Task : loc'[u] = Idle
    BY <1>5 DEF PgCrash, Crash
  <2>2. OneAttempt' /\ DownIsIdle'
    BY <2>1 DEF OneAttempt, DownIsIdle, Attempting, Idle, AttemptPc, UploadPc, ReindexPc,
                IndexPc
  <2> QED BY <1>p, <1>5, <2>1, <2>2, PgIdleIsSound
<1>6. CASE PgStartup
  <2>1. loc' = loc /\ up' /\ \A u \in Task : loc[u] = Idle
    BY <1>k, <1>6 DEF PgStartup, Startup, DownIsIdle
  <2> QED BY <1>a, <1>p, <1>6, <2>1, PgIdleIsSound DEF DownIsIdle
<1>7. CASE UNCHANGED pgvars
  <2>1. UNCHANGED <<docs, loc, up>>
    BY <1>7 DEF pgvars, vars
  <2> QED BY <1>a, <1>k, <1>p, <1>7, <2>1, PgJoinStaysSound DEF DownIsIdle
<1> QED BY <1>1, <1>2, <1>3, <1>4, <1>5, <1>6, <1>7 DEF PgNext, Continue

LEMMA PgInvInit == PgInit => PgInv
<1> SUFFICES ASSUME PgInit PROVE PgInv
  OBVIOUS
<1>1. \A t \in Task : loc[t] = Idle
  BY DEF PgInit, Init
<1>2. \A x \in Tx : tx[x] = NoTx
  BY DEF PgInit
<1>3. NoTx.stage = "none" /\ NoTx.cut = {} /\ NoTx.want = {}
  BY DEF NoTx
<1>4. \A d \in DocId : docs[d] = Unborn /\ CopiesOf(d) = {}
  BY SentinelAssumption DEF PgInit, Init, CopiesOf
<1>5. OneAttempt
  BY <1>1 DEF OneAttempt, Attempting, Idle, AttemptPc, UploadPc, ReindexPc, IndexPc
<1>6. ASSUME NEW t \in Task PROVE PgOnItsRow(t) /\ HasPieces(t) /\ Born(t) /\ HoldsItsOwn(t)
  <2>1. PgOnItsRow(t) /\ HasPieces(t) /\ Born(t)
    BY <1>1 DEF PgOnItsRow, HasPieces, Born, Idle, Working, AttemptPc, UploadPc, ReindexPc,
                IndexPc, DocPc
  <2>2. tx[t] = NoTx
    BY <1>2 DEF Tx
  <2> QED BY <1>3, <2>1, <2>2 DEF HoldsItsOwn
<1>7. \A d \in DocId : PgWhole(d)
  BY <1>4 DEF PgWhole, Live
<1>8. tx[Other].cut = {} /\ tx[Other].want = {} /\ DownIsIdle
  BY <1>2, <1>3, <1>1 DEF Tx, DownIsIdle
<1> QED BY <1>5, <1>6, <1>7, <1>8 DEF PgInv

-----------------------------------------------------------------------------
(* The theorems.                                                           *)

\* Deletes hold the chunks of their own documents only and all of those, a task
\* works on the row it read or one a process that joined has failed, and a
\* document agrees with its chunks: while callers do not overlap attempts,
\* whatever statements of different snapshots, deadlocks, failing connections,
\* crashes and processes that join fall between.
THEOREM PgInvHolds ==
  ASSUME Overlap = FALSE
  PROVE  PgSpec => []PgInv
<1>1. PgShape /\ PgInv /\ [PgNext]_pgvars => PgInv'
  BY PgInvStep
<1> QED BY <1>1, PgInvInit, PgShapeHolds, PTL DEF PgSpec

\* `chunks' counts the committed rows.
Counted == chunks = ChunkRows

LEMMA RowsCounted == PgSpec => []Counted
<1>1. PgInit => Counted
  <2> SUFFICES ASSUME PgInit PROVE Counted
    OBVIOUS
  <2>1. \A d \in DocId : {k \in Copy : copies[k] = d} = {}
    BY SentinelAssumption DEF PgInit
  <2>2. \A d \in DocId : ~ Live(d)
    BY DEF PgInit, Init, Live
  <2>3. ASSUME NEW d \in DocId
        PROVE  Cardinality({k \in Copy : copies[k] = d})
                 * (IF Live(d) THEN Pieces[docs[d].sha] ELSE 1) = 0
    <3>1. Cardinality({k \in Copy : copies[k] = d}) = 0
      BY <2>1, FS_EmptySet
    <3> QED BY <2>2, <3>1
  <2> QED BY <2>3 DEF PgInit, Init, Counted, ChunkRows
<1>2. Counted /\ [PgNext]_pgvars => Counted'
  BY DEF PgNext, pgvars, vars, Counted, ChunkRows, Live
<1> QED BY <1>1, <1>2, PTL DEF PgSpec

\* How many chunk rows a document has, from the copies of them.
LEMMA RowsOfCopies ==
  ASSUME PgShape, Counted, NEW d \in DocId, PgWhole(d)
  PROVE  chunks[d] = IF Live(d) /\ docs[d].status = "indexed"
                       THEN Pieces[docs[d].sha] ELSE 0
<1> DEFINE n == IF Live(d) THEN Pieces[docs[d].sha] ELSE 1
<1>1. chunks[d] = Cardinality(CopiesOf(d)) * n
  BY DEF Counted, ChunkRows, CopiesOf
<1>2. n \in Nat
  BY ShapeTypes, PiecesAssumption DEF Live, Row
<1>3. CASE Live(d) /\ docs[d].status = "indexed"
  <2>1. PICK k \in Copy : CopiesOf(d) = {k}
    BY <1>3 DEF PgWhole
  <2>2. Cardinality(CopiesOf(d)) = 1
    BY <2>1, FS_Singleton
  <2> QED BY <1>1, <1>2, <1>3, <2>2
<1>4. CASE ~ (Live(d) /\ docs[d].status = "indexed")
  <2>1. Cardinality(CopiesOf(d)) = 0
    BY <1>4, FS_EmptySet DEF PgWhole
  <2> HIDE DEF n
  <2> QED BY <1>1, <1>2, <1>4, <2>1
<1> QED BY <1>3, <1>4

\* Before a process joins, documents are whole as they are on SQLite.
LEMMA WholeOnPostgres ==
  ASSUME PgShape, Counted, joined = 0, NEW d \in DocId, PgWhole(d)
  PROVE  Whole(d)
<1>1. chunks[d] = IF Live(d) /\ docs[d].status = "indexed"
                    THEN Pieces[docs[d].sha] ELSE 0
  BY RowsOfCopies
<1> QED BY <1>1 DEF PgWhole, Whole

\* A process that starts while another works does not spoil what a search
\* finds: a document with chunks is an indexed one, and has all of them.
THEOREM SearchesSurvive ==
  ASSUME Overlap = FALSE
  PROVE  PgSpec => []SearchSurvivesJoin
<1>1. PgShape /\ PgInv /\ Counted => SearchSurvivesJoin
  <2> SUFFICES ASSUME PgShape, PgInv, Counted PROVE SearchSurvivesJoin
    OBVIOUS
  <2>1. ASSUME NEW d \in DocId, chunks[d] > 0
        PROVE  Live(d) /\ docs[d].status = "indexed"
    <3>1. PgWhole(d)
      BY DEF PgInv
    <3> QED BY <2>1, <3>1, RowsOfCopies
  <2>2. ASSUME NEW d \in DocId, Live(d), docs[d].status = "indexed"
        PROVE  /\ chunks[d] > 0 /\ chunks[d] = Pieces[docs[d].sha]
               /\ docs[d].count = chunks[d]
    <3>1. PgWhole(d)
      BY DEF PgInv
    <3>2. chunks[d] = Pieces[docs[d].sha]
      BY <2>2, <3>1, RowsOfCopies
    <3> QED BY <2>2, <3>1, <3>2 DEF PgWhole
  <2> QED BY <2>1, <2>2 DEF SearchSurvivesJoin, ChunksOnlyForIndexed, IndexedIsComplete
<1> QED BY <1>1, PgShapeHolds, PgInvHolds, RowsCounted, PTL

\* One process on Postgres leaves the rows as SQLite's write lock leaves them.
THEOREM SerialOnPostgres ==
  ASSUME Overlap = FALSE
  PROVE  PgSpec => []SerialAsOnSqlite
<1>1. PgShape /\ PgInv /\ Counted => (joined = 0 => RowCoherent)
  <2> SUFFICES ASSUME PgShape, PgInv, Counted, joined = 0 PROVE RowCoherent
    OBVIOUS
  <2>1. TypeOK /\ \A d \in DocId : Whole(d)
    BY WholeOnPostgres DEF PgShape, PgInv
  <2> QED BY <2>1, WholeIsCoherent
<1>2. SearchSurvivesJoin /\ (joined = 0 => RowCoherent) => SerialAsOnSqlite
  BY DEF SearchSurvivesJoin, SerialAsOnSqlite
<1> QED BY <1>1, <1>2, PgShapeHolds, PgInvHolds, RowsCounted, SearchesSurvive, PTL

\* What is done to the copies of a document, and what to its chunk rows.
LEMMA EffectsOnRows ==
  ASSUME PgShape, joined = 0, Counted, Counted', NEW d \in DocId
  PROVE  /\ PgSame(d) => Same(d)
         /\ PgAccepted(d) => Accepted(d)
         /\ PgRequeued(d) => Requeued(d)
         /\ PgCompleted(d) => Completed(d)
         /\ PgGivenUp(d) => GivenUp(d)
         /\ PgRemoved(d) => Removed(d)
<1> DEFINE n  == IF Live(d) THEN Pieces[docs[d].sha] ELSE 1
           nn == IF docs'[d] \notin {Unborn, Gone} THEN Pieces[docs'[d].sha] ELSE 1
<1>1. chunks[d] = Cardinality(CopiesOf(d)) * n
  BY DEF Counted, ChunkRows, CopiesOf
<1>2. chunks'[d] = Cardinality(CopiesAfter(d)) * nn
  BY DEF Counted, ChunkRows, CopiesAfter, Live
<1>n. ~ (joined > 0)
  OBVIOUS
<1>r. Live(d) => docs[d] \in Row
  BY ShapeTypes DEF Live
<1>3. PgSame(d) => Same(d)
  BY <1>1, <1>2 DEF PgSame, Same, Live
<1>4. ASSUME CopiesAfter(d) = {}, nn \in Nat PROVE chunks'[d] = 0
  <2>1. Cardinality(CopiesAfter(d)) = 0
    BY <1>4, FS_EmptySet
  <2> HIDE DEF nn
  <2> QED BY <1>2, <1>4, <2>1
<1>5. docs'[d] \in Row => nn \in Nat
  BY PiecesAssumption DEF Row
<1>6. PgAccepted(d) => Accepted(d)
  <2> SUFFICES ASSUME PgAccepted(d) PROVE Accepted(d)
    OBVIOUS
  <2>1. PICK c \in CollId, s \in Sha : docs'[d] = FreshRow(c, s)
    BY DEF PgAccepted
  <2>2. docs'[d] \in Row
    BY <2>1, FreshRows
  <2> QED BY <1>4, <1>5, <2>1, <2>2 DEF PgAccepted, Accepted
<1>7. PgRequeued(d) => Requeued(d)
  <2> SUFFICES ASSUME PgRequeued(d) PROVE Requeued(d)
    OBVIOUS
  <2>1. docs'[d] \in Row
    BY <1>r, AssignedRows DEF PgRequeued, Failure
  <2> QED BY <1>4, <1>5, <2>1 DEF PgRequeued, Requeued
<1>8. PgCompleted(d) => Completed(d)
  <2> SUFFICES ASSUME PgCompleted(d) PROVE Completed(d)
    OBVIOUS
  <2>1. docs[d] \in Row
    BY <1>r DEF PgCompleted
  <2>2. docs'[d] \in Row /\ docs'[d].sha = docs[d].sha
    BY <2>1, CompletedColumns
  <2>3. PICK k \in Copy : CopiesAfter(d) = {k}
    BY DEF PgCompleted
  <2>4. Cardinality(CopiesAfter(d)) = 1
    BY <2>3, FS_Singleton
  <2>5. nn = Pieces[docs[d].sha] /\ nn \in Nat
    BY <1>5, <2>2, SentinelAssumption
  <2>6. chunks'[d] = Pieces[docs[d].sha]
    <3> HIDE DEF nn
    <3> QED BY <1>2, <2>4, <2>5
  <2> QED BY <1>n, <2>6 DEF PgCompleted, Completed
<1>9. PgGivenUp(d) => GivenUp(d)
  <2> SUFFICES ASSUME PgGivenUp(d) PROVE GivenUp(d)
    OBVIOUS
  <2>1. PICK why \in Failure : docs'[d] = FailedRow(docs[d], why)
    BY DEF PgGivenUp
  <2>2. docs'[d] \in Row
    BY <1>r, <2>1, AssignedRows DEF PgGivenUp
  <2> QED BY <1>n, <1>4, <1>5, <2>2 DEF PgGivenUp, GivenUp
<1>10. PgRemoved(d) => Removed(d)
  <2>1. docs'[d] = Gone => nn \in Nat
    OBVIOUS
  <2> QED BY <1>4, <2>1 DEF PgRemoved, Removed
<1> QED BY <1>3, <1>6, <1>7, <1>8, <1>9, <1>10

LEMMA PostgresPromiseStep ==
  ASSUME PgShape, PgInv, Counted, Counted', [PgNext]_pgvars, joined' = 0
  PROVE  [Promise!PNext]_(Promise!pvars)
<1>1. joined = 0 /\ ~ Join
  <2>1. joined \in Nat /\ (joined > 0 => joined' > 0)
    BY JoinedGrows
  <2>2. ~ Join
    BY <2>1 DEF Join
  <2> QED BY <2>1, <2>2
<1>2. TypeOK /\ \A d \in DocId : Whole(d)
  BY <1>1, WholeOnPostgres DEF PgShape, PgInv
<1>e. \A d \in DocId :
        /\ PgSame(d) => Same(d)
        /\ PgAccepted(d) => Accepted(d)
        /\ PgRequeued(d) => Requeued(d)
        /\ PgCompleted(d) => Completed(d)
        /\ PgGivenUp(d) => GivenUp(d)
        /\ PgRemoved(d) => Removed(d)
  BY <1>1, EffectsOnRows
<1>o. \A d \in DocId : PgOnlyOn(d) => OnlyOn(d)
  BY <1>e DEF PgOnlyOn, OnlyOn
<1>s. docs' = docs /\ copies' = copies => OneStep
  <2>1. docs' = docs /\ copies' = copies => \A d \in DocId : PgSame(d)
    BY DEF PgSame, CopiesAfter, CopiesOf
  <2> QED BY <1>e, <2>1 DEF OneStep
<1>3. ASSUME NEW t \in Task, Read(t) \/ Statement(t) \/ PgDatabaseError(t) PROVE OneStep
  <2>1. PgDecided(t) => loc[t].doc \in DocId
    BY PgWorkersFrame DEF PgDecided
  <2>2. CASE \A d \in DocId : PgSame(d) \/ PgRemoved(d)
    BY <1>e, <2>2 DEF OneStep
  <2>3. CASE \E d \in DocId : PgAccepted(d) /\ PgOnlyOn(d)
    BY <1>e, <1>o, <2>3 DEF OneStep
  <2>4. CASE PgDecided(t) /\ PgOnlyOn(loc[t].doc)
    BY <1>e, <1>o, <2>1, <2>4 DEF PgDecided, OneStep
  <2> QED BY <1>3, <2>2, <2>3, <2>4, PgTaskEffects
<1>4. Continue \/ SweepFails \/ PgCrash \/ UNCHANGED pgvars => OneStep
  <2>1. Continue => docs' = docs /\ copies' = copies
    BY QuietStatements DEF Continue
  <2> QED BY <1>s, <2>1 DEF SweepFails, Rollback, PgCrash, Crash, db, pgvars, vars
<1>5. PgStartup => OneStep
  BY <1>e, StartupEffects DEF OneStep
<1>6. ~ FailPending
  BY <1>1 DEF FailPending, PgShape
<1>7. OneStep
  BY <1>1, <1>3, <1>4, <1>5, <1>6 DEF PgNext
<1> QED BY <1>2, <1>7, PromiseOfEffects

\* Until a process joins, the service on Postgres implements the promise: the
\* statements of its transactions, deadlocks and rollbacks in between are
\* stutters, and each commit is one step of it.
THEOREM PostgresKeepsPromise ==
  ASSUME Overlap = FALSE
  PROVE  PgSpec => PromiseOnPostgres
<1>1. PgInit => Promise!PInit
  BY SentinelAssumption DEF PgInit, Init, Promise!PInit, Live
<1>2. PgShape /\ PgInv /\ Counted /\ Counted' /\ [PgNext]_pgvars
        => [joined' = 0 => Promise!PNext]_(Promise!pvars)
  BY PostgresPromiseStep
<1> QED BY <1>1, <1>2, PgShapeHolds, PgInvHolds, RowsCounted, PTL
        DEF PgSpec, PromiseOnPostgres

-----------------------------------------------------------------------------
(* Deadlocks.                                                              *)

\* Each of a deadlock waits for one of it, and one of it waits for each.
LEMMA WaitsInDeadlock ==
  ASSUME NEW C \in SUBSET Tx, Deadlock(C), NEW x \in C
  PROVE  (\E z \in C : Waits(x, z)) /\ (\E y \in C : Waits(y, x))
<1>1. C # {x}
  <2>1. Cardinality(C) > 1
    BY DEF Deadlock
  <2>2. Cardinality({x}) = 1
    BY FS_Singleton
  <2> QED BY <2>1, <2>2
<1>2. {x} \in (SUBSET C) \ {{}, C}
  BY <1>1
<1>3. C \ {x} \in (SUBSET C) \ {{}, C}
  BY <1>1
<1>4. \E v \in {x}, z \in C \ {x} : Waits(v, z)
  BY <1>2 DEF Deadlock
<1>5. \E y \in C \ {x}, v \in C \ (C \ {x}) : Waits(y, v)
  BY <1>3 DEF Deadlock
<1> QED BY <1>4, <1>5

LEMMA DeadlockIsOfSome ==
  ASSUME NEW C, Deadlock(C) PROVE C # {}
<1>1. Cardinality(C) > 1
  BY DEF Deadlock
<1>2. Cardinality({}) = 0
  BY FS_EmptySet
<1> QED BY <1>1, <1>2

\* Nobody waits for a transaction that holds nothing.
LEMMA HoldersOnly ==
  ASSUME NEW x \in Tx, NEW y \in Tx, Waits(y, x)
  PROVE  \/ tx[x].cut # {} \/ tx[x].put # None \/ tx[x].rows # {}
         \/ Doing(x) = "c_drop"
BY DEF Waits, Blocks, SameCollection

\* A run holds no chunks, as its document has none, and no documents.
LEMMA RunsHoldLittle ==
  ASSUME PgShape, PgInv, NEW t \in Task, loc[t].pc \in IndexPc \cup {"retry"},
         tx[t].stage # "none"
  PROVE  /\ tx[t].cut = {} /\ tx[t].rows = {}
         /\ tx[t].put # None => loc[t].pc = "fin_write" /\ tx[t].stage = "put"
         /\ Doing(t) = loc[t].pc /\ ~ Deletes(t)
<1>1. t \in Tx /\ t # Other
  BY CopyAssumption DEF Tx
<1>2. StageFits(t) /\ ~ Deletes(t) /\ Doing(t) = loc[t].pc
  BY <1>1, ShapeParts DEF OneTx, Deletes, Doing, IndexPc
<1> QED BY <1>1, <1>2, NothingInHand DEF StageFits, IndexPc

\* Of two transactions that delete no document, one waits for the other only
\* where that is a process's sweep.
LEMMA NoneWaitsForAWriter ==
  ASSUME PgShape, PgInv, NEW x \in Tx, NEW z \in Tx, Waits(x, z),
         ~ Deletes(x), ~ Deletes(z)
  PROVE  z = Other
<1> SUFFICES ASSUME z # Other PROVE FALSE
  OBVIOUS
<1>1. /\ OneTx(x) /\ OneTx(z) /\ z \in Task /\ x # z
      /\ tx[x] \in Transaction /\ tx[z] \in Transaction
  BY ShapeParts, ShapeTypes DEF Waits, Tx
<1>2. tx[z].rows = {}
  <2>1. tx[z].stage \notin {"take", "gone", "held"}
    BY <1>1 DEF OneTx, StageFits, Deletes, Doing
  <2> QED BY <1>1, <2>1 DEF OneTx, StageFits
<1>3. Doing(x) # "c_drop" /\ tx[x].stage # "held" /\ ~ Checking(x)
  BY <1>1 DEF OneTx, StageFits, Deletes, Doing, Checking
<1>4. PICK k \in tx[x].want \cap tx[z].cut : tx[x].stage = "wait"
  BY <1>2, <1>3 DEF Waits, Blocks, SameCollection
<1>5. k \in Copy /\ copies[k] # None /\ tx[z].stage # "none"
  <2>1. NoTx.cut = {}
    BY DEF NoTx
  <2> QED BY <1>1, <1>4, <2>1 DEF OneTx, Transaction
<1>6. x \in Task /\ x # Other
  BY <1>4, CopyAssumption DEF PgInv, Tx
<1>7. /\ loc[x].pc \in WritePc \ {"del_write", "c_drop"}
      /\ loc[z].pc \in WritePc \ {"del_write", "c_drop"}
  BY <1>1, <1>4, <1>5, <1>6, CopyAssumption DEF OneTx, Deletes, Doing
<1>8. Working(x) /\ Working(z)
  BY <1>7 DEF Working, AttemptPc, UploadPc, ReindexPc, IndexPc, DocPc, WritePc
<1>9. copies[k] = loc[x].doc /\ copies[k] = loc[z].doc
  BY <1>1, <1>4, <1>5, <1>6, <1>7 DEF PgInv, HoldsItsOwn
<1>10. Live(loc[x].doc)
  BY <1>5, <1>9, CopiesAreOfIndexed
<1> QED BY <1>1, <1>6, <1>8, <1>9, <1>10, AloneOnItsRow

\* While callers do not overlap attempts, a deadlock takes a delete, and is never
\* of the retry of a failed upload, of a run that records its failure nor, with
\* one process, of the commit of a run.
THEOREM IndexingIsSpared ==
  ASSUME Overlap = FALSE
  PROVE  PgSpec => []DeadlocksSpareIndexing
<1>1. PgShape /\ PgInv => DeadlocksSpareIndexing
  <2> SUFFICES ASSUME PgShape, PgInv, NEW C \in SUBSET Open, Deadlock(C)
               PROVE  /\ \E x \in C : Deletes(x)
                      /\ \A x \in C : /\ Doing(x) \notin {"retry", "drop", "fail_write"}
                                      /\ joined = 0 => Doing(x) # "fin_write"
    BY DEF DeadlocksSpareIndexing
  <2>0. C \in SUBSET Tx /\ \A x \in C : tx[x].stage # "none"
    BY DEF Open
  <2>1. \E x \in C : Deletes(x)
    <3> SUFFICES ASSUME \A x \in C : ~ Deletes(x) PROVE FALSE
      OBVIOUS
    <3>1. \A x, z \in C : Waits(x, z) => z = Other
      BY <2>0, NoneWaitsForAWriter
    <3>2. PICK x \in C : TRUE
      BY DeadlockIsOfSome
    <3>3. Other \in C
      BY <2>0, <3>1, <3>2, WaitsInDeadlock
    <3>4. \E z \in C : Waits(Other, z)
      BY <2>0, <3>3, WaitsInDeadlock
    <3> QED BY <3>1, <3>3, <3>4 DEF Waits
  <2>2. ASSUME NEW x \in C, Doing(x) \in {"retry", "drop", "fail_write", "fin_write"}
        PROVE  /\ x \in Task /\ loc[x].pc = Doing(x) /\ Doing(x) = "fin_write"
               /\ tx[x].stage = "put"
    <3>1. x \in Task /\ loc[x].pc = Doing(x)
      BY <2>0, <2>2 DEF Doing, Tx
    <3>2. PICK y \in C : Waits(y, x)
      BY <2>0, WaitsInDeadlock
    <3>3. /\ tx[x].cut = {} /\ tx[x].rows = {}
          /\ tx[x].put # None => loc[x].pc = "fin_write" /\ tx[x].stage = "put"
      BY <2>0, <2>2, <3>1, RunsHoldLittle DEF IndexPc
    <3> QED BY <2>0, <2>2, <3>1, <3>2, <3>3, HoldersOnly
  <2>3. ASSUME NEW x \in C, joined = 0, Doing(x) = "fin_write" PROVE FALSE
    <3>1. x \in Task /\ loc[x].pc = "fin_write" /\ tx[x].stage = "put" /\ x \in Tx
      BY <2>0, <2>2, <2>3
    <3>2. PICK z \in C : Waits(x, z)
      BY <2>0, WaitsInDeadlock
    <3>3. loc[x].doc \in tx[z].rows
      BY <2>3, <3>1, <3>2 DEF Waits, Needs, Blocks, Deletes, Checking, SameCollection
    <3>4. StageFits(x) /\ Apart(x, z) /\ StageFits(z) /\ z \in Tx
      BY <2>0, <3>1, <3>2, ShapeParts DEF OneTx, Waits
    <3>5. z = Other
      BY <3>1, <3>3, <3>4 DEF StageFits, Apart
    <3>6. tx[Other].stage = "none"
      BY <2>3 DEF PgShape
    <3> QED BY <3>3, <3>4, <3>5, <3>6 DEF StageFits
  <2> QED BY <2>1, <2>2, <2>3
<1> QED BY <1>1, PgShapeHolds, PgInvHolds, PTL

-----------------------------------------------------------------------------
(* Pending documents.                                                      *)

\* Only an upload and a reset make a document pending, and the task that does
\* goes on to index it.
LEMMA PgBecomesPending ==
  ASSUME PgShape, PgInv, NEW t \in Task, Read(t) \/ Statement(t), NEW d \in DocId,
         ~ Pending(d), Pending(d)'
  PROVE  Responsible(t, d)'
<1>t. /\ loc[t] \in Frame /\ loc \in [Task -> Frame] /\ TypeOK /\ t \in Tx
      /\ docs \in [DocId -> Row \cup {Unborn, Gone}]
  BY ShapeTypes DEF PgShape, Tx
<1>1. docs'[d] # docs[d]
  BY DEF Pending, Live
<1>2. ~ Read(t)
  BY <1>1, ReadersHoldNothing
<1>3. ~ (DeleteChunks(t) \/ InsertChunks(t) \/ DeleteOwned(t) \/ HoldCollection(t)
         \/ RefuseDelete(t) \/ Victim(t) \/ CommitDrop(t))
  BY <1>t, <1>1, QuietStatements DEF CommitDrop
<1>4. ~ (CommitDelete(t) \/ CommitDeleteCollection(t))
  BY <1>1, DeleteEffects, DeleteCollectionEffects DEF PgSame, PgRemoved, Pending, Live
<1>5. ~ CommitFinish(t)
  <2> SUFFICES ASSUME CommitFinish(t) PROVE FALSE
    OBVIOUS
  <2> DEFINE r == loc[t].seen
             n == Pieces[loc[t].sha]
  <2>1. docs' = [docs EXCEPT ![loc[t].doc] = FlushIndexed(@, r, n)]
    BY DEF CommitFinish
  <2>2. docs'[d] = FlushIndexed(docs[d], r, n) /\ loc[t].doc = d
    BY <1>t, <1>1, <2>1
  <2>3. r \in Row /\ n \in Nat
    BY <1>t, WritersFrame DEF CommitFinish, In, At, WritePc
  <2>4. IndexedRow(r, n).status = "indexed"
    BY <2>3, IndexedColumns
  <2>5. docs'[d].status \in {docs[d].status, "indexed"}
    BY <2>2, <2>4 DEF FlushIndexed, Flush, Col
  <2>6. Live(d)
    BY <1>t, <2>2, ShapeParts DEF CommitFinish, In, OneTx, StageFits
  <2> QED BY <2>5, <2>6 DEF Pending
<1>6. ~ CommitFailure(t)
  <2> SUFFICES ASSUME CommitFailure(t) PROVE FALSE
    OBVIOUS
  <2> DEFINE r == loc[t].seen
             new == FailedRow(r, loc[t].why)
  <2>1. Live(loc[t].doc) /\ docs' = [docs EXCEPT ![loc[t].doc] = Flush(@, r, new)]
    BY <1>1 DEF CommitFailure, Rollback
  <2>2. docs'[d] = Flush(docs[d], r, new) /\ loc[t].doc = d
    BY <1>t, <1>1, <2>1
  <2>3. r \in Row /\ loc[t].why \in Failure
    BY <1>t, WritersFrame DEF CommitFailure, In, At, WritePc
  <2>4. new.status = "failed"
    BY <2>3, FailedColumns
  <2>5. docs'[d].status \in {docs[d].status, "failed"}
    BY <2>2, <2>4 DEF Flush, Col
  <2> QED BY <2>1, <2>2, <2>5 DEF Pending
<1>7. CASE CommitReset(t)
  <2>1. /\ docs' = [docs EXCEPT ![loc[t].doc] = Flush(docs[loc[t].doc], loc[t].seen,
                                                      ResetRow(loc[t].seen))]
        /\ Enter(t)
    BY <1>1, <1>7 DEF CommitReset, Rollback
  <2>2. loc[t].doc = d
    BY <1>t, <1>1, <2>1
  <2>3. loc'[t].pc = "get" /\ loc'[t].doc = d
    BY <1>t, <2>1, <2>2 DEF Enter, Become, Frame
  <2> QED BY <2>3 DEF Responsible, IndexPc
<1>8. CASE Insert(t)
  <2>1. InsertDocument(t)
    BY <1>1, <1>8 DEF Insert
  <2>2. PICK e \in Fresh(DocId, docs) :
          /\ docs' = [docs EXCEPT ![e] = FreshRow(loc[t].coll, loc[t].sha)]
          /\ Become(t, [loc[t] EXCEPT !.pc = "get", !.doc = e])
    BY <1>1, <2>1 DEF InsertDocument
  <2>3. e = d
    BY <1>t, <1>1, <2>2
  <2>4. loc'[t].pc = "get" /\ loc'[t].doc = d
    BY <1>t, <2>2, <2>3 DEF Become, Frame
  <2> QED BY <2>4 DEF Responsible, IndexPc
<1> QED BY <1>2, <1>3, <1>4, <1>5, <1>6, <1>7, <1>8 DEF Statement

\* A task that answers for a pending document is ended by no statement before the
\* document is decided; where a deadlock ends its commit, it goes on to record a
\* failure.
LEMMA PgStaysResponsible ==
  ASSUME PgShape, PgInv, DeadlocksSpareIndexing,
         NEW t \in Task, Read(t) \/ Statement(t), NEW d \in DocId,
         Pending(d), Pending(d)', Responsible(t, d)
  PROVE  Responsible(t, d)'
<1>t. /\ loc[t] \in Frame /\ loc \in [Task -> Frame] /\ TypeOK /\ t \in Tx /\ t # Other
      /\ docs \in [DocId -> Row \cup {Unborn, Gone}]
      /\ loc[t].pc \in IndexPc /\ loc[t].doc = d /\ Live(d)
  BY ShapeTypes, CopyAssumption DEF PgShape, Tx, Responsible, IndexPc, Pending
<1>1. CASE Read(t)
  <2>1. ~ Arrive(t)
    BY <1>t DEF Arrive, StartCreateCollection, StartDeleteCollection, StartUpload,
                StartReindex, StartDeleteDocument, At, IndexPc
  <2> QED BY <1>t, <1>1, <2>1, ReadersHoldNothing, StaysResponsible
<1>2. CASE DeleteChunks(t) \/ InsertChunks(t)
  <2>1. loc' = loc
    BY <1>t, <1>2 DEF DeleteChunks, InsertChunks
  <2> QED BY <2>1 DEF Responsible
<1>3. ~ (CommitReset(t) \/ CommitDelete(t) \/ DeleteOwned(t) \/ HoldCollection(t)
         \/ CommitDeleteCollection(t) \/ RefuseDelete(t) \/ Insert(t))
  BY <1>t DEF CommitReset, CommitDelete, DeleteOwned, HoldCollection,
              CommitDeleteCollection, RefuseDelete, Checking, Deletes, Doing, Insert, In,
              At, IndexPc
<1>4. CASE Victim(t)
  <2>1. tx[t].stage # "none" /\ OneTx(t)
    BY <1>t, <1>4, VictimsAreIn, ShapeParts
  <2>2. loc[t].pc = "fin_write"
    <3>1. loc[t].pc \in {"fin_write", "drop", "fail_write"}
      BY <1>t, <2>1 DEF OneTx, WritePc, IndexPc
    <3>2. PICK C \in SUBSET Open : t \in C /\ Deadlock(C)
      BY <1>4 DEF Victim, Deadlocked
    <3>3. \A x \in C : Doing(x) \notin {"retry", "drop", "fail_write"}
      BY <3>2, Zenon DEF DeadlocksSpareIndexing
    <3>4. Doing(t) \notin {"retry", "drop", "fail_write"}
      BY <3>2, <3>3
    <3>5. Doing(t) = loc[t].pc
      BY <1>t DEF Doing
    <3> QED BY <3>1, <3>4, <3>5
  <2>3. Fail(t, "unexpected")
    BY <1>4, <2>2 DEF Victim, Raise, InTry
  <2>4. loc'[t].pc = "drop" /\ loc'[t].doc = d
    BY <1>t, <2>3 DEF Fail, Become, Frame
  <2> QED BY <2>4 DEF Responsible, IndexPc
<1>5. CASE CommitDrop(t)
  <2>1. loc'[t].pc = "fail_read" /\ loc'[t].doc = d
    BY <1>t, <1>5 DEF CommitDrop, Goto, Become, Frame
  <2> QED BY <2>1 DEF Responsible, IndexPc
<1>6. ~ CommitFinish(t)
  <2> SUFFICES ASSUME CommitFinish(t) PROVE FALSE
    OBVIOUS
  <2> DEFINE r == loc[t].seen
             n == Pieces[loc[t].sha]
  <2>1. r \in Row /\ n \in Nat /\ r.status # "indexed"
    BY <1>t, WritersFrame DEF CommitFinish, In, At, WritePc, Responsible, IndexPc
  <2>2. IndexedRow(r, n).status = "indexed"
    BY <2>1, IndexedColumns
  <2>3. docs'[d] = FlushIndexed(docs[d], r, n)
    BY <1>t DEF CommitFinish
  <2>4. docs'[d].status = "indexed"
    BY <2>1, <2>2, <2>3 DEF FlushIndexed, Flush, Col
  <2> QED BY <2>4 DEF Pending
<1>7. ~ CommitFailure(t)
  <2> SUFFICES ASSUME CommitFailure(t) PROVE FALSE
    OBVIOUS
  <2> DEFINE r == loc[t].seen
             new == FailedRow(r, loc[t].why)
  <2>1. r \in Row /\ loc[t].why \in Failure /\ r.status # "failed"
    BY <1>t, WritersFrame DEF CommitFailure, In, At, WritePc, Responsible, IndexPc
  <2>2. new.status = "failed"
    BY <2>1, FailedColumns
  <2>3. docs'[d] = Flush(docs[d], r, new)
    BY <1>t DEF CommitFailure
  <2>4. docs'[d].status = "failed"
    BY <2>1, <2>2, <2>3 DEF Flush, Col
  <2> QED BY <2>4 DEF Pending
<1> QED BY <1>1, <1>2, <1>3, <1>4, <1>5, <1>6, <1>7 DEF Statement

\* A sweep makes no document pending, and at a start none is left.
LEMMA SweepMakesNonePending ==
  ASSUME PgShape, FailPending \/ PgStartup, NEW d \in DocId, Pending(d)'
  PROVE  FailPending /\ Pending(d)
<1>1. \/ docs'[d] = FailedRow(docs[d], "interrupted") /\ Live(d)
      \/ docs'[d] = docs[d]
  <2>1. d \in tx[Other].rows => Live(d)
    BY ShapeParts DEF OneTx, Tx
  <2> QED BY <2>1 DEF FailPending, PgStartup, Startup
<1>2. "interrupted" \in Failure
  BY DEF Failure
<1>3. docs'[d] = docs[d]
  <2> SUFFICES ASSUME docs'[d] = FailedRow(docs[d], "interrupted"), Live(d) PROVE FALSE
    BY <1>1
  <2>1. docs[d] \in Row
    BY ShapeTypes DEF Live
  <2> QED BY <1>2, <2>1, FailedColumns DEF Pending
<1>4. Pending(d)
  BY <1>3 DEF Pending, Live
<1>5. ~ PgStartup
  <2> SUFFICES ASSUME PgStartup PROVE FALSE
    OBVIOUS
  <2>1. docs'[d] = FailedRow(docs[d], "interrupted") /\ docs[d] \in Row
    BY <1>4, ShapeTypes DEF PgStartup, Startup, Pending, Live
  <2> QED BY <1>2, <2>1, FailedColumns DEF Pending
<1> QED BY <1>4, <1>5

\* A read that an answer comes for is no database error.
LEMMA ReadersMeetNoFault ==
  ASSUME NEW t \in Task, Read(t)
  PROVE  NoFault
BY DEF Read, StartCreateCollection, StartDeleteCollection, StartUpload, StartReindex,
       StartDeleteDocument, CreateCollection, LookupExisting, RereadExisting,
       ReplyDuplicate, ReadForPending, GetDocument, ReadAndChunk, Embed, ReadOwner,
       ReadToFinish, ReadToFail

\* Each step leaves every pending document a task that answers for it.
LEMMA PgStrandedStep ==
  ASSUME PgShape, PgInv, DeadlocksSpareIndexing, NothingStrandedOnPostgres,
         [PgNext]_pgvars
  PROVE  NothingStrandedOnPostgres'
<1> SUFFICES ASSUME faults' = 0, up', NEW d \in DocId, Pending(d)'
             PROVE  \E t \in Task : Responsible(t, d)'
  BY DEF NothingStrandedOnPostgres, NoStrandedPending, Pending
<1>h. ASSUME faults = 0, up, Pending(d) PROVE \E t \in Task : Responsible(t, d)
  BY <1>h DEF NothingStrandedOnPostgres, NoStrandedPending, Pending
<1>s. ASSUME faults = 0, up, docs' = docs, loc' = loc
      PROVE  \E t \in Task : Responsible(t, d)'
  BY <1>h, <1>s DEF Pending, Responsible, Live
<1>f. faults \in Nat
  BY BoundsAssumption DEF PgShape, TypeOK
<1>1. ASSUME NEW t \in Task, Read(t) \/ Statement(t) PROVE \E u \in Task : Responsible(u, d)'
  <2>1. CASE ~ Pending(d)
    BY <1>1, <2>1, PgBecomesPending
  <2>2. CASE Pending(d)
    <3>1. faults = 0 /\ up
      <4>1. NoFault
        BY <1>1, ReadersMeetNoFault DEF Statement
      <4> QED BY <1>1, <4>1, OwnMoves DEF NoFault
    <3>2. PICK u \in Task : Responsible(u, d)
      BY <1>h, <2>2, <3>1
    <3>3. CASE u = t
      BY <1>1, <2>2, <3>2, <3>3, PgStaysResponsible
    <3>4. CASE u # t
      <4>1. loc'[u] = loc[u]
        BY <1>1, <3>4, OwnMoves
      <4> QED BY <3>2, <4>1 DEF Responsible
    <3> QED BY <3>3, <3>4
  <2> QED BY <2>1, <2>2
<1>g. faults' # faults + 1
  BY <1>f
<1>2. \A t \in Task : ~ PgDatabaseError(t)
  BY <1>g DEF PgDatabaseError, DatabaseError
<1>3. ~ PgCrash
  BY DEF PgCrash, Crash
<1>4. CASE (Join \/ Continue) /\ NoFault
  <2>1. docs' = docs /\ loc' = loc
    BY <1>4 DEF Join, Continue, DeleteChunks, DeleteChunk, LockDocuments, LockDocument
  <2> QED BY <1>s, <1>4, <2>1 DEF NoFault
<1>5. CASE FailPending \/ PgStartup
  <2>1. FailPending /\ Pending(d)
    BY <1>5, SweepMakesNonePending
  <2>2. loc' = loc /\ NoFault
    BY <2>1 DEF FailPending
  <2>3. \E t \in Task : Responsible(t, d)
    BY <1>h, <2>1, <2>2 DEF NoFault
  <2> QED BY <2>2, <2>3 DEF Responsible
<1>8. CASE SweepFails
  <2>1. docs' = docs /\ loc' = loc /\ up' = up /\ faults' = faults
    BY <1>g, <1>8 DEF SweepFails, Rollback
  <2> QED BY <1>s, <2>1
<1>6. CASE UNCHANGED pgvars
  BY <1>s, <1>6 DEF pgvars, vars
<1>7. Continue => NoFault
  BY DEF Continue
<1> QED BY <1>1, <1>2, <1>3, <1>4, <1>5, <1>6, <1>7, <1>8 DEF PgNext

\* While the connection holds, each pending document has a task that is going to
\* decide it, whatever the foreign keys refuse, deadlocks end and joins sweep.
THEOREM NothingStrandsOnPostgres ==
  ASSUME Overlap = FALSE
  PROVE  PgSpec => []NothingStrandedOnPostgres
<1>1. PgInit => NothingStrandedOnPostgres
  BY DEF PgInit, Init, NothingStrandedOnPostgres, NoStrandedPending, Live
<1>2. PgShape /\ PgInv /\ DeadlocksSpareIndexing /\ NothingStrandedOnPostgres
        /\ [PgNext]_pgvars => NothingStrandedOnPostgres'
  BY PgStrandedStep
<1> QED BY <1>1, <1>2, PgShapeHolds, PgInvHolds, IndexingIsSpared, PTL DEF PgSpec
=============================================================================
