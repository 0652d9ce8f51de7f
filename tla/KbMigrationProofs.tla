-------------------------- MODULE KbMigrationProofs --------------------------
(***************************************************************************)
(* The migration, for any documents, widths and sequence of deployments.   *)
(***************************************************************************)
EXTENDS KbMigration, TLAPS

\* What a vector column holds fits it, in every phase; a process past
\* create_schema has found the column it reads; only Postgres converts.
ColumnFits ==
  /\ column # 0 => /\ dialect = "postgresql"
                   /\ \A d \in Doc : \A k \in DOMAIN vectors[d] : vectors[d][k] = column
  /\ phase \in {"sweep", "serving"} => column = IF Pgvector THEN dim ELSE 0

\* On Postgres the column and its contents arrive together.
PlacedTogether ==
  dialect = "postgresql" =>
    /\ phase # "backfill"
    /\ phase \in {"create_schema", "sweep", "serving"} => has_coll
    /\ has_coll => \A d \in Doc : status[d] = "indexed" => placed[d]

MigInv == MigTypeOK /\ ColumnFits /\ ChunksIffIndexed /\ PlacedTogether

LEMMA VectorsAreSequences ==
  ASSUME NEW v \in Vectors(Widths)
  PROVE  v \in Seq(Nat \ {0}) /\ v # <<>>
  <1>1. PICK n \in 1 .. MaxPieces : v \in [1 .. n -> Widths]
    BY DEF Vectors
  <1>2. n \in Nat /\ n # 0
    BY <1>1, PiecesAssumption
  <1>3. v \in [1 .. n -> Nat \ {0}]
    BY <1>1, DimsAssumption
  <1>4. v \in Seq(Nat \ {0})
    BY <1>2, <1>3
  <1>5. DOMAIN v = 1 .. n
    BY <1>1
  <1>6. DOMAIN <<>> = {}
    OBVIOUS
  <1>7. 1 \in DOMAIN v
    BY <1>5, <1>2
  <1> QED BY <1>4, <1>6, <1>7

LEMMA MigInitial == MigInit => MigInv
  <1> SUFFICES ASSUME MigInit PROVE MigInv
    OBVIOUS
  <1>1. \A d \in Doc : vectors[d] \in Seq(Nat \ {0})
    <2>1. \A d \in Doc : vectors[d] = <<>> \/ vectors[d] \in Vectors(Widths)
      BY DEF MigInit
    <2>2. <<>> \in Seq(Nat \ {0})
      OBVIOUS
    <2> QED BY <2>1, <2>2, VectorsAreSequences
  <1>2. vectors = [d \in Doc |-> vectors[d]] /\ status \in [Doc -> Status]
    BY DEF MigInit, Status
  <1>3. MigTypeOK
    BY <1>1, <1>2, DialectsAssumption DEF MigInit, MigTypeOK, Phase
  <1>4. ColumnFits /\ ChunksIffIndexed /\ PlacedTogether
    BY DEF MigInit, ColumnFits, ChunksIffIndexed, PlacedTogether
  <1> QED BY <1>3, <1>4 DEF MigInv

LEMMA MigStep ==
  ASSUME MigInv, [MigNext]_mvars
  PROVE  MigInv'
  <1> USE DEF MigInv, corpus
  <1> DEFINE Others == UNCHANGED <<dialect, column, has_coll, corpus, placed>>
  <1>a. ASSUME Others, phase' \in Phase, dim' \in Nat,
               phase' \in {"sweep", "serving"} => column = IF Pgvector' THEN dim' ELSE 0,
               dialect = "postgresql" => /\ phase' # "backfill"
                                         /\ phase' \in {"create_schema", "sweep", "serving"} => has_coll
        PROVE  MigInv'
    BY <1>a DEF MigTypeOK, ColumnFits, ChunksIffIndexed, PlacedTogether
  <1>1. ASSUME NEW n \in Dims, Deploy(n)
        PROVE  MigInv'
    BY <1>1, <1>a, DimsAssumption DEF Deploy, MigTypeOK, Phase
  <1>2. CASE AddColumn
    <2>1. MigTypeOK'
      BY <1>2 DEF AddColumn, MigTypeOK, Phase
    <2>2. ColumnFits' /\ ChunksIffIndexed'
      BY <1>2 DEF AddColumn, ColumnFits, ChunksIffIndexed
    <2>3. PlacedTogether'
      BY <1>2 DEF AddColumn, PlacedTogether, MigTypeOK
    <2> QED BY <2>1, <2>2, <2>3
  <1>3. CASE Backfill
    <2>1. MigTypeOK'
      BY <1>3 DEF Backfill, MigTypeOK, Phase
    <2>2. ColumnFits' /\ ChunksIffIndexed' /\ PlacedTogether'
      BY <1>3 DEF Backfill, ColumnFits, ChunksIffIndexed, PlacedTogether
    <2> QED BY <2>1, <2>2
  <1>4. CASE ScanSchema
    <2>1. phase' \in {"sweep", "down"} /\ (phase' = "sweep" => column = 0)
      BY <1>4 DEF ScanSchema, ColumnFits
    <2> QED BY <1>4, <2>1, <1>a DEF ScanSchema, MigTypeOK, Phase, PlacedTogether, Pgvector
  <1>5. CASE FindVectorColumn
    <2>1. phase' \in {"sweep", "down"} /\ (phase' = "sweep" => column = dim)
      BY <1>5 DEF FindVectorColumn
    <2> QED BY <1>5, <2>1, <1>a DEF FindVectorColumn, MigTypeOK, Phase, PlacedTogether, Pgvector
  <1>6. CASE Convert
    <2>1. \A d \in Doc : vectors[d] \in Seq(Nat \ {0}) /\ <<>> \in Seq(Nat \ {0})
      BY DEF MigTypeOK
    <2>2. \A d \in Doc : vectors'[d] = IF Misfit(d) THEN <<>> ELSE vectors[d]
      BY <1>6 DEF Convert
    <2>3. \A d \in Doc : status'[d] = IF Misfit(d) THEN "failed" ELSE status[d]
      BY <1>6 DEF Convert
    <2>4. vectors' \in [Doc -> Seq(Nat \ {0})]
      BY <1>6, <2>1 DEF Convert
    <2>5. status' \in [Doc -> Status]
      BY <1>6 DEF Convert, MigTypeOK, Status
    <2>6. MigTypeOK'
      BY <1>6, <2>4, <2>5 DEF Convert, MigTypeOK, Phase
    <2>7. \A d \in Doc : \A k \in DOMAIN vectors'[d] : vectors'[d][k] = dim
      BY <2>2 DEF Misfit
    <2>8. ColumnFits'
      BY <1>6, <2>7 DEF Convert, ColumnFits, Pgvector
    <2>9. ChunksIffIndexed'
      BY <2>2, <2>3 DEF ChunksIffIndexed
    <2>10. PlacedTogether'
      BY <1>6, <2>3 DEF Convert, PlacedTogether
    <2> QED BY <2>6, <2>8, <2>9, <2>10
  <1>7. CASE Sweep
    <2>1. <<>> \in Seq(Nat \ {0})
      OBVIOUS
    <2>2. MigTypeOK'
      BY <1>7, <2>1 DEF Sweep, MigTypeOK, Status, Phase
    <2>3. ColumnFits'
      BY <1>7 DEF Sweep, ColumnFits, Pgvector
    <2>4. ChunksIffIndexed' /\ PlacedTogether'
      BY <1>7 DEF Sweep, ChunksIffIndexed, PlacedTogether
    <2> QED BY <2>2, <2>3, <2>4
  <1>8. ASSUME NEW d \in Doc, Queue(d) \/ Delete(d)
        PROVE  MigInv'
    <2>1. <<>> \in Seq(Nat \ {0})
      OBVIOUS
    <2>2. MigTypeOK'
      BY <1>8, <2>1 DEF Queue, Delete, MigTypeOK, Status
    <2>5. \A e \in Doc : vectors'[e] = vectors[e] \/ vectors'[e] = <<>>
      BY <1>8 DEF Queue, Delete, MigTypeOK
    <2>6. UNCHANGED <<dialect, column, dim, phase>>
      BY <1>8 DEF Queue, Delete
    <2>3. ColumnFits'
      BY <2>5, <2>6 DEF ColumnFits, Pgvector
    <2>4. ChunksIffIndexed' /\ PlacedTogether'
      BY <1>8 DEF Queue, Delete, ChunksIffIndexed, PlacedTogether, MigTypeOK
    <2> QED BY <2>2, <2>3, <2>4
  <1>9. ASSUME NEW d \in Doc, Index(d)
        PROVE  MigInv'
    <2>1. PICK v \in Vectors(Widths) :
            \/ /\ column # 0 => \A k \in DOMAIN v : v[k] = column
               /\ status' = [status EXCEPT ![d] = "indexed"]
               /\ vectors' = [vectors EXCEPT ![d] = v]
               /\ placed' = [placed EXCEPT ![d] = TRUE]
            \/ /\ status' = [status EXCEPT ![d] = "failed"]
               /\ UNCHANGED <<vectors, placed>>
      BY <1>9 DEF Index
    <2>2. v \in Seq(Nat \ {0}) /\ v # <<>>
      BY VectorsAreSequences
    <2>3. MigTypeOK'
      BY <1>9, <2>1, <2>2 DEF Index, MigTypeOK, Status
    <2>4. ColumnFits'
      BY <1>9, <2>1 DEF Index, ColumnFits, Pgvector, MigTypeOK
    <2>5. ChunksIffIndexed'
      BY <1>9, <2>1, <2>2 DEF Index, ChunksIffIndexed, MigTypeOK
    <2>6. PlacedTogether'
      BY <1>9, <2>1 DEF Index, PlacedTogether, MigTypeOK
    <2> QED BY <2>3, <2>4, <2>5, <2>6
  <1>10. CASE Stop
    BY <1>10, <1>a DEF Stop, MigTypeOK, Phase
  <1>11. CASE UNCHANGED mvars
    BY <1>11, <1>a DEF mvars, MigTypeOK, ColumnFits, PlacedTogether, Pgvector
  <1> QED BY <1>1, <1>2, <1>3, <1>4, <1>5, <1>6, <1>7, <1>8, <1>9, <1>10, <1>11
          DEF MigNext

LEMMA MigInvariant == MigSpec => []MigInv
  <1> QED BY MigInitial, MigStep, PTL DEF MigSpec

\* Every column keeps its type through every upgrade and every death in one.
THEOREM MigrationTypeCorrect == MigSpec => []MigTypeOK
  <1>1. MigInv => MigTypeOK
    BY DEF MigInv
  <1> QED BY <1>1, MigInvariant, PTL

\* Whatever deployments follow each other, and wherever they die, a process
\* serves only a column it can read.
THEOREM EveryStartIsSound == MigSpec => []ServesWhatItReads
  <1>1. MigInv => ServesWhatItReads
    BY DEF MigInv, ServesWhatItReads, ColumnFits
  <1> QED BY <1>1, MigInvariant, PTL

\* No start leaves chunks of a document that is not indexed, or an indexed
\* document without chunks.
THEOREM StartsKeepChunks == MigSpec => []ChunksIffIndexed
  <1>1. MigInv => ChunksIffIndexed
    BY DEF MigInv
  <1> QED BY <1>1, MigInvariant, PTL

\* On Postgres every chunk that is served is found by its collection: the
\* backfill of the column leaves none behind.
THEOREM ServedChunksAreFound == MigSpec => []FoundByCollection
  <1>1. MigInv => FoundByCollection
    BY DEF MigInv, FoundByCollection, PlacedTogether
  <1> QED BY <1>1, MigInvariant, PTL

\* No sequence of starts loses vectors but the one conversion, of a document
\* that has one of another width.
THEOREM NoStartLosesVectors == MigSpec => FittingVectorsSurvive
  <1> DEFINE Loses(d) == vectors'[d] # vectors[d]
             Excused(d) == /\ column = 0 /\ column' = dim
                           /\ vectors'[d] = <<>> /\ Misfit(d)
  <1>1. ASSUME MigInv, MigNext, phase # "serving", NEW d \in Doc, Loses(d)
        PROVE  Excused(d)
    <2>1. CASE Convert
      <3>1. vectors'[d] = IF Misfit(d) THEN <<>> ELSE vectors[d]
        BY <2>1 DEF Convert
      <3> QED BY <1>1, <2>1, <3>1 DEF Convert
    <2>2. CASE Sweep
      <3>1. vectors'[d] = IF status[d] = "pending" THEN <<>> ELSE vectors[d]
        BY <2>2 DEF Sweep
      <3>2. status[d] = "pending" => vectors[d] = <<>>
        BY <1>1 DEF MigInv, ChunksIffIndexed
      <3> QED BY <1>1, <3>1, <3>2
    <2>3. ~ (Convert \/ Sweep) => UNCHANGED vectors
      BY <1>1 DEF MigNext, Deploy, AddColumn, Backfill, ScanSchema, FindVectorColumn,
                  Queue, Index, Delete, Stop, corpus
    <2> QED BY <1>1, <2>1, <2>2, <2>3
  <1>2. MigInv /\ [MigNext]_mvars =>
          [phase # "serving" => \A d \in Doc : Loses(d) => Excused(d)]_mvars
    BY <1>1
  <1> QED BY <1>2, MigInvariant, PTL DEF MigSpec, FittingVectorsSurvive
=============================================================================
