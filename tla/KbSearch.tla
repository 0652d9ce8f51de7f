------------------------------- MODULE KbSearch -------------------------------
(***************************************************************************)
(* SqlScanIndex.query and _score_batch: the rows of a collection read in   *)
(* partitions, each scored and cut to its best, the best so far kept.  And *)
(* PgVectorIndex.query, which orders them all in the database instead.     *)
(*                                                                         *)
(* A row is its cosine against the query, rounded to the few values the    *)
(* order depends on, whether its vector has the query's width, and whether *)
(* its norm is zero, when the cosine is 0 / 0.  The database may hand the  *)
(* rows over in any order; rows is that order.                             *)
(***************************************************************************)
EXTENDS Integers, Sequences, FiniteSets

CONSTANTS Reads,       \* the sequences of rows a scan may read
          Scores,      \* what a row's cosine can be
          Limits,      \* values of limit
          Floors,      \* values of min_score
          PARTITION_SIZE

\* score is what _score_batch gives a row: 0 when the norm is zero.
Row == {r \in [score : Scores, wide : BOOLEAN, zero : BOOLEAN] :
          r.zero => r.score = 0}

ASSUME ReadsAssumption == Reads \subseteq Seq(Row)
ASSUME RequestsAssumption ==
  Scores \subseteq Int /\ Floors \subseteq Nat /\ Limits \subseteq Nat \ {0}
ASSUME PartitionAssumption == PARTITION_SIZE \in Nat \ {0}

VARIABLES
  rows, limit, min_score,   \* what is read, and the request
  blank,                    \* the query's vector has norm zero
  scanned,                  \* rows read so far
  best,                     \* the best so far
  answer,                   \* what query returns
  answered

request == <<rows, limit, min_score, blank>>
qvars == <<rows, limit, min_score, blank, scanned, best, answer, answered>>

Hit == [score : Scores, order : Nat, row : 1 .. Len(rows)]

\* The rows of a partition that can be compared and reach the floor.
Survivors(batch) == {i \in batch : rows[i].wide /\ rows[i].score >= min_score}

\* In the order they were read.
InOrder(S) == CHOOSE s \in [1 .. Cardinality(S) -> S] :
                \A j, k \in 1 .. Cardinality(S) : j < k => s[j] < s[k]

\* np.argpartition promises the `limit' best first, in any order, and any of
\* those that tie for the last place.
TopInAnyOrder(S) ==
  {s \in [1 .. limit -> S] :
     /\ \A j, k \in 1 .. limit : j # k => s[j] # s[k]
     /\ \A i \in S : (\A k \in 1 .. limit : s[k] # i) =>
          \A k \in 1 .. limit : rows[s[k]].score >= rows[i].score}

\* What _score_batch may return, as indices of rows.
ScoreBatch(batch) ==
  LET keep == Survivors(batch) IN
  IF Cardinality(keep) > limit THEN TopInAnyOrder(keep) ELSE {InOrder(keep)}

\* A slip: the position in the partition breaks ties.
RankedInPartition(hits) ==
  [k \in 1 .. Len(hits) |->
     [score |-> rows[hits[k]].score, order |-> k - 1, row |-> hits[k]]]

\* The hits of a partition with the position that breaks ties.
Ranked(hits) ==
  [k \in 1 .. Len(hits) |->
     [score |-> rows[hits[k]].score, order |-> scanned + k - 1, row |-> hits[k]]]

\* The sort key (-score, order).
Before(g, h) == g.score > h.score \/ (g.score = h.score /\ g.order < h.order)

\* list.sort is stable.
Sorted(b) ==
  LET place(k) == Cardinality({j \in 1 .. Len(b) :
                    Before(b[j], b[k]) \/ (j < k /\ ~ Before(b[k], b[j]))}) IN
  [n \in 1 .. Len(b) |-> b[CHOOSE k \in 1 .. Len(b) : place(k) = n - 1]]

Cut(b) == IF Len(b) > limit THEN SubSeq(b, 1, limit) ELSE b

\* A slip: the list is cut without sorting it first.
TrimUnsorted(b) == Cut(b)

\* A slip: nothing is cut between partitions.
TrimNothing(b) == b

\* Between partitions a list that outgrew the limit is sorted and cut.
Trim(b) == IF Len(b) > limit THEN SubSeq(Sorted(b), 1, limit) ELSE b

SearchInit ==
  /\ rows \in Reads /\ limit \in Limits /\ min_score \in Floors
  /\ blank \in BOOLEAN
  /\ scanned = 0 /\ best = <<>> /\ answer = <<>> /\ answered = FALSE

Partition ==
  {i \in 1 .. Len(rows) : scanned < i /\ i <= scanned + PARTITION_SIZE}

\* One partition is fetched, scored in a worker thread, and merged.
ScorePartition ==
  /\ ~ answered /\ ~ blank /\ scanned < Len(rows)
  /\ \E hits \in ScoreBatch(Partition) : best' = Trim(best \o Ranked(hits))
  /\ scanned' = scanned + Cardinality(Partition)
  /\ UNCHANGED <<request, answer, answered>>

AnswerQuery ==
  /\ ~ answered /\ ~ blank /\ scanned = Len(rows)
  /\ best' = Sorted(best)
  /\ answer' = Cut(best')
  /\ answered' = TRUE
  /\ UNCHANGED <<request, scanned>>

\* A query vector of norm zero is compared with nothing.
AnswerNothing ==
  /\ ~ answered /\ blank
  /\ answered' = TRUE
  /\ UNCHANGED <<request, scanned, best, answer>>

-----------------------------------------------------------------------------
Lower(x, y) == IF x <= y THEN x ELSE y

\* A slip: the statement orders by the score, descending, and NaN comes first.
BeforeByScore(i, j) ==
  IF rows[i].zero \/ rows[j].zero THEN rows[i].zero /\ ~ rows[j].zero
  ELSE rows[i].score > rows[j].score

\* ORDER BY embedding <=> q: nearest first, and NaN, the distance of a vector of
\* norm zero, after every number.
Nearer(i, j) ==
  IF rows[i].zero \/ rows[j].zero THEN rows[j].zero /\ ~ rows[i].zero
  ELSE rows[i].score > rows[j].score

\* The rows as the statement orders them; which of two equals is first is not
\* promised, and nothing below asks.
Ordered ==
  LET place(i) == Cardinality({j \in 1 .. Len(rows) :
                    Nearer(j, i) \/ (~ Nearer(i, j) /\ j <= i)}) IN
  [k \in 1 .. Len(rows) |-> CHOOSE i \in 1 .. Len(rows) : place(i) = k]

\* PgVectorIndex.query: ordered and cut by the database, then the floor.
PgQuery ==
  LET nearest == SubSeq(Ordered, 1, Lower(limit, Len(rows)))
      kept == InOrder({k \in 1 .. Len(nearest) :
                         /\ ~ rows[nearest[k]].zero
                         /\ rows[nearest[k]].score >= min_score})
  IN IF blank THEN <<>> ELSE [k \in 1 .. Len(kept) |-> nearest[kept[k]]]
-----------------------------------------------------------------------------
SearchNext == ScorePartition \/ AnswerQuery \/ AnswerNothing

SearchSpec == SearchInit /\ [][SearchNext]_qvars

-----------------------------------------------------------------------------
\* Rows are numbered as they are read, and between two partitions no more than
\* `limit' of them are held, however many the collection has.
SearchTypeOK ==
  /\ rows \in Seq(Row) /\ limit \in Limits /\ min_score \in Floors
  /\ blank \in BOOLEAN /\ answered \in BOOLEAN
  /\ scanned \in 0 .. Len(rows)
  /\ best \in Seq(Hit) /\ Len(best) <= limit
  /\ answer \in Seq(Hit) /\ Len(answer) <= limit

\* The rows read so far that a search over all of them at once would rank.
Eligible == {i \in 1 .. scanned : rows[i].wide /\ rows[i].score >= min_score}

\* b holds the `limit' best of the rows read so far, each once, or all of them.
TopOfRead(b) ==
  LET held == {b[k].row : k \in 1 .. Len(b)} IN
  /\ \A k \in 1 .. Len(b) : b[k].score = rows[b[k].row].score
  /\ held \subseteq Eligible /\ Cardinality(held) = Len(b)
  /\ Len(b) = Lower(limit, Cardinality(Eligible))
  /\ \A i \in Eligible \ held, j \in held : rows[j].score >= rows[i].score

\* Cutting every partition, and the list between partitions, to `limit' loses no
\* row of the answer: at any time the best so far are the best of what was read.
KeepsTheBest ==
  /\ TopOfRead(best)
  /\ answered /\ ~ blank => TopOfRead(answer) /\ scanned = Len(rows)

PartitionOf(i) == (i - 1) \div PARTITION_SIZE

\* The answer is in descending order, and of two equal scores from different
\* partitions the one read first comes first.
Ranking ==
  \A j, k \in 1 .. Len(answer) : j < k =>
    \/ answer[j].score > answer[k].score
    \/ /\ answer[j].score = answer[k].score
       /\ PartitionOf(answer[j].row) <= PartitionOf(answer[k].row)

\* The rows pgvector can hold: all of the column's width.
Convertible == \A i \in 1 .. Len(rows) : rows[i].wide

\* No vector of norm zero, or a floor that keeps them out of a scan too.
ZeroIsFloored == min_score > 0 \/ \A i \in 1 .. Len(rows) : ~ rows[i].zero

\* The two backends give one request the same scores in the same order, though
\* one floors and then cuts, the other cuts and then floors: "equivalent to the
\* scan's floor-then-top-k", pgindex.py:211-213.
BackendsAgree ==
  answered /\ Convertible /\ ZeroIsFloored =>
    [k \in 1 .. Len(answer) |-> answer[k].score]
      = [k \in 1 .. Len(PgQuery) |-> rows[PgQuery[k]].score]
=============================================================================
