--------------------------- MODULE KbPipelineProofs ---------------------------
(***************************************************************************)
(* Theorems about a document's way from the bytes of its request to its    *)
(* rows, for every text, window, overlap and batch size: the parts proved  *)
(* right in KbSplitProofs and KbIngestProofs, put together.                *)
(***************************************************************************)
EXTENDS KbIngestProofs, FiniteSetTheorems, FunctionTheorems

SplitFacts == INSTANCE KbSplitProofs WITH
  Bodies <- SectionBodies, body <- s_body,
  start <- s_start, end <- s_end, out <- s_out, done <- s_done

\* What KbSplit assumes of its constants, said of a section's.
LEMMA SectionArguments ==
  /\ SectionBodies \subseteq {b \in Seq(SplitFacts!Char) : SplitFacts!Stripped(b)}
  /\ Sizes \subseteq Nat \ {0} /\ Overlaps \subseteq Nat
<1>1. ASSUME NEW b \in SectionBodies
      PROVE  b \in Seq(SplitFacts!Char) /\ SplitFacts!Stripped(b)
  <2>1. /\ b \in Seq({"letter", "newline"})
        /\ Len(b) > 0 /\ b[1] = "letter" /\ b[Len(b)] = "letter"
    BY DEF SectionBodies
  <2>2. b \in Seq({"letter", "stop", "blank", "newline"})
    BY <2>1
  <2> QED BY <2>1, <2>2 DEF SplitFacts!Char, SplitFacts!Stripped, SplitFacts!Space
<1> QED BY <1>1, WindowAssumption

\* One section's split is the one of KbSplitProofs.
LEMMA SameSplit == Split!SplitNext <=> SplitFacts!ReturnWhole \/ SplitFacts!CutWindow
<1>1. Split!ReturnWhole <=> SplitFacts!ReturnWhole
  BY DEF Split!ReturnWhole, SplitFacts!ReturnWhole, Split!args, SplitFacts!args
<1>2. \A b, m, o, s : Split!WindowEnd(b, m, o, s) = SplitFacts!WindowEnd(b, m, o, s)
  BY DEF Split!WindowEnd, SplitFacts!WindowEnd, Split!Lesser, SplitFacts!Lesser,
         Split!StepBack, SplitFacts!StepBack, Split!BoundaryAt, SplitFacts!BoundaryAt,
         Split!Least, SplitFacts!Least, Split!Space, SplitFacts!Space
<1>3. \A b, f, t : Split!Strip(b, f, t) = SplitFacts!Strip(b, f, t)
  BY DEF Split!Strip, SplitFacts!Strip, Split!Solid, SplitFacts!Solid, Split!Least,
         SplitFacts!Least, Split!Greatest, SplitFacts!Greatest,
         Split!Space, SplitFacts!Space
<1>4. \A m, o, s, e : Split!NextStart(m, o, s, e) = SplitFacts!NextStart(m, o, s, e)
  BY DEF Split!NextStart, SplitFacts!NextStart, Split!StepBack, SplitFacts!StepBack,
         Split!Lesser, SplitFacts!Lesser, Split!Greater, SplitFacts!Greater
<1>5. Split!CutWindow <=> SplitFacts!CutWindow
  BY <1>2, <1>3, <1>4 DEF Split!CutWindow, SplitFacts!CutWindow, Split!args, SplitFacts!args
<1> QED BY <1>1, <1>5 DEF Split!SplitNext

LEMMA SplitSteps ==
  ASSUME SplitFacts!SplitInv, Split!SplitNext
  PROVE  SplitFacts!SplitInv'
BY SameSplit, SectionArguments, SplitFacts!WholeSteps, SplitFacts!CutSteps

-----------------------------------------------------------------------------
(* The body of a section: where its lines are in it.                       *)

\* What _sections leaves of a section's ends.
Cut(s) ==
  /\ s.from \in Nat /\ s.to \in Nat /\ s.from <= s.to
  /\ IsText(s.from) /\ IsText(s.to)

Letters(s, i) == {j \in s.from .. i : IsText(j)}

\* A line's offset is positive and no later line has a smaller one.
LEMMA Offsets ==
  ASSUME NEW s, Cut(s), NEW i \in s.from .. s.to, IsText(i)
  PROVE  Offset(s, i) \in Nat \ {0} /\ Offset(s, i) <= Offset(s, s.to)
<1> DEFINE n == s.to
<1>1. /\ s.from \in Int /\ i \in Int /\ s.to \in Int /\ i - s.from \in Nat
      /\ i - s.from <= s.to - s.from /\ s.to - s.from \in Nat
  BY DEF Cut
<1>2. IsFiniteSet(s.from .. s.to)
  BY <1>1, FS_Interval
<1>3. Letters(s, s.to) \in SUBSET (s.from .. s.to)
  BY DEF Letters
<1>4. IsFiniteSet(Letters(s, s.to)) /\ Cardinality(Letters(s, s.to)) \in Nat
  BY <1>2, <1>3, FS_Subset, FS_CardinalityType
<1>5. Letters(s, i) \in SUBSET Letters(s, s.to)
  BY <1>1 DEF Letters
<1>6. /\ IsFiniteSet(Letters(s, i)) /\ Cardinality(Letters(s, i)) \in Nat
      /\ Cardinality(Letters(s, i)) <= Cardinality(Letters(s, s.to))
  BY <1>4, <1>5, FS_Subset, FS_CardinalityType
<1>7. Cardinality(Letters(s, i)) # 0
  <2>1. i \in Letters(s, i)
    BY <1>1 DEF Letters
  <2> QED BY <1>6, <2>1, FS_EmptySet
<1>8. Offset(s, i) = (i - s.from) + Cardinality(Letters(s, i))
      /\ Offset(s, s.to) = (s.to - s.from) + Cardinality(Letters(s, s.to))
  BY DEF Offset, Letters
<1> QED BY <1>1, <1>4, <1>6, <1>7, <1>8

LEMMA FirstOffset ==
  ASSUME NEW s, Cut(s)
  PROVE  Offset(s, s.from) = 1
<1>1. Letters(s, s.from) = {s.from}
  BY DEF Letters, Cut
<1>2. Cardinality(Letters(s, s.from)) = 1
  BY <1>1, FS_Singleton
<1> QED BY <1>2 DEF Offset, Letters, Cut

\* The body is what KbSplit asks of one: it starts and ends with a letter.
LEMMA CharsOfSection ==
  ASSUME NEW s, Cut(s)
  PROVE  /\ Chars(s) \in SectionBodies /\ Len(Chars(s)) = Offset(s, s.to)
         /\ \A i \in LinesOf(s) : /\ Offset(s, i) \in 1 .. Len(Chars(s))
                                  /\ Chars(s)[Offset(s, i)] = "letter"
         /\ \A p \in 1 .. Len(Chars(s)) : Chars(s)[p] = "letter" =>
              \E i \in LinesOf(s) : Offset(s, i) = p
<1> DEFINE n == Offset(s, s.to)
<1>1. s.from \in LinesOf(s) /\ s.to \in LinesOf(s)
  BY DEF Cut, LinesOf
<1>2. \A i \in LinesOf(s) : Offset(s, i) \in Nat \ {0} /\ Offset(s, i) <= n
  BY Offsets DEF LinesOf
<1>3. n \in Nat \ {0}
  BY <1>1, <1>2
<1> HIDE DEF n
<1>4. /\ Chars(s) \in Seq({"letter", "newline"}) /\ Len(Chars(s)) = n
      /\ \A p \in 1 .. n : Chars(s)[p] = IF \E i \in LinesOf(s) : Offset(s, i) = p
                                         THEN "letter" ELSE "newline"
  BY <1>3 DEF Chars, n
<1>5. \A i \in LinesOf(s) : Offset(s, i) \in 1 .. n
  BY <1>2, <1>3
<1>6. Chars(s)[1] = "letter"
  BY <1>1, <1>4, <1>5, FirstOffset
<1>7. Chars(s)[n] = "letter"
  BY <1>1, <1>4, <1>5 DEF n
<1> QED BY <1>3, <1>4, <1>5, <1>6, <1>7 DEF SectionBodies, n

\* A section that has been split: every line of its text is in a window, and
\* every window has one.
LEMMA WindowsOfSection ==
  ASSUME SplitFacts!SplitInv, s_done, NEW s, Cut(s), s_body = Chars(s)
  PROVE  /\ Len(s_out) \in Nat
         /\ \A i \in LinesOf(s) : \E k \in 1 .. Len(s_out) :
              Split!Inside(Offset(s, i), s_out[k])
         /\ \A k \in 1 .. Len(s_out) : \E i \in LinesOf(s) :
              Split!Inside(Offset(s, i), s_out[k])
<1>1. /\ s_out \in Seq([from : 0 .. Len(s_body), to : 0 .. Len(s_body)])
      /\ s_end = Len(s_body)
      /\ \A i \in 1 .. s_end : s_body[i] \notin {"blank", "newline"} =>
           \E k \in 1 .. Len(s_out) : s_out[k].from < i /\ i <= s_out[k].to
      /\ \A k \in 1 .. Len(s_out) : /\ s_out[k].from < s_out[k].to
                                    /\ s_body[s_out[k].from + 1] \notin {"blank", "newline"}
  BY DEF SplitFacts!SplitInv, SplitFacts!SplitTypeOK, SplitFacts!NothingLost,
         SplitFacts!PiecesFit, SplitFacts!Inside, SplitFacts!Space
<1>2. /\ s_body \in Seq({"letter", "newline"}) /\ Len(s_body) \in Nat
      /\ \A i \in LinesOf(s) : Offset(s, i) \in 1 .. Len(s_body)
                               /\ s_body[Offset(s, i)] = "letter"
      /\ \A p \in 1 .. Len(s_body) : s_body[p] = "letter" =>
           \E i \in LinesOf(s) : Offset(s, i) = p
  BY CharsOfSection DEF SectionBodies
<1>3. ASSUME NEW i \in LinesOf(s)
      PROVE  \E k \in 1 .. Len(s_out) : Split!Inside(Offset(s, i), s_out[k])
  BY <1>1, <1>2 DEF Split!Inside
<1>4. ASSUME NEW k \in 1 .. Len(s_out)
      PROVE  \E i \in LinesOf(s) : Split!Inside(Offset(s, i), s_out[k])
  <2> DEFINE p == s_out[k].from + 1
  <2>1. s_out[k].from \in 0 .. Len(s_body) /\ s_out[k].to \in 0 .. Len(s_body)
    <3> DEFINE Window == [from : 0 .. Len(s_body), to : 0 .. Len(s_body)]
    <3>1. s_out \in Seq(Window)
      BY <1>1
    <3> HIDE DEF Window
    <3>2. s_out[k] \in Window
      BY <3>1
    <3> QED BY <3>2 DEF Window
  <2>2. p \in 1 .. Len(s_body) /\ s_out[k].from < p /\ p <= s_out[k].to
    BY <1>1, <1>2, <2>1
  <2>3. s_body[p] = "letter"
    BY <1>1, <1>2, <2>2
  <2>4. PICK i \in LinesOf(s) : Offset(s, i) = p
    BY <1>2, <2>2, <2>3
  <2> HIDE DEF p
  <2> QED BY <2>2, <2>4 DEF Split!Inside
<1> QED BY <1>1, <1>3, <1>4

-----------------------------------------------------------------------------
(* The invariant of the whole way.                                         *)

\* Before the background task starts there is no text.
Untouched ==
  /\ pos = 0 /\ stack = <<>> /\ body = {} /\ out = <<>> /\ ended = FALSE
  /\ section = 0 /\ pieces = <<>>
  /\ texts = 0 /\ start = 0 /\ vectors = <<>> /\ outcome = "asking"

TaskInv ==
  /\ status \in {"none", "pending", "indexed", "failed"}
  /\ status = "none" => Untouched
  /\ status # "none" => max_chars \in Sizes /\ overlap \in Overlaps

\* The section at hand is being split; the others are split or wait.
CutInv ==
  /\ section \in 0 .. Len(out) + 1
  /\ section > 0 => ended
  /\ IF section \in 1 .. Len(out)
       THEN SplitFacts!SplitInv /\ s_body = Chars(out[section])
       ELSE s_done

APiece == [path : Seq(1 .. Len(text)), ordinal : Nat, lines : SUBSET (1 .. Len(text))]

\* The pieces come from the sections split so far, and hold all of their text.
PiecesInv ==
  /\ pieces \in Seq(APiece)
  /\ section = 0 => pieces = <<>>
  /\ \A k \in 1 .. Len(pieces) :
       /\ pieces[k].ordinal = k - 1 /\ pieces[k].lines # {}
       /\ \E n \in 1 .. Len(out) :
            pieces[k].path = out[n].path /\ pieces[k].lines \subseteq LinesOf(out[n])
  /\ \A n \in 1 .. Len(out) : n < section =>
       \A i \in LinesOf(out[n]) : \E k \in 1 .. Len(pieces) : i \in pieces[k].lines

\* The call embeds the pieces, once they are all there.
VectorsInv ==
  /\ texts = IF Chunked THEN Len(pieces) ELSE 0
  /\ status # "none" => EmbedTypeOK
  /\ VectorsInOrder
  /\ outcome # "asking" => Chunked /\ pieces # <<>>

RowsInv ==
  /\ status # "indexed" => rows = {}
  /\ status = "indexed" => rows = Replaced /\ outcome = "vectors"
  /\ error = "empty" => Chunked /\ pieces = <<>>
  /\ error = "provider" => outcome = "failed"
  /\ status \in {"none", "pending"} => error = "none"

PipelineInv ==
  BodyInv /\ SectionsInv /\ TaskInv /\ CutInv /\ PiecesInv /\ VectorsInv /\ RowsInv

-----------------------------------------------------------------------------
(* Steps that leave a part alone.                                          *)

LEMMA SameSections ==
  ASSUME UNCHANGED cvars
  PROVE  /\ \A s : LinesOf(s)' = LinesOf(s) /\ Chars(s)' = Chars(s)
         /\ UNCHANGED <<text, pos, stack, body, out, ended>>
BY DEF cvars, LinesOf, Chars, Offset, IsText

LEMMA KeepsCut ==
  ASSUME CutInv, UNCHANGED <<cvars, section, split>>
  PROVE  CutInv'
<1>1. UNCHANGED <<s_body, max_chars, overlap, s_start, s_end, s_out, s_done>>
  BY DEF split
<1>2. SplitFacts!SplitInv => SplitFacts!SplitInv'
  BY <1>1, SectionArguments, SplitFacts!SplitStutters DEF SplitFacts!svars
<1> QED BY <1>1, <1>2, SameSections DEF CutInv

LEMMA KeepsPieces ==
  ASSUME PiecesInv, UNCHANGED <<cvars, section, pieces>>
  PROVE  PiecesInv'
<1>1. APiece' = APiece
  BY SameSections DEF APiece
<1>2. UNCHANGED <<text, out, section, pieces>>
  BY SameSections
<1> QED BY <1>1, <1>2 DEF PiecesInv, LinesOf, IsText

LEMMA KeepsVectors ==
  ASSUME VectorsInv, UNCHANGED <<cvars, section, pieces, evars>>,
         status # "none" \/ status' = status
  PROVE  VectorsInv'
<1>1. UNCHANGED <<texts, batch_size, start, vectors, outcome>>
  BY DEF evars
<1>2. Chunked' = Chunked
  BY SameSections DEF Chunked
<1> QED BY <1>1, <1>2 DEF VectorsInv, EmbedTypeOK, VectorsInOrder

LEMMA KeepsRows ==
  ASSUME RowsInv, UNCHANGED <<cvars, section, pieces, evars, stored>>
  PROVE  RowsInv'
<1>1. UNCHANGED <<outcome, vectors, status, rows, error>>
  BY DEF evars, stored
<1>2. Chunked' = Chunked
  BY SameSections DEF Chunked
<1>3. Replaced' = Replaced
  BY <1>1 DEF Replaced
<1> QED BY <1>1, <1>2, <1>3 DEF RowsInv

LEMMA KeepsBody == ASSUME BodyInv, UNCHANGED bvars PROVE BodyInv'
BY BodyInvStep

LEMMA KeepsSections == ASSUME SectionsInv, UNCHANGED cvars PROVE SectionsInv'
BY SectionsInvStep

-----------------------------------------------------------------------------
(* The first state, and each action.                                       *)

LEMMA NoTextYetNext ==
  (text \in Seq(Line) /\ pos = 0 /\ stack = <<>> /\ body = {} /\ out = <<>>
   /\ ended = FALSE => SectionsInv)'
<1>1. text \in Seq(Line) /\ pos = 0 /\ stack = <<>> /\ body = {} /\ out = <<>>
      /\ ended = FALSE => SectionsInv
  BY SectionsInvStart
<1> QED BY <1>1, PTL

LEMMA PipelineInit == IngestInit => PipelineInv
<1> SUFFICES ASSUME IngestInit PROVE PipelineInv
  OBVIOUS
<1> USE DEF IngestInit
<1>1. BodyInv
  BY BodyInvInit
<1>2. SectionsInv
  <2>1. text \in Seq(Line)
    OBVIOUS
  <2> QED BY <2>1, SectionsInvStart
<1>3. TaskInv
  BY DEF TaskInv, Untouched
<1>4. Len(out) = 0 /\ Len(pieces) = 0 /\ \A k : k \notin 1 .. 0
  OBVIOUS
<1>5. CutInv
  BY <1>4 DEF CutInv
<1>6. PiecesInv
  BY <1>4 DEF PiecesInv
<1>7. VectorsInv
  <2>1. <<>> = [k \in 1 .. 0 |-> k]
    OBVIOUS
  <2> QED BY <2>1 DEF VectorsInv, Chunked, VectorsInOrder
<1>8. RowsInv
  BY DEF RowsInv
<1> QED BY <1>1, <1>2, <1>3, <1>5, <1>6, <1>7, <1>8 DEF PipelineInv

LEMMA ReceiveStep == ASSUME PipelineInv, ReceiveBody PROVE PipelineInv'
<1> USE DEF PipelineInv, ReceiveBody
<1>1. BodyInv' /\ SectionsInv'
  BY BodyInvStep, KeepsSections
<1>2. CutInv' /\ PiecesInv' /\ RowsInv'
  BY KeepsCut, KeepsPieces, KeepsRows
<1>3. VectorsInv'
  BY KeepsVectors DEF stored
<1>4. TaskInv'
  BY DEF TaskInv, Untouched, cvars, split, evars, stored
<1> QED BY <1>1, <1>2, <1>3, <1>4

LEMMA ReadDocumentStep == ASSUME PipelineInv, ReadDocument PROVE PipelineInv'
<1> USE DEF PipelineInv, ReadDocument
<1>t. /\ Untouched /\ rows = {} /\ rows' = {} /\ error = "none"
      /\ \/ status' = "pending" /\ error' = "none" /\ text' \in Texts
         \/ status' = "failed" /\ error' \notin {"empty", "provider"} /\ text' = text
  BY DEF TaskInv, RowsInv, FailWith
<1>u. /\ pos' = 0 /\ stack' = <<>> /\ body' = {} /\ out' = <<>> /\ ended' = FALSE
      /\ section' = 0 /\ pieces' = <<>>
      /\ texts' = 0 /\ start' = 0 /\ vectors' = <<>> /\ outcome' = "asking"
  BY <1>t DEF Untouched
<1>0. Len(out') = 0 /\ Len(pieces') = 0 /\ \A k : k \notin 1 .. 0
  BY <1>u
<1>1. BodyInv'
  BY LimitAssumption
     DEF BodyInv, BodyTypeOK, HeldWithinLimit, RefusedForItsSize
<1>2. SectionsInv'
  <2>1. text' \in Seq(Line)
    BY <1>t, TextsAssumption DEF SectionsInv, SectionsTypeOK
  <2> QED BY <1>u, <2>1, NoTextYetNext
<1>3. TaskInv'
  BY <1>t DEF TaskInv
<1>4. CutInv'
  BY <1>0, <1>u DEF CutInv, TaskInv
<1>5. PiecesInv'
  BY <1>0, <1>u DEF PiecesInv
<1>6. VectorsInv'
  <2>1. VectorsInOrder'
    BY <1>t, <1>u DEF VectorsInv, VectorsInOrder, Untouched
  <2>2. EmbedTypeOK'
    BY <1>u, BatchesAssumption DEF EmbedTypeOK
  <2> QED BY <1>u, <2>1, <2>2 DEF VectorsInv, Chunked
<1>7. RowsInv'
  BY <1>t DEF RowsInv
<1> QED BY <1>1, <1>2, <1>3, <1>4, <1>5, <1>6, <1>7

LEMMA CutSectionsStep == ASSUME PipelineInv, CutSections PROVE PipelineInv'
<1> USE DEF PipelineInv, CutSections
<1>1. BodyInv' /\ SectionsInv'
  BY KeepsBody, SectionsInvStep
<1>2. ~ ended
  BY DEF SectionsNext, ReadHeading, ReadLine, ReturnSections, SectionsInv,
         SectionsTypeOK, TextKeptOnce
<1>3. section = 0 /\ pieces = <<>> /\ s_done
  BY <1>2 DEF CutInv, PiecesInv
<1>4. section' = 0 /\ pieces' = <<>> /\ s_done' /\ status' = "pending"
  BY <1>3 DEF split, stored
<1>5. Len(out') \in Nat /\ Len(pieces') = 0 /\ \A k : k \notin 1 .. 0
  BY <1>1, <1>4 DEF SectionsInv, SectionsTypeOK
<1>6. TaskInv'
  BY <1>4 DEF TaskInv, split
<1>7. CutInv'
  BY <1>4, <1>5 DEF CutInv
<1>8. PiecesInv'
  <2>1. \A n \in 1 .. Len(out') : ~ (n < 0)
    BY <1>5
  <2> QED BY <1>4, <1>5, <2>1 DEF PiecesInv
<1>9. ~ Chunked /\ ~ Chunked'
  BY <1>2, <1>4, <1>5 DEF Chunked
<1>10. VectorsInv'
  <2>1. UNCHANGED <<texts, batch_size, start, vectors, outcome>>
    BY DEF evars
  <2> QED BY <1>9, <2>1 DEF VectorsInv, EmbedTypeOK, VectorsInOrder
<1>11. RowsInv'
  BY <1>4 DEF RowsInv, stored
<1> QED BY <1>1, <1>6, <1>7, <1>8, <1>10, <1>11

LEMMA SplitSectionStep == ASSUME PipelineInv, SplitSection PROVE PipelineInv'
<1> USE DEF PipelineInv, SplitSection
<1>1. BodyInv' /\ SectionsInv'
  BY KeepsBody, KeepsSections
<1>2. PiecesInv' /\ RowsInv'
  BY KeepsPieces, KeepsRows
<1>3. VectorsInv'
  BY KeepsVectors DEF stored
<1>4. ~ s_done /\ UNCHANGED <<s_body, max_chars, overlap>>
  BY DEF Split!SplitNext, Split!ReturnWhole, Split!CutWindow, Split!args
<1>5. TaskInv'
  BY <1>4 DEF TaskInv, Untouched, cvars, evars, stored
<1>6. CutInv'
  <2>1. section \in 1 .. Len(out) /\ SplitFacts!SplitInv
    BY <1>4 DEF CutInv
  <2>2. SplitFacts!SplitInv'
    BY <2>1, SplitSteps
  <2>3. Chars(out[section])' = Chars(out[section])
    BY DEF Chars, Offset, LinesOf, IsText, cvars
  <2> QED BY <1>4, <2>1, <2>2, <2>3 DEF CutInv, cvars
<1> QED BY <1>1, <1>2, <1>3, <1>5, <1>6

LEMMA FailEmptyStep == ASSUME PipelineInv, FailEmpty PROVE PipelineInv'
<1> USE DEF PipelineInv, FailEmpty
<1>1. BodyInv' /\ SectionsInv'
  BY KeepsBody, KeepsSections
<1>2. CutInv' /\ PiecesInv'
  BY KeepsCut, KeepsPieces
<1>3. VectorsInv'
  BY KeepsVectors
<1>4. TaskInv'
  BY DEF TaskInv, split, FailWith
<1>5. RowsInv'
  BY DEF RowsInv, Chunked, cvars, FailWith
<1> QED BY <1>1, <1>2, <1>3, <1>4, <1>5

LEMMA RecordFailureStep == ASSUME PipelineInv, RecordFailure PROVE PipelineInv'
<1> USE DEF PipelineInv, RecordFailure
<1>1. BodyInv' /\ SectionsInv'
  BY KeepsBody, KeepsSections
<1>2. CutInv' /\ PiecesInv'
  BY KeepsCut, KeepsPieces
<1>3. VectorsInv'
  BY KeepsVectors
<1>4. TaskInv'
  BY DEF TaskInv, split, FailWith
<1>5. RowsInv'
  BY DEF RowsInv, evars, FailWith
<1> QED BY <1>1, <1>2, <1>3, <1>4, <1>5

\* All the vectors there are, one for each piece: the check before the rows are
\* written finds nothing to object to.
LEMMA AsManyVectors ==
  ASSUME VectorsInv, PiecesInv, outcome = "vectors"
  PROVE  /\ Len(vectors) = Len(pieces) /\ Len(pieces) \in Nat
         /\ \A k \in 1 .. Len(pieces) : vectors[k] = k
<1>1. start = Len(pieces) /\ Len(pieces) \in Nat /\ vectors = [k \in 1 .. start |-> k]
  BY DEF VectorsInv, VectorsInOrder, PiecesInv
<1> QED BY <1>1

LEMMA StoreRowsStep == ASSUME PipelineInv, StoreRows PROVE PipelineInv'
<1> USE DEF PipelineInv, StoreRows
<1>1. BodyInv' /\ SectionsInv'
  BY KeepsBody, KeepsSections
<1>2. CutInv' /\ PiecesInv'
  BY KeepsCut, KeepsPieces
<1>3. VectorsInv'
  BY KeepsVectors
<1>4. \/ rows' = Replaced /\ status' = "indexed" /\ error' = "none"
      \/ FailWith("unexpected")
  BY AsManyVectors DEF RowsInv
<1>5. TaskInv'
  BY <1>4 DEF TaskInv, split, FailWith
<1>6. RowsInv'
  BY <1>4 DEF RowsInv, Replaced, evars, FailWith
<1> QED BY <1>1, <1>2, <1>3, <1>5, <1>6

LEMMA EmbedPiecesStep == ASSUME PipelineInv, EmbedPieces PROVE PipelineInv'
<1> USE DEF PipelineInv, EmbedPieces
<1>1. BodyInv' /\ SectionsInv'
  BY KeepsBody, KeepsSections
<1>2. CutInv' /\ PiecesInv'
  BY KeepsCut, KeepsPieces
<1>3. EmbedInv'
  BY EmbedInvStep DEF VectorsInv, EmbedInv
<1>4. texts' = texts
  BY DEF EmbedNext, AskBatch, BatchFails, ReturnVectors
<1>5. Chunked /\ Chunked' /\ pieces # <<>> /\ pieces' = pieces /\ status' = "pending"
  BY DEF Chunked, cvars, stored
<1>6. VectorsInv'
  BY <1>3, <1>4, <1>5 DEF VectorsInv, EmbedInv
<1>7. TaskInv'
  BY <1>5 DEF TaskInv, split
<1>8. RowsInv'
  BY <1>5 DEF RowsInv, stored
<1> QED BY <1>1, <1>2, <1>6, <1>7, <1>8

LEMMA SectionIsCut ==
  ASSUME SectionsInv, NEW n \in 1 .. Len(out)
  PROVE  /\ Cut(out[n]) /\ out[n].path \in Seq(1 .. Len(text))
         /\ LinesOf(out[n]) \in SUBSET (1 .. Len(text))
         /\ out[n].from \in LinesOf(out[n])
<1>1. out \in Seq(Section) /\ Len(text) \in Nat
  BY DEF SectionsInv, SectionsTypeOK
<1>2. out[n] \in Section
  BY <1>1
<1>3. /\ out[n].path \in Seq(1 .. Len(text))
      /\ out[n].from \in 1 .. Len(text) /\ out[n].to \in 1 .. Len(text)
  BY <1>2 DEF Section
<1>4. out[n].from <= out[n].to /\ IsText(out[n].from) /\ IsText(out[n].to)
  BY DEF SectionsInv, BodyFollows, TextKeptOnce
<1>5. LinesOf(out[n]) \in SUBSET (1 .. Len(text)) /\ out[n].from \in LinesOf(out[n])
  BY <1>1, <1>3, <1>4 DEF LinesOf
<1> QED BY <1>1, <1>3, <1>4, <1>5 DEF Cut

LEMMA SplitStartsNext == (SplitFacts!SplitInit => SplitFacts!SplitInv)'
BY SplitFacts!SplitStarts, SectionArguments, PTL

\* What the pieces of one section add.
LEMMA PiecesAdded ==
  ASSUME PipelineInv, s_done, section \in 1 .. Len(out)
  PROVE  /\ PiecesOf(section) \in Seq(APiece)
         /\ \A k \in 1 .. Len(PiecesOf(section)) :
              LET p == PiecesOf(section)[k] IN
              /\ p.ordinal = Len(pieces) + k - 1 /\ p.path = out[section].path
              /\ p.lines # {} /\ p.lines \subseteq LinesOf(out[section])
         /\ \A i \in LinesOf(out[section]) : \E k \in 1 .. Len(PiecesOf(section)) :
              i \in PiecesOf(section)[k].lines
<1> DEFINE s == out[section]
           new == PiecesOf(section)
<1>1. /\ Cut(s) /\ s.path \in Seq(1 .. Len(text))
      /\ LinesOf(s) \in SUBSET (1 .. Len(text))
  BY SectionIsCut DEF PipelineInv
<1>2. SplitFacts!SplitInv /\ s_body = Chars(s)
  BY DEF PipelineInv, CutInv
<1> HIDE DEF s
<1>3. /\ Len(s_out) \in Nat
      /\ \A i \in LinesOf(s) : \E k \in 1 .. Len(s_out) :
           Split!Inside(Offset(s, i), s_out[k])
      /\ \A k \in 1 .. Len(s_out) : \E i \in LinesOf(s) :
           Split!Inside(Offset(s, i), s_out[k])
  BY <1>1, <1>2, WindowsOfSection
<1>4. Len(pieces) \in Nat
  BY DEF PipelineInv, PiecesInv
<1>5. new = [k \in 1 .. Len(s_out) |-> Piece(s, s_out[k], Len(pieces) + k - 1)]
  <2>1. section # 0
    BY DEF PipelineInv, SectionsInv, SectionsTypeOK
  <2> QED BY <2>1 DEF PiecesOf, s
<1> HIDE DEF new
<1>6. ASSUME NEW k \in 1 .. Len(s_out)
      PROVE  /\ new[k] \in APiece
             /\ new[k].ordinal = Len(pieces) + k - 1 /\ new[k].path = s.path
             /\ new[k].lines = {i \in LinesOf(s) : Split!Inside(Offset(s, i), s_out[k])}
  <2>1. /\ new[k].ordinal = Len(pieces) + k - 1 /\ new[k].path = s.path
        /\ new[k].lines = {i \in LinesOf(s) : Split!Inside(Offset(s, i), s_out[k])}
        /\ new[k] = [path |-> new[k].path, ordinal |-> new[k].ordinal,
                     lines |-> new[k].lines]
    BY <1>5 DEF Piece
  <2>2. new[k].lines \in SUBSET (1 .. Len(text)) /\ new[k].ordinal \in Nat
    BY <1>1, <1>3, <1>4, <2>1
  <2> QED BY <1>1, <2>1, <2>2 DEF APiece
<1>7. new \in Seq(APiece) /\ Len(new) = Len(s_out)
  BY <1>3, <1>5, <1>6
<1>8. \A k \in 1 .. Len(s_out) : new[k].lines # {} /\ new[k].lines \subseteq LinesOf(s)
  BY <1>3, <1>6
<1>9. \A i \in LinesOf(s) : \E k \in 1 .. Len(s_out) : i \in new[k].lines
  BY <1>3, <1>6
<1> QED BY <1>6, <1>7, <1>8, <1>9 DEF new, s

LEMMA NextSectionStep == ASSUME PipelineInv, NextSection PROVE PipelineInv'
<1> USE DEF PipelineInv, NextSection
<1> DEFINE N == Len(out)
<1>t. /\ N \in Nat /\ section \in Nat /\ section <= N /\ section' = section + 1
      /\ pieces \in Seq(APiece) /\ UNCHANGED <<text, pos, stack, body, out, ended>>
      /\ outcome = "asking" /\ start = 0 /\ status = "pending"
  <2>1. N \in Nat /\ section \in 0 .. N + 1 /\ pieces \in Seq(APiece) /\ ~ (section > N)
    BY DEF SectionsInv, SectionsTypeOK, CutInv, PiecesInv, Chunked
  <2>2. outcome = "asking" /\ start = 0
    BY DEF VectorsInv, EmbedTypeOK
  <2> QED BY <2>1, <2>2, SameSections
<1>1. BodyInv' /\ SectionsInv'
  BY KeepsBody, KeepsSections
<1>2. CutInv'
  <2>1. section' \in 0 .. N + 1 /\ ended'
    BY <1>t
  <2>2. CASE section' > N
    <3>1. section' \notin 1 .. N
      BY <1>t, <2>2
    <3>2. s_done'
      BY <2>2
    <3> QED BY <1>t, <2>1, <3>1, <3>2, Zenon DEF CutInv
  <2>3. CASE ~ (section' > N)
    <3>1. section' \in 1 .. N
      BY <1>t, <2>3
    <3>2. s_body' = Chars(out[section']) /\ s_body' \in SectionBodies /\ s_done' = FALSE
      <4>1. s_done' = FALSE
        <5>1. s_done' = (section' > N)
          OBVIOUS
        <5>2. section' \in Nat
          BY <1>t
        <5> DEFINE far == section' > N
        <5>3. far \in BOOLEAN
          BY <1>t, <5>2
        <5>4. s_done' = far /\ ~ far
          BY <2>3, <5>1
        <5> HIDE DEF NextSection, PipelineInv, far
        <5> QED BY <5>3, <5>4
      <4>2. s_body' = Chars(out[section'])
        BY <4>1
      <4>3. Cut(out[section'])
        BY <3>1, SectionIsCut
      <4>4. Chars(out[section']) \in SectionBodies
        BY <4>3, CharsOfSection
      <4> QED BY <4>1, <4>2, <4>4
    <3>3. SplitFacts!SplitInit'
      BY <3>2 DEF SplitFacts!SplitInit, TaskInv
    <3>4. SplitFacts!SplitInv'
      BY <3>3, SplitStartsNext
    <3>5. s_body' = Chars(out[section])'
      <4>1. text' = text /\ out' = out
        BY <1>t
      <4> HIDE DEF NextSection, PipelineInv
      <4>2. \A s : Chars(s)' = Chars(s)
        BY <4>1 DEF Chars, Offset, LinesOf, IsText
      <4> QED BY <3>2, <4>1, <4>2
    <3> QED BY <1>t, <2>1, <3>1, <3>4, <3>5 DEF CutInv
  <2> QED BY <2>2, <2>3
<1>3. PiecesInv'
  <2> DEFINE new == PiecesOf(section)
             Good(p) == /\ p.lines # {}
                        /\ \E n \in 1 .. N : p.path = out[n].path
                                             /\ p.lines \subseteq LinesOf(out[n])
             Held(q, n) == \A i \in LinesOf(out[n]) : \E k \in 1 .. Len(q) : i \in q[k].lines
  <2>1. /\ \A k \in 1 .. Len(pieces) : pieces[k].ordinal = k - 1 /\ Good(pieces[k])
        /\ \A n \in 1 .. N : n < section => Held(pieces, n)
    BY DEF PiecesInv
  <2>2. /\ new \in Seq(APiece)
        /\ \A k \in 1 .. Len(new) : new[k].ordinal = Len(pieces) + k - 1 /\ Good(new[k])
        /\ section > 0 => Held(new, section)
    <3>1. CASE section = 0
      <4>1. new = <<>>
        BY <3>1 DEF PiecesOf
      <4>2. \A k \in 1 .. Len(new) : FALSE
        BY <4>1
      <4>3. ~ (section > 0)
        BY <3>1
      <4> HIDE DEF new, Good, Held
      <4>4. new \in Seq(APiece)
        BY <4>1
      <4> QED BY <4>2, <4>3, <4>4
    <3>2. CASE section # 0
      <4>1. section \in 1 .. N
        BY <1>t, <3>2
      <4>2. /\ new \in Seq(APiece)
            /\ \A k \in 1 .. Len(new) :
                 /\ new[k].ordinal = Len(pieces) + k - 1 /\ new[k].path = out[section].path
                 /\ new[k].lines # {} /\ new[k].lines \subseteq LinesOf(out[section])
            /\ \A i \in LinesOf(out[section]) : \E k \in 1 .. Len(new) : i \in new[k].lines
        BY <4>1, PiecesAdded
      <4> HIDE DEF new
      <4>3. \A k \in 1 .. Len(new) : Good(new[k])
        BY <4>1, <4>2
      <4>4. Held(new, section)
        BY <4>2
      <4> HIDE DEF Good, Held
      <4> QED BY <4>2, <4>3, <4>4
    <3> QED BY <3>1, <3>2
  <2>3. pieces' = pieces \o new
    OBVIOUS
  <2> HIDE DEF new, Good, Held
  <2>4. /\ pieces' \in Seq(APiece) /\ Len(pieces') = Len(pieces) + Len(new)
        /\ Len(pieces) \in Nat /\ Len(new) \in Nat
        /\ \A k \in 1 .. Len(pieces) : pieces'[k] = pieces[k]
        /\ \A k \in 1 .. Len(new) : pieces'[Len(pieces) + k] = new[k]
    BY <1>t, <2>2, <2>3
  <2>5. \A k \in 1 .. Len(pieces) : k \in 1 .. Len(pieces')
    BY <2>4
  <2>6. \A k \in 1 .. Len(new) : Len(pieces) + k \in 1 .. Len(pieces')
    BY <2>4
  <2>7. ASSUME NEW k \in 1 .. Len(pieces')
        PROVE  pieces'[k].ordinal = k - 1 /\ Good(pieces'[k])
    <3>1. CASE k \in 1 .. Len(pieces)
      BY <2>1, <2>4, <3>1
    <3>2. CASE k \notin 1 .. Len(pieces)
      <4> DEFINE j == k - Len(pieces)
      <4>1. j \in 1 .. Len(new) /\ Len(pieces) + j = k /\ Len(pieces) + j - 1 = k - 1
        BY <2>4, <3>2
      <4> HIDE DEF j
      <4> QED BY <2>2, <2>4, <4>1
    <3> QED BY <3>1, <3>2
  <2>8. ASSUME NEW n \in 1 .. N, n < section'
        PROVE  Held(pieces', n)
    <3>1. CASE n < section
      <4> SUFFICES ASSUME NEW i \in LinesOf(out[n])
                   PROVE  \E k \in 1 .. Len(pieces') : i \in pieces'[k].lines
        BY DEF Held
      <4>1. PICK k \in 1 .. Len(pieces) : i \in pieces[k].lines
        BY <2>1, <3>1 DEF Held
      <4> QED BY <2>4, <2>5, <4>1
    <3>2. CASE n = section
      <4> SUFFICES ASSUME NEW i \in LinesOf(out[n])
                   PROVE  \E k \in 1 .. Len(pieces') : i \in pieces'[k].lines
        BY DEF Held
      <4>0. section > 0
        BY <1>t, <3>2
      <4>1. PICK k \in 1 .. Len(new) : i \in new[k].lines
        BY <2>2, <3>2, <4>0 DEF Held
      <4>2. Len(pieces) + k \in 1 .. Len(pieces') /\ i \in pieces'[Len(pieces) + k].lines
        BY <2>4, <2>6, <4>1
      <4> QED BY <4>2
    <3>3. n < section \/ n = section
      BY <1>t, <2>8
    <3> QED BY <3>1, <3>2, <3>3
  <2>9. section' # 0 /\ APiece' = APiece
    BY <1>t DEF APiece
  <2>11. \A k \in 1 .. Len(pieces') :
           /\ pieces'[k].ordinal = k - 1 /\ pieces'[k].lines # {}
           /\ \E n \in 1 .. N : pieces'[k].path = out[n].path
                                /\ pieces'[k].lines \subseteq LinesOf(out[n])
    BY <2>7 DEF Good
  <2>12. \A n \in 1 .. N : n < section' =>
           \A i \in LinesOf(out[n]) : \E k \in 1 .. Len(pieces') : i \in pieces'[k].lines
    BY <2>8 DEF Held
  <2>13. \A n : LinesOf(out[n])' = LinesOf(out[n])
    BY <1>t DEF LinesOf, IsText
  <2>14. \A k \in 1 .. Len(pieces)' :
           /\ pieces[k].ordinal' = k - 1 /\ pieces[k].lines' # {}
           /\ \E n \in 1 .. Len(out)' :
                pieces[k].path' = out[n].path' /\ pieces[k].lines' \subseteq LinesOf(out[n])'
    <3> SUFFICES ASSUME NEW k \in 1 .. Len(pieces')
                 PROVE  /\ pieces'[k].ordinal = k - 1 /\ pieces'[k].lines # {}
                        /\ \E n \in 1 .. Len(out') :
                             pieces'[k].path = out'[n].path
                             /\ pieces'[k].lines \subseteq LinesOf(out[n])'
      OBVIOUS
    <3>1. PICK n \in 1 .. N : /\ pieces'[k].path = out[n].path
                              /\ pieces'[k].lines \subseteq LinesOf(out[n])
      BY <2>11
    <3>2. /\ n \in 1 .. Len(out') /\ pieces'[k].path = out'[n].path
          /\ pieces'[k].lines \subseteq LinesOf(out[n])'
      <4> HIDE DEF NextSection, PipelineInv
      <4> QED BY <1>t, <2>13, <3>1
    <3> HIDE DEF NextSection, PipelineInv
    <3> QED BY <2>11, <3>2
  <2>15. \A n \in 1 .. Len(out)' : n < section' =>
           \A i \in LinesOf(out[n])' : \E k \in 1 .. Len(pieces)' : i \in pieces[k].lines'
    BY <1>t, <2>12, <2>13
  <2> HIDE DEF NextSection, PipelineInv
  <2> QED BY <2>4, <2>9, <2>14, <2>15 DEF PiecesInv
<1>4. TaskInv'
  BY <1>t DEF TaskInv, stored
<1>5. VectorsInv'
  <2>1. Len(pieces') \in Nat
    BY <1>3 DEF PiecesInv
  <2>2. Chunked' <=> section' > N
    BY <1>t DEF Chunked
  <2>3. texts' = IF Chunked' THEN Len(pieces') ELSE 0
    BY <1>t, <2>2
  <2>4. EmbedTypeOK'
    BY <1>t, <2>1, <2>3 DEF VectorsInv, EmbedTypeOK
  <2>5. VectorsInOrder' /\ outcome' = "asking"
    BY <1>t DEF VectorsInv, VectorsInOrder
  <2> QED BY <2>3, <2>4, <2>5 DEF VectorsInv
<1>6. RowsInv'
  BY <1>t DEF RowsInv, stored
<1> QED BY <1>1, <1>2, <1>3, <1>4, <1>5, <1>6

LEMMA PipelineStep == PipelineInv /\ [IngestNext]_ivars => PipelineInv'
<1> SUFFICES ASSUME PipelineInv, [IngestNext]_ivars PROVE PipelineInv'
  OBVIOUS
<1>1. CASE UNCHANGED ivars
  <2> USE <1>1 DEF ivars, PipelineInv
  <2>1. BodyInv' /\ SectionsInv'
    BY KeepsBody, KeepsSections
  <2>2. CutInv' /\ PiecesInv' /\ RowsInv'
    BY KeepsCut, KeepsPieces, KeepsRows
  <2>3. VectorsInv'
    BY KeepsVectors DEF stored
  <2>4. TaskInv'
    BY DEF TaskInv, Untouched, cvars, split, evars, stored
  <2> QED BY <2>1, <2>2, <2>3, <2>4
<1>2. CASE IngestNext
  BY <1>2, ReceiveStep, ReadDocumentStep, CutSectionsStep, NextSectionStep,
     SplitSectionStep, FailEmptyStep, EmbedPiecesStep, StoreRowsStep, RecordFailureStep
     DEF IngestNext
<1> QED BY <1>1, <1>2

LEMMA PipelineInvariant == IngestSpec => []PipelineInv
BY PipelineInit, PipelineStep, PTL DEF IngestSpec

-----------------------------------------------------------------------------
(* What the way promises, end to end.                                      *)

\* What each part promises alone it keeps when the others run around it.
THEOREM PartsKeepTheirPromises ==
  IngestSpec => [](/\ HeldWithinLimit /\ RefusedForItsSize
                   /\ SectionsTypeOK /\ PathsEnclose /\ TextKeptOnce
                   /\ VectorsInOrder)
<1>1. PipelineInv => /\ HeldWithinLimit /\ RefusedForItsSize
                     /\ SectionsTypeOK /\ PathsEnclose /\ TextKeptOnce
                     /\ VectorsInOrder
  BY DEF PipelineInv, BodyInv, SectionsInv, VectorsInv
<1> QED BY PipelineInvariant, <1>1, PTL

\* Every line of text read is in a section, once the call has returned.
LEMMA EveryLineIsCut ==
  ASSUME SectionsInv, ended, NEW i \in 1 .. Len(text), IsText(i)
  PROVE  \E n \in 1 .. Len(out) : i \in LinesOf(out[n])
<1>1. pos = Len(text) /\ body = {}
  BY DEF SectionsInv, TextKeptOnce
<1>2. PICK n \in 1 .. Len(out) : out[n].from <= i /\ i <= out[n].to
  BY <1>1 DEF SectionsInv, TextKeptOnce
<1>3. out[n].from \in Nat /\ out[n].to \in Nat /\ i \in Nat
  BY SectionIsCut DEF Cut, SectionsInv, SectionsTypeOK
<1> QED BY <1>2, <1>3 DEF LinesOf

\* The lines of one section have the same headings above them.
LEMMA OneHeadingPath ==
  ASSUME SectionsInv, NEW n \in 1 .. Len(out), NEW i \in LinesOf(out[n])
  PROVE  Enclosing(i) = Titles(out[n].path)
<1> DEFINE f == out[n].from
<1>1. /\ f \in Nat /\ out[n].to \in Nat /\ i \in f .. out[n].to /\ i \in Nat /\ f > 0
      /\ \A j \in f .. out[n].to : ~ IsHeading(j)
  <2>1. f \in Nat /\ out[n].to \in Nat /\ i \in f .. out[n].to
    BY SectionIsCut DEF Cut, LinesOf
  <2>2. \A j \in f .. out[n].to : ~ IsHeading(j)
    BY DEF SectionsInv, TextKeptOnce
  <2>3. f \in 1 .. Len(text) /\ Len(text) \in Nat
    BY SectionIsCut DEF SectionsInv, SectionsTypeOK
  <2> QED BY <2>1, <2>2, <2>3
<1>2. Enclosing(f) = Titles(out[n].path)
  BY DEF SectionsInv, PathsEnclose, Titles
<1> HIDE DEF f
<1>3. \A j \in Int : f <= j /\ j < i => ~ IsHeading(j)
  BY <1>1
<1>4. ASSUME NEW h
      PROVE  h \in Enclosing(i) <=> h \in Enclosing(f)
  <2> DEFINE Under(m) == \A j \in h + 1 .. m - 1 :
                           IsHeading(j) => text[j].level > text[h].level
  <2>1. h \in Enclosing(i) <=> h \in 1 .. i - 1 /\ IsHeading(h) /\ Under(i)
    BY DEF Enclosing
  <2>2. h \in Enclosing(f) <=> h \in 1 .. f - 1 /\ IsHeading(h) /\ Under(f)
    BY DEF Enclosing
  <2>3. h \in 1 .. i - 1 /\ IsHeading(h) <=> h \in 1 .. f - 1 /\ IsHeading(h)
    BY <1>1, <1>3
  <2>4. ASSUME h \in 1 .. f - 1
        PROVE  Under(i) <=> Under(f)
    <3>1. \A j \in h + 1 .. f - 1 : j \in h + 1 .. i - 1
      BY <1>1, <2>4
    <3>2. \A j \in h + 1 .. i - 1 : j \in h + 1 .. f - 1 \/ ~ IsHeading(j)
      BY <1>1, <1>3, <2>4
    <3> QED BY <3>1, <3>2
  <2> HIDE DEF Under
  <2> QED BY <2>1, <2>2, <2>3, <2>4
<1> QED BY <1>2, <1>4

LEMMA IndexedIsSearchable == PipelineInv => EveryLineSearchable
<1> SUFFICES ASSUME PipelineInv, status = "indexed" PROVE
      /\ rows # {}
      /\ \A i \in 1 .. Len(text) : IsText(i) => \E r \in rows : i \in r.piece.lines
      /\ \A r \in rows : r.piece.lines # {} /\
           \A i \in r.piece.lines : Enclosing(i) = Titles(r.piece.path)
  BY DEF EveryLineSearchable
<1> DEFINE row(k) == [piece |-> pieces[k], vector |-> vectors[k]]
<1>1. /\ rows = {row(k) : k \in 1 .. Len(pieces)}
      /\ Chunked /\ pieces # <<>> /\ pieces \in Seq(APiece) /\ SectionsInv
  BY DEF PipelineInv, RowsInv, VectorsInv, PiecesInv, Replaced
<1>2. \A k \in 1 .. Len(pieces) : row(k) \in rows /\ row(k).piece = pieces[k]
  BY <1>1
<1>3. \A r \in rows : \E k \in 1 .. Len(pieces) : r.piece = pieces[k]
  BY <1>1
<1> HIDE DEF row
<1>4. rows # {}
  <2>1. 1 \in 1 .. Len(pieces)
    BY <1>1
  <2> QED BY <1>2, <2>1
<1>5. ASSUME NEW i \in 1 .. Len(text), IsText(i)
      PROVE  \E r \in rows : i \in r.piece.lines
  <2>1. PICK n \in 1 .. Len(out) : i \in LinesOf(out[n])
    BY <1>1, <1>5, EveryLineIsCut DEF Chunked
  <2>2. n < section
    <3>1. section \in 0 .. Len(out) + 1 /\ section > Len(out) /\ Len(out) \in Nat
      BY <1>1 DEF PipelineInv, CutInv, Chunked, SectionsInv, SectionsTypeOK
    <3> QED BY <3>1
  <2>3. PICK k \in 1 .. Len(pieces) : i \in pieces[k].lines
    BY <2>1, <2>2 DEF PipelineInv, PiecesInv
  <2> QED BY <1>2, <2>3
<1>6. ASSUME NEW r \in rows
      PROVE  r.piece.lines # {} /\
             \A i \in r.piece.lines : Enclosing(i) = Titles(r.piece.path)
  <2>1. PICK k \in 1 .. Len(pieces) : r.piece = pieces[k]
    BY <1>3
  <2>2. pieces[k].lines # {}
    BY DEF PipelineInv, PiecesInv
  <2>3. PICK n \in 1 .. Len(out) :
          pieces[k].path = out[n].path /\ pieces[k].lines \subseteq LinesOf(out[n])
    BY DEF PipelineInv, PiecesInv
  <2> QED BY <1>1, <2>1, <2>2, <2>3, OneHeadingPath
<1> QED BY <1>4, <1>5, <1>6

\* For every text, window and overlap, and whatever the provider does: an indexed
\* document has all of its text in rows, under the headings a reader sees it under
\* (_index, chunk_markdown, replace).
THEOREM IndexedTextIsSearchable == IngestSpec => []EveryLineSearchable
BY PipelineInvariant, IndexedIsSearchable, PTL

LEMMA OrdinalsMatch == PipelineInv => RowsMatchTheirVectors
<1> SUFFICES ASSUME PipelineInv PROVE RowsMatchTheirVectors
  OBVIOUS
<1> DEFINE n == Len(pieces)
           row(k) == [piece |-> pieces[k], vector |-> vectors[k]]
<1>1. CASE rows = {}
  <2>1. {r.piece.ordinal : r \in rows} = {}
    BY <1>1
  <2>2. Cardinality(rows) = 0
    BY <1>1, FS_EmptySet
  <2>3. 0 .. 0 - 1 = {}
    OBVIOUS
  <2> QED BY <1>1, <2>1, <2>2, <2>3 DEF RowsMatchTheirVectors
<1>2. CASE rows # {}
  <2>1. rows = {row(k) : k \in 1 .. n} /\ outcome = "vectors"
    BY <1>2 DEF PipelineInv, RowsInv, Replaced
  <2>2. n \in Nat /\ \A k \in 1 .. n : vectors[k] = k /\ pieces[k].ordinal = k - 1
    BY <2>1, AsManyVectors DEF PipelineInv, PiecesInv
  <2>3. \A k \in 1 .. n : row(k).vector = k /\ row(k).piece.ordinal = k - 1
    BY <2>2
  <2> HIDE DEF row, n
  <2>4. \A r \in rows : r.vector = r.piece.ordinal + 1
    BY <2>1, <2>2, <2>3
  <2>5. Cardinality(rows) = n
    <3> DEFINE f == [k \in 1 .. n |-> row(k)]
    <3>1. f \in [1 .. n -> rows]
      BY <2>1
    <3>2. \A j, k \in 1 .. n : f[j] = f[k] => j = k
      BY <2>2, <2>3
    <3>3. \A r \in rows : \E k \in 1 .. n : f[k] = r
      BY <2>1
    <3>4. f \in Bijection(1 .. n, rows)
      BY <3>1, <3>2, <3>3, Fun_IsBij
    <3>5. IsFiniteSet(1 .. n) /\ Cardinality(1 .. n) = n
      BY <2>2, FS_Interval
    <3> QED BY <3>4, <3>5, FS_Bijection DEF ExistsBijection
  <2>6. {r.piece.ordinal : r \in rows} = 0 .. n - 1
    <3>1. ASSUME NEW r \in rows PROVE r.piece.ordinal \in 0 .. n - 1
      BY <2>1, <2>2, <2>3
    <3>2. ASSUME NEW m \in 0 .. n - 1 PROVE \E r \in rows : r.piece.ordinal = m
      <4>1. m + 1 \in 1 .. n /\ (m + 1) - 1 = m
        BY <2>2
      <4>2. row(m + 1) \in rows /\ row(m + 1).piece.ordinal = m
        BY <2>1, <2>3, <4>1
      <4> QED BY <4>2
    <3> QED BY <3>1, <3>2
  <2> QED BY <2>4, <2>5, <2>6 DEF RowsMatchTheirVectors
<1> QED BY <1>1, <1>2

\* Every row's vector embeds that row's text, and the ordinals of a document's
\* rows run from zero without a gap, however its text was cut and sent.
THEOREM EachRowItsVector == IngestSpec => []RowsMatchTheirVectors
BY PipelineInvariant, OrdinalsMatch, PTL

LEMMA ReasonsAreTrue == PipelineInv => ReasonIsTrue
<1> SUFFICES ASSUME PipelineInv PROVE ReasonIsTrue
  OBVIOUS
<1>1. ASSUME error = "empty", NEW i \in 1 .. Len(text), IsText(i) PROVE FALSE
  <2>1. Chunked /\ pieces = <<>> /\ SectionsInv
    BY <1>1 DEF PipelineInv, RowsInv
  <2>2. PICK n \in 1 .. Len(out) : i \in LinesOf(out[n])
    BY <1>1, <2>1, EveryLineIsCut DEF Chunked
  <2>3. n < section
    <3>1. section \in 0 .. Len(out) + 1 /\ section > Len(out) /\ Len(out) \in Nat
      BY <2>1 DEF PipelineInv, CutInv, Chunked, SectionsTypeOK, SectionsInv
    <3> QED BY <3>1
  <2>4. PICK k \in 1 .. Len(pieces) : i \in pieces[k].lines
    BY <2>2, <2>3 DEF PipelineInv, PiecesInv
  <2> QED BY <2>1, <2>4
<1>2. ASSUME outcome # "asking" PROVE \E i \in 1 .. Len(text) : IsText(i)
  <2>1. pieces # <<>> /\ pieces \in Seq(APiece)
    BY <1>2 DEF PipelineInv, VectorsInv, PiecesInv
  <2>2. 1 \in 1 .. Len(pieces)
    BY <2>1
  <2>3. PICK n \in 1 .. Len(out) : pieces[1].lines \subseteq LinesOf(out[n])
    BY <2>2 DEF PipelineInv, PiecesInv
  <2>4. pieces[1].lines # {}
    BY <2>2 DEF PipelineInv, PiecesInv
  <2>5. LinesOf(out[n]) \in SUBSET (1 .. Len(text))
    BY SectionIsCut DEF PipelineInv
  <2> QED BY <2>3, <2>4, <2>5 DEF LinesOf
<1> QED BY <1>1, <1>2 DEF ReasonIsTrue, PipelineInv, RowsInv

\* For every text, window and overlap, and whatever fails: no text is cut to
\* nothing and then called empty, the second look at the lengths never blames a
\* provider that answered every batch, and a document without text embeds nothing.
THEOREM ReasonsHold == IngestSpec => []ReasonIsTrue
BY PipelineInvariant, ReasonsAreTrue, PTL
=============================================================================
