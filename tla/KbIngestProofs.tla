---------------------------- MODULE KbIngestProofs ----------------------------
(***************************************************************************)
(* Theorems about the parts a document passes through on its way to the    *)
(* table: the bounded body, the sections of its text, the embedding call.  *)
(***************************************************************************)
EXTENDS KbIngest, WellFoundedInduction, TLAPS

-----------------------------------------------------------------------------
(* The bound on an upload, for every limit, body and cut into messages.    *)

\* The bytes kept are never more than the bytes counted: what makes the bound
\* inductive.
BodyInv ==
  /\ BodyTypeOK /\ HeldWithinLimit /\ RefusedForItsSize
  /\ held <= received

LEMMA BodyInvInit == BodyInit => BodyInv
  BY LimitAssumption, GrowthAssumption
  DEF BodyInit, BodyInv, BodyTypeOK, HeldWithinLimit, RefusedForItsSize

LEMMA BodyInvStep == BodyInv /\ [BodyNext]_bvars => BodyInv'
<1> SUFFICES ASSUME BodyInv, [BodyNext]_bvars PROVE BodyInv'
  OBVIOUS
<1> USE LimitAssumption, GrowthAssumption
    DEF BodyInv, BodyTypeOK, HeldWithinLimit, RefusedForItsSize
<1>1. CASE ReadHeaders
  BY <1>1 DEF ReadHeaders
<1>2. CASE Receive
  <2>1. PICK n \in Message \ {0} :
          /\ received' = received + n
          /\ IF received' > max_upload_bytes
               THEN reply' = "413" /\ held' = held
               ELSE reply' = reply /\ held' = held + n
    BY <1>2 DEF Receive
  <2>2. n \in Nat /\ received + n <= sent
    BY <2>1 DEF Message
  <2> QED
    BY <1>2, <2>1, <2>2 DEF Receive
<1>3. CASE TakeData
  BY <1>3 DEF TakeData
<1>4. CASE UNCHANGED bvars
  BY <1>4 DEF bvars
<1> QED
  BY <1>1, <1>2, <1>3, <1>4 DEF BodyNext

\* Whatever the limit: the process keeps no more than it of any body, declared
\* or not (MaxBodySize and create_document).
THEOREM BodyIsBounded == BodySpec => []HeldWithinLimit
<1>1. BodyInv => HeldWithinLimit
  BY DEF BodyInv
<1> QED
  BY BodyInvInit, BodyInvStep, <1>1, PTL DEF BodySpec

\* ... and it refuses nothing but what exceeds the limit, or says it does.
THEOREM NothingElseRefused == BodySpec => []RefusedForItsSize
<1>1. BodyInv => RefusedForItsSize
  BY DEF BodyInv
<1> QED
  BY BodyInvInit, BodyInvStep, <1>1, PTL DEF BodySpec

-----------------------------------------------------------------------------
(* The embedding call, for any texts, batch size and replies.              *)

EmbedInv == EmbedTypeOK /\ VectorsInOrder

LEMMA EmbedInvInit == EmbedInit => EmbedInv
<1> SUFFICES ASSUME EmbedInit PROVE EmbedInv
  OBVIOUS
<1>1. <<>> = [k \in 1 .. 0 |-> k]
  OBVIOUS
<1> QED
  BY <1>1, BatchesAssumption
  DEF EmbedInit, EmbedInv, EmbedTypeOK, VectorsInOrder

\* The vectors of the texts up to m, and those of the next up to n, are the
\* vectors of the texts up to n.
LEMMA Strung ==
  ASSUME NEW m \in Nat, NEW n \in Nat, m <= n
  PROVE  [k \in 1 .. m |-> k] \o [k \in 1 .. n - m |-> m + k] = [k \in 1 .. n |-> k]
<1> DEFINE s == [k \in 1 .. m |-> k]
           t == [k \in 1 .. n - m |-> m + k]
           u == [k \in 1 .. n |-> k]
<1>1. s \in Seq(Nat) /\ Len(s) = m
  OBVIOUS
<1>2. t \in Seq(Nat) /\ Len(t) = n - m
  OBVIOUS
<1>3. u \in Seq(Nat) /\ Len(u) = n
  OBVIOUS
<1>4. s \o t \in Seq(Nat) /\ Len(s \o t) = n
  BY <1>1, <1>2
<1>5. \A k \in 1 .. n : (s \o t)[k] = u[k]
  BY <1>1, <1>2
<1> QED
  BY <1>3, <1>4, <1>5

LEMMA EmbedInvStep == EmbedInv /\ [EmbedNext]_evars => EmbedInv'
<1> SUFFICES ASSUME EmbedInv, [EmbedNext]_evars PROVE EmbedInv'
  OBVIOUS
<1> USE DEF EmbedInv, EmbedTypeOK, VectorsInOrder
<1>1. CASE AskBatch
  <2>1. BatchEnd \in Nat /\ start <= BatchEnd /\ BatchEnd <= texts
    BY <1>1 DEF AskBatch, BatchEnd, Fewer
  <2>2. PICK answer \in Replies :
          IF Len(answer) # BatchEnd - start
            THEN outcome' = "failed" /\ UNCHANGED <<start, vectors>>
            ELSE /\ vectors' = vectors \o answer
                 /\ start' = BatchEnd
                 /\ outcome' = outcome
    BY <1>1 DEF AskBatch
  <2>3. CASE Len(answer) # BatchEnd - start
    BY <1>1, <2>2, <2>3 DEF AskBatch
  <2>4. CASE Len(answer) = BatchEnd - start
    <3>1. PICK n \in 0 .. BatchEnd - start + 1 :
            answer = [k \in 1 .. n |-> IF start + k <= BatchEnd THEN start + k ELSE 0]
      BY <2>1 DEF Replies
    <3>2. n = BatchEnd - start
      BY <2>1, <2>4, <3>1
    <3>3. answer = [k \in 1 .. BatchEnd - start |-> start + k]
      BY <2>1, <3>1, <3>2
    <3>4. vectors' = [k \in 1 .. BatchEnd |-> k]
      BY <2>1, <2>2, <2>4, <3>3, Strung
    <3>5. [k \in 1 .. BatchEnd |-> k] \in Seq(Nat)
      BY <2>1
    <3> QED
      BY <1>1, <2>1, <2>2, <2>4, <3>4, <3>5 DEF AskBatch
  <2> QED
    BY <2>3, <2>4
<1>2. CASE BatchFails
  BY <1>2 DEF BatchFails
<1>3. CASE ReturnVectors
  BY <1>3 DEF ReturnVectors
<1>4. CASE UNCHANGED evars
  BY <1>4 DEF evars
<1> QED
  BY <1>1, <1>2, <1>3, <1>4 DEF EmbedNext

\* Whatever the provider answers to which batch: the call returns the vector of
\* every text, in the order of the texts, or fails (embedding.py:42-67).
THEOREM EachTextItsVector == EmbedSpec => []VectorsInOrder
<1>1. EmbedInv => VectorsInOrder
  BY DEF EmbedInv
<1> QED
  BY EmbedInvInit, EmbedInvStep, <1>1, PTL DEF EmbedSpec

-----------------------------------------------------------------------------
(* The sections of a text, for every text and every set of levels.         *)

Below == {p \in Nat \X Nat : p[1] < p[2]}

\* A set of lines that is not empty has a first one.
LEMMA FirstExists ==
  ASSUME NEW S \in SUBSET Nat, S # {}
  PROVE  First(S) \in S /\ \A i \in S : First(S) <= i
<1>1. OpToRel(<, Nat) = Below
  BY DEF OpToRel, Below
<1>2. PICK x \in S : \A y \in S : ~ (<<y, x>> \in Below)
  BY <1>1, NatLessThanWellFounded, WFMin
<1>3. ASSUME NEW y \in S PROVE x <= y
  <2>1. <<y, x>> \in Nat \X Nat
    OBVIOUS
  <2>2. ~ (<<y, x>>[1] < <<y, x>>[2])
    BY <1>2, <2>1 DEF Below
  <2> QED BY <2>1, <2>2
<1> QED BY <1>3 DEF First

\* ... and, if it is bounded, a last one.
LEMMA LastExists ==
  ASSUME NEW n \in Nat, NEW S \in SUBSET (0 .. n), S # {}
  PROVE  Last(S) \in S /\ \A i \in S : Last(S) >= i
<1> DEFINE T == {k \in 0 .. n : n - k \in S}
<1>1. T \in SUBSET Nat /\ T # {}
  <2>1. PICK y \in S : TRUE
    OBVIOUS
  <2>2. n - y \in 0 .. n /\ n - (n - y) = y
    OBVIOUS
  <2>3. n - y \in T
    BY <2>1, <2>2
  <2>4. T \in SUBSET Nat
    OBVIOUS
  <2> QED BY <2>3, <2>4
<1>2. First(T) \in T /\ \A t \in T : First(T) <= t
  <2> HIDE DEF T
  <2> QED BY <1>1, FirstExists
<1>3. PICK x \in S : First(T) = n - x
  <2>1. n - (n - First(T)) = First(T)
    BY <1>2
  <2> QED BY <1>2, <2>1
<1>4. ASSUME NEW y \in S PROVE n - x <= n - y
  <2>1. n - y \in 0 .. n /\ n - (n - y) = y
    OBVIOUS
  <2> QED BY <1>2, <1>3, <2>1
<1>5. \A y \in S : x >= y
  BY <1>4
<1> QED BY <1>5 DEF Last

\* What is left on the stack is its part below the first heading, from the top
\* down, that is higher than the new one.
LEMMA ClosedStack ==
  ASSUME NEW E, NEW st \in Seq(E), NEW level
  PROVE  \E n \in 0 .. Len(st) :
           /\ Close(st, level) = SubSeq(st, 1, n)
           /\ n > 0 => st[n].level < level
           /\ \A k \in n + 1 .. Len(st) : ~ (st[k].level < level)
<1> DEFINE stays == {k \in 0 .. Len(st) : k = 0 \/ st[k].level < level}
           n == Last(stays)
<1>1. Len(st) \in Nat
  OBVIOUS
<1>2. stays \in SUBSET (0 .. Len(st)) /\ 0 \in stays
  BY <1>1
<1>3. n \in stays /\ \A k \in stays : n >= k
  <2> HIDE DEF stays
  <2> QED BY <1>1, <1>2, LastExists
<1>4. Close(st, level) = SubSeq(st, 1, n)
  BY DEF Close
<1>5. n \in 0 .. Len(st) /\ (n > 0 => st[n].level < level)
  <2> HIDE DEF n
  <2> QED BY <1>3
<1>6. ASSUME NEW k \in n + 1 .. Len(st) PROVE ~ (st[k].level < level)
  <2>1. n \in Nat
    BY <1>5
  <2> HIDE DEF n
  <2>2. k \in 0 .. Len(st) /\ ~ (n >= k)
    BY <1>1, <1>6, <2>1
  <2> QED BY <1>3, <2>2
<1> QED BY <1>4, <1>5, <1>6

Solid(b) == {i \in b : IsText(i)}

\* The stack holds the headings that enclose the line to be read next, in the
\* order of the document and of their levels.
StackEncloses ==
  /\ {stack[k].line : k \in 1 .. Len(stack)} = Enclosing(pos + 1)
  /\ \A k \in 1 .. Len(stack) :
       /\ stack[k].line <= pos /\ IsHeading(stack[k].line)
       /\ text[stack[k].line].level = stack[k].level
  /\ \A j, k \in 1 .. Len(stack) : j < k =>
       stack[j].line < stack[k].line /\ stack[j].level < stack[k].level

\* The body is the lines since the last heading, and what is emitted lies
\* before it.
BodyFollows ==
  /\ \A i \in body : ~ IsHeading(i) /\ i .. pos \subseteq body
  /\ \A k \in 1 .. Len(out) :
       /\ out[k].from <= out[k].to /\ out[k].to <= pos
       /\ \A i \in body : out[k].to < i

SectionsInv ==
  /\ SectionsTypeOK /\ StackEncloses /\ BodyFollows
  /\ PathsEnclose /\ TextKeptOnce

\* flush() adds nothing, or one section that names the open headings, starts
\* and ends with the body's first and last lines of text.
LEMMA FlushAdds ==
  ASSUME SectionsTypeOK, out' = out \o Flush(stack, body)
  PROVE  \/ Solid(body) = {} /\ out' = out
         \/ \E s \in Section :
              /\ out' = Append(out, s)
              /\ s.path = Path(stack)
              /\ s.from \in Solid(body) /\ s.to \in Solid(body)
              /\ \A i \in Solid(body) : s.from <= i /\ i <= s.to
<1> DEFINE solid == Solid(body)
<1>t. /\ pos \in 0 .. Len(text) /\ body \in SUBSET (1 .. pos) /\ Len(text) \in Nat
      /\ stack \in Seq(Entry) /\ out \in Seq(Section)
  BY DEF SectionsTypeOK
<1>1. CASE solid = {}
  <2>1. Flush(stack, body) = <<>>
    BY <1>1 DEF Flush, Solid
  <2> QED BY <1>1, <1>t, <2>1
<1>2. CASE solid # {}
  <2> DEFINE s == [path |-> Path(stack), from |-> First(solid), to |-> Last(solid)]
  <2>1. Flush(stack, body) = <<s>>
    BY <1>2 DEF Flush, Solid
  <2>2. /\ solid \in SUBSET Nat /\ solid \in SUBSET (0 .. pos) /\ pos \in Nat
        /\ solid \in SUBSET (1 .. Len(text))
    <3>1. \A i \in solid : i \in Nat /\ i \in 0 .. pos /\ i \in 1 .. Len(text)
      BY <1>t DEF Solid
    <3> HIDE DEF solid
    <3> QED BY <1>t, <3>1
  <2>3. /\ First(solid) \in solid /\ Last(solid) \in solid
        /\ \A i \in solid : First(solid) <= i /\ Last(solid) >= i
    <3> HIDE DEF solid
    <3> QED BY <1>2, <2>2, FirstExists, LastExists
  <2>4. Path(stack) \in Seq(1 .. Len(text))
    <3>1. \A k \in 1 .. Len(stack) : stack[k].line \in 1 .. Len(text)
      <4>1. \A k \in 1 .. Len(stack) : stack[k] \in Entry
        BY <1>t
      <4> QED BY <4>1 DEF Entry
    <3> QED BY <1>t, <3>1 DEF Path
  <2>6. s \in Section
    <3> HIDE DEF solid
    <3> QED BY <2>2, <2>3, <2>4 DEF Section
  <2>7. /\ s.path = Path(stack) /\ s.from = First(solid) /\ s.to = Last(solid)
    OBVIOUS
  <2>8. out' = Append(out, s)
    <3> HIDE DEF s
    <3> QED BY <1>t, <2>1, <2>6
  <2>9. \A i \in solid : First(solid) <= i /\ i <= Last(solid)
    <3> HIDE DEF solid
    <3> QED BY <2>2, <2>3
  <2> HIDE DEF s, solid
  <2> QED BY <2>3, <2>6, <2>7, <2>8, <2>9 DEF solid
<1> QED BY <1>1, <1>2

\* Lines of the body are under the open headings.
LEMMA BodyEnclosed ==
  ASSUME SectionsInv, NEW i \in body
  PROVE  Enclosing(i) = {stack[k].line : k \in 1 .. Len(stack)}
<1>1. /\ i \in 1 .. pos /\ i \in Nat /\ pos \in Nat
      /\ \A j \in i .. pos : ~ IsHeading(j)
  <2>1. i \in 1 .. pos /\ pos \in 0 .. Len(text) /\ Len(text) \in Nat
    BY DEF SectionsInv, SectionsTypeOK
  <2>2. \A j \in i .. pos : ~ IsHeading(j)
    BY DEF SectionsInv, BodyFollows
  <2> QED BY <2>1, <2>2
<1>2. ASSUME NEW h
      PROVE  h \in Enclosing(i) <=> h \in Enclosing(pos + 1)
  <2>1. \A j \in Int : j \in i .. pos => ~ IsHeading(j)
    BY <1>1
  <2>2. h \in Enclosing(i) <=>
          /\ h \in 1 .. i - 1 /\ IsHeading(h)
          /\ \A j \in h + 1 .. i - 1 : IsHeading(j) => text[j].level > text[h].level
    BY DEF Enclosing
  <2>3. h \in Enclosing(pos + 1) <=>
          /\ h \in 1 .. pos /\ IsHeading(h)
          /\ \A j \in h + 1 .. pos : IsHeading(j) => text[j].level > text[h].level
    BY <1>1 DEF Enclosing
  <2>4. h \in 1 .. i - 1 /\ IsHeading(h) <=> h \in 1 .. pos /\ IsHeading(h)
    BY <1>1, <2>1
  <2>5. ASSUME h \in 1 .. i - 1
        PROVE  (\A j \in h + 1 .. i - 1 : IsHeading(j) => text[j].level > text[h].level)
               <=> (\A j \in h + 1 .. pos : IsHeading(j) => text[j].level > text[h].level)
    <3>1. \A j \in h + 1 .. i - 1 : j \in h + 1 .. pos
      BY <1>1, <2>5
    <3>2. \A j \in h + 1 .. pos : j \in h + 1 .. i - 1 \/ ~ IsHeading(j)
      BY <1>1, <2>1, <2>5
    <3> QED BY <3>1, <3>2
  <2>6. h \in 1 .. i - 1 => h \in 1 .. pos
    BY <1>1
  <2> QED BY <2>2, <2>3, <2>4, <2>5
<1> QED BY <1>2 DEF SectionsInv, StackEncloses

TextCovered ==
  \A i \in 1 .. pos : IsText(i) /\ i \notin body =>
    \E k \in 1 .. Len(out) : out[k].from <= i /\ i <= out[k].to

SectionsApart ==
  \A k \in 1 .. Len(out) :
    /\ IsText(out[k].from) /\ IsText(out[k].to)
    /\ \A i \in out[k].from .. out[k].to : ~ IsHeading(i) /\ i \notin body
    /\ k > 1 => out[k - 1].to < out[k].from

LEMMA KeptOnceParts ==
  TextKeptOnce <=> /\ TextCovered /\ SectionsApart
                   /\ ended => pos = Len(text) /\ body = {}
BY DEF TextKeptOnce, TextCovered, SectionsApart

\* A flush keeps what is true of the sections.
LEMMA FlushKeeps ==
  ASSUME SectionsInv, out' = out \o Flush(stack, body), text' = text, body' = {},
         pos' \in {pos, pos + 1}, pos' # pos => ~ IsText(pos + 1)
  PROVE  /\ out' \in Seq(Section)
         /\ \A k \in 1 .. Len(out') : out'[k].from <= out'[k].to /\ out'[k].to <= pos
         /\ PathsEnclose' /\ TextCovered' /\ SectionsApart'
<1> DEFINE n == Len(out)
<1>t. /\ pos \in 0 .. Len(text) /\ pos \in Nat /\ Len(text) \in Nat
      /\ body \in SUBSET (1 .. pos)
      /\ out \in Seq(Section) /\ n \in Nat /\ stack \in Seq(Entry)
  <2>1. pos \in 0 .. Len(text) /\ body \in SUBSET (1 .. pos)
        /\ out \in Seq(Section) /\ stack \in Seq(Entry) /\ text \in Seq(Line)
    BY DEF SectionsInv, SectionsTypeOK
  <2> QED BY <2>1
<1>k. TextCovered /\ SectionsApart
  BY KeptOnceParts DEF SectionsInv
<1>p. \A i \in 1 .. pos' : IsText(i) => i \in 1 .. pos
  <2> SUFFICES ASSUME NEW i \in 1 .. pos', IsText(i)
               PROVE  i \in 1 .. pos
    OBVIOUS
  <2>1. CASE pos' = pos
    BY <2>1
  <2>2. CASE pos' # pos
    <3>1. pos' = pos + 1 /\ i # pos + 1
      BY <2>2
    <3> QED BY <1>t, <3>1
  <2> QED BY <2>1, <2>2
<1>s. \A i : IsText(i)' = IsText(i) /\ IsHeading(i)' = IsHeading(i)
  BY DEF IsText, IsHeading
<1>e. \A i : Enclosing(i)' = Enclosing(i)
  BY <1>s DEF Enclosing
<1>1. CASE Solid(body) = {} /\ out' = out
  <2>1. PathsEnclose'
    BY <1>1, <1>e DEF SectionsInv, PathsEnclose, Ascending
  <2>2. TextCovered'
    <3> SUFFICES ASSUME NEW i \in 1 .. pos', IsText(i)
                 PROVE  \E k \in 1 .. Len(out) : out[k].from <= i /\ i <= out[k].to
      BY <1>1, <1>s DEF TextCovered
    <3>1. i \in 1 .. pos
      BY <1>p
    <3>2. i \notin body
      BY <1>1 DEF Solid
    <3> QED BY <1>k, <3>1, <3>2 DEF TextCovered
  <2>3. SectionsApart'
    BY <1>1, <1>k, <1>s DEF SectionsApart
  <2>4. \A k \in 1 .. Len(out) : out[k].from <= out[k].to /\ out[k].to <= pos
    BY DEF SectionsInv, BodyFollows
  <2> QED BY <1>1, <1>t, <2>1, <2>2, <2>3, <2>4
<1>2. ASSUME NEW s \in Section, out' = Append(out, s), s.path = Path(stack),
             s.from \in Solid(body), s.to \in Solid(body),
             \A i \in Solid(body) : s.from <= i /\ i <= s.to
      PROVE  /\ out' \in Seq(Section)
             /\ \A k \in 1 .. Len(out') : out'[k].from <= out'[k].to /\ out'[k].to <= pos
             /\ PathsEnclose' /\ TextCovered' /\ SectionsApart'
  <2>1. /\ out' \in Seq(Section) /\ Len(out') = n + 1
        /\ \A k \in 1 .. n : out'[k] = out[k]
        /\ out'[n + 1] = s
    BY <1>2, <1>t
  <2>b. s.from \in body /\ s.to \in body /\ IsText(s.from) /\ IsText(s.to)
    BY <1>2 DEF Solid
  <2>3. \A k \in 1 .. Len(out') : out'[k].from <= out'[k].to /\ out'[k].to <= pos
    <3>1. s.from <= s.to /\ s.to <= pos
      <4>1. s.to \in 1 .. pos
        BY <1>t, <2>b
      <4> QED BY <1>2, <1>t, <4>1
    <3>2. \A k \in 1 .. n : out[k].from <= out[k].to /\ out[k].to <= pos
      BY DEF SectionsInv, BodyFollows
    <3>3. \A k \in 1 .. n + 1 : k \in 1 .. n \/ k = n + 1
      BY <1>t
    <3> QED BY <2>1, <3>1, <3>2, <3>3
  <2>4. PathsEnclose'
    <3>1. /\ {s.path[m] : m \in 1 .. Len(s.path)} = Enclosing(s.from)
          /\ Ascending(s.path)
      <4>1. Len(Path(stack)) = Len(stack) /\ Len(stack) \in Nat
            /\ \A m \in 1 .. Len(stack) : Path(stack)[m] = stack[m].line
        BY <1>t DEF Path
      <4>2. Ascending(Path(stack))
        BY <4>1 DEF Ascending, SectionsInv, StackEncloses
      <4>3. {Path(stack)[m] : m \in 1 .. Len(stack)} = {stack[m].line : m \in 1 .. Len(stack)}
        BY <4>1
      <4> QED BY <1>2, <2>b, <4>1, <4>2, <4>3, BodyEnclosed
    <3>2. \A k \in 1 .. n :
            /\ {out[k].path[m] : m \in 1 .. Len(out[k].path)} = Enclosing(out[k].from)
            /\ Ascending(out[k].path)
      BY DEF SectionsInv, PathsEnclose
    <3>3. \A k \in 1 .. n + 1 : k \in 1 .. n \/ k = n + 1
      BY <1>t
    <3>4. ASSUME NEW k \in 1 .. n + 1
          PROVE  /\ {out'[k].path[m] : m \in 1 .. Len(out'[k].path)} = Enclosing(out'[k].from)
                 /\ Ascending(out'[k].path)
      <4>1. CASE k \in 1 .. n
        <5>1. out'[k] = out[k]
          BY <2>1, <4>1
        <5> QED BY <3>2, <4>1, <5>1
      <4>2. CASE k = n + 1
        <5>1. out'[k] = s
          BY <2>1, <4>2
        <5> QED BY <3>1, <5>1
      <4> QED BY <3>3, <4>1, <4>2
    <3> QED BY <1>e, <2>1, <3>4 DEF PathsEnclose, Ascending
  <2>5. TextCovered'
    <3> SUFFICES ASSUME NEW i \in 1 .. pos', IsText(i)
                 PROVE  \E k \in 1 .. n + 1 : out'[k].from <= i /\ i <= out'[k].to
      BY <1>s, <2>1 DEF TextCovered
    <3>1. i \in 1 .. pos
      BY <1>p
    <3>2. CASE i \in body
      <4>1. out'[n + 1].from <= i /\ i <= out'[n + 1].to /\ n + 1 \in 1 .. n + 1
        BY <1>2, <1>t, <2>1, <3>2 DEF Solid
      <4> QED BY <4>1
    <3>3. CASE i \notin body
      <4>1. PICK k \in 1 .. n : out[k].from <= i /\ i <= out[k].to
        BY <1>k, <3>1, <3>3 DEF TextCovered
      <4>2. k \in 1 .. n + 1
        BY <1>t
      <4> QED BY <2>1, <4>1, <4>2
    <3> QED BY <3>2, <3>3
  <2>6. SectionsApart'
    <3> SUFFICES ASSUME NEW k \in 1 .. n + 1
                 PROVE  /\ IsText(out'[k].from) /\ IsText(out'[k].to)
                        /\ \A i \in out'[k].from .. out'[k].to : ~ IsHeading(i)
                        /\ k > 1 => out'[k - 1].to < out'[k].from
      BY <1>s, <2>1 DEF SectionsApart
    <3>1. CASE k \in 1 .. n
      <4>1. k > 1 => k - 1 \in 1 .. n
        BY <1>t, <3>1
      <4> QED BY <1>k, <2>1, <3>1, <4>1 DEF SectionsApart
    <3>2. CASE k = n + 1
      <4>1. \A i \in s.from .. s.to : i \in s.from .. pos
        <5>1. s.from \in 1 .. pos /\ s.to \in 1 .. pos
          BY <1>t, <2>b
        <5> QED BY <1>t, <5>1
      <4>2. \A i \in s.from .. s.to : ~ IsHeading(i)
        BY <2>b, <4>1 DEF SectionsInv, BodyFollows
      <4>3. k > 1 => k - 1 \in 1 .. n /\ out[k - 1].to < s.from
        <5>1. k > 1 => k - 1 \in 1 .. n
          BY <1>t, <3>2
        <5> QED BY <2>b, <5>1 DEF SectionsInv, BodyFollows
      <4> QED BY <2>1, <2>b, <3>2, <4>2, <4>3
    <3>3. k \in 1 .. n \/ k = n + 1
      BY <1>t
    <3> QED BY <3>1, <3>2, <3>3
  <2> QED BY <2>1, <2>3, <2>4, <2>5, <2>6
<1>3. SectionsTypeOK
  BY DEF SectionsInv
<1> QED BY <1>1, <1>2, <1>3, FlushAdds

\* The headings that enclose the line after a heading: those that enclosed the
\* heading and are higher than it, and the heading itself.
LEMMA HeadingEncloses ==
  ASSUME pos \in Nat, IsHeading(pos + 1), NEW h
  PROVE  h \in Enclosing(pos + 1 + 1) <=>
           \/ h = pos + 1
           \/ h \in Enclosing(pos + 1) /\ text[pos + 1].level > text[h].level
<1> DEFINE Deeper(j) == IsHeading(j) => text[j].level > text[h].level
<1>1. h \in Enclosing(pos + 1 + 1) <=>
        h \in 1 .. pos + 1 /\ IsHeading(h) /\ \A j \in h + 1 .. pos + 1 : Deeper(j)
  BY DEF Enclosing
<1>2. h \in Enclosing(pos + 1) <=>
        h \in 1 .. pos /\ IsHeading(h) /\ \A j \in h + 1 .. pos : Deeper(j)
  BY DEF Enclosing
<1>3. CASE h = pos + 1
  <2>1. \A j \in h + 1 .. pos + 1 : FALSE
    BY <1>3
  <2> QED BY <1>1, <1>3, <2>1
<1>4. CASE h \in 1 .. pos
  <2>1. \A j : j \in h + 1 .. pos + 1 <=> j \in h + 1 .. pos \/ j = pos + 1
    BY <1>4
  <2>2. Deeper(pos + 1) <=> text[pos + 1].level > text[h].level
    OBVIOUS
  <2>3. h \in 1 .. pos + 1 /\ h # pos + 1
    BY <1>4
  <2> HIDE DEF Deeper
  <2> QED BY <1>1, <1>2, <1>4, <2>1, <2>2, <2>3
<1>5. h \in 1 .. pos + 1 <=> h = pos + 1 \/ h \in 1 .. pos
  OBVIOUS
<1> QED BY <1>1, <1>2, <1>3, <1>4, <1>5

\* A line that is no heading encloses nothing.
LEMMA LineEncloses ==
  ASSUME pos \in Nat, ~ IsHeading(pos + 1), NEW h
  PROVE  h \in Enclosing(pos + 1 + 1) <=> h \in Enclosing(pos + 1)
<1> DEFINE Deeper(j) == IsHeading(j) => text[j].level > text[h].level
<1>1. h \in Enclosing(pos + 1 + 1) <=>
        h \in 1 .. pos + 1 /\ IsHeading(h) /\ \A j \in h + 1 .. pos + 1 : Deeper(j)
  BY DEF Enclosing
<1>2. h \in Enclosing(pos + 1) <=>
        h \in 1 .. pos /\ IsHeading(h) /\ \A j \in h + 1 .. pos : Deeper(j)
  BY DEF Enclosing
<1>3. h \in 1 .. pos + 1 /\ IsHeading(h) <=> h \in 1 .. pos /\ IsHeading(h)
  OBVIOUS
<1>4. ASSUME h \in 1 .. pos
      PROVE  \A j : j \in h + 1 .. pos + 1 <=> j \in h + 1 .. pos \/ j = pos + 1
  BY <1>4
<1>5. Deeper(pos + 1)
  OBVIOUS
<1> HIDE DEF Deeper
<1> QED BY <1>1, <1>2, <1>3, <1>4, <1>5

\* A heading closes the sections that are not higher and opens its own.
LEMMA HeadingOpens ==
  ASSUME SectionsInv, ReadHeading
  PROVE  /\ stack' \in Seq(Entry)
         /\ \A k \in 1 .. Len(stack') : k <= stack'[k].level
         /\ StackEncloses'
<1> DEFINE L == text[pos + 1].level
           top == [level |-> L, line |-> pos + 1]
<1>t. /\ pos \in Nat /\ Len(text) \in Nat /\ pos \in 0 .. Len(text)
      /\ text \in Seq(Line) /\ stack \in Seq(Entry)
      /\ \A k \in 1 .. Len(stack) : k <= stack[k].level
  BY DEF SectionsInv, SectionsTypeOK
<1>a. /\ pos < Len(text) /\ IsHeading(pos + 1) /\ text' = text /\ pos' = pos + 1
      /\ stack' = Append(Close(stack, L), top)
  BY DEF ReadHeading
<1>l. L \in Levels /\ L \in Nat /\ L > 0
  <2>1. pos + 1 \in 1 .. Len(text)
    BY <1>t, <1>a
  <2>2. text[pos + 1] \in Line
    BY <1>t, <2>1
  <2>3. L \in Levels
    BY <1>a, <2>2 DEF Line, IsHeading
  <2> HIDE DEF L
  <2>4. \A l \in Levels : l \in Nat /\ l # 0
    BY LevelsAssumption
  <2> QED BY <2>3, <2>4
<1>e. top \in Entry /\ top.level = L /\ top.line = pos + 1
  BY <1>t, <1>a, <1>l DEF Entry
<1> HIDE DEF L, top
<1>m. \A k \in 1 .. Len(stack) :
        /\ stack[k].level \in Nat /\ stack[k].line \in Nat
        /\ stack[k].line <= pos /\ IsHeading(stack[k].line)
        /\ text[stack[k].line].level = stack[k].level
  <2>1. \A k \in 1 .. Len(stack) : stack[k] \in Entry
    BY <1>t
  <2>2. \A x \in Entry : x.level \in Levels /\ x.line \in 1 .. Len(text)
    BY DEF Entry
  <2>4. \A l \in Levels : l \in Nat
    BY LevelsAssumption
  <2>5. \A l \in 1 .. Len(text) : l \in Nat
    BY <1>t
  <2>3. \A k \in 1 .. Len(stack) :
          /\ stack[k].line <= pos /\ IsHeading(stack[k].line)
          /\ text[stack[k].line].level = stack[k].level
    BY DEF SectionsInv, StackEncloses
  <2> QED BY <2>1, <2>2, <2>3, <2>4, <2>5
<1>o. \A j, k \in 1 .. Len(stack) : j < k =>
        stack[j].line < stack[k].line /\ stack[j].level < stack[k].level
  BY DEF SectionsInv, StackEncloses
<1>n. PICK n \in 0 .. Len(stack) :
        /\ Close(stack, L) = SubSeq(stack, 1, n)
        /\ n > 0 => stack[n].level < L
        /\ \A k \in n + 1 .. Len(stack) : ~ (stack[k].level < L)
  BY <1>t, ClosedStack
<1>i. Len(stack) \in Nat /\ n \in Nat
  BY <1>t
<1>1. /\ stack' \in Seq(Entry) /\ Len(stack') = n + 1
      /\ \A k \in 1 .. n : stack'[k] = stack[k]
      /\ stack'[n + 1] = top
  <2>1. SubSeq(stack, 1, n) \in Seq(Entry) /\ Len(SubSeq(stack, 1, n)) = n
        /\ \A k \in 1 .. n : SubSeq(stack, 1, n)[k] = stack[k]
    BY <1>t, <1>i, <1>n
  <2> DEFINE q == SubSeq(stack, 1, n)
  <2>2. stack' = Append(q, top)
    BY <1>a, <1>n
  <2> HIDE DEF q
  <2> QED BY <1>e, <1>i, <2>1, <2>2 DEF q
<1>2. \A k \in 1 .. n : k \in 1 .. Len(stack) /\ stack[k].level < L
  <2> SUFFICES ASSUME NEW k \in 1 .. n
               PROVE  k \in 1 .. Len(stack) /\ stack[k].level < L
    OBVIOUS
  <2>1. k \in 1 .. Len(stack) /\ n \in 1 .. Len(stack) /\ n > 0
    BY <1>i, <1>n
  <2>2. k < n => stack[k].level < stack[n].level
    BY <1>o, <2>1
  <2>3. k = n \/ k < n
    BY <1>i
  <2> QED BY <1>l, <1>m, <1>n, <2>1, <2>2, <2>3
<1>3. \A k \in 1 .. n + 1 : k \in 1 .. n \/ k = n + 1
  BY <1>i
<1>4. \A k \in 1 .. n + 1 : k <= stack'[k].level
  <2>1. n + 1 <= L
    <3>1. CASE n = 0
      BY <1>l, <3>1
    <3>2. CASE n > 0
      <4>1. n \in 1 .. Len(stack)
        BY <1>i, <1>n, <3>2
      <4>2. n <= stack[n].level /\ stack[n].level < L /\ stack[n].level \in Nat
        BY <1>t, <1>m, <1>n, <3>2, <4>1
      <4> QED BY <1>i, <1>l, <4>2
    <3> QED BY <1>i, <3>1, <3>2
  <2> QED BY <1>1, <1>2, <1>3, <1>e, <1>t, <2>1
<1>5. ASSUME NEW h
      PROVE  h \in {stack'[k].line : k \in 1 .. n + 1} <=> h \in Enclosing(pos + 1 + 1)
  <2>1. h \in Enclosing(pos + 1 + 1) <=>
          \/ h = pos + 1
          \/ h \in Enclosing(pos + 1) /\ L > text[h].level
    BY <1>a, <1>t, HeadingEncloses DEF L
  <2>2. h \in Enclosing(pos + 1) <=> \E k \in 1 .. Len(stack) : h = stack[k].line
    BY DEF SectionsInv, StackEncloses
  <2>3. (\E k \in 1 .. Len(stack) : h = stack[k].line /\ L > text[h].level)
        <=> \E k \in 1 .. n : h = stack[k].line
    <3>1. ASSUME NEW k \in 1 .. Len(stack), h = stack[k].line, L > text[h].level
          PROVE  k \in 1 .. n
      <4>1. stack[k].level < L
        BY <1>l, <1>m, <3>1
      <4> QED BY <1>i, <1>n, <4>1
    <3>2. ASSUME NEW k \in 1 .. n, h = stack[k].line
          PROVE  k \in 1 .. Len(stack) /\ L > text[h].level
      BY <1>2, <1>l, <1>m, <3>2
    <3> QED BY <3>1, <3>2
  <2>4. h \in {stack'[k].line : k \in 1 .. n + 1} <=>
          h = pos + 1 \/ \E k \in 1 .. n : h = stack[k].line
    <3>1. h \in {stack'[k].line : k \in 1 .. n + 1} <=>
            \E k \in 1 .. n + 1 : h = stack'[k].line
      OBVIOUS
    <3>2. \A k \in 1 .. n : k \in 1 .. n + 1
      BY <1>i
    <3>3. n + 1 \in 1 .. n + 1
      BY <1>i
    <3> QED BY <1>1, <1>3, <1>e, <3>1, <3>2, <3>3
  <2> QED BY <2>1, <2>2, <2>3, <2>4
<1>6. \A i : IsHeading(i)' = IsHeading(i) /\ Enclosing(i)' = Enclosing(i)
  BY <1>a DEF IsHeading, Enclosing
<1>7. \A k \in 1 .. n + 1 :
        /\ stack'[k].line <= pos + 1 /\ IsHeading(stack'[k].line)
        /\ text[stack'[k].line].level = stack'[k].level
  <2>1. ASSUME NEW k \in 1 .. n
        PROVE  stack'[k].line <= pos + 1
    <3>1. stack[k].line \in Nat /\ stack[k].line <= pos
      BY <1>2, <1>m
    <3>2. stack[k].line <= pos + 1
      BY <1>t, <3>1
    <3> QED BY <1>1, <3>2
  <2>2. pos + 1 <= pos + 1 /\ IsHeading(pos + 1) /\ text[pos + 1].level = L
    BY <1>a, <1>t DEF L
  <2> QED BY <1>1, <1>2, <1>3, <1>e, <1>m, <2>1, <2>2
<1>8. \A j, k \in 1 .. n + 1 : j < k =>
        stack'[j].line < stack'[k].line /\ stack'[j].level < stack'[k].level
  <2> SUFFICES ASSUME NEW j \in 1 .. n + 1, NEW k \in 1 .. n + 1, j < k
               PROVE  stack'[j].line < stack'[k].line /\ stack'[j].level < stack'[k].level
    OBVIOUS
  <2>1. j \in 1 .. n /\ j \in 1 .. Len(stack) /\ stack'[j] = stack[j]
    BY <1>1, <1>2, <1>i
  <2>2. CASE k \in 1 .. n
    BY <1>1, <1>2, <1>o, <2>1, <2>2
  <2>3. CASE k = n + 1
    <3>1. stack[j].line < pos + 1 /\ stack[j].level < L
      BY <1>2, <1>m, <1>t, <2>1
    <3> QED BY <1>1, <1>e, <2>1, <2>3, <3>1
  <2> QED BY <1>3, <2>2, <2>3
<1>9. StackEncloses'
  <2>1. {stack'[k].line : k \in 1 .. Len(stack')} = Enclosing(pos' + 1)
    BY <1>1, <1>5, <1>a
  <2> QED BY <1>1, <1>6, <1>7, <1>8, <1>a, <2>1 DEF StackEncloses
<1> QED BY <1>1, <1>4, <1>9

\* Nothing read, nothing emitted.
LEMMA SectionsInvStart ==
  ASSUME text \in Seq(Line), pos = 0, stack = <<>>, body = {}, out = <<>>, ended = FALSE
  PROVE  SectionsInv
<1>1. /\ text \in Seq(Line) /\ pos = 0 /\ stack = <<>> /\ body = {} /\ out = <<>>
      /\ ended = FALSE
  OBVIOUS
<1>2. Len(text) \in Nat
  BY <1>1
<1>3. SectionsTypeOK
  <2>1. stack \in Seq(Entry) /\ out \in Seq(Section) /\ Len(stack) = 0
    BY <1>1
  <2>2. \A k \in 1 .. 0 : FALSE
    OBVIOUS
  <2>3. 0 \in 0 .. Len(text)
    BY <1>2
  <2> QED BY <1>1, <2>1, <2>2, <2>3 DEF SectionsTypeOK
<1>4. \A k : ~ (k \in 1 .. 0)
  OBVIOUS
<1>5. StackEncloses
  <2>1. \A h : h \notin Enclosing(pos + 1)
    BY <1>1, <1>4 DEF Enclosing
  <2>2. Len(stack) = 0
    BY <1>1
  <2>3. \A h : h \notin {stack[k].line : k \in 1 .. Len(stack)}
    BY <1>4, <2>2
  <2>4. {stack[k].line : k \in 1 .. Len(stack)} = Enclosing(pos + 1)
    BY <2>1, <2>3
  <2> QED BY <1>4, <2>2, <2>4 DEF StackEncloses
<1>6. Len(out) = 0
  BY <1>1
<1>7. BodyFollows /\ PathsEnclose /\ TextKeptOnce
  BY <1>1, <1>4, <1>6 DEF BodyFollows, PathsEnclose, TextKeptOnce
<1> QED BY <1>3, <1>5, <1>7 DEF SectionsInv

LEMMA SectionsInvInit == SectionsInit => SectionsInv
BY SectionsInvStart, TextsAssumption DEF SectionsInit

LEMMA ReadHeadingKeeps ==
  ASSUME SectionsInv, ReadHeading
  PROVE  SectionsInv'
<1>t. SectionsTypeOK /\ pos \in 0 .. Len(text) /\ pos \in Nat /\ Len(text) \in Nat
      /\ text \in Seq(Line) /\ ended \in BOOLEAN
  BY DEF SectionsInv, SectionsTypeOK
<1>a. /\ text' = text /\ pos' = pos + 1 /\ pos < Len(text) /\ body' = {}
      /\ IsHeading(pos + 1) /\ out' = out \o Flush(stack, body) /\ ended' = ended
  BY DEF ReadHeading
<1>1. /\ out' \in Seq(Section)
      /\ \A k \in 1 .. Len(out') : out'[k].from <= out'[k].to /\ out'[k].to <= pos
      /\ PathsEnclose' /\ TextCovered' /\ SectionsApart'
  <2>1. ~ IsText(pos + 1)
    BY <1>a DEF IsText, IsHeading
  <2> QED BY <1>a, <2>1, FlushKeeps
<1>2. /\ stack' \in Seq(Entry)
      /\ \A k \in 1 .. Len(stack') : k <= stack'[k].level
      /\ StackEncloses'
  BY HeadingOpens
<1>3. Section' = Section /\ Entry' = Entry
  BY <1>a DEF Section, Entry
<1>4. SectionsTypeOK'
  <2>1. pos + 1 \in 0 .. Len(text)
    BY <1>t, <1>a
  <2> QED BY <1>1, <1>2, <1>3, <1>a, <1>t, <2>1 DEF SectionsTypeOK
<1>5. BodyFollows'
  <2>1. \A k \in 1 .. Len(out') : out'[k].from <= out'[k].to /\ out'[k].to <= pos + 1
    <3> SUFFICES ASSUME NEW k \in 1 .. Len(out')
                 PROVE  out'[k].from <= out'[k].to /\ out'[k].to <= pos + 1
      OBVIOUS
    <3>1. out'[k] \in Section /\ out'[k].from <= out'[k].to /\ out'[k].to <= pos
      BY <1>1
    <3>2. out'[k].to \in 1 .. Len(text)
      BY <3>1 DEF Section
    <3> QED BY <1>t, <3>1, <3>2
  <2> QED BY <1>a, <2>1 DEF BodyFollows
<1>6. TextKeptOnce'
  <2>1. ~ ended
    BY <1>a, <1>t DEF SectionsInv, TextKeptOnce
  <2> QED BY <1>1, <1>a, <2>1 DEF TextKeptOnce, TextCovered, SectionsApart
<1> QED BY <1>1, <1>2, <1>4, <1>5, <1>6 DEF SectionsInv

LEMMA ReturnKeeps ==
  ASSUME SectionsInv, ReturnSections
  PROVE  SectionsInv'
<1>t. SectionsTypeOK /\ pos \in Nat
  <2>1. pos \in 0 .. Len(text) /\ text \in Seq(Line)
    BY DEF SectionsInv, SectionsTypeOK
  <2> QED BY <2>1 DEF SectionsInv
<1>a. /\ UNCHANGED <<text, pos, stack>> /\ pos = Len(text) /\ body' = {}
      /\ out' = out \o Flush(stack, body) /\ ended' = TRUE
  BY DEF ReturnSections
<1>1. /\ out' \in Seq(Section)
      /\ \A k \in 1 .. Len(out') : out'[k].from <= out'[k].to /\ out'[k].to <= pos
      /\ PathsEnclose' /\ TextCovered' /\ SectionsApart'
  BY <1>a, FlushKeeps
<1>2. Section' = Section /\ Entry' = Entry
  BY <1>a DEF Section, Entry
<1>3. SectionsTypeOK'
  BY <1>1, <1>2, <1>a, <1>t DEF SectionsTypeOK
<1>4. StackEncloses'
  BY <1>a DEF SectionsInv, StackEncloses, Enclosing, IsHeading
<1>5. BodyFollows'
  BY <1>1, <1>a DEF BodyFollows
<1>6. TextKeptOnce'
  BY <1>1, <1>a DEF TextKeptOnce, TextCovered, SectionsApart
<1> QED BY <1>1, <1>3, <1>4, <1>5, <1>6 DEF SectionsInv

LEMMA ReadLineKeeps ==
  ASSUME SectionsInv, ReadLine
  PROVE  SectionsInv'
<1>t. /\ text \in Seq(Line) /\ pos \in 0 .. Len(text) /\ pos \in Nat /\ Len(text) \in Nat
      /\ stack \in Seq(Entry) /\ out \in Seq(Section) /\ ended \in BOOLEAN
      /\ \A k \in 1 .. Len(stack) : k <= stack[k].level
      /\ body \in SUBSET (1 .. pos)
  <2>1. text \in Seq(Line) /\ pos \in 0 .. Len(text) /\ body \in SUBSET (1 .. pos)
    BY DEF SectionsInv, SectionsTypeOK
  <2> QED BY <2>1 DEF SectionsInv, SectionsTypeOK
<1>a. /\ UNCHANGED <<text, stack, out, ended>> /\ pos < Len(text) /\ pos' = pos + 1
      /\ body' = body \cup {pos + 1} /\ ~ IsHeading(pos + 1)
  BY DEF ReadLine
<1>e. \A i : /\ IsHeading(i)' = IsHeading(i) /\ IsText(i)' = IsText(i)
             /\ Enclosing(i)' = Enclosing(i)
  BY <1>a DEF IsHeading, IsText, Enclosing
<1>k. TextCovered /\ SectionsApart /\ (ended => pos = Len(text) /\ body = {})
  BY KeptOnceParts DEF SectionsInv
<1>b. \A i \in body : i \in 1 .. pos /\ i \in Nat /\ i <= pos
  BY <1>t
<1>o. \A k \in 1 .. Len(out) : out[k].to \in Nat /\ out[k].from \in Nat /\ out[k].to <= pos
  <2>1. \A k \in 1 .. Len(out) : out[k] \in Section
    BY <1>t
  <2>2. \A s \in Section : s.to \in 1 .. Len(text) /\ s.from \in 1 .. Len(text)
    BY DEF Section
  <2>3. \A i \in 1 .. Len(text) : i \in Nat
    BY <1>t
  <2>4. \A k \in 1 .. Len(out) : out[k].from <= out[k].to /\ out[k].to <= pos
    BY DEF SectionsInv, BodyFollows
  <2> QED BY <2>1, <2>2, <2>3, <2>4
<1>1. SectionsTypeOK'
  <2>1. Section' = Section /\ Entry' = Entry
    BY <1>a DEF Section, Entry
  <2>2. pos + 1 \in 0 .. Len(text)
    BY <1>t, <1>a
  <2>3. body' \subseteq 1 .. pos + 1
    <3>1. \A i \in 1 .. pos : i \in 1 .. pos + 1
      BY <1>t
    <3>2. pos + 1 \in 1 .. pos + 1
      BY <1>t
    <3> QED BY <1>a, <1>b, <3>1, <3>2
  <2> QED BY <1>a, <1>t, <2>1, <2>2, <2>3 DEF SectionsTypeOK
<1>2. StackEncloses'
  <2>1. Enclosing(pos + 1 + 1) = Enclosing(pos + 1)
    BY <1>a, <1>t, LineEncloses
  <2>2. ASSUME NEW k \in 1 .. Len(stack)
        PROVE  stack[k].line <= pos + 1
    <3>1. stack[k] \in Entry /\ stack[k].line <= pos
      BY <1>t DEF SectionsInv, StackEncloses
    <3>2. stack[k].line \in 1 .. Len(text)
      BY <3>1 DEF Entry
    <3> QED BY <1>t, <3>1, <3>2
  <2> QED BY <1>a, <1>e, <2>1, <2>2 DEF SectionsInv, StackEncloses
<1>3. BodyFollows'
  <2>1. ASSUME NEW i \in body'
        PROVE  ~ IsHeading(i) /\ i .. pos + 1 \subseteq body'
    <3>1. CASE i \in body
      <4>1. ~ IsHeading(i) /\ i .. pos \subseteq body
        BY <3>1 DEF SectionsInv, BodyFollows
      <4>2. \A j \in i .. pos + 1 : j \in i .. pos \/ j = pos + 1
        BY <1>b, <1>t, <3>1
      <4> QED BY <1>a, <4>1, <4>2
    <3>2. CASE i = pos + 1
      <4>1. \A j \in i .. pos + 1 : j = pos + 1
        BY <1>t, <3>2
      <4> QED BY <1>a, <3>2, <4>1
    <3> QED BY <1>a, <3>1, <3>2
  <2>2. ASSUME NEW k \in 1 .. Len(out)
        PROVE  /\ out[k].from <= out[k].to /\ out[k].to <= pos + 1
               /\ \A i \in body' : out[k].to < i
    <3>1. out[k].to <= pos + 1 /\ out[k].to < pos + 1
      BY <1>o, <1>t
    <3>2. out[k].from <= out[k].to /\ \A i \in body : out[k].to < i
      BY DEF SectionsInv, BodyFollows
    <3> QED BY <1>a, <3>1, <3>2
  <2> QED BY <1>a, <1>e, <2>1, <2>2 DEF BodyFollows
<1>4. PathsEnclose'
  BY <1>a, <1>e DEF SectionsInv, PathsEnclose, Ascending
<1>5. TextCovered'
  <2> SUFFICES ASSUME NEW i \in 1 .. pos + 1, IsText(i), i \notin body'
               PROVE  \E k \in 1 .. Len(out) : out[k].from <= i /\ i <= out[k].to
    BY <1>a, <1>e DEF TextCovered
  <2>1. i # pos + 1 /\ i \notin body
    BY <1>a
  <2>2. i \in 1 .. pos
    BY <1>t, <2>1
  <2> QED BY <1>k, <2>1, <2>2 DEF TextCovered
<1>6. SectionsApart'
  <2> SUFFICES ASSUME NEW k \in 1 .. Len(out), NEW i \in out[k].from .. out[k].to
               PROVE  i \notin body'
    BY <1>a, <1>e, <1>k DEF SectionsApart
  <2>1. i # pos + 1
    BY <1>o, <1>t
  <2> QED BY <1>a, <1>k, <2>1 DEF SectionsApart
<1>7. TextKeptOnce'
  <2>1. ~ ended
    BY <1>a, <1>k, <1>t
  <2> QED BY <1>5, <1>6, <1>a, <2>1 DEF TextKeptOnce, TextCovered, SectionsApart
<1> QED BY <1>1, <1>2, <1>3, <1>4, <1>7 DEF SectionsInv

LEMMA SectionsInvStep == SectionsInv /\ [SectionsNext]_cvars => SectionsInv'
<1> SUFFICES ASSUME SectionsInv, [SectionsNext]_cvars PROVE SectionsInv'
  OBVIOUS
<1>1. CASE ReadHeading
  BY <1>1, ReadHeadingKeeps
<1>2. CASE ReadLine
  BY <1>2, ReadLineKeeps
<1>3. CASE ReturnSections
  BY <1>3, ReturnKeeps
<1>4. CASE UNCHANGED cvars
  <2>1. UNCHANGED <<text, pos, stack, body, out, ended>>
    BY <1>4 DEF cvars
  <2>2. \A i : /\ IsHeading(i)' = IsHeading(i) /\ IsText(i)' = IsText(i)
               /\ Enclosing(i)' = Enclosing(i)
    BY <2>1 DEF IsHeading, IsText, Enclosing
  <2>3. SectionsTypeOK'
    BY <2>1 DEF SectionsInv, SectionsTypeOK, Section, Entry
  <2>4. StackEncloses' /\ BodyFollows'
    BY <2>1, <2>2 DEF SectionsInv, StackEncloses, BodyFollows
  <2>5. PathsEnclose'
    BY <2>1, <2>2 DEF SectionsInv, PathsEnclose, Ascending
  <2>6. TextKeptOnce'
    BY <2>1, <2>2 DEF SectionsInv, TextKeptOnce
  <2> QED BY <2>3, <2>4, <2>5, <2>6 DEF SectionsInv
<1> QED BY <1>1, <1>2, <1>3, <1>4 DEF SectionsNext

\* The positions stay in the text, and no stack is deeper than the level of its
\* top, whatever levels a document skips.
THEOREM SectionsTypeCorrect == SectionsSpec => []SectionsTypeOK
<1>1. SectionsInv => SectionsTypeOK
  BY DEF SectionsInv
<1> QED
  BY SectionsInvInit, SectionsInvStep, <1>1, PTL DEF SectionsSpec

\* For every text and whatever levels its headings have: a section's path names
\* exactly the headings that enclose its text, outermost first (chunker.py:29-32).
THEOREM PathsAreRight == SectionsSpec => []PathsEnclose
<1>1. SectionsInv => PathsEnclose
  BY DEF SectionsInv
<1> QED
  BY SectionsInvInit, SectionsInvStep, <1>1, PTL DEF SectionsSpec

\* No line of text is lost between two headings or kept in two sections, and the
\* sections keep the order of the document.
THEOREM SectionsLoseNothing == SectionsSpec => []TextKeptOnce
<1>1. SectionsInv => TextKeptOnce
  BY DEF SectionsInv
<1> QED
  BY SectionsInvInit, SectionsInvStep, <1>1, PTL DEF SectionsSpec
=============================================================================
