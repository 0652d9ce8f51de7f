----------------------------- MODULE KbSplitProofs -----------------------------
(***************************************************************************)
(* Theorems about _split_body, for bodies, windows and overlaps of any     *)
(* size.                                                                   *)
(***************************************************************************)
EXTENDS KbSplit, WellFoundedInduction, TLAPS

Below == {p \in Nat \X Nat : p[1] < p[2]}

\* A non-empty set of offsets has a least one.
LEMMA LeastExists ==
  ASSUME NEW S \in SUBSET Nat, S # {}
  PROVE  Least(S) \in S /\ \A y \in S : Least(S) <= y
<1>1. OpToRel(<, Nat) = Below
  BY DEF OpToRel, Below
<1>2. \E x \in S : \A y \in S : ~ (<<y, x>> \in Below)
  BY <1>1, NatLessThanWellFounded, WFMin
<1>3. PICK x \in S : \A y \in S : ~ (<<y, x>> \in Below)
  BY <1>2
<1>4. ASSUME NEW y \in S PROVE x <= y
  <2>1. x \in Nat /\ y \in Nat /\ <<y, x>> \in Nat \X Nat
    OBVIOUS
  <2>2. ~ (<<y, x>>[1] < <<y, x>>[2])
    BY <1>3, <2>1 DEF Below
  <2> QED BY <2>1, <2>2
<1> QED BY <1>4 DEF Least

\* A non-empty bounded set of offsets has a greatest one.
LEMMA GreatestExists ==
  ASSUME NEW n \in Nat, NEW S \in SUBSET (0..n), S # {}
  PROVE  Greatest(S) \in S /\ \A y \in S : Greatest(S) >= y
<1> DEFINE T == {k \in 0..n : n - k \in S}
<1>1. T \in SUBSET Nat /\ T # {}
  <2>1. PICK y \in S : TRUE
    OBVIOUS
  <2>2. n - y \in 0..n /\ n - (n - y) = y
    OBVIOUS
  <2>3. n - y \in T
    BY <2>1, <2>2
  <2>4. T \in SUBSET Nat
    OBVIOUS
  <2> QED BY <2>3, <2>4
<1>2. Least(T) \in T /\ \A t \in T : Least(T) <= t
  <2> HIDE DEF T
  <2> QED BY <1>1, LeastExists
<1>3. PICK x \in S : Least(T) = n - x
  <2>1. n - (n - Least(T)) = Least(T)
    BY <1>2
  <2> QED BY <1>2, <2>1
<1>4. ASSUME NEW y \in S PROVE n - x <= n - y
  <2>1. n - y \in 0..n /\ n - (n - y) = y
    OBVIOUS
  <2> QED BY <1>2, <1>3, <2>1
<1>5. \A y \in S : x >= y
  BY <1>4
<1> QED BY <1>5 DEF Greatest

\* A window ends after it starts and inside the body, spans at most m, and,
\* unless it is the last one, sees more than the step back.
LEMMA WindowBounds ==
  ASSUME NEW b \in Seq(Char), NEW m \in Nat \ {0}, NEW o \in Nat,
         NEW s \in 0 .. Len(b) - 1
  PROVE  /\ WindowEnd(b, m, o, s) \in s + 1 .. Len(b)
         /\ WindowEnd(b, m, o, s) <= s + m
         /\ \/ WindowEnd(b, m, o, s) = Len(b)
            \/ WindowEnd(b, m, o, s) > s + StepBack(o, m)
<1> DEFINE whole == Lesser(s + m, Len(b))
           cuts == {e \in 1..m : e > m - StepBack(o, m) /\ BoundaryAt(b, s, e)}
<1>1. /\ StepBack(o, m) \in Nat /\ StepBack(o, m) < m
      /\ m - StepBack(o, m) >= StepBack(o, m)
  BY DEF StepBack, Lesser
<1>2. /\ whole \in s + 1 .. Len(b) /\ whole <= s + m
      /\ whole = Len(b) \/ whole = s + m
  BY DEF Lesser
<1>3. CASE whole < Len(b) /\ cuts # {}
  <2>1. WindowEnd(b, m, o, s) = s + Least(cuts)
    BY <1>3 DEF WindowEnd
  <2>2. Least(cuts) \in cuts
    <3>1. cuts \in SUBSET Nat /\ cuts # {}
      BY <1>3
    <3> HIDE DEF cuts
    <3> QED BY <3>1, LeastExists
  <2>3. Least(cuts) \in 1..m /\ Least(cuts) > m - StepBack(o, m)
    BY <2>2
  <2> HIDE DEF cuts
  <2> QED BY <1>1, <1>2, <1>3, <2>1, <2>3
<1>4. CASE ~ (whole < Len(b) /\ cuts # {})
  <2>1. WindowEnd(b, m, o, s) = whole
    BY <1>4 DEF WindowEnd
  <2> HIDE DEF whole, cuts
  <2> QED BY <1>1, <1>2, <2>1
<1> QED BY <1>3, <1>4

\* The next window starts after this one, no later than this one ended, and no
\* more than the step back before.
LEMMA NextStartBounds ==
  ASSUME NEW m \in Nat \ {0}, NEW o \in Nat, NEW s \in Nat, NEW e \in Nat,
         e > s, e > s + StepBack(o, m)
  PROVE  /\ NextStart(m, o, s, e) \in s + 1 .. e
         /\ e <= NextStart(m, o, s, e) + StepBack(o, m)
<1>1. StepBack(o, m) \in Nat
  BY DEF StepBack, Lesser
<1> QED BY <1>1 DEF NextStart, Greater

\* strip() keeps every character that is not blank, and nothing when there is
\* none; what it keeps is not empty, lies in the window and has no blank at
\* either end.
LEMMA StripKeeps ==
  ASSUME NEW b \in Seq(Char), NEW from \in Nat, NEW to \in from .. Len(b)
  PROVE  \/ Solid(b, from, to) = {} /\ Strip(b, from, to) = <<>>
         \/ \E p \in [from : from .. to, to : from .. to] :
              /\ Strip(b, from, to) = <<p>>
              /\ p.from < p.to
              /\ b[p.from + 1] \notin Space /\ b[p.to] \notin Space
              /\ \A i \in Solid(b, from, to) : Inside(i, p)
<1>1. CASE Solid(b, from, to) = {}
  BY <1>1 DEF Strip
<1>2. CASE Solid(b, from, to) # {}
  <2> DEFINE S == Solid(b, from, to)
             lo == Least(S)
             hi == Greatest(S)
             p == [from |-> lo - 1, to |-> hi]
  <2>1. /\ to \in Nat /\ S \in SUBSET Nat /\ S \in SUBSET (0..to) /\ S # {}
        /\ \A i \in S : i \in from + 1 .. to /\ b[i] \notin Space
    BY <1>2 DEF Solid
  <2>2. Strip(b, from, to) = <<p>>
    BY <1>2 DEF Strip
  <2> HIDE DEF S
  <2>3. lo \in S /\ \A y \in S : lo <= y
    BY <2>1, LeastExists
  <2>4. hi \in S /\ \A y \in S : hi >= y
    BY <2>1, GreatestExists
  <2> HIDE DEF lo, hi
  <2>5. p.from + 1 = lo /\ p.to = hi
    BY <2>1, <2>3
  <2>6. p \in [from : from .. to, to : from .. to] /\ p.from < p.to
    BY <2>1, <2>3, <2>4
  <2>7. b[p.from + 1] \notin Space /\ b[p.to] \notin Space
    BY <2>1, <2>3, <2>4, <2>5
  <2>8. \A i \in S : Inside(i, p)
    BY <2>1, <2>3, <2>4, <2>6 DEF Inside
  <2> HIDE DEF p
  <2> QED BY <2>2, <2>6, <2>7, <2>8 DEF S
<1> QED BY <1>1, <1>2

\* What a call relies on between two turns of its loop: the next window starts
\* inside what was seen, no more than the step back before its end.
LoopInv ==
  /\ start <= end
  /\ ~ done => /\ end < Len(body)
               /\ end <= start + StepBack(overlap, max_chars)

SplitInv == SplitTypeOK /\ LoopInv /\ NothingLost /\ PiecesFit

LEMMA Arguments ==
  ASSUME SplitTypeOK
  PROVE  /\ body \in Seq(Char) /\ Len(body) \in Nat \ {0} /\ Stripped(body)
         /\ max_chars \in Nat \ {0} /\ overlap \in Nat
         /\ StepBack(overlap, max_chars) \in Nat
BY BodiesAssumption, SizesAssumption
   DEF SplitTypeOK, StepBack, Lesser, Stripped

\* The call starts with nothing seen and nothing kept.
LEMMA SplitStarts == SplitInit => SplitInv
<1> SUFFICES ASSUME SplitInit PROVE SplitInv
  OBVIOUS
<1>1. SplitTypeOK
  <2>1. body \in Seq(Char) /\ Len(body) \in Nat \ {0}
    BY BodiesAssumption DEF SplitInit, Stripped
  <2>2. out \in Seq([from : 0 .. Len(body), to : 0 .. Len(body)])
    BY DEF SplitInit
  <2>3. start \in 0 .. Len(body) - 1 /\ end \in 0 .. Len(body)
    BY <2>1 DEF SplitInit
  <2>4. done \in BOOLEAN
    BY DEF SplitInit
  <2> QED BY <2>2, <2>3, <2>4, Zenon DEF SplitInit, SplitTypeOK
<1> QED BY <1>1, Arguments
     DEF SplitInit, SplitInv, LoopInv, NothingLost, PiecesFit

\* A sequence followed by at most one element keeps what it had.
LEMMA Appended ==
  ASSUME NEW A, NEW B, NEW s \in Seq(A), NEW t \in Seq(B), Len(t) \in {0, 1}
  PROVE  /\ Len(s) \in Nat
         /\ Len(s \o t) = Len(s) + Len(t)
         /\ \A k \in 1..Len(s) : (s \o t)[k] = s[k]
         /\ Len(t) = 1 => (s \o t)[Len(s) + 1] = t[1]
OBVIOUS

Advance == end < end' /\ (done' \/ (start < start' /\ start' <= end'))

LEMMA WholeSteps ==
  ASSUME SplitInv, ReturnWhole
  PROVE  SplitInv' /\ Advance
<1> USE Arguments DEF SplitInv
<1>1. /\ body' = body /\ max_chars' = max_chars /\ overlap' = overlap
      /\ start' = start /\ end' = Len(body) /\ done' = TRUE
      /\ Len(body) <= max_chars /\ ~ done
      /\ out' = << [from |-> 0, to |-> Len(body)] >>
  BY DEF ReturnWhole, args
<1>2. SplitTypeOK'
  BY <1>1 DEF SplitTypeOK
<1>3. LoopInv'
  BY <1>1 DEF LoopInv, SplitTypeOK
<1>4. NothingLost'
  BY <1>1 DEF NothingLost, Inside
<1>5. PiecesFit'
  BY <1>1 DEF PiecesFit, Stripped
<1>6. Advance
  BY <1>1 DEF LoopInv, Advance
<1> QED BY <1>2, <1>3, <1>4, <1>5, <1>6

LEMMA CutSteps ==
  ASSUME SplitInv, CutWindow
  PROVE  SplitInv' /\ Advance
<1> DEFINE back == StepBack(overlap, max_chars)
           piece == Strip(body, start, end')
<1>1. /\ body' = body /\ max_chars' = max_chars /\ overlap' = overlap
      /\ end' = WindowEnd(body, max_chars, overlap, start)
      /\ out' = out \o piece
      /\ start' = IF end' >= Len(body) THEN start
                  ELSE NextStart(max_chars, overlap, start, end')
      /\ done' = (end' >= Len(body) \/ start' >= Len(body))
      /\ ~ done
  BY DEF CutWindow, args
<1>2. /\ body \in Seq(Char) /\ Len(body) \in Nat \ {0}
      /\ max_chars \in Nat \ {0} /\ overlap \in Nat /\ back \in Nat
      /\ start \in 0 .. Len(body) - 1 /\ end \in 0 .. Len(body)
      /\ out \in Seq([from : 0 .. Len(body), to : 0 .. Len(body)])
      /\ start <= end /\ end < Len(body) /\ end <= start + back
  BY <1>1, Arguments DEF SplitInv, SplitTypeOK, LoopInv
<1>3. /\ end' \in start + 1 .. Len(body)
      /\ end' <= start + max_chars
      /\ end' = Len(body) \/ end' > start + back
  BY <1>1, <1>2, WindowBounds
<1>4. IF end' = Len(body)
      THEN done' /\ start' = start
      ELSE start' \in start + 1 .. end' /\ end' <= start' + back /\ ~ done'
  <2>0. done' <=> end' >= Len(body) \/ start' >= Len(body)
    BY <1>1, Zenon
  <2>1. CASE end' = Len(body)
    <3>1. end' >= Len(body)
      BY <1>2, <2>1
    <3>2. start' = start
      BY <1>1, <3>1
    <3> QED BY <2>0, <2>1, <3>1, <3>2
  <2>2. CASE end' < Len(body)
    <3>1. start' = NextStart(max_chars, overlap, start, end')
      BY <1>1, <1>2, <1>3, <2>2
    <3>2. start' \in start + 1 .. end' /\ end' <= start' + back
      <4> HIDE DEF back
      <4>1. end' \in Nat /\ end' > start /\ end' > start + back
        BY <1>2, <1>3, <2>2
      <4> QED BY <1>2, <3>1, <4>1, NextStartBounds DEF back
    <3>3. ~ (end' >= Len(body)) /\ ~ (start' >= Len(body)) /\ end' # Len(body)
      <4> HIDE DEF back
      <4> QED BY <1>2, <1>3, <2>2, <3>2
    <3> QED BY <2>0, <3>2, <3>3, Zenon
  <2> HIDE DEF back
  <2> QED BY <1>2, <1>3, <2>1, <2>2
<1>5. \/ Solid(body, start, end') = {} /\ piece = <<>>
      \/ \E p \in [from : start .. end', to : start .. end'] :
           /\ piece = <<p>>
           /\ p.from < p.to
           /\ body[p.from + 1] \notin Space /\ body[p.to] \notin Space
           /\ \A i \in Solid(body, start, end') : Inside(i, p)
  <2>1. start \in Nat /\ end' \in start .. Len(body)
    BY <1>2, <1>3
  <2> QED BY <1>2, <2>1, StripKeeps
<1> HIDE DEF back, piece
<1>6. SplitTypeOK'
  <2>1. body' \in Bodies /\ max_chars' \in Sizes /\ overlap' \in Overlaps
    BY <1>1 DEF SplitInv, SplitTypeOK
  <2>2. start' \in 0 .. Len(body) - 1 /\ end' \in 0 .. Len(body)
    BY <1>2, <1>3, <1>4
  <2>3. piece \in Seq([from : 0 .. Len(body), to : 0 .. Len(body)])
    <3>1. ASSUME NEW p \in [from : start .. end', to : start .. end']
          PROVE  p \in [from : 0 .. Len(body), to : 0 .. Len(body)]
      BY <1>2, <1>3
    <3>2. CASE piece = <<>>
      BY <3>2
    <3>3. ASSUME NEW p \in [from : start .. end', to : start .. end'],
                 piece = <<p>>
          PROVE  piece \in Seq([from : 0 .. Len(body), to : 0 .. Len(body)])
      BY <3>1, <3>3
    <3> QED BY <1>5, <3>2, <3>3
  <2>4. out' \in Seq([from : 0 .. Len(body), to : 0 .. Len(body)])
    BY <1>1, <1>2, <2>3
  <2>5. done' \in BOOLEAN
    BY <1>1
  <2> QED BY <1>1, <2>1, <2>2, <2>4, <2>5 DEF SplitTypeOK
<1>7. LoopInv'
  BY <1>1, <1>2, <1>3, <1>4 DEF LoopInv, back
<1>8. /\ Len(piece) \in {0, 1} /\ Len(out) \in Nat
      /\ Len(out') = Len(out) + Len(piece)
      /\ \A k \in 1..Len(out) : out'[k] = out[k]
      /\ Len(piece) = 1 => out'[Len(out) + 1] = piece[1]
  <2>1. piece \in Seq({piece[1]}) /\ Len(piece) \in {0, 1}
    <3>1. CASE piece = <<>>
      BY <3>1
    <3>2. ASSUME NEW p, piece = <<p>>
          PROVE  piece \in Seq({piece[1]}) /\ Len(piece) \in {0, 1}
      BY <3>2
    <3> QED BY <1>5, <3>1, <3>2
  <2> QED BY <1>1, <1>2, <2>1, Appended
<1>9. NothingLost'
  <2>1. ASSUME NEW i \in 1..end', body[i] \notin Space
        PROVE  \E k \in 1..Len(out') : Inside(i, out'[k])
    <3>1. CASE i <= end
      <4>1. PICK k \in 1..Len(out) : Inside(i, out[k])
        BY <1>2, <1>3, <2>1, <3>1 DEF SplitInv, NothingLost
      <4> QED BY <1>8, <4>1
    <3>2. CASE i > end
      <4>1. i \in Solid(body, start, end')
        BY <1>2, <1>3, <2>1, <3>2 DEF Solid
      <4>2. piece # <<>> /\ Len(piece) = 1 /\ Inside(i, piece[1])
        BY <1>5, <4>1
      <4> QED BY <1>8, <4>2
    <3> QED BY <1>2, <1>3, <3>1, <3>2
  <2>2. done' => end' = Len(body)
    BY <1>4
  <2> QED BY <1>1, <2>1, <2>2 DEF NothingLost
<1>10. PiecesFit'
  <2>1. ASSUME NEW k \in 1..Len(out')
        PROVE  /\ out'[k].from < out'[k].to
               /\ out'[k].to - out'[k].from <= max_chars
               /\ body[out'[k].from + 1] \notin Space
               /\ body[out'[k].to] \notin Space
    <3>1. CASE k \in 1..Len(out)
      BY <1>8, <3>1 DEF SplitInv, PiecesFit
    <3>2. CASE k = Len(out) + 1 /\ Len(piece) = 1
      <4>1. PICK p \in [from : start .. end', to : start .. end'] :
               /\ piece = <<p>> /\ p.from < p.to
               /\ body[p.from + 1] \notin Space /\ body[p.to] \notin Space
        BY <1>5, <3>2
      <4>2. out'[k] = p
        BY <1>8, <3>2, <4>1
      <4>3. p.to - p.from <= max_chars
        <5>1. p.to \in start .. end' /\ p.from \in start .. end'
          OBVIOUS
        <5> QED BY <1>2, <1>3, <5>1
      <4> QED BY <4>1, <4>2, <4>3
    <3>3. k \in 1..Len(out) \/ (k = Len(out) + 1 /\ Len(piece) = 1)
      <4>1. CASE Len(piece) = 0
        <5>1. Len(out') = Len(out)
          BY <1>8, <4>1
        <5> QED BY <5>1
      <4>2. CASE Len(piece) = 1
        <5>1. Len(out') = Len(out) + 1 /\ Len(out) \in Nat
          BY <1>8, <4>2
        <5> QED BY <4>2, <5>1
      <4> QED BY <1>8, <4>1, <4>2
    <3> QED BY <3>1, <3>2, <3>3
  <2> QED BY <1>1, <2>1 DEF PiecesFit
<1>11. Advance
  BY <1>2, <1>3, <1>4 DEF Advance
<1> QED BY <1>6, <1>7, <1>9, <1>10, <1>11 DEF SplitInv

LEMMA SplitStutters ==
  ASSUME SplitInv, UNCHANGED svars
  PROVE  SplitInv'
BY DEF svars, SplitInv, SplitTypeOK, LoopInv, NothingLost, PiecesFit

LEMMA SplitInvariant == SplitSpec => []SplitInv
<1>1. SplitInv /\ [SplitNext]_svars => SplitInv'
  BY WholeSteps, CutSteps, SplitStutters DEF SplitNext
<1> QED BY SplitStarts, <1>1, PTL DEF SplitSpec

\* At every turn of the loop the offsets lie inside the text.
THEOREM SplitTypeCorrect == SplitSpec => []SplitTypeOK
<1>1. SplitInv => SplitTypeOK
  BY DEF SplitInv
<1> QED BY <1>1, SplitInvariant, PTL

\* Whatever the text, the window and the overlap, chunk_markdown loses no text
\* of a section: what it has passed is in a piece.
THEOREM SplitLosesNothing == SplitSpec => []NothingLost
<1>1. SplitInv => NothingLost
  BY DEF SplitInv
<1> QED BY <1>1, SplitInvariant, PTL

\* Every piece fits the window, is stripped, and is not empty.
THEOREM SplitPiecesFit == SplitSpec => []PiecesFit
<1>1. SplitInv => PiecesFit
  BY DEF SplitInv
<1> QED BY <1>1, SplitInvariant, PTL

\* Every turn of the loop starts further on and sees further, with no gap: the
\* comment at chunker.py:61-62 is what makes the loop end, and it holds for every
\* window and overlap.
THEOREM SplitAdvances == SplitSpec => Advances
<1>1. SplitInv /\ [SplitNext]_svars =>
        [end < end' /\ (done' \/ (start < start' /\ start' <= end'))]_svars
  BY WholeSteps, CutSteps DEF SplitNext, Advance
<1> QED BY <1>1, SplitInvariant, PTL DEF SplitSpec, Advances
=============================================================================
