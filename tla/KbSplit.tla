-------------------------------- MODULE KbSplit --------------------------------
(***************************************************************************)
(* _split_body: the text of one section cut into overlapping windows.      *)
(*                                                                         *)
(* A body is a sequence of characters told apart as the code tells them    *)
(* apart: a letter, a full stop, a blank, a line end.  Offsets are the     *)
(* program's, so body[from:to] holds the positions from+1 .. to.           *)
(***************************************************************************)
EXTENDS Naturals, Sequences, FiniteSets

CONSTANTS Bodies,     \* what _sections hands over: stripped and not empty
          Sizes,      \* values of max_chars
          Overlaps    \* values of overlap

Char  == {"letter", "stop", "blank", "newline"}
Space == {"blank", "newline"}

Stripped(b) == Len(b) > 0 /\ b[1] \notin Space /\ b[Len(b)] \notin Space

ASSUME BodiesAssumption == Bodies \subseteq {b \in Seq(Char) : Stripped(b)}
ASSUME SizesAssumption  == Sizes \subseteq Nat \ {0} /\ Overlaps \subseteq Nat

VARIABLES
  body, max_chars, overlap,   \* the arguments
  start,                      \* the loop variable
  end,                        \* where the last window ended
  out,                        \* the pieces, each by its offsets
  done                        \* the call has returned

args == <<body, max_chars, overlap>>
svars == <<body, max_chars, overlap, start, end, out, done>>

Least(S)    == CHOOSE x \in S : \A y \in S : x <= y
Greatest(S) == CHOOSE x \in S : \A y \in S : x >= y
Lesser(x, y)  == IF x <= y THEN x ELSE y
Greater(x, y) == IF x >= y THEN x ELSE y

\* A slip: the overlap taken as given.
StepBackUncapped(o, m) == o

\* Half a window at most, so that the next one starts further on.
StepBack(o, m) == Lesser(o, m \div 2)

\* A match of _BOUNDARY ends at offset e of the window that starts at s.
BoundaryAt(b, s, e) ==
  \/ b[s + e] = "newline"
  \/ b[s + e] \in Space /\ e > 1 /\ b[s + e - 1] = "stop"

\* The window is cut short at the first boundary in its last part, if any.
WindowEnd(b, m, o, s) ==
  LET whole == Lesser(s + m, Len(b))
      cuts == {e \in 1..m : e > m - StepBack(o, m) /\ BoundaryAt(b, s, e)} IN
  IF whole < Len(b) /\ cuts # {} THEN s + Least(cuts) ELSE whole

\* A slip: one past where the overlap begins.
NextStartOneOn(m, o, s, e) == Greater(e - StepBack(o, m) + 1, s + 1)

NextStart(m, o, s, e) == Greater(e - StepBack(o, m), s + 1)

\* A slip: the piece kept with the blanks around it.
StripNothing(b, from, to) == << [from |-> from, to |-> to] >>

\* What strip() leaves of body[from:to]; nothing when it is all blank.
Solid(b, from, to) == {i \in from + 1 .. to : b[i] \notin Space}
Strip(b, from, to) ==
  IF Solid(b, from, to) = {} THEN <<>>
  ELSE << [from |-> Least(Solid(b, from, to)) - 1,
           to |-> Greatest(Solid(b, from, to))] >>

SplitInit ==
  /\ body \in Bodies /\ max_chars \in Sizes /\ overlap \in Overlaps
  /\ start = 0 /\ end = 0 /\ out = <<>> /\ done = FALSE

\* A body that fits is returned as it is.
ReturnWhole ==
  /\ ~ done /\ Len(body) <= max_chars
  /\ out' = << [from |-> 0, to |-> Len(body)] >>
  /\ end' = Len(body)
  /\ done' = TRUE
  /\ UNCHANGED <<args, start>>

\* A slip: the loop left before the last window is kept.
CutWindowLeavingEarly ==
  /\ ~ done /\ Len(body) > max_chars
  /\ end' = WindowEnd(body, max_chars, overlap, start)
  /\ out' = IF end' >= Len(body) THEN out ELSE out \o Strip(body, start, end')
  /\ start' = IF end' >= Len(body) THEN start
              ELSE NextStart(max_chars, overlap, start, end')
  /\ done' = (end' >= Len(body) \/ start' >= Len(body))
  /\ UNCHANGED args

\* One turn of the loop, which is left by its break or by its condition.
CutWindow ==
  /\ ~ done /\ Len(body) > max_chars
  /\ end' = WindowEnd(body, max_chars, overlap, start)
  /\ out' = out \o Strip(body, start, end')
  /\ start' = IF end' >= Len(body) THEN start
              ELSE NextStart(max_chars, overlap, start, end')
  /\ done' = (end' >= Len(body) \/ start' >= Len(body))
  /\ UNCHANGED args

SplitNext == ReturnWhole \/ CutWindow

SplitSpec == SplitInit /\ [][SplitNext]_svars

-----------------------------------------------------------------------------
\* The offsets stay inside the text.
SplitTypeOK ==
  /\ body \in Bodies /\ max_chars \in Sizes /\ overlap \in Overlaps
  /\ start \in 0 .. Len(body) - 1
  /\ end \in 0 .. Len(body)
  /\ out \in Seq([from : 0 .. Len(body), to : 0 .. Len(body)])
  /\ done \in BOOLEAN

Inside(i, p) == p.from < i /\ i <= p.to

\* Nothing is lost: every character up to the end of the last window that is
\* not blank is in some piece, and a call that returned has seen them all.
NothingLost ==
  /\ \A i \in 1..end : body[i] \notin Space =>
       \E k \in 1..Len(out) : Inside(i, out[k])
  /\ done => end = Len(body)

\* A piece is not empty, fits, and neither starts nor ends in a blank.
PiecesFit ==
  \A k \in 1..Len(out) :
    /\ out[k].from < out[k].to
    /\ out[k].to - out[k].from <= max_chars
    /\ body[out[k].from + 1] \notin Space /\ body[out[k].to] \notin Space

\* Every window starts after the last one started, ends after the last one
\* ended, and leaves no gap: no window repeats what the last one saw, and with
\* SplitTypeOK bounding `end' the loop terminates.
Advances ==
  [][end < end' /\ (done' \/ (start < start' /\ start' <= end'))]_svars
=============================================================================
