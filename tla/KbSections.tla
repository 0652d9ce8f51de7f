------------------------------ MODULE KbSections ------------------------------
(***************************************************************************)
(* _sections: a text cut into (heading path, body) pairs, in document      *)
(* order.                                                                  *)
(*                                                                         *)
(* A line is what the code tells apart: a heading of some level, a line of *)
(* text, a blank one.  A title is named by the line it stands on, and a    *)
(* body by its first and last line after strip().                          *)
(***************************************************************************)
EXTENDS Naturals, Sequences

CONSTANTS Levels,   \* the levels a heading can have: 1..6
          Texts     \* what splitlines() returns: sequences of lines

Line == [kind : {"heading"}, level : Levels] \cup [kind : {"text", "blank"}]

ASSUME LevelsAssumption == Levels \subseteq Nat \ {0}
ASSUME TextsAssumption == Texts \subseteq Seq(Line)

VARIABLES
  text,     \* the argument
  pos,      \* lines read so far
  stack,    \* the open headings, outermost first
  body,     \* the lines of the section being read
  out,      \* the sections emitted
  ended     \* the call has returned

cvars == <<text, pos, stack, body, out, ended>>

IsText(i)    == text[i].kind = "text"
IsHeading(i) == text[i].kind = "heading"

Entry   == [level : Levels, line : 1 .. Len(text)]
Section == [path : Seq(1 .. Len(text)), from : 1 .. Len(text), to : 1 .. Len(text)]

First(b) == CHOOSE i \in b : \A j \in b : i <= j
Last(b)  == CHOOSE i \in b : \A j \in b : i >= j

\* The titles on the stack, outermost first.
Path(st) == [k \in 1 .. Len(st) |-> st[k].line]

\* flush(): the body read so far becomes a section unless strip() leaves
\* nothing of it.
Flush(st, b) ==
  LET solid == {i \in b : IsText(i)} IN
  IF solid = {} THEN <<>>
  ELSE << [path |-> Path(st), from |-> First(solid), to |-> Last(solid)] >>

\* A slip: only a deeper heading is taken off the stack.
CloseDeeper(st, level) ==
  LET stays == {k \in 0 .. Len(st) : k = 0 \/ st[k].level <= level} IN
  SubSeq(st, 1, Last(stays))

\* Headings are popped off the top while they are as deep as the new one.
Close(st, level) ==
  LET stays == {k \in 0 .. Len(st) : k = 0 \/ st[k].level < level} IN
  SubSeq(st, 1, Last(stays))

SectionsInit ==
  /\ text \in Texts
  /\ pos = 0 /\ stack = <<>> /\ body = {} /\ out = <<>> /\ ended = FALSE

\* A slip: the body of the last section goes under the heading that ends it.
ReadHeadingFirst ==
  /\ pos < Len(text) /\ IsHeading(pos + 1)
  /\ LET level == text[pos + 1].level IN
     stack' = Append(Close(stack, level), [level |-> level, line |-> pos + 1])
  /\ out' = out \o Flush(stack', body)
  /\ body' = {} /\ pos' = pos + 1
  /\ UNCHANGED <<text, ended>>

ReadHeading ==
  /\ pos < Len(text) /\ IsHeading(pos + 1)
  /\ out' = out \o Flush(stack, body)
  /\ LET level == text[pos + 1].level IN
     stack' = Append(Close(stack, level), [level |-> level, line |-> pos + 1])
  /\ body' = {} /\ pos' = pos + 1
  /\ UNCHANGED <<text, ended>>

ReadLine ==
  /\ pos < Len(text) /\ ~ IsHeading(pos + 1)
  /\ body' = body \cup {pos + 1} /\ pos' = pos + 1
  /\ UNCHANGED <<text, stack, out, ended>>

\* A slip: the last section is not flushed.
ReturnSectionsAsTheyAre ==
  /\ pos = Len(text) /\ ~ ended
  /\ ended' = TRUE /\ body' = {}
  /\ UNCHANGED <<text, pos, stack, out>>

ReturnSections ==
  /\ pos = Len(text) /\ ~ ended
  /\ out' = out \o Flush(stack, body)
  /\ ended' = TRUE /\ body' = {}
  /\ UNCHANGED <<text, pos, stack>>

SectionsNext == ReadHeading \/ ReadLine \/ ReturnSections

SectionsSpec == SectionsInit /\ [][SectionsNext]_cvars

-----------------------------------------------------------------------------
\* The positions lie in the text, and the stack is never deeper than the level
\* of its top: no document makes a path of more than six titles.
SectionsTypeOK ==
  /\ text \in Seq(Line)
  /\ pos \in 0 .. Len(text)
  /\ stack \in Seq(Entry)
  /\ \A k \in 1 .. Len(stack) : k <= stack[k].level
  /\ body \subseteq 1 .. pos
  /\ out \in Seq(Section)
  /\ ended \in BOOLEAN

\* The headings a reader sees line i under: those before it that no later
\* heading before it closes by being as high or higher.
Enclosing(i) ==
  {h \in 1 .. i - 1 : IsHeading(h) /\
     \A j \in h + 1 .. i - 1 : IsHeading(j) => text[j].level > text[h].level}

Ascending(p) == \A k \in 1 .. Len(p) - 1 : p[k] < p[k + 1]

\* A section's heading path names exactly the headings that enclose its text,
\* outermost first, whatever level the document opens at and whichever levels
\* it skips: what the docstring at chunker.py:29-32 promises of the stack.
PathsEnclose ==
  \A k \in 1 .. Len(out) :
    /\ {out[k].path[n] : n \in 1 .. Len(out[k].path)} = Enclosing(out[k].from)
    /\ Ascending(out[k].path)

\* Every line of text read is in exactly one section, or still in the body, no
\* heading splits a section, and sections keep the order of the document.
TextKeptOnce ==
  /\ \A i \in 1 .. pos : IsText(i) /\ i \notin body =>
       \E k \in 1 .. Len(out) : out[k].from <= i /\ i <= out[k].to
  /\ \A k \in 1 .. Len(out) :
       /\ IsText(out[k].from) /\ IsText(out[k].to)
       /\ \A i \in out[k].from .. out[k].to : ~ IsHeading(i) /\ i \notin body
       /\ k > 1 => out[k - 1].to < out[k].from
  /\ ended => pos = Len(text) /\ body = {}
=============================================================================
