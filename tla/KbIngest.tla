------------------------------- MODULE KbIngest -------------------------------
(***************************************************************************)
(* One document from the bytes of its request to its rows: the body is     *)
(* received (KbBody), its text cut into sections (KbSections) and each of  *)
(* those into windows (KbSplit), the pieces are embedded in batches        *)
(* (KbEmbed), and the rows are written.  The transactions in between, and  *)
(* what other requests do meanwhile, are KbService's.                      *)
(*                                                                         *)
(* The length of a document is its number of lines.  A line of text is one *)
(* letter of a body, a blank one is empty.                                 *)
(***************************************************************************)
EXTENDS KbSections, KbBody, KbEmbed, FiniteSets

CONSTANTS Sizes, Overlaps   \* KbSplit's

ASSUME WindowAssumption == Sizes \subseteq Nat \ {0} /\ Overlaps \subseteq Nat

VARIABLES
  section,                                              \* the one being split
  s_body, max_chars, overlap, s_start, s_end, s_out, s_done,
  pieces,                                               \* chunk_markdown's
  status, rows, error                                   \* what is stored

\* What _sections hands over: stripped, and not empty.
SectionBodies ==
  {b \in Seq({"letter", "newline"}) :
     Len(b) > 0 /\ b[1] = "letter" /\ b[Len(b)] = "letter"}

Split == INSTANCE KbSplit WITH
  Bodies <- SectionBodies, body <- s_body,
  start <- s_start, end <- s_end, out <- s_out, done <- s_done

split == <<s_body, max_chars, overlap, s_start, s_end, s_out, s_done>>
stored == <<status, rows, error>>
ivars == <<cvars, bvars, section, split, pieces, evars, stored>>

IngestInit ==
  /\ BodyInit
  /\ text = <<>> /\ pos = 0 /\ stack = <<>> /\ body = {} /\ out = <<>> /\ ended = FALSE
  /\ section = 0 /\ s_body = <<>> /\ max_chars = 0 /\ overlap = 0
  /\ s_start = 0 /\ s_end = 0 /\ s_out = <<>> /\ s_done = TRUE
  /\ pieces = <<>>
  /\ texts = 0 /\ batch_size = 0 /\ start = 0 /\ vectors = <<>> /\ outcome = "asking"
  /\ status = "none" /\ rows = {} /\ error = "none"

ReceiveBody ==
  /\ BodyNext
  /\ UNCHANGED <<cvars, section, split, pieces, evars, stored>>

\* What is raised ends in the handler: the chunks dropped, the reason on the row.
FailWith(reason) == status' = "failed" /\ rows' = {} /\ error' = reason

\* The background task starts on the document's bytes: they are not there to be
\* read, they are of a type or in an encoding that is not supported, or they are
\* a text.  The request they came with is over.
ReadDocument ==
  /\ reply = "taken" /\ status = "none"
  /\ \/ \E reason \in {"unexpected", "extract"} : FailWith(reason) /\ UNCHANGED text
     \/ /\ text' \in {t \in Texts : Len(t) = data}
        /\ status' = "pending" /\ UNCHANGED <<rows, error>>
  /\ max_chars' \in Sizes /\ overlap' \in Overlaps /\ batch_size' \in BatchSizes
  /\ declared' = Undeclared /\ sent' = 0 /\ received' = 0 /\ held' = 0 /\ data' = 0
  /\ UNCHANGED <<pos, stack, body, out, ended, reply, section, s_body, s_start,
                 s_end, s_out, s_done, pieces, texts, start, vectors, outcome>>

CutSections ==
  /\ status = "pending" /\ SectionsNext
  /\ UNCHANGED <<bvars, section, split, pieces, evars, stored>>

-----------------------------------------------------------------------------
\* Where line i ends in the body of section s: a letter for each line of text,
\* and a line end between two lines.
Offset(s, i) == (i - s.from) + Cardinality({j \in s.from .. i : IsText(j)})

LinesOf(s) == {i \in s.from .. s.to : IsText(i)}

\* "\n".join(body).strip()
Chars(s) ==
  [p \in 1 .. Offset(s, s.to) |->
     IF \E i \in LinesOf(s) : Offset(s, i) = p THEN "letter" ELSE "newline"]

\* A ChunkPiece: its heading, the lines of text in it, its ordinal.
Piece(s, window, ordinal) ==
  [path |-> s.path, ordinal |-> ordinal,
   lines |-> {i \in LinesOf(s) : Split!Inside(Offset(s, i), window)}]

\* A slip: the ordinals start at zero in every section.
PiecesNumberedAfresh(n) ==
  IF n = 0 THEN <<>>
  ELSE [k \in 1 .. Len(s_out) |-> Piece(out[n], s_out[k], k - 1)]

\* What the section just split adds to the pieces.
PiecesOf(n) ==
  IF n = 0 THEN <<>>
  ELSE [k \in 1 .. Len(s_out) |-> Piece(out[n], s_out[k], Len(pieces) + k - 1)]

Chunked == ended /\ section > Len(out)

\* A slip: the pieces of the last section replace those before it.
NextSectionAfresh ==
  /\ status = "pending" /\ ended /\ s_done /\ ~ Chunked
  /\ pieces' = IF section = 0 THEN pieces ELSE PiecesOf(section)
  /\ section' = section + 1
  /\ s_start' = 0 /\ s_end' = 0 /\ s_out' = <<>>
  /\ s_done' = (section' > Len(out))
  /\ s_body' = IF s_done' THEN <<>> ELSE Chars(out[section'])
  /\ texts' = IF section' > Len(out) THEN Len(pieces') ELSE 0
  /\ UNCHANGED <<cvars, bvars, max_chars, overlap, batch_size, start, vectors,
                 outcome, stored>>

\* chunk_markdown's loop: the pieces of a section are appended, and the next
\* section is split.
NextSection ==
  /\ status = "pending" /\ ended /\ s_done /\ ~ Chunked
  /\ pieces' = pieces \o PiecesOf(section)
  /\ section' = section + 1
  /\ s_start' = 0 /\ s_end' = 0 /\ s_out' = <<>>
  /\ s_done' = (section' > Len(out))
  /\ s_body' = IF s_done' THEN <<>> ELSE Chars(out[section'])
  /\ texts' = IF section' > Len(out) THEN Len(pieces') ELSE 0
  /\ UNCHANGED <<cvars, bvars, max_chars, overlap, batch_size, start, vectors,
                 outcome, stored>>

SplitSection ==
  /\ Split!SplitNext
  /\ UNCHANGED <<cvars, bvars, section, pieces, evars, stored>>

\* Nothing to index, or the database failed to say so and the handler does.
FailEmpty ==
  /\ status = "pending" /\ Chunked /\ pieces = <<>>
  /\ \E reason \in {"empty", "unexpected"} : FailWith(reason)
  /\ UNCHANGED <<cvars, bvars, section, split, pieces, evars>>

EmbedPieces ==
  /\ status = "pending" /\ Chunked /\ pieces # <<>>
  /\ UNCHANGED <<cvars, bvars, section, split, pieces, stored>>
  /\ EmbedNext

\* What replace() inserts.
Replaced ==
  {[piece |-> pieces[k], vector |-> vectors[k]] : k \in 1 .. Len(pieces)}

\* The rows of a document, in one transaction; a second look at the lengths comes
\* before it.  The database may fail, or refuse a vector of another width.
StoreRows ==
  /\ status = "pending" /\ outcome = "vectors"
  /\ IF Len(vectors) = Len(pieces)
       THEN \/ rows' = Replaced /\ status' = "indexed" /\ UNCHANGED error
            \/ FailWith("unexpected")
       ELSE FailWith("provider")
  /\ UNCHANGED <<cvars, bvars, section, split, pieces, evars>>

\* EmbeddingError, or what a reply of another shape raises.
RecordFailure ==
  /\ status = "pending" /\ outcome = "failed"
  /\ \E reason \in {"provider", "unexpected"} : FailWith(reason)
  /\ UNCHANGED <<cvars, bvars, section, split, pieces, evars>>

IngestNext ==
  \/ ReceiveBody \/ ReadDocument \/ CutSections \/ NextSection \/ SplitSection
  \/ FailEmpty \/ EmbedPieces \/ StoreRows \/ RecordFailure

IngestSpec == IngestInit /\ [][IngestNext]_ivars

-----------------------------------------------------------------------------
Titles(path) == {path[n] : n \in 1 .. Len(path)}

\* From the upload to the table: every line of text of an indexed document is in
\* a row, and a row holds nothing but lines that a reader finds under the very
\* headings it names.  An indexed document has a row: "`indexed` with zero chunks
\* reads as success and answers nothing", indexer.py:59.
EveryLineSearchable ==
  status = "indexed" =>
    /\ rows # {}
    /\ \A i \in 1 .. Len(text) : IsText(i) => \E r \in rows : i \in r.piece.lines
    /\ \A r \in rows : r.piece.lines # {} /\
         \A i \in r.piece.lines : Enclosing(i) = Titles(r.piece.path)

\* A row's vector embeds the row's own text, whatever the provider answered to
\* which batch, and the ordinals of a document's rows run from zero without a
\* gap, across its sections: index.py:127 puts a document back together by them.
RowsMatchTheirVectors ==
  /\ \A r \in rows : r.vector = r.piece.ordinal + 1
  /\ {r.piece.ordinal : r \in rows} = 0 .. Cardinality(rows) - 1

\* A document's owner is told of a failure what did happen (test_audit_fixes.py
\* pins two of the reasons): that there was nothing to index only where no line is
\* text, and that the provider failed only where it did.  One without text costs
\* the provider nothing.
ReasonIsTrue ==
  LET Textless == \A i \in 1 .. Len(text) : ~ IsText(i) IN
    /\ error = "empty" => Textless
    /\ error = "provider" => outcome = "failed"
    /\ outcome # "asking" => ~ Textless
=============================================================================
