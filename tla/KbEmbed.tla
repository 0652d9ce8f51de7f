-------------------------------- MODULE KbEmbed --------------------------------
(***************************************************************************)
(* The embedding client's call: the texts sent in batches, one after the   *)
(* other, and the vectors of the replies strung together.                  *)
(*                                                                         *)
(* A vector is named by the text it embeds, 0 for one that embeds none of  *)
(* them.  The provider may fail any request and may answer one with too    *)
(* few vectors or too many; those it gives are in the order of the texts,  *)
(* which the client takes for granted.                                     *)
(***************************************************************************)
EXTENDS Naturals, Sequences

CONSTANT BatchSizes     \* values of batch_size

ASSUME BatchesAssumption == BatchSizes \subseteq Nat \ {0}

VARIABLES
  texts,        \* how many texts there are
  batch_size,
  start,        \* texts sent so far
  vectors,      \* the vectors of the replies so far
  outcome       \* "asking", then "vectors" or "failed"

evars == <<texts, batch_size, start, vectors, outcome>>

Fewer(x, y) == IF x <= y THEN x ELSE y

\* The texts of the next request: those after start, up to BatchEnd.
BatchEnd == Fewer(start + batch_size, texts)

\* The replies to a request: the vectors of its first n texts, or all of them
\* and one that nobody asked for.
Replies ==
  {[k \in 1 .. n |-> IF start + k <= BatchEnd THEN start + k ELSE 0] :
     n \in 0 .. BatchEnd - start + 1}

EmbedInit ==
  /\ texts \in Nat /\ batch_size \in BatchSizes
  /\ start = 0 /\ vectors = <<>> /\ outcome = "asking"

\* A slip: the length of a reply is not looked at.
AskBatchUnchecked ==
  /\ outcome = "asking" /\ start < texts
  /\ \E data \in Replies :
       /\ vectors' = vectors \o data
       /\ start' = BatchEnd
       /\ outcome' = outcome
  /\ UNCHANGED <<texts, batch_size>>

AskBatch ==
  /\ outcome = "asking" /\ start < texts
  /\ \E data \in Replies :
       IF Len(data) # BatchEnd - start
         THEN outcome' = "failed" /\ UNCHANGED <<start, vectors>>
         ELSE /\ vectors' = vectors \o data
              /\ start' = BatchEnd
              /\ outcome' = outcome
  /\ UNCHANGED <<texts, batch_size>>

\* No answer in time, an error status, or a body that is not JSON or not of the
\* shape that is read.
BatchFails ==
  /\ outcome = "asking" /\ start < texts
  /\ outcome' = "failed"
  /\ UNCHANGED <<texts, batch_size, start, vectors>>

ReturnVectors ==
  /\ outcome = "asking" /\ start >= texts
  /\ outcome' = "vectors"
  /\ UNCHANGED <<texts, batch_size, start, vectors>>

EmbedNext == AskBatch \/ BatchFails \/ ReturnVectors

EmbedSpec == EmbedInit /\ [][EmbedNext]_evars

-----------------------------------------------------------------------------
EmbedTypeOK ==
  /\ texts \in Nat /\ batch_size \in Nat \ {0}
  /\ start \in 0 .. texts /\ vectors \in Seq(Nat)
  /\ outcome \in {"asking", "vectors", "failed"}

\* The vectors so far are those of the texts sent so far, in their order, and
\* the call returns all of them or none: no reply shifts another's vectors,
\* which embedding.py:59-61 fears of a short one.
VectorsInOrder ==
  /\ vectors = [k \in 1 .. start |-> k]
  /\ outcome = "vectors" => start = texts
=============================================================================
