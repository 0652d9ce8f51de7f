----------------------------- MODULE MCKbService -----------------------------
(***************************************************************************)
(* Small instances of the service for TLC.  The .cfg files choose among    *)
(* three uploads: one that is cut into two pieces, one with no text in it, *)
(* and one that extract_text refuses.                                      *)
(***************************************************************************)
EXTENDS KbProperties, TLC

MCPieces == [s \in Sha |-> IF s = "blank" THEN 0 ELSE 2]
MCUnreadable == Sha \cap {"binary"}

\* No action or safety property tells one task or document from another.
Interchangeable == Permutations(Task) \cup Permutations(DocId)
=============================================================================
