----------------------------- MODULE MCKbPostgres -----------------------------
(***************************************************************************)
(* Small instances of the service over Postgres: every upload is cut into  *)
(* two pieces.                                                             *)
(***************************************************************************)
EXTENDS KbPostgres, TLC

MCPieces == [s \in Sha |-> 2]

Interchangeable ==
  Permutations(Task) \cup Permutations(DocId) \cup Permutations(Sha)
    \cup Permutations(Copy)
=============================================================================
