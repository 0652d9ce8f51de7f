---------------------------- MODULE MCKbMigration ----------------------------
(***************************************************************************)
(* Documents are interchangeable.                                          *)
(***************************************************************************)
EXTENDS KbMigration, TLC

Interchangeable == Permutations(Doc)
=============================================================================
