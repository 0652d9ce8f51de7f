------------------------------- MODULE KbRows -------------------------------
(***************************************************************************)
(* A row of the documents table, the values the store writes into it, and  *)
(* what a flush of the ORM makes of such a write.                          *)
(*                                                                         *)
(* A store method loads a row in one database round trip and commits its   *)
(* changes in a later one; `seen' below is the row as loaded, `cur' the    *)
(* row as the commit finds it.  They differ when another task committed in *)
(* between: no lock is held over a SELECT.                                 *)
(***************************************************************************)
EXTENDS Naturals

CONSTANTS CollId,   \* collections.id
          Sha       \* documents.sha256: one element per distinct upload

Status == {"pending", "indexed", "failed"}

\* documents.error.  "" is no error; the others are the five texts the code
\* can put there, told apart by who writes them.
Failure == {"extract",      \* ExtractError.safe_message
            "empty",        \* EMPTY_DOCUMENT
            "provider",     \* EmbeddingError.safe_message
            "unexpected",   \* _tenant_reason of any other exception
            "interrupted"}  \* the reason the startup sweep gives
Error == Failure \cup {""}

\* indexed_at is only ever compared with None, so `at' says whether it is set.
Row == [coll : CollId, sha : Sha, status : Status, error : Error,
        count : Nat, at : BOOLEAN]

FreshRow(c, s) == [coll |-> c, sha |-> s, status |-> "pending", error |-> "",
                   count |-> 0, at |-> FALSE]

-----------------------------------------------------------------------------
(* The values the store methods assign to a loaded row.                    *)

ResetRow(r) == [r EXCEPT !.status = "pending", !.error = "", !.count = 0,
                         !.at = FALSE]

IndexedRow(r, n) == [r EXCEPT !.status = "indexed", !.error = "", !.count = n,
                              !.at = TRUE]

FailedRow(r, why) == [r EXCEPT !.status = "failed", !.error = why, !.count = 0,
                               !.at = FALSE]

-----------------------------------------------------------------------------
(* A flush emits UPDATE for the columns whose value differs from the one   *)
(* that was loaded, and for no other: a column set to what it already held *)
(* keeps whatever another transaction has put there since.                 *)

Col(cur, seen, new) == IF new = seen THEN cur ELSE new

Flush(cur, seen, new) ==
  [coll   |-> cur.coll,
   sha    |-> cur.sha,
   status |-> Col(cur.status, seen.status, new.status),
   error  |-> Col(cur.error, seen.error, new.error),
   count  |-> Col(cur.count, seen.count, new.count),
   at     |-> Col(cur.at, seen.at, new.at)]

\* indexed_at gets a fresh timestamp, never equal to the one loaded, so that
\* column is always in the UPDATE of a finished document.
FlushIndexed(cur, seen, n) ==
  [Flush(cur, seen, IndexedRow(seen, n)) EXCEPT !.at = TRUE]
=============================================================================
