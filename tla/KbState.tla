------------------------------- MODULE KbState -------------------------------
(***************************************************************************)
(* The state of the knowledge service over its default backend (SQLite and *)
(* SqlScanIndex): the three tables, and the frame of every task in flight. *)
(*                                                                         *)
(* A task is one request coroutine.  Uploads and reindex requests carry    *)
(* their background indexing run as the tail of the same task, as the      *)
(* framework does.                                                         *)
(***************************************************************************)
EXTENDS KbRows, FiniteSets

CONSTANTS
  Task,         \* coroutines that can be in flight at once
  DocId,        \* documents.id; a uuid, never reused
  CollKey,      \* a (tenant, name) pair, unique among collections
  Pieces,       \* Pieces[s]: how many pieces the chunker cuts upload s into
  Unreadable,   \* the uploads extract_text refuses
  Overlap,      \* FALSE: callers never have two attempts on one document
  MaxFaults,    \* bound on database errors
  MaxCrashes,   \* bound on process deaths
  None, Unborn, Gone

ASSUME PiecesAssumption   == Pieces \in [Sha -> Nat]
ASSUME SwitchAssumption   == Overlap \in BOOLEAN
ASSUME BoundsAssumption   == MaxFaults \in Nat /\ MaxCrashes \in Nat
ASSUME SentinelAssumption ==
  /\ None \notin DocId \cup CollId \cup CollKey \cup Sha \cup Row \cup Failure
  /\ Unborn # Gone
  /\ {Unborn, Gone} \cap (Row \cup CollKey) = {}

VARIABLES
  cols,      \* collections: the key of each id, or Unborn, or Gone
  docs,      \* documents: the row of each id, or Unborn, or Gone
  chunks,    \* chunks: how many rows carry each document_id
  loc,       \* what each task is doing
  up,        \* is the process serving
  faults, crashes

db   == <<cols, docs, chunks>>
vars == <<cols, docs, chunks, loc, up, faults, crashes>>

LiveCol(c) == cols[c] \in CollKey
Live(d)    == docs[d] \notin {Unborn, Gone}

\* The row the unique constraint on (collection_id, sha256) lets exist once.
Holds(d, c, s) == Live(d) /\ docs[d].coll = c /\ docs[d].sha = s

-----------------------------------------------------------------------------
(* A task's frame: where it is, and the locals it holds across an await.   *)

UploadPc   == {"lookup", "insert", "reread", "retry", "dup"}
ReindexPc  == {"pend_read", "pend_write"}
IndexPc    == {"get", "raw", "embed", "owner", "fin_read", "fin_write",
               "drop", "fail_read", "fail_write"}
CleanupPc  == {"drop", "fail_read", "fail_write"}
OtherPc    == {"idle", "c_insert", "c_drop", "del_write"}
Pc         == UploadPc \cup ReindexPc \cup IndexPc \cup OtherPc
AttemptPc  == UploadPc \cup ReindexPc \cup IndexPc
\* Where `doc' is set, and where `seen' is.
DocPc       == (AttemptPc \ {"lookup", "insert", "reread"}) \cup {"del_write"}
WriteBackPc == {"retry", "pend_write", "fin_write", "fail_write"}

Frame == [pc : Pc, key : CollKey \cup {None}, coll : CollId \cup {None},
          sha : Sha \cup {None}, doc : DocId \cup {None},
          seen : Row \cup {None}, why : Failure \cup {None}]

Idle == [pc |-> "idle", key |-> None, coll |-> None, sha |-> None,
         doc |-> None, seen |-> None, why |-> None]

At(t, p)      == up /\ loc[t].pc = p
Become(t, f)  == loc' = [loc EXCEPT ![t] = f]
Finish(t)     == Become(t, Idle)
Goto(t, p)    == Become(t, [loc[t] EXCEPT !.pc = p])
Load(t, p, r) == Become(t, [loc[t] EXCEPT !.pc = p, !.seen = r])
\* Into the indexing run; the row snapshot of the request is not passed on.
Enter(t)      == Become(t, [loc[t] EXCEPT !.pc = "get", !.seen = None])
Fail(t, why)  == Become(t, [loc[t] EXCEPT !.pc = "drop", !.seen = None,
                                          !.why = why])

NoFault == UNCHANGED <<up, faults, crashes>>

\* Ids not used yet, and tasks at one of the places P.
Fresh(S, f) == {x \in S : f[x] = Unborn}
InFlight(P) == {t \in Task : loc[t].pc \in P}

\* With Overlap FALSE a caller waits for its last attempt on these bytes in
\* this collection to end before it makes another.
MayAttempt(c, s) ==
  Overlap \/ ~ \E t \in Task : /\ loc[t].pc \in AttemptPc
                               /\ loc[t].coll = c
                               /\ loc[t].sha = s

\* A row with these bytes is here already: a failed one is retried, any other
\* is what the caller is told about.
Existing(t, d) ==
  /\ Holds(d, loc[t].coll, loc[t].sha)
  /\ Become(t, [loc[t] EXCEPT
       !.pc = IF docs[d].status = "failed" THEN "retry" ELSE "dup",
       !.doc = d, !.seen = docs[d]])

Nowhere(t) == \A d \in DocId : ~ Holds(d, loc[t].coll, loc[t].sha)

\* An exception in index_document's try block is handled there; the empty
\* document is the one failure recorded inside it.
InTry(t) == \/ loc[t].pc \in {"raw", "embed", "owner", "fin_read", "fin_write"}
            \/ loc[t].pc \in CleanupPc /\ loc[t].why = "empty"
=============================================================================
