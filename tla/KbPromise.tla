------------------------------ MODULE KbPromise ------------------------------
(***************************************************************************)
(* What the service promises about a document, with no tasks, sessions or  *)
(* transactions in it: a document is queued, then indexed or failed, may   *)
(* be queued again from either, and is searchable exactly while it is      *)
(* indexed and then as a whole.                                            *)
(***************************************************************************)
EXTENDS Naturals

CONSTANTS Doc, Size   \* documents; the numbers of pieces an upload can have

VARIABLES
  life,      \* where each document is in its life
  content,   \* how many pieces its bytes make, once it was accepted
  shown      \* how many of them a search can return

pvars == <<life, content, shown>>

Life == {"none", "pending", "indexed", "failed", "gone"}

PInit == /\ life = [d \in Doc |-> "none"]
         /\ content = [d \in Doc |-> 0]
         /\ shown = [d \in Doc |-> 0]

\* An upload is answered 202.
Accept(d) == /\ life[d] = "none"
             /\ life' = [life EXCEPT ![d] = "pending"]
             /\ \E n \in Size : content' = [content EXCEPT ![d] = n]
             /\ UNCHANGED shown

\* A reindex, or an upload of the bytes of a failed document.
Requeue(d) == /\ life[d] \in {"indexed", "failed"}
              /\ life' = [life EXCEPT ![d] = "pending"]
              /\ shown' = [shown EXCEPT ![d] = 0]
              /\ UNCHANGED content

\* Every piece becomes searchable in the step that says so.
Complete(d) == /\ life[d] = "pending"
               /\ content[d] > 0
               /\ life' = [life EXCEPT ![d] = "indexed"]
               /\ shown' = [shown EXCEPT ![d] = content[d]]
               /\ UNCHANGED content

GiveUp(d) == /\ life[d] = "pending"
             /\ life' = [life EXCEPT ![d] = "failed"]
             /\ UNCHANGED <<content, shown>>

\* A document, or every document of a collection, is deleted.
Remove(D) ==
  /\ \A d \in D : life[d] \in {"pending", "indexed", "failed"}
  /\ life' = [d \in Doc |-> IF d \in D THEN "gone" ELSE life[d]]
  /\ content' = [d \in Doc |-> IF d \in D THEN 0 ELSE content[d]]
  /\ shown' = [d \in Doc |-> IF d \in D THEN 0 ELSE shown[d]]

\* A new process fails whatever the last one was still working on.
Restart ==
  /\ life' = [d \in Doc |-> IF life[d] = "pending" THEN "failed" ELSE life[d]]
  /\ UNCHANGED <<content, shown>>

PNext == \/ \E d \in Doc : Accept(d) \/ Requeue(d) \/ Complete(d) \/ GiveUp(d)
         \/ \E D \in SUBSET Doc : Remove(D)
         \/ Restart

PSpec == PInit /\ [][PNext]_pvars

-----------------------------------------------------------------------------
\* A search shows a document whole while it is indexed, and otherwise nothing
\* of it.
ShownIffIndexed ==
  \A d \in Doc : shown[d] = IF life[d] = "indexed" THEN content[d] ELSE 0
=============================================================================
