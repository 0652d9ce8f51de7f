-------------------------------- MODULE KbBody --------------------------------
(***************************************************************************)
(* What bounds an upload: the declared length, the bytes counted as they   *)
(* arrive (MaxBodySize), the bytes of the document itself.                 *)
(*                                                                         *)
(* A document need not be shorter than the body it came in: JSON in UTF-16 *)
(* spends fewer bytes on some texts than the UTF-8 they are stored in.     *)
(***************************************************************************)
EXTENDS Integers

CONSTANTS max_upload_bytes,
          Largest,     \* of a body in the instance
          Growth,      \* what decoding adds to a body's length, or takes off
          Undeclared   \* no Content-Length: chunked transfer

ASSUME LimitAssumption == max_upload_bytes \in Nat /\ Largest \in Nat
ASSUME GrowthAssumption == Growth \subseteq Int /\ Undeclared \notin Nat

VARIABLES
  declared,    \* the Content-Length header
  sent,        \* bytes of the body
  received,    \* MaxBodySize's counter
  held,        \* bytes of the body this process keeps
  data,        \* bytes of the document read from it
  reply        \* "reading", then "413" or "taken"

bvars == <<declared, sent, received, held, data, reply>>

\* One receive() may hand over any part of what is left.
Message == 0 .. (sent - received)

BodyInit ==
  /\ sent \in 1 .. Largest /\ declared \in 0 .. Largest \cup {Undeclared}
  /\ received = 0 /\ held = 0 /\ data = 0
  /\ reply = "headers"

ReadHeaders ==
  /\ reply = "headers"
  /\ reply' = IF declared # Undeclared /\ declared > max_upload_bytes
              THEN "413" ELSE "reading"
  /\ UNCHANGED <<declared, sent, received, held, data>>

\* A slip: the counter holds the last message only.
ReceiveForgetting ==
  /\ reply = "reading" /\ held < sent
  /\ \E n \in Message \ {0} :
       /\ received' = n
       /\ IF received' > max_upload_bytes
            THEN reply' = "413" /\ held' = held
            ELSE reply' = reply /\ held' = held + n
  /\ UNCHANGED <<declared, sent, data>>

\* counted(): the message that crosses the limit is not handed on.
Receive ==
  /\ reply = "reading" /\ received < sent
  /\ \E n \in Message \ {0} :
       /\ received' = received + n
       /\ IF received' > max_upload_bytes
            THEN reply' = "413" /\ held' = held
            ELSE reply' = reply /\ held' = held + n
  /\ UNCHANGED <<declared, sent, data>>

\* A slip: the limit itself is refused.
TakeDataBelow ==
  /\ reply = "reading" /\ received = sent
  /\ \E g \in Growth : sent + g >= 0 /\ data' = sent + g
  /\ reply' = IF data' >= max_upload_bytes THEN "413" ELSE "taken"
  /\ UNCHANGED <<declared, sent, received, held>>

\* The route has the whole body, and looks at the document in it.
TakeData ==
  /\ reply = "reading" /\ received = sent
  /\ \E g \in Growth : sent + g >= 0 /\ data' = sent + g
  /\ reply' = IF data' > max_upload_bytes THEN "413" ELSE "taken"
  /\ UNCHANGED <<declared, sent, received, held>>

BodyNext == ReadHeaders \/ Receive \/ TakeData

BodySpec == BodyInit /\ [][BodyNext]_bvars

-----------------------------------------------------------------------------
BodyTypeOK ==
  /\ declared \in Nat \cup {Undeclared} /\ sent \in Nat
  /\ received \in 0 .. sent /\ held \in Nat /\ data \in Nat
  /\ reply \in {"headers", "reading", "413", "taken"}

\* Whatever a client declares, and however it cuts its body up, the process
\* never keeps more of it than the limit, nor takes a longer document: what
\* limits.py:3-9 says counting upstream of every reader is for.
HeldWithinLimit ==
  held <= max_upload_bytes /\ (reply = "taken" => data <= max_upload_bytes)

\* Only what exceeds the limit, or says it does, is refused.
RefusedForItsSize ==
  reply = "413" =>
    \/ sent > max_upload_bytes \/ data > max_upload_bytes
    \/ declared # Undeclared /\ declared > max_upload_bytes
=============================================================================
