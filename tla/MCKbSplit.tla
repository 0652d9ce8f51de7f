------------------------------- MODULE MCKbSplit -------------------------------
(***************************************************************************)
(* Every body of up to six characters over windows of one to four, and     *)
(* overlaps from none to more than a window.                               *)
(***************************************************************************)
EXTENDS KbSplit

CONSTANT MaxLength

MCBodies == {b \in UNION {[1..n -> Char] : n \in 1..MaxLength} : Stripped(b)}
=============================================================================
