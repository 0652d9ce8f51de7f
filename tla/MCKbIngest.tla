------------------------------ MODULE MCKbIngest ------------------------------
(***************************************************************************)
(* Every text of up to MaxLines lines, and bodies of one byte more; what   *)
(* decoding can do to a length.                                            *)
(***************************************************************************)
EXTENDS KbIngest

CONSTANT MaxLines

MCTexts == UNION {[1..n -> Line] : n \in 0..MaxLines}
MCGrowth == -1 .. 1
=============================================================================
