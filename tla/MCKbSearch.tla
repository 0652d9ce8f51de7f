------------------------------ MODULE MCKbSearch ------------------------------
(***************************************************************************)
(* Every scan of up to MaxRows rows, one of them perhaps of norm zero.     *)
(* The score of a row of another width is not a cosine of anything: one    *)
(* value stands for it.                                                    *)
(***************************************************************************)
EXTENDS KbSearch

CONSTANT MaxRows

\* Below zero no floor lets a row in.
MCScores == -1 .. 1

MCRow == {r \in Row : r.wide \/ (r.score = 1 /\ ~ r.zero)}
MCReads == UNION {{f \in [1..n -> MCRow] :
                     \A i, j \in 1..n : f[i].zero /\ f[j].zero => i = j} :
                  n \in 0..MaxRows}
=============================================================================
