------------------------------ MODULE MCSolve ------------------------------
(* All systems of at most MaxHeight equations over a small field, singular *)
(* and contradictory ones among them.                                      *)
EXTENDS Solutions

CONSTANT MaxHeight

MCSystems == UNION {[1..n -> [1..(n + 1) -> Zr]] : n \in 1..MaxHeight}
=============================================================================
