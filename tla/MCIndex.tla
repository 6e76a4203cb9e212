------------------------------ MODULE MCIndex ------------------------------
(* All files of up to MaxLines lines, well-formed or not, and all files the *)
(* scripts write after three draws.                                         *)
EXTENDS Dataset

CONSTANT MaxLines

\* Files by hand mention the numbers from 1 only.
MCLine == {l \in Line : l.kind = "number" => l.text # 0}
MCFiles == UNION {[1..len -> MCLine] : len \in 0..MaxLines}
=============================================================================
