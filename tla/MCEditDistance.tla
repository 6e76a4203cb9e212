--------------------------- MODULE MCEditDistance ---------------------------
(* All pairs of words of at most three letters over a three-letter alphabet. *)
EXTENDS EditDistance

MaxLen == 3

MCChar == {"a", "b", "c"}
MCWord == UNION {[1..len -> MCChar] : len \in 0..MaxLen}
=============================================================================
