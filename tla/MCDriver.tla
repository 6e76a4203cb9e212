------------------------------ MODULE MCDriver ------------------------------
(* Both programs on the texts of all small policies, with a group order     *)
(* that divides no determinant of their systems, and numbers for what is    *)
(* drawn or hashed under which no two different elements happen to agree.   *)
EXTENDS Driver, PolicyTrees

CONSTANT Bit

MCEk == {[full |-> TRUE, ones |-> {Bit}]}

MCH(x) == CASE x = A -> 617 [] x = B -> 971 [] x = C -> 353 [] x = D -> 1201 [] OTHER -> 89
MCHashToZr(h, x) ==
  (37 * MapThenSumSet(LAMBDA bit : bit, h.ones) + 83 * Cardinality(x.ones) + 211) % Order
\* The second number is one whose inverse is small.
MCHalf == (Order + 1) \div 2
MCRandom(c, n) ==
  IF n = 2 THEN <<MCHalf, (MCHalf * MCHalf) % Order>>[1 + (c % 2)]
  ELSE (1 + 131 * c * c + 59 * n + 17 * c * n * n) % Order
=============================================================================
