------------------------------- MODULE Field -------------------------------
(***************************************************************************)
(* The group Zr of a pairing, whose elements solve and GWABE calculate     *)
(* with.                                                                   *)
(***************************************************************************)
EXTENDS Integers

CONSTANT Order  \* the order of Zr

ASSUME OrderAssumption == Order \in Nat \ {0, 1}

Zr == 0..(Order - 1)

\* element_invert.
Invert(y) == CHOOSE z \in 1..(Order - 1) : (y * z) % Order = 1

\* The sum of the products of the first n numbers of v and x, taken up one by
\* one: a loop over element_mul and element_add.
Product(v, x, n) ==
  LET sum[c \in 0..n] == IF c = 0 THEN 0 ELSE (sum[c - 1] + v[c] * x[c]) % Order
  IN  sum[n]
=============================================================================
