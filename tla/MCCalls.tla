------------------------------- MODULE MCCalls -------------------------------
(* Four policies over two names, one of them two of the others in one      *)
(* object, and arbitrary numbers where the program draws or hashes, all    *)
(* different modulo the order.                                             *)
EXTENDS Calls

CONSTANTS A, B, Short, Long

MCOne == [M |-> <<<<1>>>>, rho |-> <<A>>]
MCOther == [M |-> <<<<1>>>>, rho |-> <<B>>]
MCEither == [M |-> <<<<1>>, <<1>>>>, rho |-> <<A, B>>]
MCBoth == [M |-> <<<<1, 1>>, <<1, 2>>>>, rho |-> <<A, B>>]
MCPolicies == {MCOne, MCOther, MCEither, MCBoth}

MCAccepts(p, S) ==
  CASE p = MCOne -> A \in S
    [] p = MCOther -> B \in S
    [] p = MCEither -> S # {}
    [] p = MCBoth -> {A, B} \subseteq S

MCInverses ==
  <<1, Invert(2), Invert(3), Invert(4), Invert(5), Invert(6), Invert(7), Invert(8)>>

\* The least-squares solutions: for Both, 1/2 with the first row alone and 1/5
\* with the second.
MCfindVector(p, S) ==
  CASE p = MCOne -> IF A \in S THEN <<1>> ELSE <<>>
    [] p = MCOther -> IF B \in S THEN <<1>> ELSE <<>>
    [] p = MCEither -> IF S = {A, B} THEN <<1, 0>> ELSE <<1>>
    [] p = MCBoth -> IF S = {A, B} THEN <<2, Order - 1>>
                     ELSE IF S = {A} THEN <<MCInverses[2]>> ELSE <<MCInverses[5]>>

MCEk == {[full |-> TRUE, ones |-> {Long}], [full |-> FALSE, ones |-> {Short}]}

MCH(x) == IF x = A THEN 617 ELSE 971
MCHashToZr(h, x) ==
  (37 * MapThenSumSet(LAMBDA bit : bit, h.ones)
     + (IF Long \in x.ones THEN 211 ELSE 0) + (IF Short \in x.ones THEN 449 ELSE 0)
     + 83 * Cardinality(x.ones) + (IF x.full THEN 5 ELSE 3)) % Order
\* The second number is one whose inverse is small, for the sake of Invert.
MCRandom(c, n) ==
  IF n = 2 THEN MCInverses[c + 1] ELSE (1 + 131 * c * c + 59 * n + 17 * c * n * n) % Order
MCMaxCalls == [op \in Op |-> CASE op = "Setup" -> 2 [] op = "KeyGen" -> 2
                               [] op = "Encrypt" -> 2 [] op = "Transform" -> 1
                               [] op = "Change" -> 1]

MCSymmetry == Permutations(KeyTuple) \cup Permutations(Cipher)
=============================================================================
