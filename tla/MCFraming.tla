----------------------------- MODULE MCFraming -----------------------------
(* Sizes in the proportions of the code where an int is half a size_t, and *)
(* so small that the size of two numbers needs two digits.                 *)
EXTENDS Framing

MCText == {"none", "cat", "cot", "car", "d1", "d2"}
MCLength == [t \in MCText |-> IF t \in {"d1", "d2"} THEN 2 ELSE 1]
CatLine == [word |-> "cat", docs |-> <<"d1", "d2">>]
CarLine == [word |-> "car", docs |-> <<"d2">>]
MCAnswerTo == [none |-> <<>>, cat |-> <<CatLine>>, cot |-> <<CarLine, CatLine>>]
=============================================================================
