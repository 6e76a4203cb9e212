------------------------------- MODULE MCSSE -------------------------------
(* A small index, and words that match it exactly, nearly or not at all.   *)
EXTENDS SSE, Alignment

\* car is as far from cat as from cart, cot is near all three keywords and sip
\* is near none.
Spelling ==
  [cat |-> <<"c", "a", "t">>, cart |-> <<"c", "a", "r", "t">>, dog |-> <<"d", "o", "g">>,
   car |-> <<"c", "a", "r">>, cot |-> <<"c", "o", "t">>, sip |-> <<"s", "i", "p">>]

MCKeyword == {"cat", "cart", "dog"}
MCWord == DOMAIN Spelling
MCDocId == {"00000001", "00000002", "123456789"}
MCDocs ==
  [cat |-> <<"00000001", "00000002">>, cart |-> <<"00000002">>, dog |-> <<"00000001">>]

\* The distances as a table, so that they are not computed at every step.
Far == {{"cat", "dog"}, {"cat", "sip"}, {"dog", "sip"}, {"dog", "car"}, {"car", "sip"},
        {"cot", "sip"}, {"cart", "dog"}, {"cart", "sip"}}
AtTwo == {{"cart", "cot"}, {"car", "cot"}, {"dog", "cot"}}
MCDist ==
  [pair \in MCWord \X MCWord |->
     LET both == {pair[1], pair[2]}
     IN  CASE pair[1] = pair[2] -> 0
           [] both \in Far -> IF "cart" \in both THEN 4 ELSE 3
           [] both \in AtTwo -> 2
           [] OTHER -> 1]

ASSUME MCDistIsLevenshtein ==
  \A v, w \in MCWord : MCDist[<<v, w>>] = Levenshtein(Spelling[v], Spelling[w])

\* Smaller ones for the run with two clients and faults: cat is matched exactly,
\* cot nearly, sip not at all.
OneKeyword == {"cat"}
OneList == [cat |-> <<"00000001", "00000002">>]
ThreeWords == {"cat", "cot", "sip"}
ThreeDist == [pair \in ThreeWords \X ThreeWords |-> MCDist[pair]]

\* An index file with a document number of nine digits.
MCWideDocs ==
  [cat |-> <<"00000001", "123456789">>, cart |-> <<"00000002">>, dog |-> <<"00000001">>]
MCWide == {"123456789"}
=============================================================================
