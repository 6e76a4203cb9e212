----------------------------- MODULE MCEnclave -----------------------------
(* Heaps from one that does not hold the table to one that holds all that  *)
(* four requests need, so that it may end in every call.                   *)
EXTENDS Enclave

MCHeaps == 5..83
MCWord == {"exact", "near", "far"}
MCNear == [exact |-> 2, near |-> 2, far |-> 0]
MCHits == [exact |-> 1, near |-> 2, far |-> 0]
MCCost ==
  [tableCopy |-> 5, matchCopy |-> 1, replyCopy |-> 4, context |-> 3, keyword |-> 2,
   distances |-> 4, matrix |-> 1, index |-> 1, number |-> 1, entry |-> 1]
=============================================================================
