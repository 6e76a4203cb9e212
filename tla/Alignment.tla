----------------------------- MODULE Alignment -----------------------------
(***************************************************************************)
(* The Levenshtein distance, defined without a table: the cheapest way to  *)
(* line two words up.  An alignment pairs letters of one word with letters *)
(* of the other without crossings; a paired letter that differs is         *)
(* replaced, a letter without a partner is deleted or inserted.  This is   *)
(* the reference calculateEditDistance is compared with, and the distance  *)
(* the composed models use.                                                *)
(***************************************************************************)
EXTENDS Integers, Sequences, FiniteSets, FiniteSetsExt

Alignments(w1, w2) ==
  {a \in SUBSET ((DOMAIN w1) \X (DOMAIN w2)) :
     \A x, y \in a : x[1] < y[1] <=> x[2] < y[2]}

Edits(a, w1, w2) ==
  (Len(w1) - Cardinality(a)) + (Len(w2) - Cardinality(a))
    + Cardinality({x \in a : w1[x[1]] # w2[x[2]]})

Levenshtein(w1, w2) == Min({Edits(a, w1, w2) : a \in Alignments(w1, w2)})
=============================================================================
