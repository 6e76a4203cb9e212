------------------------------- MODULE Access -------------------------------
(***************************************************************************)
(* LSSS::isSatisfy and LSSS::findVector: after initialize has made the     *)
(* share matrix, the rows of a set of attributes give a system of linear   *)
(* equations, solve answers it, and the answer is tried.                   *)
(***************************************************************************)
EXTENDS Integers, Sequences, SequencesExt

CONSTANTS Attribute, Policies, Accepts(_, _), Order

VARIABLES policy, M, rho, stk, counter, top, d, at, ct, substr, substrvec, pc
VARIABLES matrix, col, row, k, phase
VARIABLES
  attributes_set,  \* the names in the argument of isSatisfy and findVector
  ret              \* "none" so far, or what isSatisfy returned

lsssVars == <<policy, M, rho, stk, counter, top, d, at, ct, substr, substrvec, pc>>
solveVars == <<matrix, col, row, k, phase>>
accessVars == <<lsssVars, solveVars, attributes_set, ret>>

Parser == INSTANCE LSSS
Gauss == INSTANCE Solve

\* Fetchrows: the rows of the names asked about, in ascending order.
I == SelectSeq([r \in DOMAIN rho |-> r], LAMBDA r : rho[r][1] \in attributes_set)

\* Mutant: the sum starts at the second column.
ProductShort(x, y) == MapThenSumSet(LAMBDA c : M[x][c] * M[y][c], DOMAIN M[1] \ {1})

\* The product of the chosen rows with their transpose, and with (1, 0, ..., 0).
Product(x, y) == MapThenSumSet(LAMBDA c : M[x][c] * M[y][c], DOMAIN M[1])

System(rows) ==
  [x \in DOMAIN rows |->
     [y \in 1..(Len(rows) + 1) |->
        (IF y <= Len(rows) THEN Product(rows[x], rows[y]) ELSE M[rows[x]][1]) % Order]]

AccessInit ==
  /\ Parser!Init
  /\ Gauss!Init
  /\ attributes_set \in (SUBSET Attribute) \ {{}}
  /\ ret = "none"

\* A new LSSS object for the same policy; solve is called anew as well.
Renew ==
  /\ M' = <<>> /\ rho' = <<>>
  /\ stk' = <<Parser!Pair(<<1>>, policy)>>
  /\ counter' = 1
  /\ top' = Parser!Pair(<<>>, <<>>)
  /\ d' = 0
  /\ at' = 1 /\ ct' = 0 /\ substr' = <<>> /\ substrvec' = <<>>
  /\ pc' = "loop"
  /\ matrix' = <<>> /\ col' = 1 /\ row' = 1 /\ k' = 1 /\ phase' = "idle"
  /\ UNCHANGED <<policy, attributes_set, ret>>

Initialize == Parser!Step /\ UNCHANGED <<solveVars, attributes_set, ret>>

\* No row at all.
AskNone ==
  /\ pc = "done" /\ ret = "none" /\ phase = "idle"
  /\ I = <<>>
  /\ ret' = "no"
  /\ UNCHANGED <<lsssVars, solveVars, attributes_set>>

Ask ==
  /\ pc = "done" /\ ret = "none"
  /\ I # <<>>
  /\ Gauss!Start(System(I))
  /\ UNCHANGED <<lsssVars, attributes_set, ret>>

SolveStep == Gauss!Step /\ UNCHANGED <<lsssVars, attributes_set, ret>>

\* The answer solves every equation of the rows.
Recovers ==
  \A c \in DOMAIN M[1] :
    MapThenSumSet(LAMBDA x : Gauss!res[x] * M[I[x]][c], DOMAIN I) % Order =
      (IF c = 1 THEN 1 ELSE 0)

Test ==
  /\ phase = "solved" /\ ret = "none"
  /\ ret' = IF Recovers THEN "yes" ELSE "no"
  /\ UNCHANGED <<lsssVars, solveVars, attributes_set>>

Step == Initialize \/ AskNone \/ Ask \/ SolveStep \/ Test

-----------------------------------------------------------------------------
(* Properties.                                                             *)

\* isSatisfy says yes exactly to the sets the policy admits: the least-squares
\* system it solves has an exact solution for these and for no others, and the
\* elimination finds it although columns without a pivot are passed over.
IsSatisfyIsPolicy ==
  ret # "none" => (ret = "yes") = Accepts(policy, attributes_set)

\* solve passes over a column without a pivot and its row with it (utilities.cpp
\* :91-94).  That is right only because such a row is zero by then, on the right
\* side too: no equation is lost.
FreeRowsVanish ==
  phase \in {"column", "solved"} =>
    \A c \in 1..(col - 1) : matrix[c][c] = 0 => \A y \in DOMAIN matrix[c] : matrix[c][y] = 0
=============================================================================
