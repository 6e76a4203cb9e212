------------------------------- MODULE Solve -------------------------------
(***************************************************************************)
(* solve of CP-ABE/other/utilities.cpp: Gauss-Jordan elimination over the  *)
(* group Zr, cell by cell, of a system given as a matrix whose last column *)
(* is the right side.  Columns and rows count from 1.                      *)
(***************************************************************************)
EXTENDS Field, Sequences

\* Every element but zero has an inverse.
ASSUME FieldAssumption ==
  \A y \in 1..(Order - 1) : \E z \in 1..(Order - 1) : (y * z) % Order = 1

VARIABLES
  matrix,  \* the system
  col,     \* the column being cleared, j in the code
  row,     \* the row being reduced, i in the last loop of the code
  k,       \* the cell of a row the inner loops have reached
  phase    \* "idle" before the call, the loop that runs, "solved" after it

vars == <<matrix, col, row, k, phase>>

Height == Len(matrix)
Width == Height + 1   \* as many unknowns as equations, and the right side

\* element_div.
Divide(x, y) == (x * Invert(y)) % Order

Systems ==
  UNION {[1..n -> [1..(n + 1) -> Zr]] : n \in Nat \ {0}}

Init ==
  /\ matrix = <<>>
  /\ col = 1 /\ row = 1 /\ k = 1
  /\ phase = "idle"

\* The call, with the argument copied.
Start(system) ==
  /\ phase = "idle"
  /\ matrix' = system
  /\ phase' = "column"
  /\ UNCHANGED <<col, row, k>>

NonZero == {r \in col..Height : matrix[r][col] # 0}

\* Mutant: the loop goes on with the same column.
SkipColumnStays ==
  /\ phase = "column" /\ col <= Height
  /\ NonZero = {}
  /\ UNCHANGED vars

\* Mutant: the loop does not end at the last column.
SkipColumnPast ==
  /\ phase = "column"
  /\ NonZero = {}
  /\ col' = col + 1
  /\ UNCHANGED <<matrix, row, k, phase>>

\* No row is left with an entry in this column.
SkipColumn ==
  /\ phase = "column" /\ col <= Height
  /\ NonZero = {}
  /\ col' = col + 1
  /\ UNCHANGED <<matrix, row, k, phase>>

\* The first row with an entry in this column is exchanged with row col.
Pivot ==
  /\ phase = "column" /\ col <= Height
  /\ \E r \in NonZero :
       /\ \A q \in NonZero : r <= q
       /\ matrix' = [matrix EXCEPT ![r] = matrix[col], ![col] = matrix[r]]
  /\ k' = Width
  /\ phase' = "normalise"
  /\ UNCHANGED <<col, row>>

\* The cell the inner loops work on; mutant: they run upwards.
cellUpwards == col + Width - k
cell == k

\* Where these loops end; mutant: a cell too early.
endsEarly == col + 1
lastCell == col

Normalise ==
  /\ phase = "normalise" /\ k >= lastCell
  /\ matrix' = [matrix EXCEPT ![col][cell] = Divide(matrix[col][cell], matrix[col][col])]
  /\ k' = k - 1
  /\ UNCHANGED <<col, row, phase>>

Normalised ==
  /\ phase = "normalise" /\ k < lastCell
  /\ phase' = "eliminate"
  /\ row' = 1
  /\ k' = Width
  /\ UNCHANGED <<matrix, col>>

\* The rows that are reduced; mutant: only those below.
rowsBelow == row > col
otherRow == row # col

Eliminate ==
  /\ phase = "eliminate" /\ row <= Height
  /\ otherRow /\ k >= lastCell
  /\ matrix' = [matrix EXCEPT ![row][cell] =
                  (matrix[row][cell] - matrix[col][cell] * matrix[row][col]) % Order]
  /\ k' = k - 1
  /\ UNCHANGED <<col, row, phase>>

NextRow ==
  /\ phase = "eliminate" /\ row <= Height
  /\ ~ otherRow \/ k < lastCell
  /\ row' = row + 1
  /\ k' = Width
  /\ UNCHANGED <<matrix, col, phase>>

NextColumn ==
  /\ phase = "eliminate" /\ row > Height
  /\ col' = col + 1
  /\ phase' = "column"
  /\ UNCHANGED <<matrix, row, k>>

Return ==
  /\ phase = "column" /\ col > Height
  /\ phase' = "solved"
  /\ UNCHANGED <<matrix, col, row, k>>

\* What solve returns: the right side, one value for each row.
res == [r \in 1..Height |-> matrix[r][Width]]

Step ==
  \/ SkipColumn \/ Pivot \/ Normalise \/ Normalised
  \/ Eliminate \/ NextRow \/ NextColumn \/ Return

Next == (\E system \in Systems : Start(system)) \/ Step

Spec == Init /\ [][Next]_vars

-----------------------------------------------------------------------------
(* Properties.                                                             *)

TypeOK ==
  /\ Height \in Nat
  /\ matrix \in [1..Height -> [1..Width -> Zr]]
  /\ phase = "idle" => col = 1 /\ Height = 0
  /\ col \in 1..(Height + 1)
  /\ row \in 1..(Height + 1)
  /\ k \in 0..Width
  /\ phase \in {"idle", "column", "normalise", "eliminate", "solved"}

\* Rows from col on have nothing left in the columns before col, whatever
\* system is solved: a pivot never brings back what was cleared.
Echelon ==
  \A c \in 1..(col - 1), r \in col..Height : matrix[r][c] = 0

\* A column that had a pivot is that of the unit matrix, so that its unknown
\* can be read off the right side (utilities.cpp:95-117).
UnitColumns ==
  \A c \in 1..(col - 1) :
    matrix[c][c] # 0 => \A r \in 1..Height : matrix[r][c] = (IF r = c THEN 1 ELSE 0)
=============================================================================
