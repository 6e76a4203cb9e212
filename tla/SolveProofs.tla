---------------------------- MODULE SolveProofs ----------------------------
(***************************************************************************)
(* What solve does to any system over any field Zr: it keeps the solutions *)
(* and returns the solution of a system that has exactly one.              *)
(***************************************************************************)
EXTENDS Solutions, FieldProofs

\* Where the loops are.
Loops ==
  /\ phase \in {"normalise", "eliminate"} => col <= Height /\ k \in (col - 1)..Width
  /\ phase = "solved" => col > Height

\* The column in work: its pivot is not zero until the last cell of the row is
\* divided and is one from then on; the rows done have no entry in it.
InWork ==
  /\ phase = "normalise" => IF k >= col THEN matrix[col][col] # 0 ELSE matrix[col][col] = 1
  /\ phase = "eliminate" =>
       /\ matrix[col][col] = 1
       /\ \A r \in 1..Height :
            r # col /\ (r < row \/ (r = row /\ k < col)) => matrix[r][col] = 0

IInv == TypeOK /\ Loops /\ Echelon /\ UnitColumns /\ InWork

-----------------------------------------------------------------------------
(* Arithmetic in Zr.                                                       *)

\* Every element but zero has an inverse.
LEMMA InverseExists ==
  ASSUME NEW y \in Zr, y # 0
  PROVE Invert(y) \in 1..(Order - 1) /\ (y * Invert(y)) % Order = 1
<1>1. y \in 1..(Order - 1)
  BY OrderAssumption DEF Zr
<1>2. \E z \in 1..(Order - 1) : (y * z) % Order = 1
  BY <1>1, FieldAssumption, Zenon
<1> QED
  BY <1>2, Zenon DEF Invert

\* A quotient is an element of Zr.
LEMMA DivideType ==
  ASSUME NEW x \in Zr, NEW y \in Zr, y # 0
  PROVE Divide(x, y) \in Zr
<1>1. Order \in Nat /\ Order > 1
  BY OrderAssumption
<1>2. x * Invert(y) \in Int
  BY <1>1, InverseExists DEF Zr
<1> QED
  BY <1>1, <1>2 DEF Zr, Divide

\* An element divided by itself is one.
LEMMA DivideSelf ==
  ASSUME NEW x \in Zr, x # 0
  PROVE Divide(x, x) = 1
BY InverseExists, Zenon DEF Divide

\* The value elimination writes is an element of Zr.
LEMMA ReduceType ==
  ASSUME NEW x \in Zr, NEW y \in Zr, NEW z \in Zr
  PROVE (x - y * z) % Order \in Zr
<1>1. Order \in Nat /\ Order > 1
  BY OrderAssumption
<1>2. y * z \in Int
  BY <1>1 DEF Zr
<1>3. x - y * z \in Int
  BY <1>1, <1>2 DEF Zr
<1> QED
  BY <1>1, <1>3 DEF Zr

\* Under a pivot of one it clears the cell.
LEMMA ReduceClears ==
  ASSUME NEW x \in Zr
  PROVE (x - 1 * x) % Order = 0
BY OrderAssumption DEF Zr

-----------------------------------------------------------------------------
(* The loops of solve.                                                     *)

\* How a step that writes one cell changes the matrix.
LEMMA OneCell ==
  ASSUME TypeOK, NEW r \in 1..Height, NEW c \in 1..Width, NEW v \in Zr,
         matrix' = [matrix EXCEPT ![r][c] = v]
  PROVE /\ Height' = Height
        /\ matrix' \in [1..Height -> [1..Width -> Zr]]
        /\ \A q \in 1..Height, e \in 1..Width :
             matrix'[q][e] = IF q = r /\ e = c THEN v ELSE matrix[q][e]
<1>1. matrix \in [1..Height -> [1..Width -> Zr]] /\ Height \in Nat
  BY DEF TypeOK
<1>2. matrix' \in [1..Height -> [1..Width -> Zr]]
  BY <1>1
<1>3. Height' = Height
  BY <1>1, <1>2 DEF Height
<1> QED
  BY <1>1, <1>2, <1>3

\* The invariant of the loops holds at first.
LEMMA InitIInv == Init => IInv
BY DEF Init, IInv, TypeOK, Loops, Echelon, UnitColumns, InWork, Height, Width

\* Every step keeps the invariant of the loops.
LEMMA StepIInv == IInv /\ [Next]_vars => IInv'
<1> SUFFICES ASSUME IInv, [Next]_vars PROVE IInv'
  OBVIOUS
<1> USE DEF IInv
<1>1. Height \in Nat /\ Width = Height + 1 /\ matrix \in [1..Height -> [1..Width -> Zr]]
      /\ col \in 1..(Height + 1) /\ row \in 1..(Height + 1) /\ k \in 0..Width
  BY DEF TypeOK, Width
<1>2. ASSUME NEW system \in Systems, Start(system) PROVE IInv'
  <2>1. PICK n \in Nat \ {0} : system \in [1..n -> [1..(n + 1) -> Zr]]
    BY DEF Systems
  <2>2. Height' = n /\ Width' = n + 1 /\ matrix' = system
    BY <1>2, <2>1 DEF Start, Height, Width
  <2>3. phase = "idle" /\ phase' = "column" /\ col' = 1 /\ row' = row /\ k' = k /\ Height = 0
    BY <1>2 DEF Start, Loops, TypeOK
  <2> QED
    BY <1>1, <2>1, <2>2, <2>3 DEF TypeOK, Loops, Echelon, UnitColumns, InWork
<1>3. CASE SkipColumn
  <2>1. matrix' = matrix /\ Height' = Height /\ Width' = Width /\ phase' = phase
        /\ phase = "column" /\ row' = row /\ k' = k /\ col' = col + 1 /\ col <= Height
    BY <1>3 DEF SkipColumn, Height, Width
  <2>2. \A r \in col..Height : matrix[r][col] = 0
    BY <1>3 DEF SkipColumn, NonZero
  <2>3. TypeOK' /\ Loops' /\ InWork'
    BY <1>1, <2>1 DEF TypeOK, Loops, InWork
  <2>4. Echelon'
    BY <1>1, <2>1, <2>2 DEF Echelon
  <2>5. UnitColumns'
    BY <1>1, <2>1, <2>2 DEF UnitColumns
  <2> QED
    BY <2>3, <2>4, <2>5
<1>4. CASE Pivot
  <2>1. PICK p \in col..Height :
          matrix[p][col] # 0 /\ matrix' = [matrix EXCEPT ![p] = matrix[col], ![col] = matrix[p]]
    BY <1>4 DEF Pivot, NonZero
  <2>2. col' = col /\ row' = row /\ k' = Width /\ phase' = "normalise" /\ col <= Height
    BY <1>4 DEF Pivot
  <2>3. matrix' \in [1..Height -> [1..Width -> Zr]]
    BY <1>1, <2>1
  <2>4. Height' = Height /\ Width' = Width
    <3>1. Height' = Height
      BY <1>1, <2>3 DEF Height
    <3> QED
      BY <3>1 DEF Width
  <2>5. \A r \in 1..Height :
          matrix'[r] = IF r = col THEN matrix[p] ELSE IF r = p THEN matrix[col] ELSE matrix[r]
    BY <1>1, <2>1
  <2>6. TypeOK' /\ Loops' /\ InWork'
    BY <1>1, <2>1, <2>2, <2>3, <2>4, <2>5 DEF TypeOK, Loops, InWork
  <2>7. Echelon'
    BY <1>1, <2>1, <2>2, <2>4, <2>5 DEF Echelon
  <2>8. UnitColumns'
    <3> SUFFICES ASSUME NEW c \in 1..(col - 1), matrix'[c][c] # 0, NEW r \in 1..Height
                 PROVE matrix'[r][c] = (IF r = c THEN 1 ELSE 0)
      BY <2>2, <2>4 DEF UnitColumns
    <3>1. matrix'[c] = matrix[c] /\ c \in 1..Height
      BY <1>1, <2>1, <2>2, <2>5
    <3>2. matrix[r][c] = (IF r = c THEN 1 ELSE 0)
      BY <1>1, <3>1 DEF UnitColumns
    <3>3. matrix[col][c] = 0 /\ matrix[p][c] = 0
      BY <1>1, <2>1, <2>2 DEF Echelon
    <3> QED
      BY <1>1, <2>1, <2>5, <3>1, <3>2, <3>3
  <2> QED
    BY <2>6, <2>7, <2>8
<1>5. CASE Normalise
  <2> DEFINE v == Divide(matrix[col][k], matrix[col][col])
  <2>1. phase = "normalise" /\ phase' = phase /\ k >= col /\ k' = k - 1 /\ col' = col /\ row' = row
        /\ col <= Height /\ matrix[col][col] # 0
        /\ matrix' = [matrix EXCEPT ![col][k] = v]
    BY <1>5 DEF Normalise, Loops, InWork, lastCell, cell
  <2>2. v \in Zr
    BY <1>1, <2>1, DivideType
  <2>3. k = col => v = 1
    BY <1>1, <2>1, DivideSelf
  <2> HIDE DEF v
  <2>4. /\ Height' = Height /\ matrix' \in [1..Height -> [1..Width -> Zr]]
        /\ \A q \in 1..Height, e \in 1..Width :
             matrix'[q][e] = IF q = col /\ e = k THEN v ELSE matrix[q][e]
    <3>1. col \in 1..Height /\ k \in 1..Width /\ TypeOK
      BY <1>1, <2>1
    <3> QED
      BY <2>1, <2>2, <3>1, OneCell
  <2>5. Width' = Width
    BY <2>4 DEF Width
  <2>6. TypeOK' /\ Loops'
    BY <1>1, <2>1, <2>4, <2>5 DEF TypeOK, Loops
  <2>7. InWork'
    BY <1>1, <2>1, <2>3, <2>4 DEF InWork
  <2>8. Echelon'
    BY <1>1, <2>1, <2>4 DEF Echelon
  <2>9. UnitColumns'
    BY <1>1, <2>1, <2>4 DEF UnitColumns
  <2> QED
    BY <2>6, <2>7, <2>8, <2>9
<1>6. CASE Normalised
  <2>1. matrix' = matrix /\ Height' = Height /\ Width' = Width /\ phase = "normalise"
        /\ phase' = "eliminate" /\ row' = 1 /\ k' = Width /\ col' = col /\ k < col
    BY <1>6 DEF Normalised, Height, Width, lastCell
  <2> QED
    BY <1>1, <2>1 DEF TypeOK, Loops, InWork, Echelon, UnitColumns
<1>7. CASE Eliminate
  <2> DEFINE v == (matrix[row][k] - matrix[col][k] * matrix[row][col]) % Order
  <2>1. phase = "eliminate" /\ phase' = phase /\ k >= col /\ k' = k - 1 /\ col' = col /\ row' = row
        /\ col <= Height /\ row <= Height /\ row # col /\ matrix[col][col] = 1
        /\ matrix' = [matrix EXCEPT ![row][k] = v]
    BY <1>7 DEF Eliminate, Loops, InWork, lastCell, cell, otherRow
  <2>2. v \in Zr
    BY <1>1, <2>1, ReduceType
  <2>3. k = col => v = 0
    BY <1>1, <2>1, ReduceClears
  <2> HIDE DEF v
  <2>4. /\ Height' = Height /\ matrix' \in [1..Height -> [1..Width -> Zr]]
        /\ \A q \in 1..Height, e \in 1..Width :
             matrix'[q][e] = IF q = row /\ e = k THEN v ELSE matrix[q][e]
    <3>1. row \in 1..Height /\ k \in 1..Width /\ TypeOK
      BY <1>1, <2>1
    <3> QED
      BY <2>1, <2>2, <3>1, OneCell
  <2>5. Width' = Width
    BY <2>4 DEF Width
  <2>6. TypeOK' /\ Loops'
    BY <1>1, <2>1, <2>4, <2>5 DEF TypeOK, Loops
  <2>7. InWork'
    BY <1>1, <2>1, <2>3, <2>4 DEF InWork
  <2>8. Echelon'
    BY <1>1, <2>1, <2>4 DEF Echelon
  <2>9. UnitColumns'
    BY <1>1, <2>1, <2>4 DEF UnitColumns
  <2> QED
    BY <2>6, <2>7, <2>8, <2>9
<1>8. CASE NextRow
  <2>1. matrix' = matrix /\ Height' = Height /\ Width' = Width /\ phase = "eliminate"
        /\ phase' = phase /\ row <= Height /\ row' = row + 1 /\ k' = Width /\ col' = col
        /\ (row = col \/ k < col)
    BY <1>8 DEF NextRow, Height, Width, lastCell, otherRow
  <2> QED
    BY <1>1, <2>1 DEF TypeOK, Loops, InWork, Echelon, UnitColumns
<1>9. CASE NextColumn
  <2>1. matrix' = matrix /\ Height' = Height /\ Width' = Width /\ phase = "eliminate"
        /\ phase' = "column" /\ row > Height /\ row' = row /\ k' = k /\ col' = col + 1
        /\ col <= Height
    BY <1>9 DEF NextColumn, Height, Width, Loops
  <2>2. \A r \in 1..Height : matrix[r][col] = (IF r = col THEN 1 ELSE 0)
    BY <1>1, <2>1 DEF InWork
  <2>3. TypeOK' /\ Loops' /\ InWork'
    BY <1>1, <2>1 DEF TypeOK, Loops, InWork
  <2>4. Echelon'
    BY <1>1, <2>1, <2>2 DEF Echelon
  <2>5. UnitColumns'
    BY <1>1, <2>1, <2>2 DEF UnitColumns
  <2> QED
    BY <2>3, <2>4, <2>5
<1>10. CASE Return
  <2>1. matrix' = matrix /\ Height' = Height /\ Width' = Width /\ phase' = "solved"
        /\ row' = row /\ k' = k /\ col' = col /\ col > Height
    BY <1>10 DEF Return, Height, Width
  <2> QED
    BY <1>1, <2>1 DEF TypeOK, Loops, InWork, Echelon, UnitColumns
<1>11. CASE UNCHANGED vars
  <2>1. matrix' = matrix /\ Height' = Height /\ Width' = Width /\ phase' = phase
        /\ row' = row /\ k' = k /\ col' = col
    BY <1>11 DEF vars, Height, Width
  <2> QED
    BY <1>1, <2>1 DEF TypeOK, Loops, InWork, Echelon, UnitColumns
<1> QED
  BY <1>2, <1>3, <1>4, <1>5, <1>6, <1>7, <1>8, <1>9, <1>10, <1>11 DEF Next, Step

\* The invariant of the loops holds throughout.
LEMMA SpecIInv == Spec => []IInv
BY InitIInv, StepIInv, PTL DEF Spec

-----------------------------------------------------------------------------
(* Equations.                                                               *)

\* The first n entries of v are elements of Zr.
InZr(v, n) == \A c \in 1..n : v[c] \in Zr

\* Elements of Zr are numbers.
LEMMA NumbersInZr ==
  ASSUME NEW v, NEW n, InZr(v, n)
  PROVE  Numbers(v, n)
BY Elements DEF InZr, Numbers

\* x solves the equation in row v.
Holds(v, x, n) == Product(v, x, n) = v[n + 1]

\* What solves two equations solves their combinations.
LEMMA HoldsCombined ==
  ASSUME NEW n \in Nat, NEW v, NEW u, NEW w, NEW x, NEW a \in Int, NEW b \in Int,
         InZr(v, n + 1), InZr(u, n + 1), InZr(x, n), Combined(w, a, v, b, u, n + 1),
         Holds(v, x, n), Holds(u, x, n)
  PROVE  Holds(w, x, n)
<1>1. Numbers(v, n) /\ Numbers(u, n) /\ Numbers(x, n) /\ Combined(w, a, v, b, u, n)
  BY Elements DEF InZr, Numbers, Combined
<1>2. Product(w, x, n) = (a * Product(v, x, n) + b * Product(u, x, n)) % Order
  BY <1>1, CombineRows
<1>3. w[n + 1] = (a * v[n + 1] + b * u[n + 1]) % Order
  BY DEF Combined
<1> QED
  BY <1>2, <1>3 DEF Holds

\* Multiplying by p undoes dividing by it.
LEMMA UndoScale ==
  ASSUME NEW p \in Int, NEW i \in Int, NEW v \in Zr, (p * i) % Order = 1
  PROVE  (p * ((v * i) % Order) + 0) % Order = v
<1>1. v \in Int /\ v % Order = v
  BY Elements
<1>2. 0 * (0 % Order) = 0
  BY OrderAssumption
<1> DEFINE y == v * i
           z == p * i
<1>3. y \in Int /\ z \in Int /\ p * y = v * z
  BY <1>1
<1> HIDE DEF y, z
<1>4. (p * (y % Order) + 0 * (0 % Order)) % Order = (p * y + 0 * 0) % Order
  BY <1>3, Rests
<1>5. (v * (z % Order) + 0 * (0 % Order)) % Order = (v * z + 0 * 0) % Order
  BY <1>1, <1>3, Rests
<1>6. z % Order = 1
  BY DEF z
<1>7. v * 1 + 0 = v
  BY <1>1
<1>8. (p * (y % Order) + 0) % Order = v
  BY <1>1, <1>2, <1>3, <1>4, <1>5, <1>6, <1>7
<1> QED
  BY <1>8 DEF y

\* An equation divided by p has the solutions it had.
LEMMA ScaledHolds ==
  ASSUME NEW n \in Nat, NEW v, NEW p \in Zr, p # 0, NEW w, NEW x,
         InZr(v, n + 1), InZr(w, n + 1), InZr(x, n),
         \A c \in 1..(n + 1) : w[c] = Divide(v[c], p)
  PROVE  Holds(v, x, n) <=> Holds(w, x, n)
<1> DEFINE i == Invert(p)
<1>1. i \in Int /\ (p * i) % Order = 1 /\ p \in Int
  BY InverseExists, Elements
<1> HIDE DEF i
<1>2. ASSUME NEW c \in 1..(n + 1) PROVE w[c] = (v[c] * i) % Order
  BY DEF i, Divide
<1>3. Combined(w, i, v, 0, v, n + 1)
  <2>1. ASSUME NEW c \in 1..(n + 1) PROVE w[c] = (i * v[c] + 0 * v[c]) % Order
    <3>1. v[c] \in Int
      BY Elements DEF InZr
    <3>2. i * v[c] + 0 * v[c] = v[c] * i
      BY <1>1, <3>1
    <3> QED
      BY <1>2, <3>2
  <2> QED
    BY <2>1 DEF Combined
<1>4. Combined(v, p, w, 0, w, n + 1)
  <2>1. ASSUME NEW c \in 1..(n + 1) PROVE v[c] = (p * w[c] + 0 * w[c]) % Order
    <3>1. v[c] \in Zr /\ w[c] \in Int
      BY Elements DEF InZr
    <3>2. 0 * w[c] = 0
      BY <3>1
    <3>3. (p * ((v[c] * i) % Order) + 0) % Order = v[c]
      BY <1>1, <3>1, UndoScale
    <3> QED
      BY <1>2, <3>2, <3>3
  <2> QED
    BY <2>1 DEF Combined
<1>5. 0 \in Int
  OBVIOUS
<1>6. Holds(v, x, n) => Holds(w, x, n)
  BY <1>1, <1>3, <1>5, HoldsCombined
<1>7. Holds(w, x, n) => Holds(v, x, n)
  BY <1>1, <1>4, <1>5, HoldsCombined
<1> QED
  BY <1>6, <1>7

\* Adding f times u undoes taking it away.
LEMMA UndoReduce ==
  ASSUME NEW f \in Int, NEW v \in Zr, NEW u \in Zr
  PROVE  (1 * ((v - u * f) % Order) + f * u) % Order = v
<1>1. v \in Int /\ v % Order = v /\ u \in Int /\ u % Order = u
  BY Elements
<1> DEFINE d == v - u * f
<1>2. d \in Int /\ 1 * d + f * u = v
  BY <1>1
<1> HIDE DEF d
<1>3. (1 * (d % Order) + f * (u % Order)) % Order = (1 * d + f * u) % Order
  BY <1>1, <1>2, Rests
<1> QED
  BY <1>1, <1>2, <1>3 DEF d

\* Where equation u holds, v and v less f times u have the same solutions.
LEMMA ReducedHolds ==
  ASSUME NEW n \in Nat, NEW v, NEW u, NEW f \in Zr, NEW w, NEW x,
         InZr(v, n + 1), InZr(u, n + 1), InZr(w, n + 1), InZr(x, n), Holds(u, x, n),
         \A c \in 1..(n + 1) : w[c] = (v[c] - u[c] * f) % Order
  PROVE  Holds(v, x, n) <=> Holds(w, x, n)
<1>1. f \in Int /\ -f \in Int /\ 1 \in Int
  BY Elements
<1>2. Combined(w, 1, v, -f, u, n + 1)
  <2>1. ASSUME NEW c \in 1..(n + 1) PROVE w[c] = (1 * v[c] + (-f) * u[c]) % Order
    <3>1. v[c] \in Int /\ u[c] \in Int
      BY Elements DEF InZr
    <3>2. 1 * v[c] + (-f) * u[c] = v[c] - u[c] * f
      BY <1>1, <3>1
    <3> QED
      BY <3>2
  <2> QED
    BY <2>1 DEF Combined
<1>3. Combined(v, 1, w, f, u, n + 1)
  <2>1. ASSUME NEW c \in 1..(n + 1) PROVE v[c] = (1 * w[c] + f * u[c]) % Order
    <3>1. v[c] \in Zr /\ u[c] \in Zr
      BY DEF InZr
    <3>2. (1 * ((v[c] - u[c] * f) % Order) + f * u[c]) % Order = v[c]
      BY <1>1, <3>1, UndoReduce
    <3> QED
      BY <3>2
  <2> QED
    BY <2>1 DEF Combined
<1>4. Holds(v, x, n) => Holds(w, x, n)
  BY <1>1, <1>2, HoldsCombined
<1>5. Holds(w, x, n) => Holds(v, x, n)
  BY <1>1, <1>3, HoldsCombined
<1> QED
  BY <1>4, <1>5

-----------------------------------------------------------------------------
(* Systems.                                                                *)

\* n equations with n unknowns over Zr.
System(m, n) == m \in [1..n -> [1..(n + 1) -> Zr]]

\* x solves the n equations of m.
Solves(m, n, x) == \A r \in 1..n : Holds(m[r], x, n)

\* The rows of a system are rows over Zr.
LEMMA RowsInZr ==
  ASSUME NEW n \in Nat, NEW m, System(m, n), NEW r \in 1..n
  PROVE  InZr(m[r], n) /\ InZr(m[r], n + 1)
BY DEF System, InZr

\* A vector is a row over Zr.
LEMMA VectorInZr ==
  ASSUME NEW n \in Nat, NEW x \in [1..n -> Zr]
  PROVE  InZr(x, n)
BY DEF InZr

\* w is m with row p exchanged with row j and divided there by its entry in column j.
Pivoted(w, m, p, j, n) ==
  /\ m[p][j] # 0
  /\ \A r \in 1..n : r # j => w[r] = IF r = p THEN m[j] ELSE m[r]
  /\ \A c \in 1..(n + 1) : w[j][c] = Divide(m[p][c], m[p][j])

\* Exchanging and dividing rows keeps the solutions.
LEMMA PivotSolves ==
  ASSUME NEW n \in Nat, NEW m, NEW w, System(m, n), System(w, n),
         NEW j \in 1..n, NEW p \in 1..n, Pivoted(w, m, p, j, n), NEW x \in [1..n -> Zr]
  PROVE  Solves(m, n, x) <=> Solves(w, n, x)
<1> USE DEF Pivoted
<1>1. Holds(m[p], x, n) <=> Holds(w[j], x, n)
  <2>1. m[p][j] \in Zr
    BY DEF System
  <2>2. InZr(m[p], n + 1) /\ InZr(w[j], n + 1) /\ InZr(x, n)
    BY RowsInZr, VectorInZr
  <2> QED
    BY <2>1, <2>2, ScaledHolds
<1>2. Solves(m, n, x) => Solves(w, n, x)
  BY <1>1 DEF Solves
<1>3. Solves(w, n, x) => Solves(m, n, x)
  <2> SUFFICES ASSUME Solves(w, n, x), NEW r \in 1..n PROVE Holds(m[r], x, n)
    BY DEF Solves
  <2>1. CASE r = p
    BY <1>1, <2>1 DEF Solves
  <2>2. CASE r # p /\ r = j
    <3>1. w[p] = m[j]
      BY <2>2
    <3> QED
      BY <2>2, <3>1 DEF Solves
  <2>3. CASE r # p /\ r # j
    BY <2>3 DEF Solves
  <2> QED
    BY <2>1, <2>2, <2>3
<1> QED
  BY <1>2, <1>3

\* w is m with row i reduced by row j.
Reduced(w, m, i, j, n) ==
  /\ i # j
  /\ \A r \in 1..n : r # i => w[r] = m[r]
  /\ \A c \in 1..(n + 1) : w[i][c] = (m[i][c] - m[j][c] * m[i][j]) % Order

\* Reducing a row keeps the solutions.
LEMMA ReduceSolves ==
  ASSUME NEW n \in Nat, NEW m, NEW w, System(m, n), System(w, n),
         NEW i \in 1..n, NEW j \in 1..n, Reduced(w, m, i, j, n), NEW x \in [1..n -> Zr]
  PROVE  Solves(m, n, x) <=> Solves(w, n, x)
<1> USE DEF Reduced
<1>1. ASSUME Holds(m[j], x, n) PROVE Holds(m[i], x, n) <=> Holds(w[i], x, n)
  <2>1. m[i][j] \in Zr
    BY DEF System
  <2>2. InZr(m[i], n + 1) /\ InZr(m[j], n + 1) /\ InZr(w[i], n + 1) /\ InZr(x, n)
    BY RowsInZr, VectorInZr
  <2> QED
    BY <1>1, <2>1, <2>2, ReducedHolds
<1>2. Solves(m, n, x) => Solves(w, n, x)
  BY <1>1 DEF Solves
<1>3. Solves(w, n, x) => Solves(m, n, x)
  BY <1>1 DEF Solves
<1> QED
  BY <1>2, <1>3
-----------------------------------------------------------------------------
(* The system of the call and the one in the matrix have the same solutions *)
(* at every cell.                                                           *)

\* The matrix once the row in work is done.
Completed ==
  [r \in 1..Height |-> [c \in 1..Width |->
     IF c \in col..k /\ phase = "normalise" /\ r = col
     THEN Divide(matrix[r][c], matrix[col][col])
     ELSE IF c \in col..k /\ phase = "eliminate" /\ r = row /\ r # col
     THEN (matrix[r][c] - matrix[col][c] * matrix[r][col]) % Order
     ELSE matrix[r][c]]]

\* A column passed over has no entry from its own row on.
Skipped ==
  \A c \in 1..(col - 1) : matrix[c][c] = 0 => \A r \in c..Height : matrix[r][c] = 0

\* The completed system has the solutions of the given one.
Preserved ==
  /\ phase = "idle" => matrix = <<>> /\ given = <<>>
  /\ phase # "idle" =>
       /\ Len(given) = Height
       /\ \A x \in [1..Height -> Zr] : Solves(Completed, Height, x) <=> Solves(given, Height, x)

CallInv == IInv /\ Skipped /\ Preserved

\* Where no row is in work nothing is missing.
LEMMA NoRowInWork ==
  ASSUME TypeOK,
         phase = "normalise" => k < col,
         phase = "eliminate" => k < col \/ row = col \/ row > Height
  PROVE  Completed = matrix
<1>1. matrix \in [1..Height -> [1..Width -> Zr]]
  BY DEF TypeOK
<1>2. ASSUME NEW r \in 1..Height
      PROVE  [c \in 1..Width |->
               IF c \in col..k /\ phase = "normalise" /\ r = col
               THEN Divide(matrix[r][c], matrix[col][col])
               ELSE IF c \in col..k /\ phase = "eliminate" /\ r = row /\ r # col
               THEN (matrix[r][c] - matrix[col][c] * matrix[r][col]) % Order
               ELSE matrix[r][c]] = matrix[r]
  <2>1. ASSUME NEW c \in 1..Width
        PROVE  ~ (c \in col..k /\ phase = "normalise" /\ r = col)
               /\ ~ (c \in col..k /\ phase = "eliminate" /\ r = row /\ r # col)
    BY DEF TypeOK
  <2>2. matrix[r] \in [1..Width -> Zr]
    BY <1>1
  <2> QED
    BY <2>1, <2>2
<1> QED
  BY <1>1, <1>2 DEF Completed

\* The rows of the completed system are rows over Zr.
LEMMA CompletedType ==
  ASSUME TypeOK, Loops, InWork
  PROVE  System(Completed, Height)
<1>1. /\ matrix \in [1..Height -> [1..Width -> Zr]] /\ Height \in Nat /\ Width = Height + 1
      /\ col \in 1..(Height + 1) /\ row \in 1..(Height + 1) /\ k \in 0..Width
  BY DEF TypeOK, Width
<1>2. ASSUME NEW r \in 1..Height, NEW c \in 1..Width
      PROVE  Completed[r][c] \in Zr
  <2>1. matrix[r][c] \in Zr
    BY <1>1
  <2>2. CASE c \in col..k /\ phase = "normalise" /\ r = col
    <3>1. matrix[col][col] \in Zr /\ matrix[col][col] # 0
      BY <1>1, <2>2 DEF Loops, InWork
    <3>2. Divide(matrix[r][c], matrix[col][col]) \in Zr
      BY <2>1, <3>1, DivideType
    <3> QED
      BY <2>2, <3>2 DEF Completed
  <2>3. CASE c \in col..k /\ phase = "eliminate" /\ r = row /\ r # col
    <3>1. matrix[col][c] \in Zr /\ matrix[r][col] \in Zr
      BY <1>1, <2>3 DEF Loops
    <3>2. (matrix[r][c] - matrix[col][c] * matrix[r][col]) % Order \in Zr
      BY <2>1, <3>1, ReduceType
    <3> QED
      BY <2>3, <3>2 DEF Completed
  <2>4. CASE ~ (c \in col..k /\ phase = "normalise" /\ r = col)
             /\ ~ (c \in col..k /\ phase = "eliminate" /\ r = row /\ r # col)
    BY <2>1, <2>4 DEF Completed
  <2> QED
    BY <2>2, <2>3, <2>4
<1>3. Completed \in [1..Height -> [1..Width -> Zr]]
  BY <1>2 DEF Completed
<1> QED
  BY <1>1, <1>3 DEF System

\* When a row begins to be reduced, or is passed over, the completed system has the
\* solutions of the matrix.
LEMMA RowBegins ==
  ASSUME IInv, phase = "eliminate", k = Width, NEW x \in [1..Height -> Zr]
  PROVE  Solves(matrix, Height, x) <=> Solves(Completed, Height, x)
<1> USE DEF IInv
<1>1. /\ matrix \in [1..Height -> [1..Width -> Zr]] /\ Height \in Nat /\ Width = Height + 1
      /\ col \in 1..Height /\ row \in 1..(Height + 1) /\ k \in 0..Width
  BY DEF TypeOK, Width, Loops
<1>2. CASE row = col \/ row > Height
  <2>1. Completed = matrix
    BY <1>2, NoRowInWork
  <2> QED
    BY <2>1
<1>3. CASE row # col /\ row <= Height
  <2>1. System(matrix, Height) /\ System(Completed, Height)
    BY <1>1, CompletedType DEF System
  <2>2. row \in 1..Height
    BY <1>1, <1>3
  <2>3. ASSUME NEW r \in 1..Height, r # row PROVE Completed[r] = matrix[r]
    <3>1. matrix[r] \in [1..Width -> Zr]
      BY <1>1
    <3>2. Completed[r] = [c \in 1..Width |-> matrix[r][c]]
      BY <2>3 DEF Completed
    <3> QED
      BY <3>1, <3>2
  <2>4. ASSUME NEW c \in 1..(Height + 1)
        PROVE  Completed[row][c] = (matrix[row][c] - matrix[col][c] * matrix[row][col]) % Order
    <3>1. matrix[row][c] \in Zr /\ matrix[row][col] \in Zr /\ c \in 1..Width
      BY <1>1, <2>2
    <3>2. CASE c >= col
      BY <1>1, <1>3, <2>2, <3>1, <3>2 DEF Completed
    <3>3. CASE c < col
      <4>1. matrix[col][c] = 0
        BY <1>1, <3>3 DEF Echelon
      <4>2. matrix[row][c] - 0 * matrix[row][col] = matrix[row][c]
            /\ matrix[row][c] % Order = matrix[row][c]
        BY <3>1, Elements
      <4>3. Completed[row][c] = matrix[row][c]
        BY <1>1, <2>2, <3>1, <3>3 DEF Completed
      <4> QED
        BY <4>1, <4>2, <4>3
    <3> QED
      BY <1>1, <3>2, <3>3
  <2>5. Reduced(Completed, matrix, row, col, Height)
    BY <1>3, <2>3, <2>4 DEF Reduced
  <2> QED
    BY <1>1, <2>1, <2>2, <2>5, ReduceSolves
<1> QED
  BY <1>1, <1>2, <1>3

\* CompletedType after a step.
LEMMA CompletedTypeNext == (TypeOK /\ Loops /\ InWork)' => System(Completed, Height)'
<1>1. TypeOK /\ Loops /\ InWork => System(Completed, Height)
  BY CompletedType
<1> QED
  BY <1>1, PTL

\* RowBegins after a step.
LEMMA RowBeginsNext ==
  (IInv /\ phase = "eliminate" /\ k = Width)'
    => \A x \in [1..Height' -> Zr] : Solves(matrix', Height', x) <=> Solves(Completed', Height', x)
<1> DEFINE SameRows == \A x \in [1..Height -> Zr] : Solves(matrix, Height, x) <=> Solves(Completed, Height, x)
<1>1. IInv /\ phase = "eliminate" /\ k = Width => SameRows
  BY RowBegins
<1>2. (IInv /\ phase = "eliminate" /\ k = Width)' => SameRows'
  BY <1>1, PTL
<1> QED
  BY <1>2

\* NoRowInWork after a step.
LEMMA NoRowInWorkNext ==
  (TypeOK /\ (phase \in {"normalise", "eliminate"} => k < col))' => (Completed = matrix)'
<1>1. TypeOK /\ (phase \in {"normalise", "eliminate"} => k < col) => Completed = matrix
  BY NoRowInWork
<1> QED
  BY <1>1, PTL

\* A call with a remembered system is a call.
LEMMA CallIsStep == [CallNext]_callVars => [Next]_vars
<1> SUFFICES ASSUME [CallNext]_callVars PROVE [Next]_vars
  OBVIOUS
<1>1. ASSUME NEW system \in Given, Call(system) PROVE Next
  <2>1. system \in Systems
    BY GivenAssumption DEF Systems
  <2> QED
    BY <1>1, <2>1 DEF Call, Next
<1>2. CASE CallStep
  BY <1>2 DEF CallStep, Next
<1>3. CASE Returned
  BY <1>3 DEF Returned, callVars
<1>4. CASE UNCHANGED callVars
  BY <1>4 DEF callVars
<1> QED
  BY <1>1, <1>2, <1>3, <1>4 DEF CallNext

\* No later step brings back an entry of a column passed over.
LEMMA StepSkipped == IInv /\ Skipped /\ [Next]_vars => Skipped'
<1> SUFFICES ASSUME IInv, Skipped, [Next]_vars PROVE Skipped'
  OBVIOUS
<1> USE DEF IInv
<1>1. Height \in Nat /\ Width = Height + 1 /\ matrix \in [1..Height -> [1..Width -> Zr]]
      /\ col \in 1..(Height + 1) /\ row \in 1..(Height + 1) /\ k \in 0..Width
  BY DEF TypeOK, Width
<1>2. ASSUME NEW system \in Systems, Start(system) PROVE Skipped'
  <2>1. col' = 1
    BY <1>2 DEF Start, TypeOK
  <2> QED
    BY <2>1 DEF Skipped
<1>3. CASE SkipColumn
  <2>1. matrix' = matrix /\ Height' = Height /\ col' = col + 1
    BY <1>3 DEF SkipColumn, Height
  <2>2. \A r \in col..Height : matrix[r][col] = 0
    BY <1>3 DEF SkipColumn, NonZero
  <2> QED
    BY <1>1, <2>1, <2>2 DEF Skipped
<1>4. CASE Pivot
  <2>1. PICK p \in col..Height :
          matrix[p][col] # 0 /\ matrix' = [matrix EXCEPT ![p] = matrix[col], ![col] = matrix[p]]
    BY <1>4 DEF Pivot, NonZero
  <2>2. col' = col /\ col <= Height
    BY <1>4 DEF Pivot
  <2>3. matrix' \in [1..Height -> [1..Width -> Zr]]
    BY <1>1, <2>1
  <2>4. Height' = Height
    BY <1>1, <2>3 DEF Height
  <2>5. \A r \in 1..Height :
          matrix'[r] = IF r = col THEN matrix[p] ELSE IF r = p THEN matrix[col] ELSE matrix[r]
    BY <1>1, <2>1
  <2> SUFFICES ASSUME NEW c \in 1..(col - 1), matrix'[c][c] = 0, NEW r \in c..Height
               PROVE  matrix'[r][c] = 0
    BY <2>2, <2>4 DEF Skipped
  <2>6. matrix[c][c] = 0
    BY <1>1, <2>1, <2>2, <2>5
  <2>7. \A q \in c..Height : matrix[q][c] = 0
    BY <2>6 DEF Skipped
  <2> QED
    BY <1>1, <2>1, <2>2, <2>5, <2>7
<1>5. CASE Normalise \/ Eliminate
  <2>1. col <= Height /\ col' = col /\ k >= col
    BY <1>5 DEF Normalise, Eliminate, Loops, lastCell
  <2>2. PICK q \in 1..Height, v \in Zr : matrix' = [matrix EXCEPT ![q][k] = v]
    <3>1. CASE Normalise
      <4>1. matrix[col][col] # 0 /\ matrix[col][col] \in Zr /\ matrix[col][k] \in Zr
        BY <1>1, <2>1, <3>1 DEF Normalise, InWork
      <4>2. Divide(matrix[col][k], matrix[col][col]) \in Zr
        BY <4>1, DivideType
      <4>3. col \in 1..Height
        BY <1>1, <2>1
      <4> QED
        BY <3>1, <4>2, <4>3 DEF Normalise, cell
    <3>2. CASE Eliminate
      <4>1. row \in 1..Height
        BY <1>1, <3>2 DEF Eliminate
      <4>2. matrix[row][k] \in Zr /\ matrix[col][k] \in Zr /\ matrix[row][col] \in Zr
        BY <1>1, <2>1, <4>1
      <4> QED
        BY <3>2, <4>1, <4>2, ReduceType DEF Eliminate, cell
    <3> QED
      BY <1>5, <3>1, <3>2
  <2>3. /\ Height' = Height
        /\ \A r \in 1..Height, e \in 1..Width :
             matrix'[r][e] = IF r = q /\ e = k THEN v ELSE matrix[r][e]
    <3>1. k \in 1..Width
      BY <1>1, <2>1
    <3> QED
      BY <2>2, <3>1, OneCell
  <2> QED
    BY <1>1, <2>1, <2>3 DEF Skipped
<1>6. CASE NextColumn
  <2>1. matrix' = matrix /\ Height' = Height /\ col' = col + 1 /\ col <= Height
    BY <1>6 DEF NextColumn, Height, Loops
  <2>2. matrix[col][col] = 1
    BY <1>6 DEF NextColumn, InWork
  <2> QED
    BY <1>1, <2>1, <2>2 DEF Skipped
<1>7. CASE Normalised \/ NextRow \/ Return \/ UNCHANGED vars
  <2>1. matrix' = matrix /\ Height' = Height /\ col' = col
    BY <1>7 DEF Normalised, NextRow, Return, vars, Height
  <2> QED
    BY <2>1 DEF Skipped
<1> QED
  BY <1>2, <1>3, <1>4, <1>5, <1>6, <1>7 DEF Next, Step

\* Every step leaves the completed system with the solutions of the given one:
\* writing a cell does not change it at all, beginning a row changes it by a row
\* operation.
LEMMA StepPreserved == CallInv /\ [CallNext]_callVars /\ IInv' => Preserved'
<1> SUFFICES ASSUME CallInv, [CallNext]_callVars, IInv' PROVE Preserved'
  OBVIOUS
<1> USE DEF CallInv, IInv
<1>1. Height \in Nat /\ Width = Height + 1 /\ matrix \in [1..Height -> [1..Width -> Zr]]
      /\ col \in 1..(Height + 1) /\ row \in 1..(Height + 1) /\ k \in 0..Width
  BY DEF TypeOK, Width
\* It is enough that the completed system keeps its solutions.
<1>2. ASSUME phase # "idle", phase' # "idle", given' = given, Height' = Height,
             \A x \in [1..Height -> Zr] : Solves(Completed, Height, x) <=> Solves(Completed', Height, x)
      PROVE  Preserved'
  BY <1>2 DEF Preserved
<1>3. ASSUME NEW system \in Given, Call(system) PROVE Preserved'
  <2>1. phase' = "column" /\ matrix' = system /\ given' = system
    BY <1>3 DEF Call, Start
  <2>2. Completed' = matrix'
    BY <2>1, NoRowInWorkNext
  <2>3. Height' = Len(system)
    BY <2>1 DEF Height
  <2> QED
    BY <2>1, <2>2, <2>3 DEF Preserved
<1>4. CASE SkipColumn /\ UNCHANGED given
  <2>1. matrix' = matrix /\ Height' = Height /\ phase = "column" /\ phase' = "column"
    BY <1>4 DEF SkipColumn, Height
  <2>2. Completed = matrix /\ Completed' = matrix'
    BY <2>1, NoRowInWork, NoRowInWorkNext
  <2> QED
    BY <1>2, <1>4, <2>1, <2>2
<1>5. CASE Pivot /\ UNCHANGED given
  <2>1. PICK p \in col..Height :
          matrix[p][col] # 0 /\ matrix' = [matrix EXCEPT ![p] = matrix[col], ![col] = matrix[p]]
    BY <1>5 DEF Pivot, NonZero
  <2>2. /\ phase = "column" /\ phase' = "normalise" /\ col' = col /\ row' = row /\ k' = Width
        /\ col \in 1..Height /\ p \in 1..Height
    BY <1>1, <1>5 DEF Pivot
  <2>3. matrix' \in [1..Height -> [1..Width -> Zr]]
    BY <1>1, <2>1
  <2>4. Height' = Height /\ Width' = Width
    <3>1. Height' = Height
      BY <1>1, <2>3 DEF Height
    <3> QED
      BY <3>1 DEF Width
  <2>5. \A r \in 1..Height :
          matrix'[r] = IF r = col THEN matrix[p] ELSE IF r = p THEN matrix[col] ELSE matrix[r]
    BY <1>1, <2>1
  <2>6. Completed = matrix
    BY <2>2, NoRowInWork
  <2>7. System(matrix, Height) /\ System(Completed', Height)
    BY <1>1, <2>4, CompletedTypeNext DEF System
  <2>8. Completed' = [r \in 1..Height |-> [c \in 1..Width |->
                       IF c \in col..Width /\ r = col
                       THEN Divide(matrix'[r][c], matrix'[col][col]) ELSE matrix'[r][c]]]
    BY <2>2, <2>4 DEF Completed
  <2>9. Pivoted(Completed', matrix, p, col, Height)
    <3>1. ASSUME NEW r \in 1..Height, r # col
          PROVE  Completed'[r] = IF r = p THEN matrix[col] ELSE matrix[r]
      <4>1. Completed'[r] = [c \in 1..Width |-> matrix'[r][c]]
        BY <2>8, <3>1
      <4>2. Completed'[r] = matrix'[r]
        BY <2>3, <4>1
      <4> QED
        BY <2>5, <3>1, <4>2
    <3>2. ASSUME NEW c \in 1..(Height + 1)
          PROVE  Completed'[col][c] = Divide(matrix[p][c], matrix[p][col])
      <4>1. Completed'[col][c] = IF c \in col..Width THEN Divide(matrix'[col][c], matrix'[col][col])
                                 ELSE matrix'[col][c]
        BY <1>1, <2>2, <2>8
      <4>2. matrix'[col] = matrix[p]
        BY <2>2, <2>5
      <4>3. CASE c \in col..Width
        BY <4>1, <4>2, <4>3
      <4>4. CASE c \notin col..Width
        <5>1. matrix[p][c] = 0
          BY <1>1, <2>1, <2>2, <4>4 DEF Echelon
        <5>2. Divide(0, matrix[p][col]) = 0
          <6>1. Invert(matrix[p][col]) \in Int
            BY <1>1, <2>1, <2>2, InverseExists
          <6> QED
            BY <6>1, OrderAssumption DEF Divide
        <5> QED
          BY <4>1, <4>2, <4>4, <5>1, <5>2
      <4> QED
        BY <4>3, <4>4
    <3> QED
      BY <2>1, <3>1, <3>2 DEF Pivoted
  <2>10. \A x \in [1..Height -> Zr] : Solves(matrix, Height, x) <=> Solves(Completed', Height, x)
    BY <1>1, <2>2, <2>7, <2>9, PivotSolves
  <2> QED
    BY <1>2, <1>5, <2>2, <2>4, <2>6, <2>10
<1>6. CASE Normalise /\ UNCHANGED given
  <2> DEFINE v == Divide(matrix[col][k], matrix[col][col])
  <2>1. phase = "normalise" /\ phase' = phase /\ k >= col /\ k' = k - 1 /\ col' = col /\ row' = row
        /\ col \in 1..Height /\ matrix[col][col] # 0 /\ k \in 1..Width
        /\ matrix' = [matrix EXCEPT ![col][k] = v]
    BY <1>1, <1>6 DEF Normalise, Loops, InWork, lastCell, cell
  <2>2. v \in Zr
    BY <1>1, <2>1, DivideType
  <2> HIDE DEF v
  <2>3. /\ Height' = Height
        /\ \A q \in 1..Height, e \in 1..Width :
             matrix'[q][e] = IF q = col /\ e = k THEN v ELSE matrix[q][e]
    BY <2>1, <2>2, OneCell
  <2>4. Width' = Width
    BY <2>3 DEF Width
  <2>5. ASSUME NEW r \in 1..Height, NEW c \in 1..Width
        PROVE  (IF c \in col..k /\ r = col THEN Divide(matrix[r][c], matrix[col][col]) ELSE matrix[r][c])
             = (IF c \in col..(k - 1) /\ r = col THEN Divide(matrix'[r][c], matrix'[col][col]) ELSE matrix'[r][c])
    <3>1. CASE r = col /\ c = k
      BY <1>1, <2>1, <2>3, <3>1 DEF v
    <3>2. CASE r = col /\ c \in col..(k - 1)
      <4>1. matrix'[r][c] = matrix[r][c] /\ matrix'[col][col] = matrix[col][col]
        BY <1>1, <2>1, <2>3, <3>2
      <4> QED
        BY <1>1, <3>2, <4>1
    <3>3. CASE ~ (r = col /\ c \in col..k)
      <4>1. matrix'[r][c] = matrix[r][c]
        BY <1>1, <2>1, <2>3, <3>3
      <4> QED
        BY <1>1, <3>3, <4>1
    <3> QED
      BY <1>1, <3>1, <3>2, <3>3
  <2>6. Completed' = Completed
    BY <1>1, <2>1, <2>3, <2>4, <2>5 DEF Completed
  <2> QED
    BY <1>2, <1>6, <2>1, <2>3, <2>6
<1>7. CASE Normalised /\ UNCHANGED given
  <2>1. matrix' = matrix /\ Height' = Height /\ Width' = Width /\ phase = "normalise"
        /\ phase' = "eliminate" /\ k' = Width /\ k < col
    BY <1>7 DEF Normalised, Height, Width, lastCell
  <2>2. Completed = matrix
    BY <2>1, NoRowInWork
  <2>3. \A x \in [1..Height -> Zr] : Solves(matrix, Height, x) <=> Solves(Completed', Height, x)
    BY <2>1, RowBeginsNext
  <2> QED
    BY <1>2, <1>7, <2>1, <2>2, <2>3
<1>8. CASE Eliminate /\ UNCHANGED given
  <2> DEFINE v == (matrix[row][k] - matrix[col][k] * matrix[row][col]) % Order
  <2>1. phase = "eliminate" /\ phase' = phase /\ k >= col /\ k' = k - 1 /\ col' = col /\ row' = row
        /\ col \in 1..Height /\ row \in 1..Height /\ row # col /\ k \in 1..Width
        /\ matrix' = [matrix EXCEPT ![row][k] = v]
    BY <1>1, <1>8 DEF Eliminate, Loops, lastCell, cell, otherRow
  <2>2. v \in Zr
    BY <1>1, <2>1, ReduceType
  <2> HIDE DEF v
  <2>3. /\ Height' = Height
        /\ \A q \in 1..Height, e \in 1..Width :
             matrix'[q][e] = IF q = row /\ e = k THEN v ELSE matrix[q][e]
    BY <2>1, <2>2, OneCell
  <2>4. Width' = Width
    BY <2>3 DEF Width
  <2>5. ASSUME NEW r \in 1..Height, NEW c \in 1..Width
        PROVE  (IF c \in col..k /\ r = row /\ r # col
                THEN (matrix[r][c] - matrix[col][c] * matrix[r][col]) % Order ELSE matrix[r][c])
             = (IF c \in col..(k - 1) /\ r = row /\ r # col
                THEN (matrix'[r][c] - matrix'[col][c] * matrix'[r][col]) % Order ELSE matrix'[r][c])
    <3>1. CASE r = row /\ c = k
      BY <1>1, <2>1, <2>3, <3>1 DEF v
    <3>2. CASE r = row /\ c \in col..(k - 1)
      <4>1. matrix'[r][c] = matrix[r][c] /\ matrix'[col][c] = matrix[col][c]
            /\ matrix'[r][col] = matrix[r][col]
        BY <1>1, <2>1, <2>3, <3>2
      <4>2. c \in col..k
        BY <1>1, <3>2
      <4> QED
        BY <3>2, <4>1, <4>2
    <3>3. CASE ~ (r = row /\ c \in col..k)
      <4>1. matrix'[r][c] = matrix[r][c]
        BY <1>1, <2>1, <2>3, <3>3
      <4>2. ~ (r = row /\ c \in col..(k - 1))
        BY <1>1, <3>3
      <4> QED
        BY <3>3, <4>1, <4>2
    <3> QED
      BY <1>1, <3>1, <3>2, <3>3
  <2>6. Completed' = Completed
    BY <1>1, <2>1, <2>3, <2>4, <2>5 DEF Completed
  <2> QED
    BY <1>2, <1>8, <2>1, <2>3, <2>6
<1>9. CASE NextRow /\ UNCHANGED given
  <2>1. matrix' = matrix /\ Height' = Height /\ Width' = Width /\ phase = "eliminate"
        /\ phase' = "eliminate" /\ k' = Width /\ (k < col \/ row = col)
    BY <1>9 DEF NextRow, Height, Width, lastCell, otherRow
  <2>2. Completed = matrix
    BY <2>1, NoRowInWork
  <2>3. \A x \in [1..Height -> Zr] : Solves(matrix, Height, x) <=> Solves(Completed', Height, x)
    BY <2>1, RowBeginsNext
  <2> QED
    BY <1>2, <1>9, <2>1, <2>2, <2>3
<1>10. CASE NextColumn /\ UNCHANGED given
  <2>1. matrix' = matrix /\ Height' = Height /\ phase = "eliminate" /\ phase' = "column" /\ row > Height
    BY <1>10 DEF NextColumn, Height
  <2>2. Completed = matrix /\ Completed' = matrix'
    BY <2>1, NoRowInWork, NoRowInWorkNext
  <2> QED
    BY <1>2, <1>10, <2>1, <2>2
<1>11. CASE Return /\ UNCHANGED given
  <2>1. matrix' = matrix /\ Height' = Height /\ phase = "column" /\ phase' = "solved"
    BY <1>11 DEF Return, Height
  <2>2. Completed = matrix /\ Completed' = matrix'
    BY <2>1, NoRowInWork, NoRowInWorkNext
  <2> QED
    BY <1>2, <1>11, <2>1, <2>2
<1>12. CASE UNCHANGED callVars
  BY <1>12 DEF callVars, vars, Preserved, Completed, Height, Width
<1>13. CASE Returned
  BY <1>12, <1>13 DEF Returned
<1> QED
  BY <1>3, <1>4, <1>5, <1>6, <1>7, <1>8, <1>9, <1>10, <1>11, <1>12, <1>13 DEF CallNext, CallStep, Step

\* The invariant holds throughout a call.
LEMMA SpecCallInv == CallSpec => []CallInv
<1>1. CallInit => CallInv
  <2> SUFFICES ASSUME CallInit PROVE CallInv
    OBVIOUS
  <2>1. IInv
    BY InitIInv DEF CallInit
  <2> QED
    BY <2>1 DEF CallInit, CallInv, Init, Skipped, Preserved
<1>2. CallInv /\ [CallNext]_callVars => CallInv'
  BY CallIsStep, StepIInv, StepSkipped, StepPreserved DEF CallInv
<1> QED
  BY <1>1, <1>2, PTL DEF CallSpec
-----------------------------------------------------------------------------
(* A system with one solution.                                             *)

\* A vector that is not zero and that every row of m sends to zero, when column j has
\* no entry from row j on and the columns before it are those of the unit matrix.
Kernel(m, n, j) ==
  [c \in 1..n |-> IF c = j THEN 1 ELSE IF c < j THEN (0 - m[c][j]) % Order ELSE 0]

\* The columns before j are those of the unit matrix.
UnitBefore(m, n, j) ==
  \A c \in 1..(j - 1), r \in 1..n : m[r][c] = (IF r = c THEN 1 ELSE 0)

\* Kernel is a vector.
LEMMA KernelType ==
  ASSUME NEW n \in Nat, NEW m, System(m, n), NEW j \in 1..n
  PROVE  Kernel(m, n, j) \in [1..n -> Zr]
<1>1. 0 \in Zr /\ 1 \in Zr
  BY OrderAssumption DEF Zr
<1>2. ASSUME NEW c \in 1..n PROVE (0 - m[c][j]) % Order \in Zr
  <2>1. m[c][j] \in Int
    BY Elements DEF System
  <2>2. 0 - m[c][j] \in Int
    BY <2>1
  <2> QED
    BY <2>2, Mod
<1> QED
  BY <1>1, <1>2 DEF Kernel

\* Every row of such a system sends it to zero.
LEMMA KernelVanishes ==
  ASSUME NEW n \in Nat, NEW m, System(m, n), NEW j \in 1..n, UnitBefore(m, n, j),
         \A r \in j..n : m[r][j] = 0, NEW r \in 1..n
  PROVE  Product(m[r], Kernel(m, n, j), n) = 0
<1> DEFINE y == Kernel(m, n, j)
           v == m[r]
           s == [c \in 0..n |-> IF r <= c /\ c < j THEN y[r] ELSE 0]
<1>1. \A c \in 1..n : v[c] \in Zr /\ v[c] \in Int
  BY Elements DEF System
<1>2. \A c \in 1..n : y[c] \in Zr /\ y[c] \in Int /\ y[c] % Order = y[c]
  BY KernelType, Elements
<1>3. 0 % Order = 0 /\ 0 \in Zr
  BY OrderAssumption DEF Zr
<1>4. /\ y[j] = 1
      /\ \A c \in 1..n : c > j => y[c] = 0
      /\ r < j => y[r] = (0 - v[j]) % Order
  BY DEF Kernel
<1>5. \A c \in 1..n : c < j => v[c] = (IF r = c THEN 1 ELSE 0)
  BY DEF UnitBefore
<1>6. r >= j => v[j] = 0
  OBVIOUS
<1> HIDE DEF y, v
<1>7. ASSUME NEW c \in 1..n PROVE s[c] = (s[c - 1] + v[c] * y[c]) % Order
  <2>1. v[c] \in Int /\ y[c] \in Int /\ y[r] \in Int /\ y[r] % Order = y[r]
    BY <1>1, <1>2
  <2>2. CASE c < j /\ c < r
    <3>1. s[c] = 0 /\ s[c - 1] = 0 /\ v[c] = 0
      BY <1>5, <2>2
    <3>2. 0 + 0 * y[c] = 0
      BY <2>1
    <3> QED
      BY <1>3, <3>1, <3>2
  <2>3. CASE c < j /\ c = r
    <3>1. s[c] = y[r] /\ s[c - 1] = 0 /\ v[c] = 1
      BY <1>5, <2>3
    <3>2. 0 + 1 * y[r] = y[r]
      BY <2>1
    <3> QED
      BY <2>1, <2>3, <3>1, <3>2
  <2>4. CASE c < j /\ c > r
    <3>1. s[c] = y[r] /\ s[c - 1] = y[r] /\ v[c] = 0
      BY <1>5, <2>4
    <3>2. y[r] + 0 * y[c] = y[r]
      BY <2>1
    <3> QED
      BY <2>1, <3>1, <3>2
  <2>5. CASE c = j /\ r < j
    <3>1. s[c] = 0 /\ s[c - 1] = y[r] /\ y[c] = 1 /\ y[r] = (0 - v[j]) % Order
      BY <1>4, <2>5
    <3>2. (1 * ((0 - v[j] * 1) % Order) + 1 * v[j]) % Order = 0
      BY <1>1, <1>3, UndoReduce
    <3>3. 0 - v[j] * 1 = 0 - v[j]
      BY <1>1
    <3>4. 1 * y[r] + 1 * v[j] = y[r] + v[j] * 1
      BY <1>1, <2>1
    <3> QED
      BY <2>5, <3>1, <3>2, <3>3, <3>4
  <2>6. CASE c = j /\ r >= j
    <3>1. s[c] = 0 /\ s[c - 1] = 0 /\ v[c] = 0
      BY <1>6, <2>6
    <3>2. 0 + 0 * y[c] = 0
      BY <2>1
    <3> QED
      BY <1>3, <3>1, <3>2
  <2>7. CASE c > j
    <3>1. s[c] = 0 /\ s[c - 1] = 0 /\ y[c] = 0
      BY <1>4, <2>7
    <3>2. 0 + v[c] * 0 = 0
      BY <2>1
    <3> QED
      BY <1>3, <3>1, <3>2
  <2> QED
    BY <2>2, <2>3, <2>4, <2>5, <2>6, <2>7
<1>8. s \in [0..n -> Zr] /\ s[0] = 0
  BY <1>2, <1>3
<1>9. s[n] = 0
  OBVIOUS
<1> HIDE DEF s
<1>10. Sums(v, y, n, s)
  BY <1>7, <1>8 DEF Sums
<1> QED
  BY <1>9, <1>10, ProductIsLastSum DEF v, y

\* Such a system has no solution or more than one.
LEMMA SkippedNotUnique ==
  ASSUME NEW n \in Nat, NEW m, System(m, n), NEW j \in 1..n, UnitBefore(m, n, j),
         \A r \in j..n : m[r][j] = 0, NEW x \in [1..n -> Zr], Solves(m, n, x)
  PROVE  \E z \in [1..n -> Zr] : z # x /\ Solves(m, n, z)
<1> DEFINE y == Kernel(m, n, j)
           z == [c \in 1..n |-> (1 * x[c] + 1 * y[c]) % Order]
<1>1. Numbers(x, n) /\ Numbers(y, n) /\ y \in [1..n -> Zr]
  BY KernelType, VectorInZr, NumbersInZr
<1>2. \A c \in 1..n : x[c] \in Int /\ y[c] \in Int
  BY <1>1, Elements
<1>3. z \in [1..n -> Zr]
  <2>1. ASSUME NEW c \in 1..n PROVE (1 * x[c] + 1 * y[c]) % Order \in Zr
    <3>1. 1 * x[c] + 1 * y[c] \in Int
      BY <1>2
    <3> QED
      BY <3>1, Mod
  <2> QED
    BY <2>1
<1>4. Combined(z, 1, x, 1, y, n)
  BY DEF Combined
<1>5. z # x
  <2>1. y[j] = 1
    BY DEF Kernel
  <2>2. z[j] = (1 * x[j] + 1 * y[j]) % Order
    OBVIOUS
  <2>3. 1 * x[j] + 1 * y[j] = x[j] + 1
    BY <1>2, <2>1
  <2>4. x[j] \in Int /\ 0 <= x[j] /\ x[j] < Order
    BY Elements
  <2>5. (x[j] + 1) % Order # x[j]
    <3>1. Order \in Nat /\ Order > 1
      BY OrderAssumption
    <3>2. CASE x[j] + 1 < Order
      BY <2>4, <3>1, <3>2
    <3>3. CASE x[j] + 1 = Order
      BY <2>4, <3>1, <3>3
    <3> QED
      BY <2>4, <3>1, <3>2, <3>3
  <2> QED
    BY <2>2, <2>3, <2>5
<1> HIDE DEF y, z
<1>6. ASSUME NEW r \in 1..n PROVE Holds(m[r], z, n)
  <2>1. Numbers(m[r], n) /\ Numbers(z, n)
    BY <1>3, RowsInZr, VectorInZr, NumbersInZr
  <2>2. Product(z, m[r], n) = (1 * Product(x, m[r], n) + 1 * Product(y, m[r], n)) % Order
    <3>1. 1 \in Int
      OBVIOUS
    <3> QED
      BY <1>1, <1>4, <2>1, <3>1, CombineRows
  <2>3. Product(y, m[r], n) = 0
    <3>1. Product(m[r], y, n) = 0
      BY KernelVanishes DEF y
    <3> QED
      BY <1>1, <2>1, <3>1, ProductCommutes
  <2>4. Product(x, m[r], n) = m[r][n + 1] /\ Product(z, m[r], n) = Product(m[r], z, n)
    BY <1>1, <2>1, ProductCommutes DEF Solves, Holds
  <2>5. m[r][n + 1] \in Zr
    BY DEF System
  <2>6. m[r][n + 1] \in Int /\ m[r][n + 1] % Order = m[r][n + 1]
    BY <2>5, Elements
  <2>7. 1 * m[r][n + 1] + 1 * 0 = m[r][n + 1]
    BY <2>6
  <2> QED
    BY <2>2, <2>3, <2>4, <2>6, <2>7 DEF Holds
<1> QED
  BY <1>3, <1>5, <1>6 DEF Solves

\* Solutions in terms of Solves.
LEMMA SolutionsOf ==
  ASSUME NEW m, NEW n, Len(m) = n
  PROVE  Solutions(m) = {x \in [1..n -> Zr] : Solves(m, n, x)}
BY DEF Solutions, Solves, Holds

\* Between two columns no row is in work: the completed system is the matrix.
LEMMA InvSameSolutions == CallInv => SameSolutions
<1> SUFFICES ASSUME CallInv, phase \in {"column", "solved"}
             PROVE  Solutions(matrix) = Solutions(given)
  BY DEF SameSolutions
<1> USE DEF CallInv, IInv
<1>1. Completed = matrix
  BY NoRowInWork
<1>2. Len(given) = Height /\ Len(matrix) = Height
  BY DEF Preserved, Height
<1>3. \A x \in [1..Height -> Zr] : Solves(matrix, Height, x) <=> Solves(given, Height, x)
  BY <1>1 DEF Preserved
<1> QED
  BY <1>2, <1>3, SolutionsOf

\* With one solution no column was passed over, the matrix is the unit matrix
\* and its last column the solution.
LEMMA InvSolvesRegular == CallInv => SolvesRegular
<1> SUFFICES ASSUME CallInv, phase = "solved", NEW x \in Solutions(given), Solutions(given) = {x}
             PROVE  res = x
  BY DEF SolvesRegular
<1> USE DEF CallInv, IInv
<1> DEFINE n == Height
<1>1. n \in Nat /\ System(matrix, n) /\ Width = n + 1 /\ col = n + 1
  BY DEF TypeOK, Width, System, Loops
<1>2. Solutions(matrix) = {x}
  BY InvSameSolutions DEF SameSolutions
<1> HIDE DEF n
<1>3. {x} = {z \in [1..n -> Zr] : Solves(matrix, n, z)}
  BY <1>2, SolutionsOf DEF Height, n
<1>4. \A z \in [1..n -> Zr] : Solves(matrix, n, z) => z = x
  BY <1>3
<1>5. x \in [1..n -> Zr] /\ Solves(matrix, n, x)
  BY <1>3
<1>6. \A c \in 1..n : matrix[c][c] # 0
  <2> DEFINE T == {c \in 1..n : matrix[c][c] = 0}
  <2> SUFFICES ASSUME T # {} PROVE FALSE
    OBVIOUS
  <2>1. PICK j \in T : \A c \in T : j <= c
    <3>1. T \subseteq Nat
      BY <1>1
    <3> HIDE DEF T
    <3> QED
      BY <3>1, LeastNumber
  <2>2. j \in 1..n /\ \A c \in 1..(j - 1) : matrix[c][c] # 0
    BY <1>1, <2>1
  <2>3. UnitBefore(matrix, n, j)
    BY <1>1, <2>2 DEF UnitColumns, UnitBefore, n
  <2>4. \A r \in j..n : matrix[r][j] = 0
    BY <1>1, <2>1 DEF Skipped, n
  <2>5. \E z \in [1..n -> Zr] : z # x /\ Solves(matrix, n, z)
    BY <1>1, <1>5, <2>2, <2>3, <2>4, SkippedNotUnique
  <2> QED
    BY <1>4, <2>5
<1>7. ASSUME NEW r \in 1..n PROVE matrix[r][n + 1] = x[r]
  <2>1. \A c \in 1..n : matrix[r][c] = (IF c = r THEN 1 ELSE 0)
    BY <1>1, <1>6 DEF UnitColumns, n
  <2>2. Product(matrix[r], x, n) = x[r]
    <3>1. Numbers(x, n) /\ x[r] % Order = x[r]
      BY <1>1, <1>5, VectorInZr, NumbersInZr, Elements
    <3>2. Product(matrix[r], x, n) = x[r] % Order
      BY <1>1, <2>1, <3>1, UnitProduct
    <3> QED
      BY <3>1, <3>2
  <2> QED
    BY <1>5, <2>2 DEF Solves, Holds
<1>8. res = [r \in 1..n |-> matrix[r][n + 1]]
  BY <1>1 DEF res, n
<1> QED
  BY <1>5, <1>7, <1>8

-----------------------------------------------------------------------------
(* Theorems.                                                               *)

\* The cells stay in the matrix and the values in Zr, for every system and
\* every field: divisions are by a pivot that is not zero.
THEOREM SolveTypeOK == Spec => []TypeOK
BY SpecIInv, PTL DEF IInv

\* A row from col on never again has an entry in a column before col.
THEOREM SolveEchelon == Spec => []Echelon
BY SpecIInv, PTL DEF IInv

\* Every column that had a pivot is that of the unit matrix when solve returns.
THEOREM SolveUnitColumns == Spec => []UnitColumns
BY SpecIInv, PTL DEF IInv

\* Elimination keeps the solutions: whatever system solve is called with and over
\* whatever field, between two columns the matrix has the solutions of that system.
THEOREM SolveKeepsSolutions == CallSpec => []SameSolutions
BY SpecCallInv, InvSameSolutions, PTL

\* solve is right: what it returns for a system with exactly one solution is that
\* solution, for every system and every field.
THEOREM SolveReturnsTheSolution == CallSpec => []SolvesRegular
BY SpecCallInv, InvSolvesRegular, PTL
=============================================================================
