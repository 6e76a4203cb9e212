------------------------- MODULE EditDistanceProofs -------------------------
(***************************************************************************)
(* What calculateEditDistance computes, for words of any length over any   *)
(* alphabet.  The inductive invariant is IInv: the properties of the table *)
(* strengthened with what the loop counters say of the cells filled so     *)
(* far.                                                                    *)
(***************************************************************************)
EXTENDS EditDistance, FiniteSetTheorems, TLAPS

\* The first loop leaves j at its initial value, so the second starts at cell
\* (0, 1); without it the step from "column" to "row" would promise cells that
\* nobody filled.
Counters == pc = "column" => j = 1

IInv ==
  /\ TypeOK
  /\ Counters
  /\ ShortcutIsOptimal
  /\ NeighboursClose
  /\ Bounds
  /\ ZeroIffEqual

LEMMA LengthsAreNat ==
  ASSUME word1 \in Word, word2 \in Word
  PROVE  m \in Nat /\ n \in Nat
BY WordAssumption DEF m, n

LEMMA InitIInv == Init => IInv
<1> SUFFICES ASSUME Init PROVE IInv
  OBVIOUS
<1>1. m \in Nat /\ n \in Nat
  BY LengthsAreNat DEF Init
<1>2. TypeOK /\ Counters
  BY <1>1 DEF Init, TypeOK, Counters
<1>3. \A p \in 0..m, q \in 0..n : Filled(p, q) <=> p = 0 /\ q = 0
  BY <1>1 DEF Init, Filled
<1>4. dp[<<0, 0>>] = 0
  BY <1>1 DEF Init
<1> QED
  BY <1>1, <1>2, <1>3, <1>4
  DEF IInv, ShortcutIsOptimal, NeighboursClose, Bounds, ZeroIffEqual

\* Type correctness is inductive on its own.
LEMMA TypeStep == TypeOK /\ [Next]_vars => TypeOK'
<1> SUFFICES ASSUME TypeOK, [Next]_vars PROVE TypeOK'
  OBVIOUS
<1>1. m \in Nat /\ n \in Nat
  BY LengthsAreNat DEF TypeOK
<1>2. CASE Column
  BY <1>1, <1>2 DEF TypeOK, Column, m, n
<1>3. CASE ColumnEnd
  BY <1>1, <1>3 DEF TypeOK, ColumnEnd, m, n
<1>4. CASE Row
  BY <1>1, <1>4 DEF TypeOK, Row, m, n
<1>5. CASE RowEnd
  BY <1>1, <1>5 DEF TypeOK, RowEnd, m, n
<1>6. CASE Cell
  <2>1. /\ <<i - 1, j - 1>> \in (0..m) \X (0..n)
        /\ <<i, j - 1>> \in (0..m) \X (0..n)
        /\ <<i - 1, j>> \in (0..m) \X (0..n)
    BY <1>1, <1>6 DEF TypeOK, Cell
  <2>2. Recurrence(dp, i, j) \in Nat
    BY <2>1 DEF TypeOK, Recurrence, Least
  <2> QED
    BY <1>1, <1>6, <2>2 DEF TypeOK, Cell, m, n
<1>7. CASE NextRow
  BY <1>1, <1>7 DEF TypeOK, NextRow, m, n
<1>8. CASE Return
  BY <1>1, <1>8 DEF TypeOK, Return, m, n
<1>9. CASE Returned \/ UNCHANGED vars
  BY <1>9 DEF TypeOK, Returned, vars, m, n
<1> QED
  BY <1>2, <1>3, <1>4, <1>5, <1>6, <1>7, <1>8, <1>9 DEF Next

-----------------------------------------------------------------------------
(* What each step does to the set of filled cells and to their values.     *)

\* A step of a border loop or of the inner loop fills the cell (x, y) with v
\* and leaves every other cell alone.
Fills(x, y, v) ==
  /\ x \in 0..m /\ y \in 0..n
  /\ v \in Nat
  /\ ~Filled(x, y)
  /\ dp'[<<x, y>>] = v
  /\ \A p \in 0..m, q \in 0..n :
       /\ Filled(p, q)' <=> Filled(p, q) \/ (p = x /\ q = y)
       /\ p # x \/ q # y => dp'[<<p, q>>] = dp[<<p, q>>]

LEMMA ColumnFills == IInv /\ Column => Fills(i, 0, i)
<1> SUFFICES ASSUME IInv, Column PROVE Fills(i, 0, i)
  OBVIOUS
<1>1. m \in Nat /\ n \in Nat
  BY LengthsAreNat DEF IInv, TypeOK
<1>2. i \in 1..m
  BY <1>1 DEF IInv, TypeOK, Column
<1>3. /\ dp'[<<i, 0>>] = i
      /\ \A p \in 0..m, q \in 0..n : p # i \/ q # 0 => dp'[<<p, q>>] = dp[<<p, q>>]
  BY <1>1, <1>2 DEF IInv, TypeOK, Column
<1>4. \A p \in 0..m, q \in 0..n : Filled(p, q)' <=> Filled(p, q) \/ (p = i /\ q = 0)
  BY <1>1, <1>2 DEF Column, Filled
<1>5. ~Filled(i, 0)
  BY <1>2 DEF Column, Filled
<1> QED
  BY <1>1, <1>2, <1>3, <1>4, <1>5 DEF Fills

LEMMA RowFills == IInv /\ Row => Fills(0, j, j)
<1> SUFFICES ASSUME IInv, Row PROVE Fills(0, j, j)
  OBVIOUS
<1>1. m \in Nat /\ n \in Nat
  BY LengthsAreNat DEF IInv, TypeOK
<1>2. j \in 1..n
  BY <1>1 DEF IInv, TypeOK, Row
<1>3. /\ dp'[<<0, j>>] = j
      /\ \A p \in 0..m, q \in 0..n : p # 0 \/ q # j => dp'[<<p, q>>] = dp[<<p, q>>]
  BY <1>1, <1>2 DEF IInv, TypeOK, Row
<1>4. \A p \in 0..m, q \in 0..n : Filled(p, q)' <=> Filled(p, q) \/ (p = 0 /\ q = j)
  BY <1>1, <1>2 DEF Row, Filled
<1>5. ~Filled(0, j)
  BY <1>2 DEF Row, Filled
<1> QED
  BY <1>1, <1>2, <1>3, <1>4, <1>5 DEF Fills

LEMMA CellFills ==
  IInv /\ Cell => /\ Fills(i, j, Recurrence(dp, i, j))
                  /\ i \in 1..m /\ j \in 1..n
                  /\ Filled(i - 1, j - 1) /\ Filled(i, j - 1) /\ Filled(i - 1, j)
<1> SUFFICES ASSUME IInv, Cell
             PROVE  /\ Fills(i, j, Recurrence(dp, i, j))
                    /\ i \in 1..m /\ j \in 1..n
                    /\ Filled(i - 1, j - 1) /\ Filled(i, j - 1) /\ Filled(i - 1, j)
  OBVIOUS
<1>1. m \in Nat /\ n \in Nat
  BY LengthsAreNat DEF IInv, TypeOK
<1>2. i \in 1..m /\ j \in 1..n
  BY <1>1 DEF IInv, TypeOK, Cell
<1>3. Recurrence(dp, i, j) \in Nat
  <2>1. /\ <<i - 1, j - 1>> \in (0..m) \X (0..n)
        /\ <<i, j - 1>> \in (0..m) \X (0..n)
        /\ <<i - 1, j>> \in (0..m) \X (0..n)
    BY <1>1, <1>2
  <2> QED
    BY <2>1 DEF IInv, TypeOK, Recurrence, Least
<1>4. /\ dp'[<<i, j>>] = Recurrence(dp, i, j)
      /\ \A p \in 0..m, q \in 0..n : p # i \/ q # j => dp'[<<p, q>>] = dp[<<p, q>>]
  BY <1>1, <1>2 DEF IInv, TypeOK, Cell
<1>5. \A p \in 0..m, q \in 0..n : Filled(p, q)' <=> Filled(p, q) \/ (p = i /\ q = j)
  BY <1>1, <1>2 DEF Cell, Filled
<1>6. ~Filled(i, j)
  BY <1>2 DEF Cell, Filled
<1>7. Filled(i - 1, j - 1) /\ Filled(i, j - 1) /\ Filled(i - 1, j)
  BY <1>2 DEF Cell, Filled
<1> QED
  BY <1>1, <1>2, <1>3, <1>4, <1>5, <1>6, <1>7 DEF Fills

\* The steps between the loops fill nothing and forget nothing.
LEMMA OthersFillNothing ==
  IInv /\ (ColumnEnd \/ RowEnd \/ NextRow \/ Return \/ Returned \/ UNCHANGED vars) =>
    dp' = dp /\ \A p \in 0..m, q \in 0..n : Filled(p, q)' <=> Filled(p, q)
<1> SUFFICES ASSUME IInv,
                    ColumnEnd \/ RowEnd \/ NextRow \/ Return \/ Returned \/ UNCHANGED vars
             PROVE  dp' = dp /\ \A p \in 0..m, q \in 0..n : Filled(p, q)' <=> Filled(p, q)
  OBVIOUS
<1>1. m \in Nat /\ n \in Nat
  BY LengthsAreNat DEF IInv, TypeOK
<1>2. CASE ColumnEnd
  BY <1>1, <1>2 DEF IInv, TypeOK, Counters, ColumnEnd, Filled
<1>3. CASE RowEnd
  BY <1>1, <1>3 DEF IInv, TypeOK, RowEnd, Filled
<1>4. CASE NextRow
  BY <1>1, <1>4 DEF IInv, TypeOK, NextRow, Filled
<1>5. CASE Return
  BY <1>1, <1>5 DEF IInv, TypeOK, Return, Filled
<1>6. CASE Returned \/ UNCHANGED vars
  BY <1>6 DEF Returned, vars, Filled
<1> QED
  BY <1>2, <1>3, <1>4, <1>5, <1>6

\* The words, hence their lengths, never change.
LEMMA WordsKept == [Next]_vars => word1' = word1 /\ word2' = word2 /\ m' = m /\ n' = n
BY DEF Next, vars, m, n, Column, ColumnEnd, Row, RowEnd, Cell, NextRow, Return, Returned

-----------------------------------------------------------------------------
(* The properties of the table survive the filling of one more cell.       *)

\* The neighbours above and to the left of a filled cell are filled.
LEMMA FilledClosed ==
  ASSUME TypeOK, NEW p \in 0..m, NEW q \in 0..n, Filled(p, q)
  PROVE  /\ p > 0 => Filled(p - 1, q)
         /\ q > 0 => Filled(p, q - 1)
         /\ p > 0 /\ q > 0 => Filled(p - 1, q - 1)
<1>1. m \in Nat /\ n \in Nat
  BY LengthsAreNat DEF TypeOK
<1> QED
  BY <1>1 DEF TypeOK, Filled

LEMMA BorderCells ==
  ASSUME ShortcutIsOptimal, m \in Nat, n \in Nat
  PROVE  /\ \A p \in 0..m : Filled(p, 0) => dp[<<p, 0>>] = p
         /\ \A q \in 0..n : Filled(0, q) => dp[<<0, q>>] = q
<1>1. 0 \in 0..m /\ 0 \in 0..n
  OBVIOUS
<1> QED
  BY <1>1 DEF ShortcutIsOptimal

\* The value the code gives to the cell (x, y).
CodeValue(x, y, v) ==
  /\ y = 0 => v = x
  /\ x = 0 => v = y
  /\ x > 0 /\ y > 0 => v = Recurrence(dp, x, y)

LEMMA FillKeepsTable ==
  ASSUME IInv, TypeOK', word1' = word1, word2' = word2, m' = m, n' = n,
         NEW x, NEW y, NEW v, Fills(x, y, v), CodeValue(x, y, v),
         x > 0 => Filled(x - 1, y),
         y > 0 => Filled(x, y - 1),
         x > 0 /\ y > 0 => Filled(x - 1, y - 1)
  PROVE  ShortcutIsOptimal' /\ NeighboursClose' /\ Bounds' /\ ZeroIffEqual'
<1>1. m \in Nat /\ n \in Nat
  BY LengthsAreNat DEF IInv, TypeOK
<1>2. x \in 0..m /\ y \in 0..n /\ v \in Nat
  BY DEF Fills
<1>3. \A p \in 0..m, q \in 0..n : dp[<<p, q>>] \in Nat /\ dp'[<<p, q>>] \in Nat
  BY <1>1 DEF IInv, TypeOK
<1>4. \A p \in 0..m, q \in 0..n : Filled(p, q)' <=> Filled(p, q) \/ (p = x /\ q = y)
  BY DEF Fills
<1>5. dp'[<<x, y>>] = v
  BY DEF Fills
<1>6. \A p \in 0..m, q \in 0..n : Filled(p, q) => dp'[<<p, q>>] = dp[<<p, q>>]
  BY DEF Fills
<1>7. /\ x > 0 => dp'[<<x - 1, y>>] = dp[<<x - 1, y>>]
      /\ y > 0 => dp'[<<x, y - 1>>] = dp[<<x, y - 1>>]
      /\ x > 0 /\ y > 0 => dp'[<<x - 1, y - 1>>] = dp[<<x - 1, y - 1>>]
  BY <1>1, <1>2, <1>6
<1>8. ASSUME NEW p \in 0..m, NEW q \in 0..n, Filled(p, q)
      PROVE  /\ dp'[<<p, q>>] = dp[<<p, q>>]
             /\ p > 0 => dp'[<<p - 1, q>>] = dp[<<p - 1, q>>]
             /\ q > 0 => dp'[<<p, q - 1>>] = dp[<<p, q - 1>>]
             /\ p > 0 /\ q > 0 => dp'[<<p - 1, q - 1>>] = dp[<<p - 1, q - 1>>]
  BY <1>1, <1>6, <1>8, FilledClosed DEF IInv
<1>9. \A p \in 1..m, q \in 1..n : Penalty(p, q)' = Penalty(p, q)
  BY DEF Penalty
\* The old neighbours of (x, y) are close to one another.
<1>10. x > 0 /\ y > 0 =>
         /\ dp[<<x - 1, y>>] <= dp[<<x - 1, y - 1>>] + 1
         /\ dp[<<x - 1, y - 1>>] <= dp[<<x - 1, y>>] + 1
         /\ dp[<<x, y - 1>>] <= dp[<<x - 1, y - 1>>] + 1
         /\ dp[<<x - 1, y - 1>>] <= dp[<<x, y - 1>>] + 1
  <2> SUFFICES ASSUME x > 0, y > 0
               PROVE  /\ dp[<<x - 1, y>>] <= dp[<<x - 1, y - 1>>] + 1
                      /\ dp[<<x - 1, y - 1>>] <= dp[<<x - 1, y>>] + 1
                      /\ dp[<<x, y - 1>>] <= dp[<<x - 1, y - 1>>] + 1
                      /\ dp[<<x - 1, y - 1>>] <= dp[<<x, y - 1>>] + 1
    OBVIOUS
  <2>1. x - 1 \in 0..m /\ y - 1 \in 0..n
    BY <1>1, <1>2
  <2>2. NeighboursClose
    BY DEF IInv
  <2>3. /\ dp[<<x - 1, y>>] <= dp[<<x - 1, y - 1>>] + 1
        /\ dp[<<x - 1, y - 1>>] <= dp[<<x - 1, y>>] + 1
    BY <1>2, <2>1, <2>2 DEF NeighboursClose
  <2>4. /\ dp[<<x, y - 1>>] <= dp[<<x - 1, y - 1>>] + 1
        /\ dp[<<x - 1, y - 1>>] <= dp[<<x, y - 1>>] + 1
    BY <1>2, <2>1, <2>2 DEF NeighboursClose
  <2> QED
    BY <2>3, <2>4
<1>11. x > 0 /\ y > 0 =>
         /\ dp[<<x - 1, y - 1>>] \in Nat
         /\ dp[<<x - 1, y>>] \in Nat
         /\ dp[<<x, y - 1>>] \in Nat
         /\ Penalty(x, y) \in {0, 1}
  BY <1>1, <1>2, <1>3 DEF Penalty
<1>12. x > 0 /\ y > 0 =>
         v = Least(dp[<<x - 1, y - 1>>] + Penalty(x, y),
                   Least(dp[<<x, y - 1>>], dp[<<x - 1, y>>]) + 1)
  BY <1>2, <1>10, <1>11 DEF CodeValue, Recurrence, Penalty, Least
<1>13. ShortcutIsOptimal'
  <2> SUFFICES ASSUME NEW p \in 0..m, NEW q \in 0..n, Filled(p, q)'
               PROVE  /\ q = 0 => dp'[<<p, q>>] = p
                      /\ p = 0 => dp'[<<p, q>>] = q
                      /\ p > 0 /\ q > 0 =>
                           dp'[<<p, q>>] =
                             Least(dp'[<<p - 1, q - 1>>] + Penalty(p, q)',
                                   Least(dp'[<<p, q - 1>>], dp'[<<p - 1, q>>]) + 1)
    BY DEF ShortcutIsOptimal, Least
  <2>1. CASE Filled(p, q)
    BY <1>8, <1>9, <2>1 DEF IInv, ShortcutIsOptimal
  <2>2. CASE p = x /\ q = y
    BY <1>2, <1>5, <1>7, <1>9, <1>12, <2>2 DEF CodeValue
  <2> QED
    BY <1>4, <2>1, <2>2
<1>14. NeighboursClose'
  <2> SUFFICES ASSUME NEW p \in 0..m, NEW q \in 0..n, Filled(p, q)'
               PROVE  /\ p > 0 => /\ dp'[<<p, q>>] <= dp'[<<p - 1, q>>] + 1
                                  /\ dp'[<<p - 1, q>>] <= dp'[<<p, q>>] + 1
                      /\ q > 0 => /\ dp'[<<p, q>>] <= dp'[<<p, q - 1>>] + 1
                                  /\ dp'[<<p, q - 1>>] <= dp'[<<p, q>>] + 1
    BY DEF NeighboursClose
  <2>1. CASE Filled(p, q)
    BY <1>8, <2>1 DEF IInv, NeighboursClose
  <2>2. CASE x > 0 /\ y > 0 /\ p = x /\ q = y
    BY <1>2, <1>5, <1>7, <1>10, <1>11, <1>12, <2>2 DEF Least
  <2>3. CASE x = 0 /\ p = x /\ q = y
    <3>1. y > 0 => dp'[<<x, y - 1>>] = y - 1
      <4>1. y > 0 => dp[<<x, y - 1>>] = y - 1
        BY <1>1, <1>2, <2>3, BorderCells DEF IInv
      <4> QED
        BY <1>7, <4>1
    <3>2. dp'[<<x, y>>] = y
      BY <1>5, <2>3 DEF CodeValue
    <3> QED
      BY <1>2, <2>3, <3>1, <3>2
  <2>4. CASE y = 0 /\ p = x /\ q = y
    <3>1. x > 0 => dp'[<<x - 1, y>>] = x - 1
      <4>1. x > 0 => dp[<<x - 1, y>>] = x - 1
        BY <1>1, <1>2, <2>4, BorderCells DEF IInv
      <4> QED
        BY <1>7, <4>1
    <3>2. dp'[<<x, y>>] = x
      BY <1>5, <2>4 DEF CodeValue
    <3> QED
      BY <1>2, <2>4, <3>1, <3>2
  <2> QED
    BY <1>2, <1>4, <2>1, <2>2, <2>3, <2>4
<1>15. Bounds'
  <2> SUFFICES ASSUME NEW p \in 0..m, NEW q \in 0..n, Filled(p, q)'
               PROVE  /\ p <= dp'[<<p, q>>] + q
                      /\ q <= dp'[<<p, q>>] + p
                      /\ dp'[<<p, q>>] <= p \/ dp'[<<p, q>>] <= q
    BY DEF Bounds
  <2>1. CASE Filled(p, q)
    BY <1>8, <2>1 DEF IInv, Bounds
  <2>2. CASE x > 0 /\ y > 0 /\ p = x /\ q = y
    <3>1. /\ x - 1 <= dp[<<x - 1, y - 1>>] + y - 1
          /\ y - 1 <= dp[<<x - 1, y - 1>>] + x - 1
          /\ dp[<<x - 1, y - 1>>] <= x - 1 \/ dp[<<x - 1, y - 1>>] <= y - 1
          /\ x <= dp[<<x, y - 1>>] + y - 1
          /\ y - 1 <= dp[<<x, y - 1>>] + x
          /\ x - 1 <= dp[<<x - 1, y>>] + y
          /\ y <= dp[<<x - 1, y>>] + x - 1
      BY <1>1, <1>2, <1>11, <2>2 DEF IInv, Bounds
    <3> QED
      BY <1>2, <1>5, <1>11, <1>12, <2>2, <3>1 DEF Least
  <2>3. CASE (x = 0 \/ y = 0) /\ p = x /\ q = y
    BY <1>2, <1>5, <2>3 DEF CodeValue
  <2> QED
    BY <1>2, <1>4, <2>1, <2>2, <2>3
<1>16. ZeroIffEqual'
  <2> SUFFICES ASSUME NEW p \in 0..m, NEW q \in 0..n, Filled(p, q)'
               PROVE  dp'[<<p, q>>] = 0 <=>
                        p = q /\ \A k \in 1..p : word1[k] = word2[k]
    BY DEF ZeroIffEqual
  <2>1. CASE Filled(p, q)
    <3>1. ZeroIffEqual
      BY DEF IInv
    <3>2. dp[<<p, q>>] = 0 <=> p = q /\ \A k \in 1..p : word1[k] = word2[k]
      BY <2>1, <3>1 DEF ZeroIffEqual
    <3> QED
      BY <1>6, <2>1, <3>2
  <2>2. CASE x > 0 /\ y > 0 /\ p = x /\ q = y
    <3>1. v = 0 <=> dp[<<x - 1, y - 1>>] = 0 /\ word1[x] = word2[y]
      BY <1>2, <1>11, <1>12, <2>2 DEF Least, Penalty
    <3>2. dp[<<x - 1, y - 1>>] = 0 <=>
            x - 1 = y - 1 /\ \A k \in 1..(x - 1) : word1[k] = word2[k]
      BY <1>1, <1>2, <2>2 DEF IInv, ZeroIffEqual
    <3>3. (x - 1 = y - 1 /\ \A k \in 1..(x - 1) : word1[k] = word2[k]) /\ word1[x] = word2[y]
            <=> x = y /\ \A k \in 1..x : word1[k] = word2[k]
      BY <1>2, <2>2
    <3> QED
      BY <1>5, <2>2, <3>1, <3>2, <3>3
  <2>3. CASE (x = 0 \/ y = 0) /\ p = x /\ q = y
    BY <1>2, <1>5, <2>3 DEF CodeValue
  <2> QED
    BY <1>2, <1>4, <2>1, <2>2, <2>3
<1> QED
  BY <1>13, <1>14, <1>15, <1>16

LEMMA NextIInv == IInv /\ [Next]_vars => IInv'
<1> SUFFICES ASSUME IInv, [Next]_vars PROVE IInv'
  OBVIOUS
<1>1. TypeOK'
  BY TypeStep DEF IInv
<1>2. word1' = word1 /\ word2' = word2 /\ m' = m /\ n' = n
  BY WordsKept
<1>3. m \in Nat /\ n \in Nat
  BY LengthsAreNat DEF IInv, TypeOK
<1>4. Counters'
  BY DEF IInv, Counters, Next, vars, Column, ColumnEnd, Row, RowEnd, Cell,
         NextRow, Return, Returned
<1>5. CASE Column
  <2>1. Fills(i, 0, i) /\ i \in 1..m
    BY <1>3, <1>5, ColumnFills DEF IInv, TypeOK, Column
  <2>2. CodeValue(i, 0, i) /\ Filled(i - 1, 0)
    BY <1>5, <2>1 DEF CodeValue, Filled, Column
  <2> QED
    BY <1>1, <1>2, <1>4, <2>1, <2>2, FillKeepsTable DEF IInv
<1>6. CASE Row
  <2>1. Fills(0, j, j) /\ j \in 1..n
    BY <1>3, <1>6, RowFills DEF IInv, TypeOK, Row
  <2>2. CodeValue(0, j, j) /\ Filled(0, j - 1)
    BY <1>6, <2>1 DEF CodeValue, Filled, Row
  <2> QED
    BY <1>1, <1>2, <1>4, <2>1, <2>2, FillKeepsTable DEF IInv
<1>7. CASE Cell
  <2>1. /\ Fills(i, j, Recurrence(dp, i, j))
        /\ i \in 1..m /\ j \in 1..n
        /\ Filled(i - 1, j - 1) /\ Filled(i, j - 1) /\ Filled(i - 1, j)
    BY <1>7, CellFills
  <2>2. CodeValue(i, j, Recurrence(dp, i, j))
    BY <2>1 DEF CodeValue
  <2> QED
    BY <1>1, <1>2, <1>4, <2>1, <2>2, FillKeepsTable DEF IInv
<1>8. CASE ColumnEnd \/ RowEnd \/ NextRow \/ Return \/ Returned \/ UNCHANGED vars
  <2>1. dp' = dp /\ \A p \in 0..m, q \in 0..n : Filled(p, q)' <=> Filled(p, q)
    BY <1>8, OthersFillNothing
  <2>2. \A p, q : Penalty(p, q)' = Penalty(p, q)
    BY <1>2 DEF Penalty
  <2>3. ShortcutIsOptimal' /\ NeighboursClose' /\ Bounds' /\ ZeroIffEqual'
    BY <1>2, <2>1, <2>2
    DEF IInv, ShortcutIsOptimal, NeighboursClose, Bounds, ZeroIffEqual, Least
  <2> QED
    BY <1>1, <1>4, <2>3 DEF IInv
<1> QED
  BY <1>5, <1>6, <1>7, <1>8 DEF Next

-----------------------------------------------------------------------------
(***************************************************************************)
(* The table holds Levenshtein distances.  A cell is compared with the     *)
(* alignments of the two prefixes it stands for; the last one stands for   *)
(* the words.                                                              *)
(***************************************************************************)

Lineups(p, q) ==
  {a \in SUBSET ((1..p) \X (1..q)) : \A x, y \in a : x[1] < y[1] <=> x[2] < y[2]}

Changed(a) == {x \in a : word1[x[1]] # word2[x[2]]}

Cost(a, p, q) == (p - Cardinality(a)) + (q - Cardinality(a)) + Cardinality(Changed(a))

IsDistance(d, p, q) ==
  /\ \E a \in Lineups(p, q) : Cost(a, p, q) = d
  /\ \A a \in Lineups(p, q) : d <= Cost(a, p, q)

CellsAreDistances ==
  \A p \in 0..m, q \in 0..n : Filled(p, q) => IsDistance(dp[<<p, q>>], p, q)

LEMMA LineupFinite ==
  ASSUME NEW p \in Nat, NEW q \in Nat, NEW a \in Lineups(p, q)
  PROVE  /\ IsFiniteSet(a) /\ Cardinality(a) \in Nat
         /\ IsFiniteSet(Changed(a)) /\ Cardinality(Changed(a)) \in Nat
<1>1. IsFiniteSet((1..p) \X (1..q))
  <2>1. IsFiniteSet(1..p) /\ IsFiniteSet(1..q)
    BY FS_Interval
  <2> QED
    BY <2>1, FS_Product
<1>2. a \in SUBSET ((1..p) \X (1..q))
  BY DEF Lineups
<1>3. IsFiniteSet(a)
  BY <1>1, <1>2, FS_Subset
<1>4. IsFiniteSet(Changed(a))
  BY <1>3, FS_Subset DEF Changed
<1> QED
  BY <1>3, <1>4, FS_CardinalityType

\* A lineup of shorter prefixes is one of longer ones, with more letters left
\* over.
LEMMA LineupGrows ==
  ASSUME NEW p \in Nat, NEW q \in Nat, NEW a \in Lineups(p, q)
  PROVE  /\ a \in Lineups(p + 1, q) /\ Cost(a, p + 1, q) = Cost(a, p, q) + 1
         /\ a \in Lineups(p, q + 1) /\ Cost(a, p, q + 1) = Cost(a, p, q) + 1
         /\ Cost(a, p, q) \in Int
<1>1. (1..p) \X (1..q) \subseteq (1..(p + 1)) \X (1..q)
      /\ (1..p) \X (1..q) \subseteq (1..p) \X (1..(q + 1))
  OBVIOUS
<1>2. a \in Lineups(p + 1, q) /\ a \in Lineups(p, q + 1)
  BY <1>1 DEF Lineups
<1>3. Cardinality(a) \in Nat /\ Cardinality(Changed(a)) \in Nat
  BY LineupFinite
<1> QED
  BY <1>2, <1>3 DEF Cost

\* Two more letters may be put opposite each other.
LEMMA LineupPairs ==
  ASSUME NEW p \in Nat \ {0}, NEW q \in Nat \ {0}, NEW a \in Lineups(p - 1, q - 1)
  PROVE  /\ a \cup {<<p, q>>} \in Lineups(p, q)
         /\ Cost(a \cup {<<p, q>>}, p, q) = Cost(a, p - 1, q - 1) + Penalty(p, q)
<1> DEFINE z == <<p, q>>
           b == a \cup {z}
<1>1. p - 1 \in Nat /\ q - 1 \in Nat
  OBVIOUS
<1>2. a \in SUBSET ((1..(p - 1)) \X (1..(q - 1)))
      /\ \A x, y \in a : x[1] < y[1] <=> x[2] < y[2]
  BY DEF Lineups
<1>3. \A x \in a : x[1] \in 1..(p - 1) /\ x[2] \in 1..(q - 1)
  BY <1>2
<1>4. z \notin a /\ z[1] = p /\ z[2] = q
  BY <1>3
<1>5. b \in SUBSET ((1..p) \X (1..q))
  <2>1. (1..(p - 1)) \X (1..(q - 1)) \subseteq (1..p) \X (1..q) /\ z \in (1..p) \X (1..q)
    OBVIOUS
  <2> QED
    BY <1>2, <2>1
<1>6. ASSUME NEW x \in b, NEW y \in b PROVE x[1] < y[1] <=> x[2] < y[2]
  BY <1>2, <1>3, <1>4
<1>7. b \in Lineups(p, q)
  BY <1>5, <1>6 DEF Lineups
<1>8. IsFiniteSet(a) /\ Cardinality(a) \in Nat
      /\ IsFiniteSet(Changed(a)) /\ Cardinality(Changed(a)) \in Nat
  BY <1>1, LineupFinite
<1>9. Cardinality(b) = Cardinality(a) + 1
  BY <1>4, <1>8, FS_AddElement
<1>10. Cardinality(Changed(b)) = Cardinality(Changed(a)) + Penalty(p, q)
  <2>1. CASE word1[p] = word2[q]
    <3>1. Changed(b) = Changed(a)
      BY <1>4, <2>1 DEF Changed
    <3> QED
      BY <1>8, <2>1, <3>1 DEF Penalty
  <2>2. CASE word1[p] # word2[q]
    <3>1. Changed(b) = Changed(a) \cup {z} /\ z \notin Changed(a)
      BY <1>4, <2>2 DEF Changed
    <3>2. Cardinality(Changed(b)) = Cardinality(Changed(a)) + 1
      BY <1>8, <3>1, FS_AddElement
    <3> QED
      BY <2>2, <3>2 DEF Penalty
  <2> QED
    BY <2>1, <2>2
<1>11. Penalty(p, q) \in Int
  BY DEF Penalty
<1> HIDE DEF b
<1>12. Cost(b, p, q) = Cost(a, p - 1, q - 1) + Penalty(p, q)
  BY <1>8, <1>9, <1>10, <1>11 DEF Cost
<1> QED
  BY <1>7, <1>12 DEF b

\* In a lineup the two last letters are opposite each other or one of them is
\* left over: two pairs that crossed would be the only other way.
LEMMA LineupShrinks ==
  ASSUME NEW p \in Nat \ {0}, NEW q \in Nat \ {0}, NEW a \in Lineups(p, q)
  PROVE  \/ \E b \in Lineups(p - 1, q - 1) : a = b \cup {<<p, q>>}
         \/ a \in Lineups(p - 1, q)
         \/ a \in Lineups(p, q - 1)
<1>1. a \in SUBSET ((1..p) \X (1..q)) /\ \A x, y \in a : x[1] < y[1] <=> x[2] < y[2]
  BY DEF Lineups
<1>2. \A x \in a : x[1] \in 1..p /\ x[2] \in 1..q /\ x = <<x[1], x[2]>>
  BY <1>1
<1>3. CASE <<p, q>> \in a
  <2> DEFINE b == a \ {<<p, q>>}
  <2>1. \A x \in b : x[1] # p /\ x[2] # q
    <3> SUFFICES ASSUME NEW x \in b PROVE x[1] # p /\ x[2] # q
      OBVIOUS
    <3>1. /\ x[1] \in 1..p /\ x[2] \in 1..q /\ (x[1] # p \/ x[2] # q)
          /\ x[1] < p <=> x[2] < q
      BY <1>1, <1>2, <1>3
    <3> QED
      BY <3>1
  <2>2. \A x \in b : x \in (1..(p - 1)) \X (1..(q - 1))
    <3> SUFFICES ASSUME NEW x \in b PROVE x \in (1..(p - 1)) \X (1..(q - 1))
      OBVIOUS
    <3>1. x[1] \in 1..(p - 1) /\ x[2] \in 1..(q - 1) /\ x = <<x[1], x[2]>>
      BY <1>2, <2>1
    <3> QED
      BY <3>1
  <2>3. b \in Lineups(p - 1, q - 1)
    BY <1>1, <2>2 DEF Lineups
  <2> QED
    BY <1>3, <2>3
<1>4. CASE \A x \in a : x[1] # p
  <2>1. \A x \in a : x \in (1..(p - 1)) \X (1..q)
    <3> SUFFICES ASSUME NEW x \in a PROVE x \in (1..(p - 1)) \X (1..q)
      OBVIOUS
    <3>1. x[1] \in 1..(p - 1) /\ x[2] \in 1..q /\ x = <<x[1], x[2]>>
      BY <1>2, <1>4
    <3> QED
      BY <3>1
  <2> QED
    BY <1>1, <2>1 DEF Lineups
<1>5. CASE \A x \in a : x[2] # q
  <2>1. \A x \in a : x \in (1..p) \X (1..(q - 1))
    <3> SUFFICES ASSUME NEW x \in a PROVE x \in (1..p) \X (1..(q - 1))
      OBVIOUS
    <3>1. x[1] \in 1..p /\ x[2] \in 1..(q - 1) /\ x = <<x[1], x[2]>>
      BY <1>2, <1>5
    <3> QED
      BY <3>1
  <2> QED
    BY <1>1, <2>1 DEF Lineups
<1>6. ASSUME NEW x \in a, x[1] = p, NEW y \in a, y[2] = q, <<p, q>> \notin a PROVE FALSE
  <2>1. /\ x[2] \in 1..q /\ y[1] \in 1..p /\ x[2] # q /\ y[1] # p
        /\ y[1] < x[1] <=> y[2] < x[2]
    BY <1>1, <1>2, <1>6
  <2> QED
    BY <1>6, <2>1
<1> QED
  BY <1>3, <1>4, <1>5, <1>6

LEMMA BorderDistance ==
  ASSUME NEW p \in Nat, NEW q \in Nat, p = 0 \/ q = 0
  PROVE  IsDistance(p + q, p, q)
<1>1. (1..p) \X (1..q) = {}
  OBVIOUS
<1>2. Lineups(p, q) = {{}}
  BY <1>1 DEF Lineups
<1>3. Changed({}) = {} /\ Cardinality({}) = 0
  BY FS_EmptySet DEF Changed
<1>4. Cost({}, p, q) = p + q
  BY <1>3 DEF Cost
<1> QED
  BY <1>2, <1>4 DEF IsDistance

\* The textbook recurrence.
LEMMA InnerDistance ==
  ASSUME NEW p \in Nat \ {0}, NEW q \in Nat \ {0}, NEW d \in Nat, NEW up \in Nat, NEW side \in Nat,
         IsDistance(d, p - 1, q - 1), IsDistance(up, p - 1, q), IsDistance(side, p, q - 1)
  PROVE  IsDistance(Least(d + Penalty(p, q), Least(side, up) + 1), p, q)
<1> DEFINE v == Least(d + Penalty(p, q), Least(side, up) + 1)
<1>1. Penalty(p, q) \in Nat /\ p - 1 \in Nat /\ q - 1 \in Nat /\ (p - 1) + 1 = p /\ (q - 1) + 1 = q
  BY DEF Penalty
<1>2. /\ v \in {d + Penalty(p, q), side + 1, up + 1}
      /\ v <= d + Penalty(p, q) /\ v <= side + 1 /\ v <= up + 1 /\ v \in Nat
  BY <1>1 DEF Least
<1> HIDE DEF v
<1>3. \E a \in Lineups(p, q) : Cost(a, p, q) = d + Penalty(p, q)
  <2>1. PICK a \in Lineups(p - 1, q - 1) : Cost(a, p - 1, q - 1) = d
    BY DEF IsDistance
  <2> QED
    BY <2>1, LineupPairs
<1>4. \E a \in Lineups(p, q) : Cost(a, p, q) = up + 1
  <2>1. PICK a \in Lineups(p - 1, q) : Cost(a, p - 1, q) = up
    BY DEF IsDistance
  <2>2. a \in Lineups((p - 1) + 1, q) /\ Cost(a, (p - 1) + 1, q) = up + 1
    BY <1>1, <2>1, LineupGrows
  <2> QED
    BY <1>1, <2>2
<1>5. \E a \in Lineups(p, q) : Cost(a, p, q) = side + 1
  <2>1. PICK a \in Lineups(p, q - 1) : Cost(a, p, q - 1) = side
    BY DEF IsDistance
  <2>2. a \in Lineups(p, (q - 1) + 1) /\ Cost(a, p, (q - 1) + 1) = side + 1
    BY <1>1, <2>1, LineupGrows
  <2> QED
    BY <1>1, <2>2
<1>6. ASSUME NEW a \in Lineups(p, q) PROVE v <= Cost(a, p, q)
  <2>1. CASE \E b \in Lineups(p - 1, q - 1) : a = b \cup {<<p, q>>}
    <3>1. PICK b \in Lineups(p - 1, q - 1) : a = b \cup {<<p, q>>}
      BY <2>1
    <3>2. Cost(a, p, q) = Cost(b, p - 1, q - 1) + Penalty(p, q) /\ d <= Cost(b, p - 1, q - 1)
          /\ Cost(b, p - 1, q - 1) \in Int
      BY <1>1, <3>1, LineupPairs, LineupGrows DEF IsDistance
    <3> QED
      BY <1>1, <1>2, <3>2
  <2>2. CASE a \in Lineups(p - 1, q)
    <3>1. Cost(a, (p - 1) + 1, q) = Cost(a, p - 1, q) + 1 /\ Cost(a, p - 1, q) \in Int
      BY <1>1, <2>2, LineupGrows
    <3>2. up <= Cost(a, p - 1, q)
      BY <2>2 DEF IsDistance
    <3> QED
      BY <1>1, <1>2, <3>1, <3>2
  <2>3. CASE a \in Lineups(p, q - 1)
    <3>1. Cost(a, p, (q - 1) + 1) = Cost(a, p, q - 1) + 1 /\ Cost(a, p, q - 1) \in Int
      BY <1>1, <2>3, LineupGrows
    <3>2. side <= Cost(a, p, q - 1)
      BY <2>3 DEF IsDistance
    <3> QED
      BY <1>1, <1>2, <3>1, <3>2
  <2> QED
    BY <2>1, <2>2, <2>3, LineupShrinks
<1>7. \E a \in Lineups(p, q) : Cost(a, p, q) = v
  BY <1>2, <1>3, <1>4, <1>5
<1>8. IsDistance(v, p, q)
  BY <1>6, <1>7 DEF IsDistance
<1> QED
  BY <1>8 DEF v

\* Filling one more cell, from neighbours that are distances.
LEMMA FillKeepsDistances ==
  ASSUME IInv, IInv', CellsAreDistances, word1' = word1, word2' = word2, m' = m, n' = n,
         NEW x, NEW y, NEW v, Fills(x, y, v),
         x > 0 => Filled(x - 1, y),
         y > 0 => Filled(x, y - 1),
         x > 0 /\ y > 0 => Filled(x - 1, y - 1)
  PROVE  CellsAreDistances'
<1>1. m \in Nat /\ n \in Nat /\ x \in 0..m /\ y \in 0..n
  BY LengthsAreNat DEF IInv, TypeOK, Fills
<1>2. \A d, p, q : IsDistance(d, p, q)' <=> IsDistance(d, p, q)
  BY DEF IsDistance, Cost, Changed
<1>3. \A p \in 0..m, q \in 0..n : Filled(p, q) =>
        dp'[<<p, q>>] = dp[<<p, q>>] /\ IsDistance(dp'[<<p, q>>], p, q)
  BY DEF Fills, CellsAreDistances
<1>4. IsDistance(dp'[<<x, y>>], x, y)
  <2>1. Filled(x, y)'
    BY <1>1 DEF Fills
  <2>2. /\ y = 0 => dp'[<<x, y>>] = x
        /\ x = 0 => dp'[<<x, y>>] = y
        /\ x > 0 /\ y > 0 =>
             dp'[<<x, y>>] = Least(dp'[<<x - 1, y - 1>>] + Penalty(x, y),
                                   Least(dp'[<<x, y - 1>>], dp'[<<x - 1, y>>]) + 1)
    BY <1>1, <2>1 DEF IInv, ShortcutIsOptimal, Penalty, Least
  <2>3. CASE x = 0 \/ y = 0
    <3>1. dp'[<<x, y>>] = x + y
      BY <1>1, <2>2, <2>3
    <3> QED
      BY <1>1, <2>3, <3>1, BorderDistance
  <2>4. CASE x > 0 /\ y > 0
    <3>1. x - 1 \in 0..m /\ y - 1 \in 0..n /\ x \in Nat \ {0} /\ y \in Nat \ {0}
      BY <1>1, <2>4
    <3>2. /\ IsDistance(dp'[<<x - 1, y - 1>>], x - 1, y - 1)
          /\ IsDistance(dp'[<<x - 1, y>>], x - 1, y)
          /\ IsDistance(dp'[<<x, y - 1>>], x, y - 1)
      BY <1>1, <1>3, <2>4, <3>1
    <3>3. /\ dp'[<<x - 1, y - 1>>] \in Nat /\ dp'[<<x - 1, y>>] \in Nat
          /\ dp'[<<x, y - 1>>] \in Nat
      BY <1>1, <3>1 DEF IInv, TypeOK
    <3> QED
      BY <2>2, <2>4, <3>1, <3>2, <3>3, InnerDistance
  <2> QED
    BY <1>1, <2>3, <2>4
<1>5. \A p \in 0..m, q \in 0..n : Filled(p, q)' => IsDistance(dp'[<<p, q>>], p, q)
  BY <1>3, <1>4 DEF Fills
<1> QED
  BY <1>2, <1>5 DEF CellsAreDistances

LEMMA InitDistances == Init => CellsAreDistances
<1> SUFFICES ASSUME Init PROVE CellsAreDistances
  OBVIOUS
<1>1. m \in Nat /\ n \in Nat
  BY LengthsAreNat DEF Init
<1>2. \A p \in 0..m, q \in 0..n : Filled(p, q) <=> p = 0 /\ q = 0
  BY <1>1 DEF Init, Filled
<1>3. dp[<<0, 0>>] = 0
  BY <1>1 DEF Init
<1>4. IsDistance(0, 0, 0)
  BY BorderDistance
<1> QED
  BY <1>2, <1>3, <1>4 DEF CellsAreDistances

LEMMA DistancesStep == IInv /\ IInv' /\ CellsAreDistances /\ [Next]_vars => CellsAreDistances'
<1> SUFFICES ASSUME IInv, IInv', CellsAreDistances, [Next]_vars PROVE CellsAreDistances'
  OBVIOUS
<1>1. word1' = word1 /\ word2' = word2 /\ m' = m /\ n' = n
  BY WordsKept
<1>2. m \in Nat /\ n \in Nat
  BY LengthsAreNat DEF IInv, TypeOK
<1>3. CASE Column
  <2>1. Fills(i, 0, i) /\ i \in 1..m
    BY <1>2, <1>3, ColumnFills DEF IInv, TypeOK, Column
  <2>2. Filled(i - 1, 0)
    BY <1>3, <2>1 DEF Filled, Column
  <2> QED
    BY <1>1, <2>1, <2>2, FillKeepsDistances
<1>4. CASE Row
  <2>1. Fills(0, j, j) /\ j \in 1..n
    BY <1>2, <1>4, RowFills DEF IInv, TypeOK, Row
  <2>2. Filled(0, j - 1)
    BY <1>4, <2>1 DEF Filled, Row
  <2> QED
    BY <1>1, <2>1, <2>2, FillKeepsDistances
<1>5. CASE Cell
  BY <1>1, <1>5, CellFills, FillKeepsDistances
<1>6. CASE ColumnEnd \/ RowEnd \/ NextRow \/ Return \/ Returned \/ UNCHANGED vars
  <2>1. dp' = dp /\ \A p \in 0..m, q \in 0..n : Filled(p, q)' <=> Filled(p, q)
    BY <1>6, OthersFillNothing
  <2>2. \A d, p, q : IsDistance(d, p, q)' <=> IsDistance(d, p, q)
    BY <1>1 DEF IsDistance, Cost, Changed
  <2> QED
    BY <1>1, <2>1, <2>2 DEF CellsAreDistances
<1> QED
  BY <1>3, <1>4, <1>5, <1>6 DEF Next

\* The last cell is compared with the alignments of the two words.
LEMMA LastCell == TypeOK /\ CellsAreDistances => ReturnsLevenshtein
<1> SUFFICES ASSUME TypeOK, CellsAreDistances, pc = "done"
             PROVE  result = Levenshtein(word1, word2)
  BY DEF ReturnsLevenshtein
<1>1. /\ m \in Nat /\ n \in Nat /\ DOMAIN word1 = 1..m /\ DOMAIN word2 = 1..n
      /\ m = Len(word1) /\ n = Len(word2)
  BY WordAssumption DEF TypeOK, m, n
<1>2. Filled(m, n)
  BY <1>1 DEF Filled
<1>3. IsDistance(result, m, n) /\ result \in Nat
  BY <1>1, <1>2 DEF CellsAreDistances, result, TypeOK
<1>4. Alignments(word1, word2) = Lineups(m, n)
  BY <1>1 DEF Alignments, Lineups
<1>5. \A a : Edits(a, word1, word2) = Cost(a, m, n)
  BY <1>1 DEF Edits, Cost, Changed
<1> DEFINE E == {Edits(a, word1, word2) : a \in Alignments(word1, word2)}
<1>6. result \in E /\ \A y \in E : result <= y
  BY <1>3, <1>4, <1>5 DEF IsDistance
<1>7. \A y \in E : y \in Int
  BY <1>1, <1>4, <1>5, LineupGrows
<1> HIDE DEF E
<1>8. \A y \in E : (\A z \in E : y <= z) => y = result
  BY <1>3, <1>6, <1>7
<1>9. Min(E) = result
  BY <1>6, <1>8 DEF Min
<1> QED
  BY <1>9 DEF E, Levenshtein

-----------------------------------------------------------------------------
LEMMA Invariance == Spec => []IInv
BY InitIInv, NextIInv, PTL DEF Spec

\* The table, the counters and the loop of calculateEditDistance have the
\* types the code relies on: no index leaves the table.
THEOREM EditDistanceTypeOK == Spec => []TypeOK
BY Invariance, PTL DEF IInv

\* The shortcut for equal letters never misses a cheaper edit.
THEOREM EditDistanceOptimal == Spec => []ShortcutIsOptimal
BY Invariance, PTL DEF IInv

\* One more letter changes the distance by at most one.
THEOREM EditDistanceNeighbours == Spec => []NeighboursClose
BY Invariance, PTL DEF IInv

\* The distance lies between the difference of the lengths and the longer one.
THEOREM EditDistanceBounds == Spec => []Bounds
BY Invariance, PTL DEF IInv

\* Distance zero means the same word.
THEOREM EditDistanceZero == Spec => []ZeroIffEqual
BY Invariance, PTL DEF IInv

\* What calculateEditDistance returns is the Levenshtein distance of the two
\* words: no alignment of their letters needs fewer edits (Enclave.cpp:262).
THEOREM EditDistanceReturnsLevenshtein == Spec => []ReturnsLevenshtein
<1>1. Init => CellsAreDistances
  BY InitDistances
<1>2. IInv /\ IInv' /\ CellsAreDistances /\ [Next]_vars => CellsAreDistances'
  BY DistancesStep
<1>3. IInv /\ CellsAreDistances => ReturnsLevenshtein
  BY LastCell DEF IInv
<1> QED
  BY <1>1, <1>2, <1>3, Invariance, PTL DEF Spec
=============================================================================
