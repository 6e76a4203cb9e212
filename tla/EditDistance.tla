---------------------------- MODULE EditDistance ----------------------------
(***************************************************************************)
(* calculateEditDistance of the enclave (Server/Enclave/Enclave.cpp): the  *)
(* dynamic program that compares the client's keyword with one entry of    *)
(* the word table.  One action per loop iteration.                         *)
(***************************************************************************)
EXTENDS Integers, Sequences, Alignment

CONSTANTS Char,   \* the characters a keyword is made of
          Word    \* the keywords that may be compared, sequences of Char

ASSUME WordAssumption == \A w \in Word : w \in Seq(Char)

VARIABLES word1, word2,   \* the two arguments
          dp,             \* the table; dp[p, q] compares prefixes of p and q letters
          i, j,           \* the loop counters
          pc              \* the loop that runs

vars == <<word1, word2, dp, i, j, pc>>

m == Len(word1)
n == Len(word2)

TypeOK ==
  /\ word1 \in Word
  /\ word2 \in Word
  /\ dp \in [(0..m) \X (0..n) -> Nat]
  /\ i \in 1..(m + 1)
  /\ j \in 1..(n + 1)
  /\ pc \in {"column", "row", "cell", "done"}

Init ==
  /\ word1 \in Word
  /\ word2 \in Word
  /\ dp = [cell \in (0..m) \X (0..n) |-> 0]
  /\ i = 1
  /\ j = 1
  /\ pc = "column"

Column ==
  /\ pc = "column"
  /\ i <= m
  /\ dp' = [dp EXCEPT ![<<i, 0>>] = i]
  /\ i' = i + 1
  /\ UNCHANGED <<word1, word2, j, pc>>

ColumnEnd ==
  /\ pc = "column"
  /\ i > m
  /\ pc' = "row"
  /\ UNCHANGED <<word1, word2, dp, i, j>>

\* A slip: one iteration too many.
RowTooFar ==
  /\ pc = "row"
  /\ j <= n + 1
  /\ dp' = [dp EXCEPT ![<<0, j>>] = j]
  /\ j' = j + 1
  /\ UNCHANGED <<word1, word2, i, pc>>

Row ==
  /\ pc = "row"
  /\ j <= n
  /\ dp' = [dp EXCEPT ![<<0, j>>] = j]
  /\ j' = j + 1
  /\ UNCHANGED <<word1, word2, i, pc>>

RowEnd ==
  /\ pc = "row"
  /\ j > n
  /\ pc' = "cell"
  /\ i' = 1
  /\ j' = 1
  /\ UNCHANGED <<word1, word2, dp>>

Least(a, b) == IF a <= b THEN a ELSE b

\* Two slips the inner loop could have: no replacement, and no "+ 1".
RecurrenceNoReplace(t, p, q) ==
  IF word1[p] = word2[q]
  THEN t[<<p - 1, q - 1>>]
  ELSE Least(t[<<p, q - 1>>], t[<<p - 1, q>>]) + 1

RecurrenceNoCost(t, p, q) ==
  IF word1[p] = word2[q]
  THEN t[<<p - 1, q - 1>>]
  ELSE Least(t[<<p - 1, q - 1>>], Least(t[<<p, q - 1>>], t[<<p - 1, q>>]))

\* What the two branches of the inner loop store.
Recurrence(t, p, q) ==
  IF word1[p] = word2[q]
  THEN t[<<p - 1, q - 1>>]
  ELSE Least(t[<<p - 1, q - 1>>], Least(t[<<p, q - 1>>], t[<<p - 1, q>>])) + 1

Cell ==
  /\ pc = "cell"
  /\ i <= m
  /\ j <= n
  /\ dp' = [dp EXCEPT ![<<i, j>>] = Recurrence(dp, i, j)]
  /\ j' = j + 1
  /\ UNCHANGED <<word1, word2, i, pc>>

NextRow ==
  /\ pc = "cell"
  /\ i <= m
  /\ j > n
  /\ i' = i + 1
  /\ j' = 1
  /\ UNCHANGED <<word1, word2, dp, pc>>

Return ==
  /\ pc = "cell"
  /\ i > m
  /\ pc' = "done"
  /\ UNCHANGED <<word1, word2, dp, i, j>>

Returned == pc = "done" /\ UNCHANGED vars

Next == Column \/ ColumnEnd \/ Row \/ RowEnd \/ Cell \/ NextRow \/ Return \/ Returned

Spec == Init /\ [][Next]_vars

result == dp[<<m, n>>]

-----------------------------------------------------------------------------
(* Which cells hold their final value.                                     *)

Filled(p, q) ==
  \/ p = 0 /\ q = 0
  \/ q = 0 /\ (pc = "column" => p < i)
  \/ p = 0 /\ (pc = "cell" \/ pc = "done" \/ (pc = "row" /\ q < j))
  \/ p > 0 /\ q > 0 /\ (pc = "done" \/ (pc = "cell" /\ (p < i \/ (p = i /\ q < j))))

Penalty(p, q) == IF word1[p] = word2[q] THEN 0 ELSE 1

\* The value calculateEditDistance returns (Enclave.cpp:262) is the length of
\* the shortest sequence of insertions, deletions and replacements.
ReturnsLevenshtein == pc = "done" => result = Levenshtein(word1, word2)

\* Taking the diagonal without looking at the two other neighbours when the
\* letters agree (Enclave.cpp:252-254) loses nothing: every filled cell is the
\* least of the three edits, as in the textbook recurrence.
ShortcutIsOptimal ==
  \A p \in 0..m, q \in 0..n : Filled(p, q) =>
    /\ q = 0 => dp[<<p, q>>] = p
    /\ p = 0 => dp[<<p, q>>] = q
    /\ p > 0 /\ q > 0 =>
         dp[<<p, q>>] = Least(dp[<<p - 1, q - 1>>] + Penalty(p, q),
                              Least(dp[<<p, q - 1>>], dp[<<p - 1, q>>]) + 1)

\* One more letter, in either word, changes the distance by at most one.  The
\* shortcut is optimal because of it.
NeighboursClose ==
  \A p \in 0..m, q \in 0..n : Filled(p, q) =>
    /\ p > 0 => /\ dp[<<p, q>>] <= dp[<<p - 1, q>>] + 1
                /\ dp[<<p - 1, q>>] <= dp[<<p, q>>] + 1
    /\ q > 0 => /\ dp[<<p, q>>] <= dp[<<p, q - 1>>] + 1
                /\ dp[<<p, q - 1>>] <= dp[<<p, q>>] + 1

\* A distance is never below the difference of the lengths nor above the longer
\* length, so the threshold of step_1 (Enclave.cpp:329) only lets words through
\* whose lengths differ by at most two.
Bounds ==
  \A p \in 0..m, q \in 0..n : Filled(p, q) =>
    /\ p <= dp[<<p, q>>] + q
    /\ q <= dp[<<p, q>>] + p
    /\ dp[<<p, q>>] <= p \/ dp[<<p, q>>] <= q

\* Two prefixes are at distance zero exactly when they are the same word: what
\* step_1 takes for an exact match (Enclave.cpp:350-355) is one.
ZeroIffEqual ==
  \A p \in 0..m, q \in 0..n : Filled(p, q) =>
    (dp[<<p, q>>] = 0 <=> p = q /\ \A k \in 1..p : word1[k] = word2[k])
=============================================================================
