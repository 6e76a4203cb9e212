--------------------------- MODULE SessionProofs ---------------------------
(***************************************************************************)
(* Proofs about the two modules that look closer at one session.           *)
(*                                                                         *)
(* Enclave, for every heap, table and cost: what the requests so far can   *)
(* have left in the heap bounds what is missing from it, and while the     *)
(* heap holds that much no call fails.  A heap that holds the table once   *)
(* never has a table with gaps searched.                                   *)
(*                                                                         *)
(* Framing, for all texts, sizes of fields, answers and numbers of         *)
(* requests: what is under way between two reads is always a whole number  *)
(* of fields, those the reader expects next.                               *)
(***************************************************************************)
EXTENDS Enclave, Framing, Integers, FiniteSetTheorems, SequenceTheorems, WellFoundedInduction, TLAPS

-----------------------------------------------------------------------------
(* The enclave.                                                            *)

Inside == {"decrypt", "compare", "reencrypt"}

List == MaxList * Cost["number"]
Table == TableSize * Cost["keyword"]

\* The bridge's copies exist while a call runs, and are those of that call.
HeldOK ==
  alive =>
    /\ pc \notin Inside => held = 0
    /\ pc = "decrypt" => held = Cost["tableCopy"]
    /\ pc = "compare" => held = Cost["matchCopy"]
    /\ pc = "reencrypt" => held = Cost["replyCopy"]

\* What the requests before this one, and this one, may have left in the heap.
Past == (IF pc \in {"recv", "down"} THEN requests ELSE requests - 1) * MaxLeak
This ==
  CASE pc = "decrypt" -> k * Cost["keyword"]
    [] pc \in {"step_1", "compare"} -> Table
    [] pc = "answer" -> Table + Cost["distances"]
    [] pc \in {"next", "write"} -> Table + Cost["distances"] + idx * List
    [] pc \in {"step_3", "reencrypt"} -> Table + Cost["distances"] + (idx - 1) * List
    [] OTHER -> 0

LeakOK == alive => heap <= free + held + Past + This

\* The table is whole, or it is the first, which the heap has room for.
TableOK ==
  alive /\ Cost["tableCopy"] + Table + Cost["context"] <= heap =>
    \/ filled = Entries
    \/ pc \in {"recv", "fetch_table"} /\ free = heap
    \/ /\ pc = "decrypt" /\ \A i \in 0..(k - 1) : i \in filled
       /\ free = heap - Cost["tableCopy"] - k * Cost["keyword"]

RequestOK ==
  /\ pc # "recv" => requests > 0
  /\ pc \in Replying => location <= TableSize /\ idx <= location
  /\ pc \in Replying \ {"next"} => idx > 0

BudgetOK ==
  WithinBudget =>
    /\ alive /\ ~stale
    /\ pc \in {"answer"} \cup Replying => location = Hits[word]
    /\ pc = "write" => result = "whole"

IInv == TypeOK /\ HeldOK /\ LeakOK /\ TableOK /\ RequestOK /\ BudgetOK

\* TypeOK without the truth values, which are left to another prover.
NumbersOK ==
  /\ free \in Nat /\ held \in Nat /\ free + held <= heap
  /\ heap \in Heaps
  /\ k \in 0..TableSize /\ filled \subseteq Entries
  /\ requests \in 0..MaxRequests
  /\ word \in Word
  /\ location \in 0..Unknown
  /\ idx \in 0..Unknown
ValuesOK ==
  /\ alive \in BOOLEAN /\ stale \in BOOLEAN
  /\ result \in {"none", "part", "whole"}
  /\ pc \in {"recv", "fetch_table", "decrypt", "step_1", "compare", "answer", "next",
             "step_3", "reencrypt", "write", "down"}

USE DEF Kind

-----------------------------------------------------------------------------
(* Arithmetic.                                                             *)

\* A product of naturals is a natural that grows with its factors.
LEMMA Product ==
  ASSUME NEW a \in Nat, NEW b \in Nat
  PROVE  a * b \in Nat
BY SMT

LEMMA ProductGrows ==
  ASSUME NEW a \in Nat, NEW b \in Nat, NEW c \in Nat, a <= b
  PROVE  a * c <= b * c
BY SMT

LEMMA ProductGrowsRight ==
  ASSUME NEW a \in Nat, NEW b \in Nat, NEW c \in Nat, a <= b
  PROVE  c * a <= c * b
BY SMT

\* What the assumptions say of each constant.
LEMMA Sizes ==
  /\ TableSize \in Nat /\ TableSize > 0 /\ MaxList \in Nat /\ MaxList > 0
  /\ MaxRequests \in Nat /\ Heaps \subseteq Nat
  /\ \A x \in Kind : Cost[x] \in Nat /\ Cost[x] > 0
  /\ \A w \in Word : /\ Near[w] \in Nat /\ Hits[w] \in Nat
                     /\ Hits[w] <= Near[w] /\ Near[w] <= TableSize /\ Hits[w] <= TableSize
<1>1. TableSize \in Nat /\ TableSize > 0 /\ MaxList \in Nat /\ MaxList > 0
  BY SizeAssumption
<1>2. \A x \in Kind : Cost[x] \in Nat /\ Cost[x] > 0
  BY SizeAssumption, SMT
<1>3. \A w \in Word : /\ Near[w] \in Nat /\ Hits[w] \in Nat
                      /\ Hits[w] <= Near[w] /\ Near[w] <= TableSize /\ Hits[w] <= TableSize
  <2> TAKE w \in Word
  <2>1. Near[w] \in Nat /\ Hits[w] \in Nat /\ Hits[w] <= Near[w] /\ Near[w] <= TableSize
    BY MatchAssumption
  <2> QED BY <1>1, <2>1, SMT
<1> QED BY <1>1, <1>2, <1>3, SizeAssumption

\* The sums of the costs are naturals.
LEMMA Costs ==
  /\ List \in Nat /\ Table \in Nat /\ MaxLeak \in Nat /\ Peak \in Nat
  /\ MaxLeak = Table + Cost["distances"] + TableSize * List
<1>1. List \in Nat /\ Table \in Nat /\ TableSize * Cost["index"] \in Nat
        /\ MaxList * Cost["entry"] \in Nat
  BY Sizes, Product DEF List, Table
<1>2. TableSize * List \in Nat
  BY <1>1, Sizes, Product
<1> QED BY <1>1, <1>2, Sizes, SMT DEF MaxLeak, Peak, List, Table

\* The table has finitely many entries.
LEMMA TableFinite ==
  ASSUME filled \subseteq Entries
  PROVE  Cardinality(filled) \in Nat /\ Cardinality(Entries \ filled) \in Nat
<1>1. IsFiniteSet(Entries)
  BY Sizes, FS_Interval DEF Entries
<1> QED
  BY <1>1, FS_Subset, FS_CardinalityType

\* What the loop over the table finds, and of a whole table with the request read.
LEMMA FoundAre ==
  ASSUME NumbersOK, NEW f \in Found
  PROVE  /\ f.near \in Nat /\ f.hits \in 0..TableSize
         /\ filled = Entries /\ ~(Cost["context"] > free) =>
              f.near = Near[word] /\ f.hits = Hits[word]
<1>1. Cardinality(filled) \in Nat
  BY TableFinite DEF NumbersOK
<1>2. f \in [near : 0..Cardinality(filled), hits : 0..TableSize]
  BY Zenon DEF Found
<1>3. ASSUME filled = Entries, ~(Cost["context"] > free)
      PROVE  f.near = Near[word] /\ f.hits = Hits[word]
  <2>1. Cardinality(Entries \ filled) = 0
    <3>1. Entries \ filled = {}
      BY <1>3
    <3> QED
      BY <3>1, FS_EmptySet
  <2>2. /\ f.near <= Near[word] /\ Near[word] <= f.near + Cardinality(Entries \ filled)
        /\ f.hits \in (IF Cardinality(Entries \ filled) = 0 THEN {} ELSE {f.near}) \cup {Hits[word]}
    BY <1>3, Zenon DEF Found
  <2>3. Near[word] \in Nat
    BY Sizes DEF NumbersOK
  <2> QED
    BY <1>1, <1>2, <2>1, <2>2, <2>3
<1> QED
  BY <1>1, <1>2, <1>3

\* One request more is one leak more.
LEMMA OneMore ==
  ASSUME NEW n \in Nat
  PROVE  (n + 1) * MaxLeak = n * MaxLeak + MaxLeak /\ n * MaxLeak \in Nat
BY Costs, SMT

-----------------------------------------------------------------------------
(* The invariant holds initially.                                          *)

LEMMA InitIInv == Init => IInv
<1> SUFFICES ASSUME Init PROVE IInv
  OBVIOUS
<1>1. NumbersOK
  BY Sizes, SMT DEF Init, NumbersOK, Unknown, Entries
<1>2. ValuesOK
  BY DEF Init, ValuesOK
<1>3. LeakOK
  BY <1>1, Costs, Sizes DEF Init, NumbersOK, LeakOK, Past, This
<1>4. HeldOK /\ TableOK /\ RequestOK
  BY DEF Init, HeldOK, Inside, TableOK, RequestOK, Replying
<1>5. BudgetOK
  BY DEF Init, BudgetOK, Replying
<1> QED BY <1>1, <1>2, <1>3, <1>4, <1>5 DEF IInv, TypeOK, NumbersOK, ValuesOK

-----------------------------------------------------------------------------
(* Every step keeps it.                                                    *)

LEMMA NumbersStep == NumbersOK /\ [Next]_vars => NumbersOK'
<1> SUFFICES ASSUME NumbersOK, [Next]_vars PROVE NumbersOK'
  OBVIOUS
<1> USE Sizes DEF NumbersOK, Unknown
<1>1. CASE fetch_table
  BY <1>1, SMT DEF fetch_table, CallFails, Enter
<1>2. CASE DecryptKeyword
  <2>1. filled' \subseteq Entries
    <3>1. k \in Nat /\ k < TableSize
      BY <1>2 DEF DecryptKeyword
    <3>2. k \in Entries
      BY <3>1, Sizes, SMT DEF Entries
    <3>3. filled' \in {filled, filled \cup {k}}
      BY <1>2 DEF DecryptKeyword
    <3> QED BY <3>2, <3>3
  <2> QED BY <1>2, <2>1, SMT DEF DecryptKeyword, Abort, KeywordFits
<1>3. CASE TableDecrypted
  BY <1>3, SMT DEF TableDecrypted, Leave
<1>4. CASE step_1
  BY <1>4, SMT DEF step_1, CallFails, Enter
<1>5. CASE Compare
  <2>1. location' \in {location} \cup 0..TableSize
    BY <1>5, FoundAre DEF Compare
  <2> HIDE DEF Found
  <2> QED BY <1>5, <2>1, SMT DEF Compare, Leave, Abort
<1>6. CASE step_3
  BY <1>6, SMT DEF step_3, CallFails, Enter
<1>7. CASE Reencrypt
  <2>1. \A n \in 1..MaxList : n * Cost["entry"] \in Nat /\ n * Cost["number"] \in Nat
    BY Product
  <2> QED BY <1>7, <2>1, SMT DEF Reencrypt, Leave, Abort
<1>8. CASE Receive
  BY <1>8, SMT DEF Receive, enclaveVars
<1>9. CASE Answer
  BY <1>9, SMT DEF Answer, enclaveVars
<1>10. CASE NextPosition
  BY <1>10, SMT DEF NextPosition, enclaveVars
<1>11. CASE Write
  BY <1>11, SMT DEF Write, enclaveVars
<1>12. CASE Finished
  BY <1>12, SMT DEF Finished, vars, enclaveVars, serverVars
<1>13. CASE UNCHANGED vars
  BY <1>13 DEF vars, enclaveVars, serverVars
<1> QED BY <1>1, <1>2, <1>3, <1>4, <1>5, <1>6, <1>7, <1>8, <1>9, <1>10, <1>11, <1>12, <1>13 DEF Next

LEMMA ValuesStep == ValuesOK /\ [Next]_vars => ValuesOK'
<1> SUFFICES ASSUME ValuesOK, [Next]_vars PROVE ValuesOK'
  OBVIOUS
<1> USE DEF ValuesOK
<1>1. CASE fetch_table
  BY <1>1 DEF fetch_table, CallFails, Enter
<1>2. CASE DecryptKeyword
  BY <1>2 DEF DecryptKeyword, Abort
<1>3. CASE TableDecrypted
  BY <1>3 DEF TableDecrypted, Leave
<1>4. CASE step_1
  BY <1>4 DEF step_1, CallFails, Enter
<1>5. CASE Compare
  BY <1>5 DEF Compare, Leave, Abort
<1>6. CASE step_3
  BY <1>6 DEF step_3, CallFails, Enter
<1>7. CASE Reencrypt
  BY <1>7 DEF Reencrypt, Leave, Abort
<1>8. CASE Receive
  BY <1>8 DEF Receive, enclaveVars
<1>9. CASE Answer
  BY <1>9 DEF Answer, enclaveVars
<1>10. CASE NextPosition
  BY <1>10 DEF NextPosition, enclaveVars
<1>11. CASE Write
  BY <1>11 DEF Write, enclaveVars
<1>12. CASE Finished
  BY <1>12 DEF Finished, vars, enclaveVars, serverVars
<1>13. CASE UNCHANGED vars
  BY <1>13 DEF vars, enclaveVars, serverVars
<1> QED BY <1>1, <1>2, <1>3, <1>4, <1>5, <1>6, <1>7, <1>8, <1>9, <1>10, <1>11, <1>12, <1>13 DEF Next

LEMMA HeldStep == HeldOK /\ [Next]_vars => HeldOK'
<1> SUFFICES ASSUME HeldOK, [Next]_vars PROVE HeldOK'
  OBVIOUS
<1> USE DEF HeldOK, Inside
<1>1. CASE fetch_table
  BY <1>1 DEF fetch_table, CallFails, Enter
<1>2. CASE DecryptKeyword
  BY <1>2 DEF DecryptKeyword, Abort
<1>3. CASE TableDecrypted
  BY <1>3 DEF TableDecrypted, Leave
<1>4. CASE step_1
  BY <1>4 DEF step_1, CallFails, Enter
<1>5. CASE Compare
  BY <1>5 DEF Compare, Leave, Abort
<1>6. CASE step_3
  BY <1>6 DEF step_3, CallFails, Enter
<1>7. CASE Reencrypt
  BY <1>7 DEF Reencrypt, Leave, Abort
<1>8. CASE Receive
  BY <1>8 DEF Receive, enclaveVars
<1>9. CASE Answer
  BY <1>9 DEF Answer, enclaveVars
<1>10. CASE NextPosition
  BY <1>10 DEF NextPosition, enclaveVars
<1>11. CASE Write
  BY <1>11 DEF Write, enclaveVars
<1>12. CASE Finished
  BY <1>12 DEF Finished, vars, enclaveVars, serverVars
<1>13. CASE UNCHANGED vars
  BY <1>13 DEF vars, enclaveVars, serverVars
<1> QED BY <1>1, <1>2, <1>3, <1>4, <1>5, <1>6, <1>7, <1>8, <1>9, <1>10, <1>11, <1>12, <1>13 DEF Next

LEMMA TableStep == NumbersOK /\ HeldOK /\ TableOK /\ [Next]_vars => TableOK'
<1> SUFFICES ASSUME NumbersOK, HeldOK, TableOK, [Next]_vars, alive',
                    Cost["tableCopy"] + Table + Cost["context"] <= heap'
             PROVE  \/ filled' = Entries
                    \/ pc' \in {"recv", "fetch_table"} /\ free' = heap'
                    \/ /\ pc' = "decrypt" /\ \A i \in 0..(k' - 1) : i \in filled'
                       /\ free' = heap' - Cost["tableCopy"] - k' * Cost["keyword"]
  BY DEF TableOK
<1>0. alive /\ heap' = heap
  BY DEF Next, vars, enclaveVars, serverVars, fetch_table, DecryptKeyword, TableDecrypted,
         step_1, Compare, step_3, Reencrypt, Receive, Answer, NextPosition, Write, Finished,
         CallFails, Enter, Abort, Leave
<1>a. /\ heap \in Nat /\ free \in Nat /\ k \in Nat /\ Table \in Nat
      /\ Cost["tableCopy"] \in Nat /\ Cost["context"] \in Nat
      /\ Cost["keyword"] \in Nat
  BY Sizes, Costs DEF NumbersOK
<1>b. \/ filled = Entries
      \/ pc \in {"recv", "fetch_table"} /\ free = heap
      \/ /\ pc = "decrypt" /\ \A i \in 0..(k - 1) : i \in filled
         /\ free = heap - Cost["tableCopy"] - k * Cost["keyword"]
  BY <1>0 DEF TableOK
<1>1. CASE fetch_table
  <2>1. CASE filled = Entries
    BY <1>1, <2>1 DEF fetch_table
  <2>2. CASE filled # Entries
    <3>1. free = heap /\ pc = "fetch_table"
      BY <1>1, <1>b, <2>2 DEF fetch_table
    <3>2. ~(Cost["tableCopy"] > free)
      BY <1>0, <1>a, <3>1
    <3>3. pc' = "decrypt" /\ k' = 0 /\ free' = free - Cost["tableCopy"]
      BY <1>0, <1>1, <3>2 DEF fetch_table, CallFails, Enter
    <3>4. 0 * Cost["keyword"] = 0
      BY <1>a
    <3> QED BY <1>0, <1>a, <3>1, <3>3, <3>4
  <2> QED BY <2>1, <2>2
<1>2. CASE DecryptKeyword
  <2>1. pc = "decrypt" /\ k < TableSize
    BY <1>2 DEF DecryptKeyword
  <2>2. CASE filled = Entries
    <3>1. filled' \in {filled, filled \cup {k}}
      BY <1>2 DEF DecryptKeyword
    <3>2. k \in Entries
      BY <1>a, <2>1, Sizes, SMT DEF Entries
    <3> QED BY <2>2, <3>1, <3>2
  <2>3. CASE filled # Entries
    <3>1. /\ \A i \in 0..(k - 1) : i \in filled
          /\ free = heap - Cost["tableCopy"] - k * Cost["keyword"]
      BY <1>b, <2>1, <2>3
    <3>2. /\ (k + 1) * Cost["keyword"] <= Table /\ k * Cost["keyword"] \in Nat
          /\ (k + 1) * Cost["keyword"] = k * Cost["keyword"] + Cost["keyword"]
      <4>1. k + 1 \in Nat /\ k + 1 <= TableSize /\ TableSize \in Nat
        BY <1>a, <2>1, Sizes
      <4> QED BY <1>a, <4>1, Product, ProductGrows, SMT DEF Table
    <3>3. Cost["context"] <= free /\ Cost["keyword"] <= free
      BY <1>0, <1>a, <3>1, <3>2
    <3>4. /\ pc' = "decrypt" /\ k' = k + 1 /\ filled' = filled \cup {k}
          /\ free' = free - Cost["keyword"]
      <4>1. ~(Cost["context"] > free) /\ KeywordFits
        BY <1>a, <3>3, SMT DEF KeywordFits
      <4> QED BY <1>2, <2>1, <4>1 DEF DecryptKeyword
    <3>5. \A i \in 0..(k' - 1) : i \in filled'
      BY <1>a, <3>1, <3>4
    <3> QED BY <1>0, <1>a, <3>1, <3>2, <3>4, <3>5
  <2> QED BY <2>2, <2>3
<1>3. CASE TableDecrypted
  <2>1. pc = "decrypt" /\ k = TableSize /\ filled' = filled
    BY <1>3 DEF TableDecrypted
  <2>2. CASE filled # Entries
    <3>1. \A i \in Entries : i \in filled
      BY <1>b, <2>1, <2>2 DEF Entries
    <3> QED BY <2>2, <3>1 DEF NumbersOK
  <2> QED BY <2>1, <2>2
<1>4. CASE step_1
  BY <1>4, <1>b DEF step_1
<1>5. CASE Compare
  BY <1>5, <1>b DEF Compare
<1>6. CASE step_3
  BY <1>6, <1>b DEF step_3
<1>7. CASE Reencrypt
  BY <1>7, <1>b DEF Reencrypt
<1>8. CASE Receive
  BY <1>8, <1>b DEF Receive, enclaveVars
<1>9. CASE Answer
  BY <1>9, <1>b DEF Answer, enclaveVars
<1>10. CASE NextPosition
  BY <1>10, <1>b DEF NextPosition, enclaveVars
<1>11. CASE Write
  BY <1>11, <1>b DEF Write, enclaveVars
<1>12. CASE Finished
  BY <1>12, <1>b DEF Finished, vars, enclaveVars, serverVars
<1>13. CASE UNCHANGED vars
  BY <1>13, <1>b DEF vars, enclaveVars, serverVars
<1> QED BY <1>1, <1>2, <1>3, <1>4, <1>5, <1>6, <1>7, <1>8, <1>9, <1>10, <1>11, <1>12, <1>13 DEF Next

LEMMA RequestStep == NumbersOK /\ RequestOK /\ [Next]_vars => RequestOK'
<1> SUFFICES ASSUME NumbersOK, RequestOK, [Next]_vars PROVE RequestOK'
  OBVIOUS
<1> USE Sizes DEF RequestOK, NumbersOK, Unknown, Replying
<1>1. CASE fetch_table
  BY <1>1 DEF fetch_table, CallFails, Enter
<1>2. CASE DecryptKeyword
  BY <1>2 DEF DecryptKeyword, Abort
<1>3. CASE TableDecrypted
  BY <1>3 DEF TableDecrypted, Leave
<1>4. CASE step_1
  BY <1>4 DEF step_1, CallFails, Enter
<1>5. CASE Compare
  BY <1>5 DEF Compare, Leave, Abort
<1>6. CASE step_3
  BY <1>6 DEF step_3, CallFails, Enter
<1>7. CASE Reencrypt
  BY <1>7 DEF Reencrypt, Leave, Abort
<1>8. CASE Receive
  BY <1>8 DEF Receive, enclaveVars
<1>9. CASE Answer
  BY <1>9 DEF Answer, enclaveVars
<1>10. CASE NextPosition
  BY <1>10 DEF NextPosition, enclaveVars
<1>11. CASE Write
  BY <1>11 DEF Write, enclaveVars
<1>12. CASE Finished
  BY <1>12 DEF Finished, vars, enclaveVars, serverVars
<1>13. CASE UNCHANGED vars
  BY <1>13 DEF vars, enclaveVars, serverVars
<1> QED BY <1>1, <1>2, <1>3, <1>4, <1>5, <1>6, <1>7, <1>8, <1>9, <1>10, <1>11, <1>12, <1>13 DEF Next

-----------------------------------------------------------------------------
(* What a request may have left in the heap so far bounds what is missing.  *)

\* The parts of this request's share are naturals and stay below it.
LEMMA Share ==
  ASSUME NumbersOK, RequestOK
  PROVE  /\ k * Cost["keyword"] \in Nat /\ k * Cost["keyword"] <= Table
         /\ (k + 1) * Cost["keyword"] = k * Cost["keyword"] + Cost["keyword"]
         /\ k < TableSize => (k + 1) * Cost["keyword"] <= Table
         /\ idx * List \in Nat
         /\ (idx + 1) * List = idx * List + List
         /\ (idx - 1) * List = idx * List - List
         /\ pc \in Replying => idx * List <= TableSize * List
<1>1. k * Cost["keyword"] \in Nat /\ k * Cost["keyword"] <= Table
  <2>1. k \in Nat /\ k <= TableSize /\ TableSize \in Nat /\ Cost["keyword"] \in Nat
    BY Sizes DEF NumbersOK
  <2> QED BY <2>1, Product, ProductGrows DEF Table
<1>2. (k + 1) * Cost["keyword"] = k * Cost["keyword"] + Cost["keyword"]
  BY Sizes, SMT DEF NumbersOK
<1>3. k < TableSize => (k + 1) * Cost["keyword"] <= Table
  <2> SUFFICES ASSUME k < TableSize PROVE (k + 1) * Cost["keyword"] <= Table
    OBVIOUS
  <2>1. k + 1 \in Nat /\ k + 1 <= TableSize
    BY Sizes DEF NumbersOK
  <2> QED BY <2>1, ProductGrows, Sizes DEF Table
<1>4. idx \in Nat /\ List \in Nat /\ idx * List \in Nat
  BY Product, Sizes, Costs DEF NumbersOK, Unknown
<1>5. (idx + 1) * List = idx * List + List /\ (idx - 1) * List = idx * List - List
  BY <1>4, SMT
<1>6. pc \in Replying => idx * List <= TableSize * List
  <2> SUFFICES ASSUME pc \in Replying PROVE idx * List <= TableSize * List
    OBVIOUS
  <2>1. idx <= TableSize
    BY <1>4, Sizes DEF RequestOK, NumbersOK, Unknown
  <2> QED BY <1>4, <2>1, ProductGrows, Sizes
<1> QED BY <1>1, <1>2, <1>3, <1>4, <1>5, <1>6

\* The shares of earlier requests, before and after this one is over.
LEMMA Shares ==
  ASSUME NumbersOK, RequestOK
  PROVE  /\ requests * MaxLeak \in Nat
         /\ (requests + 1) * MaxLeak = requests * MaxLeak + MaxLeak
         /\ pc # "recv" => /\ (requests - 1) * MaxLeak \in Nat
                          /\ requests * MaxLeak = (requests - 1) * MaxLeak + MaxLeak
<1>1. requests \in Nat
  BY Sizes DEF NumbersOK
<1>2. pc # "recv" => requests - 1 \in Nat /\ requests = (requests - 1) + 1
  BY <1>1 DEF RequestOK
<1>3. requests * MaxLeak \in Nat /\ (requests + 1) * MaxLeak = requests * MaxLeak + MaxLeak
  BY <1>1, OneMore
<1>4. ASSUME pc # "recv"
      PROVE  /\ (requests - 1) * MaxLeak \in Nat
             /\ requests * MaxLeak = (requests - 1) * MaxLeak + MaxLeak
  BY <1>2, <1>4, OneMore
<1> QED BY <1>3, <1>4

\* The numbers of a list of n take at most what the longest list takes.
LEMMA ListFits ==
  ASSUME NEW n \in 1..MaxList
  PROVE  /\ n * Cost["number"] \in Nat /\ n * Cost["number"] <= List
         /\ n * Cost["entry"] \in Nat /\ n * Cost["entry"] <= MaxList * Cost["entry"]
BY Product, ProductGrows, Sizes DEF List

LEMMA LeakStep ==
  NumbersOK /\ HeldOK /\ RequestOK /\ LeakOK /\ [Next]_vars => LeakOK'
<1> SUFFICES ASSUME NumbersOK, HeldOK, RequestOK, LeakOK, [Next]_vars, alive'
             PROVE  heap' <= free' + held' + Past' + This'
  BY DEF LeakOK
<1>0. alive /\ heap <= free + held + Past + This
  BY DEF LeakOK, Next, vars, enclaveVars, serverVars, fetch_table, DecryptKeyword, TableDecrypted,
         step_1, Compare, step_3, Reencrypt, Receive, Answer, NextPosition, Write, Finished,
         CallFails, Enter, Abort, Leave
<1> USE <1>0, Share, Shares, Sizes, Costs DEF NumbersOK
<1>1. CASE fetch_table
  <2>1. pc = "fetch_table" /\ pc' \in {"step_1", "decrypt"} /\ k' = 0 /\ UNCHANGED <<heap, requests>>
    BY <1>1 DEF fetch_table, CallFails, Enter
  <2>2. free' + held' = free + held
    BY <1>1, <2>1, SMT DEF fetch_table, CallFails, Enter, HeldOK, Inside
  <2>3. Past' = Past /\ This = 0 /\ This' \in {0, Table}
    BY <2>1, SMT DEF Past, This
  <2>4. Past \in Nat
    BY <2>1 DEF Past
  <2> QED BY <2>1, <2>2, <2>3, <2>4, SMT
<1>2. CASE DecryptKeyword
  <2>1. /\ pc = "decrypt" /\ pc' = "decrypt" /\ k' = k + 1 /\ UNCHANGED <<heap, requests, held>>
        /\ free' \in {free, free - Cost["keyword"]}
    BY <1>2 DEF DecryptKeyword, Abort
  <2>2. Past' = Past /\ This = k * Cost["keyword"] /\ This' = (k + 1) * Cost["keyword"]
    BY <2>1 DEF Past, This
  <2>3. Past \in Nat
    BY <2>1 DEF Past
  <2> QED BY <2>1, <2>2, <2>3, SMT
<1>3. CASE TableDecrypted
  <2>1. /\ pc = "decrypt" /\ pc' = "step_1" /\ UNCHANGED <<heap, requests>>
        /\ free' + held' = free + held
    BY <1>3, SMT DEF TableDecrypted, Leave
  <2>2. Past' = Past /\ This = k * Cost["keyword"] /\ This' = Table
    BY <2>1 DEF Past, This
  <2>3. Past \in Nat
    BY <2>1 DEF Past
  <2> QED BY <2>1, <2>2, <2>3, SMT
<1>4. CASE step_1
  <2>1. /\ pc = "step_1" /\ pc' \in {"answer", "compare"} /\ UNCHANGED <<heap, requests>>
    BY <1>4 DEF step_1, CallFails, Enter
  <2>2. free' + held' = free + held
    BY <1>4, <2>1, SMT DEF step_1, CallFails, Enter, HeldOK, Inside
  <2>3. Past' = Past /\ This = Table /\ This' \in {Table, Table + Cost["distances"]}
    BY <2>1, SMT DEF Past, This
  <2>4. Past \in Nat
    BY <2>1 DEF Past
  <2> QED BY <2>1, <2>2, <2>3, <2>4, SMT
<1>5. CASE Compare
  <2>1. /\ pc = "compare" /\ pc' = "answer" /\ UNCHANGED <<heap, requests>>
    BY <1>5 DEF Compare, Leave, Abort
  <2>2. free' + held' + Cost["distances"] >= free + held
    BY <1>5, <2>1, SMT DEF Compare, Leave, Abort
  <2>3. Past' = Past /\ This = Table /\ This' = Table + Cost["distances"]
    BY <2>1 DEF Past, This
  <2>4. Past \in Nat
    BY <2>1 DEF Past
  <2>5. free' \in Int /\ held' \in Int
    BY <1>5, SMT DEF Compare, Leave, Abort
  <2> QED BY <2>1, <2>2, <2>3, <2>4, <2>5, SMT
<1>6. CASE step_3
  <2>1. /\ pc = "step_3" /\ pc' \in {"write", "reencrypt"} /\ UNCHANGED <<heap, requests, idx>>
    BY <1>6 DEF step_3, CallFails, Enter
  <2>2. free' + held' = free + held
    BY <1>6, <2>1, SMT DEF step_3, CallFails, Enter, HeldOK, Inside
  <2>3. /\ Past' = Past
        /\ This = Table + Cost["distances"] + (idx - 1) * List
        /\ This' \in {Table + Cost["distances"] + (idx - 1) * List,
                     Table + Cost["distances"] + idx * List}
    BY <2>1 DEF Past, This
  <2>4. Past \in Nat
    BY <2>1 DEF Past
  <2> QED BY <2>1, <2>2, <2>3, <2>4, SMT
<1>7. CASE Reencrypt
  <2>1. /\ pc = "reencrypt" /\ pc' = "write" /\ UNCHANGED <<heap, requests, idx>>
    BY <1>7 DEF Reencrypt, Leave, Abort
  <2>2. PICK n \in 1..MaxList :
          free' = (free - n * Cost["number"]) + held /\ held' = 0
    BY <1>7 DEF Reencrypt, Leave, Abort
  <2>3. n * Cost["number"] \in Nat /\ n * Cost["number"] <= List
    BY ListFits
  <2>4. /\ Past' = Past
        /\ This = Table + Cost["distances"] + (idx - 1) * List
        /\ This' = Table + Cost["distances"] + idx * List
    BY <2>1 DEF Past, This
  <2>5. Past \in Nat
    BY <2>1 DEF Past
  <2> QED BY <2>1, <2>2, <2>3, <2>4, <2>5, SMT
<1>8. CASE Receive
  BY <1>8, SMT DEF Receive, enclaveVars, RequestOK, HeldOK, Inside, Replying, Past, This
<1>9. CASE Answer
  <2>1. /\ pc = "answer" /\ pc' \in {"next", "recv", "down"} /\ idx' = 0
        /\ UNCHANGED <<heap, free, held, requests>>
    BY <1>9 DEF Answer, enclaveVars
  <2>2. Past = (requests - 1) * MaxLeak /\ This = Table + Cost["distances"]
    BY <2>1 DEF Past, This
  <2>3. CASE pc' = "next"
    <3>1. Past' = Past /\ This' = Table + Cost["distances"] + 0 * List
      BY <2>1, <2>3 DEF Past, This
    <3>2. 0 * List = 0
      BY SMT
    <3> QED BY <2>1, <2>2, <3>1, <3>2, SMT
  <2>4. CASE pc' # "next"
    <3>1. Past' = requests * MaxLeak /\ This' = 0
      BY <2>1, <2>4 DEF Past, This
    <3>2. TableSize * List \in Nat
      BY Product
    <3> QED BY <2>1, <2>2, <3>1, <3>2, SMT
  <2> QED BY <2>3, <2>4
<1>10. CASE NextPosition
  BY <1>10, SMT DEF NextPosition, enclaveVars, RequestOK, HeldOK, Inside, Replying, Past, This
<1>11. CASE Write
  BY <1>11, SMT DEF Write, enclaveVars, RequestOK, HeldOK, Inside, Replying, Past, This
<1>12. CASE Finished
  BY <1>12, SMT DEF Finished, vars, enclaveVars, serverVars, RequestOK, HeldOK, Inside, Replying, Past, This
<1>13. CASE UNCHANGED vars
  BY <1>13, SMT DEF vars, enclaveVars, serverVars, Past, This
<1> QED BY <1>1, <1>2, <1>3, <1>4, <1>5, <1>6, <1>7, <1>8, <1>9, <1>10, <1>11, <1>12, <1>13 DEF Next

-----------------------------------------------------------------------------
(* While the budget lasts, no call fails.                                  *)

\* The room that is left for the rest of this request.
LEMMA Room ==
  ASSUME NumbersOK, RequestOK, LeakOK, alive, WithinBudget, pc \notin {"recv", "down"}
  PROVE  free + held + This >= MaxLeak + Peak
<1>1. heap <= free + held + (requests - 1) * MaxLeak + This
  BY DEF LeakOK, Past
<1>2. requests * MaxLeak + Peak <= heap
  BY DEF WithinBudget
<1>3. This \in Int
  BY Share, Costs, Sizes, SMT DEF This, NumbersOK
<1> QED BY <1>1, <1>2, <1>3, Shares, Costs, Sizes, SMT DEF NumbersOK

\* It holds the table.
LEMMA RoomForTable ==
  ASSUME NumbersOK, RequestOK, WithinBudget, pc # "recv"
  PROVE  Cost["tableCopy"] + Table + Cost["context"] <= heap
<1>1. requests * MaxLeak + Peak <= heap /\ requests * MaxLeak >= MaxLeak
  BY Shares, Costs, SMT DEF WithinBudget
<1>2. requests * MaxLeak \in Nat /\ heap \in Nat
  BY Shares, Sizes DEF NumbersOK
<1>3. TableSize * List \in Nat /\ TableSize * Cost["index"] \in Nat /\ MaxList * Cost["entry"] \in Nat
  BY Product, Sizes, Costs
<1>4. Peak >= Cost["tableCopy"] + Cost["context"]
  BY <1>3, Sizes, SMT DEF Peak
<1>5. MaxLeak >= Table
  BY <1>3, Costs, Sizes, SMT
<1> QED BY <1>1, <1>2, <1>4, <1>5, Costs, Sizes, SMT

\* The largest transient need is more than each of its parts.
LEMMA PeakParts ==
  /\ TableSize * Cost["index"] \in Nat /\ MaxList * Cost["entry"] \in Nat
  /\ TableSize * List \in Nat
  /\ Peak >= Cost["tableCopy"] + Cost["context"]
  /\ Peak >= Cost["matchCopy"] + Cost["context"] + Cost["matrix"] + TableSize * Cost["index"]
  /\ Peak >= Cost["replyCopy"] + Cost["context"] + MaxList * Cost["entry"]
<1>1. /\ TableSize * Cost["index"] \in Nat /\ MaxList * Cost["entry"] \in Nat
      /\ TableSize * List \in Nat
  BY Product, Sizes, Costs
<1> QED BY <1>1, Sizes, SMT DEF Peak

LEMMA BudgetStep ==
  NumbersOK /\ ValuesOK /\ HeldOK /\ LeakOK /\ TableOK /\ RequestOK /\ BudgetOK /\ [Next]_vars
    => BudgetOK'
<1> SUFFICES ASSUME NumbersOK, ValuesOK, HeldOK, LeakOK, TableOK, RequestOK, BudgetOK,
                    [Next]_vars, WithinBudget'
             PROVE  BudgetOK'
  BY DEF BudgetOK
<1>0. WithinBudget
  <2>1. requests' = requests \/ requests' = requests + 1
    BY DEF Next, vars, serverVars, fetch_table, DecryptKeyword, TableDecrypted, step_1, Compare,
           step_3, Reencrypt, Receive, Answer, NextPosition, Write, Finished
  <2>2. heap' = heap
    BY DEF Next, vars, enclaveVars, fetch_table, DecryptKeyword, TableDecrypted, step_1, Compare,
           step_3, Reencrypt, Receive, Answer, NextPosition, Write, Finished
  <2> QED BY <2>1, <2>2, Shares, Costs, Sizes, SMT DEF WithinBudget, NumbersOK
<1>a. alive /\ ~stale
  BY <1>0 DEF BudgetOK
<1> USE <1>0, <1>a DEF BudgetOK, Replying
<1>1. CASE fetch_table
  <2>1. pc = "fetch_table" /\ held = 0 /\ This = 0
    BY <1>1 DEF fetch_table, HeldOK, Inside, This
  <2>2. Cost["tableCopy"] <= free
    BY <2>1, Room, PeakParts, Costs, Sizes, SMT DEF NumbersOK
  <2>3. ~ (Cost["tableCopy"] > free)
    BY <2>2, Sizes, SMT DEF NumbersOK
  <2>4. alive' /\ pc' = "decrypt" /\ UNCHANGED <<stale, word, location>>
    BY <1>1, <2>3 DEF fetch_table, CallFails, Enter
  <2> QED BY <1>1, <2>1, <2>4
<1>2. CASE DecryptKeyword
  <2>1. pc = "decrypt" /\ held = Cost["tableCopy"] /\ This = k * Cost["keyword"] /\ k < TableSize
    BY <1>2 DEF DecryptKeyword, HeldOK, This
  <2>2. Cost["context"] <= free /\ Cost["keyword"] <= free
    BY <2>1, Room, Share, PeakParts, Costs, Sizes, SMT DEF NumbersOK
  <2>3. ~(Cost["context"] > free) /\ KeywordFits
    BY <2>2, Sizes, SMT DEF NumbersOK, KeywordFits
  <2> QED BY <1>2, <2>1, <2>3 DEF DecryptKeyword
<1>3. CASE TableDecrypted
  BY <1>3 DEF TableDecrypted, Leave
<1>4. CASE step_1
  <2>1. pc = "step_1" /\ held = 0 /\ This = Table
    BY <1>4 DEF step_1, HeldOK, Inside, This
  <2>2. Cost["matchCopy"] <= free
    BY <2>1, Room, PeakParts, Costs, Sizes, SMT DEF NumbersOK
  <2>3. ~ (Cost["matchCopy"] > free)
    BY <2>2, Sizes, SMT DEF NumbersOK
  <2>4. alive' /\ pc' = "compare" /\ UNCHANGED <<stale, word, location>>
    BY <1>4, <2>3 DEF step_1, CallFails, Enter
  <2> QED BY <1>4, <2>1, <2>4
<1>5. CASE Compare
  <2>1. pc = "compare" /\ held = Cost["matchCopy"] /\ This = Table
    BY <1>5 DEF Compare, HeldOK, This
  <2>2. Cost["context"] + Cost["distances"] + Cost["matrix"] + TableSize * Cost["index"] <= free
    BY <2>1, Room, PeakParts, Costs, Sizes, SMT DEF NumbersOK
  <2>3. ~(Cost["context"] > free) /\ Cost["distances"] <= free
    BY <2>2, PeakParts, Sizes, SMT DEF NumbersOK
  <2>4. filled = Entries
    BY <2>1, RoomForTable DEF TableOK
  <2>5. \A f \in Found : /\ f.near * Cost["index"] \in Nat
                         /\ f.near * Cost["index"] <= TableSize * Cost["index"]
                         /\ f.hits = Hits[word]
    <3> TAKE f \in Found
    <3>1. f.near \in Nat /\ f.near = Near[word] /\ f.hits = Hits[word]
      BY <2>3, <2>4, FoundAre
    <3>2. f.near <= TableSize
      BY <3>1, Sizes DEF NumbersOK
    <3> QED BY <3>1, <3>2, Product, ProductGrows, Sizes
  <2>6. \A f \in Found : ComparisonFits(f.near, free - Cost["distances"])
    <3> TAKE f \in Found
    <3>1. /\ f.near * Cost["index"] \in Nat
          /\ f.near * Cost["index"] <= TableSize * Cost["index"]
      BY <2>5
    <3> QED BY <2>2, <3>1, PeakParts, Sizes, SMT DEF ComparisonFits, NumbersOK
  <2> HIDE DEF Found, ComparisonFits
  <2>7. location' = Hits[word] /\ pc' = "answer" /\ UNCHANGED <<alive, stale, word>>
    BY <1>5, <2>3, <2>5, <2>6 DEF Compare, Leave
  <2> QED BY <2>1, <2>7
<1>6. CASE step_3
  <2>1. /\ pc = "step_3" /\ held = 0
        /\ This = Table + Cost["distances"] + (idx - 1) * List
    BY <1>6 DEF step_3, HeldOK, Inside, This
  <2>2. Cost["replyCopy"] <= free
    BY <2>1, Room, Share, PeakParts, Costs, Sizes, SMT DEF NumbersOK
  <2>3. ~ (Cost["replyCopy"] > free)
    BY <2>2, Sizes, SMT DEF NumbersOK
  <2>4. alive' /\ pc' = "reencrypt" /\ UNCHANGED <<stale, word, location>>
    BY <1>6, <2>3 DEF step_3, CallFails, Enter
  <2> QED BY <1>6, <2>1, <2>4
<1>7. CASE Reencrypt
  <2>1. /\ pc = "reencrypt" /\ held = Cost["replyCopy"]
        /\ This = Table + Cost["distances"] + (idx - 1) * List
    BY <1>7 DEF Reencrypt, HeldOK, This
  <2>2. Cost["context"] + MaxList * Cost["entry"] + List <= free
    BY <2>1, Room, Share, PeakParts, Costs, Sizes, SMT DEF NumbersOK
  <2>3. \A n \in 1..MaxList : Cost["context"] + (n * Cost["entry"] + n * Cost["number"]) <= free
    BY <2>2, ListFits, PeakParts, Costs, Sizes, SMT DEF NumbersOK
  <2> QED BY <1>7, <2>1, <2>3 DEF Reencrypt, Leave
<1>8. CASE Receive
  BY <1>8 DEF Receive, enclaveVars
<1>9. CASE Answer
  <2>1. location # Unknown
    BY <1>9, Sizes, SMT DEF Answer, Unknown, NumbersOK
  <2> QED BY <1>9, <2>1 DEF Answer, enclaveVars
<1>10. CASE NextPosition
  BY <1>10 DEF NextPosition, enclaveVars
<1>11. CASE Write
  BY <1>11 DEF Write, enclaveVars
<1>12. CASE Finished
  BY <1>12 DEF Finished, vars, enclaveVars, serverVars
<1>13. CASE UNCHANGED vars
  BY <1>13 DEF vars, enclaveVars, serverVars
<1> QED BY <1>1, <1>2, <1>3, <1>4, <1>5, <1>6, <1>7, <1>8, <1>9, <1>10, <1>11, <1>12, <1>13 DEF Next

-----------------------------------------------------------------------------
LEMMA Invariance == Spec => []IInv
<1>1. IInv /\ [Next]_vars => IInv'
  <2> SUFFICES ASSUME IInv, [Next]_vars PROVE IInv'
    OBVIOUS
  <2>1. NumbersOK /\ ValuesOK
    BY DEF IInv, TypeOK, NumbersOK, ValuesOK
  <2>2. NumbersOK' /\ ValuesOK'
    BY <2>1, NumbersStep, ValuesStep
  <2>3. TypeOK'
    BY <2>2 DEF TypeOK, NumbersOK, ValuesOK
  <2>4. HeldOK' /\ TableOK' /\ RequestOK' /\ LeakOK' /\ BudgetOK'
    BY <2>1, HeldStep, TableStep, RequestStep, LeakStep, BudgetStep DEF IInv
  <2> QED BY <2>3, <2>4 DEF IInv
<1> QED BY InitIInv, <1>1, PTL DEF Spec

\* The enclave's heap and the server's counters stay in their ranges: nothing is
\* given back that was not taken, and fetch_table does not leave its table.
THEOREM EnclaveTypeOK == Spec => []TypeOK
<1>1. IInv => TypeOK
  BY DEF IInv
<1> QED BY Invariance, <1>1, PTL

\* For every heap that holds the table once, every table and every cost, a living
\* enclave only ever searches a whole table (Enclave.cpp:272-293, 333-335).
THEOREM EnclaveWholeTableSearched == Spec => []WholeTableSearched
<1>1. IInv => WholeTableSearched
  BY DEF IInv, TableOK, WholeTableSearched, Table, Replying
<1> QED BY Invariance, <1>1, PTL

\* Within the budget every request is answered, whatever is asked and however
\* long the lists are (server.cpp:353-504).
THEOREM EnclaveServesWithinBudget == Spec => []ServesWithinBudget
<1>1. IInv => ServesWithinBudget
  BY DEF IInv, BudgetOK, ServesWithinBudget, Replying
<1> QED BY Invariance, <1>1, PTL

-----------------------------------------------------------------------------
(* Framing.                                                                *)

\* A set that holds zero and with every number the next one holds them all: the
\* least number it does not hold would be neither.
LEMMA Induction ==
  ASSUME NEW S, 0 \in S, \A n \in Nat : n \in S => n + 1 \in S
  PROVE  Nat \subseteq S
<1> DEFINE R == {p \in Nat \X Nat : p[1] < p[2]}
           T == Nat \ S
<1> SUFFICES ASSUME T # {} PROVE FALSE
  OBVIOUS
<1>1. IsWellFoundedOn(R, Nat)
  BY NatLessThanWellFounded DEF OpToRel
<1>2. \A x, y \in Nat : y < x => <<y, x>> \in R
  OBVIOUS
<1>3. T \subseteq Nat
  OBVIOUS
<1> HIDE DEF R, T
<1>4. PICK x \in T : \A y \in T : ~(<<y, x>> \in R)
  BY <1>1, <1>3, WFMin
<1>5. \A y \in T : y \in Nat /\ x \in Nat /\ ~(y < x)
  BY <1>2, <1>3, <1>4
<1>6. x # 0 /\ x - 1 \in Nat /\ x - 1 \notin T /\ (x - 1) + 1 = x
  BY <1>4, <1>5 DEF T
<1> QED
  BY <1>4, <1>6 DEF T

-----------------------------------------------------------------------------
(* Integers in bytes.                                                      *)

LEMMA BaseFacts == Base \in Nat /\ Base > 1
BY FieldAssumption

LEMMA DivMod ==
  ASSUME NEW a \in Nat
  PROVE  /\ a \div Base \in Nat /\ a % Base \in 0..(Base - 1)
         /\ (a % Base) + Base * (a \div Base) = a
<1>1. Base \in Nat /\ Base > 0
  BY BaseFacts
<1>2. a = (a \div Base) * Base + (a % Base) /\ a \div Base \in Int /\ a % Base \in 0..(Base - 1)
  BY <1>1
<1>3. a \div Base \in Nat
  BY <1>1
<1> QED
  BY <1>1, <1>2, <1>3

LEMMA NatProduct == \A a, b \in Nat : a * b \in Nat
OBVIOUS

\* The local function of Shifted.
Shifting(f, v, n) == f = [p \in 0..n |-> IF p = 0 THEN v ELSE f[p - 1] \div Base]

LEMMA ShiftingExists ==
  ASSUME NEW n \in Nat, NEW v
  PROVE  \E f : Shifting(f, v, n)
<1> DEFINE Q == {m \in Nat : \E f : Shifting(f, v, m)}
<1>1. 0 \in Q
  <2> DEFINE g == [p \in 0..0 |-> v]
  <2>1. g = [p \in 0..0 |-> IF p = 0 THEN v ELSE g[p - 1] \div Base]
    OBVIOUS
  <2> HIDE DEF g
  <2>2. Shifting(g, v, 0)
    BY <2>1 DEF Shifting
  <2> QED
    BY <2>2
<1>2. ASSUME NEW m \in Nat, m \in Q PROVE m + 1 \in Q
  <2>1. PICK f : Shifting(f, v, m)
    BY <1>2
  <2> DEFINE g == [p \in 0..(m + 1) |-> IF p <= m THEN f[p] ELSE f[m] \div Base]
  <2>2. \A p \in 0..m : f[p] = IF p = 0 THEN v ELSE f[p - 1] \div Base
    BY <2>1 DEF Shifting
  <2>3. ASSUME NEW p \in 0..(m + 1)
        PROVE  g[p] = IF p = 0 THEN v ELSE g[p - 1] \div Base
    <3>1. CASE p <= m
      <4>1. p \in 0..m /\ g[p] = f[p] /\ (p # 0 => g[p - 1] = f[p - 1])
        BY <3>1
      <4> QED
        BY <2>2, <4>1
    <3>2. CASE ~ (p <= m)
      <4>1. p # 0 /\ g[p] = f[m] \div Base /\ g[p - 1] = f[m]
        BY <3>2
      <4> QED
        BY <4>1
    <3> QED
      BY <3>1, <3>2
  <2>4. g = [p \in 0..(m + 1) |-> g[p]]
    OBVIOUS
  <2> HIDE DEF g
  <2>5. Shifting(g, v, m + 1)
    BY <2>3, <2>4 DEF Shifting
  <2> QED
    BY <2>5
<1> HIDE DEF Q
<1>3. n \in Q
  BY <1>1, <1>2, Induction
<1> QED
  BY <1>3 DEF Q

LEMMA ShiftedIs ==
  ASSUME NEW n \in Nat, NEW v \in Nat, NEW s, s = Shifted(v, n)
  PROVE  /\ s[0] = v
         /\ \A p \in 0..n : s[p] \in Nat
         /\ \A p \in 1..n : s[p] = s[p - 1] \div Base
<1> DEFINE g == CHOOSE f : f = [p \in 0..n |-> IF p = 0 THEN v ELSE f[p - 1] \div Base]
<1>1. g = [p \in 0..n |-> IF p = 0 THEN v ELSE g[p - 1] \div Base]
  <2>1. \E f : Shifting(f, v, n)
    BY ShiftingExists
  <2>2. \E f : f = [p \in 0..n |-> IF p = 0 THEN v ELSE f[p - 1] \div Base]
    BY <2>1 DEF Shifting
  <2> QED
    BY ONLY <2>2, Zenon
<1>2. s = g
  BY DEF Shifted
<1> HIDE DEF g
<1>3. \A p \in 0..n : s[p] = IF p = 0 THEN v ELSE s[p - 1] \div Base
  BY <1>1, <1>2
<1>4. s[0] = v /\ \A p \in 1..n : s[p] = s[p - 1] \div Base
  BY <1>3
<1> DEFINE Q == {m \in Nat : m <= n => s[m] \in Nat}
<1>5. 0 \in Q
  BY <1>4
<1>6. ASSUME NEW m \in Nat, m \in Q PROVE m + 1 \in Q
  <2> SUFFICES ASSUME m + 1 <= n PROVE s[m + 1] \in Nat
    OBVIOUS
  <2>1. s[m] \in Nat /\ m + 1 \in 1..n /\ (m + 1) - 1 = m
    BY <1>6
  <2> QED
    BY <1>4, <2>1, DivMod
<1> HIDE DEF Q
<1>7. Nat \subseteq Q
  BY <1>5, <1>6, Induction
<1>8. \A p \in 0..n : s[p] \in Nat
  BY <1>7 DEF Q
<1> QED
  BY <1>4, <1>8

\* The local function of Value, from place l on.
Summing(f, d, l, n) ==
  f = [p \in l..(n + 1) |-> IF p = n + 1 THEN 0 ELSE d[p] + Base * f[p + 1]]

LEMMA SummingExists ==
  ASSUME NEW n \in Nat, NEW d
  PROVE  \E f : Summing(f, d, 1, n)
<1> DEFINE Q == {m \in Nat : m <= n => \E f : Summing(f, d, (n + 1) - m, n)}
<1>1. 0 \in Q
  <2> DEFINE g == [p \in (n + 1)..(n + 1) |-> 0]
  <2>1. g = [p \in (n + 1)..(n + 1) |-> IF p = n + 1 THEN 0 ELSE d[p] + Base * g[p + 1]]
    OBVIOUS
  <2> HIDE DEF g
  <2>2. Summing(g, d, (n + 1) - 0, n)
    <3>1. (n + 1) - 0 = n + 1
      OBVIOUS
    <3> QED
      BY <2>1, <3>1, Zenon DEF Summing
  <2> QED
    BY <2>2
<1>2. ASSUME NEW m \in Nat, m \in Q PROVE m + 1 \in Q
  <2> SUFFICES ASSUME m + 1 <= n PROVE \E f : Summing(f, d, (n + 1) - (m + 1), n)
    OBVIOUS
  <2> DEFINE l == (n + 1) - (m + 1)
  <2>1. PICK f : Summing(f, d, (n + 1) - m, n)
    BY <1>2
  <2>2. l \in Nat /\ l < n + 1 /\ (n + 1) - m = l + 1
    OBVIOUS
  <2> HIDE DEF l
  <2>3. \A p \in (l + 1)..(n + 1) : f[p] = IF p = n + 1 THEN 0 ELSE d[p] + Base * f[p + 1]
    BY <2>1, <2>2 DEF Summing
  <2> DEFINE g == [p \in l..(n + 1) |-> IF p = l THEN d[l] + Base * f[l + 1] ELSE f[p]]
  <2>4. ASSUME NEW p \in l..(n + 1)
        PROVE  g[p] = IF p = n + 1 THEN 0 ELSE d[p] + Base * g[p + 1]
    <3>1. CASE p = l
      <4>1. p # n + 1 /\ g[p] = d[l] + Base * f[l + 1] /\ g[p + 1] = f[l + 1]
        BY <2>2, <3>1
      <4> QED
        BY <3>1, <4>1
    <3>2. CASE p # l
      <4>1. p \in (l + 1)..(n + 1) /\ g[p] = f[p] /\ (p # n + 1 => g[p + 1] = f[p + 1])
        BY <2>2, <3>2
      <4> QED
        BY <2>3, <4>1
    <3> QED
      BY <3>1, <3>2
  <2>5. g = [p \in l..(n + 1) |-> g[p]]
    OBVIOUS
  <2> HIDE DEF g
  <2>6. Summing(g, d, l, n)
    BY <2>4, <2>5 DEF Summing
  <2> QED
    BY <2>6 DEF l
<1> HIDE DEF Q
<1>3. n \in Q
  BY <1>1, <1>2, Induction
<1>4. (n + 1) - n = 1
  OBVIOUS
<1> QED
  BY <1>3, <1>4 DEF Q

LEMMA ValueIs ==
  ASSUME NEW d, NEW n \in Nat, n = Len(d)
  PROVE  \E f : /\ Value(d) = f[1] /\ f[n + 1] = 0
                /\ \A p \in 1..n : f[p] = d[p] + Base * f[p + 1]
<1> DEFINE g == CHOOSE f : f = [p \in 1..(Len(d) + 1) |->
                                  IF p = Len(d) + 1 THEN 0 ELSE d[p] + Base * f[p + 1]]
<1>1. g = [p \in 1..(Len(d) + 1) |-> IF p = Len(d) + 1 THEN 0 ELSE d[p] + Base * g[p + 1]]
  <2>1. \E f : Summing(f, d, 1, Len(d))
    BY SummingExists
  <2>2. \E f : f = [p \in 1..(Len(d) + 1) |->
                      IF p = Len(d) + 1 THEN 0 ELSE d[p] + Base * f[p + 1]]
    BY <2>1 DEF Summing
  <2> QED
    BY ONLY <2>2, Zenon
<1>2. Value(d) = g[1]
  BY DEF Value
<1> HIDE DEF g
<1>3. \A p \in 1..(n + 1) : g[p] = IF p = n + 1 THEN 0 ELSE d[p] + Base * g[p + 1]
  BY <1>1
<1>4. g[n + 1] = 0 /\ \A p \in 1..n : g[p] = d[p] + Base * g[p + 1]
  BY <1>3
<1> QED
  BY <1>2, <1>4

\* What is read as an integer is a number.
LEMMA ValueIsNumber ==
  ASSUME NEW d \in Seq(Nat)
  PROVE  Value(d) \in Nat
<1> DEFINE n == Len(d)
<1>1. n \in Nat /\ \A p \in 1..n : d[p] \in Nat
  OBVIOUS
<1>2. PICK f : /\ Value(d) = f[1] /\ f[n + 1] = 0
               /\ \A p \in 1..n : f[p] = d[p] + Base * f[p + 1]
  BY <1>1, ValueIs
<1> HIDE DEF n
<1> DEFINE Q == {m \in Nat : m <= n => f[(n + 1) - m] \in Nat}
<1>3. 0 \in Q
  <2>1. (n + 1) - 0 = n + 1
    BY <1>1
  <2> QED
    BY <1>2, <2>1
<1>4. ASSUME NEW m \in Nat, m \in Q PROVE m + 1 \in Q
  <2> SUFFICES ASSUME m + 1 <= n PROVE f[(n + 1) - (m + 1)] \in Nat
    OBVIOUS
  <2> DEFINE p == (n + 1) - (m + 1)
  <2>1. p \in 1..n /\ p + 1 = (n + 1) - m
    BY <1>1
  <2>2. f[p + 1] \in Nat
    BY <1>4, <1>1, <2>1
  <2> HIDE DEF p
  <2>3. f[p] = d[p] + Base * f[p + 1] /\ d[p] \in Nat /\ Base \in Nat
    BY <1>1, <1>2, <2>1, BaseFacts
  <2>4. Base * f[p + 1] \in Nat
    BY <2>2, <2>3, NatProduct
  <2>5. f[p] \in Nat
    BY <2>3, <2>4
  <2> QED
    BY <2>5 DEF p
<1> HIDE DEF Q
<1>5. n \in Q
  BY <1>1, <1>3, <1>4, Induction
<1> QED
  <2>1. (n + 1) - n = 1
    BY <1>1
  <2> QED
    BY <1>1, <1>2, <1>5, <2>1 DEF Q

\* The digits of a number that fits give it back.
LEMMA ValueOfDigits ==
  ASSUME NEW v \in Nat, NEW n \in Nat, Fits(v, n)
  PROVE  Value([p \in 1..n |-> Shifted(v, n)[p - 1] % Base]) = v
<1> DEFINE s == Shifted(v, n)
           d == [p \in 1..n |-> s[p - 1] % Base]
<1>1. /\ s[0] = v
      /\ \A p \in 0..n : s[p] \in Nat
      /\ \A p \in 1..n : s[p] = s[p - 1] \div Base
  BY ShiftedIs
<1>2. s[n] = 0
  BY DEF Fits
<1>3. \A p \in 1..n : d[p] = s[p - 1] % Base
  OBVIOUS
<1>4. Len(d) = n
  OBVIOUS
<1> HIDE DEF s
<1>5. PICK f : /\ Value(d) = f[1] /\ f[n + 1] = 0
               /\ \A p \in 1..n : f[p] = d[p] + Base * f[p + 1]
  <2> HIDE DEF d
  <2> QED
    BY <1>4, ValueIs
<1> DEFINE Q == {m \in Nat : m <= n => f[(n + 1) - m] = s[n - m]}
<1>6. 0 \in Q
  <2>1. (n + 1) - 0 = n + 1 /\ n - 0 = n
    OBVIOUS
  <2> QED
    BY <1>2, <1>5, <2>1
<1>7. ASSUME NEW m \in Nat, m \in Q PROVE m + 1 \in Q
  <2> SUFFICES ASSUME m + 1 <= n PROVE f[(n + 1) - (m + 1)] = s[n - (m + 1)]
    OBVIOUS
  <2> DEFINE p == (n + 1) - (m + 1)
  <2>1. p \in 1..n /\ p + 1 = (n + 1) - m /\ n - m = p /\ n - (m + 1) = p - 1 /\ p - 1 \in 0..n
    OBVIOUS
  <2>2. f[p + 1] = s[p]
    BY <1>7, <2>1
  <2> HIDE DEF p
  <2>3. f[p] = (s[p - 1] % Base) + Base * (s[p - 1] \div Base)
    BY <1>1, <1>3, <1>5, <2>1, <2>2
  <2>4. f[p] = s[p - 1]
    BY <1>1, <2>1, <2>3, DivMod
  <2> QED
    BY <2>1, <2>4 DEF p
<1> HIDE DEF Q
<1>8. n \in Q
  BY <1>6, <1>7, Induction
<1>9. (n + 1) - n = 1 /\ n - n = 0
  OBVIOUS
<1> QED
  BY <1>1, <1>5, <1>8, <1>9 DEF Q, s

LEMMA IntBytesAre ==
  ASSUME NEW v \in Nat, NEW n \in Nat
  PROVE  /\ IntBytes(v, n) \in Seq(Byte) /\ Len(IntBytes(v, n)) = n
         /\ \A p \in 1..n : /\ IntBytes(v, n)[p].kind = "int"
                            /\ IntBytes(v, n)[p].digit = Shifted(v, n)[p - 1] % Base
<1> DEFINE s == Shifted(v, n)
           b == [p \in 1..n |-> [kind |-> "int", digit |-> s[p - 1] % Base]]
<1>1. \A p \in 0..n : s[p] \in Nat
  BY ShiftedIs
<1>2. IntBytes(v, n) = b
  BY DEF IntBytes
<1> HIDE DEF s
<1>3. \A p \in 1..n : s[p - 1] % Base \in 0..(Base - 1)
  <2>1. \A p \in 1..n : p - 1 \in 0..n
    OBVIOUS
  <2> QED
    BY <1>1, <2>1, DivMod
<1>4. \A p \in 1..n : b[p] \in Byte
  BY <1>3 DEF Byte
<1>5. \A p \in 1..n : b[p].kind = "int" /\ b[p].digit = s[p - 1] % Base
  OBVIOUS
<1>6. b \in Seq(Byte) /\ Len(b) = n
  <2>1. b \in [1..n -> Byte]
    BY <1>4
  <2> HIDE DEF b
  <2> QED
    BY <2>1
<1> HIDE DEF b
<1> QED
  BY <1>2, <1>5, <1>6 DEF s

\* The other side reads the number that was written.
LEMMA ValuesOfInt ==
  ASSUME NEW v \in Nat, NEW n \in Nat, Fits(v, n)
  PROVE  Values(IntBytes(v, n)) = {v}
<1> DEFINE b == IntBytes(v, n)
           unknown == {p \in DOMAIN b : b[p].kind \in Opaque}
           digit(p, high) == IF p \notin unknown THEN b[p].digit
                             ELSE IF p \in high THEN Base - 1 ELSE 0
<1>1. /\ DOMAIN b = 1..n
      /\ \A p \in 1..n : b[p].kind = "int" /\ b[p].digit = Shifted(v, n)[p - 1] % Base
  <2>1. b \in Seq(Byte) /\ Len(b) = n
    BY IntBytesAre
  <2>2. DOMAIN b = 1..n
    <3> HIDE DEF b
    <3> QED
      BY <2>1
  <2> QED
    BY <2>2, IntBytesAre
<1> HIDE DEF b
<1>2. unknown = {}
  BY <1>1 DEF Opaque
<1>3. ASSUME NEW high
      PROVE  [p \in DOMAIN b |-> digit(p, high)] = [p \in 1..n |-> Shifted(v, n)[p - 1] % Base]
  BY <1>1, <1>2
<1>4. ASSUME NEW high PROVE Value([p \in DOMAIN b |-> digit(p, high)]) = v
  <2>1. Value([p \in 1..n |-> Shifted(v, n)[p - 1] % Base]) = v
    BY ValueOfDigits
  <2> QED
    BY ONLY <1>3, <2>1
<1>5. Values(b) = {Value([p \in DOMAIN b |-> digit(p, high)]) : high \in SUBSET unknown}
  BY DEF Values
<1> HIDE DEF digit
<1> DEFINE x(high) == Value([p \in DOMAIN b |-> digit(p, high)])
<1>6. Values(b) = {x(high) : high \in SUBSET unknown} /\ \A high : x(high) = v
  BY <1>4, <1>5
<1>7. {} \in SUBSET unknown
  OBVIOUS
<1> HIDE DEF x, unknown
<1>8. \A y : y \in Values(b) <=> y = v
  BY <1>6, <1>7, Zenon
<1>9. Values(b) = {v}
  BY <1>8
<1> QED
  BY <1>9 DEF b

LEMMA ValuesAreNumbers ==
  ASSUME NEW b \in Seq(Byte), NEW v \in Values(b)
  PROVE  v \in Nat
<1> DEFINE unknown == {p \in DOMAIN b : b[p].kind \in Opaque}
           digit(p, high) == IF p \notin unknown THEN b[p].digit
                             ELSE IF p \in high THEN Base - 1 ELSE 0
<1>1. PICK high \in SUBSET unknown : v = Value([p \in DOMAIN b |-> digit(p, high)])
  BY DEF Values
<1>2. ASSUME NEW p \in DOMAIN b PROVE digit(p, high) \in Nat
  <2>1. b[p] \in Byte /\ Base \in Nat /\ Base > 1
    BY BaseFacts
  <2> QED
    BY <2>1 DEF Byte, Opaque
<1>3. [p \in DOMAIN b |-> digit(p, high)] \in Seq(Nat)
  <2>1. DOMAIN b = 1..Len(b) /\ Len(b) \in Nat
    OBVIOUS
  <2> HIDE DEF digit
  <2> QED
    BY <1>2, <2>1
<1> QED
  BY <1>1, <1>3, ValueIsNumber

-----------------------------------------------------------------------------
(* Ciphertexts in bytes.                                                   *)

LEMMA SizeFacts ==
  /\ \A size \in {N, IntSize, CountSize, ContentSize, TagSize, NumberSize} :
       size \in Nat /\ size > 0
  /\ \A t \in Text : Length[t] \in Nat /\ Length[t] > 0 /\ Length[t] <= ContentSize
<1>1. \A size \in {N, IntSize, CountSize, ContentSize, TagSize, NumberSize} :
        size \in Nat /\ size > 0
  <2> SUFFICES ASSUME NEW size \in {N, IntSize, CountSize, ContentSize, TagSize, NumberSize}
               PROVE  size \in Nat /\ size > 0
    OBVIOUS
  <2>1. size \in Nat \ {0}
    BY FieldAssumption, Zenon
  <2> QED
    BY <2>1
<1>2. ASSUME NEW t \in Text
      PROVE  Length[t] \in Nat /\ Length[t] > 0 /\ Length[t] <= ContentSize
  <2>1. Length[t] \in 1..ContentSize /\ ContentSize \in Nat
    BY <1>1, TextAssumption
  <2> QED
    BY <2>1
<1> QED
  BY <1>1, <1>2

LEMMA TextBytesAre ==
  ASSUME NEW kind \in Opaque, NEW t \in Text, NEW n \in Nat
  PROVE  /\ TextBytes(kind, t, n) \in Seq(Byte) /\ Len(TextBytes(kind, t, n)) = n
         /\ \A p \in 1..n : /\ TextBytes(kind, t, n)[p].kind = kind
                            /\ TextBytes(kind, t, n)[p].of = t
                            /\ TextBytes(kind, t, n)[p].at = p
<1> DEFINE b == [p \in 1..n |-> [kind |-> kind, of |-> t, at |-> p]]
<1>1. TextBytes(kind, t, n) = b
  BY DEF TextBytes
<1>2. \A p \in 1..n : b[p].kind = kind /\ b[p].of = t /\ b[p].at = p
  OBVIOUS
<1>3. b \in [1..n -> Byte]
  BY DEF Byte
<1> HIDE DEF b
<1>4. b \in Seq(Byte) /\ Len(b) = n
  BY <1>3
<1> QED
  BY <1>1, <1>2, <1>4

LenField(t) == IntBytes(Length[t], IntSize)
ContentField(t) == TextBytes("content", t, ContentSize)
TagField(t) == TextBytes("tag", t, TagSize)

LEMMA CipherFieldsAre ==
  ASSUME NEW t \in Text
  PROVE  /\ CipherFields(t) = <<LenField(t), ContentField(t), TagField(t)>>
         /\ LenField(t) \in Seq(Byte) /\ Len(LenField(t)) = IntSize
         /\ ContentField(t) \in Seq(Byte) /\ Len(ContentField(t)) = ContentSize
         /\ TagField(t) \in Seq(Byte) /\ Len(TagField(t)) = TagSize
<1>1. Length[t] \in Nat /\ IntSize \in Nat /\ ContentSize \in Nat /\ TagSize \in Nat
  BY SizeFacts
<1>2. "content" \in Opaque /\ "tag" \in Opaque
  BY DEF Opaque
<1>3. LenField(t) \in Seq(Byte) /\ Len(LenField(t)) = IntSize
  BY <1>1, IntBytesAre DEF LenField
<1>4. ContentField(t) \in Seq(Byte) /\ Len(ContentField(t)) = ContentSize
  BY <1>1, <1>2, TextBytesAre DEF ContentField
<1>5. TagField(t) \in Seq(Byte) /\ Len(TagField(t)) = TagSize
  BY <1>1, <1>2, TextBytesAre DEF TagField
<1>6. CipherFields(t) = <<LenField(t), ContentField(t), TagField(t)>>
  BY DEF CipherFields, LenField, ContentField, TagField
<1> QED
  BY <1>3, <1>4, <1>5, <1>6

\* What is read in the pieces it was written in is decrypted to what was encrypted.
LEMMA Opens ==
  ASSUME NEW t \in Text, NEW fields, fields.len = LenField(t),
         fields.content = ContentField(t), fields.tag = TagField(t)
  PROVE  Decrypted(fields) = t
<1> DEFINE l == Length[t]
<1>1. /\ l \in Nat /\ l > 0 /\ l <= ContentSize
      /\ IntSize \in Nat /\ ContentSize \in Nat /\ TagSize \in Nat /\ TagSize > 0
  BY SizeFacts
<1>2. "content" \in Opaque /\ "tag" \in Opaque
  BY DEF Opaque
<1>3. l \in Values(fields.len)
  <2>1. Fits(l, IntSize)
    BY WidthAssumption
  <2> QED
    BY <1>1, <2>1, ValuesOfInt DEF LenField
<1>4. Len(fields.content) >= l
  BY <1>1, CipherFieldsAre
<1>5. SubSeq(fields.content, 1, l) = TextBytes("content", t, l)
  BY <1>1 DEF ContentField, TextBytes
<1>6. OpensAs(fields, t)
  BY <1>3, <1>4, <1>5 DEF OpensAs, TagField
<1>7. ASSUME NEW u \in Text, OpensAs(fields, u) PROVE u = t
  <2>1. TagField(t) = TextBytes("tag", u, TagSize)
    BY <1>7 DEF OpensAs
  <2>2. 1 \in 1..TagSize
    BY <1>1
  <2>3. \A x : TextBytes("tag", x, TagSize)[1].of = x
    BY <2>2 DEF TextBytes
  <2> QED
    BY <2>1, <2>3 DEF TagField
<1> QED
  BY <1>6, <1>7 DEF Decrypted

LEMMA DecryptedIs == \A fields : Decrypted(fields) \in Text \cup {Bad}
BY DEF Decrypted

-----------------------------------------------------------------------------
(* Sequences put together, one after the other.                            *)

\* The first n sequences of ss.
Flattening(f, ss, n) == f = [i \in 1..n |-> IF i = 1 THEN ss[i] ELSE f[i - 1] \o ss[i]]

\* There is such a function: by induction on n.
LEMMA FlatteningExists ==
  ASSUME NEW n \in Nat, NEW ss
  PROVE  \E f : Flattening(f, ss, n)
<1> DEFINE Q == {m \in Nat : \E f : Flattening(f, ss, m)}
<1>1. 0 \in Q
  <2>1. Flattening([i \in {} |-> 0], ss, 0)
    BY DEF Flattening
  <2> QED
    BY <2>1
<1>2. ASSUME NEW m \in Nat, m \in Q PROVE m + 1 \in Q
  <2>1. PICK f : Flattening(f, ss, m)
    BY <1>2
  <2> DEFINE last == IF m = 0 THEN ss[1] ELSE f[m] \o ss[m + 1]
             g == [i \in 1..(m + 1) |-> IF i <= m THEN f[i] ELSE last]
  <2>2. \A i \in 1..m : f[i] = IF i = 1 THEN ss[i] ELSE f[i - 1] \o ss[i]
    BY <2>1 DEF Flattening
  <2>3. ASSUME NEW i \in 1..(m + 1)
        PROVE  g[i] = IF i = 1 THEN ss[i] ELSE g[i - 1] \o ss[i]
    <3>1. CASE i <= m
      <4>1. i \in 1..m /\ g[i] = f[i] /\ (i # 1 => g[i - 1] = f[i - 1])
        BY <3>1
      <4> QED
        BY <2>2, <4>1
    <3>2. CASE ~ (i <= m)
      <4>1. i = m + 1 /\ g[i] = last /\ (i = 1 <=> m = 0) /\ (i # 1 => g[i - 1] = f[m])
        BY <3>2
      <4> QED
        BY <4>1
    <3> QED
      BY <3>1, <3>2
  <2>4. g = [i \in 1..(m + 1) |-> g[i]]
    OBVIOUS
  <2> HIDE DEF g
  <2>5. Flattening(g, ss, m + 1)
    BY <2>3, <2>4 DEF Flattening
  <2> QED
    BY <2>5
<1> HIDE DEF Q
<1>3. n \in Q
  BY <1>1, <1>2, Induction
<1> QED
  BY <1>3 DEF Q

\* FlattenSeq is the last value of such a function.
LEMMA FlattenIsLast ==
  ASSUME NEW ss, Len(ss) \in Nat, Len(ss) # 0
  PROVE  \E f : Flattening(f, ss, Len(ss)) /\ FlattenSeq(ss) = f[Len(ss)]
<1> DEFINE n == Len(ss)
           g == CHOOSE h : h = [i \in 1..n |-> IF i = 1 THEN ss[i] ELSE h[i - 1] \o ss[i]]
<1>1. g = [i \in 1..n |-> IF i = 1 THEN ss[i] ELSE g[i - 1] \o ss[i]]
  BY FlatteningExists DEF Flattening
<1>2. FlattenSeq(ss) = g[n]
  BY DEF FlattenSeq
<1> HIDE DEF g
<1>3. Flattening(g, ss, n)
  BY <1>1 DEF Flattening
<1> QED
  BY <1>2, <1>3

LEMMA Concat ==
  ASSUME NEW S, NEW r \in Seq(S), NEW s \in Seq(S), NEW t \in Seq(S)
  PROVE  r \o s \in Seq(S) /\ (r \o s) \o t = r \o (s \o t)
<1> DEFINE a == (r \o s) \o t
           b == r \o (s \o t)
<1>1. a \in Seq(S) /\ b \in Seq(S) /\ Len(a) = Len(b)
  OBVIOUS
<1>2. \A i \in 1..Len(a) : a[i] = b[i]
  OBVIOUS
<1> HIDE DEF a, b
<1>3. a = b
  BY <1>1, <1>2, SeqEqual
<1> QED
  BY <1>3 DEF a, b

LEMMA FlattenEmpty == FlattenSeq(<<>>) = <<>>
BY DEF FlattenSeq

LEMMA FlatteningIsSeq ==
  ASSUME NEW S, NEW ss, NEW n \in Nat, \A i \in 1..n : ss[i] \in Seq(S),
         NEW f, Flattening(f, ss, n)
  PROVE  \A i \in 1..n : f[i] \in Seq(S)
<1>1. \A i \in 1..n : f[i] = IF i = 1 THEN ss[i] ELSE f[i - 1] \o ss[i]
  BY DEF Flattening
<1> DEFINE Q == {m \in Nat : m \in 1..n => f[m] \in Seq(S)}
<1>2. 0 \in Q
  OBVIOUS
<1>3. ASSUME NEW m \in Nat, m \in Q PROVE m + 1 \in Q
  <2> SUFFICES ASSUME m + 1 \in 1..n PROVE f[m + 1] \in Seq(S)
    OBVIOUS
  <2>1. ss[m + 1] \in Seq(S) /\ (m + 1) - 1 = m
    OBVIOUS
  <2>2. CASE m = 0
    BY <1>1, <2>1, <2>2
  <2>3. CASE m # 0
    <3>1. m \in 1..n /\ m + 1 # 1
      BY <2>3
    <3>2. f[m] \in Seq(S)
      BY <1>3, <3>1
    <3>3. f[m + 1] = f[m] \o ss[m + 1]
      BY <1>1, <2>1, <3>1
    <3> QED
      BY <2>1, <3>2, <3>3
  <2> QED
    BY <2>2, <2>3
<1> HIDE DEF Q
<1>4. Nat \subseteq Q
  BY <1>2, <1>3, Induction
<1> QED
  BY <1>4 DEF Q

LEMMA FlattenType ==
  ASSUME NEW S, NEW ss \in Seq(Seq(S))
  PROVE  FlattenSeq(ss) \in Seq(S)
<1>1. CASE ss = <<>>
  BY <1>1, FlattenEmpty, EmptySeq
<1>2. CASE ss # <<>>
  <2>1. Len(ss) \in Nat /\ Len(ss) # 0 /\ \A i \in 1..Len(ss) : ss[i] \in Seq(S)
    BY <1>2
  <2>2. PICK f : Flattening(f, ss, Len(ss)) /\ FlattenSeq(ss) = f[Len(ss)]
    BY <2>1, FlattenIsLast
  <2>3. f[Len(ss)] \in Seq(S)
    <3>1. Len(ss) \in 1..Len(ss)
      BY <2>1
    <3> QED
      BY <2>1, <2>2, <3>1, FlatteningIsSeq
  <2> QED
    BY <2>2, <2>3
<1> QED
  BY <1>1, <1>2

\* Something more at the end.
LEMMA FlattenAppend ==
  ASSUME NEW S, NEW ss \in Seq(Seq(S)), NEW s \in Seq(S)
  PROVE  FlattenSeq(Append(ss, s)) = FlattenSeq(ss) \o s
<1> DEFINE n == Len(ss)
           tt == Append(ss, s)
<1>1. /\ n \in Nat /\ tt \in Seq(Seq(S)) /\ Len(tt) = n + 1 /\ tt[n + 1] = s
      /\ \A i \in 1..n : tt[i] = ss[i]
  OBVIOUS
<1>2. PICK g : Flattening(g, tt, n + 1) /\ FlattenSeq(tt) = g[n + 1]
  <2>1. Len(tt) \in Nat /\ Len(tt) # 0 /\ Len(tt) = n + 1
    BY <1>1
  <2> HIDE DEF tt, n
  <2> QED
    BY <2>1, FlattenIsLast
<1>3. \A i \in 1..(n + 1) : g[i] = IF i = 1 THEN tt[i] ELSE g[i - 1] \o tt[i]
  BY <1>1, <1>2 DEF Flattening
<1>4. CASE n = 0
  <2>1. ss = <<>> /\ g[n + 1] = s
    BY <1>1, <1>3, <1>4
  <2> QED
    BY <1>2, <2>1, FlattenEmpty
<1>5. CASE n # 0
  <2>1. PICK f : Flattening(f, ss, n) /\ FlattenSeq(ss) = f[n]
    BY <1>1, <1>5, FlattenIsLast
  <2>2. \A i \in 1..n : f[i] = IF i = 1 THEN ss[i] ELSE f[i - 1] \o ss[i]
    BY <2>1 DEF Flattening
  <2> DEFINE Q == {m \in Nat : m \in 1..n => f[m] = g[m]}
  <2>3. 0 \in Q
    OBVIOUS
  <2>4. ASSUME NEW m \in Nat, m \in Q PROVE m + 1 \in Q
    <3> SUFFICES ASSUME m + 1 \in 1..n PROVE f[m + 1] = g[m + 1]
      OBVIOUS
    <3>1. tt[m + 1] = ss[m + 1] /\ (m + 1) - 1 = m /\ m + 1 \in 1..(n + 1)
      BY <1>1
    <3>2. CASE m = 0
      BY <1>3, <2>2, <3>1, <3>2
    <3>3. CASE m # 0
      <4>1. f[m] = g[m]
        BY <2>4, <1>1, <3>3
      <4>2. m + 1 # 1
        BY <3>3
      <4>3. f[m + 1] = f[m] \o ss[m + 1]
        BY <2>2, <3>1, <4>2
      <4>4. g[m + 1] = g[m] \o tt[m + 1]
        BY <1>3, <3>1, <4>2
      <4> QED
        BY <3>1, <4>1, <4>3, <4>4
    <3> QED
      BY <3>2, <3>3
  <2> HIDE DEF Q
  <2>5. n \in Q
    BY <1>1, <2>3, <2>4, Induction
  <2>6. f[n] = g[n]
    BY <1>1, <1>5, <2>5 DEF Q
  <2>7. g[n + 1] = g[n] \o s
    <3>1. n + 1 \in 1..(n + 1) /\ n + 1 # 1 /\ (n + 1) - 1 = n
      BY <1>1, <1>5
    <3> QED
      BY <1>1, <1>3, <3>1
  <2> QED
    BY <1>2, <2>1, <2>6, <2>7
<1> QED
  BY <1>4, <1>5

\* Something more at the beginning: by induction on the length of the rest.
LEMMA FlattenCons ==
  ASSUME NEW S, NEW s \in Seq(S), NEW ss \in Seq(Seq(S))
  PROVE  FlattenSeq(<<s>> \o ss) = s \o FlattenSeq(ss)
<1> DEFINE Holds(m) == \A tt \in Seq(Seq(S)) :
                         Len(tt) = m => FlattenSeq(<<s>> \o tt) = s \o FlattenSeq(tt)
           Q == {m \in Nat : Holds(m)}
<1>1. 0 \in Q
  <2> SUFFICES ASSUME NEW tt \in Seq(Seq(S)), Len(tt) = 0
               PROVE  FlattenSeq(<<s>> \o tt) = s \o FlattenSeq(tt)
    OBVIOUS
  <2>1. tt = <<>> /\ <<s>> \o tt = Append(<<>>, s) /\ <<>> \in Seq(Seq(S))
    OBVIOUS
  <2>2. FlattenSeq(Append(<<>>, s)) = FlattenSeq(<<>>) \o s
    BY <2>1, FlattenAppend
  <2>3. FlattenSeq(<<>>) \o s = s /\ s \o FlattenSeq(<<>>) = s
    BY FlattenEmpty, ConcatEmptySeq
  <2> QED
    BY <2>1, <2>2, <2>3
<1>2. ASSUME NEW m \in Nat, m \in Q PROVE m + 1 \in Q
  <2>0. Holds(m)
    BY <1>2
  <2> SUFFICES Holds(m + 1)
    <3> HIDE DEF Holds
    <3> QED
      OBVIOUS
  <2> SUFFICES ASSUME NEW tt \in Seq(Seq(S)), Len(tt) = m + 1
               PROVE  FlattenSeq(<<s>> \o tt) = s \o FlattenSeq(tt)
    OBVIOUS
  <2>1. tt # <<>>
    OBVIOUS
  <2>2. PICK uu \in Seq(Seq(S)), u \in Seq(S) : tt = Append(uu, u)
    BY <2>1, SequenceEmptyOrAppend
  <2>3. Len(uu) = m
    BY <2>2
  <2>4. FlattenSeq(<<s>> \o uu) = s \o FlattenSeq(uu)
    BY <2>0, <2>3
  <2>5. <<s>> \o tt = Append(<<s>> \o uu, u)
    BY <2>2
  <2>6. <<s>> \o uu \in Seq(Seq(S))
    OBVIOUS
  <2>7. FlattenSeq(<<s>> \o tt) = FlattenSeq(<<s>> \o uu) \o u
    BY <2>5, <2>6, FlattenAppend
  <2>8. FlattenSeq(tt) = FlattenSeq(uu) \o u
    BY <2>2, FlattenAppend
  <2>9. FlattenSeq(uu) \in Seq(S)
    BY FlattenType
  <2>10. (s \o FlattenSeq(uu)) \o u = s \o (FlattenSeq(uu) \o u)
    <3> DEFINE w == FlattenSeq(uu)
    <3>1. s \in Seq(S) /\ w \in Seq(S) /\ u \in Seq(S)
      BY <2>9
    <3> HIDE DEF w
    <3>2. (s \o w) \o u = s \o (w \o u)
      BY ONLY <3>1, Concat, SMTT(30)
    <3> QED
      BY <3>2 DEF w
  <2> QED
    BY <2>4, <2>7, <2>8, <2>10
<1> HIDE DEF Q
<1>3. Len(ss) \in Q
  <2>1. Nat \subseteq Q
    BY <1>1, <1>2, Induction
  <2> QED
    BY <2>1
<1> QED
  BY <1>3 DEF Q

-----------------------------------------------------------------------------
(* What an answer is made of, field by field.                              *)

\* The bytes of a field: there are some.
Piece == Seq(Byte) \ {<<>>}

Nums(docs) == FlattenSeq([d \in DOMAIN docs |-> CipherFields(docs[d])])
Rows(answer) == FlattenSeq([e \in DOMAIN answer |-> EntryFields(answer[e])])

OneField == IntBytes(1, IntSize)
SizeField(docs) == IntBytes(Announced(docs), CountSize)
CountField(answer) == IntBytes(Len(answer), CountSize)

\* What is left of an answer where the client reads the numbers docs, then the
\* entries todo; and from the places before, where entry e or number t is next.
AtNums(docs, todo) == Nums(docs) \o Rows(todo)
AtSize(e, todo) == <<SizeField(e.docs)>> \o AtNums(e.docs, todo)
AtTag(e, todo) == <<TagField(e.word)>> \o AtSize(e, todo)
AtContent(e, todo) == <<ContentField(e.word)>> \o AtTag(e, todo)
AtLen(e, todo) == <<LenField(e.word)>> \o AtContent(e, todo)
AtDistance(e, todo) == <<OneField>> \o AtLen(e, todo)
AtNumTag(t, docs, todo) == <<TagField(t)>> \o AtNums(docs, todo)
AtNumContent(t, docs, todo) == <<ContentField(t)>> \o AtNumTag(t, docs, todo)
AtNumLen(t, docs, todo) == <<LenField(t)>> \o AtNumContent(t, docs, todo)

LEMMA PieceFacts ==
  /\ Seq(Piece) \subseteq Seq(Seq(Byte))
  /\ \A b \in Seq(Byte) : Len(b) > 0 => b \in Piece
  /\ \A b \in Piece : b \in Seq(Byte) /\ Len(b) \in Nat /\ Len(b) > 0
<1>1. \A b \in Seq(Byte) : Len(b) > 0 => b \in Piece
  BY DEF Piece
<1>2. \A b \in Piece : b \in Seq(Byte) /\ Len(b) \in Nat /\ Len(b) > 0
  BY DEF Piece
<1>3. ASSUME NEW ss \in Seq(Piece) PROVE ss \in Seq(Seq(Byte))
  BY <1>2, SeqMonotonic
<1> QED
  BY <1>1, <1>2, <1>3

LEMMA CipherPieces ==
  ASSUME NEW t \in Text
  PROVE  /\ LenField(t) \in Piece /\ Len(LenField(t)) = IntSize
         /\ ContentField(t) \in Piece /\ Len(ContentField(t)) = ContentSize
         /\ TagField(t) \in Piece /\ Len(TagField(t)) = TagSize
         /\ CipherFields(t) = <<LenField(t), ContentField(t), TagField(t)>>
         /\ CipherFields(t) \in Seq(Piece)
<1>1. IntSize > 0 /\ ContentSize > 0 /\ TagSize > 0
  BY SizeFacts
<1>2. /\ LenField(t) \in Seq(Byte) /\ Len(LenField(t)) = IntSize
      /\ ContentField(t) \in Seq(Byte) /\ Len(ContentField(t)) = ContentSize
      /\ TagField(t) \in Seq(Byte) /\ Len(TagField(t)) = TagSize
      /\ CipherFields(t) = <<LenField(t), ContentField(t), TagField(t)>>
  BY CipherFieldsAre
<1>3. LenField(t) \in Piece /\ ContentField(t) \in Piece /\ TagField(t) \in Piece
  BY <1>1, <1>2, PieceFacts
<1> QED
  BY <1>2, <1>3

LEMMA AnnouncedIs ==
  ASSUME NEW docs \in Seq(Text)
  PROVE  Announced(docs) \in Nat /\ Announced(docs) \div NumberSize = Len(docs)
<1>1. NumberSize \in Nat /\ NumberSize > 0 /\ Len(docs) \in Nat
  BY SizeFacts
<1> DEFINE l == Len(docs)
<1>2. \A m \in Nat : m * NumberSize \in Nat /\ (m * NumberSize) \div NumberSize = m
  BY <1>1
<1> QED
  BY <1>1, <1>2 DEF Announced

LEMMA IntPieces ==
  ASSUME NEW v \in Nat, NEW n \in Nat, n > 0
  PROVE  IntBytes(v, n) \in Piece /\ Len(IntBytes(v, n)) = n
BY IntBytesAre, PieceFacts

LEMMA EntryPieces ==
  ASSUME NEW e \in Entry
  PROVE  /\ e.word \in Text /\ e.docs \in Seq(Text)
         /\ OneField \in Piece /\ Len(OneField) = IntSize
         /\ SizeField(e.docs) \in Piece /\ Len(SizeField(e.docs)) = CountSize
<1>1. e.word \in Text /\ e.docs \in Seq(Text)
  BY DEF Entry
<1>2. IntSize \in Nat /\ IntSize > 0 /\ CountSize \in Nat /\ CountSize > 0
  BY SizeFacts
<1>3. OneField \in Piece /\ Len(OneField) = IntSize
  BY <1>2, IntPieces DEF OneField
<1>4. SizeField(e.docs) \in Piece /\ Len(SizeField(e.docs)) = CountSize
  BY <1>1, <1>2, IntPieces, AnnouncedIs DEF SizeField
<1> QED
  BY <1>1, <1>3, <1>4

\* A list with something more at its beginning.
LEMMA ConsIs ==
  ASSUME NEW S, NEW F \in Seq(S), NEW c \in S, NEW G,
         G = [d \in 1..(Len(F) + 1) |-> G[d]], G[1] = c,
         \A d \in 1..Len(F) : G[d + 1] = F[d]
  PROVE  G = <<c>> \o F
<1> DEFINE H == <<c>> \o F
<1>1. /\ H \in Seq(S) /\ Len(H) = Len(F) + 1 /\ H[1] = c /\ Len(F) \in Nat
      /\ \A d \in 1..Len(F) : H[d + 1] = F[d]
  OBVIOUS
<1> HIDE DEF H
<1>2. ASSUME NEW d \in 1..(Len(F) + 1) PROVE G[d] = H[d]
  <2>1. CASE d = 1
    BY <1>1, <2>1
  <2>2. CASE d # 1
    <3>1. d - 1 \in 1..Len(F) /\ (d - 1) + 1 = d
      BY <1>1, <2>2
    <3> QED
      BY <1>1, <3>1
  <2> QED
    BY <2>1, <2>2
<1>3. H = [d \in 1..(Len(F) + 1) |-> H[d]]
  BY <1>1
<1>4. G = H
  BY <1>2, <1>3
<1> QED
  BY <1>4 DEF H

\* The numbers of an entry: the first one, and the others.
LEMMA NumsAre ==
  ASSUME NEW docs \in Seq(Text)
  PROVE  /\ Nums(docs) \in Seq(Piece)
         /\ docs = <<>> => Nums(docs) = <<>>
         /\ \A t \in Text : Nums(<<t>> \o docs) = CipherFields(t) \o Nums(docs)
<1> DEFINE F == [d \in DOMAIN docs |-> CipherFields(docs[d])]
<1>1. F \in Seq(Seq(Piece)) /\ Len(F) = Len(docs) /\ DOMAIN docs = 1..Len(docs)
  <2>1. Len(docs) \in Nat /\ DOMAIN docs = 1..Len(docs)
    OBVIOUS
  <2>2. F \in [1..Len(docs) -> Seq(Piece)]
    BY <2>1, CipherPieces
  <2> HIDE DEF F
  <2> QED
    BY <2>1, <2>2
<1>2. Nums(docs) = FlattenSeq(F)
  BY DEF Nums
<1>3. Nums(docs) \in Seq(Piece)
  BY <1>1, <1>2, FlattenType
<1>4. docs = <<>> => Nums(docs) = <<>>
  <2> SUFFICES ASSUME docs = <<>> PROVE Nums(docs) = <<>>
    OBVIOUS
  <2>1. Len(docs) = 0
    OBVIOUS
  <2>2. F = <<>>
    <3> HIDE DEF F
    <3> QED
      BY <1>1, <2>1
  <2> QED
    BY <1>2, <2>2, FlattenEmpty
<1>5. ASSUME NEW t \in Text PROVE Nums(<<t>> \o docs) = CipherFields(t) \o Nums(docs)
  <2> DEFINE all == <<t>> \o docs
             G == [d \in DOMAIN all |-> CipherFields(all[d])]
             c == CipherFields(t)
  <2>1. /\ DOMAIN all = 1..(Len(docs) + 1) /\ all[1] = t /\ Len(docs) \in Nat
        /\ \A d \in 1..Len(docs) : all[d + 1] = docs[d]
    OBVIOUS
  <2>2. c \in Seq(Piece)
    BY CipherPieces
  <2>3. Nums(all) = FlattenSeq(G)
    BY DEF Nums
  <2>4. G = <<c>> \o F
    <3>1. DOMAIN G = 1..(Len(docs) + 1) /\ G[1] = c
      BY <2>1
    <3>2. \A d \in 1..Len(docs) : G[d + 1] = F[d]
      BY <1>1, <2>1
    <3>3. G = [d \in 1..(Len(docs) + 1) |-> G[d]]
      BY <3>1
    <3> HIDE DEF G, F, c
    <3>4. G = [d \in 1..(Len(F) + 1) |-> G[d]] /\ \A d \in 1..Len(F) : G[d + 1] = F[d]
      BY <1>1, <3>2, <3>3
    <3>5. F \in Seq(Seq(Piece)) /\ c \in Seq(Piece) /\ G[1] = c
      BY <1>1, <2>2, <3>1
    <3> QED
      BY ONLY <3>4, <3>5, ConsIs
  <2>5. FlattenSeq(<<c>> \o F) = c \o FlattenSeq(F)
    <3> HIDE DEF F, c
    <3> QED
      BY <1>1, <2>2, FlattenCons
  <2> QED
    BY <1>2, <2>3, <2>4, <2>5
<1> QED
  BY <1>3, <1>4, <1>5

LEMMA EntryFieldsAre ==
  ASSUME NEW e \in Entry
  PROVE  EntryFields(e) \in Seq(Piece)
<1>1. /\ OneField \in Piece /\ SizeField(e.docs) \in Piece
      /\ CipherFields(e.word) \in Seq(Piece) /\ Nums(e.docs) \in Seq(Piece)
  BY EntryPieces, CipherPieces, NumsAre
<1>2. EntryFields(e) = <<OneField>> \o CipherFields(e.word) \o <<SizeField(e.docs)>> \o Nums(e.docs)
  BY DEF EntryFields, OneField, SizeField, Nums
<1> QED
  BY <1>1, <1>2

\* The entries of an answer: the first one, and the others.
LEMMA RowsAre ==
  ASSUME NEW answer \in Seq(Entry)
  PROVE  /\ Rows(answer) \in Seq(Piece)
         /\ answer = <<>> => Rows(answer) = <<>>
         /\ \A e \in Entry : Rows(<<e>> \o answer) = EntryFields(e) \o Rows(answer)
<1> DEFINE F == [d \in DOMAIN answer |-> EntryFields(answer[d])]
<1>1. F \in Seq(Seq(Piece)) /\ Len(F) = Len(answer) /\ DOMAIN answer = 1..Len(answer)
  <2>1. Len(answer) \in Nat /\ DOMAIN answer = 1..Len(answer)
    OBVIOUS
  <2>2. F \in [1..Len(answer) -> Seq(Piece)]
    BY <2>1, EntryFieldsAre
  <2> HIDE DEF F
  <2> QED
    BY <2>1, <2>2
<1>2. Rows(answer) = FlattenSeq(F)
  BY DEF Rows
<1>3. Rows(answer) \in Seq(Piece)
  BY <1>1, <1>2, FlattenType
<1>4. answer = <<>> => Rows(answer) = <<>>
  <2> SUFFICES ASSUME answer = <<>> PROVE Rows(answer) = <<>>
    OBVIOUS
  <2>1. Len(answer) = 0
    OBVIOUS
  <2>2. F = <<>>
    <3> HIDE DEF F
    <3> QED
      BY <1>1, <2>1
  <2> QED
    BY <1>2, <2>2, FlattenEmpty
<1>5. ASSUME NEW e \in Entry PROVE Rows(<<e>> \o answer) = EntryFields(e) \o Rows(answer)
  <2> DEFINE all == <<e>> \o answer
             G == [d \in DOMAIN all |-> EntryFields(all[d])]
             c == EntryFields(e)
  <2>1. /\ DOMAIN all = 1..(Len(answer) + 1) /\ all[1] = e /\ Len(answer) \in Nat
        /\ \A d \in 1..Len(answer) : all[d + 1] = answer[d]
    OBVIOUS
  <2>2. c \in Seq(Piece)
    BY EntryFieldsAre
  <2>3. Rows(all) = FlattenSeq(G)
    BY DEF Rows
  <2>4. G = <<c>> \o F
    <3>1. DOMAIN G = 1..(Len(answer) + 1) /\ G[1] = c
      BY <2>1
    <3>2. \A d \in 1..Len(answer) : G[d + 1] = F[d]
      BY <1>1, <2>1
    <3>3. G = [d \in 1..(Len(answer) + 1) |-> G[d]]
      BY <3>1
    <3> HIDE DEF G, F, c
    <3>4. G = [d \in 1..(Len(F) + 1) |-> G[d]] /\ \A d \in 1..Len(F) : G[d + 1] = F[d]
      BY <1>1, <3>2, <3>3
    <3>5. F \in Seq(Seq(Piece)) /\ c \in Seq(Piece) /\ G[1] = c
      BY <1>1, <2>2, <3>1
    <3> QED
      BY ONLY <3>4, <3>5, ConsIs
  <2>5. FlattenSeq(<<c>> \o F) = c \o FlattenSeq(F)
    <3> HIDE DEF F, c
    <3> QED
      BY <1>1, <2>2, FlattenCons
  <2> QED
    BY <1>2, <2>3, <2>4, <2>5
<1> QED
  BY <1>3, <1>4, <1>5

LEMMA NumsAt ==
  ASSUME NEW docs \in Seq(Text), NEW todo \in Seq(Entry)
  PROVE  /\ AtNums(docs, todo) \in Seq(Piece)
         /\ docs = <<>> => AtNums(docs, todo) = Rows(todo)
<1>1. Nums(docs) \in Seq(Piece) /\ Rows(todo) \in Seq(Piece)
  BY NumsAre, RowsAre
<1>2. AtNums(docs, todo) \in Seq(Piece)
  BY <1>1 DEF AtNums
<1>3. docs = <<>> => AtNums(docs, todo) = Rows(todo)
  BY <1>1, NumsAre, ConcatEmptySeq DEF AtNums
<1> QED
  BY <1>2, <1>3

\* Three fields and then what follows, taken one by one.
LEMMA ThreeFirst ==
  ASSUME NEW S, NEW x \in S, NEW y \in S, NEW z \in S, NEW s \in Seq(S)
  PROVE  <<x, y, z>> \o s = <<x>> \o (<<y>> \o (<<z>> \o s))
<1> DEFINE a == <<x, y, z>> \o s
           c == <<z>> \o s
           d == <<y>> \o c
           b == <<x>> \o d
<1>1. /\ a \in Seq(S) /\ Len(a) = Len(s) + 3 /\ a[1] = x /\ a[2] = y /\ a[3] = z
      /\ \A i \in 1..Len(s) : a[i + 3] = s[i]
      /\ Len(s) \in Nat
  OBVIOUS
<1>2. /\ c \in Seq(S) /\ Len(c) = Len(s) + 1 /\ c[1] = z
      /\ \A i \in 1..Len(s) : c[i + 1] = s[i]
  OBVIOUS
<1> HIDE DEF a, c
<1>3. d \in Seq(S) /\ Len(d) = Len(c) + 1 /\ d[1] = y /\ \A i \in 1..Len(c) : d[i + 1] = c[i]
  BY <1>2
<1> HIDE DEF d
<1>4. b \in Seq(S) /\ Len(b) = Len(d) + 1 /\ b[1] = x /\ \A i \in 1..Len(d) : b[i + 1] = d[i]
  BY <1>3
<1> HIDE DEF b
<1>5. ASSUME NEW i \in 1..Len(a) PROVE a[i] = b[i]
  <2>1. CASE i = 1
    BY <1>1, <1>4, <2>1
  <2>2. CASE i = 2
    <3>1. b[1 + 1] = d[1]
      BY <1>1, <1>2, <1>3, <1>4
    <3> QED
      BY <1>1, <1>3, <2>2, <3>1
  <2>3. CASE i = 3
    <3>1. b[2 + 1] = d[2] /\ d[1 + 1] = c[1]
      BY <1>1, <1>2, <1>3, <1>4
    <3> QED
      BY <1>1, <1>2, <2>3, <3>1
  <2>4. CASE i > 3
    <3> DEFINE j == i - 3
    <3>1. j \in 1..Len(s) /\ i = j + 3
      BY <1>1, <2>4
    <3>2. b[(j + 2) + 1] = d[j + 2] /\ d[(j + 1) + 1] = c[j + 1] /\ c[j + 1] = s[j]
      BY <1>1, <1>2, <1>3, <1>4, <3>1
    <3>3. (j + 2) + 1 = i /\ (j + 1) + 1 = j + 2 /\ a[i] = s[j]
      BY <1>1, <3>1
    <3> QED
      BY <3>2, <3>3
  <2> QED
    BY <1>1, <2>1, <2>2, <2>3, <2>4
<1>6. Len(a) = Len(b)
  BY <1>1, <1>2, <1>3, <1>4
<1>7. a = b
  BY <1>1, <1>4, <1>5, <1>6, SeqEqual
<1> QED
  BY <1>7 DEF a, b, c, d

LEMMA CipherFirst ==
  ASSUME NEW t \in Text, NEW s \in Seq(Piece)
  PROVE  CipherFields(t) \o s
           = <<LenField(t)>> \o (<<ContentField(t)>> \o (<<TagField(t)>> \o s))
<1> DEFINE x == LenField(t)
           y == ContentField(t)
           z == TagField(t)
<1>1. x \in Piece /\ y \in Piece /\ z \in Piece /\ CipherFields(t) = <<x, y, z>>
  BY CipherPieces
<1> HIDE DEF x, y, z
<1>2. <<x, y, z>> \o s = <<x>> \o (<<y>> \o (<<z>> \o s))
  BY <1>1, ThreeFirst, SMTT(30)
<1>3. CipherFields(t) \o s = <<x>> \o (<<y>> \o (<<z>> \o s))
  BY ONLY <1>1, <1>2, Zenon
<1> QED
  BY <1>3 DEF x, y, z

LEMMA NumAt ==
  ASSUME NEW t \in Text, NEW docs \in Seq(Text), NEW todo \in Seq(Entry)
  PROVE  /\ AtNumTag(t, docs, todo) \in Seq(Piece)
         /\ AtNumContent(t, docs, todo) \in Seq(Piece)
         /\ AtNumLen(t, docs, todo) \in Seq(Piece)
         /\ AtNums(<<t>> \o docs, todo) = AtNumLen(t, docs, todo)
<1>1. /\ LenField(t) \in Piece /\ ContentField(t) \in Piece /\ TagField(t) \in Piece
      /\ CipherFields(t) = <<LenField(t), ContentField(t), TagField(t)>>
      /\ CipherFields(t) \in Seq(Piece)
  BY CipherPieces
<1>2. Nums(docs) \in Seq(Piece) /\ Rows(todo) \in Seq(Piece) /\ AtNums(docs, todo) \in Seq(Piece)
  BY NumsAre, RowsAre, NumsAt
<1>3. AtNumTag(t, docs, todo) \in Seq(Piece)
  BY <1>1, <1>2 DEF AtNumTag
<1>4. AtNumContent(t, docs, todo) \in Seq(Piece)
  BY <1>1, <1>3 DEF AtNumContent
<1>5. AtNumLen(t, docs, todo) \in Seq(Piece)
  BY <1>1, <1>4 DEF AtNumLen
<1>6. Nums(<<t>> \o docs) = CipherFields(t) \o Nums(docs)
  BY NumsAre
<1>7. (CipherFields(t) \o Nums(docs)) \o Rows(todo) = CipherFields(t) \o (Nums(docs) \o Rows(todo))
  BY ONLY <1>1, <1>2, Concat
<1>8. AtNums(<<t>> \o docs, todo) = CipherFields(t) \o AtNums(docs, todo)
  BY <1>6, <1>7 DEF AtNums
<1>9. CipherFields(t) \o AtNums(docs, todo) = AtNumLen(t, docs, todo)
  BY <1>2, CipherFirst DEF AtNumLen, AtNumContent, AtNumTag
<1>10. AtNums(<<t>> \o docs, todo) = AtNumLen(t, docs, todo)
  BY ONLY <1>8, <1>9, Zenon
<1> QED
  BY ONLY <1>3, <1>4, <1>5, <1>10, Zenon

LEMMA EntryAt ==
  ASSUME NEW e \in Entry, NEW todo \in Seq(Entry)
  PROVE  /\ AtSize(e, todo) \in Seq(Piece) /\ AtTag(e, todo) \in Seq(Piece)
         /\ AtContent(e, todo) \in Seq(Piece) /\ AtLen(e, todo) \in Seq(Piece)
         /\ AtDistance(e, todo) \in Seq(Piece)
         /\ Rows(<<e>> \o todo) = AtDistance(e, todo)
<1> DEFINE t == e.word
           o == OneField
           z == SizeField(e.docs)
           c == CipherFields(t)
           n == Nums(e.docs)
           r == Rows(todo)
           a == AtNums(e.docs, todo)
<1>1. e.word \in Text /\ e.docs \in Seq(Text) /\ o \in Piece /\ z \in Piece
  BY EntryPieces
<1>2. /\ LenField(t) \in Piece /\ ContentField(t) \in Piece /\ TagField(t) \in Piece
      /\ c = <<LenField(t), ContentField(t), TagField(t)>> /\ c \in Seq(Piece)
  BY <1>1, CipherPieces
<1>3. n \in Seq(Piece) /\ r \in Seq(Piece) /\ a \in Seq(Piece)
  BY <1>1, NumsAre, RowsAre, NumsAt
<1>4. AtSize(e, todo) \in Seq(Piece)
  BY <1>1, <1>3 DEF AtSize
<1>5. AtTag(e, todo) \in Seq(Piece)
  BY <1>2, <1>4 DEF AtTag
<1>6. AtContent(e, todo) \in Seq(Piece)
  BY <1>2, <1>5 DEF AtContent
<1>7. AtLen(e, todo) \in Seq(Piece)
  BY <1>2, <1>6 DEF AtLen
<1>8. AtDistance(e, todo) \in Seq(Piece)
  BY <1>1, <1>7 DEF AtDistance
<1>9. EntryFields(e) = ((<<o>> \o c) \o <<z>>) \o n
  BY DEF EntryFields, OneField, SizeField, Nums
<1>10. Rows(<<e>> \o todo) = EntryFields(e) \o r
  BY RowsAre
<1>11. a = n \o r
  BY DEF AtNums
<1>12. c \o (<<z>> \o a) = AtLen(e, todo)
  <2>1. c \o AtSize(e, todo) = AtLen(e, todo)
    BY <1>1, <1>4, CipherFirst DEF AtLen, AtContent, AtTag
  <2> QED
    BY <2>1 DEF AtSize
<1> HIDE DEF o, z, c, n, r, a
<1>13. <<o>> \in Seq(Piece) /\ <<z>> \in Seq(Piece) /\ <<o>> \o c \in Seq(Piece)
       /\ (<<o>> \o c) \o <<z>> \in Seq(Piece) /\ <<z>> \o a \in Seq(Piece)
  BY <1>1, <1>2, <1>3
<1> DEFINE v == <<o>> \o c
           u == v \o <<z>>
<1>14. (u \o n) \o r = u \o (n \o r)
  <2>1. u \in Seq(Piece)
    BY <1>13
  <2> HIDE DEF u
  <2> QED
    BY ONLY <1>3, <2>1, Concat, SMTT(30)
<1>15. (v \o <<z>>) \o a = v \o (<<z>> \o a)
  <2>1. v \in Seq(Piece)
    BY <1>13
  <2> HIDE DEF v
  <2> QED
    BY ONLY <1>3, <1>13, <2>1, Concat
<1>16. (<<o>> \o c) \o (<<z>> \o a) = <<o>> \o (c \o (<<z>> \o a))
  BY ONLY <1>2, <1>13, Concat
<1>17. Rows(<<e>> \o todo) = <<o>> \o AtLen(e, todo)
  BY <1>9, <1>10, <1>11, <1>12, <1>14, <1>15, <1>16
<1> QED
  BY <1>4, <1>5, <1>6, <1>7, <1>8, <1>17 DEF AtDistance, o

LEMMA AnswerAt ==
  ASSUME NEW answer \in Seq(Entry)
  PROVE  /\ AnswerFields(answer) = <<CountField(answer)>> \o Rows(answer)
         /\ CountField(answer) \in Piece /\ Len(CountField(answer)) = CountSize
         /\ AnswerFields(answer) \in Seq(Piece)
<1>1. AnswerFields(answer) = <<CountField(answer)>> \o Rows(answer)
  BY DEF AnswerFields, CountField, Rows
<1>2. CountField(answer) \in Piece /\ Len(CountField(answer)) = CountSize
  <2>1. Len(answer) \in Nat /\ CountSize \in Nat /\ CountSize > 0
    BY SizeFacts
  <2> QED
    BY <2>1, IntPieces DEF CountField
<1>3. Rows(answer) \in Seq(Piece)
  BY RowsAre
<1> QED
  BY <1>1, <1>2, <1>3

-----------------------------------------------------------------------------
(* Fields under way.                                                       *)

\* The bytes of stream and the fields of pending are together the fields rest.
Carries(stream, pending, rest) ==
  \E fs \in Seq(Piece) : stream = FlattenSeq(fs) /\ rest = fs \o pending

LEMMA FlattenPieces ==
  ASSUME NEW fs \in Seq(Piece)
  PROVE  /\ FlattenSeq(fs) \in Seq(Byte)
         /\ \A x \in Piece : FlattenSeq(<<x>> \o fs) = x \o FlattenSeq(fs)
         /\ \A x \in Piece : FlattenSeq(Append(fs, x)) = FlattenSeq(fs) \o x
<1>1. fs \in Seq(Seq(Byte)) /\ \A x \in Piece : x \in Seq(Byte)
  BY PieceFacts
<1> QED
  BY <1>1, FlattenType, FlattenCons, FlattenAppend

\* A list of pieces is empty or has a first one.
LEMMA PiecesSplit ==
  ASSUME NEW fs \in Seq(Piece), fs # <<>>
  PROVE  Head(fs) \in Piece /\ Tail(fs) \in Seq(Piece) /\ fs = <<Head(fs)>> \o Tail(fs)
OBVIOUS

LEMMA CarriesStart ==
  ASSUME NEW pending \in Seq(Piece)
  PROVE  Carries(<<>>, pending, pending)
<1>1. <<>> \in Seq(Piece) /\ <<>> \o pending = pending
  BY EmptySeq, ConcatEmptySeq
<1> QED
  BY <1>1, FlattenEmpty DEF Carries

LEMMA CarriesType ==
  ASSUME NEW stream, NEW pending, NEW rest, Carries(stream, pending, rest)
  PROVE  stream \in Seq(Byte)
BY FlattenPieces DEF Carries

\* A field is written.
LEMMA CarriesWrite ==
  ASSUME NEW stream, NEW pending \in Seq(Piece), pending # <<>>, NEW rest,
         Carries(stream, pending, rest)
  PROVE  Carries(stream \o Head(pending), Tail(pending), rest)
<1>1. PICK fs \in Seq(Piece) : stream = FlattenSeq(fs) /\ rest = fs \o pending
  BY DEF Carries
<1> DEFINE x == Head(pending)
           p == Tail(pending)
<1>2. x \in Piece /\ p \in Seq(Piece) /\ pending = <<x>> \o p
  BY PiecesSplit
<1> HIDE DEF x, p
<1>3. Append(fs, x) \in Seq(Piece) /\ Append(fs, x) = fs \o <<x>> /\ <<x>> \in Seq(Piece)
  BY <1>2
<1>4. fs \o (<<x>> \o p) = (fs \o <<x>>) \o p
  BY ONLY fs \in Seq(Piece), <1>2, <1>3, Concat
<1>5. rest = Append(fs, x) \o p
  BY <1>1, <1>2, <1>3, <1>4
<1>6. stream \o x = FlattenSeq(Append(fs, x))
  BY <1>1, <1>2, FlattenPieces
<1>7. Carries(stream \o x, p, rest)
  BY <1>3, <1>5, <1>6 DEF Carries
<1> QED
  BY <1>7 DEF x, p

\* Nothing under way: everything is still to be written.
LEMMA CarriesNothing ==
  ASSUME NEW pending \in Seq(Piece), NEW rest, Carries(<<>>, pending, rest)
  PROVE  rest = pending
<1>1. PICK fs \in Seq(Piece) : <<>> = FlattenSeq(fs) /\ rest = fs \o pending
  BY DEF Carries
<1>2. fs = <<>>
  <2> SUFFICES ASSUME fs # <<>> PROVE FALSE
    OBVIOUS
  <2>1. PICK x \in Piece, gs \in Seq(Piece) : fs = <<x>> \o gs
    BY PiecesSplit
  <2>2. FlattenSeq(fs) = x \o FlattenSeq(gs) /\ FlattenSeq(gs) \in Seq(Byte)
    BY <2>1, FlattenPieces
  <2>3. x \in Seq(Byte) /\ Len(x) > 0
    BY PieceFacts
  <2>4. Len(x \o FlattenSeq(gs)) = Len(x) + Len(FlattenSeq(gs)) /\ Len(FlattenSeq(gs)) \in Nat
    BY <2>2, <2>3
  <2>5. Len(x \o FlattenSeq(gs)) = 0
    <3>1. x \o FlattenSeq(gs) = <<>>
      BY <1>1, <2>2
    <3> QED
      BY <3>1, EmptySeq
  <2> QED
    BY <2>3, <2>4, <2>5
<1> QED
  BY <1>1, <1>2, ConcatEmptySeq

\* Everything has been read.
LEMMA CarriesAll ==
  ASSUME NEW stream, NEW pending \in Seq(Piece), Carries(stream, pending, <<>>)
  PROVE  stream = <<>> /\ pending = <<>>
<1>1. PICK fs \in Seq(Piece) : stream = FlattenSeq(fs) /\ <<>> = fs \o pending
  BY DEF Carries
<1>2. fs = <<>> /\ pending = <<>>
  <2>1. Len(fs \o pending) = 0
    BY <1>1, EmptySeq
  <2>2. Len(fs \o pending) = Len(fs) + Len(pending) /\ Len(fs) \in Nat /\ Len(pending) \in Nat
    OBVIOUS
  <2>3. Len(fs) = 0 /\ Len(pending) = 0
    BY <2>1, <2>2
  <2> QED
    BY <2>3
<1> QED
  BY <1>1, <1>2, FlattenEmpty

\* The first field that is under way is the first of the rest.
LEMMA CarriesRead ==
  ASSUME NEW stream, stream # <<>>, NEW pending \in Seq(Piece), NEW x \in Piece,
         NEW rest \in Seq(Piece), Carries(stream, pending, <<x>> \o rest)
  PROVE  \E s \in Seq(Byte) : stream = x \o s /\ Carries(s, pending, rest)
<1>1. PICK fs \in Seq(Piece) : stream = FlattenSeq(fs) /\ <<x>> \o rest = fs \o pending
  BY DEF Carries
<1>2. fs # <<>>
  BY <1>1, FlattenEmpty
<1> DEFINE y == Head(fs)
           gs == Tail(fs)
<1>3. y \in Piece /\ gs \in Seq(Piece) /\ fs = <<y>> \o gs
  BY <1>2, PiecesSplit
<1> HIDE DEF y, gs
<1>4. (<<y>> \o gs) \o pending = <<y>> \o (gs \o pending)
  <2>1. <<y>> \in Seq(Piece)
    BY <1>3
  <2> QED
    BY ONLY <1>3, <2>1, pending \in Seq(Piece), Concat
<1>5. <<x>> \o rest = <<y>> \o (gs \o pending)
  BY <1>1, <1>3, <1>4
<1>6. gs \o pending \in Seq(Piece)
  BY <1>3
<1>7. x = y /\ rest = gs \o pending
  <2> DEFINE q == gs \o pending
             a == <<x>> \o rest
             b == <<y>> \o q
  <2>1. a[1] = x /\ Tail(a) = rest
    OBVIOUS
  <2>2. b[1] = y /\ Tail(b) = q
    <3>1. q \in Seq(Piece)
      BY <1>6
    <3> HIDE DEF q
    <3> QED
      BY <1>3, <3>1
  <2> HIDE DEF a, b, q
  <2>3. a = b
    BY <1>5 DEF a, b, q
  <2> QED
    BY <2>1, <2>2, <2>3 DEF q
<1>8. stream = y \o FlattenSeq(gs) /\ FlattenSeq(gs) \in Seq(Byte)
  BY <1>1, <1>3, FlattenPieces
<1>9. Carries(FlattenSeq(gs), pending, rest)
  BY <1>3, <1>7 DEF Carries
<1> QED
  BY <1>7, <1>8, <1>9

-----------------------------------------------------------------------------
(* What every step keeps, whatever the network cuts.                       *)

\* The bytes of requests belong to the word that was asked.
ByteOf(t) == [kind : {"int"}, digit : 0..(Base - 1)] \cup [kind : Opaque, of : {t}, at : Nat]
FieldNames == {"len", "content", "tag"}
NumFields == {"numLen", "numContent", "numTag"}

LinkOK ==
  /\ toServer \in Seq(ByteOf(asked)) /\ toClient \in Seq(Byte)
  /\ open \in BOOLEAN /\ cuts \in 0..MaxCuts
  /\ asked \in DOMAIN AnswerTo

ReaderOK ==
  /\ cpc \in DOMAIN FieldSize \cup {"send", "done", "failed"}
  /\ round \in 1..(N + 1) /\ left \in Nat /\ numsLeft \in Nat
  /\ got \in [FieldNames -> Seq(Byte)]
  /\ decrypted_word \in Text \cup {Bad} /\ vec_num \in Seq(Text \cup {Bad})
  /\ printed \in Seq(Entry)
  /\ cpc \notin {"done", "failed"} => round <= N
  /\ cpc \in DOMAIN FieldSize \ {"count"} => left > 0
  /\ cpc \in NumFields => numsLeft > 0
  /\ cpc \in NumFields \cup {"size"} => decrypted_word \in Text

WriterOK ==
  /\ request \in [FieldNames -> Seq(ByteOf(asked))]
  /\ spc \in {"len", "content", "tag", "answer", "write", "accept", "down"}
  /\ epoch \in 1..N
  /\ toWrite \in Seq(Seq(Byte)) /\ due \in Seq(Entry) /\ misread \in BOOLEAN

SessionOK == LinkOK /\ ReaderOK /\ WriterOK

LEMMA OwnBytes ==
  ASSUME NEW t \in Text
  PROVE  Seq(ByteOf(t)) \subseteq Seq(Byte)
<1>1. ByteOf(t) \subseteq Byte
  BY DEF ByteOf, Byte
<1> QED
  BY <1>1, SeqMonotonic

LEMMA SessionIsBytesOK == SessionOK => BytesOK
<1> SUFFICES ASSUME SessionOK PROVE BytesOK
  OBVIOUS
<1>1. asked \in Text
  BY TextAssumption DEF SessionOK, LinkOK
<1>2. toServer \in Seq(Byte) /\ request \in [FieldNames -> Seq(Byte)]
  BY <1>1, OwnBytes DEF SessionOK, LinkOK, WriterOK
<1> QED
  BY <1>2 DEF SessionOK, LinkOK, ReaderOK, WriterOK, BytesOK, FieldNames

LEMMA FieldSizesAre ==
  /\ DOMAIN FieldSize = {"count", "distance", "size", "len", "content", "tag"} \cup NumFields
  /\ \A f \in {"count", "size"} : FieldSize[f] = CountSize
  /\ \A f \in {"distance", "len", "numLen"} : FieldSize[f] = IntSize
  /\ \A f \in {"content", "numContent"} : FieldSize[f] = ContentSize
  /\ \A f \in {"tag", "numTag"} : FieldSize[f] = TagSize
  /\ \A f \in DOMAIN FieldSize : FieldSize[f] \in Nat /\ FieldSize[f] > 0
<1>1. DOMAIN FieldSize = {"count", "distance", "size", "len", "content", "tag"} \cup NumFields
  BY DEF FieldSize, NumFields
<1>2. /\ \A f \in {"count", "size"} : FieldSize[f] = CountSize
      /\ \A f \in {"distance", "len", "numLen"} : FieldSize[f] = IntSize
      /\ \A f \in {"content", "numContent"} : FieldSize[f] = ContentSize
      /\ \A f \in {"tag", "numTag"} : FieldSize[f] = TagSize
  BY DEF FieldSize
<1>3. \A size \in {CountSize, IntSize, ContentSize, TagSize} : size \in Nat /\ size > 0
  BY SizeFacts
<1>4. \A f \in DOMAIN FieldSize : FieldSize[f] \in {CountSize, IntSize, ContentSize, TagSize}
  BY <1>1, <1>2 DEF NumFields
<1> QED
  BY <1>1, <1>2, <1>3, <1>4

LEMMA ResultsAre ==
  ASSUME NEW S, NEW stream \in Seq(S), NEW ended, NEW n \in Nat, n > 0,
         NEW r \in Results(stream, ended, n)
  PROVE  r.bytes \in Seq(S) /\ r.rest \in Seq(S) /\ r.cut \in Nat
<1> DEFINE most == IF n < Len(stream) THEN n ELSE Len(stream)
<1>1. Len(stream) \in Nat /\ most \in Nat /\ most <= Len(stream)
  OBVIOUS
<1>2. CASE most = 0
  <2>1. r = [bytes |-> <<>>, rest |-> <<>>, cut |-> 0]
    BY <1>2 DEF Results
  <2> QED
    BY <2>1, EmptySeq
<1>3. CASE most # 0
  <2>1. PICK a \in 1..most :
          r = [bytes |-> SubSeq(stream, 1, a), rest |-> SubSeq(stream, a + 1, Len(stream)),
               cut |-> IF a < most THEN 1 ELSE 0]
    BY <1>3 DEF Results
  <2> HIDE DEF most
  <2>2. SubSeq(stream, 1, a) \in Seq(S) /\ SubSeq(stream, a + 1, Len(stream)) \in Seq(S)
    BY <1>1
  <2> QED
    BY <2>1, <2>2
<1> QED
  BY <1>2, <1>3

\* The first number that does not decrypt, if there is one.
LEMMA FirstBadIs ==
  ASSUME NEW nums \in Seq(Text \cup {Bad})
  PROVE  /\ FirstBad(nums) \in 0..Len(nums)
         /\ FirstBad(nums) = 0 => nums \in Seq(Text)
         /\ FirstBad(nums) # 0 => SubSeq(nums, 1, FirstBad(nums) - 1) \in Seq(Text)
         /\ nums \in Seq(Text) => FirstBad(nums) = 0
<1> DEFINE I == {i \in 1..Len(nums) : nums[i] = Bad}
           b == FirstBad(nums)
<1>1. b = IF I # {} THEN Min(I) ELSE 0
  BY DEF FirstBad, SelectInSeq
<1>2. /\ Len(nums) \in Nat /\ I \subseteq Nat /\ DOMAIN nums = 1..Len(nums)
      /\ \A i \in 1..Len(nums) : nums[i] \in Text \cup {Bad}
  OBVIOUS
<1>3. CASE I = {}
  <2>1. \A i \in 1..Len(nums) : nums[i] \in Text
    BY <1>2, <1>3
  <2>2. nums \in Seq(Text)
    BY <1>2, <2>1
  <2> QED
    BY <1>1, <1>2, <1>3, <2>2
<1>4. CASE I # {}
  <2> DEFINE R == {p \in Nat \X Nat : p[1] < p[2]}
  <2>1. PICK m \in I : \A i \in I : m <= i
    <3>1. IsWellFoundedOn(R, Nat)
      BY NatLessThanWellFounded DEF OpToRel
    <3>2. \A x, y \in Nat : y < x => <<y, x>> \in R
      OBVIOUS
    <3> HIDE DEF R, I
    <3>3. PICK m \in I : \A y \in I : ~(<<y, m>> \in R)
      BY <1>2, <1>4, <3>1, WFMin
    <3>4. ASSUME NEW y \in I PROVE m <= y
      <4>1. m \in Nat /\ y \in Nat
        BY <1>2
      <4>2. ~(y < m)
        BY <3>2, <3>3, <4>1, Zenon
      <4> QED
        BY <4>1, <4>2
    <3> QED
      BY <3>4
  <2> HIDE DEF I
  <2>2. b \in I /\ \A i \in I : b <= i
    BY <1>1, <1>4, <2>1 DEF Min
  <2>3. b \in 1..Len(nums) /\ nums[b] = Bad
    BY <2>2 DEF I
  <2>4. \A i \in 1..(b - 1) : nums[i] \in Text
    <3>1. \A i \in 1..(b - 1) : i \in 1..Len(nums) /\ i \notin I
      BY <1>2, <2>2, <2>3
    <3> QED
      BY <1>2, <3>1 DEF I
  <2> HIDE DEF b
  <2>5. SubSeq(nums, 1, b - 1) \in Seq(Text)
    <3>1. SubSeq(nums, 1, b - 1) = [i \in 1..(b - 1) |-> nums[i]]
      BY <1>2, <2>3
    <3>2. b - 1 \in Nat
      BY <1>2, <2>3
    <3>3. [i \in 1..(b - 1) |-> nums[i]] \in [1..(b - 1) -> Text]
      BY <2>4
    <3> QED
      BY <3>1, <3>2, <3>3
  <2>6. nums \notin Seq(Text)
    BY <2>3, TextAssumption
  <2> QED
    BY <1>2, <2>3, <2>5, <2>6 DEF b
<1> QED
  BY <1>3, <1>4

LEMMA EmptyFields ==
  ASSUME NEW S, <<>> \in S
  PROVE  NoFields \in [FieldNames -> S]
<1>1. NoFields = [f \in FieldNames |-> <<>>]
  BY DEF NoFields, FieldNames
<1> QED
  BY <1>1

LEMMA InitOK == FramingInit => SessionOK
<1> SUFFICES ASSUME FramingInit PROVE SessionOK
  OBVIOUS
<1>1. N \in Nat /\ N > 0 /\ MaxCuts \in Nat
  BY SizeFacts, FieldAssumption
<1>2. NoFields \in [FieldNames -> Seq(Byte)] /\ NoFields \in [FieldNames -> Seq(ByteOf(asked))]
  <2>1. <<>> \in Seq(Byte) /\ <<>> \in Seq(ByteOf(asked))
    BY EmptySeq
  <2> QED
    BY <2>1, EmptyFields
<1>3. LinkOK
  BY <1>1, EmptySeq DEF FramingInit, LinkOK
<1>4. ReaderOK
  BY <1>1, <1>2, EmptySeq, FieldSizesAre DEF FramingInit, ReaderOK, NumFields
<1>5. WriterOK
  <2>1. misread \in BOOLEAN
    BY Zenon DEF FramingInit
  <2> QED
    BY <1>1, <1>2, <2>1, EmptySeq DEF FramingInit, WriterOK
<1> QED
  BY <1>3, <1>4, <1>5 DEF SessionOK

\* A step of the client leaves the server's side alone.
LEMMA WriterKept ==
  ASSUME WriterOK, UNCHANGED <<asked, sessionVars>>
  PROVE  WriterOK'
BY DEF WriterOK, sessionVars

LEMMA TookOK ==
  ASSUME SessionOK, NEW field \in DOMAIN FieldSize, NEW r \in Incoming(field), Took(field, r)
  PROVE  LinkOK' /\ WriterOK' /\ r.bytes \in Seq(Byte) /\ cpc = field
<1>1. FieldSize[field] \in Nat /\ FieldSize[field] > 0
  BY FieldSizesAre
<1>2. toClient \in Seq(Byte) /\ r \in Results(toClient, ~open, FieldSize[field])
  BY DEF SessionOK, LinkOK, Incoming
<1>3. r.bytes \in Seq(Byte) /\ r.rest \in Seq(Byte) /\ r.cut \in Nat
  BY <1>1, <1>2, ResultsAre
<1>4. LinkOK'
  <2>1. cuts' \in 0..MaxCuts
    <3>1. cuts \in Nat /\ MaxCuts \in Nat /\ cuts' = cuts + r.cut /\ cuts' <= MaxCuts
      BY FieldAssumption DEF SessionOK, LinkOK, Took
    <3> QED
      BY <1>3, <3>1
  <2> QED
    BY <1>3, <2>1 DEF SessionOK, LinkOK, Took, sessionVars
<1>5. WriterOK'
  BY WriterKept DEF SessionOK, Took
<1> QED
  BY <1>3, <1>4, <1>5 DEF Took

LEMMA EpochEnds ==
  ASSUME round \in 1..(N + 1), round <= N, EndEpoch
  PROVE  /\ round' \in 1..(N + 1) /\ cpc' \in {"done", "send"}
         /\ cpc' = "send" => round' <= N
<1>1. N \in Nat
  BY SizeFacts
<1> QED
  BY <1>1 DEF EndEpoch

\* The places where the client reads.
ReadPlaces == {"count", "distance", "size", "len", "content", "tag"} \cup NumFields

LEMMA PlacesAre ==
  /\ DOMAIN FieldSize = ReadPlaces
  /\ {"send", "done", "failed"} \cap ReadPlaces = {}
BY FieldSizesAre DEF ReadPlaces, NumFields

LEMMA LinePrinted ==
  ASSUME ReaderOK, cpc \in NumFields \cup {"size"}, NEW nums \in Seq(Text \cup {Bad}),
         PrintLine(nums)
  PROVE  /\ round' \in 1..(N + 1) /\ left' \in Nat
         /\ vec_num' \in Seq(Text \cup {Bad}) /\ printed' \in Seq(Entry)
         /\ cpc' \in {"distance", "send", "done", "failed"}
         /\ cpc' \in {"distance", "send"} => round' <= N
         /\ cpc' = "distance" => left' > 0
<1> DEFINE docs == IF FirstBad(nums) = 0 THEN nums ELSE SubSeq(nums, 1, FirstBad(nums) - 1)
<1>1. docs \in Seq(Text)
  BY FirstBadIs
<1>2. /\ decrypted_word \in Text /\ printed \in Seq(Entry)
      /\ left \in Nat /\ left > 0 /\ round \in 1..(N + 1) /\ round <= N
  BY PlacesAre DEF ReaderOK, ReadPlaces, NumFields
<1>3. printed' = Append(printed, [word |-> decrypted_word, docs |-> docs]) /\ vec_num' = <<>>
  BY DEF PrintLine
<1> HIDE DEF docs
<1>4. printed' \in Seq(Entry) /\ vec_num' \in Seq(Text \cup {Bad})
  <2>1. [word |-> decrypted_word, docs |-> docs] \in Entry
    BY <1>1, <1>2 DEF Entry
  <2> HIDE DEF Entry
  <2> QED
    BY <1>2, <1>3, <2>1, AppendProperties, EmptySeq
<1>5. CASE FirstBad(nums) # 0
  <2>1. cpc' = "failed" /\ round' = round /\ left' = left
    BY <1>5 DEF PrintLine
  <2> QED
    BY <1>2, <1>4, <2>1
<1>6. CASE FirstBad(nums) = 0
  <2>1. left' = left - 1 /\ IF left = 1 THEN EndEpoch ELSE cpc' = "distance" /\ UNCHANGED round
    BY <1>6 DEF PrintLine
  <2>2. CASE left = 1
    BY <1>2, <1>4, <2>1, <2>2, EpochEnds
  <2>3. CASE left # 1
    BY <1>2, <1>4, <2>1, <2>3
  <2> QED
    BY <2>2, <2>3
<1> QED
  BY <1>5, <1>6

\* The bytes of a request.
LEMMA OwnFields ==
  ASSUME NEW t \in Text
  PROVE  FlattenSeq(CipherFields(t)) \in Seq(ByteOf(t))
<1>1. /\ CipherFields(t) = <<LenField(t), ContentField(t), TagField(t)>>
      /\ LenField(t) \in Seq(Byte) /\ Len(LenField(t)) = IntSize
  BY CipherFieldsAre
<1>2. Length[t] \in Nat /\ IntSize \in Nat /\ ContentSize \in Nat /\ TagSize \in Nat
  BY SizeFacts
<1>3. LenField(t) \in Seq(ByteOf(t))
  <2>1. \A p \in 1..IntSize : LenField(t)[p] \in Byte /\ LenField(t)[p].kind = "int"
    <3>1. \A p \in 1..IntSize : LenField(t)[p].kind = "int"
      BY <1>2, IntBytesAre DEF LenField
    <3> QED
      BY <1>1, <1>2, <3>1
  <2>2. \A p \in 1..IntSize : LenField(t)[p] \in ByteOf(t)
    BY <2>1 DEF Byte, ByteOf, Opaque
  <2> QED
    BY <1>1, <2>2
<1>4. \A kind \in Opaque, n \in Nat : TextBytes(kind, t, n) \in Seq(ByteOf(t))
  <2> SUFFICES ASSUME NEW kind \in Opaque, NEW n \in Nat
               PROVE  TextBytes(kind, t, n) \in Seq(ByteOf(t))
    OBVIOUS
  <2>1. [p \in 1..n |-> [kind |-> kind, of |-> t, at |-> p]] \in [1..n -> ByteOf(t)]
    BY DEF ByteOf
  <2> QED
    BY <2>1 DEF TextBytes
<1>5. ContentField(t) \in Seq(ByteOf(t)) /\ TagField(t) \in Seq(ByteOf(t))
  BY <1>2, <1>4 DEF ContentField, TagField, Opaque
<1>6. CipherFields(t) \in Seq(Seq(ByteOf(t)))
  BY <1>1, <1>3, <1>5
<1> QED
  BY <1>6, FlattenType

LEMMA SendOK ==
  ASSUME SessionOK, Send
  PROVE  SessionOK'
<1>1. asked \in Text /\ asked \in DOMAIN AnswerTo
  BY TextAssumption DEF SessionOK, LinkOK
<1>2. FlattenSeq(CipherFields(asked)) \in Seq(ByteOf(asked))
  BY <1>1, OwnFields
<1>3. LinkOK'
  <2>1. toServer \in Seq(ByteOf(asked))
    BY DEF SessionOK, LinkOK
  <2>2. toServer' \in Seq(ByteOf(asked))
    <3>1. toServer \o FlattenSeq(CipherFields(asked)) \in Seq(ByteOf(asked))
      BY <1>2, <2>1, ConcatProperties
    <3>2. toServer' = toServer \o FlattenSeq(CipherFields(asked)) \/ toServer' = toServer
      BY DEF Send
    <3> QED
      BY <2>1, <3>1, <3>2
  <2> QED
    BY <2>2 DEF SessionOK, LinkOK, Send
<1>4. ReaderOK'
  BY PlacesAre DEF SessionOK, ReaderOK, Send, ReadPlaces, NumFields
<1>5. WriterOK'
  <2>1. /\ due' = due \o AnswerTo[asked]
        /\ UNCHANGED <<asked, open, spc, epoch, request, toWrite, misread>>
    BY DEF Send
  <2>2. due' \in Seq(Entry)
    <3>1. AnswerTo[asked] \in Seq(Entry)
      BY <1>1, TextAssumption DEF Range
    <3> QED
      BY <2>1, <3>1, ConcatProperties DEF SessionOK, WriterOK
  <2> QED
    BY <2>1, <2>2 DEF SessionOK, WriterOK
<1> QED
  BY <1>3, <1>4, <1>5 DEF SessionOK

LEMMA ReadCountOK ==
  ASSUME SessionOK, ReadCount
  PROVE  SessionOK'
<1>0. PICK r \in Incoming("count") : \E v \in Values(r.bytes) :
        /\ Took("count", r)
        /\ left' = v
        /\ IF v = 0 THEN EndEpoch ELSE cpc' = "distance" /\ UNCHANGED round
        /\ UNCHANGED <<numsLeft, got, decrypted_word, vec_num, printed>>
  BY DEF ReadCount
<1>1. PICK v \in Values(r.bytes) :
        /\ Took("count", r)
        /\ left' = v
        /\ IF v = 0 THEN EndEpoch ELSE cpc' = "distance" /\ UNCHANGED round
        /\ UNCHANGED <<numsLeft, got, decrypted_word, vec_num, printed>>
  BY <1>0
<1>2. "count" \in DOMAIN FieldSize
  BY PlacesAre DEF ReadPlaces
<1>3. LinkOK' /\ WriterOK' /\ r.bytes \in Seq(Byte) /\ cpc = "count"
  BY <1>1, <1>2, TookOK
<1>4. v \in Nat
  BY <1>3, ValuesAreNumbers
<1>5. round \in 1..(N + 1) /\ round <= N
  BY <1>3 DEF SessionOK, ReaderOK
<1>6. CASE v = 0
  <2>1. EndEpoch
    BY <1>1, <1>6
  <2>2. round' \in 1..(N + 1) /\ cpc' \in {"done", "send"} /\ (cpc' = "send" => round' <= N)
    BY <1>5, <2>1, EpochEnds
  <2>3. ReaderOK'
    BY <1>1, <1>4, <2>2, PlacesAre DEF SessionOK, ReaderOK, ReadPlaces, NumFields
  <2> QED
    BY <1>3, <2>3 DEF SessionOK
<1>7. CASE v # 0
  <2>1. cpc' = "distance" /\ round' = round /\ left' > 0
    BY <1>1, <1>4, <1>7
  <2>2. ReaderOK'
    BY <1>1, <1>4, <1>5, <2>1, PlacesAre DEF SessionOK, ReaderOK, ReadPlaces, NumFields
  <2> QED
    BY <1>3, <2>2 DEF SessionOK
<1> QED
  BY <1>6, <1>7

LEMMA ReadDistanceOK ==
  ASSUME SessionOK, ReadDistance
  PROVE  SessionOK'
<1>1. PICK r \in Incoming("distance") :
        /\ Took("distance", r)
        /\ cpc' = "len"
        /\ UNCHANGED <<round, left, numsLeft, got, decrypted_word, vec_num, printed>>
  BY DEF ReadDistance
<1>2. "distance" \in DOMAIN FieldSize
  BY PlacesAre DEF ReadPlaces
<1>3. LinkOK' /\ WriterOK' /\ cpc = "distance"
  BY <1>1, <1>2, TookOK
<1>4. ReaderOK'
  BY <1>1, <1>3, PlacesAre DEF SessionOK, ReaderOK, ReadPlaces, NumFields
<1> QED
  BY <1>3, <1>4 DEF SessionOK

LEMMA ReadFieldOK ==
  ASSUME SessionOK, NEW field, NEW next, NEW name, ReadField(field, next, name),
         \/ field = "len" /\ next = "content" /\ name = "len"
         \/ field = "content" /\ next = "tag" /\ name = "content"
         \/ field = "numLen" /\ next = "numContent" /\ name = "len"
         \/ field = "numContent" /\ next = "numTag" /\ name = "content"
  PROVE  SessionOK'
<1>1. PICK r \in Incoming(field) :
        /\ Took(field, r)
        /\ got' = [got EXCEPT ![name] = r.bytes]
        /\ cpc' = next
        /\ UNCHANGED <<round, left, numsLeft, decrypted_word, vec_num, printed>>
  BY DEF ReadField
<1>2. field \in DOMAIN FieldSize /\ field # "count"
  BY PlacesAre DEF ReadPlaces, NumFields
<1>3. LinkOK' /\ WriterOK' /\ r.bytes \in Seq(Byte) /\ cpc = field
  BY <1>1, <1>2, TookOK
<1>4. got' \in [FieldNames -> Seq(Byte)]
  BY <1>1, <1>3 DEF SessionOK, ReaderOK, FieldNames
<1>5. ReaderOK'
  BY <1>1, <1>2, <1>3, <1>4, PlacesAre DEF SessionOK, ReaderOK, ReadPlaces, NumFields
<1> QED
  BY <1>3, <1>5 DEF SessionOK

LEMMA NoFieldsOK == NoFields \in [FieldNames -> Seq(Byte)]
BY EmptyFields, EmptySeq

LEMMA ReadTagOK ==
  ASSUME SessionOK, ReadTag
  PROVE  SessionOK'
<1>1. PICK r \in Incoming("tag") :
        /\ Took("tag", r)
        /\ decrypted_word' = Decrypted([got EXCEPT !.tag = r.bytes])
        /\ cpc' = IF decrypted_word' = Bad THEN "failed" ELSE "size"
        /\ got' = NoFields
        /\ UNCHANGED <<round, left, numsLeft, vec_num, printed>>
  BY DEF ReadTag
<1>2. "tag" \in DOMAIN FieldSize
  BY PlacesAre DEF ReadPlaces
<1>3. LinkOK' /\ WriterOK' /\ cpc = "tag"
  BY <1>1, <1>2, TookOK
<1>4. decrypted_word' \in Text \cup {Bad} /\ got' \in [FieldNames -> Seq(Byte)]
  BY <1>1, DecryptedIs, NoFieldsOK
<1>5. cpc' \in {"failed", "size"} /\ (cpc' = "size" => decrypted_word' \in Text)
  BY <1>1, <1>4
<1>6. ReaderOK'
  BY <1>1, <1>3, <1>4, <1>5, PlacesAre DEF SessionOK, ReaderOK, ReadPlaces, NumFields
<1> QED
  BY <1>3, <1>6 DEF SessionOK

LEMMA ReadSizeOK ==
  ASSUME SessionOK, ReadSize
  PROVE  SessionOK'
<1>0. PICK r \in Incoming("size") : \E v \in Values(r.bytes) :
        /\ Took("size", r)
        /\ numsLeft' = v \div NumberSize
        /\ IF numsLeft' = 0
           THEN PrintLine(<<>>)
           ELSE cpc' = "numLen" /\ UNCHANGED <<round, left, vec_num, printed>>
        /\ UNCHANGED <<got, decrypted_word>>
  BY DEF ReadSize
<1>1. PICK v \in Values(r.bytes) :
        /\ Took("size", r)
        /\ numsLeft' = v \div NumberSize
        /\ IF numsLeft' = 0
           THEN PrintLine(<<>>)
           ELSE cpc' = "numLen" /\ UNCHANGED <<round, left, vec_num, printed>>
        /\ UNCHANGED <<got, decrypted_word>>
  BY <1>0
<1>2. "size" \in DOMAIN FieldSize
  BY PlacesAre DEF ReadPlaces
<1>3. LinkOK' /\ WriterOK' /\ r.bytes \in Seq(Byte) /\ cpc = "size"
  BY <1>1, <1>2, TookOK
<1>4. numsLeft' \in Nat
  <2>1. v \in Nat /\ NumberSize \in Nat /\ NumberSize > 0
    BY <1>3, ValuesAreNumbers, SizeFacts
  <2> QED
    BY <1>1, <2>1
<1>5. CASE numsLeft' = 0
  <2>1. PrintLine(<<>>) /\ <<>> \in Seq(Text \cup {Bad}) /\ ReaderOK
    BY <1>1, <1>5, EmptySeq DEF SessionOK
  <2>2. /\ round' \in 1..(N + 1) /\ left' \in Nat
        /\ vec_num' \in Seq(Text \cup {Bad}) /\ printed' \in Seq(Entry)
        /\ cpc' \in {"distance", "send", "done", "failed"}
        /\ cpc' \in {"distance", "send"} => round' <= N
        /\ cpc' = "distance" => left' > 0
    BY <1>3, <2>1, LinePrinted
  <2>3. ReaderOK'
    BY <1>1, <1>4, <2>2, PlacesAre DEF SessionOK, ReaderOK, ReadPlaces, NumFields
  <2> QED
    BY <1>3, <2>3 DEF SessionOK
<1>6. CASE numsLeft' # 0
  <2>1. cpc' = "numLen" /\ UNCHANGED <<round, left, vec_num, printed>> /\ numsLeft' > 0
    BY <1>1, <1>4, <1>6
  <2>2. ReaderOK'
    BY <1>1, <1>3, <1>4, <2>1, PlacesAre DEF SessionOK, ReaderOK, ReadPlaces, NumFields
  <2> QED
    BY <1>3, <2>2 DEF SessionOK
<1> QED
  BY <1>5, <1>6

LEMMA ReadNumTagOK ==
  ASSUME SessionOK, ReadNumTag
  PROVE  SessionOK'
<1>1. PICK r \in Incoming("numTag") :
        LET nums == Append(vec_num, Decrypted([got EXCEPT !.tag = r.bytes])) IN
        /\ Took("numTag", r)
        /\ got' = NoFields
        /\ numsLeft' = numsLeft - 1
        /\ IF numsLeft = 1
           THEN PrintLine(nums)
           ELSE vec_num' = nums /\ cpc' = "numLen" /\ UNCHANGED <<round, left, printed>>
        /\ UNCHANGED decrypted_word
  BY DEF ReadNumTag
<1> DEFINE nums == Append(vec_num, Decrypted([got EXCEPT !.tag = r.bytes]))
<1>2. "numTag" \in DOMAIN FieldSize
  BY PlacesAre DEF ReadPlaces, NumFields
<1>3. LinkOK' /\ WriterOK' /\ cpc = "numTag"
  BY <1>1, <1>2, TookOK
<1>4. nums \in Seq(Text \cup {Bad})
  BY DecryptedIs, AppendProperties DEF SessionOK, ReaderOK
<1>5. numsLeft \in Nat /\ numsLeft > 0 /\ numsLeft' = numsLeft - 1 /\ got' \in [FieldNames -> Seq(Byte)]
  BY <1>1, <1>3, NoFieldsOK DEF SessionOK, ReaderOK, NumFields
<1>6. CASE numsLeft = 1
  <2>1. PrintLine(nums) /\ ReaderOK /\ cpc \in NumFields
    BY <1>1, <1>3, <1>6 DEF SessionOK, NumFields
  <2> HIDE DEF nums
  <2>2. /\ round' \in 1..(N + 1) /\ left' \in Nat
        /\ vec_num' \in Seq(Text \cup {Bad}) /\ printed' \in Seq(Entry)
        /\ cpc' \in {"distance", "send", "done", "failed"}
        /\ cpc' \in {"distance", "send"} => round' <= N
        /\ cpc' = "distance" => left' > 0
    BY <1>4, <2>1, LinePrinted
  <2>3. decrypted_word' = decrypted_word
    BY <1>1
  <2>4. ReaderOK'
    BY <1>5, <2>2, <2>3, PlacesAre DEF SessionOK, ReaderOK, ReadPlaces, NumFields
  <2> QED
    BY <1>3, <2>4 DEF SessionOK
<1>7. CASE numsLeft # 1
  <2>1. /\ vec_num' = nums /\ cpc' = "numLen" /\ UNCHANGED <<round, left, printed, decrypted_word>>
        /\ numsLeft' \in Nat /\ numsLeft' > 0
    BY <1>1, <1>5, <1>7
  <2> HIDE DEF nums
  <2>2. ReaderOK'
    BY <1>3, <1>4, <1>5, <2>1, PlacesAre DEF SessionOK, ReaderOK, ReadPlaces, NumFields
  <2> QED
    BY <1>3, <2>2 DEF SessionOK
<1> QED
  BY <1>6, <1>7

\* A step of the server leaves the client's side alone.
LEMMA ReaderKept ==
  ASSUME ReaderOK, UNCHANGED clientVars
  PROVE  ReaderOK'
BY DEF ReaderOK, clientVars

LEMMA ReadRequestOK ==
  ASSUME SessionOK, NEW field, NEW next, ReadRequest(field, next),
         \/ field = "len" /\ next = "content"
         \/ field = "content" /\ next = "tag"
         \/ field = "tag" /\ next = "answer"
  PROVE  SessionOK'
<1>1. PICK r \in Results(toServer, ClientEnded, FieldSize[field]) :
        /\ cuts' = cuts + r.cut /\ cuts' <= MaxCuts
        /\ toServer' = r.rest
        /\ request' = [request EXCEPT ![field] = r.bytes]
  BY DEF ReadRequest
<1>2. /\ spc' = next
      /\ UNCHANGED <<toClient, clientVars, open, epoch, toWrite, due, misread>>
  BY DEF ReadRequest
<1>3. field \in FieldNames /\ FieldSize[field] \in Nat /\ FieldSize[field] > 0
  BY FieldSizesAre DEF FieldNames
<1>4. toServer \in Seq(ByteOf(asked))
  BY DEF SessionOK, LinkOK
<1>5. r.bytes \in Seq(ByteOf(asked)) /\ r.rest \in Seq(ByteOf(asked)) /\ r.cut \in Nat
  BY <1>1, <1>3, <1>4, ResultsAre
<1>6. asked' = asked
  BY <1>2 DEF clientVars
<1>7. cuts' \in 0..MaxCuts
  <2>1. cuts \in Nat /\ MaxCuts \in Nat
    BY FieldAssumption DEF SessionOK, LinkOK
  <2> QED
    BY <1>1, <1>5, <2>1
<1>8. LinkOK'
  BY <1>1, <1>2, <1>5, <1>6, <1>7 DEF SessionOK, LinkOK
<1>9. request' \in [FieldNames -> Seq(ByteOf(asked))]
  BY <1>1, <1>3, <1>5 DEF SessionOK, WriterOK
<1>10. WriterOK'
  BY <1>2, <1>6, <1>9 DEF SessionOK, WriterOK
<1>11. ReaderOK'
  BY <1>2, ReaderKept DEF SessionOK
<1> QED
  BY <1>8, <1>10, <1>11 DEF SessionOK

\* What decrypts is the word that was asked: its tag says so.
LEMMA RequestOpens ==
  ASSUME SessionOK, Decrypted(request) # Bad
  PROVE  Decrypted(request) = asked
<1> DEFINE t == Decrypted(request)
<1>1. t \in Text /\ OpensAs(request, t)
  BY DEF Decrypted
<1>2. request.tag = TextBytes("tag", t, TagSize) /\ TagSize \in Nat /\ TagSize > 0
  BY <1>1, SizeFacts DEF OpensAs
<1> HIDE DEF t
<1>3. request.tag \in Seq(ByteOf(asked))
  BY DEF SessionOK, WriterOK, FieldNames
<1>4. Len(request.tag) = TagSize /\ request.tag[1].kind = "tag" /\ request.tag[1].of = t
  <2>1. "tag" \in Opaque
    BY DEF Opaque
  <2> QED
    BY <1>1, <1>2, <2>1, TextBytesAre
<1>5. request.tag[1] \in ByteOf(asked)
  BY <1>2, <1>3, <1>4
<1>6. request.tag[1].of = asked
  BY <1>4, <1>5 DEF ByteOf
<1> QED
  BY <1>4, <1>6 DEF t

LEMMA AnswerFieldsOK ==
  ASSUME NEW answer \in Seq(Entry)
  PROVE  AnswerFields(answer) \in Seq(Seq(Byte))
BY AnswerAt, PieceFacts

LEMMA MakeAnswerOK ==
  ASSUME SessionOK, MakeAnswer
  PROVE  SessionOK'
<1>1. PICK answer \in (IF Decrypted(request) = Bad THEN Range(AnswerTo)
                       ELSE {AnswerTo[Decrypted(request)]}) :
        toWrite' = AnswerFields(answer)
  BY DEF MakeAnswer
<1>2. /\ request' = NoFields /\ spc' = "write" /\ misread' = (misread \/ Decrypted(request) = Bad)
      /\ UNCHANGED <<toServer, toClient, cuts, clientVars, open, epoch, due>>
  BY DEF MakeAnswer
<1>3. asked' = asked /\ asked \in DOMAIN AnswerTo
  BY <1>2 DEF clientVars, SessionOK, LinkOK
<1>4. answer \in Range(AnswerTo)
  BY <1>1, <1>3, RequestOpens DEF Range
<1>5. answer \in Seq(Entry)
  BY <1>4, TextAssumption
<1>6. toWrite' \in Seq(Seq(Byte)) /\ misread' \in BOOLEAN
  BY <1>1, <1>2, <1>5, AnswerFieldsOK
<1>7. request' \in [FieldNames -> Seq(ByteOf(asked))]
  BY <1>2, EmptyFields, EmptySeq
<1>8. WriterOK'
  BY <1>2, <1>3, <1>6, <1>7 DEF SessionOK, WriterOK
<1>9. LinkOK'
  BY <1>2, <1>3 DEF SessionOK, LinkOK
<1>10. ReaderOK'
  BY <1>2, ReaderKept DEF SessionOK
<1> QED
  BY <1>8, <1>9, <1>10 DEF SessionOK

LEMMA WriteFieldOK ==
  ASSUME SessionOK, WriteField
  PROVE  SessionOK'
<1>1. /\ toWrite # <<>> /\ toWrite' = Tail(toWrite)
      /\ toClient' = toClient \o Head(toWrite) \/ toClient' = toClient
      /\ open' \in {open, FALSE} /\ spc' \in {spc, "down"}
      /\ UNCHANGED <<toServer, cuts, clientVars, epoch, request, due, misread>>
  BY DEF WriteField
<1>2. asked' = asked
  BY <1>1 DEF clientVars
<1>3. toWrite \in Seq(Seq(Byte)) /\ toClient \in Seq(Byte)
  BY DEF SessionOK, LinkOK, WriterOK
<1>4. Tail(toWrite) \in Seq(Seq(Byte)) /\ Head(toWrite) \in Seq(Byte)
  BY <1>1, <1>3, HeadTailProperties
<1>5. toClient' \in Seq(Byte)
  BY <1>1, <1>3, <1>4, ConcatProperties
<1>6. LinkOK'
  BY <1>1, <1>2, <1>5 DEF SessionOK, LinkOK
<1>7. WriterOK'
  BY <1>1, <1>2, <1>4 DEF SessionOK, WriterOK
<1>8. ReaderOK'
  BY <1>1, ReaderKept DEF SessionOK
<1> QED
  BY <1>6, <1>7, <1>8 DEF SessionOK

LEMMA NextEpochOK ==
  ASSUME SessionOK, NextEpoch
  PROVE  SessionOK'
<1>1. /\ epoch' = epoch + 1 /\ epoch < N /\ spc' = "len"
      /\ UNCHANGED <<toServer, cuts, clientVars, open, request, toWrite, due, misread, toClient>>
  BY DEF NextEpoch
<1>2. asked' = asked
  BY <1>1 DEF clientVars
<1>3. epoch' \in 1..N
  BY <1>1, SizeFacts DEF SessionOK, WriterOK
<1>4. LinkOK' /\ WriterOK'
  BY <1>1, <1>2, <1>3 DEF SessionOK, LinkOK, WriterOK
<1>5. ReaderOK'
  BY <1>1, ReaderKept DEF SessionOK
<1> QED
  BY <1>4, <1>5 DEF SessionOK

LEMMA CloseOK ==
  ASSUME SessionOK, Close
  PROVE  SessionOK'
<1>1. /\ open' = FALSE /\ spc' = "accept"
      /\ toClient' = toClient \/ \E i \in 0..Len(toClient) : toClient' = SubSeq(toClient, 1, i)
      /\ UNCHANGED <<toServer, cuts, clientVars, epoch, request, toWrite, due, misread>>
  BY DEF Close
<1>2. asked' = asked
  BY <1>1 DEF clientVars
<1>3. toClient' \in Seq(Byte)
  BY <1>1 DEF SessionOK, LinkOK
<1>4. LinkOK' /\ WriterOK'
  BY <1>1, <1>2, <1>3 DEF SessionOK, LinkOK, WriterOK
<1>5. ReaderOK'
  BY <1>1, ReaderKept DEF SessionOK
<1> QED
  BY <1>4, <1>5 DEF SessionOK

LEMMA SessionStep ==
  ASSUME SessionOK, [FramingNext]_byteVars
  PROVE  SessionOK'
<1>1. CASE Send
  BY <1>1, SendOK
<1>2. CASE ReadCount
  BY <1>2, ReadCountOK
<1>3. CASE ReadDistance
  BY <1>3, ReadDistanceOK
<1>4. CASE ReadField("len", "content", "len")
  BY <1>4, ReadFieldOK
<1>5. CASE ReadField("content", "tag", "content")
  BY <1>5, ReadFieldOK
<1>6. CASE ReadTag
  BY <1>6, ReadTagOK
<1>7. CASE ReadSize
  BY <1>7, ReadSizeOK
<1>8. CASE ReadField("numLen", "numContent", "len")
  BY <1>8, ReadFieldOK
<1>9. CASE ReadField("numContent", "numTag", "content")
  BY <1>9, ReadFieldOK
<1>10. CASE ReadNumTag
  BY <1>10, ReadNumTagOK
<1>11. CASE ReadRequest("len", "content") \/ ReadRequest("content", "tag") \/ ReadRequest("tag", "answer")
  BY <1>11, ReadRequestOK
<1>12. CASE MakeAnswer
  BY <1>12, MakeAnswerOK
<1>13. CASE WriteField
  BY <1>13, WriteFieldOK
<1>14. CASE NextEpoch
  BY <1>14, NextEpochOK
<1>15. CASE Close
  BY <1>15, CloseOK
<1>16. CASE UNCHANGED byteVars
  BY <1>16 DEF byteVars, clientVars, sessionVars, SessionOK, LinkOK, ReaderOK, WriterOK
<1> QED
  BY <1>1, <1>2, <1>3, <1>4, <1>5, <1>6, <1>7, <1>8, <1>9, <1>10, <1>11, <1>12, <1>13, <1>14,
     <1>15, <1>16
  DEF FramingNext, ClientStep, ServerStep, SessionOver

\* Whatever the network cuts, every state of the connection has its type.
THEOREM FramingBytesOK == FramingSpec => []BytesOK
<1>1. FramingInit => SessionOK
  BY InitOK
<1>2. SessionOK /\ [FramingNext]_byteVars => SessionOK'
  BY SessionStep
<1>3. SessionOK => BytesOK
  BY SessionIsBytesOK
<1> QED
  BY <1>1, <1>2, <1>3, PTL DEF FramingSpec

-----------------------------------------------------------------------------
(* Where the two programs are as long as no field has been cut.            *)

\* The entries whose numbers can be announced.
Sound == {e \in Entry : Fits(Announced(e.docs), CountSize)}

\* Between two answers: nothing is under way.
Resting ==
  /\ cpc \in {"send", "done"} /\ (cpc = "done" => round = N + 1)
  /\ toServer = <<>> /\ toClient = <<>> /\ toWrite = <<>>
  /\ printed = due /\ vec_num = <<>>
  /\ \/ spc = "write" /\ epoch = round - 1 /\ open
     \/ spc = "len" /\ epoch = round /\ open
     \/ spc = "accept" /\ epoch = round - 1 /\ epoch = N

\* What is left of the request, field by field.
RequestAt ==
  \/ spc = "write" /\ epoch = round - 1 /\ toServer = FlattenSeq(CipherFields(asked))
  \/ /\ epoch = round
     /\ \/ spc = "len" /\ toServer = FlattenSeq(CipherFields(asked))
        \/ /\ spc = "content" /\ toServer = ContentField(asked) \o TagField(asked)
           /\ request.len = LenField(asked)
        \/ /\ spc = "tag" /\ toServer = TagField(asked)
           /\ request.len = LenField(asked) /\ request.content = ContentField(asked)
        \/ /\ spc = "answer" /\ toServer = <<>>
           /\ request.len = LenField(asked) /\ request.content = ContentField(asked)
           /\ request.tag = TagField(asked)

\* The request is sent and not answered yet.
Requesting ==
  /\ cpc = "count" /\ toClient = <<>> /\ toWrite = <<>> /\ open
  /\ due = printed \o AnswerTo[asked] /\ vec_num = <<>>
  /\ RequestAt

\* rest is what the client will read of the entry e, from where it is now, and
\* of the entries todo behind it.
AtWord(rest, e, todo) ==
  /\ vec_num = <<>>
  /\ \/ cpc = "distance" /\ rest = AtDistance(e, todo)
     \/ cpc = "len" /\ rest = AtLen(e, todo)
     \/ cpc = "content" /\ rest = AtContent(e, todo) /\ got.len = LenField(e.word)
     \/ /\ cpc = "tag" /\ rest = AtTag(e, todo)
        /\ got.len = LenField(e.word) /\ got.content = ContentField(e.word)
     \/ cpc = "size" /\ rest = AtSize(e, todo) /\ decrypted_word = e.word

AtNumber(rest, t, docs, todo) ==
  \/ cpc = "numLen" /\ rest = AtNumLen(t, docs, todo)
  \/ cpc = "numContent" /\ rest = AtNumContent(t, docs, todo) /\ got.len = LenField(t)
  \/ /\ cpc = "numTag" /\ rest = AtNumTag(t, docs, todo)
     /\ got.len = LenField(t) /\ got.content = ContentField(t)

InNumbers(rest, e, todo) ==
  /\ decrypted_word = e.word
  /\ \E t \in Text, docs \in Seq(Text) :
       /\ e.docs = vec_num \o (<<t>> \o docs) /\ numsLeft = Len(docs) + 1
       /\ AtNumber(rest, t, docs, todo)

InEntry(rest) ==
  \E e \in Sound, todo \in Seq(Sound) :
    /\ left = Len(todo) + 1 /\ due = printed \o (<<e>> \o todo)
    /\ AtWord(rest, e, todo) \/ InNumbers(rest, e, todo)

BeforeEntries(rest) ==
  /\ cpc = "count" /\ vec_num = <<>>
  /\ \E answer \in Seq(Sound) :
       /\ Fits(Len(answer), CountSize) /\ due = printed \o answer
       /\ rest = AnswerFields(answer)

\* The server is still writing the answer, or has written all of it.
WriterAt ==
  \/ spc = "write" /\ epoch = round /\ open
  \/ spc = "len" /\ epoch = round + 1 /\ open /\ toWrite = <<>>
  \/ spc = "accept" /\ epoch = round /\ epoch = N /\ toWrite = <<>>

Writing == toServer = <<>> /\ toWrite \in Seq(Piece) /\ WriterAt

Answering ==
  /\ Writing
  /\ \E rest \in Seq(Piece) :
       Carries(toClient, toWrite, rest) /\ (BeforeEntries(rest) \/ InEntry(rest))

Sync == cuts = 0 => Resting \/ Requesting \/ Answering

\* A read that is not cut returns the first field.
LEMMA ResultsWhole ==
  ASSUME NEW x \in Seq(Byte), NEW s \in Seq(Byte), NEW n \in Nat, n > 0, Len(x) = n,
         NEW ended, NEW r \in Results(x \o s, ended, n), r.cut = 0
  PROVE  r.bytes = x /\ r.rest = s
<1> DEFINE stream == x \o s
           most == IF n < Len(stream) THEN n ELSE Len(stream)
<1>1. /\ Len(stream) = n + Len(s) /\ Len(s) \in Nat
      /\ \A i \in 1..n : stream[i] = x[i]
      /\ \A i \in 1..Len(s) : stream[i + n] = s[i]
      /\ stream \in Seq(Byte)
  OBVIOUS
<1> HIDE DEF stream
<1>2. most = n
  BY <1>1
<1>3. PICK a \in 1..n :
        r = [bytes |-> SubSeq(stream, 1, a), rest |-> SubSeq(stream, a + 1, Len(stream)),
             cut |-> IF a < n THEN 1 ELSE 0]
  <2>1. most # 0 /\ r \in Results(stream, ended, n)
    BY <1>2 DEF stream
  <2>2. \E a \in 1..most :
          r = [bytes |-> SubSeq(stream, 1, a), rest |-> SubSeq(stream, a + 1, Len(stream)),
               cut |-> IF a < most THEN 1 ELSE 0]
    BY <2>1 DEF Results
  <2> QED
    BY <1>2, <2>2
<1>4. a = n
  BY <1>3
<1>5. r.bytes = SubSeq(stream, 1, n) /\ r.rest = SubSeq(stream, n + 1, Len(stream))
  BY <1>3, <1>4
<1>6. SubSeq(stream, 1, n) = x
  <2> DEFINE b == SubSeq(stream, 1, n)
  <2>1. b \in Seq(Byte) /\ Len(b) = n /\ \A i \in 1..n : b[i] = stream[i]
    BY <1>1
  <2> HIDE DEF b
  <2>2. b = x
    BY <1>1, <2>1, SeqEqual
  <2> QED
    BY <2>2 DEF b
<1>7. SubSeq(stream, n + 1, Len(stream)) = s
  <2> DEFINE b == SubSeq(stream, n + 1, Len(stream))
  <2>1. b \in Seq(Byte) /\ Len(b) = Len(s) /\ \A i \in 1..Len(s) : b[i] = stream[i + n]
    BY <1>1
  <2> HIDE DEF b
  <2>2. b = s
    BY <1>1, <2>1, SeqEqual
  <2> QED
    BY <2>2 DEF b
<1> QED
  BY <1>5, <1>6, <1>7

\* While the other side has not ended, a read waits for something to come.
LEMMA ResultsNone ==
  ASSUME NEW n \in Nat
  PROVE  Results(<<>>, FALSE, n) = {}
<1>1. Len(<<>>) = 0
  OBVIOUS
<1>2. (IF n < Len(<<>>) THEN n ELSE Len(<<>>)) = 0
  BY <1>1
<1> QED
  BY <1>2 DEF Results

\* What the client reads while it is answered is the next field.
LEMMA FieldRead ==
  ASSUME SessionOK, NEW field \in DOMAIN FieldSize, NEW r \in Incoming(field), r.cut = 0,
         NEW x \in Piece, Len(x) = FieldSize[field], NEW rest \in Seq(Piece),
         Writing, Carries(toClient, toWrite, <<x>> \o rest)
  PROVE  r.bytes = x /\ Carries(r.rest, toWrite, rest)
<1>1. FieldSize[field] \in Nat /\ FieldSize[field] > 0
  BY FieldSizesAre
<1>2. toClient # <<>>
  <2> SUFFICES ASSUME toClient = <<>> PROVE FALSE
    OBVIOUS
  <2>1. CASE open
    BY <1>1, <2>1, ResultsNone DEF Incoming
  <2>2. CASE ~open
    <3>1. toWrite = <<>> /\ toWrite \in Seq(Piece)
      BY <2>2 DEF Writing, WriterAt
    <3>2. <<x>> \o rest = <<>>
      BY <3>1, CarriesNothing
    <3>3. Len(<<x>> \o rest) = 1 + Len(rest) /\ Len(rest) \in Nat
      OBVIOUS
    <3> QED
      BY <3>2, <3>3
  <2> QED
    BY <2>1, <2>2
<1>3. PICK s \in Seq(Byte) : toClient = x \o s /\ Carries(s, toWrite, rest)
  BY <1>2, CarriesRead DEF Writing
<1>4. x \in Seq(Byte) /\ r \in Results(x \o s, ~open, FieldSize[field])
  BY <1>3, PieceFacts DEF Incoming
<1>5. r.bytes = x /\ r.rest = s
  BY <1>1, <1>4, ResultsWhole
<1> QED
  BY <1>3, <1>5

LEMMA FirstAndRest ==
  ASSUME NEW S, NEW s \in Seq(S), s # <<>>
  PROVE  \E x \in S, more \in Seq(S) : s = <<x>> \o more
<1>1. Head(s) \in S /\ Tail(s) \in Seq(S) /\ s = <<Head(s)>> \o Tail(s)
  OBVIOUS
<1> QED
  BY <1>1

LEMMA SoundAre ==
  /\ Sound \subseteq Entry /\ Seq(Sound) \subseteq Seq(Entry)
  /\ \A e \in Sound : Fits(Announced(e.docs), CountSize) /\ e.word \in Text /\ e.docs \in Seq(Text)
<1>1. Sound \subseteq Entry /\ \A e \in Sound : Fits(Announced(e.docs), CountSize)
  BY DEF Sound
<1>2. Seq(Sound) \subseteq Seq(Entry)
  BY <1>1, SeqMonotonic
<1>3. \A e \in Sound : e.word \in Text /\ e.docs \in Seq(Text)
  BY <1>1, EntryPieces
<1> QED
  BY <1>1, <1>2, <1>3

LEMMA TookWhole ==
  ASSUME SessionOK, NEW field \in DOMAIN FieldSize, NEW r \in Incoming(field), Took(field, r),
         cuts' = 0
  PROVE  /\ cuts = 0 /\ r.cut = 0 /\ cpc = field /\ toClient' = r.rest
         /\ UNCHANGED <<toServer, asked, open, spc, epoch, request, toWrite, due>>
<1>1. FieldSize[field] \in Nat /\ FieldSize[field] > 0
  BY FieldSizesAre
<1>2. toClient \in Seq(Byte) /\ r \in Results(toClient, ~open, FieldSize[field])
  BY DEF SessionOK, LinkOK, Incoming
<1>3. r.cut \in Nat
  BY <1>1, <1>2, ResultsAre
<1>4. cuts \in Nat /\ cuts' = cuts + r.cut
  BY FieldAssumption DEF SessionOK, LinkOK, Took
<1>5. cuts = 0 /\ r.cut = 0
  BY <1>3, <1>4
<1> QED
  BY <1>5 DEF Took, sessionVars

\* There is something to read only while an answer is under way.
LEMMA AnswerNow ==
  ASSUME SessionOK, Sync, NEW field \in DOMAIN FieldSize, NEW r \in Incoming(field),
         Took(field, r), cuts' = 0
  PROVE  Answering
<1>1. cuts = 0 /\ cpc = field
  BY TookWhole
<1>2. Resting \/ Requesting \/ Answering
  BY <1>1 DEF Sync
<1>3. CASE Resting
  BY <1>1, <1>3, PlacesAre DEF Resting
<1>4. CASE Requesting
  <2>1. toClient = <<>> /\ open
    BY <1>4 DEF Requesting
  <2>2. r \in Results(<<>>, FALSE, FieldSize[field]) /\ FieldSize[field] \in Nat
    BY <2>1, FieldSizesAre DEF Incoming
  <2> QED
    BY <2>2, ResultsNone
<1> QED
  BY <1>2, <1>3, <1>4

LEMMA WritingKept ==
  ASSUME Writing, UNCHANGED <<toServer, open, spc, epoch, round, toWrite>>
  PROVE  Writing'
BY DEF Writing, WriterAt

\* The client reads on in an entry.
LEMMA EntryGoesOn ==
  ASSUME Writing, UNCHANGED <<toServer, open, spc, epoch, round, toWrite, due, left, printed>>,
         NEW e \in Sound, NEW todo \in Seq(Sound),
         left = Len(todo) + 1, due = printed \o (<<e>> \o todo),
         NEW rest \in Seq(Piece), Carries(toClient', toWrite, rest),
         AtWord(rest, e, todo)' \/ InNumbers(rest, e, todo)'
  PROVE  Answering'
<1>1. Writing'
  BY WritingKept
<1>2. InEntry(rest)'
  BY DEF InEntry
<1>3. Carries(toClient', toWrite', rest)
  OBVIOUS
<1> QED
  BY <1>1, <1>2, <1>3 DEF Answering

\* The end of an answer.
LEMMA AnswerEnds ==
  ASSUME SessionOK, Writing, UNCHANGED <<toServer, open, spc, epoch, toWrite, due>>,
         cpc \in ReadPlaces, EndEpoch, printed' = due, vec_num' = <<>>,
         Carries(toClient', toWrite, <<>>)
  PROVE  Resting'
<1>1. toClient' = <<>> /\ toWrite = <<>> /\ toServer = <<>>
  BY CarriesAll DEF Writing
<1>2. round \in Nat /\ epoch \in Nat /\ N \in Nat /\ round <= N
  BY SizeFacts, PlacesAre DEF SessionOK, ReaderOK, WriterOK
<1>3. round' = round + 1 /\ cpc' \in {"send", "done"} /\ (cpc' = "done" => round' = N + 1)
  BY DEF EndEpoch
<1>4. \/ spc' = "write" /\ epoch' = round' - 1 /\ open'
      \/ spc' = "len" /\ epoch' = round' /\ open'
      \/ spc' = "accept" /\ epoch' = round' - 1 /\ epoch' = N
  BY <1>2, <1>3 DEF Writing, WriterAt
<1> QED
  BY <1>1, <1>3, <1>4 DEF Resting

\* The entries todo are still to come.
LEMMA EntriesFollow ==
  ASSUME SessionOK, Writing, UNCHANGED <<toServer, open, spc, epoch, toWrite, due>>,
         cpc \in ReadPlaces, vec_num' = <<>>,
         NEW todo \in Seq(Sound), due = printed' \o todo, printed' \in Seq(Entry),
         left' = Len(todo), Carries(toClient', toWrite, Rows(todo)),
         IF left' = 0 THEN EndEpoch ELSE cpc' = "distance" /\ UNCHANGED round
  PROVE  Resting' \/ Answering'
<1>1. todo \in Seq(Entry)
  BY SoundAre
<1>2. CASE todo = <<>>
  <2>1. left' = 0 /\ Rows(todo) = <<>> /\ printed' = due
    <3>1. Len(todo) = 0
      BY <1>2
    <3>2. Rows(todo) = <<>>
      BY <1>1, <1>2, RowsAre
    <3>3. printed' \o <<>> = printed'
      BY ConcatEmptySeq
    <3> QED
      BY <1>2, <3>1, <3>2, <3>3
  <2>2. Carries(toClient', toWrite, <<>>) /\ EndEpoch
    BY <2>1
  <2> QED
    BY <2>1, <2>2, AnswerEnds
<1>3. CASE todo # <<>>
  <2>1. PICK e \in Sound, more \in Seq(Sound) : todo = <<e>> \o more
    BY <1>3, FirstAndRest
  <2>2. left' = Len(more) + 1 /\ Len(more) \in Nat
    BY <2>1
  <2>3. cpc' = "distance" /\ round' = round
    BY <2>2
  <2>4. e \in Entry /\ more \in Seq(Entry)
    BY SoundAre
  <2>5. AtDistance(e, more) \in Seq(Piece) /\ Rows(todo) = AtDistance(e, more)
    BY <2>1, <2>4, EntryAt
  <2>6. AtWord(AtDistance(e, more), e, more)'
    BY <2>3 DEF AtWord
  <2>7. InEntry(AtDistance(e, more))'
    <3>1. due' = printed' \o (<<e>> \o more)
      BY <2>1
    <3> QED
      BY <2>2, <2>6, <3>1 DEF InEntry
  <2>8. Writing'
    BY <2>3, WritingKept
  <2>9. Carries(toClient', toWrite', AtDistance(e, more))
    BY <2>5
  <2> QED
    BY <2>5, <2>7, <2>8, <2>9 DEF Answering
<1> QED
  BY <1>2, <1>3

\* The line of an entry is printed whole.
LEMMA LineIsEntry ==
  ASSUME SessionOK, Writing, UNCHANGED <<toServer, open, spc, epoch, toWrite, due>>,
         cpc \in ReadPlaces, NEW e \in Sound, NEW todo \in Seq(Sound),
         left = Len(todo) + 1, due = printed \o (<<e>> \o todo), decrypted_word = e.word,
         PrintLine(e.docs), Carries(toClient', toWrite, Rows(todo))
  PROVE  Resting' \/ Answering'
<1>1. e \in Entry /\ e.word \in Text /\ e.docs \in Seq(Text) /\ todo \in Seq(Entry)
  BY SoundAre
<1>2. FirstBad(e.docs) = 0
  <2>1. e.docs \in Seq(Text \cup {Bad})
    <3>1. Seq(Text) \subseteq Seq(Text \cup {Bad})
      BY SeqMonotonic
    <3> QED
      BY <1>1, <3>1
  <2> QED
    BY <1>1, <2>1, FirstBadIs
<1>3. [word |-> e.word, docs |-> e.docs] = e
  BY <1>1 DEF Entry
<1>4. /\ printed' = Append(printed, e) /\ vec_num' = <<>> /\ left' = left - 1
      /\ IF left = 1 THEN EndEpoch ELSE cpc' = "distance" /\ UNCHANGED round
  BY <1>2, <1>3 DEF PrintLine
<1>5. printed \in Seq(Entry)
  BY DEF SessionOK, ReaderOK
<1>6. printed' \in Seq(Entry) /\ printed' = printed \o <<e>> /\ <<e>> \in Seq(Entry)
  <2> HIDE DEF Entry
  <2> QED
    BY <1>1, <1>4, <1>5
<1>7. (printed \o <<e>>) \o todo = printed \o (<<e>> \o todo)
  BY ONLY <1>1, <1>5, <1>6, Concat
<1>8. due = printed' \o todo
  BY <1>6, <1>7
<1>9. left' = Len(todo) /\ (left' = 0 <=> left = 1)
  <2>1. Len(todo) \in Nat
    OBVIOUS
  <2> QED
    BY <1>4, <2>1
<1>10. IF left' = 0 THEN EndEpoch ELSE cpc' = "distance" /\ UNCHANGED round
  BY <1>4, <1>9
<1> QED
  BY <1>4, <1>6, <1>8, <1>9, <1>10, EntriesFollow

LEMMA CountWhole ==
  ASSUME SessionOK, Sync, ReadCount, cuts' = 0
  PROVE  Resting' \/ Answering'
<1>0. PICK r \in Incoming("count") : \E v \in Values(r.bytes) :
        /\ Took("count", r)
        /\ left' = v
        /\ IF v = 0 THEN EndEpoch ELSE cpc' = "distance" /\ UNCHANGED round
        /\ UNCHANGED <<numsLeft, got, decrypted_word, vec_num, printed>>
  BY DEF ReadCount
<1>1. PICK v \in Values(r.bytes) :
        /\ Took("count", r)
        /\ left' = v
        /\ IF v = 0 THEN EndEpoch ELSE cpc' = "distance" /\ UNCHANGED round
        /\ UNCHANGED <<numsLeft, got, decrypted_word, vec_num, printed>>
  BY <1>0
<1>2. "count" \in DOMAIN FieldSize /\ FieldSize["count"] = CountSize
  BY FieldSizesAre
<1>3. /\ cuts = 0 /\ r.cut = 0 /\ cpc = "count" /\ toClient' = r.rest
      /\ UNCHANGED <<toServer, asked, open, spc, epoch, request, toWrite, due>>
  BY <1>1, <1>2, TookWhole
<1>4. Answering
  BY <1>1, <1>2, AnswerNow
<1>5. PICK rest \in Seq(Piece) :
        Carries(toClient, toWrite, rest) /\ (BeforeEntries(rest) \/ InEntry(rest))
  BY <1>4 DEF Answering
<1>6. BeforeEntries(rest)
  BY <1>3, <1>5 DEF InEntry, AtWord, InNumbers, AtNumber
<1>7. PICK answer \in Seq(Sound) :
        /\ Fits(Len(answer), CountSize) /\ due = printed \o answer
        /\ rest = AnswerFields(answer)
  BY <1>6 DEF BeforeEntries
<1>8. answer \in Seq(Entry) /\ Len(answer) \in Nat /\ CountSize \in Nat
  BY SoundAre, SizeFacts
<1>9. /\ rest = <<CountField(answer)>> \o Rows(answer) /\ Rows(answer) \in Seq(Piece)
      /\ CountField(answer) \in Piece /\ Len(CountField(answer)) = CountSize
  BY <1>7, <1>8, AnswerAt, RowsAre
<1>10. r.bytes = CountField(answer) /\ Carries(r.rest, toWrite, Rows(answer))
  BY <1>2, <1>3, <1>4, <1>5, <1>9, FieldRead DEF Answering
<1>11. v = Len(answer)
  <2>1. Values(r.bytes) = {Len(answer)}
    BY <1>7, <1>8, <1>10, ValuesOfInt DEF CountField
  <2> QED
    BY <2>1
<1>12. vec_num' = <<>> /\ printed' = printed /\ printed \in Seq(Entry)
  BY <1>1, <1>6 DEF BeforeEntries, SessionOK, ReaderOK
<1>13. cpc \in ReadPlaces /\ Writing
  BY <1>2, <1>3, <1>4, PlacesAre DEF Answering
<1>14. /\ due = printed' \o answer /\ left' = Len(answer)
       /\ Carries(toClient', toWrite, Rows(answer))
       /\ IF left' = 0 THEN EndEpoch ELSE cpc' = "distance" /\ UNCHANGED round
  BY <1>1, <1>3, <1>7, <1>10, <1>11, <1>12
<1> QED
  BY <1>3, <1>12, <1>13, <1>14, EntriesFollow

\* Inside an entry: which one, and what is left of it.
LEMMA InEntryNow ==
  ASSUME SessionOK, Sync, NEW field \in DOMAIN FieldSize, field # "count",
         NEW r \in Incoming(field), Took(field, r), cuts' = 0
  PROVE  /\ Writing
         /\ \E e \in Sound, todo \in Seq(Sound), rest \in Seq(Piece) :
              /\ left = Len(todo) + 1 /\ due = printed \o (<<e>> \o todo)
              /\ Carries(toClient, toWrite, rest)
              /\ AtWord(rest, e, todo) \/ InNumbers(rest, e, todo)
<1>1. Answering /\ cpc = field
  BY AnswerNow, TookWhole
<1>2. PICK rest \in Seq(Piece) :
        Carries(toClient, toWrite, rest) /\ (BeforeEntries(rest) \/ InEntry(rest))
  BY <1>1 DEF Answering
<1>3. InEntry(rest)
  BY <1>1, <1>2 DEF BeforeEntries
<1> QED
  BY <1>1, <1>2, <1>3 DEF InEntry, Answering

LEMMA DistanceWhole ==
  ASSUME SessionOK, Sync, ReadDistance, cuts' = 0
  PROVE  Answering'
<1>1. PICK r \in Incoming("distance") :
        /\ Took("distance", r)
        /\ cpc' = "len"
        /\ UNCHANGED <<round, left, numsLeft, got, decrypted_word, vec_num, printed>>
  BY DEF ReadDistance
<1>2. "distance" \in DOMAIN FieldSize /\ FieldSize["distance"] = IntSize
  BY FieldSizesAre
<1>3. /\ cuts = 0 /\ r.cut = 0 /\ cpc = "distance" /\ toClient' = r.rest
      /\ UNCHANGED <<toServer, asked, open, spc, epoch, request, toWrite, due>>
  BY <1>1, <1>2, TookWhole
<1>4. Writing /\ \E e \in Sound, todo \in Seq(Sound), rest \in Seq(Piece) :
        /\ left = Len(todo) + 1 /\ due = printed \o (<<e>> \o todo)
        /\ Carries(toClient, toWrite, rest)
        /\ AtWord(rest, e, todo) \/ InNumbers(rest, e, todo)
  BY <1>1, <1>2, InEntryNow
<1>5. PICK e \in Sound, todo \in Seq(Sound), rest \in Seq(Piece) :
        /\ left = Len(todo) + 1 /\ due = printed \o (<<e>> \o todo)
        /\ Carries(toClient, toWrite, rest)
        /\ AtWord(rest, e, todo) \/ InNumbers(rest, e, todo)
  BY <1>4
<1>6. rest = AtDistance(e, todo) /\ vec_num = <<>>
  BY <1>3, <1>5 DEF AtWord, InNumbers, AtNumber
<1>7. e \in Entry /\ todo \in Seq(Entry)
  BY SoundAre
<1>8. OneField \in Piece /\ Len(OneField) = IntSize /\ AtLen(e, todo) \in Seq(Piece)
  BY <1>7, EntryPieces, EntryAt
<1>9. Carries(r.rest, toWrite, AtLen(e, todo))
  BY <1>2, <1>3, <1>4, <1>5, <1>6, <1>8, FieldRead DEF AtDistance
<1>10. AtWord(AtLen(e, todo), e, todo)'
  BY <1>1, <1>6 DEF AtWord
<1> QED
  BY <1>1, <1>3, <1>4, <1>5, <1>8, <1>9, <1>10, EntryGoesOn

LEMMA LenWhole ==
  ASSUME SessionOK, Sync, ReadField("len", "content", "len"), cuts' = 0
  PROVE  Answering'
<1>1. PICK r \in Incoming("len") :
        /\ Took("len", r)
        /\ got' = [got EXCEPT !["len"] = r.bytes]
        /\ cpc' = "content"
        /\ UNCHANGED <<round, left, numsLeft, decrypted_word, vec_num, printed>>
  BY DEF ReadField
<1>2. "len" \in DOMAIN FieldSize /\ FieldSize["len"] = IntSize
  BY FieldSizesAre
<1>3. /\ cuts = 0 /\ r.cut = 0 /\ cpc = "len" /\ toClient' = r.rest
      /\ UNCHANGED <<toServer, asked, open, spc, epoch, request, toWrite, due>>
  BY <1>1, <1>2, TookWhole
<1>4. Writing /\ \E e \in Sound, todo \in Seq(Sound), rest \in Seq(Piece) :
        /\ left = Len(todo) + 1 /\ due = printed \o (<<e>> \o todo)
        /\ Carries(toClient, toWrite, rest)
        /\ AtWord(rest, e, todo) \/ InNumbers(rest, e, todo)
  BY <1>1, <1>2, InEntryNow
<1>5. PICK e \in Sound, todo \in Seq(Sound), rest \in Seq(Piece) :
        /\ left = Len(todo) + 1 /\ due = printed \o (<<e>> \o todo)
        /\ Carries(toClient, toWrite, rest)
        /\ AtWord(rest, e, todo) \/ InNumbers(rest, e, todo)
  BY <1>4
<1>6. rest = AtLen(e, todo) /\ vec_num = <<>>
  BY <1>3, <1>5 DEF AtWord, InNumbers, AtNumber
<1>7. e \in Entry /\ todo \in Seq(Entry) /\ e.word \in Text
  BY SoundAre
<1>8. /\ LenField(e.word) \in Piece /\ Len(LenField(e.word)) = IntSize
      /\ AtContent(e, todo) \in Seq(Piece)
  BY <1>7, CipherPieces, EntryAt
<1>9. r.bytes = LenField(e.word) /\ Carries(r.rest, toWrite, AtContent(e, todo))
  BY <1>2, <1>3, <1>4, <1>5, <1>6, <1>8, FieldRead DEF AtLen
<1>10. got'.len = LenField(e.word)
  BY <1>1, <1>9 DEF SessionOK, ReaderOK, FieldNames
<1>11. AtWord(AtContent(e, todo), e, todo)'
  BY <1>1, <1>6, <1>10 DEF AtWord
<1> QED
  BY <1>1, <1>3, <1>4, <1>5, <1>8, <1>9, <1>11, EntryGoesOn

LEMMA ContentWhole ==
  ASSUME SessionOK, Sync, ReadField("content", "tag", "content"), cuts' = 0
  PROVE  Answering'
<1>1. PICK r \in Incoming("content") :
        /\ Took("content", r)
        /\ got' = [got EXCEPT !["content"] = r.bytes]
        /\ cpc' = "tag"
        /\ UNCHANGED <<round, left, numsLeft, decrypted_word, vec_num, printed>>
  BY DEF ReadField
<1>2. "content" \in DOMAIN FieldSize /\ FieldSize["content"] = ContentSize
  BY FieldSizesAre
<1>3. /\ cuts = 0 /\ r.cut = 0 /\ cpc = "content" /\ toClient' = r.rest
      /\ UNCHANGED <<toServer, asked, open, spc, epoch, request, toWrite, due>>
  BY <1>1, <1>2, TookWhole
<1>4. Writing /\ \E e \in Sound, todo \in Seq(Sound), rest \in Seq(Piece) :
        /\ left = Len(todo) + 1 /\ due = printed \o (<<e>> \o todo)
        /\ Carries(toClient, toWrite, rest)
        /\ AtWord(rest, e, todo) \/ InNumbers(rest, e, todo)
  BY <1>1, <1>2, InEntryNow
<1>5. PICK e \in Sound, todo \in Seq(Sound), rest \in Seq(Piece) :
        /\ left = Len(todo) + 1 /\ due = printed \o (<<e>> \o todo)
        /\ Carries(toClient, toWrite, rest)
        /\ AtWord(rest, e, todo) \/ InNumbers(rest, e, todo)
  BY <1>4
<1>6. rest = AtContent(e, todo) /\ vec_num = <<>> /\ got.len = LenField(e.word)
  BY <1>3, <1>5 DEF AtWord, InNumbers, AtNumber
<1>7. e \in Entry /\ todo \in Seq(Entry) /\ e.word \in Text
  BY SoundAre
<1>8. /\ ContentField(e.word) \in Piece /\ Len(ContentField(e.word)) = ContentSize
      /\ AtTag(e, todo) \in Seq(Piece)
  BY <1>7, CipherPieces, EntryAt
<1>9. r.bytes = ContentField(e.word) /\ Carries(r.rest, toWrite, AtTag(e, todo))
  BY <1>2, <1>3, <1>4, <1>5, <1>6, <1>8, FieldRead DEF AtContent
<1>10. got'.len = LenField(e.word) /\ got'.content = ContentField(e.word)
  BY <1>1, <1>6, <1>9 DEF SessionOK, ReaderOK, FieldNames
<1>11. AtWord(AtTag(e, todo), e, todo)'
  BY <1>1, <1>6, <1>10 DEF AtWord
<1> QED
  BY <1>1, <1>3, <1>4, <1>5, <1>8, <1>9, <1>11, EntryGoesOn

LEMMA TagWhole ==
  ASSUME SessionOK, Sync, ReadTag, cuts' = 0
  PROVE  Answering'
<1>1. PICK r \in Incoming("tag") :
        /\ Took("tag", r)
        /\ decrypted_word' = Decrypted([got EXCEPT !.tag = r.bytes])
        /\ cpc' = IF decrypted_word' = Bad THEN "failed" ELSE "size"
        /\ got' = NoFields
        /\ UNCHANGED <<round, left, numsLeft, vec_num, printed>>
  BY DEF ReadTag
<1>2. "tag" \in DOMAIN FieldSize /\ FieldSize["tag"] = TagSize
  BY FieldSizesAre
<1>3. /\ cuts = 0 /\ r.cut = 0 /\ cpc = "tag" /\ toClient' = r.rest
      /\ UNCHANGED <<toServer, asked, open, spc, epoch, request, toWrite, due>>
  BY <1>1, <1>2, TookWhole
<1>4. Writing /\ \E e \in Sound, todo \in Seq(Sound), rest \in Seq(Piece) :
        /\ left = Len(todo) + 1 /\ due = printed \o (<<e>> \o todo)
        /\ Carries(toClient, toWrite, rest)
        /\ AtWord(rest, e, todo) \/ InNumbers(rest, e, todo)
  BY <1>1, <1>2, InEntryNow
<1>5. PICK e \in Sound, todo \in Seq(Sound), rest \in Seq(Piece) :
        /\ left = Len(todo) + 1 /\ due = printed \o (<<e>> \o todo)
        /\ Carries(toClient, toWrite, rest)
        /\ AtWord(rest, e, todo) \/ InNumbers(rest, e, todo)
  BY <1>4
<1>6. /\ rest = AtTag(e, todo) /\ vec_num = <<>>
      /\ got.len = LenField(e.word) /\ got.content = ContentField(e.word)
  BY <1>3, <1>5 DEF AtWord, InNumbers, AtNumber
<1>7. e \in Entry /\ todo \in Seq(Entry) /\ e.word \in Text
  BY SoundAre
<1>8. /\ TagField(e.word) \in Piece /\ Len(TagField(e.word)) = TagSize
      /\ AtSize(e, todo) \in Seq(Piece)
  BY <1>7, CipherPieces, EntryAt
<1>9. r.bytes = TagField(e.word) /\ Carries(r.rest, toWrite, AtSize(e, todo))
  BY <1>2, <1>3, <1>4, <1>5, <1>6, <1>8, FieldRead DEF AtTag
<1>10. decrypted_word' = e.word /\ cpc' = "size"
  <2> DEFINE fields == [got EXCEPT !.tag = r.bytes]
  <2>1. /\ fields.len = LenField(e.word) /\ fields.content = ContentField(e.word)
        /\ fields.tag = TagField(e.word)
    BY <1>6, <1>9 DEF SessionOK, ReaderOK, FieldNames
  <2>2. decrypted_word' = Decrypted(fields)
    BY <1>1
  <2> HIDE DEF fields
  <2>3. Decrypted(fields) = e.word
    BY <1>7, <2>1, Opens
  <2> QED
    BY <1>1, <1>7, <2>2, <2>3, TextAssumption
<1>11. AtWord(AtSize(e, todo), e, todo)'
  BY <1>1, <1>6, <1>10 DEF AtWord
<1> QED
  BY <1>1, <1>3, <1>4, <1>5, <1>8, <1>9, <1>11, EntryGoesOn

LEMMA SizeWhole ==
  ASSUME SessionOK, Sync, ReadSize, cuts' = 0
  PROVE  Resting' \/ Answering'
<1>0. PICK r \in Incoming("size") : \E v \in Values(r.bytes) :
        /\ Took("size", r)
        /\ numsLeft' = v \div NumberSize
        /\ IF numsLeft' = 0
           THEN PrintLine(<<>>)
           ELSE cpc' = "numLen" /\ UNCHANGED <<round, left, vec_num, printed>>
        /\ UNCHANGED <<got, decrypted_word>>
  BY DEF ReadSize
<1>1. PICK v \in Values(r.bytes) :
        /\ Took("size", r)
        /\ numsLeft' = v \div NumberSize
        /\ IF numsLeft' = 0
           THEN PrintLine(<<>>)
           ELSE cpc' = "numLen" /\ UNCHANGED <<round, left, vec_num, printed>>
        /\ UNCHANGED <<got, decrypted_word>>
  BY <1>0
<1>2. "size" \in DOMAIN FieldSize /\ FieldSize["size"] = CountSize
  BY FieldSizesAre
<1>3. /\ cuts = 0 /\ r.cut = 0 /\ cpc = "size" /\ toClient' = r.rest
      /\ UNCHANGED <<toServer, asked, open, spc, epoch, request, toWrite, due>>
  BY <1>1, <1>2, TookWhole
<1>4. Writing /\ \E e \in Sound, todo \in Seq(Sound), rest \in Seq(Piece) :
        /\ left = Len(todo) + 1 /\ due = printed \o (<<e>> \o todo)
        /\ Carries(toClient, toWrite, rest)
        /\ AtWord(rest, e, todo) \/ InNumbers(rest, e, todo)
  BY <1>1, <1>2, InEntryNow
<1>5. PICK e \in Sound, todo \in Seq(Sound), rest \in Seq(Piece) :
        /\ left = Len(todo) + 1 /\ due = printed \o (<<e>> \o todo)
        /\ Carries(toClient, toWrite, rest)
        /\ AtWord(rest, e, todo) \/ InNumbers(rest, e, todo)
  BY <1>4
<1>6. rest = AtSize(e, todo) /\ vec_num = <<>> /\ decrypted_word = e.word
  BY <1>3, <1>5 DEF AtWord, InNumbers, AtNumber
<1>7. /\ e \in Entry /\ todo \in Seq(Entry) /\ e.docs \in Seq(Text)
      /\ Fits(Announced(e.docs), CountSize)
  BY SoundAre
<1>8. /\ SizeField(e.docs) \in Piece /\ Len(SizeField(e.docs)) = CountSize
      /\ AtNums(e.docs, todo) \in Seq(Piece)
  BY <1>7, EntryPieces, NumsAt
<1>9. r.bytes = SizeField(e.docs) /\ Carries(r.rest, toWrite, AtNums(e.docs, todo))
  BY <1>2, <1>3, <1>4, <1>5, <1>6, <1>8, FieldRead DEF AtSize
<1>10. numsLeft' = Len(e.docs)
  <2>1. Announced(e.docs) \in Nat /\ Announced(e.docs) \div NumberSize = Len(e.docs)
    BY <1>7, AnnouncedIs
  <2>2. Values(r.bytes) = {Announced(e.docs)}
    BY <1>7, <1>9, <2>1, SizeFacts, ValuesOfInt DEF SizeField
  <2> QED
    BY <1>1, <2>1, <2>2
<1>11. cpc \in ReadPlaces
  BY <1>2, <1>3, PlacesAre
<1>12. CASE e.docs = <<>>
  <2>1. numsLeft' = 0
    BY <1>10, <1>12
  <2>2. PrintLine(e.docs)
    BY <1>1, <1>12, <2>1
  <2>3. Carries(toClient', toWrite, Rows(todo))
    BY <1>3, <1>7, <1>9, <1>12, NumsAt
  <2> QED
    BY <1>3, <1>4, <1>5, <1>6, <1>11, <2>2, <2>3, LineIsEntry
<1>13. CASE e.docs # <<>>
  <2>1. PICK t \in Text, docs \in Seq(Text) : e.docs = <<t>> \o docs
    BY <1>7, <1>13, FirstAndRest
  <2>2. numsLeft' = Len(docs) + 1 /\ Len(docs) \in Nat
    BY <1>10, <2>1
  <2>3. cpc' = "numLen" /\ UNCHANGED <<round, left, vec_num, printed, decrypted_word>>
    BY <1>1, <2>2
  <2>4. AtNumLen(t, docs, todo) \in Seq(Piece) /\ AtNums(e.docs, todo) = AtNumLen(t, docs, todo)
    BY <1>7, <2>1, NumAt
  <2>5. InNumbers(AtNumLen(t, docs, todo), e, todo)'
    <3>1. e.docs = vec_num' \o (<<t>> \o docs)
      <4>1. <<t>> \o docs \in Seq(Text)
        BY <1>7, <2>1
      <4>2. <<>> \o (<<t>> \o docs) = <<t>> \o docs
        BY <4>1, ConcatEmptySeq
      <4> QED
        BY <1>6, <2>1, <2>3, <4>2
    <3>2. AtNumber(AtNumLen(t, docs, todo), t, docs, todo)'
      BY <2>3 DEF AtNumber
    <3> QED
      BY <1>6, <2>2, <2>3, <3>1, <3>2 DEF InNumbers
  <2>6. Carries(toClient', toWrite, AtNumLen(t, docs, todo))
    BY <1>3, <1>9, <2>4
  <2> QED
    BY <1>3, <1>4, <1>5, <2>3, <2>4, <2>5, <2>6, EntryGoesOn
<1> QED
  BY <1>12, <1>13

\* Inside the numbers of an entry: which one, and what is left.
LEMMA NumberNow ==
  ASSUME SessionOK, Sync, NEW field \in NumFields, NEW r \in Incoming(field), Took(field, r),
         cuts' = 0
  PROVE  /\ Writing
         /\ \E e \in Sound, todo \in Seq(Sound), rest \in Seq(Piece), t \in Text, docs \in Seq(Text) :
              /\ left = Len(todo) + 1 /\ due = printed \o (<<e>> \o todo)
              /\ Carries(toClient, toWrite, rest) /\ decrypted_word = e.word
              /\ e.docs = vec_num \o (<<t>> \o docs) /\ numsLeft = Len(docs) + 1
              /\ AtNumber(rest, t, docs, todo)
<1>2. field \in DOMAIN FieldSize /\ field # "count"
  BY PlacesAre DEF ReadPlaces, NumFields
<1>1. cpc = field
  BY <1>2, TookWhole
<1>4. Writing /\ \E e \in Sound, todo \in Seq(Sound), rest \in Seq(Piece) :
        /\ left = Len(todo) + 1 /\ due = printed \o (<<e>> \o todo)
        /\ Carries(toClient, toWrite, rest)
        /\ AtWord(rest, e, todo) \/ InNumbers(rest, e, todo)
  BY <1>2, InEntryNow
<1>5. PICK e \in Sound, todo \in Seq(Sound), rest \in Seq(Piece) :
        /\ left = Len(todo) + 1 /\ due = printed \o (<<e>> \o todo)
        /\ Carries(toClient, toWrite, rest)
        /\ AtWord(rest, e, todo) \/ InNumbers(rest, e, todo)
  BY <1>4
<1>6. InNumbers(rest, e, todo)
  BY <1>1, <1>5 DEF AtWord, NumFields
<1> QED
  BY <1>4, <1>5, <1>6 DEF InNumbers

LEMMA NumLenWhole ==
  ASSUME SessionOK, Sync, ReadField("numLen", "numContent", "len"), cuts' = 0
  PROVE  Answering'
<1>1. PICK r \in Incoming("numLen") :
        /\ Took("numLen", r)
        /\ got' = [got EXCEPT !["len"] = r.bytes]
        /\ cpc' = "numContent"
        /\ UNCHANGED <<round, left, numsLeft, decrypted_word, vec_num, printed>>
  BY DEF ReadField
<1>2. "numLen" \in DOMAIN FieldSize /\ FieldSize["numLen"] = IntSize
  BY FieldSizesAre DEF NumFields
<1>3. /\ cuts = 0 /\ r.cut = 0 /\ cpc = "numLen" /\ toClient' = r.rest
      /\ UNCHANGED <<toServer, asked, open, spc, epoch, request, toWrite, due>>
  BY <1>1, <1>2, TookWhole
<1>4. Writing /\ \E e \in Sound, todo \in Seq(Sound), rest \in Seq(Piece), t \in Text, docs \in Seq(Text) :
        /\ left = Len(todo) + 1 /\ due = printed \o (<<e>> \o todo)
        /\ Carries(toClient, toWrite, rest) /\ decrypted_word = e.word
        /\ e.docs = vec_num \o (<<t>> \o docs) /\ numsLeft = Len(docs) + 1
        /\ AtNumber(rest, t, docs, todo)
  BY <1>1, NumberNow DEF NumFields
<1>5. PICK e \in Sound, todo \in Seq(Sound), rest \in Seq(Piece), t \in Text, docs \in Seq(Text) :
        /\ left = Len(todo) + 1 /\ due = printed \o (<<e>> \o todo)
        /\ Carries(toClient, toWrite, rest) /\ decrypted_word = e.word
        /\ e.docs = vec_num \o (<<t>> \o docs) /\ numsLeft = Len(docs) + 1
        /\ AtNumber(rest, t, docs, todo)
  BY <1>4
<1>6. rest = AtNumLen(t, docs, todo)
  BY <1>3, <1>5 DEF AtNumber
<1>7. todo \in Seq(Entry)
  BY SoundAre
<1>8. /\ LenField(t) \in Piece /\ Len(LenField(t)) = IntSize
      /\ AtNumContent(t, docs, todo) \in Seq(Piece)
  BY <1>7, CipherPieces, NumAt
<1>9. r.bytes = LenField(t) /\ Carries(r.rest, toWrite, AtNumContent(t, docs, todo))
  BY <1>2, <1>3, <1>4, <1>5, <1>6, <1>8, FieldRead DEF AtNumLen
<1>10. got'.len = LenField(t)
  BY <1>1, <1>6, <1>9 DEF SessionOK, ReaderOK, FieldNames
<1>11. AtNumber(AtNumContent(t, docs, todo), t, docs, todo)'
  BY <1>1, <1>6, <1>10 DEF AtNumber
<1>12. InNumbers(AtNumContent(t, docs, todo), e, todo)'
  BY <1>1, <1>5, <1>11 DEF InNumbers
<1> QED
  BY <1>1, <1>3, <1>4, <1>5, <1>8, <1>9, <1>12, EntryGoesOn

LEMMA NumContentWhole ==
  ASSUME SessionOK, Sync, ReadField("numContent", "numTag", "content"), cuts' = 0
  PROVE  Answering'
<1>1. PICK r \in Incoming("numContent") :
        /\ Took("numContent", r)
        /\ got' = [got EXCEPT !["content"] = r.bytes]
        /\ cpc' = "numTag"
        /\ UNCHANGED <<round, left, numsLeft, decrypted_word, vec_num, printed>>
  BY DEF ReadField
<1>2. "numContent" \in DOMAIN FieldSize /\ FieldSize["numContent"] = ContentSize
  BY FieldSizesAre DEF NumFields
<1>3. /\ cuts = 0 /\ r.cut = 0 /\ cpc = "numContent" /\ toClient' = r.rest
      /\ UNCHANGED <<toServer, asked, open, spc, epoch, request, toWrite, due>>
  BY <1>1, <1>2, TookWhole
<1>4. Writing /\ \E e \in Sound, todo \in Seq(Sound), rest \in Seq(Piece), t \in Text, docs \in Seq(Text) :
        /\ left = Len(todo) + 1 /\ due = printed \o (<<e>> \o todo)
        /\ Carries(toClient, toWrite, rest) /\ decrypted_word = e.word
        /\ e.docs = vec_num \o (<<t>> \o docs) /\ numsLeft = Len(docs) + 1
        /\ AtNumber(rest, t, docs, todo)
  BY <1>1, NumberNow DEF NumFields
<1>5. PICK e \in Sound, todo \in Seq(Sound), rest \in Seq(Piece), t \in Text, docs \in Seq(Text) :
        /\ left = Len(todo) + 1 /\ due = printed \o (<<e>> \o todo)
        /\ Carries(toClient, toWrite, rest) /\ decrypted_word = e.word
        /\ e.docs = vec_num \o (<<t>> \o docs) /\ numsLeft = Len(docs) + 1
        /\ AtNumber(rest, t, docs, todo)
  BY <1>4
<1>6. rest = AtNumContent(t, docs, todo) /\ got.len = LenField(t)
  BY <1>3, <1>5 DEF AtNumber
<1>7. todo \in Seq(Entry)
  BY SoundAre
<1>8. /\ ContentField(t) \in Piece /\ Len(ContentField(t)) = ContentSize
      /\ AtNumTag(t, docs, todo) \in Seq(Piece)
  BY <1>7, CipherPieces, NumAt
<1>9. r.bytes = ContentField(t) /\ Carries(r.rest, toWrite, AtNumTag(t, docs, todo))
  BY <1>2, <1>3, <1>4, <1>5, <1>6, <1>8, FieldRead, SMTT(30)
    DEF AtNumContent
<1>10. got'.len = LenField(t) /\ got'.content = ContentField(t)
  BY <1>1, <1>6, <1>9 DEF SessionOK, ReaderOK, FieldNames
<1>11. AtNumber(AtNumTag(t, docs, todo), t, docs, todo)'
  BY <1>1, <1>6, <1>10 DEF AtNumber
<1>12. InNumbers(AtNumTag(t, docs, todo), e, todo)'
  BY <1>1, <1>5, <1>11 DEF InNumbers
<1> QED
  BY <1>1, <1>3, <1>4, <1>5, <1>8, <1>9, <1>12, EntryGoesOn

LEMMA NumTagWhole ==
  ASSUME SessionOK, Sync, ReadNumTag, cuts' = 0
  PROVE  Resting' \/ Answering'
<1>1. PICK r \in Incoming("numTag") :
        LET nums == Append(vec_num, Decrypted([got EXCEPT !.tag = r.bytes])) IN
        /\ Took("numTag", r)
        /\ got' = NoFields
        /\ numsLeft' = numsLeft - 1
        /\ IF numsLeft = 1
           THEN PrintLine(nums)
           ELSE vec_num' = nums /\ cpc' = "numLen" /\ UNCHANGED <<round, left, printed>>
        /\ UNCHANGED decrypted_word
  BY DEF ReadNumTag
<1>2. "numTag" \in DOMAIN FieldSize /\ FieldSize["numTag"] = TagSize
  BY FieldSizesAre DEF NumFields
<1>3. /\ cuts = 0 /\ r.cut = 0 /\ cpc = "numTag" /\ toClient' = r.rest
      /\ UNCHANGED <<toServer, asked, open, spc, epoch, request, toWrite, due>>
  BY <1>1, <1>2, TookWhole
<1>4. Writing /\ \E e \in Sound, todo \in Seq(Sound), rest \in Seq(Piece), t \in Text, docs \in Seq(Text) :
        /\ left = Len(todo) + 1 /\ due = printed \o (<<e>> \o todo)
        /\ Carries(toClient, toWrite, rest) /\ decrypted_word = e.word
        /\ e.docs = vec_num \o (<<t>> \o docs) /\ numsLeft = Len(docs) + 1
        /\ AtNumber(rest, t, docs, todo)
  BY <1>1, NumberNow DEF NumFields
<1>5. PICK e \in Sound, todo \in Seq(Sound), rest \in Seq(Piece), t \in Text, docs \in Seq(Text) :
        /\ left = Len(todo) + 1 /\ due = printed \o (<<e>> \o todo)
        /\ Carries(toClient, toWrite, rest) /\ decrypted_word = e.word
        /\ e.docs = vec_num \o (<<t>> \o docs) /\ numsLeft = Len(docs) + 1
        /\ AtNumber(rest, t, docs, todo)
  BY <1>4
<1>6. rest = AtNumTag(t, docs, todo) /\ got.len = LenField(t) /\ got.content = ContentField(t)
  BY <1>3, <1>5 DEF AtNumber
<1>7. todo \in Seq(Entry) /\ e \in Entry
  BY SoundAre
<1>8. TagField(t) \in Piece /\ Len(TagField(t)) = TagSize /\ AtNums(docs, todo) \in Seq(Piece)
  BY <1>7, CipherPieces, NumsAt
<1>9. r.bytes = TagField(t) /\ Carries(r.rest, toWrite, AtNums(docs, todo))
  BY <1>2, <1>3, <1>4, <1>5, <1>6, <1>8, FieldRead DEF AtNumTag
<1>10. Decrypted([got EXCEPT !.tag = r.bytes]) = t
  <2> DEFINE fields == [got EXCEPT !.tag = r.bytes]
  <2>1. fields.len = LenField(t) /\ fields.content = ContentField(t) /\ fields.tag = TagField(t)
    BY <1>6, <1>9 DEF SessionOK, ReaderOK, FieldNames
  <2> HIDE DEF fields
  <2>2. Decrypted(fields) = t
    BY <2>1, Opens
  <2> QED
    BY <2>2 DEF fields
<1>11. /\ numsLeft' = numsLeft - 1 /\ decrypted_word' = decrypted_word
       /\ IF numsLeft = 1
          THEN PrintLine(Append(vec_num, t))
          ELSE vec_num' = Append(vec_num, t) /\ cpc' = "numLen" /\ UNCHANGED <<round, left, printed>>
  BY <1>1, <1>10
<1> DEFINE nums == Append(vec_num, t)
<1>12. nums \in Seq(Text \cup {Bad}) /\ nums = vec_num \o <<t>> /\ vec_num \in Seq(Text \cup {Bad})
  BY DEF SessionOK, ReaderOK
<1>13. \A ds \in Seq(Text) : nums \o ds = vec_num \o (<<t>> \o ds)
  <2> SUFFICES ASSUME NEW ds \in Seq(Text) PROVE nums \o ds = vec_num \o (<<t>> \o ds)
    OBVIOUS
  <2>1. ds \in Seq(Text \cup {Bad}) /\ <<t>> \in Seq(Text \cup {Bad})
    <3>1. Seq(Text) \subseteq Seq(Text \cup {Bad})
      BY SeqMonotonic
    <3> QED
      BY <3>1
  <2>2. (vec_num \o <<t>>) \o ds = vec_num \o (<<t>> \o ds)
    BY ONLY <1>12, <2>1, Concat
  <2> QED
    BY <1>12, <2>2
<1>14. cpc \in ReadPlaces
  BY <1>2, <1>3, PlacesAre
<1> HIDE DEF nums
<1>15. CASE docs = <<>>
  <2>1. numsLeft = 1
    BY <1>5, <1>15
  <2>2. e.docs = nums
    <3>1. nums \o docs = nums
      BY <1>12, <1>15, ConcatEmptySeq
    <3> QED
      BY <1>5, <1>13, <3>1
  <2>3. PrintLine(e.docs)
    BY <1>11, <2>1, <2>2 DEF nums
  <2>4. Carries(toClient', toWrite, Rows(todo))
    BY <1>3, <1>7, <1>9, <1>15, NumsAt
  <2> QED
    BY <1>3, <1>4, <1>5, <1>14, <2>3, <2>4, LineIsEntry
<1>16. CASE docs # <<>>
  <2>1. PICK u \in Text, ds \in Seq(Text) : docs = <<u>> \o ds
    BY <1>16, FirstAndRest
  <2>2. numsLeft' = Len(ds) + 1 /\ Len(ds) \in Nat /\ numsLeft # 1
    BY <1>5, <1>11, <2>1
  <2>3. /\ vec_num' = nums /\ cpc' = "numLen"
        /\ UNCHANGED <<round, left, printed, decrypted_word>>
    BY <1>11, <2>2 DEF nums
  <2>4. AtNumLen(u, ds, todo) \in Seq(Piece) /\ AtNums(docs, todo) = AtNumLen(u, ds, todo)
    BY <1>7, <2>1, NumAt
  <2>5. InNumbers(AtNumLen(u, ds, todo), e, todo)'
    <3>1. e.docs = vec_num' \o (<<u>> \o ds)
      BY <1>5, <1>13, <2>1, <2>3
    <3>2. AtNumber(AtNumLen(u, ds, todo), u, ds, todo)'
      BY <2>3 DEF AtNumber
    <3> QED
      BY <1>5, <2>2, <2>3, <3>1, <3>2 DEF InNumbers
  <2>6. Carries(toClient', toWrite, AtNumLen(u, ds, todo))
    BY <1>3, <1>9, <2>4
  <2> QED
    BY <1>3, <1>4, <1>5, <2>3, <2>4, <2>5, <2>6, EntryGoesOn
<1> QED
  BY <1>15, <1>16

LEMMA SendWhole ==
  ASSUME SessionOK, Sync, Send, cuts' = 0
  PROVE  Requesting'
<1>1. /\ cpc = "send" /\ cuts = 0
      /\ due' = due \o AnswerTo[asked]
      /\ UNCHANGED <<toClient, cuts, asked, round, vec_num, printed, open, spc, epoch, toWrite>>
  BY DEF Send
<1>2. Resting
  <2>1. Resting \/ Requesting \/ Answering
    BY <1>1 DEF Sync
  <2>2. ~Requesting
    BY <1>1 DEF Requesting
  <2>3. ~Answering
    BY <1>1 DEF Answering, BeforeEntries, InEntry, AtWord, InNumbers, AtNumber
  <2> QED
    BY <2>1, <2>2, <2>3
<1>3. round <= N /\ round \in Nat /\ N \in Nat
  BY <1>1, SizeFacts DEF SessionOK, ReaderOK
<1>4. open /\ ((spc = "write" /\ epoch = round - 1) \/ (spc = "len" /\ epoch = round))
  BY <1>2, <1>3 DEF Resting
<1>5. toServer' = FlattenSeq(CipherFields(asked)) /\ cpc' = "count"
  <2> DEFINE s == FlattenSeq(CipherFields(asked))
  <2>1. toServer' = <<>> \o s /\ cpc' = "count"
    BY <1>2, <1>4 DEF Send, Resting
  <2>2. s \in Seq(ByteOf(asked))
    BY OwnFields, TextAssumption DEF SessionOK, LinkOK
  <2> HIDE DEF s
  <2>3. <<>> \o s = s
    BY <2>2, ConcatEmptySeq
  <2> QED
    BY <2>1, <2>3 DEF s
<1>6. RequestAt'
  BY <1>1, <1>4, <1>5 DEF RequestAt
<1>7. due' = printed' \o AnswerTo[asked']
  BY <1>1, <1>2 DEF Resting
<1> QED
  BY <1>1, <1>2, <1>4, <1>5, <1>6, <1>7 DEF Requesting, Resting

\* A request put together.
LEMMA RequestBytes ==
  ASSUME NEW t \in Text
  PROVE  FlattenSeq(CipherFields(t)) = LenField(t) \o (ContentField(t) \o TagField(t))
<1> DEFINE x == LenField(t)
           y == ContentField(t)
           z == TagField(t)
           c == <<z>> \o <<>>
           b == <<y>> \o c
<1>1. x \in Piece /\ y \in Piece /\ z \in Piece /\ CipherFields(t) \in Seq(Piece)
  BY CipherPieces
<1>2. z \in Seq(Byte) /\ <<>> \in Seq(Piece)
  BY <1>1, PieceFacts, EmptySeq
<1>3. CipherFields(t) = <<x>> \o b
  <2>1. CipherFields(t) \o <<>> = <<x>> \o b
    BY <1>2, CipherFirst
  <2> HIDE DEF x, b
  <2> QED
    BY <1>1, <2>1, ConcatEmptySeq
<1> HIDE DEF x, y, z
<1>4. c \in Seq(Piece) /\ FlattenSeq(c) = z \o FlattenSeq(<<>>)
  <2>1. c \in Seq(Piece)
    BY <1>1
  <2>2. FlattenSeq(<<z>> \o <<>>) = z \o FlattenSeq(<<>>)
    BY ONLY <1>1, <1>2, FlattenPieces
  <2> QED
    BY <2>1, <2>2
<1> HIDE DEF c
<1>5. b \in Seq(Piece) /\ FlattenSeq(b) = y \o FlattenSeq(c)
  <2>1. b \in Seq(Piece)
    BY <1>1, <1>4
  <2>2. FlattenSeq(<<y>> \o c) = y \o FlattenSeq(c)
    BY ONLY <1>1, <1>4, FlattenPieces
  <2> QED
    BY <2>1, <2>2
<1> HIDE DEF b
<1>6. FlattenSeq(<<x>> \o b) = x \o FlattenSeq(b)
  BY <1>1, <1>5, FlattenPieces
<1>7. z \o FlattenSeq(<<>>) = z
  BY <1>2, FlattenEmpty, ConcatEmptySeq
<1> QED
  BY <1>3, <1>4, <1>5, <1>6, <1>7 DEF x, y, z

LEMMA ReadsWhileAnswered == Answering => cpc \in ReadPlaces
<1> SUFFICES ASSUME Answering PROVE cpc \in ReadPlaces
  OBVIOUS
<1>1. PICK rest \in Seq(Piece) : BeforeEntries(rest) \/ InEntry(rest)
  BY DEF Answering
<1>2. CASE BeforeEntries(rest)
  BY <1>2 DEF BeforeEntries, ReadPlaces
<1>3. CASE InEntry(rest)
  <2>1. PICK e \in Sound, todo \in Seq(Sound) : AtWord(rest, e, todo) \/ InNumbers(rest, e, todo)
    BY <1>3 DEF InEntry
  <2>2. CASE AtWord(rest, e, todo)
    BY <2>2 DEF AtWord, ReadPlaces
  <2>3. CASE InNumbers(rest, e, todo)
    BY <2>3 DEF InNumbers, AtNumber, ReadPlaces, NumFields
  <2> QED
    BY <2>1, <2>2, <2>3
<1> QED
  BY <1>1, <1>2, <1>3

\* While no request is under way the server waits for the next one.
LEMMA RequestNow ==
  ASSUME SessionOK, Sync, NEW field \in FieldNames, spc = field,
         NEW r \in Results(toServer, ClientEnded, FieldSize[field]), cuts = 0
  PROVE  Requesting
<1>1. FieldSize[field] \in Nat
  BY FieldSizesAre DEF FieldNames
<1>2. Resting \/ Requesting \/ Answering
  BY DEF Sync
<1>3. N \in Nat /\ round \in 1..(N + 1) /\ epoch \in 1..N
  BY SizeFacts DEF SessionOK, ReaderOK, WriterOK
<1>4. CASE Resting
  <2>1. toServer = <<>> /\ spc = "len" /\ epoch = round
    BY <1>4 DEF Resting, FieldNames
  <2>2. ClientEnded = FALSE
    <3>1. cpc \in {"send", "done"} /\ cpc # "done"
      BY <1>3, <1>4, <2>1 DEF Resting
    <3> QED
      BY <3>1 DEF ClientEnded
  <2> QED
    BY <1>1, <2>1, <2>2, ResultsNone
<1>5. CASE Answering
  <2>1. toServer = <<>>
    BY <1>5 DEF Answering, Writing
  <2>2. ClientEnded = FALSE
    <3>1. cpc \in ReadPlaces
      BY <1>5, ReadsWhileAnswered
    <3>2. cpc \notin {"done", "failed"}
      BY <3>1, PlacesAre
    <3> QED
      BY <3>2 DEF ClientEnded
  <2> QED
    BY <1>1, <2>1, <2>2, ResultsNone
<1> QED
  BY <1>2, <1>4, <1>5

\* The field of a request is read whole.
LEMMA RequestRead ==
  ASSUME SessionOK, Sync, NEW field, NEW next, ReadRequest(field, next), cuts' = 0,
         field \in FieldNames
  PROVE  /\ Requesting /\ spc = field /\ spc' = next
         /\ UNCHANGED <<toClient, clientVars, open, epoch, toWrite, due>>
         /\ \A x \in Piece, s \in Seq(Byte) :
              toServer = x \o s /\ Len(x) = FieldSize[field]
                => toServer' = s /\ request' = [request EXCEPT ![field] = x]
<1>1. PICK r \in Results(toServer, ClientEnded, FieldSize[field]) :
        /\ cuts' = cuts + r.cut /\ cuts' <= MaxCuts
        /\ toServer' = r.rest
        /\ request' = [request EXCEPT ![field] = r.bytes]
  BY DEF ReadRequest
<1>2. /\ spc = field /\ spc' = next
      /\ UNCHANGED <<toClient, clientVars, open, epoch, toWrite, due>>
  BY DEF ReadRequest
<1>3. FieldSize[field] \in Nat /\ FieldSize[field] > 0
  BY FieldSizesAre DEF FieldNames
<1>4. toServer \in Seq(ByteOf(asked)) /\ cuts \in Nat
  BY DEF SessionOK, LinkOK
<1>5. r.cut \in Nat
  BY <1>3, <1>4, ResultsAre
<1>6. cuts = 0 /\ r.cut = 0
  BY <1>1, <1>4, <1>5
<1>7. Requesting
  BY <1>2, <1>6, RequestNow
<1>8. ASSUME NEW x \in Piece, NEW s \in Seq(Byte), toServer = x \o s, Len(x) = FieldSize[field]
      PROVE  toServer' = s /\ request' = [request EXCEPT ![field] = x]
  <2>1. x \in Seq(Byte) /\ r \in Results(x \o s, ClientEnded, FieldSize[field])
    BY <1>8, PieceFacts
  <2>2. r.bytes = x /\ r.rest = s
    BY <1>3, <1>6, <1>8, <2>1, ResultsWhole
  <2> QED
    BY <1>1, <2>2
<1> QED
  BY <1>2, <1>7, <1>8

LEMMA RequestWhole ==
  ASSUME SessionOK, Sync, NEW field, NEW next, ReadRequest(field, next), cuts' = 0,
         \/ field = "len" /\ next = "content"
         \/ field = "content" /\ next = "tag"
         \/ field = "tag" /\ next = "answer"
  PROVE  Requesting'
<1>0. field \in FieldNames
  BY DEF FieldNames
<1>1. /\ Requesting /\ spc = field /\ spc' = next
      /\ UNCHANGED <<toClient, clientVars, open, epoch, toWrite, due>>
      /\ \A x \in Piece, s \in Seq(Byte) :
           toServer = x \o s /\ Len(x) = FieldSize[field]
             => toServer' = s /\ request' = [request EXCEPT ![field] = x]
  BY <1>0, RequestRead
<1> DEFINE x == LenField(asked)
           y == ContentField(asked)
           z == TagField(asked)
<1>2. /\ asked' = asked /\ cpc' = cpc /\ round' = round /\ printed' = printed /\ vec_num' = vec_num
      /\ toClient' = toClient /\ toWrite' = toWrite /\ open' = open /\ due' = due /\ epoch' = epoch
  BY <1>1 DEF clientVars
<1>3. asked \in Text
  BY TextAssumption DEF SessionOK, LinkOK
<1>4. /\ x \in Piece /\ y \in Piece /\ z \in Piece
      /\ Len(x) = IntSize /\ Len(y) = ContentSize /\ Len(z) = TagSize
      /\ FlattenSeq(CipherFields(asked)) = x \o (y \o z)
  BY <1>3, CipherPieces, RequestBytes
<1>5. /\ y \o z \in Seq(Byte) /\ z \in Seq(Byte) /\ <<>> \in Seq(Byte) /\ z \o <<>> = z
  <2>1. y \in Seq(Byte) /\ z \in Seq(Byte)
    BY <1>4, PieceFacts
  <2> HIDE DEF y, z
  <2> QED
    BY <2>1, ConcatProperties, ConcatEmptySeq, EmptySeq
<1>6. request \in [FieldNames -> Seq(ByteOf(asked))]
  BY DEF SessionOK, WriterOK
<1>7. RequestAt /\ epoch = round
  BY <1>1 DEF Requesting, RequestAt, FieldNames
<1> HIDE DEF x, y, z
<1>8. CASE field = "len"
  <2>1. toServer = x \o (y \o z) /\ FieldSize["len"] = IntSize /\ next = "content"
    BY <1>1, <1>4, <1>7, <1>8, FieldSizesAre DEF RequestAt
  <2>2. toServer' = y \o z /\ request' = [request EXCEPT !["len"] = x]
    BY <1>1, <1>4, <1>5, <1>8, <2>1
  <2>3. request'.len = x
    BY <1>6, <2>2 DEF FieldNames
  <2>4. RequestAt'
    BY <1>1, <1>2, <1>7, <2>1, <2>2, <2>3 DEF RequestAt, x, y, z
  <2> QED
    BY <1>1, <1>2, <2>4 DEF Requesting
<1>9. CASE field = "content"
  <2>1. toServer = y \o z /\ FieldSize["content"] = ContentSize /\ next = "tag" /\ request.len = x
    BY <1>1, <1>7, <1>9, FieldSizesAre DEF RequestAt, x, y, z
  <2>2. toServer' = z /\ request' = [request EXCEPT !["content"] = y]
    BY <1>1, <1>4, <1>5, <1>9, <2>1
  <2>3. request'.len = x /\ request'.content = y
    BY <1>6, <2>1, <2>2 DEF FieldNames
  <2>4. RequestAt'
    BY <1>1, <1>2, <1>7, <2>1, <2>2, <2>3 DEF RequestAt, x, y, z
  <2> QED
    BY <1>1, <1>2, <2>4 DEF Requesting
<1>10. CASE field = "tag"
  <2>1. /\ toServer = z /\ FieldSize["tag"] = TagSize /\ next = "answer"
        /\ request.len = x /\ request.content = y
    BY <1>1, <1>7, <1>10, FieldSizesAre DEF RequestAt, x, y, z
  <2>2. toServer' = <<>> /\ request' = [request EXCEPT !["tag"] = z]
    BY <1>1, <1>4, <1>5, <1>10, <2>1
  <2>3. request'.len = x /\ request'.content = y /\ request'.tag = z
    BY <1>6, <2>1, <2>2 DEF FieldNames
  <2>4. RequestAt'
    BY <1>1, <1>2, <1>7, <2>1, <2>2, <2>3 DEF RequestAt, x, y, z
  <2> QED
    BY <1>1, <1>2, <2>4 DEF Requesting
<1> QED
  BY <1>8, <1>9, <1>10

LEMMA AnswersSound ==
  ASSUME NEW answer \in Range(AnswerTo)
  PROVE  answer \in Seq(Sound) /\ Fits(Len(answer), CountSize)
<1>1. answer \in Seq(Entry) /\ Fits(Len(answer), CountSize)
  BY TextAssumption, WidthAssumption
<1>2. ASSUME NEW i \in 1..Len(answer) PROVE answer[i] \in Sound
  <2>1. answer[i] \in Entry /\ answer[i] \in Range(answer)
    BY <1>1 DEF Range
  <2>2. Fits(Announced(answer[i].docs), CountSize)
    BY <2>1, WidthAssumption
  <2> QED
    BY <2>1, <2>2 DEF Sound
<1>3. answer \in Seq(Sound)
  <2> HIDE DEF Sound, Entry
  <2>1. answer = [i \in 1..Len(answer) |-> answer[i]] /\ Len(answer) \in Nat
    BY <1>1
  <2> QED
    BY <1>2, <2>1
<1> QED
  BY <1>1, <1>3

LEMMA AnswerWhole ==
  ASSUME SessionOK, Sync, MakeAnswer, cuts' = 0
  PROVE  Answering' /\ Decrypted(request) = asked
<1>1. /\ spc = "answer" /\ spc' = "write" /\ cuts = 0
      /\ UNCHANGED <<toServer, toClient, cuts, clientVars, open, epoch, due>>
  BY DEF MakeAnswer
<1>2. Requesting
  BY <1>1 DEF Sync, Resting, Answering, Writing, WriterAt
<1>3. /\ epoch = round /\ toServer = <<>> /\ request.len = LenField(asked)
      /\ request.content = ContentField(asked) /\ request.tag = TagField(asked)
  BY <1>1, <1>2 DEF Requesting, RequestAt
<1>4. asked \in Text /\ asked \in DOMAIN AnswerTo /\ Bad \notin Text
  BY TextAssumption DEF SessionOK, LinkOK
<1>5. Decrypted(request) = asked
  BY <1>3, <1>4, Opens
<1>6. PICK answer \in Range(AnswerTo) : answer = AnswerTo[asked] /\ toWrite' = AnswerFields(answer)
  <2>1. AnswerTo[asked] \in Range(AnswerTo)
    BY <1>4 DEF Range
  <2> QED
    BY <1>4, <1>5, <2>1 DEF MakeAnswer
<1>7. answer \in Seq(Sound) /\ Fits(Len(answer), CountSize) /\ answer \in Seq(Entry)
  BY AnswersSound, SoundAre
<1>8. AnswerFields(answer) \in Seq(Piece)
  BY <1>7, AnswerAt
<1>9. Writing'
  BY <1>1, <1>2, <1>3, <1>6, <1>8 DEF Writing, WriterAt, Requesting, clientVars
<1>10. Carries(toClient', toWrite', AnswerFields(answer))
  BY <1>1, <1>2, <1>6, <1>8, CarriesStart DEF Requesting
<1>11. BeforeEntries(AnswerFields(answer))'
  <2>1. due' = printed' \o answer
    BY <1>1, <1>2, <1>6 DEF Requesting, clientVars
  <2> QED
    BY <1>1, <1>2, <1>7, <2>1 DEF BeforeEntries, Requesting, clientVars
<1>12. Answering'
  BY <1>8, <1>9, <1>10, <1>11 DEF Answering
<1> QED
  BY <1>5, <1>12

\* A step that leaves the client and the server's answers alone.
LEMMA PositionKept ==
  ASSUME NEW rest, UNCHANGED <<clientVars, due>>, BeforeEntries(rest) \/ InEntry(rest)
  PROVE  BeforeEntries(rest)' \/ InEntry(rest)'
<1>1. /\ cpc' = cpc /\ left' = left /\ numsLeft' = numsLeft /\ got' = got /\ due' = due
      /\ decrypted_word' = decrypted_word /\ vec_num' = vec_num /\ printed' = printed
  BY DEF clientVars
<1>2. CASE BeforeEntries(rest)
  BY <1>1, <1>2 DEF BeforeEntries
<1>3. CASE InEntry(rest)
  <2>1. PICK e \in Sound, todo \in Seq(Sound) :
          /\ left = Len(todo) + 1 /\ due = printed \o (<<e>> \o todo)
          /\ AtWord(rest, e, todo) \/ InNumbers(rest, e, todo)
    BY <1>3 DEF InEntry
  <2>2. AtWord(rest, e, todo) => AtWord(rest, e, todo)'
    BY <1>1 DEF AtWord
  <2>3. InNumbers(rest, e, todo) => InNumbers(rest, e, todo)'
    BY <1>1 DEF InNumbers, AtNumber
  <2> QED
    BY <1>1, <2>1, <2>2, <2>3 DEF InEntry
<1> QED
  BY <1>2, <1>3

LEMMA AnswerKept ==
  ASSUME Answering, UNCHANGED <<clientVars, toClient, toWrite, due>>, Writing'
  PROVE  Answering'
<1>1. PICK rest \in Seq(Piece) :
        Carries(toClient, toWrite, rest) /\ (BeforeEntries(rest) \/ InEntry(rest))
  BY DEF Answering
<1>2. BeforeEntries(rest)' \/ InEntry(rest)'
  BY <1>1, PositionKept
<1>3. Carries(toClient', toWrite', rest)
  BY <1>1
<1> QED
  BY <1>2, <1>3 DEF Answering

LEMMA SyncKept ==
  ASSUME Sync, UNCHANGED byteVars
  PROVE  Sync'
<1>1. /\ UNCHANGED <<clientVars, toServer, toClient, cuts, open, spc, epoch, request, toWrite, due>>
      /\ cpc' = cpc /\ asked' = asked /\ round' = round /\ printed' = printed /\ vec_num' = vec_num
  BY DEF byteVars, clientVars, sessionVars
<1>2. Resting => Resting'
  BY <1>1 DEF Resting
<1>3. Requesting => Requesting'
  BY <1>1 DEF Requesting, RequestAt
<1>4. Answering => Answering'
  <2>1. Writing => Writing'
    BY <1>1 DEF Writing, WriterAt
  <2> QED
    BY <1>1, <2>1, AnswerKept DEF Answering
<1> QED
  BY <1>1, <1>2, <1>3, <1>4 DEF Sync

LEMMA WriteWhole ==
  ASSUME SessionOK, Sync, WriteField, cuts' = 0
  PROVE  Answering'
<1>1. /\ spc = "write" /\ toWrite # <<>> /\ toWrite' = Tail(toWrite) /\ cuts = 0
      /\ UNCHANGED <<toServer, cuts, clientVars, epoch, request, due>>
  BY DEF WriteField
<1>2. Answering
  BY <1>1 DEF Sync, Resting, Requesting
<1>3. toClient' = toClient \o Head(toWrite) /\ UNCHANGED <<open, spc>>
  <2>1. ~ClientEnded
    BY <1>2, ReadsWhileAnswered, PlacesAre DEF ClientEnded
  <2> QED
    BY <2>1 DEF WriteField
<1>4. PICK rest \in Seq(Piece) :
        Carries(toClient, toWrite, rest) /\ (BeforeEntries(rest) \/ InEntry(rest))
  BY <1>2 DEF Answering
<1>5. Carries(toClient', toWrite', rest) /\ toWrite' \in Seq(Piece)
  <2>1. toWrite \in Seq(Piece) /\ Tail(toWrite) \in Seq(Piece)
    BY <1>1, <1>2, PiecesSplit DEF Answering, Writing
  <2> QED
    BY <1>1, <1>3, <1>4, <2>1, CarriesWrite
<1>6. Writing'
  BY <1>1, <1>2, <1>3, <1>5 DEF Answering, Writing, WriterAt, clientVars
<1>7. BeforeEntries(rest)' \/ InEntry(rest)'
  BY <1>1, <1>4, PositionKept
<1> QED
  BY <1>5, <1>6, <1>7 DEF Answering

LEMMA NextEpochWhole ==
  ASSUME SessionOK, Sync, NextEpoch, cuts' = 0
  PROVE  Sync'
<1>1. /\ spc = "write" /\ toWrite = <<>> /\ epoch < N /\ epoch' = epoch + 1 /\ spc' = "len" /\ cuts = 0
      /\ UNCHANGED <<toServer, cuts, clientVars, open, request, toWrite, due, toClient>>
  BY DEF NextEpoch
<1>2. /\ round \in Nat /\ epoch \in Nat
      /\ cpc' = cpc /\ asked' = asked /\ round' = round /\ printed' = printed /\ vec_num' = vec_num
  BY <1>1 DEF SessionOK, ReaderOK, WriterOK, clientVars
<1>3. Resting \/ Requesting \/ Answering
  BY <1>1 DEF Sync
<1>4. CASE Resting
  BY <1>1, <1>2, <1>4 DEF Resting, Sync
<1>5. CASE Requesting
  <2>1. epoch' = round' /\ toServer' = FlattenSeq(CipherFields(asked'))
    BY <1>1, <1>2, <1>5 DEF Requesting, RequestAt
  <2>2. RequestAt'
    BY <1>1, <2>1 DEF RequestAt
  <2> QED
    BY <1>1, <1>2, <1>5, <2>2 DEF Requesting, Sync
<1>6. CASE Answering
  <2>1. Writing'
    BY <1>1, <1>2, <1>6 DEF Answering, Writing, WriterAt
  <2> QED
    BY <1>1, <1>6, <2>1, AnswerKept DEF Sync
<1> QED
  BY <1>3, <1>4, <1>5, <1>6

LEMMA CloseWhole ==
  ASSUME SessionOK, Sync, Close, cuts' = 0
  PROVE  Sync'
<1>1. /\ spc = "write" /\ toWrite = <<>> /\ epoch = N /\ spc' = "accept" /\ cuts = 0 /\ open' = FALSE
      /\ toServer = <<>> => toClient' = toClient
      /\ UNCHANGED <<toServer, cuts, clientVars, epoch, request, toWrite, due>>
  BY DEF Close
<1>2. /\ round \in 1..(N + 1) /\ epoch \in Nat /\ N \in Nat
      /\ cpc' = cpc /\ asked' = asked /\ round' = round /\ printed' = printed /\ vec_num' = vec_num
  BY <1>1, SizeFacts DEF SessionOK, ReaderOK, WriterOK, clientVars
<1>3. Resting \/ Requesting \/ Answering
  BY <1>1 DEF Sync
<1>4. CASE Resting
  BY <1>1, <1>2, <1>4 DEF Resting, Sync
<1>5. CASE Requesting
  <2>1. epoch = round - 1 /\ round <= N
    BY <1>1, <1>5 DEF Requesting, RequestAt, SessionOK, ReaderOK
  <2> QED
    BY <1>1, <1>2, <2>1
<1>6. CASE Answering
  <2>1. Writing' /\ toClient' = toClient
    BY <1>1, <1>2, <1>6 DEF Answering, Writing, WriterAt
  <2> QED
    BY <1>1, <1>6, <2>1, AnswerKept DEF Sync
<1> QED
  BY <1>3, <1>4, <1>5, <1>6

LEMMA SyncStart == FramingInit => Sync
BY DEF FramingInit, Sync, Resting

LEMMA SyncStep ==
  ASSUME SessionOK, Sync, [FramingNext]_byteVars
  PROVE  Sync'
<1> SUFFICES ASSUME cuts' = 0 PROVE Sync'
  BY DEF Sync
<1> USE DEF Sync
<1>1. CASE Send
  BY <1>1, SendWhole
<1>2. CASE ReadCount
  BY <1>2, CountWhole
<1>3. CASE ReadDistance
  BY <1>3, DistanceWhole
<1>4. CASE ReadField("len", "content", "len")
  BY <1>4, LenWhole
<1>5. CASE ReadField("content", "tag", "content")
  BY <1>5, ContentWhole
<1>6. CASE ReadTag
  BY <1>6, TagWhole
<1>7. CASE ReadSize
  BY <1>7, SizeWhole
<1>8. CASE ReadField("numLen", "numContent", "len")
  BY <1>8, NumLenWhole
<1>9. CASE ReadField("numContent", "numTag", "content")
  BY <1>9, NumContentWhole
<1>10. CASE ReadNumTag
  BY <1>10, NumTagWhole
<1>11. CASE ReadRequest("len", "content") \/ ReadRequest("content", "tag") \/ ReadRequest("tag", "answer")
  BY <1>11, RequestWhole
<1>12. CASE MakeAnswer
  BY <1>12, AnswerWhole
<1>13. CASE WriteField
  BY <1>13, WriteWhole
<1>14. CASE NextEpoch
  BY <1>14, NextEpochWhole
<1>15. CASE Close
  BY <1>15, CloseWhole
<1>16. CASE UNCHANGED byteVars
  BY <1>16, SyncKept
<1> QED
  BY <1>1, <1>2, <1>3, <1>4, <1>5, <1>6, <1>7, <1>8, <1>9, <1>10, <1>11, <1>12, <1>13, <1>14,
     <1>15, <1>16
  DEF FramingNext, ClientStep, ServerStep, SessionOver

\* What the client takes x for when it reads a field.
FieldFor(field, x) ==
  /\ Len(x) = FieldSize[field]
  /\ \A p \in 1..FieldSize[field] :
       /\ x[p].kind = KindOf(field)
       /\ x[p].kind \in Opaque => x[p].at = p

LEMMA FieldsFit ==
  /\ \A field \in {"count", "size"}, v \in Nat : FieldFor(field, IntBytes(v, CountSize))
  /\ \A field \in {"distance", "len", "numLen"}, v \in Nat : FieldFor(field, IntBytes(v, IntSize))
  /\ \A field \in {"content", "numContent"}, t \in Text : FieldFor(field, ContentField(t))
  /\ \A field \in {"tag", "numTag"}, t \in Text : FieldFor(field, TagField(t))
<1>1. IntSize \in Nat /\ CountSize \in Nat /\ ContentSize \in Nat /\ TagSize \in Nat
  BY SizeFacts
<1>2. "int" \notin Opaque /\ "content" \in Opaque /\ "tag" \in Opaque
  BY DEF Opaque
<1>3. ASSUME NEW field \in {"count", "size"}, NEW v \in Nat
      PROVE  FieldFor(field, IntBytes(v, CountSize))
  <2>1. FieldSize[field] = CountSize /\ KindOf(field) = "int"
    BY FieldSizesAre DEF KindOf
  <2> QED
    BY <1>1, <1>2, <2>1, IntBytesAre DEF FieldFor
<1>4. ASSUME NEW field \in {"distance", "len", "numLen"}, NEW v \in Nat
      PROVE  FieldFor(field, IntBytes(v, IntSize))
  <2>1. FieldSize[field] = IntSize /\ KindOf(field) = "int"
    BY FieldSizesAre DEF KindOf
  <2> QED
    BY <1>1, <1>2, <2>1, IntBytesAre DEF FieldFor
<1>5. ASSUME NEW field \in {"content", "numContent"}, NEW t \in Text
      PROVE  FieldFor(field, ContentField(t))
  <2>1. FieldSize[field] = ContentSize /\ KindOf(field) = "content"
    BY FieldSizesAre DEF KindOf
  <2> QED
    BY <1>1, <1>2, <2>1, TextBytesAre DEF FieldFor, ContentField
<1>6. ASSUME NEW field \in {"tag", "numTag"}, NEW t \in Text
      PROVE  FieldFor(field, TagField(t))
  <2>1. FieldSize[field] = TagSize /\ KindOf(field) = "tag"
    BY FieldSizesAre DEF KindOf
  <2> QED
    BY <1>1, <1>2, <2>1, TextBytesAre DEF FieldFor, TagField
<1> QED
  BY <1>3, <1>4, <1>5, <1>6

\* What is to be read begins with the field the client reads.
LEMMA NextField ==
  ASSUME NEW rest \in Seq(Piece), BeforeEntries(rest) \/ InEntry(rest)
  PROVE  \E x \in Piece, more \in Seq(Piece) : rest = <<x>> \o more /\ FieldFor(cpc, x)
<1>1. CASE BeforeEntries(rest)
  <2>1. PICK answer \in Seq(Sound) : cpc = "count" /\ rest = AnswerFields(answer)
    BY <1>1 DEF BeforeEntries
  <2>2. answer \in Seq(Entry) /\ Len(answer) \in Nat
    BY SoundAre
  <2>3. /\ rest = <<CountField(answer)>> \o Rows(answer)
        /\ CountField(answer) \in Piece /\ Rows(answer) \in Seq(Piece)
    BY <2>1, <2>2, AnswerAt, RowsAre
  <2>4. FieldFor("count", CountField(answer))
    BY <2>2, FieldsFit DEF CountField
  <2> QED
    BY <2>1, <2>3, <2>4
<1>2. CASE InEntry(rest)
  <2>1. PICK e \in Sound, todo \in Seq(Sound) : AtWord(rest, e, todo) \/ InNumbers(rest, e, todo)
    BY <1>2 DEF InEntry
  <2>2. e \in Entry /\ e.word \in Text /\ e.docs \in Seq(Text) /\ todo \in Seq(Entry)
    BY SoundAre
  <2>3. /\ OneField \in Piece /\ SizeField(e.docs) \in Piece
        /\ \A t \in Text : LenField(t) \in Piece /\ ContentField(t) \in Piece /\ TagField(t) \in Piece
    BY <2>2, EntryPieces, CipherPieces
  <2>4. \A t \in Text : FieldFor("len", LenField(t)) /\ FieldFor("numLen", LenField(t))
    BY SizeFacts, FieldsFit DEF LenField
  <2>5. CASE AtWord(rest, e, todo)
    <3>1. CASE cpc = "distance"
      <4>1. rest = <<OneField>> \o AtLen(e, todo) /\ AtLen(e, todo) \in Seq(Piece)
        BY <2>2, <2>5, <3>1, EntryAt DEF AtWord, AtDistance
      <4>2. FieldFor("distance", OneField)
        BY FieldsFit DEF OneField
      <4> QED
        BY <2>3, <3>1, <4>1, <4>2
    <3>2. CASE cpc = "len"
      <4>1. rest = <<LenField(e.word)>> \o AtContent(e, todo) /\ AtContent(e, todo) \in Seq(Piece)
        BY <2>2, <2>5, <3>2, EntryAt DEF AtWord, AtLen
      <4> QED
        BY <2>2, <2>3, <2>4, <3>2, <4>1
    <3>3. CASE cpc = "content"
      <4>1. rest = <<ContentField(e.word)>> \o AtTag(e, todo) /\ AtTag(e, todo) \in Seq(Piece)
        BY <2>2, <2>5, <3>3, EntryAt DEF AtWord, AtContent
      <4>2. FieldFor("content", ContentField(e.word))
        BY <2>2, FieldsFit
      <4> QED
        BY <2>2, <2>3, <3>3, <4>1, <4>2
    <3>4. CASE cpc = "tag"
      <4>1. rest = <<TagField(e.word)>> \o AtSize(e, todo) /\ AtSize(e, todo) \in Seq(Piece)
        BY <2>2, <2>5, <3>4, EntryAt DEF AtWord, AtTag
      <4>2. FieldFor("tag", TagField(e.word))
        BY <2>2, FieldsFit
      <4> QED
        BY <2>2, <2>3, <3>4, <4>1, <4>2
    <3>5. CASE cpc = "size"
      <4>1. /\ rest = <<SizeField(e.docs)>> \o AtNums(e.docs, todo)
            /\ AtNums(e.docs, todo) \in Seq(Piece)
        BY <2>2, <2>5, <3>5, NumsAt DEF AtWord, AtSize
      <4>2. FieldFor("size", SizeField(e.docs))
        BY <2>2, AnnouncedIs, FieldsFit DEF SizeField
      <4> QED
        BY <2>3, <3>5, <4>1, <4>2
    <3> QED
      BY <2>5, <3>1, <3>2, <3>3, <3>4, <3>5 DEF AtWord
  <2>6. CASE InNumbers(rest, e, todo)
    <3>1. PICK t \in Text, docs \in Seq(Text) : AtNumber(rest, t, docs, todo)
      BY <2>6 DEF InNumbers
    <3>2. /\ AtNumContent(t, docs, todo) \in Seq(Piece) /\ AtNumTag(t, docs, todo) \in Seq(Piece)
          /\ AtNums(docs, todo) \in Seq(Piece)
      BY <2>2, NumAt, NumsAt
    <3>3. FieldFor("numContent", ContentField(t)) /\ FieldFor("numTag", TagField(t))
      BY FieldsFit
    <3>4. CASE cpc = "numLen"
      <4>1. rest = <<LenField(t)>> \o AtNumContent(t, docs, todo)
        BY <3>1, <3>4 DEF AtNumber, AtNumLen
      <4> QED
        BY <2>3, <2>4, <3>2, <3>4, <4>1
    <3>5. CASE cpc = "numContent"
      <4>1. rest = <<ContentField(t)>> \o AtNumTag(t, docs, todo)
        BY <3>1, <3>5 DEF AtNumber, AtNumContent
      <4> QED
        BY <2>3, <3>2, <3>3, <3>5, <4>1
    <3>6. CASE cpc = "numTag"
      <4>1. rest = <<TagField(t)>> \o AtNums(docs, todo)
        BY <3>1, <3>6 DEF AtNumber, AtNumTag
      <4> QED
        BY <2>3, <3>2, <3>3, <3>6, <4>1
    <3> QED
      BY <3>1, <3>4, <3>5, <3>6 DEF AtNumber
  <2> QED
    BY <2>1, <2>5, <2>6
<1> QED
  BY <1>1, <1>2

\* The first field of what is under way is the one the client reads next.
LEMMA FieldAhead ==
  ASSUME SessionOK, Answering, toClient # <<>>
  PROVE  /\ Len(toClient) >= FieldSize[cpc]
         /\ \A p \in 1..FieldSize[cpc] :
              /\ toClient[p].kind = KindOf(cpc)
              /\ toClient[p].kind \in Opaque => toClient[p].at = p
<1>1. PICK rest \in Seq(Piece) :
        Carries(toClient, toWrite, rest) /\ (BeforeEntries(rest) \/ InEntry(rest))
  BY DEF Answering
<1>2. PICK x \in Piece, more \in Seq(Piece) : rest = <<x>> \o more /\ FieldFor(cpc, x)
  BY <1>1, NextField
<1>3. PICK s \in Seq(Byte) : toClient = x \o s
  <2>1. Carries(toClient, toWrite, <<x>> \o more) /\ toWrite \in Seq(Piece)
    BY <1>1, <1>2 DEF Answering, Writing
  <2>2. \E s \in Seq(Byte) : toClient = x \o s /\ Carries(s, toWrite, more)
    BY <2>1, CarriesRead
  <2> QED
    BY <2>2
<1>4. x \in Seq(Byte) /\ Len(x) = FieldSize[cpc] /\ Len(x) \in Nat /\ Len(s) \in Nat
  BY <1>2, PieceFacts DEF FieldFor
<1>5. Len(toClient) = Len(x) + Len(s) /\ \A p \in 1..Len(x) : toClient[p] = x[p]
  <2>1. Len(x \o s) = Len(x) + Len(s) /\ \A p \in 1..Len(x) : (x \o s)[p] = x[p]
    <3>1. x \in Seq(Byte)
      BY <1>4
    <3> QED
      BY ONLY <3>1, s \in Seq(Byte)
  <2> QED
    BY <1>3, <2>1
<1>6. Len(toClient) >= FieldSize[cpc]
  BY <1>4, <1>5
<1>7. ASSUME NEW p \in 1..FieldSize[cpc]
      PROVE  /\ toClient[p].kind = KindOf(cpc)
             /\ toClient[p].kind \in Opaque => toClient[p].at = p
  BY <1>2, <1>4, <1>5 DEF FieldFor
<1> QED
  BY <1>6, <1>7

LEMMA SyncIsAligned ==
  ASSUME SessionOK, Sync
  PROVE  AlignedUnlessCut
<1> SUFFICES ASSUME cuts = 0
             PROVE  /\ cpc \in DOMAIN FieldSize /\ toClient # <<>> =>
                         /\ Len(toClient) >= FieldSize[cpc]
                         /\ \A p \in 1..FieldSize[cpc] :
                              /\ toClient[p].kind = KindOf(cpc)
                              /\ toClient[p].kind \in Opaque => toClient[p].at = p
                    /\ spc = "answer" => Decrypted(request) = asked
                    /\ cpc = "done" => printed = due
  BY DEF AlignedUnlessCut
<1>1. Resting \/ Requesting \/ Answering
  BY DEF Sync
<1>2. CASE Resting
  BY <1>2, PlacesAre DEF Resting
<1>3. CASE Requesting
  <2>1. toClient = <<>> /\ cpc = "count"
    BY <1>3 DEF Requesting
  <2>2. spc = "answer" => Decrypted(request) = asked
    <3> SUFFICES ASSUME spc = "answer" PROVE Decrypted(request) = asked
      OBVIOUS
    <3>1. /\ request.len = LenField(asked) /\ request.content = ContentField(asked)
          /\ request.tag = TagField(asked)
      BY <1>3 DEF Requesting, RequestAt
    <3>2. asked \in Text
      BY TextAssumption DEF SessionOK, LinkOK
    <3> QED
      BY <3>1, <3>2, Opens
  <2> QED
    BY <2>1, <2>2
<1>4. CASE Answering
  <2>1. cpc # "done" /\ spc # "answer"
    BY <1>4, ReadsWhileAnswered, PlacesAre DEF Answering, Writing, WriterAt
  <2>2. toClient # <<>> =>
          /\ Len(toClient) >= FieldSize[cpc]
          /\ \A p \in 1..FieldSize[cpc] :
               /\ toClient[p].kind = KindOf(cpc)
               /\ toClient[p].kind \in Opaque => toClient[p].at = p
    BY <1>4, FieldAhead
  <2> QED
    BY <2>1, <2>2
<1> QED
  BY <1>1, <1>2, <1>3, <1>4

\* As long as the network keeps every field in one piece, for every length of the
\* texts, of the integers and of the answers, the client reads each field where the
\* server wrote it, the server answers the word that was asked, and the answers to
\* all that was asked have been printed at the end (server.cpp:398-489, client.cpp:104-147).
THEOREM FramingAlignedUnlessCut == FramingSpec => []AlignedUnlessCut
<1>1. FramingInit => SessionOK /\ Sync
  BY InitOK, SyncStart
<1>2. SessionOK /\ Sync /\ [FramingNext]_byteVars => SessionOK' /\ Sync'
  BY SessionStep, SyncStep
<1>3. SessionOK /\ Sync => AlignedUnlessCut
  BY SyncIsAligned
<1> QED
  BY <1>1, <1>2, <1>3, PTL DEF FramingSpec
=============================================================================
