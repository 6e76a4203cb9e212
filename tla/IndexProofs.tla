---------------------------- MODULE IndexProofs ----------------------------
EXTENDS Dataset, FiniteSetTheorems, SequenceTheorems, WellFoundedInduction, TLAPS

\* The current keyword is the one the next line stands under.
CurrentIsOpen ==
  pc = "readFile" => \A k \in Name : currentWord = k <=> Under(at + 1, k)

\* Nothing is encrypted before the file is read.
BeforeLoop == pc = "readFile" => cipherWordList = <<>> /\ cipher_wordMap = <<>>

Visited == DOMAIN wordMap \ unread

\* The list holds the entries the loop has visited.
ListIsVisited ==
  pc # "readFile" => Range(cipherWordList) = {CipherWord(k) : k \in Visited}

InEntry == pc = "numbers" => entry \in Visited /\ numAt <= Len(wordMap[entry])

\* The numbers of entry k that are encrypted already.
Done(k) == IF pc = "numbers" /\ k = entry THEN numAt ELSE Len(wordMap[k])

Encrypted ==
  pc # "readFile" =>
    \A k \in Visited :
      CipherWord(k) \in DOMAIN cipher_wordMap =>
        /\ Len(cipher_wordMap[CipherWord(k)]) = Done(k)
        /\ \A d \in 1..Done(k) :
             cipher_wordMap[CipherWord(k)][d] = CipherNumber(wordMap[k][d])

ReadyIsAll == pc = "ready" => unread = {}

IInv ==
  /\ TypeOK /\ CurrentIsOpen /\ PostingsAsWritten /\ NeverEmpty
  /\ BeforeLoop /\ ListIsVisited /\ InEntry /\ Encrypted /\ ReadyIsAll /\ ListMatchesMap

-----------------------------------------------------------------------------
(* Facts about the operators.                                              *)

LEMMA CipherFacts ==
  /\ \A k, l : CipherWord(k) = CipherWord(l) => k = l
  /\ \A d, e : CipherNumber(d) = CipherNumber(e) => d = e
BY DEF CipherWord, CipherNumber, Enc

LEMMA LineFacts ==
  \A l \in Line :
    /\ l.kind \in {"word", "number", "close"}
    /\ l.kind = "word" => l.text \in Name \cup {NoText}
    /\ l.kind = "number" => l.text \in Number
BY DEF Line, Number

LEMMA RangeAppend ==
  ASSUME NEW S, NEW s \in Seq(S), NEW x
  PROVE  Range(Append(s, x)) = Range(s) \cup {x}
<1>1. DOMAIN Append(s, x) = 1..(Len(s) + 1)
  OBVIOUS
<1>2. \A a \in 1..Len(s) : Append(s, x)[a] = s[a]
  OBVIOUS
<1>3. Append(s, x)[Len(s) + 1] = x
  OBVIOUS
<1>4. DOMAIN s = 1..Len(s) /\ Len(s) \in Nat
  OBVIOUS
<1> QED
  BY <1>1, <1>2, <1>3, <1>4 DEF Range

LEMMA AppendFacts ==
  ASSUME NEW S, NEW s \in Seq(S), NEW x \in S
  PROVE  /\ Append(s, x) \in Seq(S) \ {<<>>}
         /\ Len(Append(s, x)) = Len(s) + 1
         /\ \A e \in 1..Len(s) : Append(s, x)[e] = s[e]
         /\ Append(s, x)[Len(s) + 1] = x
OBVIOUS

\* What stands under a keyword after one more line.
LEMMA UnderNext ==
  ASSUME file \in Seq(Line), at \in Nat, at < Len(file), NEW k \in Name
  PROVE  Under(at + 2, k) <=> \/ line = [kind |-> "word", text |-> k]
                              \/ line.kind = "number" /\ Under(at + 1, k)
<1> DEFINE Opens2(h, l) == /\ file[h] = [kind |-> "word", text |-> k]
                           /\ \A between \in (h + 1)..(l - 1) : file[between].kind = "number"
<1>1. line = file[at + 1] /\ line \in Line
  BY DEF line
<1>2. Under(at + 2, k) <=> \E h \in 1..(at + 1) : Opens2(h, at + 2)
  <2>1. (at + 2) - 1 = at + 1
    OBVIOUS
  <2> QED
    BY <2>1, Zenon DEF Under
<1>3. Under(at + 1, k) <=> \E h \in 1..at : Opens2(h, at + 1)
  BY DEF Under
<1>4. Opens2(at + 1, at + 2) <=> line = [kind |-> "word", text |-> k]
  BY <1>1
<1>5. ASSUME NEW h \in 1..at
      PROVE  Opens2(h, at + 2) <=> Opens2(h, at + 1) /\ line.kind = "number"
  <2>1. (h + 1)..(at + 2 - 1) = ((h + 1)..(at + 1 - 1)) \cup {at + 1}
    OBVIOUS
  <2> QED
    BY <1>1, <2>1
<1>6. 1..(at + 1) = (1..at) \cup {at + 1}
  OBVIOUS
<1> HIDE DEF Opens2
<1> QED
  BY <1>2, <1>3, <1>4, <1>5, <1>6

\* The lines with the numbers of a keyword are finitely many.
LEMMA NumbersFinite ==
  ASSUME at \in Nat, NEW k
  PROVE  /\ IsFiniteSet(NumbersOf(k))
         /\ \A l : IsFiniteSet({e \in NumbersOf(k) : e <= l})
         /\ NumbersOf(k) \subseteq 1..at
<1>1. IsFiniteSet(1..at)
  BY FS_Interval
<1>2. NumbersOf(k) \subseteq 1..at
  BY DEF NumbersOf
<1>3. IsFiniteSet(NumbersOf(k))
  BY <1>1, <1>2, FS_Subset
<1>4. ASSUME NEW l PROVE IsFiniteSet({e \in NumbersOf(k) : e <= l})
  <2>1. {e \in NumbersOf(k) : e <= l} \in SUBSET NumbersOf(k)
    OBVIOUS
  <2> QED
    BY <1>3, <2>1, FS_Subset
<1> QED
  BY <1>2, <1>3, <1>4

-----------------------------------------------------------------------------
(* Every step keeps the invariant.                                         *)

\* readFile has not begun.
Fresh ==
  /\ at = 0 /\ currentWord = NoText /\ wordMap = <<>>
  /\ unread = {} /\ entry = NoText /\ numAt = 0
  /\ cipherWordList = <<>> /\ cipher_wordMap = <<>>
  /\ pc = "readFile"

LEMMA FreshInv == Fresh /\ file \in Seq(Line) => IInv
<1> SUFFICES ASSUME Fresh, file \in Seq(Line) PROVE IInv
  OBVIOUS
<1>1. TypeOK
  BY DEF Fresh, TypeOK, Number
<1>2. \A k \in Name : NumbersOf(k) = {} /\ ~Under(at + 1, k)
  BY DEF Fresh, NumbersOf, Under
<1>3. CurrentIsOpen /\ PostingsAsWritten
  BY <1>2, NoTextAssumption DEF Fresh, CurrentIsOpen, PostingsAsWritten
<1>4. ListMatchesMap
  BY DEF Fresh, ListMatchesMap, Range
<1> QED
  BY <1>1, <1>3, <1>4 DEF IInv, Fresh, NeverEmpty, BeforeLoop, ListIsVisited, InEntry,
                          Encrypted, ReadyIsAll

LEMMA InitInv == Init => IInv
<1> SUFFICES ASSUME Init PROVE IInv
  OBVIOUS
<1>1. Fresh /\ file \in Seq(Line)
  BY FilesAssumption DEF Init, Fresh
<1> QED
  BY <1>1, FreshInv

\* The lines that open or close a list leave the map alone.
LEMMA ReadWordInv == IInv /\ (ReadWord \/ ReadClose) => IInv'
<1> SUFFICES ASSUME IInv, ReadWord \/ ReadClose PROVE IInv'
  OBVIOUS
<1> USE DEF IInv
<1>0. /\ pc = "readFile" /\ pc' = pc /\ at \in Nat /\ at < Len(file) /\ at' = at + 1
      /\ UNCHANGED <<file, wordMap, loopVars>>
      /\ line \in Line /\ line = file[at + 1] /\ file \in Seq(Line)
      /\ line.kind # "number"
  BY DEF ReadWord, ReadClose, MoreLines, TypeOK, line
<1>1. currentWord' \in Name \cup {NoText}
  BY <1>0, LineFacts DEF ReadWord, ReadClose
<1>2. TypeOK'
  BY <1>0, <1>1 DEF TypeOK, loopVars
<1>3. ASSUME NEW k \in Name
      PROVE  currentWord' = k <=> Under(at + 2, k)
  <2>1. Under(at + 2, k) <=> line = [kind |-> "word", text |-> k]
    BY <1>0, UnderNext
  <2>2. CASE ReadClose
    BY <2>1, <2>2, NoTextAssumption DEF ReadClose
  <2>3. CASE ReadWord
    <3>1. line = [kind |-> "word", text |-> line.text]
      BY <1>0, <2>3 DEF ReadWord, Line
    <3> QED
      BY <2>1, <2>3, <3>1 DEF ReadWord
  <2> QED
    BY <2>2, <2>3
<1>4. CurrentIsOpen'
  <2>1. \A k \in Name : Under(at + 1, k)' <=> Under(at + 2, k)
    BY <1>0 DEF Under
  <2> QED
    BY <1>3, <2>1 DEF CurrentIsOpen
<1>5. PostingsAsWritten'
  <2>1. \A k : NumbersOf(k)' = NumbersOf(k)
    BY <1>0 DEF NumbersOf, Under
  <2> QED
    BY <1>0, <2>1 DEF PostingsAsWritten
<1>6. NeverEmpty' /\ BeforeLoop' /\ ListIsVisited' /\ InEntry' /\ Encrypted' /\ ReadyIsAll'
  BY <1>0 DEF NeverEmpty, BeforeLoop, ListIsVisited, InEntry, Encrypted, ReadyIsAll, loopVars
<1>7. ListMatchesMap'
  BY <1>0 DEF ListMatchesMap, loopVars
<1> QED
  BY <1>2, <1>4, <1>5, <1>6, <1>7

\* The number goes to the end of the list it stands under.
LEMMA ReadNumberPostings ==
  ASSUME IInv, ReadNumber, NEW k \in Name
  PROVE  IF NumbersOf(k)' = {}
         THEN k \notin DOMAIN wordMap'
         ELSE /\ k \in DOMAIN wordMap'
              /\ Len(wordMap'[k]) = Cardinality(NumbersOf(k)')
              /\ \A l \in NumbersOf(k)' :
                   wordMap'[k][Cardinality({e \in NumbersOf(k)' : e <= l})] = file'[l].text
<1> USE DEF IInv
<1>0. /\ pc = "readFile" /\ at \in Nat /\ at < Len(file) /\ at' = at + 1
      /\ file' = file /\ line = file[at + 1] /\ line.kind = "number"
      /\ line.text \in Number
  BY LineFacts DEF ReadNumber, MoreLines, TypeOK, line
<1> DEFINE N == NumbersOf(k)
<1>1. currentWord = k <=> Under(at + 1, k)
  BY <1>0 DEF CurrentIsOpen
<1>2. NumbersOf(k)' = N \cup (IF currentWord = k THEN {at + 1} ELSE {})
  BY <1>0, <1>1 DEF NumbersOf, Under
<1>3. IsFiniteSet(N) /\ N \subseteq 1..at /\ \A l : IsFiniteSet({e \in N : e <= l})
  BY <1>0, NumbersFinite
<1>4. CASE currentWord # k
  <2>1. k \in DOMAIN wordMap' <=> k \in DOMAIN wordMap
    BY <1>4 DEF ReadNumber, WithNumber
  <2>2. k \in DOMAIN wordMap => wordMap'[k] = wordMap[k]
    BY <1>4 DEF ReadNumber, WithNumber
  <2>3. NumbersOf(k)' = N
    BY <1>2, <1>4
  <2> QED
    BY <1>0, <2>1, <2>2, <2>3 DEF PostingsAsWritten
<1>5. CASE currentWord = k
  <2> DEFINE len == IF k \in DOMAIN wordMap THEN Len(wordMap[k]) ELSE 0
  <2>1. wordMap' = WithNumber(wordMap, k, line.text)
    BY <1>5, NoTextAssumption DEF ReadNumber
  <2>2. k \in DOMAIN wordMap => wordMap[k] \in Seq(Number)
    BY DEF TypeOK
  <2>3. /\ k \in DOMAIN wordMap'
        /\ Len(wordMap'[k]) = len + 1
        /\ wordMap'[k][len + 1] = line.text
        /\ \A e \in 1..len : wordMap'[k][e] = wordMap[k][e]
    <3>1. CASE k \in DOMAIN wordMap
      <4>1. wordMap'[k] = Append(wordMap[k], line.text) /\ k \in DOMAIN wordMap'
        BY <2>1, <3>1 DEF WithNumber
      <4> QED
        BY <2>2, <3>1, <4>1
    <3>2. CASE k \notin DOMAIN wordMap
      <4>1. wordMap'[k] = <<line.text>> /\ k \in DOMAIN wordMap'
        BY <2>1, <3>2 DEF WithNumber
      <4> QED
        BY <3>2, <4>1
    <3> QED
      BY <3>1, <3>2
  <2>4. len = Cardinality(N)
    BY FS_EmptySet DEF PostingsAsWritten
  <2>5. NumbersOf(k)' = N \cup {at + 1} /\ at + 1 \notin N
    BY <1>0, <1>2, <1>3, <1>5
  <2>6. Cardinality(NumbersOf(k)') = len + 1
    BY <1>3, <2>4, <2>5, FS_AddElement
  <2>7. ASSUME NEW l \in NumbersOf(k)'
        PROVE  wordMap'[k][Cardinality({e \in NumbersOf(k)' : e <= l})] = file[l].text
    <3>1. CASE l = at + 1
      <4>1. {e \in NumbersOf(k)' : e <= l} = NumbersOf(k)'
        BY <1>0, <1>3, <2>5, <3>1
      <4> QED
        BY <1>0, <2>3, <2>6, <3>1, <4>1
    <3>2. CASE l \in N
      <4> DEFINE before == {e \in N : e <= l}
      <4>1. {e \in NumbersOf(k)' : e <= l} = before
        BY <1>0, <1>3, <2>5, <3>2
      <4>2. before \in SUBSET N /\ before # {} /\ IsFiniteSet(before)
        BY <1>3, <3>2
      <4>3. Cardinality(before) \in Nat /\ Cardinality(before) <= Cardinality(N)
        BY <1>3, <4>2, FS_Subset, FS_CardinalityType
      <4>4. Cardinality(before) # 0
        BY <4>2, FS_EmptySet
      <4>5. Cardinality(N) \in Nat
        BY <1>3, FS_CardinalityType
      <4>6. Cardinality(before) \in 1..len
        BY <2>4, <4>3, <4>4, <4>5
      <4>7. k \in DOMAIN wordMap /\ wordMap[k][Cardinality(before)] = file[l].text
        BY <3>2 DEF PostingsAsWritten
      <4> QED
        BY <2>3, <4>1, <4>6, <4>7
    <3> QED
      BY <2>5, <3>1, <3>2
  <2> QED
    BY <1>0, <2>3, <2>5, <2>6, <2>7
<1> QED
  BY <1>4, <1>5

LEMMA ReadNumberInv == IInv /\ ReadNumber => IInv'
<1> SUFFICES ASSUME IInv, ReadNumber PROVE IInv'
  OBVIOUS
<1>0. /\ pc = "readFile" /\ pc' = pc /\ at \in Nat /\ at < Len(file) /\ at' = at + 1
      /\ file \in Seq(Line) /\ UNCHANGED <<file, currentWord>>
      /\ unread' = unread /\ entry' = entry /\ numAt' = numAt
      /\ cipherWordList' = cipherWordList /\ cipher_wordMap' = cipher_wordMap
      /\ line = file[at + 1] /\ line.kind = "number" /\ line.text \in Number
  BY LineFacts DEF IInv, ReadNumber, MoreLines, TypeOK, line, loopVars
<1>1. ASSUME NEW k \in Name PROVE currentWord' = k <=> Under(at + 1, k)'
  <2>1. Under(at + 1, k)' <=> Under(at + 2, k)
    BY <1>0 DEF Under
  <2>2. line # [kind |-> "word", text |-> k]
    BY <1>0
  <2>3. Under(at + 2, k) <=> Under(at + 1, k)
    BY <1>0, <2>2, UnderNext
  <2> QED
    BY <1>0, <2>1, <2>3 DEF IInv, CurrentIsOpen
<1>2. CurrentIsOpen'
  BY <1>1 DEF CurrentIsOpen
<1>3. PostingsAsWritten'
  BY ReadNumberPostings DEF PostingsAsWritten
<1>4. CASE currentWord = NoText
  <2>1. wordMap' = wordMap
    BY <1>4 DEF ReadNumber
  <2>2. TypeOK'
    BY <1>0, <2>1 DEF IInv, TypeOK
  <2> QED
    BY <1>0, <1>2, <1>3, <2>1, <2>2
    DEF IInv, NeverEmpty, BeforeLoop, ListIsVisited, InEntry, Encrypted, ReadyIsAll,
        ListMatchesMap
<1>5. CASE currentWord # NoText
  <2>1. currentWord \in Name /\ wordMap' = WithNumber(wordMap, currentWord, line.text)
    BY <1>5 DEF IInv, TypeOK, ReadNumber
  <2>2. DOMAIN wordMap' = DOMAIN wordMap \cup {currentWord}
    BY <2>1 DEF WithNumber
  <2>3. ASSUME NEW k \in DOMAIN wordMap' PROVE wordMap'[k] \in Seq(Number) \ {<<>>}
    <3>1. CASE k # currentWord
      <4>1. k \in DOMAIN wordMap /\ wordMap'[k] = wordMap[k]
        BY <2>1, <2>2, <3>1 DEF WithNumber
      <4> QED
        BY <4>1 DEF IInv, TypeOK, NeverEmpty
    <3>2. CASE k = currentWord /\ k \in DOMAIN wordMap
      <4>1. wordMap'[k] = Append(wordMap[k], line.text) /\ wordMap[k] \in Seq(Number)
        BY <2>1, <3>2 DEF WithNumber, IInv, TypeOK
      <4> QED
        BY <1>0, <4>1
    <3>3. CASE k = currentWord /\ k \notin DOMAIN wordMap
      <4>1. wordMap'[k] = <<line.text>>
        BY <2>1, <3>3 DEF WithNumber
      <4> QED
        BY <1>0, <4>1
    <3> QED
      BY <3>1, <3>2, <3>3
  <2>4. TypeOK'
    BY <1>0, <2>1, <2>2, <2>3 DEF IInv, TypeOK
  <2>5. NeverEmpty'
    BY <1>0, <2>3 DEF IInv, NeverEmpty
  <2> QED
    BY <1>0, <1>2, <1>3, <2>4, <2>5
    DEF IInv, BeforeLoop, ListIsVisited, InEntry, Encrypted, ReadyIsAll, ListMatchesMap
<1> QED
  BY <1>4, <1>5

\* A step of the loops leaves what has been read alone.
LEMMA LoopKeepsReading ==
  ASSUME IInv, UNCHANGED <<file, at, currentWord, wordMap>>, pc' # "readFile"
  PROVE  CurrentIsOpen' /\ PostingsAsWritten' /\ BeforeLoop'
<1>1. \A k : NumbersOf(k)' = NumbersOf(k)
  BY DEF NumbersOf, Under
<1> QED
  BY <1>1 DEF IInv, CurrentIsOpen, PostingsAsWritten, BeforeLoop

LEMMA ReturnInv == IInv /\ Return => IInv'
<1> SUFFICES ASSUME IInv, Return PROVE IInv'
  OBVIOUS
<1>1. CurrentIsOpen' /\ PostingsAsWritten' /\ BeforeLoop'
  BY LoopKeepsReading DEF Return
<1>2. cipherWordList = <<>> /\ cipher_wordMap = <<>> /\ Visited' = {}
  BY DEF IInv, BeforeLoop, Return, Visited
<1>3. TypeOK' /\ NeverEmpty' /\ InEntry' /\ ReadyIsAll'
  BY DEF IInv, TypeOK, NeverEmpty, InEntry, ReadyIsAll, Return
<1>4. ListIsVisited' /\ Encrypted'
  BY <1>2 DEF ListIsVisited, Encrypted, Range, Return
<1>5. ListMatchesMap'
  BY <1>2 DEF ListMatchesMap, Range, Return
<1> QED
  BY <1>1, <1>3, <1>4, <1>5 DEF IInv

LEMMA EncryptWordInv ==
  ASSUME IInv, NEW k \in DOMAIN wordMap, EncryptWord(k)
  PROVE  IInv'
<1>0. /\ pc = "words" /\ k \in unread /\ k \in Name
      /\ cipherWordList \in Seq({CipherWord(x) : x \in Name})
      /\ cipherWordList' = Append(cipherWordList, CipherWord(k))
      /\ cipher_wordMap' = cipher_wordMap /\ wordMap' = wordMap
      /\ numAt' = 0 /\ entry' = k /\ pc' = "numbers" /\ unread' = unread \ {k}
  BY DEF IInv, EncryptWord, TypeOK
<1>1. CurrentIsOpen' /\ PostingsAsWritten' /\ BeforeLoop'
  BY LoopKeepsReading DEF EncryptWord
<1>2. Visited' = Visited \cup {k} /\ k \notin Visited
  BY <1>0 DEF Visited
<1>3. Range(cipherWordList') = Range(cipherWordList) \cup {CipherWord(k)}
  BY <1>0, RangeAppend
<1>4. Range(cipherWordList) = {CipherWord(x) : x \in Visited}
  BY <1>0 DEF IInv, ListIsVisited
<1>5. CipherWord(k) \notin Range(cipherWordList)
  BY <1>2, <1>4, CipherFacts
<1>6. TypeOK'
  <2>1. TypeOK /\ UNCHANGED <<file, at, currentWord>>
    BY DEF IInv, EncryptWord
  <2>2. cipherWordList' \in Seq({CipherWord(x) : x \in Name})
    BY <1>0
  <2> QED
    BY <1>0, <2>1, <2>2 DEF TypeOK
<1>7. NeverEmpty' /\ ReadyIsAll'
  BY <1>0 DEF IInv, NeverEmpty, ReadyIsAll
<1>8. ListIsVisited'
  BY <1>2, <1>3, <1>4 DEF ListIsVisited
<1>9. wordMap[k] \in Seq(Number)
  BY DEF IInv, TypeOK
<1>10. InEntry'
  BY <1>0, <1>2, <1>9 DEF InEntry
<1>11. DOMAIN cipher_wordMap = Range(cipherWordList)
  BY <1>0 DEF IInv, ListMatchesMap
<1>12. Encrypted'
  <2>1. CipherWord(k) \notin DOMAIN cipher_wordMap
    BY <1>5, <1>11
  <2>2. \A x \in Visited : Done(x)' = Done(x)
    BY <1>0, <1>2 DEF Done
  <2> QED
    BY <1>0, <1>2, <2>1, <2>2 DEF IInv, Encrypted
<1>13. ListMatchesMap'
  <2>1. DOMAIN cipher_wordMap' =
          Range(cipherWordList') \ (IF pc' = "numbers" /\ numAt' = 0 THEN {CipherWord(entry')} ELSE {})
    BY <1>0, <1>3, <1>5, <1>11
  <2>2. \A a, b \in DOMAIN cipherWordList : cipherWordList[a] = cipherWordList[b] => a = b
    BY DEF IInv, ListMatchesMap
  <2>3. \A a \in DOMAIN cipherWordList : cipherWordList[a] # CipherWord(k)
    BY <1>5 DEF Range
  <2>4. \A a, b \in DOMAIN cipherWordList' : cipherWordList'[a] = cipherWordList'[b] => a = b
    BY <1>0, <2>2, <2>3
  <2>5. CipherWord(entry)' = CipherWord(entry')
    BY DEF CipherWord, Enc
  <2> QED
    BY <2>1, <2>4, <2>5 DEF ListMatchesMap
<1> QED
  BY <1>1, <1>6, <1>7, <1>8, <1>10, <1>12, <1>13 DEF IInv

LEMMA EncryptNumberInv == IInv /\ EncryptNumber => IInv'
<1> SUFFICES ASSUME IInv, EncryptNumber PROVE IInv'
  OBVIOUS
<1> DEFINE c == CipherWord(entry)
           d == CipherNumber(wordMap[entry][numAt + 1])
           S == {CipherNumber(x) : x \in Number}
<1>0. /\ pc = "numbers" /\ pc' = pc /\ entry' = entry /\ entry \in Visited
      /\ entry \in DOMAIN wordMap /\ entry \in Name
      /\ numAt \in Nat /\ numAt < Len(wordMap[entry]) /\ numAt' = numAt + 1
      /\ wordMap[entry] \in Seq(Number)
      /\ wordMap' = wordMap /\ unread' = unread /\ cipherWordList' = cipherWordList
      /\ cipher_wordMap' = WithNumber(cipher_wordMap, c, d)
  BY DEF IInv, InEntry, Visited, EncryptNumber, TypeOK
<1>1. CurrentIsOpen' /\ PostingsAsWritten' /\ BeforeLoop'
  BY <1>0, LoopKeepsReading DEF EncryptNumber
<1>2. d \in S
  BY <1>0
<1>3. /\ DOMAIN cipher_wordMap' = DOMAIN cipher_wordMap \cup {c}
      /\ \A x \in DOMAIN cipher_wordMap \ {c} : cipher_wordMap'[x] = cipher_wordMap[x]
  <2> HIDE DEF c, d
  <2> QED
    BY <1>0 DEF WithNumber
<1>4. /\ Len(cipher_wordMap'[c]) = numAt + 1
      /\ \A e \in 1..(numAt + 1) : cipher_wordMap'[c][e] = CipherNumber(wordMap[entry][e])
      /\ cipher_wordMap'[c] \in Seq(S) \ {<<>>}
  <2>1. CASE c \in DOMAIN cipher_wordMap
    <3>1. /\ cipher_wordMap[c] \in Seq(S)
          /\ Len(cipher_wordMap[c]) = numAt
          /\ \A e \in 1..numAt : cipher_wordMap[c][e] = CipherNumber(wordMap[entry][e])
      BY <1>0, <2>1 DEF IInv, Encrypted, Done, TypeOK
    <3>2. cipher_wordMap'[c] = Append(cipher_wordMap[c], d)
      <4> HIDE DEF c, d
      <4> QED
        BY <1>0, <2>1 DEF WithNumber
    <3>3. /\ cipher_wordMap'[c] \in Seq(S) \ {<<>>}
          /\ Len(cipher_wordMap'[c]) = numAt + 1
          /\ \A e \in 1..numAt : cipher_wordMap'[c][e] = CipherNumber(wordMap[entry][e])
          /\ cipher_wordMap'[c][numAt + 1] = d
      <4> HIDE DEF c, d, S
      <4> QED
        BY <1>2, <3>1, <3>2, AppendFacts
    <3>4. 1..(numAt + 1) = (1..numAt) \cup {numAt + 1}
      BY <1>0
    <3> HIDE DEF c, S
    <3> QED
      BY <3>3, <3>4
  <2>2. CASE c \notin DOMAIN cipher_wordMap
    <3>1. numAt = 0
      <4>1. c \in Range(cipherWordList)
        BY <1>0 DEF IInv, ListIsVisited
      <4> QED
        BY <1>0, <2>2, <4>1 DEF IInv, ListMatchesMap
    <3>2. cipher_wordMap'[c] = <<d>>
      <4> HIDE DEF c, d
      <4> QED
        BY <1>0, <2>2 DEF WithNumber
    <3>3. /\ cipher_wordMap'[c] \in Seq(S) \ {<<>>}
          /\ Len(cipher_wordMap'[c]) = 1
          /\ cipher_wordMap'[c][1] = d
      <4> HIDE DEF c, d, S
      <4> QED
        BY <1>2, <3>2
    <3>4. 1..(numAt + 1) = {1} /\ numAt + 1 = 1
      BY <3>1
    <3> HIDE DEF c, S
    <3> QED
      BY <3>3, <3>4
  <2> QED
    BY <2>1, <2>2
<1>5. TypeOK'
  <2>1. c \in {CipherWord(k) : k \in Name}
    BY <1>0
  <2>2. \A x \in DOMAIN cipher_wordMap' : cipher_wordMap'[x] \in Seq(S)
    BY <1>3, <1>4 DEF IInv, TypeOK
  <2>3. DOMAIN cipher_wordMap' \subseteq {CipherWord(k) : k \in Name}
    BY <1>3, <2>1 DEF IInv, TypeOK
  <2> QED
    BY <1>0, <2>2, <2>3 DEF IInv, TypeOK, EncryptNumber
<1>6. NeverEmpty'
  BY <1>0, <1>3, <1>4 DEF IInv, NeverEmpty
<1>7. Visited' = Visited
  BY <1>0 DEF Visited
<1>8. ListIsVisited' /\ InEntry' /\ ReadyIsAll'
  BY <1>0, <1>7 DEF IInv, ListIsVisited, InEntry, ReadyIsAll
<1>9. Encrypted'
  <2>1. ASSUME NEW k \in Visited, CipherWord(k) \in DOMAIN cipher_wordMap'
        PROVE  /\ Len(cipher_wordMap'[CipherWord(k)]) = Done(k)'
               /\ \A e \in 1..Done(k)' :
                    cipher_wordMap'[CipherWord(k)][e] = CipherNumber(wordMap[k][e])
    <3>1. CASE k = entry
      <4>1. Done(k)' = numAt + 1
        BY <1>0, <3>1 DEF Done
      <4> QED
        BY <1>4, <3>1, <4>1
    <3>2. CASE k # entry
      <4>1. CipherWord(k) # c
        BY <3>2, CipherFacts
      <4>2. Done(k)' = Done(k)
        BY <1>0, <3>2 DEF Done
      <4> QED
        BY <1>0, <1>3, <2>1, <4>1, <4>2 DEF IInv, Encrypted
    <3> QED
      BY <3>1, <3>2
  <2> QED
    BY <1>0, <1>7, <2>1 DEF Encrypted
<1>10. ListMatchesMap'
  <2>1. c \in Range(cipherWordList)
    BY <1>0 DEF IInv, ListIsVisited
  <2> QED
    BY <1>0, <1>3, <2>1 DEF IInv, ListMatchesMap
<1> QED
  BY <1>1, <1>5, <1>6, <1>8, <1>9, <1>10 DEF IInv

LEMMA NextWordInv == IInv /\ NextWord => IInv'
<1> SUFFICES ASSUME IInv, NextWord PROVE IInv'
  OBVIOUS
<1>0. /\ pc = "numbers" /\ pc' = "words" /\ numAt = Len(wordMap[entry])
      /\ wordMap' = wordMap /\ unread' = unread /\ entry' = entry /\ numAt' = numAt
      /\ cipherWordList' = cipherWordList /\ cipher_wordMap' = cipher_wordMap
      /\ entry \in DOMAIN wordMap /\ wordMap[entry] \in Seq(Number) \ {<<>>}
  BY DEF IInv, NextWord, InEntry, Visited, TypeOK, NeverEmpty
<1>1. CurrentIsOpen' /\ PostingsAsWritten' /\ BeforeLoop'
  BY <1>0, LoopKeepsReading DEF NextWord
<1>2. TypeOK' /\ NeverEmpty' /\ InEntry' /\ ReadyIsAll'
  BY <1>0 DEF IInv, TypeOK, NeverEmpty, InEntry, ReadyIsAll, NextWord
<1>3. Visited' = Visited /\ \A k : Done(k)' = Done(k)
  BY <1>0 DEF Visited, Done
<1>4. ListIsVisited' /\ Encrypted'
  BY <1>0, <1>3 DEF IInv, ListIsVisited, Encrypted
<1>5. numAt # 0
  BY <1>0
<1>6. ListMatchesMap'
  BY <1>0, <1>5 DEF IInv, ListMatchesMap
<1> QED
  BY <1>1, <1>2, <1>4, <1>6 DEF IInv

LEMMA ReadyInv == IInv /\ Ready => IInv'
<1> SUFFICES ASSUME IInv, Ready PROVE IInv'
  OBVIOUS
<1>1. CurrentIsOpen' /\ PostingsAsWritten' /\ BeforeLoop'
  BY LoopKeepsReading DEF Ready
<1>2. TypeOK' /\ NeverEmpty' /\ InEntry' /\ ReadyIsAll'
  BY DEF IInv, TypeOK, NeverEmpty, InEntry, ReadyIsAll, Ready
<1>3. Visited' = Visited /\ \A k : Done(k)' = Done(k)
  BY DEF Visited, Done, Ready
<1>4. ListIsVisited' /\ Encrypted' /\ ListMatchesMap'
  BY <1>3 DEF IInv, ListIsVisited, Encrypted, ListMatchesMap, Ready
<1> QED
  BY <1>1, <1>2, <1>4 DEF IInv

LEMMA StutterInv == IInv /\ UNCHANGED vars => IInv'
<1> SUFFICES ASSUME IInv, UNCHANGED vars PROVE IInv'
  OBVIOUS
<1>1. \A k : NumbersOf(k)' = NumbersOf(k) /\ Done(k)' = Done(k)
  BY DEF vars, NumbersOf, Under, Done
<1>2. \A k : Under(at + 1, k)' = Under(at + 1, k)
  BY DEF vars, Under
<1>3. Visited' = Visited
  BY DEF vars, Visited
<1>4. CurrentIsOpen' /\ PostingsAsWritten' /\ BeforeLoop'
  BY <1>1, <1>2 DEF IInv, vars, CurrentIsOpen, PostingsAsWritten, BeforeLoop
<1>5. TypeOK' /\ NeverEmpty' /\ InEntry' /\ ReadyIsAll'
  BY <1>3 DEF IInv, vars, TypeOK, NeverEmpty, InEntry, ReadyIsAll
<1>6. ListIsVisited' /\ Encrypted' /\ ListMatchesMap'
  BY <1>1, <1>3 DEF IInv, vars, ListIsVisited, Encrypted, ListMatchesMap
<1> QED
  BY <1>4, <1>5, <1>6 DEF IInv

LEMMA StepInv == IInv /\ [Next]_vars => IInv'
BY ReadWordInv, ReadNumberInv, ReturnInv, EncryptWordInv, EncryptNumberInv, NextWordInv,
   ReadyInv, StutterInv DEF Next, Listening

LEMMA Invariance == Spec => []IInv
BY InitInv, StepInv, PTL DEF Spec

LEMMA InvServiceMayStart == IInv => ServiceMayStart
<1>1. ASSUME IInv, pc = "ready" PROVE ServiceMayStart
  <2>1. Visited = DOMAIN wordMap
    BY <1>1 DEF IInv, ReadyIsAll, Visited
  <2>2. /\ DOMAIN cipher_wordMap = Range(cipherWordList)
        /\ Range(cipherWordList) = {CipherWord(k) : k \in DOMAIN wordMap}
    BY <1>1, <2>1 DEF IInv, ListMatchesMap, ListIsVisited
  <2>3. cipherWordList \in [DOMAIN cipherWordList -> Range(cipherWordList)]
    BY <1>1 DEF IInv, TypeOK, Range
  <2>4. \A a, b \in DOMAIN cipherWordList : cipherWordList[a] = cipherWordList[b] => a = b
    BY <1>1 DEF IInv, ListMatchesMap
  <2>5. cipherWordList \in Bijection(DOMAIN cipherWordList, DOMAIN cipher_wordMap)
    BY <2>2, <2>3, <2>4 DEF Bijection, Injection, Surjection, IsInjective, Range
  <2>6. ASSUME NEW k \in DOMAIN wordMap
        PROVE  /\ Len(cipher_wordMap[CipherWord(k)]) = Len(wordMap[k])
               /\ \A d \in DOMAIN wordMap[k] :
                    cipher_wordMap[CipherWord(k)][d] = CipherNumber(wordMap[k][d])
    <3>1. Done(k) = Len(wordMap[k]) /\ wordMap[k] \in Seq(Number)
      BY <1>1 DEF Done, IInv, TypeOK
    <3>2. CipherWord(k) \in DOMAIN cipher_wordMap
      BY <2>2
    <3> QED
      BY <1>1, <2>1, <3>1, <3>2 DEF IInv, Encrypted
  <2> QED
    BY <2>2, <2>5, <2>6 DEF ServiceMayStart
<1> QED
  BY <1>1 DEF ServiceMayStart

-----------------------------------------------------------------------------
(* Theorems, for index files of any length and any number of keywords.     *)

\* The variables of initialzie keep their types.
THEOREM IndexTypeOK == Spec => []TypeOK
<1>1. IInv => TypeOK
  BY DEF IInv
<1> QED
  BY Invariance, <1>1, PTL

\* readFile gathers exactly the numbers under each keyword, in order
\* (Index.h:193-226), whatever the lines are.
THEOREM IndexPostings == Spec => []PostingsAsWritten
<1>1. IInv => PostingsAsWritten
  BY DEF IInv
<1> QED
  BY Invariance, <1>1, PTL

\* No keyword of the index has an empty list: what the search service assumes
\* of its index and the lookup of server.cpp:410 relies on.
THEOREM IndexNeverEmpty == Spec => []NeverEmpty
<1>1. IInv => NeverEmpty
  BY DEF IInv
<1> QED
  BY Invariance, <1>1, PTL

\* The list and the map that the two loops of Index.h:111-162 fill side by side
\* never disagree by more than the keyword being filled.
THEOREM IndexListMatchesMap == Spec => []ListMatchesMap
<1>1. IInv => ListMatchesMap
  BY DEF IInv
<1> QED
  BY Invariance, <1>1, PTL

\* The server starts from the state the search service is specified from: the
\* list is a bijection onto the keys, and every list is encrypted in full.
THEOREM IndexServiceMayStart == Spec => []ServiceMayStart
BY Invariance, InvServiceMayStart, PTL

-----------------------------------------------------------------------------
(* Induction over the natural numbers.                                     *)

\* A set that holds zero and with every number the next one holds them all: the
\* least number it does not hold would be neither.
LEMMA Induction ==
  ASSUME NEW S, 0 \in S, \A n \in Nat : n \in S => n + 1 \in S
  PROVE  Nat \subseteq S
<1> DEFINE R == {p \in Nat \X Nat : p[1] < p[2]}
           T == Nat \ S
<1> SUFFICES ASSUME T # {} PROVE FALSE
  OBVIOUS
<1>1. IsWellFoundedOn(R, Nat)
  BY NatLessThanWellFounded DEF OpToRel
<1>2. \A x, y \in Nat : y < x => <<y, x>> \in R
  OBVIOUS
<1>3. T \subseteq Nat
  OBVIOUS
<1> HIDE DEF R, T
<1>4. PICK x \in T : \A y \in T : ~(<<y, x>> \in R)
  BY <1>1, <1>3, WFMin
<1>5. \A y \in T : y \in Nat /\ x \in Nat /\ ~(y < x)
  BY <1>2, <1>3, <1>4
<1>6. x # 0 /\ x - 1 \in Nat /\ x - 1 \notin T /\ (x - 1) + 1 = x
  BY <1>4, <1>5 DEF T
<1> QED
  BY <1>4, <1>6 DEF T

-----------------------------------------------------------------------------
(* Lists in increasing order.                                              *)

Increasing(s) == \A a, b \in DOMAIN s : a < b => s[a] < s[b]

\* The elements of a set of numbers below m can be put in order: by induction on m,
\* the greatest of them comes last.
LEMMA InOrder ==
  ASSUME NEW m \in Nat, NEW S \in SUBSET (0..(m - 1))
  PROVE  \E s \in [1..Cardinality(S) -> S] : Increasing(s)
<1> DEFINE Q == {k \in Nat : \A T \in SUBSET (0..(k - 1)) :
                               \E s \in [1..Cardinality(T) -> T] : Increasing(s)}
<1>1. 0 \in Q
  <2> SUFFICES ASSUME NEW T \in SUBSET (0..(0 - 1))
               PROVE  \E s \in [1..Cardinality(T) -> T] : Increasing(s)
    OBVIOUS
  <2>1. T = {} /\ Cardinality(T) = 0
    <3>1. T = {}
      OBVIOUS
    <3> QED
      BY <3>1, FS_EmptySet
  <2>2. 1..Cardinality(T) = {}
    BY <2>1
  <2> DEFINE s == [x \in {} |-> 0]
  <2>3. s \in [{} -> T] /\ DOMAIN s = {}
    OBVIOUS
  <2> HIDE DEF s
  <2>4. Increasing(s)
    BY <2>3 DEF Increasing
  <2> QED
    BY <2>2, <2>3, <2>4
<1>2. ASSUME NEW k \in Nat, k \in Q PROVE k + 1 \in Q
  <2> SUFFICES ASSUME NEW T \in SUBSET (0..((k + 1) - 1))
               PROVE  \E s \in [1..Cardinality(T) -> T] : Increasing(s)
    OBVIOUS
  <2> DEFINE B == T \ {k}
             n == Cardinality(B)
  <2>1. B \in SUBSET (0..(k - 1)) /\ \A x \in B : x \in Nat /\ x < k
    OBVIOUS
  <2>2. IsFiniteSet(T) /\ IsFiniteSet(B) /\ n \in Nat
    <3>1. IsFiniteSet(0..((k + 1) - 1))
      BY FS_Interval
    <3> QED
      BY <3>1, FS_Subset, FS_CardinalityType
  <2>3. PICK s \in [1..n -> B] : Increasing(s)
    BY <1>2, <2>1
  <2>4. CASE k \notin T
    BY <2>3, <2>4
  <2>5. CASE k \in T
    <3> DEFINE l == [x \in 1..(n + 1) |-> IF x <= n THEN s[x] ELSE k]
    <3>1. Cardinality(T) = n + 1
      <4>1. T = B \cup {k} /\ k \notin B
        BY <2>5
      <4> HIDE DEF B
      <4> QED
        BY <2>2, <4>1, FS_AddElement
    <3> HIDE DEF B, n
    <3>2. l \in [1..(n + 1) -> T]
      BY <2>2, <2>3, <2>5 DEF B
    <3>3. Increasing(l)
      <4> SUFFICES ASSUME NEW a \in 1..(n + 1), NEW b \in 1..(n + 1), a < b
                   PROVE  l[a] < l[b]
        BY DEF Increasing
      <4>1. a \in 1..n /\ l[a] = s[a] /\ s[a] \in B
        BY <2>2, <2>3
      <4>2. CASE b <= n
        <5>1. b \in 1..n /\ l[b] = s[b] /\ DOMAIN s = 1..n
          BY <2>2, <2>3, <4>2
        <5> HIDE DEF l
        <5> QED
          BY <2>3, <4>1, <5>1 DEF Increasing
      <4>3. CASE ~ (b <= n)
        BY <2>1, <4>1, <4>3
      <4> QED
        BY <4>2, <4>3
    <3> QED
      BY <3>1, <3>2, <3>3
  <2> QED
    BY <2>4, <2>5
<1> HIDE DEF Q
<1>3. m \in Q
  BY <1>1, <1>2, Induction
<1> QED
  BY <1>3 DEF Q

LEMMA ListIsSeq ==
  ASSUME NEW S, NEW l \in Nat, NEW s \in [1..l -> S]
  PROVE  s \in Seq(S) /\ Len(s) = l
OBVIOUS

\* The list a script makes of the numbers it draws, which are some.
LEMMA SortedIs ==
  ASSUME NEW n \in Nat \ {0}, NEW files \in [1..n -> 0..num_files]
  PROVE  Sorted(files) \in Seq(0..num_files) \ {<<>>} /\ Increasing(Sorted(files))
<1> DEFINE S == Range(files)
           l == Cardinality(S)
           m == num_files + 1
<1>1. m \in Nat /\ S \in SUBSET (0..(m - 1)) /\ S \in SUBSET (0..num_files) /\ S # {}
  <2>1. num_files \in Nat
    BY DocumentsAssumption
  <2>2. m \in Nat /\ m - 1 = num_files
    BY <2>1
  <2>3. S \in SUBSET (0..num_files) /\ files[1] \in S
    BY DEF Range
  <2> QED
    BY <2>2, <2>3
<1>2. l \in Nat /\ l # 0
  <2>1. IsFiniteSet(S)
    <3>1. IsFiniteSet(0..num_files)
      BY DocumentsAssumption, FS_Interval
    <3> QED
      BY <1>1, <3>1, FS_Subset
  <2> QED
    BY <1>1, <2>1, FS_CardinalityType, FS_EmptySet
<1>3. Sorted(files) = CHOOSE s \in [1..l -> S] : Increasing(s)
  BY DEF Sorted, Increasing
<1> HIDE DEF S, l, m
<1>4. \E s \in [1..Cardinality(S) -> S] : Increasing(s)
  BY <1>1, InOrder
<1>5. Sorted(files) \in [1..l -> S] /\ Increasing(Sorted(files))
  BY <1>3, <1>4 DEF l
<1> HIDE DEF Increasing
<1>6. Sorted(files) \in [1..l -> 0..num_files]
  BY <1>1, <1>5
<1>7. Sorted(files) \in Seq(0..num_files) /\ Len(Sorted(files)) = l
  BY <1>2, <1>6, ListIsSeq
<1> QED
  BY <1>2, <1>5, <1>7

-----------------------------------------------------------------------------
(* Sequences put together, one after the other.                            *)

\* The first n sequences of ss.
Flattening(f, ss, n) == f = [i \in 1..n |-> IF i = 1 THEN ss[i] ELSE f[i - 1] \o ss[i]]

\* There is such a function: by induction on n.
LEMMA FlatteningExists ==
  ASSUME NEW n \in Nat, NEW ss
  PROVE  \E f : Flattening(f, ss, n)
<1> DEFINE Q == {m \in Nat : \E f : Flattening(f, ss, m)}
<1>1. 0 \in Q
  <2>1. Flattening([i \in {} |-> 0], ss, 0)
    BY DEF Flattening
  <2> QED
    BY <2>1
<1>2. ASSUME NEW m \in Nat, m \in Q PROVE m + 1 \in Q
  <2>1. PICK f : Flattening(f, ss, m)
    BY <1>2
  <2> DEFINE last == IF m = 0 THEN ss[1] ELSE f[m] \o ss[m + 1]
             g == [i \in 1..(m + 1) |-> IF i <= m THEN f[i] ELSE last]
  <2>2. \A i \in 1..m : f[i] = IF i = 1 THEN ss[i] ELSE f[i - 1] \o ss[i]
    BY <2>1 DEF Flattening
  <2>3. ASSUME NEW i \in 1..(m + 1)
        PROVE  g[i] = IF i = 1 THEN ss[i] ELSE g[i - 1] \o ss[i]
    <3>1. CASE i <= m
      <4>1. i \in 1..m /\ g[i] = f[i] /\ (i # 1 => g[i - 1] = f[i - 1])
        BY <3>1
      <4> QED
        BY <2>2, <4>1
    <3>2. CASE ~ (i <= m)
      <4>1. i = m + 1 /\ g[i] = last /\ (i = 1 <=> m = 0) /\ (i # 1 => g[i - 1] = f[m])
        BY <3>2
      <4> QED
        BY <4>1
    <3> QED
      BY <3>1, <3>2
  <2>4. g = [i \in 1..(m + 1) |-> g[i]]
    OBVIOUS
  <2> HIDE DEF g
  <2>5. Flattening(g, ss, m + 1)
    BY <2>3, <2>4 DEF Flattening
  <2> QED
    BY <2>5
<1> HIDE DEF Q
<1>3. n \in Q
  BY <1>1, <1>2, Induction
<1> QED
  BY <1>3 DEF Q

\* FlattenSeq is the last value of such a function.
LEMMA FlattenIsLast ==
  ASSUME NEW ss, Len(ss) \in Nat, Len(ss) # 0
  PROVE  \E f : Flattening(f, ss, Len(ss)) /\ FlattenSeq(ss) = f[Len(ss)]
<1> DEFINE n == Len(ss)
           g == CHOOSE h : h = [i \in 1..n |-> IF i = 1 THEN ss[i] ELSE h[i - 1] \o ss[i]]
<1>1. g = [i \in 1..n |-> IF i = 1 THEN ss[i] ELSE g[i - 1] \o ss[i]]
  BY FlatteningExists DEF Flattening
<1>2. FlattenSeq(ss) = g[n]
  BY DEF FlattenSeq
<1> HIDE DEF g
<1>3. Flattening(g, ss, n)
  BY <1>1 DEF Flattening
<1> QED
  BY <1>2, <1>3

\* Where sequence i begins.
Before(f, i) == IF i = 1 THEN 0 ELSE Len(f[i - 1])

\* The first n sequences of ss follow each other in s from these places, and nothing
\* else is in s.
LaidOut(s, f, ss, n) ==
  /\ \A i \in 1..n : \A j \in 1..Len(ss[i]) : s[Before(f, i) + j] = ss[i][j]
  /\ \A p \in 1..Len(s) : \E i \in 1..n : \E j \in 1..Len(ss[i]) : p = Before(f, i) + j

\* By induction on n.
LEMMA FlatteningLaidOut ==
  ASSUME NEW S, NEW n \in Nat \ {0}, NEW ss, \A i \in 1..n : ss[i] \in Seq(S),
         NEW f, Flattening(f, ss, n)
  PROVE  /\ f[n] \in Seq(S) /\ LaidOut(f[n], f, ss, n)
         /\ \A i \in 1..n : Before(f, i) \in Nat /\ Before(f, i) + Len(ss[i]) <= Len(f[n])
<1> DEFINE Q == {m \in Nat : m \in 1..n =>
                   /\ f[m] \in Seq(S) /\ LaidOut(f[m], f, ss, m)
                   /\ \A i \in 1..m : Before(f, i) \in Nat /\ Before(f, i) + Len(ss[i]) <= Len(f[m])}
<1>0. \A i \in 1..n : f[i] = IF i = 1 THEN ss[i] ELSE f[i - 1] \o ss[i]
  BY DEF Flattening
<1>1. 0 \in Q
  OBVIOUS
<1>2. ASSUME NEW m \in Nat, m \in Q PROVE m + 1 \in Q
  <2> SUFFICES ASSUME m + 1 \in 1..n
               PROVE  /\ f[m + 1] \in Seq(S) /\ LaidOut(f[m + 1], f, ss, m + 1)
                      /\ \A i \in 1..(m + 1) :
                           Before(f, i) \in Nat /\ Before(f, i) + Len(ss[i]) <= Len(f[m + 1])
    OBVIOUS
  <2>1. ss[m + 1] \in Seq(S)
    OBVIOUS
  <2>2. CASE m = 0
    <3>1. f[m + 1] = ss[1] /\ m + 1 = 1 /\ Before(f, 1) = 0 /\ ss[1] \in Seq(S)
      BY <1>0, <2>1, <2>2 DEF Before
    <3>2. LaidOut(ss[1], f, ss, 1)
      BY <3>1 DEF LaidOut
    <3> QED
      BY <3>1, <3>2
  <2>3. CASE m # 0
    <3> DEFINE s == f[m]
               t == ss[m + 1]
               r == f[m + 1]
    <3>1. m \in 1..n /\ (m + 1) - 1 = m /\ m + 1 # 1
      BY <2>3
    <3>2. r = s \o t /\ Before(f, m + 1) = Len(s)
      BY <1>0, <3>1 DEF Before
    <3>3. /\ s \in Seq(S) /\ LaidOut(s, f, ss, m)
          /\ \A i \in 1..m : Before(f, i) \in Nat /\ Before(f, i) + Len(ss[i]) <= Len(s)
      BY <1>2, <3>1
    <3> HIDE DEF s, r
    <3>4. /\ r \in Seq(S) /\ Len(r) = Len(s) + Len(t) /\ Len(s) \in Nat /\ Len(t) \in Nat
          /\ \A j \in 1..Len(s) : r[j] = s[j]
          /\ \A j \in 1..Len(t) : r[Len(s) + j] = t[j]
      <4> HIDE DEF t
      <4> QED
        BY <2>1, <3>2, <3>3 DEF t
    <3>5. ASSUME NEW i \in 1..m
          PROVE  Before(f, i) \in Nat /\ Before(f, i) + Len(ss[i]) <= Len(r)
      <4>1. ss[i] \in Seq(S) /\ Len(ss[i]) \in Nat
        BY <3>1
      <4> HIDE DEF t
      <4> QED
        BY <3>3, <3>4, <4>1
    <3>6. Before(f, m + 1) \in Nat /\ Before(f, m + 1) + Len(ss[m + 1]) <= Len(r)
      BY <3>2, <3>4
    <3>7. ASSUME NEW i \in 1..(m + 1), NEW j \in 1..Len(ss[i])
          PROVE  r[Before(f, i) + j] = ss[i][j]
      <4>1. CASE i \in 1..m
        <5>1. ss[i] \in Seq(S) /\ Len(ss[i]) \in Nat
          BY <3>1, <4>1
        <5>2. Before(f, i) \in Nat /\ Before(f, i) + Len(ss[i]) <= Len(s) /\ Len(s) \in Nat
          BY <3>3, <3>4, <4>1
        <5>3. Before(f, i) + j \in 1..Len(s)
          <6> HIDE DEF t
          <6> QED
            BY <5>1, <5>2
        <5> QED
          BY <3>3, <3>4, <4>1, <5>3 DEF LaidOut
      <4>2. CASE i \notin 1..m
        <5>1. i = m + 1
          BY <4>2
        <5> QED
          BY <3>2, <3>4, <5>1
      <4> QED
        BY <4>1, <4>2
    <3>8. ASSUME NEW p \in 1..Len(r)
          PROVE  \E i \in 1..(m + 1) : \E j \in 1..Len(ss[i]) : p = Before(f, i) + j
      <4>1. CASE p <= Len(s)
        <5>1. p \in 1..Len(s)
          BY <3>4, <4>1
        <5>2. PICK i \in 1..m : \E j \in 1..Len(ss[i]) : p = Before(f, i) + j
          BY <3>3, <5>1 DEF LaidOut
        <5>3. i \in 1..(m + 1)
          OBVIOUS
        <5> QED
          BY <5>2, <5>3
      <4>2. CASE ~ (p <= Len(s))
        <5>1. p - Len(s) \in 1..Len(t) /\ p = Len(s) + (p - Len(s))
          <6> HIDE DEF t
          <6> QED
            BY <3>4, <4>2
        <5>2. m + 1 \in 1..(m + 1)
          OBVIOUS
        <5> QED
          BY <3>2, <5>1, <5>2
      <4> QED
        BY <4>1, <4>2
    <3>9. LaidOut(r, f, ss, m + 1)
      BY <3>7, <3>8 DEF LaidOut
    <3>10. ASSUME NEW i \in 1..(m + 1)
           PROVE  Before(f, i) \in Nat /\ Before(f, i) + Len(ss[i]) <= Len(r)
      BY <3>5, <3>6
    <3> QED
      BY <3>4, <3>9, <3>10 DEF r
  <2> QED
    BY <2>2, <2>3
<1> HIDE DEF Q
<1>3. n \in Q
  BY <1>1, <1>2, Induction
<1> QED
  BY <1>3 DEF Q

-----------------------------------------------------------------------------
(* The file a script writes.                                               *)

\* The keys of the table are the keywords, each once; their lists are in order.
TableOK ==
  /\ keywords \in Seq(Name)
  /\ \A a, b \in DOMAIN keywords : keywords[a] = keywords[b] => a = b
  /\ DOMAIN index_table = Range(keywords)
  /\ index_table = [k \in DOMAIN index_table |-> index_table[k]]
  /\ \A k \in DOMAIN index_table :
       index_table[k] \in Seq(0..num_files) \ {<<>>} /\ Increasing(index_table[k])

Entries == [n \in DOMAIN keywords |-> EntryLines(keywords[n])]

WordLine(k) == [kind |-> "word", text |-> k]
NumberLine(d) == [kind |-> "number", text |-> d]
CloseLine == [kind |-> "close"]

LEMMA LinesAre ==
  /\ \A k \in Name : WordLine(k) \in Line
  /\ \A d \in (0..num_files) \cup {NoText} : NumberLine(d) \in Line
  /\ CloseLine \in Line
BY DocumentsAssumption DEF Line, WordLine, NumberLine, CloseLine

LEMMA SeqFacts ==
  ASSUME NEW S, NEW s \in Seq(S)
  PROVE  Len(s) \in Nat /\ DOMAIN s = 1..Len(s) /\ \A i \in 1..Len(s) : s[i] \in S
OBVIOUS

\* r is s and then t.
Joins(r, s, t) ==
  /\ Len(r) = Len(s) + Len(t)
  /\ \A i \in 1..Len(s) : r[i] = s[i]
  /\ \A i \in 1..Len(t) : r[Len(s) + i] = t[i]

LEMMA ConcatFacts ==
  ASSUME NEW S, NEW s \in Seq(S), NEW t \in Seq(S)
  PROVE  s \o t \in Seq(S) /\ Joins(s \o t, s, t)
BY DEF Joins

LEMMA EntryLinesAre ==
  ASSUME NEW k \in Name, NEW l, l = index_table[k], l \in Seq(0..num_files)
  PROVE  /\ EntryLines(k) \in Seq(Line) /\ Len(EntryLines(k)) = Len(l) + 2
         /\ EntryLines(k)[1] = WordLine(k)
         /\ \A i \in 1..Len(l) : EntryLines(k)[1 + i] = NumberLine(l[i])
         /\ EntryLines(k)[Len(l) + 2] = CloseLine
<1> DEFINE m == Len(l)
           w == <<WordLine(k)>>
           c == <<CloseLine>>
           d == [i \in 1..m |-> NumberLine(l[i])]
<1>1. m \in Nat /\ DOMAIN l = 1..m /\ \A i \in 1..m : l[i] \in 0..num_files
  BY SeqFacts
<1>2. /\ w \in Seq(Line) /\ Len(w) = 1 /\ w[1] = WordLine(k)
      /\ c \in Seq(Line) /\ Len(c) = 1 /\ c[1] = CloseLine
  BY LinesAre
<1>3. d \in [1..m -> Line] /\ \A i \in 1..m : d[i] = NumberLine(l[i])
  BY <1>1, LinesAre
<1>4. EntryLines(k) = w \o d \o c
  BY <1>1 DEF EntryLines, Opening, NumberLines, Closing, WordLine, NumberLine, CloseLine
<1> HIDE DEF m, w, c, d
<1>5. d \in Seq(Line) /\ Len(d) = m
  BY <1>1, <1>3, ListIsSeq
<1>6. w \o d \in Seq(Line) /\ Joins(w \o d, w, d)
  BY <1>2, <1>5, ConcatFacts
<1> DEFINE s == w \o d
<1>7. EntryLines(k) = s \o c
  BY <1>4
<1> HIDE DEF s
<1>8. s \o c \in Seq(Line) /\ Joins(s \o c, s, c)
  <2>1. s \in Seq(Line)
    BY <1>6 DEF s
  <2> QED
    BY <1>2, <2>1, ConcatFacts
<1> DEFINE e == s \o c
<1>9. Len(s) = 1 + m /\ s[1] = w[1] /\ \A i \in 1..m : s[1 + i] = d[i]
  <2>1. Joins(s, w, d)
    BY <1>6 DEF s
  <2> QED
    BY <1>1, <1>2, <1>5, <2>1 DEF Joins
<1>10. /\ Len(e) = m + 2 /\ e[1] = w[1] /\ e[m + 2] = c[1]
       /\ \A i \in 1..m : e[1 + i] = d[i]
  <2>1. Joins(e, s, c)
    BY <1>8
  <2> HIDE DEF e
  <2>2. /\ 1 \in 1..Len(s) /\ Len(s) + 1 = m + 2 /\ 1 \in 1..Len(c)
        /\ \A i \in 1..m : 1 + i \in 1..Len(s)
    BY <1>1, <1>2, <1>9
  <2>3. e[Len(s) + 1] = c[1] /\ e[1] = s[1] /\ \A i \in 1..m : e[1 + i] = s[1 + i]
    BY <2>1, <2>2 DEF Joins
  <2>4. Len(e) = Len(s) + 1
    BY <1>2, <2>1 DEF Joins
  <2> QED
    BY <1>1, <1>9, <2>2, <2>3, <2>4
<1>11. EntryLines(k) = e /\ e \in Seq(Line)
  BY <1>7, <1>8
<1> HIDE DEF e
<1> QED
  BY <1>2, <1>3, <1>10, <1>11 DEF m

\* The lines of keyword k are in the file behind line o.
EntryAt(o, k) ==
  LET l == index_table[k] IN
  /\ o \in Nat /\ o + Len(l) + 2 <= Len(file)
  /\ file[o + 1] = WordLine(k)
  /\ \A i \in 1..Len(l) : file[o + 1 + i] = NumberLine(l[i])
  /\ file[o + Len(l) + 2] = CloseLine

\* Every keyword has its entry, and there is no other line with a keyword.
EntriesAt(o) ==
  /\ \A n \in DOMAIN keywords : EntryAt(o[n], keywords[n])
  /\ \A h \in 1..Len(file) : file[h].kind = "word" => \E n \in DOMAIN keywords : h = o[n] + 1

Written == file = Brace \o FlattenSeq(Entries) \o Brace

\* Between the braces.
LEMMA BetweenBraces ==
  ASSUME NEW s \in Seq(Line), file = Brace \o s \o Brace
  PROVE  /\ file \in Seq(Line) /\ Len(s) \in Nat /\ Len(file) = Len(s) + 2
         /\ file[1].kind = "number" /\ file[Len(s) + 2].kind = "number"
         /\ \A p \in 1..Len(s) : file[1 + p] = s[p]
<1> DEFINE b == <<NumberLine(NoText)>>
<1>1. b \in Seq(Line) /\ Len(b) = 1 /\ b[1] = NumberLine(NoText)
  <2>1. NumberLine(NoText) \in Line
    BY LinesAre
  <2> QED
    BY <2>1
<1>2. Brace = b
  BY DEF Brace, NumberLine
<1> HIDE DEF b
<1>3. b \o s \in Seq(Line) /\ Joins(b \o s, b, s)
  BY <1>1, ConcatFacts
<1> DEFINE t == b \o s
<1>4. file = t \o b
  BY <1>2
<1> HIDE DEF t
<1>5. t \in Seq(Line) /\ Joins(t, b, s)
  BY <1>3 DEF t
<1>5a. file \in Seq(Line) /\ Joins(file, t, b)
  BY <1>1, <1>4, <1>5, ConcatFacts
<1>6. Len(s) \in Nat
  OBVIOUS
<1>7. Len(t) = 1 + Len(s) /\ t[1] = b[1] /\ \A p \in 1..Len(s) : t[1 + p] = s[p]
  BY <1>1, <1>5, <1>6 DEF Joins
<1>8. /\ Len(file) = Len(s) + 2 /\ file[1] = b[1] /\ file[Len(s) + 2] = b[1]
      /\ \A p \in 1..Len(s) : file[1 + p] = s[p]
  BY <1>1, <1>5a, <1>6, <1>7 DEF Joins
<1>9. b[1].kind = "number"
  BY <1>1 DEF NumberLine
<1> QED
  BY <1>5a, <1>6, <1>8, <1>9

LEMMA KeysAre ==
  ASSUME TableOK, NEW n \in DOMAIN keywords
  PROVE  /\ keywords[n] \in Name /\ keywords[n] \in DOMAIN index_table
         /\ index_table[keywords[n]] \in Seq(0..num_files)
         /\ n \in 1..Len(keywords)
<1>1. keywords[n] \in Name /\ n \in 1..Len(keywords)
  BY SeqFacts DEF TableOK
<1>2. keywords[n] \in DOMAIN index_table
  BY DEF TableOK, Range
<1> QED
  BY <1>1, <1>2 DEF TableOK

\* Where the lines of a keyword are, in the entries put together and in the file.
LEMMA EntryIsAt ==
  ASSUME TableOK, NEW s \in Seq(Line), file = Brace \o s \o Brace,
         NEW n \in DOMAIN keywords, NEW b \in Nat,
         b + Len(EntryLines(keywords[n])) <= Len(s),
         \A j \in 1..Len(EntryLines(keywords[n])) : s[b + j] = EntryLines(keywords[n])[j]
  PROVE  EntryAt(1 + b, keywords[n])
<1> DEFINE k == keywords[n]
           l == index_table[k]
           e == EntryLines(k)
           m == Len(l)
<1>1. k \in Name /\ l \in Seq(0..num_files)
  BY KeysAre
<1>2. m \in Nat
  BY <1>1, SeqFacts
<1>3. /\ Len(e) = m + 2 /\ e[1] = WordLine(k) /\ e[m + 2] = CloseLine
      /\ \A i \in 1..m : e[1 + i] = NumberLine(l[i])
  BY <1>1, EntryLinesAre
<1>4. /\ Len(s) \in Nat /\ Len(file) = Len(s) + 2
      /\ \A p \in 1..Len(s) : file[1 + p] = s[p]
  BY BetweenBraces
<1>5. b + Len(e) <= Len(s) /\ \A j \in 1..Len(e) : s[b + j] = e[j]
  OBVIOUS
<1> HIDE DEF l, e, k
<1>6. \A j \in 1..(m + 2) : file[1 + (b + j)] = e[j]
  <2> SUFFICES ASSUME NEW j \in 1..(m + 2) PROVE file[1 + (b + j)] = e[j]
    OBVIOUS
  <2>1. b + j \in 1..Len(s) /\ j \in 1..Len(e)
    BY <1>2, <1>3, <1>4, <1>5
  <2> QED
    BY <1>4, <1>5, <2>1
<1>7. file[(1 + b) + 1] = WordLine(k) /\ file[(1 + b) + m + 2] = CloseLine
  <2>1. /\ 1 \in 1..(m + 2) /\ m + 2 \in 1..(m + 2)
        /\ 1 + (b + 1) = (1 + b) + 1 /\ 1 + (b + (m + 2)) = (1 + b) + m + 2
    BY <1>2
  <2> QED
    BY <1>3, <1>6, <2>1
<1>8. ASSUME NEW i \in 1..m PROVE file[(1 + b) + 1 + i] = NumberLine(l[i])
  <2>1. 1 + i \in 1..(m + 2) /\ 1 + (b + (1 + i)) = (1 + b) + 1 + i
    BY <1>2
  <2>2. file[1 + (b + (1 + i))] = e[1 + i]
    BY <1>6, <2>1
  <2> QED
    BY <1>3, <2>1, <2>2
<1>9. 1 + b \in Nat /\ (1 + b) + m + 2 <= Len(file)
  BY <1>2, <1>3, <1>4, <1>5
<1> HIDE DEF m
<1> QED
  BY <1>7, <1>8, <1>9 DEF EntryAt, l, m, k

\* Only the first line of an entry has a keyword.
LEMMA OtherLines ==
  ASSUME TableOK, NEW n \in DOMAIN keywords, NEW j \in 1..Len(EntryLines(keywords[n])),
         EntryLines(keywords[n])[j].kind = "word"
  PROVE  j = 1
<1> DEFINE k == keywords[n]
           l == index_table[k]
           e == EntryLines(k)
           m == Len(l)
<1>1. k \in Name /\ l \in Seq(0..num_files)
  BY KeysAre
<1>2. m \in Nat
  BY <1>1, SeqFacts
<1>3. /\ Len(e) = m + 2 /\ e[m + 2] = CloseLine
      /\ \A i \in 1..m : e[1 + i] = NumberLine(l[i])
  BY <1>1, EntryLinesAre
<1>4. j \in 1..(m + 2) /\ e[j].kind = "word"
  BY <1>3
<1> HIDE DEF l, e, m
<1>5. CASE j = m + 2
  BY <1>3, <1>4, <1>5 DEF CloseLine
<1>6. CASE j # 1 /\ j # m + 2
  <2>1. j - 1 \in 1..m /\ 1 + (j - 1) = j
    BY <1>2, <1>4, <1>6
  <2>2. e[j] = NumberLine(l[j - 1])
    BY <1>3, <2>1
  <2> QED
    BY <1>4, <2>2 DEF NumberLine
<1> QED
  BY <1>5, <1>6

LEMMA FileHasEntries ==
  ASSUME TableOK, Written
  PROVE  file \in Seq(Line) /\ \E o : EntriesAt(o)
<1> DEFINE n == Len(keywords)
           ss == Entries
<1>1. n \in Nat /\ DOMAIN keywords = 1..n
  BY SeqFacts DEF TableOK
<1>2. /\ DOMAIN ss = 1..n /\ ss = [i \in 1..n |-> ss[i]]
      /\ \A i \in 1..n : ss[i] = EntryLines(keywords[i])
  BY <1>1 DEF Entries
<1>3. \A i \in 1..n : ss[i] \in Seq(Line)
  BY <1>1, <1>2, KeysAre, EntryLinesAre
<1> HIDE DEF n, ss
<1>4. ss \in [1..n -> Seq(Line)]
  BY <1>2, <1>3
<1>5. ss \in Seq(Seq(Line)) /\ Len(ss) = n
  BY <1>1, <1>4, ListIsSeq
<1>6. file = Brace \o FlattenSeq(ss) \o Brace
  BY DEF Written, ss
<1>7. CASE n = 0
  <2>1. FlattenSeq(ss) = <<>>
    <3>1. ss = <<>>
      BY <1>5, <1>7
    <3> QED
      BY <3>1 DEF FlattenSeq
  <2>2. <<>> \in Seq(Line) /\ Len(<<>>) = 0
    OBVIOUS
  <2>3. /\ file \in Seq(Line) /\ Len(file) = 0 + 2
        /\ file[1].kind = "number" /\ file[0 + 2].kind = "number"
    BY <1>6, <2>1, <2>2, BetweenBraces
  <2>4. \A h \in 1..Len(file) : h = 1 \/ h = 0 + 2
    BY <2>3
  <2>5. DOMAIN keywords = {}
    BY <1>1, <1>7
  <2> QED
    BY <2>3, <2>4, <2>5 DEF EntriesAt
<1>8. CASE n # 0
  <2>1. PICK f : Flattening(f, ss, n) /\ FlattenSeq(ss) = f[n]
    BY <1>1, <1>5, <1>8, FlattenIsLast
  <2> DEFINE s == f[n]
             o == [i \in 1..n |-> 1 + Before(f, i)]
  <2>2. /\ s \in Seq(Line) /\ LaidOut(s, f, ss, n)
        /\ \A i \in 1..n : Before(f, i) \in Nat /\ Before(f, i) + Len(ss[i]) <= Len(s)
    <3>1. n \in Nat \ {0}
      BY <1>1, <1>8
    <3> QED
      BY <1>3, <2>1, <3>1, FlatteningLaidOut
  <2>3. file = Brace \o s \o Brace
    BY <1>6, <2>1
  <2> HIDE DEF s
  <2>4. /\ file \in Seq(Line) /\ Len(s) \in Nat /\ Len(file) = Len(s) + 2
        /\ file[1].kind = "number" /\ file[Len(s) + 2].kind = "number"
        /\ \A p \in 1..Len(s) : file[1 + p] = s[p]
    BY <2>2, <2>3, BetweenBraces
  <2>5. ASSUME NEW i \in DOMAIN keywords PROVE EntryAt(o[i], keywords[i])
    <3>1. i \in 1..n /\ ss[i] = EntryLines(keywords[i]) /\ o[i] = 1 + Before(f, i)
      BY <1>1, <1>2
    <3>2. \A j \in 1..Len(ss[i]) : s[Before(f, i) + j] = ss[i][j]
      BY <2>2, <3>1 DEF LaidOut
    <3>3. EntryAt(1 + Before(f, i), keywords[i])
      BY <2>2, <2>3, <3>1, <3>2, EntryIsAt
    <3> QED
      BY <3>1, <3>3
  <2>6. ASSUME NEW h \in 1..Len(file), file[h].kind = "word"
        PROVE  \E i \in DOMAIN keywords : h = o[i] + 1
    <3>1. h # 1 /\ h # Len(s) + 2
      BY <2>4, <2>6
    <3>2. h - 1 \in 1..Len(s) /\ 1 + (h - 1) = h
      BY <2>4, <3>1
    <3>3. PICK i \in 1..n : \E j \in 1..Len(ss[i]) : h - 1 = Before(f, i) + j
      BY <2>2, <3>2 DEF LaidOut
    <3>4. PICK j \in 1..Len(ss[i]) : h - 1 = Before(f, i) + j
      BY <3>3
    <3>5. file[h] = ss[i][j]
      <4>1. s[Before(f, i) + j] = ss[i][j]
        BY <2>2 DEF LaidOut
      <4> QED
        BY <2>4, <3>2, <3>4, <4>1
    <3>6. i \in DOMAIN keywords /\ ss[i] = EntryLines(keywords[i])
      BY <1>1, <1>2
    <3>7. j = 1
      BY <2>6, <3>5, <3>6, OtherLines
    <3>8. o[i] = 1 + Before(f, i) /\ Before(f, i) \in Nat
      BY <2>2
    <3>9. h = o[i] + 1
      BY <3>2, <3>4, <3>7, <3>8
    <3> QED
      BY <3>6, <3>9
  <2> HIDE DEF o
  <2> QED
    BY <2>4, <2>5, <2>6 DEF EntriesAt
<1> QED
  BY <1>7, <1>8

-----------------------------------------------------------------------------
(* What the server reads of it.                                            *)

\* The numbers under a keyword are those of its entry.
LEMMA NumbersAre ==
  ASSUME file \in Seq(Line), NEW o, EntriesAt(o), TableOK, at = Len(file),
         NEW n \in DOMAIN keywords
  PROVE  NumbersOf(keywords[n]) = (o[n] + 2)..(o[n] + 1 + Len(index_table[keywords[n]]))
<1> DEFINE k == keywords[n]
           l == index_table[k]
           m == Len(l)
           b == o[n]
<1>1. m \in Nat /\ at \in Nat
  BY KeysAre, SeqFacts
<1>2. /\ b \in Nat /\ b + m + 2 <= at /\ file[b + 1] = WordLine(k)
      /\ \A i \in 1..m : file[b + 1 + i] = NumberLine(l[i])
      /\ file[b + m + 2] = CloseLine
  BY DEF EntriesAt, EntryAt
<1> HIDE DEF k, l, b, m
<1>2a. (b + m + 2) \in Nat /\ b + 1 \in Nat /\ b + 2 \in Nat /\ b + 1 + m \in Nat
  BY <1>1, <1>2
<1>3. ASSUME NEW p \in (b + 2)..(b + 1 + m) PROVE file[p].kind = "number"
  <2>1. p - (b + 1) \in 1..m /\ b + 1 + (p - (b + 1)) = p
    BY <1>1, <1>2, <1>2a
  <2>2. file[p] = NumberLine(l[p - (b + 1)])
    BY <1>2, <2>1
  <2> QED
    BY <2>2 DEF NumberLine
<1>4. ASSUME NEW p \in (b + 2)..(b + 1 + m) PROVE p \in NumbersOf(k)
  <2>1. p \in 1..at /\ b + 1 \in 1..(p - 1)
    BY <1>1, <1>2
  <2>2. \A between \in ((b + 1) + 1)..(p - 1) : file[between].kind = "number"
    <3>1. \A between \in ((b + 1) + 1)..(p - 1) : between \in (b + 2)..(b + 1 + m)
      BY <1>1, <1>2
    <3> QED
      BY <1>3, <3>1
  <2>3. Under(p, k)
    BY <1>2, <2>1, <2>2 DEF Under, WordLine
  <2> QED
    BY <1>3, <2>1, <2>3 DEF NumbersOf
<1>5. ASSUME NEW p \in NumbersOf(k) PROVE p \in (b + 2)..(b + 1 + m)
  <2>1. p \in 1..at /\ file[p].kind = "number"
    BY DEF NumbersOf
  <2>2. PICK h \in 1..(p - 1) :
          /\ file[h] = WordLine(k)
          /\ \A between \in (h + 1)..(p - 1) : file[between].kind = "number"
    BY DEF NumbersOf, Under, WordLine
  <2>3. h \in 1..Len(file) /\ file[h].kind = "word" /\ file[h].text = k
    BY <1>1, <2>1, <2>2 DEF WordLine
  <2>4. PICK i \in DOMAIN keywords : h = o[i] + 1
    BY <2>3 DEF EntriesAt
  <2>5. i = n
    <3>1. file[o[i] + 1] = WordLine(keywords[i])
      BY DEF EntriesAt, EntryAt
    <3>2. keywords[i] = k
      BY <2>3, <2>4, <3>1 DEF WordLine
    <3>3. keywords[i] = keywords[n]
      BY <3>2 DEF k
    <3> QED
      BY <3>3 DEF TableOK
  <2>6. h = b + 1
    BY <2>4, <2>5 DEF b
  <2>7. file[b + m + 2].kind # "number"
    BY <1>2 DEF CloseLine
  <2>8. p # b + m + 2
    BY <2>1, <2>7
  <2>9. ~ (b + m + 2 \in (h + 1)..(p - 1))
    BY <2>2, <2>7
  <2> QED
    BY <1>1, <1>2, <2>1, <2>2, <2>6, <2>8, <2>9
<1>6. NumbersOf(k) = (b + 2)..(b + 1 + m)
  BY <1>4, <1>5
<1> QED
  BY <1>6 DEF k, l, b, m

\* There are none under any other.
LEMMA NoNumbers ==
  ASSUME file \in Seq(Line), NEW o, EntriesAt(o), at = Len(file),
         NEW k, k \notin Range(keywords)
  PROVE  NumbersOf(k) = {}
<1> SUFFICES ASSUME NEW p \in NumbersOf(k) PROVE FALSE
  OBVIOUS
<1>1. p \in 1..Len(file) /\ Len(file) \in Nat
  BY SeqFacts DEF NumbersOf
<1>2. PICK h \in 1..(p - 1) : file[h] = WordLine(k)
  BY DEF NumbersOf, Under, WordLine
<1>3. h \in 1..Len(file) /\ file[h].kind = "word" /\ file[h].text = k
  BY <1>1, <1>2 DEF WordLine
<1>4. PICK i \in DOMAIN keywords : h = o[i] + 1
  BY <1>3 DEF EntriesAt
<1>5. file[o[i] + 1] = WordLine(keywords[i])
  BY DEF EntriesAt, EntryAt
<1>6. keywords[i] = k
  BY <1>3, <1>4, <1>5 DEF WordLine
<1> QED
  BY <1>6 DEF Range

\* The list the map has for a keyword is that of the table.
LEMMA ListIsRead ==
  ASSUME file \in Seq(Line), NEW o, EntriesAt(o), TableOK, at = Len(file),
         TypeOK, PostingsAsWritten, NEW n \in DOMAIN keywords
  PROVE  keywords[n] \in DOMAIN wordMap /\ wordMap[keywords[n]] = index_table[keywords[n]]
<1> DEFINE k == keywords[n]
           l == index_table[k]
           m == Len(l)
           b == o[n]
           N == NumbersOf(k)
           r == wordMap[k]
<1>1. k \in Name /\ k \in DOMAIN index_table /\ l \in Seq(0..num_files)
  BY KeysAre
<1>2. m \in Nat /\ DOMAIN l = 1..m
  BY <1>1, SeqFacts
<1>3. m # 0
  <2>1. l \in Seq(0..num_files) \ {<<>>}
    BY <1>1 DEF TableOK
  <2> HIDE DEF l
  <2> QED
    BY <2>1 DEF m
<1>4. b \in Nat /\ \A i \in 1..m : file[b + 1 + i] = NumberLine(l[i])
  BY DEF EntriesAt, EntryAt
<1>5. N = (b + 2)..(b + 1 + m)
  BY NumbersAre
<1>6. IF N = {} THEN k \notin DOMAIN wordMap
      ELSE /\ k \in DOMAIN wordMap
           /\ Len(r) = Cardinality(N)
           /\ \A p \in N : r[Cardinality({e \in N : e <= p})] = file[p].text
  BY <1>1 DEF PostingsAsWritten
<1> HIDE DEF k, l, m, b, N, r
<1>7. b + 2 \in N /\ Cardinality(N) = m
  <2>1. b + 2 \in Int /\ b + 1 + m \in Int /\ b + 2 <= b + 1 + m
    BY <1>2, <1>3, <1>4
  <2>2. Cardinality((b + 2)..(b + 1 + m)) = (b + 1 + m) - (b + 2) + 1
    BY <2>1, FS_Interval
  <2> QED
    BY <1>2, <1>4, <1>5, <2>1, <2>2
<1>8. k \in DOMAIN wordMap /\ Len(r) = m
  BY <1>6, <1>7
<1>9. r \in Seq(Number) /\ DOMAIN r = 1..m
  <2>1. r \in Seq(Number)
    BY <1>8 DEF TypeOK, r
  <2> QED
    BY <1>8, <2>1, SeqFacts
<1>10. ASSUME NEW i \in 1..m PROVE r[i] = l[i]
  <2> DEFINE p == b + 1 + i
  <2>1. p \in N /\ p \in Int /\ b + 2 \in Int /\ b + 2 <= p
    BY <1>2, <1>4, <1>5
  <2>2. {e \in N : e <= p} = (b + 2)..p
    BY <1>2, <1>4, <1>5, <2>1
  <2>3. Cardinality((b + 2)..p) = p - (b + 2) + 1
    BY <2>1, FS_Interval
  <2>4. p - (b + 2) + 1 = i
    BY <1>4
  <2> HIDE DEF p
  <2>5. r[i] = file[p].text
    BY <1>6, <2>1, <2>2, <2>3, <2>4
  <2>6. file[p] = NumberLine(l[i])
    BY <1>4 DEF p
  <2>7. file[p].text = l[i]
    BY <2>6 DEF NumberLine
  <2> QED
    BY <2>5, <2>7
<1>11. r = l
  BY <1>1, <1>2, <1>9, <1>10
<1> QED
  BY <1>8, <1>11 DEF r, k, l

-----------------------------------------------------------------------------
(* The scripts, and then the server.                                       *)

Phases ==
  /\ script \in {"none", "data_1", "data_2"}
  /\ phase \in {"draw", "read"} /\ (phase = "draw" => script # "none" /\ Fresh)
  /\ script # "none" /\ phase = "read" => Written

\* readFile reads to the end.
Reading ==
  /\ wordMap = [k \in DOMAIN wordMap |-> wordMap[k]]
  /\ pc # "readFile" => at = Len(file)

DInv == IInv /\ TableOK /\ Phases /\ Reading

\* What a script draws is a list of numbers, not an empty one.
LEMMA DrawnIs ==
  ASSUME Phases, script # "none", NEW files \in Drawn
  PROVE  \E n \in Nat \ {0} : files \in [1..n -> 0..num_files]
<1>1. num_files \in Nat \ {0} /\ MaxAssigned \in Nat
  BY DocumentsAssumption
<1>2. CASE script = "data_1"
  <2>1. PICK n \in 1..MaxAssigned : files \in [1..n -> 1..num_files]
    BY <1>2 DEF Drawn
  <2>2. n \in Nat \ {0} /\ 1..num_files \subseteq 0..num_files
    BY <1>1
  <2>3. files \in [1..n -> 0..num_files]
    BY <2>1, <2>2
  <2> QED
    BY <2>2, <2>3
<1>3. CASE script # "data_1"
  <2>1. files = [n \in 1..num_files |-> n - 1]
    BY <1>3 DEF Drawn
  <2>2. \A n \in 1..num_files : n - 1 \in 0..num_files
    BY <1>1
  <2>3. files \in [1..num_files -> 0..num_files]
    BY <2>1, <2>2
  <2> QED
    BY <1>1, <2>3
<1> QED
  BY <1>2, <1>3

\* Drawing keeps the table and the list of its keys in step.
LEMMA DrawTable ==
  ASSUME TableOK, Phases, phase = "draw",
         NEW keyword \in Name, NEW files \in Drawn, Draw(keyword, files)
  PROVE  TableOK'
<1> DEFINE l == Sorted(files)
<1>1. l \in Seq(0..num_files) \ {<<>>} /\ Increasing(l)
  <2>1. PICK n \in Nat \ {0} : files \in [1..n -> 0..num_files]
    BY DrawnIs DEF Phases
  <2> QED
    BY <2>1, SortedIs
<1>2. /\ index_table' = [k \in DOMAIN index_table \cup {keyword} |->
                           IF k = keyword THEN l ELSE index_table[k]]
      /\ keywords' = IF keyword \in DOMAIN index_table THEN keywords ELSE Append(keywords, keyword)
  BY DEF Draw
<1>3. DOMAIN index_table' = DOMAIN index_table \cup {keyword}
  BY <1>2
<1>4. ASSUME NEW k \in DOMAIN index_table'
      PROVE  index_table'[k] \in Seq(0..num_files) \ {<<>>} /\ Increasing(index_table'[k])
  <2>1. CASE k = keyword
    <3>1. index_table'[k] = l
      BY <1>2, <2>1
    <3> QED
      BY <1>1, <3>1
  <2>2. CASE k # keyword
    <3>1. k \in DOMAIN index_table /\ index_table'[k] = index_table[k]
      BY <1>2, <1>3, <2>2
    <3> QED
      BY <3>1 DEF TableOK
  <2> QED
    BY <2>1, <2>2
<1> HIDE DEF l
<1>5. index_table' = [k \in DOMAIN index_table' |-> index_table'[k]]
  BY <1>2
<1>6. /\ keywords \in Seq(Name) /\ DOMAIN index_table = Range(keywords)
      /\ \A a, b \in DOMAIN keywords : keywords[a] = keywords[b] => a = b
  BY DEF TableOK
<1>7. /\ keywords' \in Seq(Name) /\ DOMAIN index_table' = Range(keywords')
      /\ \A a, b \in DOMAIN keywords' : keywords'[a] = keywords'[b] => a = b
  <2>1. CASE keyword \in DOMAIN index_table
    <3>1. keywords' = keywords /\ DOMAIN index_table' = DOMAIN index_table
      BY <1>2, <1>3, <2>1
    <3> QED
      BY <1>6, <3>1
  <2>2. CASE keyword \notin DOMAIN index_table
    <3>1. keywords' = Append(keywords, keyword)
      BY <1>2, <2>2
    <3>2. keywords' \in Seq(Name) /\ Range(keywords') = Range(keywords) \cup {keyword}
      BY <1>6, <3>1, RangeAppend
    <3>3. /\ Len(keywords) \in Nat /\ DOMAIN keywords = 1..Len(keywords)
          /\ DOMAIN keywords' = 1..(Len(keywords) + 1)
          /\ \A a \in 1..Len(keywords) : keywords'[a] = keywords[a]
          /\ keywords'[Len(keywords) + 1] = keyword
      BY <1>6, <3>1
    <3>4. \A a \in 1..Len(keywords) : keywords[a] # keyword
      BY <1>6, <2>2, <3>3 DEF Range
    <3>5. ASSUME NEW a \in DOMAIN keywords', NEW b \in DOMAIN keywords', keywords'[a] = keywords'[b]
          PROVE  a = b
      BY <1>6, <3>3, <3>4, <3>5
    <3> QED
      BY <1>3, <1>6, <3>2, <3>5
  <2> QED
    BY <2>1, <2>2
<1> QED
  BY <1>4, <1>5, <1>7 DEF TableOK

\* The same facts of the next state.
LEMMA FreshInvNext == Fresh' /\ (file \in Seq(Line))' => IInv'
BY FreshInv, PTL

LEMMA WrittenIsFile == TableOK /\ Written => file \in Seq(Line)
BY FileHasEntries

LEMMA WrittenIsFileNext == TableOK' /\ Written' => (file \in Seq(Line))'
BY WrittenIsFile, PTL

LEMMA InitDInv == DatasetInit => DInv
<1> SUFFICES ASSUME DatasetInit PROVE DInv
  OBVIOUS
<1>1. IInv
  BY InitInv DEF DatasetInit
<1>2. keywords = <<>> /\ index_table = <<>> /\ wordMap = <<>> /\ pc = "readFile"
  BY DEF DatasetInit, Init
<1>3. TableOK
  BY <1>2 DEF TableOK, Range
<1>4. Phases
  BY DEF DatasetInit, Init, Phases, Fresh
<1>5. Reading
  BY <1>2 DEF Reading
<1> QED
  BY <1>1, <1>3, <1>4, <1>5 DEF DInv

LEMMA SameTable == UNCHANGED <<index_table, keywords>> => (TableOK' <=> TableOK)
BY DEF TableOK, Increasing

LEMMA SameWritten ==
  UNCHANGED <<index_table, keywords, file>> => (Written' <=> Written)
BY DEF Written, Entries, EntryLines, Opening, NumberLines, Closing, Brace

LEMMA DrawDInv ==
  ASSUME DInv, NEW keyword \in Name, NEW files \in Drawn, Draw(keyword, files)
  PROVE  DInv'
<1>1. phase = "draw" /\ phase' = phase /\ script' = script /\ UNCHANGED vars
  BY DEF Draw, vars
<1>2. IInv'
  BY <1>1, StutterInv DEF DInv
<1>3. TableOK'
  BY <1>1, DrawTable DEF DInv
<1>4. Phases' /\ Reading'
  BY <1>1 DEF DInv, Phases, Reading, Fresh, vars
<1> QED
  BY <1>2, <1>3, <1>4 DEF DInv

LEMMA SaveDInv == DInv /\ Save => DInv'
<1> SUFFICES ASSUME DInv, Save PROVE DInv'
  OBVIOUS
<1>1. TableOK' /\ script # "none" /\ script' = script /\ phase' = "read"
  BY SameTable DEF DInv, Phases, Save
<1>2. Written'
  <2>1. Entries' = Entries /\ Brace' = Brace
    BY DEF Save, Entries, EntryLines, Opening, NumberLines, Closing, Brace
  <2>2. file' = Brace \o FlattenSeq(Entries) \o Brace
    BY DEF Save, Entries
  <2> QED
    BY <2>1, <2>2 DEF Written
<1>3. Fresh'
  BY DEF DInv, Phases, Save, Fresh, loopVars
<1>4. IInv'
  BY <1>1, <1>2, <1>3, FreshInvNext, WrittenIsFileNext
<1>5. Phases' /\ Reading'
  BY <1>1, <1>2, <1>3 DEF DInv, Phases, Reading, Fresh
<1> QED
  BY <1>1, <1>4, <1>5 DEF DInv

\* The map stays a function, and the loop after readFile follows its last line.
LEMMA ReadingNext ==
  ASSUME Reading, TypeOK, Next
  PROVE  Reading' /\ file' = file
<1> USE DEF Reading
<1>1. CASE ReadWord \/ ReadClose
  BY <1>1 DEF ReadWord, ReadClose, MoreLines
<1>2. CASE ReadNumber
  BY <1>2 DEF ReadNumber, MoreLines, WithNumber
<1>3. CASE Return
  BY <1>3 DEF Return
<1>4. ASSUME NEW k \in DOMAIN wordMap, EncryptWord(k) PROVE Reading' /\ file' = file
  BY <1>4 DEF EncryptWord
<1>5. CASE EncryptNumber \/ NextWord \/ Ready \/ Listening
  BY <1>5 DEF EncryptNumber, NextWord, Ready, Listening, vars
<1> QED
  BY <1>1, <1>2, <1>3, <1>4, <1>5 DEF Next

LEMMA ServeDInv == DInv /\ Serve => DInv'
<1> SUFFICES ASSUME DInv, Serve PROVE DInv'
  OBVIOUS
<1>1. Next /\ UNCHANGED scriptVars /\ phase = "read"
  BY DEF Serve
<1>2. IInv'
  BY <1>1, StepInv DEF DInv
<1>3. Reading' /\ file' = file
  BY <1>1, ReadingNext DEF DInv, IInv
<1>4. TableOK'
  BY <1>1, SameTable DEF DInv, scriptVars
<1>5. Phases'
  BY <1>1, <1>3, SameWritten DEF DInv, Phases, scriptVars
<1> QED
  BY <1>2, <1>3, <1>4, <1>5 DEF DInv

LEMMA StutterDInv == DInv /\ UNCHANGED <<scriptVars, vars>> => DInv'
<1> SUFFICES ASSUME DInv, UNCHANGED <<scriptVars, vars>> PROVE DInv'
  OBVIOUS
<1>1. IInv'
  BY StutterInv DEF DInv
<1>2. TableOK' /\ (Written' <=> Written)
  BY SameTable, SameWritten DEF DInv, scriptVars, vars
<1>3. Phases' /\ Reading'
  BY <1>2 DEF DInv, Phases, Reading, Fresh, scriptVars, vars
<1> QED
  BY <1>1, <1>2, <1>3 DEF DInv

LEMMA DatasetInvariance == DatasetSpec => []DInv
<1>1. DInv /\ [DatasetNext]_<<scriptVars, vars>> => DInv'
  BY DrawDInv, SaveDInv, ServeDInv, StutterDInv DEF DatasetNext
<1> QED
  BY InitDInv, <1>1, PTL DEF DatasetSpec

\* The invariants of the server hold on the files of the scripts too, which it
\* gets only after it was specified to start: they are no members of Files.
THEOREM DatasetServed == DatasetSpec => [](TypeOK /\ PostingsAsWritten /\ ServiceMayStart)
<1>1. IInv => TypeOK /\ PostingsAsWritten /\ ServiceMayStart
  BY InvServiceMayStart DEF IInv
<1> QED
  BY DatasetInvariance, <1>1, PTL DEF DInv

\* What a script had in memory is what the server has in memory, for any number of
\* keywords and documents, and keywords drawn twice: braces, brackets and the sorted
\* lists survive the file.
THEOREM DatasetReadsWhatWasWritten == DatasetSpec => []ReadsWhatWasWritten
<1>1. DInv => ReadsWhatWasWritten
  <2> SUFFICES ASSUME DInv, script # "none", pc # "readFile"
               PROVE  /\ wordMap = index_table
                      /\ \A k \in DOMAIN wordMap : \A a, b \in DOMAIN wordMap[k] :
                           a < b => wordMap[k][a] < wordMap[k][b]
    BY DEF ReadsWhatWasWritten
  <2>1. IInv /\ TypeOK /\ PostingsAsWritten /\ TableOK /\ Written /\ at = Len(file)
    BY DEF DInv, IInv, Phases, Reading, Fresh
  <2>2. PICK o : file \in Seq(Line) /\ EntriesAt(o)
    BY <2>1, FileHasEntries
  <2>3. ASSUME NEW k \in DOMAIN index_table
        PROVE  k \in DOMAIN wordMap /\ wordMap[k] = index_table[k]
    <3>1. PICK n \in DOMAIN keywords : keywords[n] = k
      BY <2>1 DEF TableOK, Range
    <3>2. keywords[n] \in DOMAIN wordMap /\ wordMap[keywords[n]] = index_table[keywords[n]]
      BY <2>1, <2>2, ListIsRead
    <3> QED
      BY <3>1, <3>2
  <2>4. ASSUME NEW k \in DOMAIN wordMap PROVE k \in DOMAIN index_table
    <3>1. k \in Name
      BY <2>1 DEF TypeOK
    <3>2. NumbersOf(k) # {}
      BY <2>1, <3>1 DEF PostingsAsWritten
    <3>3. k \in Range(keywords)
      BY <2>1, <2>2, <3>2, NoNumbers
    <3> QED
      BY <2>1, <3>3 DEF TableOK
  <2>5. DOMAIN wordMap = DOMAIN index_table
    BY <2>3, <2>4
  <2>6. /\ wordMap = [k \in DOMAIN wordMap |-> wordMap[k]]
        /\ index_table = [k \in DOMAIN index_table |-> index_table[k]]
    BY <2>1 DEF DInv, Reading, TableOK
  <2>7. wordMap = index_table
    BY <2>3, <2>5, <2>6
  <2>8. \A k \in DOMAIN index_table : Increasing(index_table[k])
    BY <2>1 DEF TableOK
  <2> QED
    BY <2>7, <2>8 DEF Increasing
<1> QED
  BY DatasetInvariance, <1>1, PTL
=============================================================================
