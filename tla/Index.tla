------------------------------- MODULE Index -------------------------------
(***************************************************************************)
(* Index::initialzie of include/Index.h, which the server calls before it  *)
(* listens: readFile turns the lines of the index file into a map from     *)
(* keywords to document numbers, and the loop over that map encrypts it.   *)
(*                                                                         *)
(* A line is what its first token makes of it: "word" for one that ends in *)
(* a colon, "close" for one that begins with a bracket, "number" for any   *)
(* other, with the digits that are left of it.  NoText is the empty        *)
(* string: a nameless word, or the digits of a brace or of a blank line    *)
(* (for which the code tests the byte before an empty string, never a      *)
(* colon in the builds of this program).                                   *)
(***************************************************************************)
EXTENDS Naturals, Sequences, FiniteSets, Functions, Gcm

CONSTANTS
  Name,    \* the words the file may mention
  Digits,  \* the numbers the file may mention
  NoText,  \* the empty string
  Files    \* the index files, sequences of lines

Line == [kind : {"word"}, text : Name \cup {NoText}]
          \cup [kind : {"number"}, text : Digits \cup {NoText}]
          \cup [kind : {"close"}]

ASSUME FilesAssumption == Files \subseteq Seq(Line)
ASSUME NoTextAssumption == NoText \notin Name

VARIABLES
  file,            \* the lines of the file
  at,              \* the lines read so far
  currentWord,     \* the keyword whose numbers are read
  wordMap,         \* keywords to document numbers, in the clear
  unread,          \* the entries of wordMap the loop has not visited
  entry,           \* the entry it visits
  numAt,           \* the numbers of that entry encrypted so far
  cipherWordList,  \* the encrypted keywords, in the order of the loop
  cipher_wordMap,  \* the encrypted index
  pc               \* the loop that runs

vars == <<file, at, currentWord, wordMap, unread, entry, numAt, cipherWordList,
          cipher_wordMap, pc>>

Number == Digits \cup {NoText}

\* m with d added at the end of the list of key k: operator[] makes the entry.
WithNumber(m, k, d) ==
  [x \in DOMAIN m \cup {k} |->
     IF x # k THEN m[x] ELSE IF k \in DOMAIN m THEN Append(m[k], d) ELSE <<d>>]

CipherWord(k) == Enc("sk_1", k)
CipherNumber(d) == Enc("sk_2", d)

Init ==
  /\ file \in Files
  /\ at = 0
  /\ currentWord = NoText
  /\ wordMap = <<>>
  /\ unread = {}
  /\ entry = NoText
  /\ numAt = 0
  /\ cipherWordList = <<>>
  /\ cipher_wordMap = <<>>
  /\ pc = "readFile"

line == file[at + 1]

MoreLines == pc = "readFile" /\ at < Len(file) /\ at' = at + 1

loopVars == <<unread, entry, numAt, cipherWordList, cipher_wordMap>>

\* Mutant: the keyword is entered when its line is read.
ReadWordEnters ==
  /\ MoreLines
  /\ line.kind = "word"
  /\ currentWord' = line.text
  /\ wordMap' = [x \in DOMAIN wordMap \cup {line.text} |->
                   IF x \in DOMAIN wordMap THEN wordMap[x] ELSE <<>>]
  /\ UNCHANGED <<file, loopVars, pc>>

ReadWord ==
  /\ MoreLines
  /\ line.kind = "word"
  /\ currentWord' = line.text
  /\ UNCHANGED <<file, wordMap, loopVars, pc>>

ReadNumber ==
  /\ MoreLines
  /\ line.kind = "number"
  /\ wordMap' = IF currentWord = NoText THEN wordMap
                ELSE WithNumber(wordMap, currentWord, line.text)
  /\ UNCHANGED <<file, currentWord, loopVars, pc>>

\* Mutant: the closing bracket does not end the list.
ReadCloseIgnored ==
  /\ MoreLines
  /\ line.kind = "close"
  /\ UNCHANGED <<file, currentWord, wordMap, loopVars, pc>>

\* Outside a list the bracket is a line without effect.
ReadClose ==
  /\ MoreLines
  /\ line.kind = "close"
  /\ currentWord' = NoText
  /\ UNCHANGED <<file, wordMap, loopVars, pc>>

\* readFile returns.
Return ==
  /\ pc = "readFile"
  /\ at = Len(file)
  /\ unread' = DOMAIN wordMap
  /\ pc' = "words"
  /\ UNCHANGED <<file, at, currentWord, wordMap, entry, numAt, cipherWordList,
                 cipher_wordMap>>

\* The loop over wordMap takes the entries in the order of the hash table.
EncryptWord(k) ==
  /\ pc = "words"
  /\ k \in unread
  /\ unread' = unread \ {k}
  /\ entry' = k
  /\ numAt' = 0
  /\ cipherWordList' = Append(cipherWordList, CipherWord(k))
  /\ pc' = "numbers"
  /\ UNCHANGED <<file, at, currentWord, wordMap, cipher_wordMap>>

\* Mutant: the keyword is put on the list once for each number.
EncryptNumberRepeats ==
  /\ pc = "numbers"
  /\ numAt < Len(wordMap[entry])
  /\ numAt' = numAt + 1
  /\ cipher_wordMap' =
       WithNumber(cipher_wordMap, CipherWord(entry), CipherNumber(wordMap[entry][numAt + 1]))
  /\ cipherWordList' = Append(cipherWordList, CipherWord(entry))
  /\ UNCHANGED <<file, at, currentWord, wordMap, unread, entry, pc>>

EncryptNumber ==
  /\ pc = "numbers"
  /\ numAt < Len(wordMap[entry])
  /\ numAt' = numAt + 1
  /\ cipher_wordMap' =
       WithNumber(cipher_wordMap, CipherWord(entry), CipherNumber(wordMap[entry][numAt + 1]))
  /\ UNCHANGED <<file, at, currentWord, wordMap, unread, entry, cipherWordList, pc>>

NextWord ==
  /\ pc = "numbers"
  /\ numAt = Len(wordMap[entry])
  /\ pc' = "words"
  /\ UNCHANGED <<file, at, currentWord, wordMap, unread, entry, numAt, cipherWordList,
                 cipher_wordMap>>

Ready ==
  /\ pc = "words"
  /\ unread = {}
  /\ pc' = "ready"
  /\ UNCHANGED <<file, at, currentWord, wordMap, unread, entry, numAt, cipherWordList,
                 cipher_wordMap>>

Listening == pc = "ready" /\ UNCHANGED vars

Next ==
  \/ ReadWord \/ ReadNumber \/ ReadClose \/ Return
  \/ \E k \in DOMAIN wordMap : EncryptWord(k)
  \/ EncryptNumber \/ NextWord \/ Ready \/ Listening

Spec == Init /\ [][Next]_vars

-----------------------------------------------------------------------------
(* Properties.                                                             *)


TypeOK ==
  /\ file \in Seq(Line)
  /\ at \in 0..Len(file)
  /\ currentWord \in Name \cup {NoText}
  /\ DOMAIN wordMap \subseteq Name
  /\ \A k \in DOMAIN wordMap : wordMap[k] \in Seq(Number)
  /\ unread \subseteq DOMAIN wordMap
  /\ entry \in Name \cup {NoText}
  /\ numAt \in Nat
  /\ cipherWordList \in Seq({CipherWord(k) : k \in Name})
  /\ DOMAIN cipher_wordMap \subseteq {CipherWord(k) : k \in Name}
  /\ \A c \in DOMAIN cipher_wordMap : cipher_wordMap[c] \in Seq({CipherNumber(d) : d \in Number})
  /\ pc \in {"readFile", "words", "numbers", "ready"}

\* The keyword line a number belongs to: the last one before it, unless a
\* bracket or a nameless word came in between.
Under(l, k) ==
  \E h \in 1..(l - 1) :
    /\ file[h] = [kind |-> "word", text |-> k]
    /\ \A between \in (h + 1)..(l - 1) : file[between].kind = "number"

NumbersOf(k) == {l \in 1..at : file[l].kind = "number" /\ Under(l, k)}

\* The map holds exactly the numbers written under each keyword, in the order
\* of the file, even where a keyword occurs twice (Index.h:193-226).
PostingsAsWritten ==
  \A k \in Name :
    IF NumbersOf(k) = {}
    THEN k \notin DOMAIN wordMap
    ELSE /\ k \in DOMAIN wordMap
         /\ Len(wordMap[k]) = Cardinality(NumbersOf(k))
         /\ \A l \in NumbersOf(k) :
              wordMap[k][Cardinality({e \in NumbersOf(k) : e <= l})] = file[l].text

\* No keyword has an empty list, so that the server finds every position of
\* the table in the encrypted map (server.cpp:410-412, 495-500).
NeverEmpty ==
  /\ \A k \in DOMAIN wordMap : wordMap[k] # <<>>
  /\ \A c \in DOMAIN cipher_wordMap : cipher_wordMap[c] # <<>>

\* While the loop runs, the encrypted keywords on the list are distinct, and
\* the map has an entry for each but the one being filled (Index.h:134-158).
ListMatchesMap ==
  /\ \A a, b \in DOMAIN cipherWordList : cipherWordList[a] = cipherWordList[b] => a = b
  /\ DOMAIN cipher_wordMap =
       Range(cipherWordList) \
         (IF pc = "numbers" /\ numAt = 0 THEN {CipherWord(entry)} ELSE {})

\* What the service starts from: every keyword of the file is on the list
\* once, and its entry is the list of its numbers, encrypted one by one.
ServiceMayStart ==
  pc = "ready" =>
    /\ cipherWordList \in Bijection(DOMAIN cipherWordList, DOMAIN cipher_wordMap)
    /\ DOMAIN cipher_wordMap = {CipherWord(k) : k \in DOMAIN wordMap}
    /\ \A k \in DOMAIN wordMap :
         /\ Len(cipher_wordMap[CipherWord(k)]) = Len(wordMap[k])
         /\ \A d \in DOMAIN wordMap[k] :
              cipher_wordMap[CipherWord(k)][d] = CipherNumber(wordMap[k][d])
=============================================================================
