------------------------------ MODULE Dataset ------------------------------
(***************************************************************************)
(* The scripts SSE/data_1.py and SSE/data_2.py, which write the index file *)
(* that the server reads: a table from random keywords to sorted lists of  *)
(* document numbers without repetitions, written line by line between      *)
(* braces.  A file that was written by hand is one of Files.               *)
(***************************************************************************)
EXTENDS Index, SequencesExt

CONSTANTS
  num_keywords,  \* the keywords a script draws, perhaps the same one again
  num_files,     \* the documents
  MaxAssigned    \* the most document numbers data_1 draws for a keyword (20 there)

ASSUME DocumentsAssumption ==
  /\ num_files \in Nat \ {0} /\ 0..num_files \subseteq Digits
  /\ num_keywords \in Nat /\ MaxAssigned \in Nat

VARIABLES
  script,       \* the script that writes the file, or "none"
  drawn,        \* the keywords drawn so far
  index_table,  \* the table
  keywords,     \* its keys in the order in which they were entered
  phase         \* "draw", then "read" once the file is there

scriptVars == <<script, drawn, index_table, keywords, phase>>

DatasetInit ==
  /\ Init
  /\ script \in {"none", "data_1", "data_2"}
  /\ script # "none" => file = <<>>
  /\ drawn = 0
  /\ index_table = <<>>
  /\ keywords = <<>>
  /\ phase = IF script = "none" THEN "read" ELSE "draw"

\* Mutant: numbers drawn twice stay.
SortedWhole(files) == SortSeq(files, <)
Sorted(files) ==
  CHOOSE s \in [1..Cardinality(Range(files)) -> Range(files)] :
    \A a, b \in DOMAIN s : a < b => s[a] < s[b]

\* data_1 draws some of the numbers from 1, data_2 takes all of them from 0.
Drawn ==
  IF script = "data_1"
  THEN UNION {[1..n -> 1..num_files] : n \in 1..MaxAssigned}
  ELSE {[n \in 1..num_files |-> n - 1]}

\* A keyword drawn again keeps its place and gets the new list.
Draw(keyword, files) ==
  /\ phase = "draw"
  /\ drawn < num_keywords
  /\ drawn' = drawn + 1
  /\ index_table' = [k \in DOMAIN index_table \cup {keyword} |->
                       IF k = keyword THEN Sorted(files) ELSE index_table[k]]
  /\ keywords' = IF keyword \in DOMAIN index_table THEN keywords ELSE Append(keywords, keyword)
  /\ UNCHANGED <<script, phase, vars>>

\* A line with a brace is, to readFile, a number without digits.
Brace == <<[kind |-> "number", text |-> NoText]>>
Opening(k) == <<[kind |-> "word", text |-> k]>>
Closing == <<[kind |-> "close"]>>
NumberLines(files) == [n \in DOMAIN files |-> [kind |-> "number", text |-> files[n]]]

\* Mutant: the brackets are left out.
EntryLinesOpen(k) == Opening(k) \o NumberLines(index_table[k])
EntryLines(k) == Opening(k) \o NumberLines(index_table[k]) \o Closing

\* The file is written and closed, and the server started on it.
Save ==
  /\ phase = "draw"
  /\ drawn = num_keywords
  /\ file' = Brace \o FlattenSeq([n \in DOMAIN keywords |-> EntryLines(keywords[n])]) \o Brace
  /\ phase' = "read"
  /\ UNCHANGED <<script, drawn, index_table, keywords,
                 at, currentWord, wordMap, loopVars, pc>>

\* The server's initialzie, on the file as it is then.
Serve == phase = "read" /\ Next /\ UNCHANGED scriptVars

DatasetNext ==
  \/ \E keyword \in Name : \E files \in Drawn : Draw(keyword, files)
  \/ Save \/ Serve

DatasetSpec == DatasetInit /\ [][DatasetNext]_<<scriptVars, vars>>

-----------------------------------------------------------------------------
(* Properties.                                                             *)

\* What the scripts write is what the server reads: the map of readFile is the
\* table the script had in memory, braces and brackets add nothing to it, and
\* no list repeats a number, so that a client is never sent one twice.
ReadsWhatWasWritten ==
  script # "none" /\ pc # "readFile" =>
    /\ wordMap = index_table
    /\ \A k \in DOMAIN wordMap : \A a, b \in DOMAIN wordMap[k] :
         a < b => wordMap[k][a] < wordMap[k][b]
=============================================================================
