------------------------------ MODULE Enclave ------------------------------
(***************************************************************************)
(* The enclave of the search service over its life: what the three ECALLs  *)
(* of Server/Enclave/Enclave.cpp take from its heap, what they give back,  *)
(* and what becomes of a server that never looks at the status of a call   *)
(* (Server/App/server.cpp:353-504).                                        *)
(*                                                                         *)
(* The heap is a number of free units; that it may be fragmented is left   *)
(* out.  The bridge of an ECALL copies its arguments into the enclave for  *)
(* the time of the call, and reports an error if it cannot.  Of the memory *)
(* the call itself does not get, most ends the enclave for good, by an     *)
(* exception nobody catches or a null pointer; what OpenSSL does not get   *)
(* for a decryption may do so, or it only prints "errors", and the call    *)
(* goes on as if the tag had been wrong.                                   *)
(***************************************************************************)
EXTENDS Naturals, FiniteSets

CONSTANTS
  Word,         \* what may be asked
  Near,         \* how many keywords are near each word
  Hits,         \* how many of them are answered: those, or the exact one
  TableSize,    \* the number of keywords
  MaxList,      \* the length of the longest posting list
  Heaps,        \* the sizes of the heap, HeapMaxSize of Enclave.config.xml
  Cost,         \* what each kind of allocation takes
  MaxRequests   \* a bound on the requests

Kind == {"tableCopy", "matchCopy", "replyCopy",  \* the bridges of the three ECALLs
         "context",    \* EVP_CIPHER_CTX_new and what it allocates
         "keyword",    \* one keyword of wordTable
         "distances",  \* the 500 entries of step_1
         "matrix",     \* the vectors of one calculateEditDistance
         "index",      \* one entry of record_index
         "number",     \* one number of deserl_vec and its place in content and tag
         "entry"}      \* one entry of response_vec_num

ASSUME MatchAssumption ==
  /\ Near \in [Word -> Nat] /\ Hits \in [Word -> Nat]
  /\ \A w \in Word : Hits[w] <= Near[w] /\ Near[w] <= TableSize
ASSUME SizeAssumption ==
  /\ {TableSize, MaxList} \subseteq Nat \ {0}
  /\ Heaps \subseteq Nat /\ MaxRequests \in Nat
  /\ Cost \in [Kind -> Nat \ {0}]

VARIABLES
  \* the enclave
  heap,       \* the size of its heap
  free,       \* the free part of its heap
  held,       \* the bridge's copies of the call that runs
  alive,      \* it has not been aborted
  filled,     \* the entries of wordTable that are not null
  k,          \* the loop counter of fetch_table
  \* the server
  pc,         \* the call that runs or comes next
  requests,   \* the requests begun
  word,       \* the word of this request
  location,   \* how many positions step_1 has returned
  idx,        \* the loop counter over them
  result,     \* what step_3 has returned: "none", "part" or "whole"
  stale       \* it has used an output that no call had written, or not in full

enclaveVars == <<heap, free, held, alive, filled, k>>
serverVars == <<pc, requests, word, location, idx, result, stale>>
vars == <<enclaveVars, serverVars>>

Unknown == TableSize + 1   \* what location_len holds before step_1
Entries == 0..(TableSize - 1)

Init ==
  /\ heap \in Heaps /\ free = heap /\ held = 0 /\ alive = TRUE /\ filled = {} /\ k = 0
  /\ pc = "recv" /\ requests = 0
  /\ word \in Word
  /\ location = Unknown /\ idx = 0 /\ result = "none" /\ stale = FALSE

-----------------------------------------------------------------------------
(* Calls into the enclave.                                                 *)

\* The enclave is lost and the call returns to the server with an error.
Abort(next) ==
  /\ alive' = FALSE
  /\ pc' = next
  /\ UNCHANGED <<free, held>>

\* The bridge reports an error, which nobody reads.
CallFails(copy, next) ==
  /\ ~alive \/ Cost[copy] > free
  /\ pc' = next
  /\ UNCHANGED <<free, held, alive>>

Enter(copy, next) ==
  /\ alive /\ Cost[copy] <= free
  /\ free' = free - Cost[copy] /\ held' = Cost[copy]
  /\ pc' = next
  /\ UNCHANGED alive

\* The bridge frees its copies; what the call allocated stays.
Leave(used, next) ==
  /\ free' = (free - used) + held /\ held' = 0
  /\ pc' = next
  /\ UNCHANGED alive

fetch_table ==
  /\ pc = "fetch_table"
  /\ CallFails("tableCopy", "step_1") \/ Enter("tableCopy", "decrypt")
  /\ k' = 0
  /\ UNCHANGED <<heap, filled, requests, word, location, idx, result, stale>>

\* The context, freed again, and then the memory that stays.
KeywordFits == Cost["context"] <= free /\ Cost["keyword"] <= free

\* Mutant: the loop runs to <= tableSize.
DecryptKeywordMore ==
  /\ pc = "decrypt" /\ k <= TableSize
  /\ \/ /\ KeywordFits
        /\ free' = free - Cost["keyword"]
        /\ k' = k + 1
        /\ filled' = filled \cup {k}
        /\ UNCHANGED <<held, alive, pc>>
     \/ Cost["context"] > free /\ k' = k + 1 /\ UNCHANGED <<free, held, alive, filled, pc>>
     \/ ~KeywordFits /\ Abort("step_1") /\ UNCHANGED <<filled, k>>
  /\ UNCHANGED <<heap, requests, word, location, idx, result, stale>>

\* Mutant: the keyword of the last request is freed first.
DecryptKeywordFrees ==
  /\ pc = "decrypt" /\ k < TableSize
  /\ LET freed == IF k \in filled THEN Cost["keyword"] ELSE 0 IN
     \/ /\ Cost["context"] <= free + freed /\ Cost["keyword"] <= free + freed
        /\ free' = free + freed - Cost["keyword"]
        /\ k' = k + 1
        /\ filled' = filled \cup {k}
        /\ UNCHANGED <<held, alive, pc>>
     \/ /\ Cost["context"] > free + freed
        /\ free' = free + freed
        /\ k' = k + 1
        /\ filled' = filled \ {k}
        /\ UNCHANGED <<held, alive, pc>>
  /\ UNCHANGED <<heap, requests, word, location, idx, result, stale>>

\* One keyword is decrypted into memory of its own; that of the last request is
\* not freed, and its entry stays as it was if the keyword cannot be decrypted.
DecryptKeyword ==
  /\ pc = "decrypt" /\ k < TableSize
  /\ \/ /\ KeywordFits
        /\ free' = free - Cost["keyword"]
        /\ k' = k + 1
        /\ filled' = filled \cup {k}
        /\ UNCHANGED <<held, alive, pc>>
     \/ Cost["context"] > free /\ k' = k + 1 /\ UNCHANGED <<free, held, alive, filled, pc>>
     \/ ~KeywordFits /\ Abort("step_1") /\ UNCHANGED <<filled, k>>
  /\ UNCHANGED <<heap, requests, word, location, idx, result, stale>>

TableDecrypted ==
  /\ pc = "decrypt" /\ k = TableSize
  /\ Leave(0, "step_1")
  /\ UNCHANGED <<heap, filled, k, requests, word, location, idx, result, stale>>

step_1 ==
  /\ pc = "step_1"
  /\ CallFails("matchCopy", "answer") \/ Enter("matchCopy", "compare")
  /\ UNCHANGED <<heap, filled, k, requests, word, location, idx, result, stale>>

\* How many keywords the loop over wordTable may find near the word, and how many
\* it then returns.  Without memory to decrypt the request it compares whatever
\* the buffer holds; of a table with gaps some of the keywords may be missing.
Found ==
  LET missing == Cardinality(Entries \ filled)
      counts == {c \in [near : 0..Cardinality(filled), hits : 0..TableSize] : c.hits <= c.near}
  IN IF Cost["context"] > free
     THEN {c \in counts : c.hits \in {1, c.near}}
     ELSE {c \in counts : /\ c.near <= Near[word] /\ Near[word] <= c.near + missing
                          /\ c.hits \in (IF missing = 0 THEN {} ELSE {c.near}) \cup {Hits[word]}}

\* The vectors of each comparison are freed, and so is the one of the positions.
ComparisonFits(near, left) ==
  /\ filled # {} => Cost["matrix"] <= left
  /\ near * Cost["index"] <= left

\* Mutant: the distances are allocated inside the loop over the table.
CompareAllocatesEach ==
  /\ pc = "compare"
  /\ LET all == TableSize * Cost["distances"]
         got == all <= free
         used == IF got THEN all ELSE 0
     IN \/ Cost["context"] > free /\ Abort("answer") /\ UNCHANGED location
        \/ \E f \in Found :
             IF (f.near > 0 => got) /\ ComparisonFits(f.near, free - used)
             THEN Leave(used, "answer") /\ location' = f.hits
             ELSE Abort("answer") /\ UNCHANGED location
  /\ UNCHANGED <<heap, filled, k, requests, word, idx, result, stale>>

\* The distances are allocated and never freed; without them the first keyword
\* that is near is written through a null pointer.
Compare ==
  /\ pc = "compare"
  /\ LET got == Cost["distances"] <= free
         used == IF got THEN Cost["distances"] ELSE 0
     IN \/ Cost["context"] > free /\ Abort("answer") /\ UNCHANGED location
        \/ \E f \in Found :
             IF (f.near > 0 => got) /\ ComparisonFits(f.near, free - used)
             THEN Leave(used, "answer") /\ location' = f.hits
             ELSE Abort("answer") /\ UNCHANGED location
  /\ UNCHANGED <<heap, filled, k, requests, word, idx, result, stale>>

step_3 ==
  /\ pc = "step_3"
  /\ CallFails("replyCopy", "write") \/ Enter("replyCopy", "reencrypt")
  /\ UNCHANGED <<heap, filled, k, requests, word, location, idx, result, stale>>

\* Every number of the list takes memory that stays; the vector does not.  What
\* cannot be decrypted is left out of the result.
Reencrypt ==
  /\ pc = "reencrypt"
  /\ \E n \in 1..MaxList :
       LET list == n * Cost["entry"] + n * Cost["number"]
           whole == Cost["context"] + list <= free
       IN \/ /\ list <= free
             /\ Leave(n * Cost["number"], "write")
             /\ result' = IF whole THEN "whole" ELSE "part"
          \/ ~whole /\ Abort("write") /\ UNCHANGED result
  /\ UNCHANGED <<heap, filled, k, requests, word, location, idx, stale>>

-----------------------------------------------------------------------------
(* The server.                                                             *)

\* The next request, of this client or of another.
Receive ==
  /\ pc = "recv" /\ requests < MaxRequests
  /\ requests' = requests + 1
  /\ word' \in Word
  /\ location' = Unknown
  /\ pc' = "fetch_table"
  /\ UNCHANGED <<enclaveVars, idx, result, stale>>

\* location_len as step_1 left it, or whatever that variable holds: the loop over
\* it may be empty, answer anything, or end the server.
Answer ==
  /\ pc = "answer"
  /\ idx' = 0
  /\ IF location # Unknown
     THEN pc' = "next" /\ UNCHANGED stale
     ELSE stale' = TRUE /\ pc' \in {"recv", "down"}
  /\ UNCHANGED <<enclaveVars, requests, word, location, result>>

NextPosition ==
  /\ pc = "next"
  /\ IF idx < location
     THEN pc' = "step_3" /\ idx' = idx + 1 /\ result' = "none"
     ELSE pc' = "recv" /\ UNCHANGED <<idx, result>>
  /\ UNCHANGED <<enclaveVars, requests, word, location, stale>>

\* The result of step_3, as much of it as there is, or an uninitialised buffer and
\* an uninitialised length.
Write ==
  /\ pc = "write"
  /\ stale' = (stale \/ result # "whole")
  /\ pc' \in {"next"} \cup (IF result = "none" THEN {"down"} ELSE {})
  /\ UNCHANGED <<enclaveVars, requests, word, location, idx, result>>

Finished == (pc = "down" \/ (pc = "recv" /\ requests = MaxRequests)) /\ UNCHANGED vars

Next ==
  \/ fetch_table \/ DecryptKeyword \/ TableDecrypted
  \/ step_1 \/ Compare
  \/ step_3 \/ Reencrypt
  \/ Receive \/ Answer \/ NextPosition \/ Write
  \/ Finished

Spec == Init /\ [][Next]_vars

-----------------------------------------------------------------------------
(* Properties.                                                             *)

TypeOK ==
  /\ free \in Nat /\ held \in Nat /\ free + held <= heap
  /\ heap \in Heaps
  /\ alive \in BOOLEAN
  /\ k \in 0..TableSize /\ filled \subseteq Entries
  /\ pc \in {"recv", "fetch_table", "decrypt", "step_1", "compare", "answer", "next",
             "step_3", "reencrypt", "write", "down"}
  /\ requests \in 0..MaxRequests
  /\ word \in Word
  /\ location \in 0..Unknown
  /\ idx \in 0..Unknown
  /\ result \in {"none", "part", "whole"} /\ stale \in BOOLEAN

Replying == {"next", "step_3", "reencrypt", "write"}

\* A heap that holds the table once never makes a search miss a keyword: however
\* little is left of it later, and whichever keywords a later request can no longer
\* decrypt, an enclave that lives still searches a whole table, since what is not
\* decrypted again stays as an earlier request left it (Enclave.cpp:283-292).  Only
\* a heap too small for the first table has one with gaps searched.
WholeTableSearched ==
  Cost["tableCopy"] + TableSize * Cost["keyword"] + Cost["context"] <= heap =>
    (alive /\ pc \in {"step_1", "compare", "answer"} \cup Replying => filled = Entries)

MaxLeak ==
  TableSize * Cost["keyword"] + Cost["distances"] + TableSize * (MaxList * Cost["number"])
Peak ==
  Cost["tableCopy"] + Cost["matchCopy"] + Cost["replyCopy"] + Cost["context"]
    + Cost["matrix"] + TableSize * Cost["index"] + MaxList * Cost["entry"]
WithinBudget == requests * MaxLeak + Peak <= heap

\* As long as the heap holds what all requests so far can have left in it, every
\* one of them is answered by calls that succeeded, from the whole table; the
\* server takes no output that was not written (server.cpp:366, 385-397, 461).
ServesWithinBudget ==
  WithinBudget =>
    /\ alive /\ ~stale
    /\ pc \in {"answer"} \cup Replying => location = Hits[word]
=============================================================================
