-------------------------------- MODULE SSE --------------------------------
(***************************************************************************)
(* The running search service: client processes (Client/client.cpp), the   *)
(* server process (Server/App/server.cpp), the enclave it calls            *)
(* (Server/Enclave/Enclave.cpp) and the TCP connections between them.      *)
(*                                                                         *)
(* The server's lookup by ciphertext is a lookup by value, as it is here:  *)
(* see Gcm.  Table positions count from 1.                                 *)
(***************************************************************************)
EXTENDS Naturals, Sequences, FiniteSets, Functions, Gcm

CONSTANTS
  Client,         \* client processes
  NoClient,       \* the server is between two connections
  Keyword,        \* the keywords of the index file
  Word,           \* what may be asked: keywords, misspelt or unknown words
  DocId,          \* the document numbers of the index file
  Docs,           \* the index file: the posting list of every keyword
  Dist,           \* the value of calculateEditDistance for two words
  Wide,           \* the document numbers that are not eight digits long
  N,              \* the literal 5 in server.cpp:348 and client.cpp:94
  Backlog,        \* the literal 5 of listen(), server.cpp:324
  CanCrash,       \* the clients that may be killed
  ServerMayStop   \* the server may be killed

ASSUME ClientAssumption == NoClient \notin Client /\ IsFiniteSet(Client)
ASSUME KeywordAssumption == Keyword \subseteq Word /\ IsFiniteSet(Keyword)
\* readFile enters a keyword with its first document number.
ASSUME DocsAssumption == Docs \in [Keyword -> Seq(DocId) \ {<<>>}]
ASSUME DistAssumption ==
  /\ Dist \in [Word \X Word -> Nat]
  /\ \A v, w \in Word : Dist[<<v, w>>] = 0 <=> v = w
ASSUME FaultAssumption ==
  Wide \subseteq DocId /\ CanCrash \subseteq Client /\ ServerMayStop \in BOOLEAN
ASSUME BoundAssumption == N \in Nat \ {0} /\ Backlog \in Nat

VARIABLES
  \* client processes
  cpc,            \* the call the client is about to make
  asked,          \* plain_word, the word it asks for
  left,           \* keywords of this answer still to come
  numsLeft,       \* document numbers of this keyword still to come
  lines,          \* the lines of this answer printed so far
  reports,        \* the answers printed so far, one per epoch
  \* the connections
  backlog,        \* connections the server has not accepted yet
  link,           \* "none", "open", or "closed" by the server's side
  toServer,       \* what each client has sent and the server has not read
  toClient,       \* what the server has sent and each client has not read
  \* the server process
  spc,            \* the step of the server's loop
  conn,           \* client_socket
  epoch,          \* the server's epoch counter
  word,           \* the ciphertext read from the client
  idx,            \* the loop counter over location
  numIdx,         \* the loop counter of step_3 over the posting list
  location,       \* result of step_1: positions in the table
  distance_vtr,   \* result of step_1: distances
  pending,        \* records the server is about to write
  cipherWordList, \* the index's encrypted keywords, in map order
  \* the enclave
  wordTable       \* the decrypted keywords, by position

clientVars == <<cpc, asked, left, numsLeft, lines, reports>>
netVars == <<backlog, link, toServer, toClient>>
serverVars == <<spc, conn, epoch, word, idx, numIdx, location, distance_vtr, pending,
                cipherWordList, wordTable>>
vars == <<clientVars, netVars, serverVars>>

-----------------------------------------------------------------------------
(* Ciphertexts.                                                            *)

\* step_3 decrypts every number as eight bytes, whatever its length was.
OpensNumber(cipher) == Opens("sk_2", cipher) /\ cipher.text \notin Wide

WordCipher(key) == [key : {key}, text : Word]
NumCipher(key) == [key : {key}, text : DocId]

\* initialzie: the encrypted inverted index.
cipher_wordMap ==
  [c \in {Enc("sk_1", k) : k \in Keyword} |->
     [d \in DOMAIN Docs[c.text] |-> Enc("sk_2", Docs[c.text][d])]]

-----------------------------------------------------------------------------
(* Records on a connection.  The fields of one record are written and read *)
(* by consecutive calls.                                                   *)

CountToken(v) == [kind |-> "count", value |-> v]
HeadToken(d, c) == [kind |-> "head", distance |-> d, cipher |-> c]
SizeToken(v) == [kind |-> "size", value |-> v]
NumToken(c) == [kind |-> "num", cipher |-> c]

-----------------------------------------------------------------------------
(* The epochs of the two programs are separate literals.                   *)

ServerEpochs == N

\* Mutant: the literal of the client is changed and that of the server is not.
ClientEpochsMore == N + 1

ClientEpochs == N

Threshold == 2

\* A process that has closed its sockets.
Ended == {"done", "refused", "failed", "crashed"}
Gone(c) == cpc[c] \in Ended

Entry == [distance : Nat, word : Word, docs : Seq(DocId)]

Kinds == {"count", "head", "size", "num"}

Token == [kind : {"count", "size"}, value : Nat]
           \cup [kind : {"head"}, distance : Nat, cipher : WordCipher("sk_3")]
           \cup [kind : {"num"}, cipher : NumCipher("sk_3")]

TypeOK ==
  /\ cpc \in [Client -> {"start", "send"} \cup Kinds \cup Ended]
  /\ asked \in [Client -> Word]
  /\ left \in [Client -> Nat]
  /\ numsLeft \in [Client -> Nat]
  /\ lines \in [Client -> Seq(Entry)]
  /\ reports \in [Client -> Seq(Seq(Entry))]
  /\ backlog \in Seq(Client)
  /\ link \in [Client -> {"none", "open", "closed"}]
  /\ toServer \in [Client -> Seq(WordCipher("sk_3"))]
  /\ toClient \in [Client -> Seq(Token)]
  /\ spc \in {"accept", "recv", "fetch", "match", "write", "reenc", "down"}
  /\ conn \in Client \cup {NoClient}
  /\ epoch \in 0..(N - 1)
  /\ word \in WordCipher("sk_3") \cup {Garbage}
  /\ idx \in Nat
  /\ numIdx \in Nat
  /\ location \in Seq(DOMAIN cipherWordList)
  /\ distance_vtr \in Seq(Nat)
  /\ pending \in Seq(Token)
  /\ cipherWordList \in Seq(DOMAIN cipher_wordMap)
  /\ wordTable \in Seq(Keyword)

\* main has read the index file, encrypted it and called listen().
Init ==
  /\ cpc = [c \in Client |-> "start"]
  /\ asked \in [Client -> Word]
  /\ left = [c \in Client |-> 0]
  /\ numsLeft = [c \in Client |-> 0]
  /\ lines = [c \in Client |-> <<>>]
  /\ reports = [c \in Client |-> <<>>]
  /\ backlog = <<>>
  /\ link = [c \in Client |-> "none"]
  /\ toServer = [c \in Client |-> <<>>]
  /\ toClient = [c \in Client |-> <<>>]
  /\ spc = "accept"
  /\ conn = NoClient
  /\ epoch = 0
  /\ word = Garbage
  /\ idx = 0
  /\ numIdx = 0
  /\ location = <<>>
  /\ distance_vtr = <<>>
  /\ pending = <<>>
  /\ cipherWordList \in Bijection(1..Cardinality(Keyword), DOMAIN cipher_wordMap)
  /\ wordTable = <<>>

-----------------------------------------------------------------------------
(* Clients.                                                                *)

\* The kernel completes a connection while the accept queue has room: Linux
\* keeps one more than the argument of listen().
Connect(c) ==
  /\ cpc[c] = "start"
  /\ spc # "down"
  /\ Len(backlog) <= Backlog
  /\ backlog' = Append(backlog, c)
  /\ link' = [link EXCEPT ![c] = "open"]
  /\ cpc' = [cpc EXCEPT ![c] = "send"]
  /\ UNCHANGED <<asked, left, numsLeft, lines, reports, toServer, toClient, serverVars>>

\* Nobody listens, or the queue stays full until connect() times out.
ConnectFails(c) ==
  /\ cpc[c] = "start"
  /\ spc = "down" \/ Len(backlog) > Backlog
  /\ cpc' = [cpc EXCEPT ![c] = "refused"]
  /\ UNCHANGED <<asked, left, numsLeft, lines, reports, netVars, serverVars>>

\* The three writes of the request.  Writing to a server that is gone may be
\* lost or may end the client with SIGPIPE.
Send(c) ==
  /\ cpc[c] = "send"
  /\ \/ /\ link[c] = "open"
        /\ toServer' = [toServer EXCEPT ![c] = Append(@, Enc("sk_3", asked[c]))]
        /\ cpc' = [cpc EXCEPT ![c] = "count"]
     \/ /\ link[c] = "closed"
        /\ \E outcome \in {"count", "failed"} : cpc' = [cpc EXCEPT ![c] = outcome]
        /\ UNCHANGED toServer
  /\ UNCHANGED <<asked, left, numsLeft, lines, reports, backlog, link, toClient, serverVars>>

Incoming(c) == Head(toClient[c])

\* read() returns the next record, which the client takes for the kind it
\* expects.
Receives(c, kind) ==
  /\ cpc[c] = kind
  /\ toClient[c] # <<>>
  /\ Incoming(c).kind = kind
  /\ toClient' = [toClient EXCEPT ![c] = Tail(@)]

\* read() returns nothing: the client's variable keeps its initial value.
ReadsEof(c, kind) ==
  /\ cpc[c] = kind
  /\ toClient[c] = <<>>
  /\ link[c] = "closed"
  /\ UNCHANGED toClient

\* Mutant: the list of printed lines outlives the epoch.
EndEpochKeepsLines(c, answer) ==
  /\ reports' = [reports EXCEPT ![c] = Append(@, answer)]
  /\ lines' = [lines EXCEPT ![c] = answer]
  /\ cpc' = [cpc EXCEPT ![c] = IF Len(reports[c]) + 1 = ClientEpochs THEN "done" ELSE "send"]

\* The keyword loop is over: the next epoch, or close() after the last one.
EndEpoch(c, answer) ==
  /\ reports' = [reports EXCEPT ![c] = Append(@, answer)]
  /\ lines' = [lines EXCEPT ![c] = <<>>]
  /\ cpc' = [cpc EXCEPT ![c] = IF Len(reports[c]) + 1 = ClientEpochs THEN "done" ELSE "send"]

\* Mutant: the keyword loop ends one keyword early.
EndKeywordEarly(c, answer) ==
  /\ left' = [left EXCEPT ![c] = @ - 1]
  /\ IF left[c] \in {1, 2}
     THEN EndEpoch(c, answer)
     ELSE /\ lines' = [lines EXCEPT ![c] = answer]
          /\ cpc' = [cpc EXCEPT ![c] = "head"]
          /\ UNCHANGED reports

\* The line of one keyword is printed: the next keyword, or the next epoch.
EndKeyword(c, answer) ==
  /\ left' = [left EXCEPT ![c] = @ - 1]
  /\ IF left[c] = 1
     THEN EndEpoch(c, answer)
     ELSE /\ lines' = [lines EXCEPT ![c] = answer]
          /\ cpc' = [cpc EXCEPT ![c] = "head"]
          /\ UNCHANGED reports

TakeCount(c, v) ==
  IF v = 0
  THEN EndEpoch(c, <<>>) /\ UNCHANGED left
  ELSE /\ left' = [left EXCEPT ![c] = v]
       /\ cpc' = [cpc EXCEPT ![c] = "head"]
       /\ UNCHANGED <<lines, reports>>

ReadCount(c) ==
  /\ \/ Receives(c, "count") /\ TakeCount(c, Incoming(c).value)
     \/ ReadsEof(c, "count") /\ TakeCount(c, 0)
  /\ UNCHANGED <<asked, numsLeft, backlog, link, toServer, serverVars>>

\* Distance and keyword; a keyword that does not decrypt ends the client.
ReadHead(c) ==
  /\ Receives(c, "head")
  /\ IF Opens("sk_3", Incoming(c).cipher)
     THEN /\ lines' = [lines EXCEPT ![c] = Append(@,
                         [distance |-> Incoming(c).distance,
                          word |-> Incoming(c).cipher.text, docs |-> <<>>])]
          /\ cpc' = [cpc EXCEPT ![c] = "size"]
     ELSE cpc' = [cpc EXCEPT ![c] = "failed"] /\ UNCHANGED lines
  /\ UNCHANGED <<asked, left, numsLeft, reports, backlog, link, toServer, serverVars>>

TakeSize(c, v) ==
  IF v = 0
  THEN EndKeyword(c, lines[c]) /\ UNCHANGED numsLeft
  ELSE /\ numsLeft' = [numsLeft EXCEPT ![c] = v]
       /\ cpc' = [cpc EXCEPT ![c] = "num"]
       /\ UNCHANGED <<left, lines, reports>>

ReadSize(c) ==
  /\ \/ Receives(c, "size") /\ TakeSize(c, Incoming(c).value)
     \/ ReadsEof(c, "size") /\ TakeSize(c, 0)
  /\ UNCHANGED <<asked, backlog, link, toServer, serverVars>>

\* The line with one more document number at its end.
WithDoc(ls, d) == [ls EXCEPT ![Len(ls)].docs = Append(@, d)]

\* The numbers are decrypted when all of them are read; one that does not
\* decrypt ends the client.
ReadNum(c) ==
  /\ Receives(c, "num")
  /\ numsLeft' = [numsLeft EXCEPT ![c] = @ - 1]
  /\ IF ~Opens("sk_3", Incoming(c).cipher)
     THEN cpc' = [cpc EXCEPT ![c] = "failed"] /\ UNCHANGED <<left, lines, reports>>
     ELSE IF numsLeft[c] = 1
          THEN EndKeyword(c, WithDoc(lines[c], Incoming(c).cipher.text))
          ELSE /\ lines' = [lines EXCEPT ![c] = WithDoc(@, Incoming(c).cipher.text)]
               /\ UNCHANGED <<cpc, left, reports>>
  /\ UNCHANGED <<asked, backlog, link, toServer, serverVars>>

\* End of file where a ciphertext was expected: it does not decrypt, exit(-1).
ReadFails(c) ==
  /\ ReadsEof(c, "head") \/ ReadsEof(c, "num")
  /\ cpc' = [cpc EXCEPT ![c] = "failed"]
  /\ UNCHANGED <<asked, left, numsLeft, lines, reports, backlog, link, toServer, serverVars>>

ClientStep(c) ==
  \/ Connect(c) \/ ConnectFails(c) \/ Send(c)
  \/ ReadCount(c) \/ ReadHead(c) \/ ReadSize(c) \/ ReadNum(c) \/ ReadFails(c)

Crash(c) ==
  /\ c \in CanCrash
  /\ ~Gone(c)
  /\ cpc' = [cpc EXCEPT ![c] = "crashed"]
  /\ UNCHANGED <<asked, left, numsLeft, lines, reports, netVars, serverVars>>

-----------------------------------------------------------------------------
(* The server and the enclave it calls.                                    *)

\* The process ends: the kernel closes every connection, accepted or not.
ServerExit ==
  /\ spc' = "down"
  /\ link' = [c \in Client |-> IF link[c] = "open" THEN "closed" ELSE link[c]]

Accept ==
  /\ spc = "accept"
  /\ backlog # <<>>
  /\ conn' = Head(backlog)
  /\ backlog' = Tail(backlog)
  /\ epoch' = 0
  /\ spc' = "recv"
  /\ UNCHANGED <<clientVars, link, toServer, toClient, word, idx, numIdx, location,
                 distance_vtr, pending, cipherWordList, wordTable>>

\* Mutant: read() is repeated until it returns something.
ReadRequestRetries ==
  /\ spc = "recv"
  /\ \/ /\ toServer[conn] # <<>>
        /\ word' = Head(toServer[conn])
        /\ toServer' = [toServer EXCEPT ![conn] = Tail(@)]
        /\ spc' = "fetch"
     \/ /\ toServer[conn] = <<>> /\ Gone(conn)
        /\ UNCHANGED <<word, toServer, spc>>
  /\ UNCHANGED <<clientVars, backlog, link, toClient, conn, epoch, idx, numIdx, location,
                 distance_vtr, pending, cipherWordList, wordTable>>

\* The three reads of the request; their results are not looked at.
ReadRequest ==
  /\ spc = "recv"
  /\ \/ /\ toServer[conn] # <<>>
        /\ word' = Head(toServer[conn])
        /\ toServer' = [toServer EXCEPT ![conn] = Tail(@)]
     \/ /\ toServer[conn] = <<>> /\ Gone(conn)
        /\ word' = Garbage
        /\ UNCHANGED toServer
  /\ spc' = "fetch"
  /\ UNCHANGED <<clientVars, backlog, link, toClient, conn, epoch, idx, numIdx, location,
                 distance_vtr, pending, cipherWordList, wordTable>>

\* The ECALL of that name: the whole table is decrypted into the enclave.
fetch_table ==
  /\ spc = "fetch"
  /\ wordTable' = [k \in DOMAIN cipherWordList |->
                     IF Opens("sk_1", cipherWordList[k])
                     THEN cipherWordList[k].text ELSE wordTable[k]]
  /\ spc' = "match"
  /\ UNCHANGED <<clientVars, netVars, conn, epoch, word, idx, numIdx, location,
                 distance_vtr, pending, cipherWordList>>

\* What step_1 compares the table with: the decrypted request, or whatever the
\* buffer holds when the tag does not verify, for the code goes on.
Plaintexts(cipher) == IF Opens("sk_3", cipher) THEN {cipher.text} ELSE Word

Near(w) == {k \in DOMAIN wordTable : Dist[<<w, wordTable[k]>>] <= Threshold}
Exact(w) == {k \in DOMAIN wordTable : Dist[<<w, wordTable[k]>>] = 0}

\* Mutant: the near keywords are not sorted.
SortedNot(w) == UNION {Bijection(1..len, Near(w)) : len \in 0..Len(wordTable)}

\* The orders std::sort may leave the near keywords in.
Sorted(w) ==
  {s \in UNION {Bijection(1..len, Near(w)) : len \in 0..Len(wordTable)} :
     \A a, b \in DOMAIN s :
       a < b => Dist[<<w, wordTable[s[a]]>>] <= Dist[<<w, wordTable[s[b]]>>]}

\* Mutant: the positions are taken before the distances are sorted.
step_1BeforeSort ==
  /\ spc = "match"
  /\ \E w \in Plaintexts(word) :
       /\ \E s \in Sorted(w), t \in SortedNot(w) :
            /\ distance_vtr' = [k \in DOMAIN s |-> Dist[<<w, wordTable[s[k]]>>]]
            /\ \/ Exact(w) = {} /\ location' = t
               \/ \E last \in Exact(w) : location' = <<last>>
  /\ idx' = 0
  /\ pending' = <<CountToken(Len(location'))>>
  /\ spc' = "write"
  /\ UNCHANGED <<clientVars, netVars, conn, epoch, word, numIdx, cipherWordList, wordTable>>

\* The ECALL of that name.  On an exact match only that keyword is returned,
\* but the distances are those of all the near ones.
step_1 ==
  /\ spc = "match"
  /\ \E w \in Plaintexts(word) :
       /\ \E s \in Sorted(w) :
            /\ distance_vtr' = [k \in DOMAIN s |-> Dist[<<w, wordTable[s[k]]>>]]
            /\ \/ Exact(w) = {} /\ location' = s
               \/ \E last \in Exact(w) :
                    /\ \A k \in Exact(w) : k <= last
                    /\ location' = <<last>>
  /\ idx' = 0
  /\ pending' = <<CountToken(Len(location'))>>
  /\ spc' = "write"
  /\ UNCHANGED <<clientVars, netVars, conn, epoch, word, numIdx, cipherWordList, wordTable>>

\* The writes of one record.  A client that is gone makes them be lost, or end
\* the server with SIGPIPE.
WriteRecord ==
  /\ spc = "write"
  /\ pending # <<>>
  /\ pending' = Tail(pending)
  /\ \/ /\ ~Gone(conn)
        /\ toClient' = [toClient EXCEPT ![conn] = Append(@, Head(pending))]
        /\ UNCHANGED <<link, spc>>
     \/ /\ Gone(conn)
        /\ ServerExit \/ UNCHANGED <<link, spc>>
        /\ UNCHANGED toClient
  /\ UNCHANGED <<clientVars, backlog, toServer, conn, epoch, word, idx, numIdx, location,
                 distance_vtr, cipherWordList, wordTable>>

query_cipher_word == cipherWordList[location[idx + 1]]

\* Step 2: the table entry at the next position is looked up in the map.  A
\* miss is "Failed Search!" and exit(-1); step_3 starts by re-encrypting the
\* keyword that was found.
Lookup ==
  /\ spc = "write"
  /\ pending = <<>>
  /\ idx < Len(location)
  /\ IF query_cipher_word \in DOMAIN cipher_wordMap
     THEN /\ pending' = <<HeadToken(distance_vtr[idx + 1], Enc("sk_3", query_cipher_word.text)),
                          SizeToken(Len(cipher_wordMap[query_cipher_word]))>>
          /\ numIdx' = 0
          /\ spc' = "reenc"
          /\ UNCHANGED link
     ELSE ServerExit /\ UNCHANGED <<pending, numIdx>>
  /\ UNCHANGED <<clientVars, backlog, toServer, toClient, conn, epoch, word, idx, location,
                 distance_vtr, cipherWordList, wordTable>>

postings == cipher_wordMap[query_cipher_word]

\* One iteration of the loop of step_3: a number that does not decrypt is
\* dropped from the result.  The announced size has been set already.
step_3 ==
  /\ spc = "reenc"
  /\ numIdx < Len(postings)
  /\ numIdx' = numIdx + 1
  /\ pending' = IF OpensNumber(postings[numIdx + 1])
                THEN Append(pending, NumToken(Enc("sk_3", postings[numIdx + 1].text)))
                ELSE pending
  /\ UNCHANGED <<clientVars, netVars, spc, conn, epoch, word, idx, location,
                 distance_vtr, cipherWordList, wordTable>>

\* Mutant: the loop of step_3 may leave the last number out.
ReplyEarly ==
  /\ spc = "reenc"
  /\ numIdx + 1 >= Len(postings)
  /\ idx' = idx + 1
  /\ spc' = "write"
  /\ UNCHANGED <<clientVars, netVars, conn, epoch, word, numIdx, location,
                 distance_vtr, pending, cipherWordList, wordTable>>

\* step_3 returns; the next iteration of the server's loop comes after the
\* writes.
Reply ==
  /\ spc = "reenc"
  /\ numIdx = Len(postings)
  /\ idx' = idx + 1
  /\ spc' = "write"
  /\ UNCHANGED <<clientVars, netVars, conn, epoch, word, numIdx, location,
                 distance_vtr, pending, cipherWordList, wordTable>>

\* Mutant: the epoch counter is not advanced.
NextEpochForgets ==
  /\ spc = "write"
  /\ pending = <<>>
  /\ idx = Len(location)
  /\ spc' = "recv"
  /\ UNCHANGED <<clientVars, backlog, link, toServer, toClient, conn, epoch, word, idx,
                 numIdx, location, distance_vtr, pending, cipherWordList, wordTable>>

\* Mutant: one epoch too many.
NextEpochOneMore ==
  /\ spc = "write"
  /\ pending = <<>>
  /\ idx = Len(location)
  /\ epoch' = epoch + 1
  /\ spc' = IF epoch + 1 <= ServerEpochs THEN "recv" ELSE "accept"
  /\ UNCHANGED <<clientVars, backlog, link, toServer, toClient, conn, word, idx,
                 numIdx, location, distance_vtr, pending, cipherWordList, wordTable>>

\* All positions are served: the next epoch, or close() after the last one.
NextEpoch ==
  /\ spc = "write"
  /\ pending = <<>>
  /\ idx = Len(location)
  /\ IF epoch + 1 < ServerEpochs
     THEN /\ epoch' = epoch + 1
          /\ spc' = "recv"
          /\ UNCHANGED <<conn, link>>
     ELSE /\ spc' = "accept"
          /\ link' = [link EXCEPT ![conn] = "closed"]
          /\ conn' = NoClient
          /\ UNCHANGED epoch
  /\ UNCHANGED <<clientVars, backlog, toServer, toClient, word, idx, numIdx, location,
                 distance_vtr, pending, cipherWordList, wordTable>>

ServerStep ==
  \/ Accept \/ ReadRequest \/ fetch_table \/ step_1 \/ WriteRecord
  \/ Lookup \/ step_3 \/ Reply \/ NextEpoch

Stop ==
  /\ ServerMayStop
  /\ spc # "down"
  /\ ServerExit
  /\ UNCHANGED <<clientVars, backlog, toServer, toClient, conn, epoch, word, idx, numIdx,
                 location, distance_vtr, pending, cipherWordList, wordTable>>

\* Every client process has ended and the server waits in accept(), or is down.
Finished ==
  /\ \A c \in Client : Gone(c)
  /\ spc = "down" \/ (spc = "accept" /\ backlog = <<>>)
  /\ UNCHANGED vars

Next ==
  \/ ServerStep
  \/ Stop
  \/ \E c \in Client : ClientStep(c) \/ Crash(c)
  \/ Finished

Spec == Init /\ [][Next]_vars

\* The programs keep running while they can; nobody has to crash.
FairSpec ==
  /\ Spec
  /\ WF_vars(ServerStep)
  /\ \A c \in Client : WF_vars(ClientStep(c))

-----------------------------------------------------------------------------
(* Properties.                                                             *)

\* The byte streams stay aligned: what a client reads next is what the server
\* wrote at that place of the protocol.  Neither program checks it; a misread
\* size or count would shift every later read (client.cpp:103-149).
InSync ==
  \A c \in Client :
    cpc[c] \in Kinds /\ toClient[c] # <<>> => Incoming(c).kind = cpc[c]

\* At most one request is under way, and never while an answer is: both sides
\* use blocking writes, and would wait for each other forever if both
\* directions could fill up.
HalfDuplex ==
  \A c \in Client :
    /\ Len(toServer[c]) <= 1
    /\ toServer[c] # <<>> => toClient[c] = <<>>

\* The two result arrays of step_1 and the server's table fit together: the
\* ciphertext at a returned position is a key of the map, it is the keyword the
\* enclave compared there, and the distance stored at the same index is the
\* distance of that keyword (Enclave.cpp:360-376, server.cpp:399-413, 476).
MatchesBelongTogether ==
  spc \in {"write", "reenc"} /\ word # Garbage =>
    \A k \in DOMAIN location :
      /\ cipherWordList[location[k]] \in DOMAIN cipher_wordMap
      /\ cipherWordList[location[k]].text = wordTable[location[k]]
      /\ k \in DOMAIN distance_vtr
      /\ distance_vtr[k] = Dist[<<asked[conn], wordTable[location[k]]>>]

\* No client waits forever, in the accept queue or for a record
\* (client.cpp:104-147); it prints its answers or stops with an error.
EveryClientEnds == \A c \in Client : <>Gone(c)

\* No connection keeps the server forever: it is back in accept(), or down,
\* whatever happens to its client (server.cpp:353-512).
SessionEnds == []<>(spc \in {"accept", "down"})

\* What the promise says of a client process: being killed is failing.
Status(c) ==
  IF cpc[c] \in {"failed", "crashed"} THEN "failed"
  ELSE IF cpc[c] \in {"done", "refused"} THEN cpc[c] ELSE "asking"

Promise ==
  INSTANCE Search WITH
    status <- [c \in Client |-> Status(c)],
    serving <- spc # "down"

\* The service implements its promise: every printed answer is a correct one
\* unless the service was out, and only failing processes put it out.
PromiseKept == Promise!Spec

\* A claim of a comment of the code (Enclave.cpp:179-180): "a positive return
\* value indicates success, anything else is a failure - the plaintext is not
\* trustworthy".  A request that does not decrypt should not be answered.
UntrustedPlaintextUnused ==
  spc \in {"write", "reenc"} /\ word = Garbage => location = <<>>

\* A claim of a comment of the code (client.cpp:135): the announced size is
\* "the number of index to be processed".
AnnouncedIsSent ==
  spc = "write" /\ Len(pending) > 1 /\ Head(pending).kind = "head" =>
    pending[2].value = Len(pending) - 2
=============================================================================
