----------------------------- MODULE SSEProofs -----------------------------
(***************************************************************************)
(* The search service: what holds for any index and any faults, and then   *)
(* that the service implements its promise, Search, when every document    *)
(* number of the index has eight digits: the streams stay aligned, and     *)
(* what a client reads from them is an answer to the word it asked.        *)
(***************************************************************************)
EXTENDS SSE, SequenceTheorems, FiniteSetTheorems, TLAPS

\* What the counters of a client say of the records it still expects, and that
\* there is a line the numbers it reads belong to.
CountersOK ==
  \A c \in Client :
    /\ cpc[c] \in {"head", "size", "num"} => left[c] > 0
    /\ cpc[c] = "num" => numsLeft[c] > 0
    /\ cpc[c] \in {"size", "num"} => lines[c] # <<>>

\* Between accept() and close() there is a client.
ConnOK == spc \notin {"accept", "down"} => conn \in Client

\* The enclave's table is the decrypted index.
TableOK ==
  /\ spc \in {"match", "write", "reenc"} => DOMAIN wordTable = DOMAIN cipherWordList
  /\ \A k \in DOMAIN wordTable :
       k \in DOMAIN cipherWordList /\ wordTable[k] = cipherWordList[k].text

\* Every position has a distance, and step_3 works at a position.
ResultOK ==
  /\ spc \in {"write", "reenc"} => Len(location) <= Len(distance_vtr)
  /\ spc = "reenc" => idx < Len(location)

\* A request is the word of the client that sent it.
RequestOK ==
  /\ \A c \in Client :
       \A k \in DOMAIN toServer[c] : toServer[c][k] = Enc("sk_3", asked[c])
  /\ spc \in {"fetch", "match", "write", "reenc"} =>
       word = Garbage \/ word = Enc("sk_3", asked[conn])

IInv == TypeOK /\ CountersOK /\ ConnOK /\ TableOK /\ ResultOK /\ RequestOK /\ MatchesBelongTogether

-----------------------------------------------------------------------------
(* Facts about the constants and the operators.                            *)

LEMMA DistFacts ==
  ASSUME NEW v \in Word, NEW w \in Word
  PROVE  Dist[<<v, w>>] \in Nat
BY DistAssumption

LEMMA MapFacts ==
  /\ DOMAIN cipher_wordMap = {Enc("sk_1", k) : k \in Keyword}
  /\ \A c \in DOMAIN cipher_wordMap :
       /\ c.key = "sk_1" /\ c.text \in Keyword /\ c.text \in Word
       /\ cipher_wordMap[c] \in Seq(NumCipher("sk_2"))
<1>1. DOMAIN cipher_wordMap = {Enc("sk_1", k) : k \in Keyword}
  BY DEF cipher_wordMap
<1>2. ASSUME NEW c \in DOMAIN cipher_wordMap
      PROVE  /\ c.key = "sk_1" /\ c.text \in Keyword /\ c.text \in Word
             /\ cipher_wordMap[c] \in Seq(NumCipher("sk_2"))
  <2>1. PICK k \in Keyword : c = Enc("sk_1", k)
    BY <1>1
  <2>2. c.key = "sk_1" /\ c.text = k
    BY <2>1 DEF Enc
  <2>3. Docs[k] \in Seq(DocId)
    BY DocsAssumption
  <2>4. cipher_wordMap[c] = [d \in DOMAIN Docs[k] |-> Enc("sk_2", Docs[k][d])]
    BY <1>1, <2>1, <2>2 DEF cipher_wordMap
  <2>5. \A d \in 1..Len(Docs[k]) : Enc("sk_2", Docs[k][d]) \in NumCipher("sk_2")
    BY <2>3 DEF Enc, NumCipher
  <2>6. cipher_wordMap[c] \in [1..Len(Docs[k]) -> NumCipher("sk_2")]
    BY <2>3, <2>4, <2>5
  <2> QED
    BY <2>2, <2>3, <2>6, KeywordAssumption
<1> QED
  BY <1>1, <1>2

LEMMA TokenFacts ==
  /\ \A v \in Nat : CountToken(v) \in Token /\ SizeToken(v) \in Token
  /\ \A d \in Nat, c \in WordCipher("sk_3") : HeadToken(d, c) \in Token
  /\ \A c \in NumCipher("sk_3") : NumToken(c) \in Token
  /\ \A t \in Token :
       /\ t.kind \in {"count", "size"} => t.value \in Nat
       /\ t.kind = "head" => t.distance \in Nat /\ t.cipher \in WordCipher("sk_3")
       /\ t.kind = "num" => t.cipher \in NumCipher("sk_3")
BY DEF Token, CountToken, SizeToken, HeadToken, NumToken

LEMMA CipherFacts ==
  /\ \A key, text : Enc(key, text).key = key /\ Enc(key, text).text = text
  /\ \A key : \A w \in Word : Enc(key, w) \in WordCipher(key)
  /\ \A key : \A d \in DocId : Enc(key, d) \in NumCipher(key)
  /\ \A key : \A c \in WordCipher(key) : c.key = key /\ c.text \in Word
  /\ \A key : \A c \in NumCipher(key) : c.key = key /\ c.text \in DocId
BY DEF Enc, WordCipher, NumCipher

LEMMA HeadOfSeq ==
  ASSUME NEW S, NEW s \in Seq(S), s # <<>>
  PROVE  Head(s) \in S /\ Tail(s) \in Seq(S)
BY HeadTailProperties

\* A line stays a line when a number is added to its end.
LEMMA WithDocType ==
  ASSUME NEW ls \in Seq(Entry), ls # <<>>, NEW d \in DocId
  PROVE  WithDoc(ls, d) \in Seq(Entry) /\ WithDoc(ls, d) # <<>>
<1>1. Len(ls) \in 1..Len(ls) /\ ls[Len(ls)] \in Entry
  OBVIOUS
<1>2. [ls[Len(ls)] EXCEPT !.docs = Append(@, d)] \in Entry
  BY <1>1, AppendProperties DEF Entry
<1>3. WithDoc(ls, d) \in [1..Len(ls) -> Entry]
  BY <1>1, <1>2 DEF WithDoc
<1> QED
  BY <1>1, <1>3

-----------------------------------------------------------------------------
(* The steps of a client.                                                  *)

\* A client step disturbs the client's own records, its connection and the
\* accept queue only.
LEMMA ClientKeepsServer ==
  ASSUME IInv, TypeOK', CountersOK', UNCHANGED <<serverVars, asked>>,
         \A c \in Client : \A k \in DOMAIN toServer'[c] : toServer'[c][k] = Enc("sk_3", asked[c])
  PROVE  IInv'
<1>1. ConnOK'
  BY DEF IInv, ConnOK, serverVars
<1>2. TableOK'
  BY DEF IInv, TableOK, serverVars
<1>3. ResultOK'
  BY DEF IInv, ResultOK, serverVars
<1>4. RequestOK'
  BY DEF IInv, RequestOK, serverVars, Enc, Garbage
<1>5. MatchesBelongTogether'
  BY DEF IInv, MatchesBelongTogether, serverVars, cipher_wordMap, Garbage, Enc
<1> QED
  BY <1>1, <1>2, <1>3, <1>4, <1>5 DEF IInv

LEMMA ConnectStep == ASSUME IInv, NEW c \in Client, Connect(c) PROVE IInv'
<1>1. TypeOK'
  <2>1. backlog' \in Seq(Client)
    BY AppendProperties DEF IInv, TypeOK, Connect
  <2> QED
    BY <2>1 DEF IInv, TypeOK, Connect, serverVars, cipher_wordMap
<1>2. CountersOK'
  BY DEF IInv, TypeOK, CountersOK, Connect
<1> QED
  BY <1>1, <1>2, ClientKeepsServer DEF IInv, RequestOK, Connect

LEMMA ConnectFailsStep == ASSUME IInv, NEW c \in Client, ConnectFails(c) PROVE IInv'
<1>1. TypeOK'
  BY DEF IInv, TypeOK, ConnectFails, serverVars, netVars, cipher_wordMap, Ended
<1>2. CountersOK'
  BY DEF IInv, TypeOK, CountersOK, ConnectFails
<1> QED
  BY <1>1, <1>2, ClientKeepsServer DEF IInv, RequestOK, ConnectFails, netVars

LEMMA CrashStep == ASSUME IInv, NEW c \in Client, Crash(c) PROVE IInv'
<1>1. TypeOK'
  BY DEF IInv, TypeOK, Crash, serverVars, netVars, cipher_wordMap, Ended
<1>2. CountersOK'
  BY DEF IInv, TypeOK, CountersOK, Crash
<1> QED
  BY <1>1, <1>2, ClientKeepsServer DEF IInv, RequestOK, Crash, netVars

LEMMA SendStep == ASSUME IInv, NEW c \in Client, Send(c) PROVE IInv'
<1>1. Enc("sk_3", asked[c]) \in WordCipher("sk_3")
  <2>1. asked[c] \in Word
    BY DEF IInv, TypeOK
  <2> QED
    BY <2>1, CipherFacts
<1>2. toServer' \in [Client -> Seq(WordCipher("sk_3"))]
  <2>1. toServer[c] \in Seq(WordCipher("sk_3"))
    BY DEF IInv, TypeOK
  <2>2. Append(toServer[c], Enc("sk_3", asked[c])) \in Seq(WordCipher("sk_3"))
    BY <1>1, <2>1, AppendProperties
  <2> QED
    BY <2>2 DEF IInv, TypeOK, Send
<1>3. TypeOK'
  BY <1>2 DEF IInv, TypeOK, Send, serverVars, cipher_wordMap, Kinds, Ended
<1>4. CountersOK'
  BY DEF IInv, TypeOK, CountersOK, Send
<1>5. ASSUME NEW d \in Client, NEW k \in DOMAIN toServer'[d]
      PROVE  toServer'[d][k] = Enc("sk_3", asked[d])
  <2>1. CASE toServer' = toServer
    BY <1>5, <2>1 DEF IInv, RequestOK
  <2>2. CASE toServer' = [toServer EXCEPT ![c] = Append(@, Enc("sk_3", asked[c]))]
    <3>1. CASE d # c
      BY <1>5, <2>2, <3>1 DEF IInv, TypeOK, RequestOK
    <3>2. CASE d = c
      <4>1. toServer[c] \in Seq(WordCipher("sk_3"))
        BY DEF IInv, TypeOK
      <4>2. toServer'[c] = Append(toServer[c], Enc("sk_3", asked[c]))
        BY <2>2 DEF IInv, TypeOK
      <4> QED
        BY <1>1, <1>5, <3>2, <4>1, <4>2, AppendProperties DEF IInv, RequestOK
    <3> QED
      BY <3>1, <3>2
  <2> QED
    BY <2>1, <2>2 DEF Send
<1> QED
  BY <1>3, <1>4, <1>5, ClientKeepsServer DEF Send

\* The record a client reads.
LEMMA ReceiveFacts ==
  ASSUME IInv, NEW c \in Client, NEW kind, Receives(c, kind)
  PROVE  /\ Incoming(c) \in Token
         /\ Incoming(c).kind = kind
         /\ toClient' \in [Client -> Seq(Token)]
<1>1. toClient[c] \in Seq(Token) /\ toClient[c] # <<>>
  BY DEF IInv, TypeOK, Receives
<1>2. Head(toClient[c]) \in Token /\ Tail(toClient[c]) \in Seq(Token)
  BY <1>1, HeadOfSeq
<1> QED
  BY <1>2 DEF IInv, TypeOK, Receives, Incoming

\* Printing an answer, or a line of it, keeps the client's records in order.
LEMMA EndEpochFacts ==
  ASSUME IInv, NEW c \in Client, NEW answer \in Seq(Entry), EndEpoch(c, answer)
  PROVE  /\ cpc' \in [Client -> {"start", "send"} \cup Kinds \cup Ended]
         /\ lines' \in [Client -> Seq(Entry)]
         /\ reports' \in [Client -> Seq(Seq(Entry))]
         /\ \A d \in Client : cpc'[d] \in {"head", "size", "num"} =>
              d # c /\ cpc'[d] = cpc[d] /\ lines'[d] = lines[d]
<1>1. \A d \in Client : reports[d] \in Seq(Seq(Entry))
  BY DEF IInv, TypeOK
<1>2. Append(reports[c], answer) \in Seq(Seq(Entry))
  BY <1>1, AppendProperties
<1>3. <<>> \in Seq(Entry)
  OBVIOUS
<1>4. reports' \in [Client -> Seq(Seq(Entry))]
  BY <1>2 DEF IInv, TypeOK, EndEpoch
<1>5. lines' \in [Client -> Seq(Entry)]
  BY <1>3 DEF IInv, TypeOK, EndEpoch
<1>6. cpc' \in [Client -> {"start", "send"} \cup Kinds \cup Ended]
  BY DEF IInv, TypeOK, EndEpoch, Ended
<1>7. \A d \in Client : cpc'[d] \in {"head", "size", "num"} =>
        d # c /\ cpc'[d] = cpc[d] /\ lines'[d] = lines[d]
  BY DEF IInv, TypeOK, EndEpoch
<1> QED
  BY <1>4, <1>5, <1>6, <1>7

LEMMA EndKeywordFacts ==
  ASSUME IInv, NEW c \in Client, NEW answer \in Seq(Entry), EndKeyword(c, answer), left[c] > 0
  PROVE  /\ cpc' \in [Client -> {"start", "send"} \cup Kinds \cup Ended]
         /\ left' \in [Client -> Nat]
         /\ lines' \in [Client -> Seq(Entry)]
         /\ reports' \in [Client -> Seq(Seq(Entry))]
         /\ \A d \in Client : cpc'[d] \in {"head", "size", "num"} =>
              /\ left'[d] > 0
              /\ cpc'[d] \in {"size", "num"} => d # c /\ cpc'[d] = cpc[d] /\ lines'[d] = lines[d]
<1>1. left[c] \in Nat /\ left \in [Client -> Nat]
  BY DEF IInv, TypeOK
<1>2. left' \in [Client -> Nat] /\ \A d \in Client : d # c => left'[d] = left[d]
  BY <1>1 DEF EndKeyword
<1>3. CASE left[c] = 1
  <2>1. EndEpoch(c, answer)
    BY <1>3 DEF EndKeyword
  <2> QED
    BY <1>2, <2>1, EndEpochFacts DEF IInv, CountersOK
<1>4. CASE left[c] # 1
  <2>1. /\ left'[c] > 0
        /\ lines' = [lines EXCEPT ![c] = answer]
        /\ cpc' = [cpc EXCEPT ![c] = "head"]
        /\ reports' = reports
    BY <1>1, <1>4 DEF EndKeyword
  <2> QED
    BY <1>2, <2>1 DEF IInv, TypeOK, CountersOK, Kinds
<1> QED
  BY <1>3, <1>4

LEMMA ReadCountStep == ASSUME IInv, NEW c \in Client, ReadCount(c) PROVE IInv'
<1>1. PICK v \in Nat : TakeCount(c, v) /\ toClient' \in [Client -> Seq(Token)]
  <2>1. CASE Receives(c, "count") /\ TakeCount(c, Incoming(c).value)
    BY <2>1, ReceiveFacts, TokenFacts
  <2>2. CASE ReadsEof(c, "count") /\ TakeCount(c, 0)
    BY <2>2 DEF ReadsEof, IInv, TypeOK
  <2> QED
    BY <2>1, <2>2 DEF ReadCount
<1>2. <<>> \in Seq(Entry)
  OBVIOUS
<1>3. /\ cpc' \in [Client -> {"start", "send"} \cup Kinds \cup Ended]
      /\ left' \in [Client -> Nat]
      /\ lines' \in [Client -> Seq(Entry)]
      /\ reports' \in [Client -> Seq(Seq(Entry))]
      /\ \A d \in Client : cpc'[d] \in {"head", "size", "num"} =>
           /\ left'[d] > 0
           /\ cpc'[d] \in {"size", "num"} => cpc'[d] = cpc[d] /\ lines'[d] = lines[d]
  <2>1. CASE v = 0
    <3>1. EndEpoch(c, <<>>) /\ left' = left
      BY <1>1, <2>1 DEF TakeCount
    <3> QED
      BY <1>2, <3>1, EndEpochFacts DEF IInv, TypeOK, CountersOK
  <2>2. CASE v # 0
    <3>1. /\ left' = [left EXCEPT ![c] = v]
          /\ cpc' = [cpc EXCEPT ![c] = "head"]
          /\ lines' = lines /\ reports' = reports
      BY <1>1, <2>2 DEF TakeCount
    <3>2. v > 0
      BY <2>2
    <3>3. /\ cpc' \in [Client -> {"start", "send"} \cup Kinds \cup Ended]
          /\ left' \in [Client -> Nat]
          /\ lines' \in [Client -> Seq(Entry)]
          /\ reports' \in [Client -> Seq(Seq(Entry))]
      BY <3>1 DEF IInv, TypeOK, Kinds
    <3>4. ASSUME NEW d \in Client, cpc'[d] \in {"head", "size", "num"}
          PROVE  /\ left'[d] > 0
                 /\ cpc'[d] \in {"size", "num"} => cpc'[d] = cpc[d] /\ lines'[d] = lines[d]
      BY <3>1, <3>2, <3>4 DEF IInv, TypeOK, CountersOK
    <3> QED
      BY <3>3, <3>4
  <2> QED
    BY <2>1, <2>2
<1>4. TypeOK'
  BY <1>1, <1>3 DEF IInv, TypeOK, ReadCount, serverVars, cipher_wordMap
<1>5. CountersOK'
  BY <1>3 DEF IInv, CountersOK, ReadCount
<1> QED
  BY <1>4, <1>5, ClientKeepsServer DEF IInv, RequestOK, ReadCount

LEMMA ReadHeadStep == ASSUME IInv, NEW c \in Client, ReadHead(c) PROVE IInv'
<1>1. /\ Incoming(c) \in Token /\ Incoming(c).kind = "head"
      /\ toClient' \in [Client -> Seq(Token)]
      /\ cpc[c] = "head"
  BY ReceiveFacts DEF ReadHead, Receives
<1> DEFINE line == [distance |-> Incoming(c).distance,
                    word |-> Incoming(c).cipher.text, docs |-> <<>>]
<1>2. line \in Entry
  <2>1. Incoming(c).distance \in Nat /\ Incoming(c).cipher \in WordCipher("sk_3")
    BY <1>1, TokenFacts
  <2>2. Incoming(c).cipher.text \in Word
    BY <2>1, CipherFacts
  <2> QED
    BY <2>1, <2>2 DEF Entry
<1>3. Append(lines[c], line) \in Seq(Entry) /\ Append(lines[c], line) # <<>>
  <2>1. lines[c] \in Seq(Entry)
    BY DEF IInv, TypeOK
  <2> HIDE DEF line
  <2> QED
    BY <1>2, <2>1, AppendProperties
<1>4. \/ /\ lines' = [lines EXCEPT ![c] = Append(@, line)]
         /\ cpc' = [cpc EXCEPT ![c] = "size"]
      \/ /\ lines' = lines
         /\ cpc' = [cpc EXCEPT ![c] = "failed"]
  BY DEF ReadHead
<1> HIDE DEF line
<1>5. /\ cpc' \in [Client -> {"start", "send"} \cup Kinds \cup Ended]
      /\ lines' \in [Client -> Seq(Entry)]
  BY <1>3, <1>4 DEF IInv, TypeOK, Kinds, Ended
<1>6. TypeOK'
  BY <1>1, <1>5 DEF IInv, TypeOK, ReadHead, serverVars, cipher_wordMap
<1>7. CountersOK'
  BY <1>1, <1>3, <1>4 DEF IInv, TypeOK, CountersOK, ReadHead
<1> QED
  BY <1>6, <1>7, ClientKeepsServer DEF IInv, RequestOK, ReadHead

LEMMA ReadSizeStep == ASSUME IInv, NEW c \in Client, ReadSize(c) PROVE IInv'
<1>1. PICK v \in Nat : TakeSize(c, v) /\ toClient' \in [Client -> Seq(Token)]
  <2>1. CASE Receives(c, "size") /\ TakeSize(c, Incoming(c).value)
    BY <2>1, ReceiveFacts, TokenFacts
  <2>2. CASE ReadsEof(c, "size") /\ TakeSize(c, 0)
    BY <2>2 DEF ReadsEof, IInv, TypeOK
  <2> QED
    BY <2>1, <2>2 DEF ReadSize
<1>2. cpc[c] = "size" /\ left[c] > 0 /\ lines[c] \in Seq(Entry) /\ lines[c] # <<>>
  BY DEF ReadSize, Receives, ReadsEof, IInv, TypeOK, CountersOK
<1>3. CASE v = 0
  <2>1. EndKeyword(c, lines[c]) /\ numsLeft' = numsLeft
    BY <1>1, <1>3 DEF TakeSize
  <2>2. TypeOK'
    BY <1>1, <1>2, <2>1, EndKeywordFacts DEF IInv, TypeOK, ReadSize, serverVars, cipher_wordMap
  <2>3. CountersOK'
    BY <1>2, <2>1, EndKeywordFacts DEF IInv, CountersOK
  <2> QED
    BY <2>2, <2>3, ClientKeepsServer DEF IInv, RequestOK, ReadSize
<1>4. CASE v # 0
  <2>1. /\ numsLeft' = [numsLeft EXCEPT ![c] = v]
        /\ cpc' = [cpc EXCEPT ![c] = "num"]
        /\ left' = left /\ lines' = lines /\ reports' = reports
    BY <1>1, <1>4 DEF TakeSize
  <2>2. TypeOK'
    BY <1>1, <2>1 DEF IInv, TypeOK, ReadSize, serverVars, cipher_wordMap, Kinds
  <2>3. CountersOK'
    BY <1>1, <1>2, <1>4, <2>1 DEF IInv, TypeOK, CountersOK
  <2> QED
    BY <2>2, <2>3, ClientKeepsServer DEF IInv, RequestOK, ReadSize
<1> QED
  BY <1>3, <1>4

LEMMA ReadNumStep == ASSUME IInv, NEW c \in Client, ReadNum(c) PROVE IInv'
<1> DEFINE longer == WithDoc(lines[c], Incoming(c).cipher.text)
<1>1. /\ Incoming(c) \in Token /\ Incoming(c).kind = "num"
      /\ toClient' \in [Client -> Seq(Token)]
      /\ cpc[c] = "num" /\ numsLeft[c] > 0 /\ left[c] > 0
  BY ReceiveFacts DEF ReadNum, Receives, IInv, CountersOK
<1>2. longer \in Seq(Entry) /\ longer # <<>>
  <2>1. Incoming(c).cipher \in NumCipher("sk_3")
    BY <1>1, TokenFacts
  <2>2. Incoming(c).cipher.text \in DocId
    BY <2>1, CipherFacts
  <2>3. lines[c] \in Seq(Entry) /\ lines[c] # <<>>
    BY <1>1 DEF IInv, TypeOK, CountersOK
  <2> QED
    BY <2>2, <2>3, WithDocType
<1>3. numsLeft' \in [Client -> Nat] /\ \A d \in Client \ {c} : numsLeft'[d] = numsLeft[d]
  <2> HIDE DEF longer
  <2>1. numsLeft[c] \in Nat /\ numsLeft[c] - 1 \in Nat
    <3>1. numsLeft[c] \in Nat
      BY DEF IInv, TypeOK
    <3> QED
      BY <1>1, <3>1
  <2>2. numsLeft' = [numsLeft EXCEPT ![c] = numsLeft[c] - 1]
    BY DEF ReadNum
  <2> QED
    BY <2>1, <2>2 DEF IInv, TypeOK
<1>4. CASE ~Opens("sk_3", Incoming(c).cipher)
  <2>1. cpc' = [cpc EXCEPT ![c] = "failed"] /\ left' = left /\ lines' = lines /\ reports' = reports
    BY <1>4 DEF ReadNum
  <2>2. TypeOK'
    BY <1>1, <1>3, <2>1 DEF IInv, TypeOK, ReadNum, serverVars, cipher_wordMap, Ended
  <2>3. CountersOK'
    BY <1>3, <2>1 DEF IInv, TypeOK, CountersOK
  <2> QED
    BY <2>2, <2>3, ClientKeepsServer DEF IInv, RequestOK, ReadNum
<1>5. CASE Opens("sk_3", Incoming(c).cipher) /\ numsLeft[c] = 1
  <2>1. EndKeyword(c, longer)
    BY <1>5 DEF ReadNum
  <2> HIDE DEF longer
  <2>2. TypeOK'
    BY <1>1, <1>2, <1>3, <2>1, EndKeywordFacts
    DEF IInv, TypeOK, ReadNum, serverVars, cipher_wordMap
  <2>3. CountersOK'
    BY <1>1, <1>2, <1>3, <2>1, EndKeywordFacts DEF IInv, CountersOK
  <2> QED
    BY <2>2, <2>3, ClientKeepsServer DEF IInv, RequestOK, ReadNum
<1>6. CASE Opens("sk_3", Incoming(c).cipher) /\ numsLeft[c] # 1
  <2>1. lines' = [lines EXCEPT ![c] = longer] /\ cpc' = cpc /\ left' = left /\ reports' = reports
    BY <1>6 DEF ReadNum
  <2>2. numsLeft'[c] > 0
    BY <1>1, <1>6 DEF IInv, TypeOK, ReadNum
  <2> HIDE DEF longer
  <2>3. TypeOK'
    BY <1>1, <1>2, <1>3, <2>1 DEF IInv, TypeOK, ReadNum, serverVars, cipher_wordMap
  <2>4. CountersOK'
    BY <1>2, <1>3, <2>1, <2>2 DEF IInv, TypeOK, CountersOK
  <2> QED
    BY <2>3, <2>4, ClientKeepsServer DEF IInv, RequestOK, ReadNum
<1> QED
  BY <1>4, <1>5, <1>6

LEMMA ReadFailsStep == ASSUME IInv, NEW c \in Client, ReadFails(c) PROVE IInv'
<1>1. TypeOK'
  BY DEF IInv, TypeOK, ReadFails, ReadsEof, serverVars, cipher_wordMap, Ended
<1>2. CountersOK'
  BY DEF IInv, TypeOK, CountersOK, ReadFails
<1> QED
  BY <1>1, <1>2, ClientKeepsServer DEF IInv, RequestOK, ReadFails

-----------------------------------------------------------------------------
(* The steps of the server.                                                *)

\* A server step leaves the clients' own records alone.
LEMMA ServerKeepsCounters ==
  ASSUME IInv, UNCHANGED clientVars
  PROVE  CountersOK'
BY DEF IInv, CountersOK, clientVars

LEMMA AcceptStep == ASSUME IInv, Accept PROVE IInv'
<1>1. Head(backlog) \in Client /\ Tail(backlog) \in Seq(Client)
  BY HeadOfSeq DEF IInv, TypeOK, Accept
<1>2. TypeOK'
  <2>1. 0 \in 0..(N - 1)
    BY BoundAssumption
  <2>2. epoch' \in 0..(N - 1)
    BY <2>1 DEF Accept
  <2> QED
    BY <1>1, <2>2 DEF IInv, TypeOK, Accept, clientVars, cipher_wordMap
<1>3. CountersOK'
  BY ServerKeepsCounters DEF Accept
<1>4. ConnOK' /\ TableOK' /\ ResultOK'
  BY <1>1 DEF IInv, ConnOK, TableOK, ResultOK, Accept
<1>5. RequestOK'
  BY DEF IInv, RequestOK, Accept, clientVars, Enc, Garbage
<1>6. MatchesBelongTogether'
  BY DEF MatchesBelongTogether, Accept
<1> QED
  BY <1>2, <1>3, <1>4, <1>5, <1>6 DEF IInv

LEMMA ReadRequestStep == ASSUME IInv, ReadRequest PROVE IInv'
<1>1. conn \in Client
  BY DEF IInv, ConnOK, ReadRequest
<1>2. toServer[conn] \in Seq(WordCipher("sk_3"))
  BY <1>1 DEF IInv, TypeOK
<1>3. /\ toServer' \in [Client -> Seq(WordCipher("sk_3"))]
      /\ word' = Garbage \/ (word' \in WordCipher("sk_3") /\ word' = Enc("sk_3", asked[conn]))
      /\ \A c \in Client : \A k \in DOMAIN toServer'[c] : toServer'[c][k] = Enc("sk_3", asked[c])
  <2>1. CASE /\ toServer[conn] # <<>>
             /\ word' = Head(toServer[conn])
             /\ toServer' = [toServer EXCEPT ![conn] = Tail(@)]
    <3>1. /\ Head(toServer[conn]) \in WordCipher("sk_3")
          /\ Tail(toServer[conn]) \in Seq(WordCipher("sk_3"))
      BY <1>2, <2>1, HeadOfSeq
    <3>2. Head(toServer[conn]) = toServer[conn][1] /\ 1 \in DOMAIN toServer[conn]
      BY <1>2, <2>1
    <3>3. \A k \in DOMAIN Tail(toServer[conn]) :
            /\ k + 1 \in DOMAIN toServer[conn]
            /\ Tail(toServer[conn])[k] = toServer[conn][k + 1]
      BY <1>2, <2>1
    <3> QED
      BY <1>1, <2>1, <3>1, <3>2, <3>3 DEF IInv, TypeOK, RequestOK
  <2>2. CASE word' = Garbage /\ toServer' = toServer
    BY <2>2 DEF IInv, TypeOK, RequestOK
  <2> QED
    BY <2>1, <2>2 DEF ReadRequest
<1>4. TypeOK'
  BY <1>3 DEF IInv, TypeOK, ReadRequest, clientVars, cipher_wordMap
<1>5. CountersOK'
  BY ServerKeepsCounters DEF ReadRequest
<1>6. ConnOK' /\ TableOK' /\ ResultOK'
  BY <1>1 DEF IInv, ConnOK, TableOK, ResultOK, ReadRequest
<1>7. RequestOK'
  BY <1>3 DEF IInv, RequestOK, ReadRequest, clientVars, Enc, Garbage
<1>8. MatchesBelongTogether'
  BY DEF MatchesBelongTogether, ReadRequest
<1> QED
  BY <1>4, <1>5, <1>6, <1>7, <1>8 DEF IInv

\* Every entry of the index decrypts with sk_1.
LEMMA ListFacts ==
  ASSUME IInv, NEW k \in DOMAIN cipherWordList
  PROVE  /\ cipherWordList[k] \in DOMAIN cipher_wordMap
         /\ Opens("sk_1", cipherWordList[k])
         /\ cipherWordList[k].text \in Keyword
<1>1. cipherWordList[k] \in DOMAIN cipher_wordMap
  BY DEF IInv, TypeOK
<1> QED
  BY <1>1, MapFacts DEF Opens

LEMMA FetchTableStep == ASSUME IInv, fetch_table PROVE IInv'
<1>1. wordTable' = [k \in DOMAIN cipherWordList |-> cipherWordList[k].text]
  BY ListFacts DEF fetch_table
<1>2. DOMAIN cipherWordList = 1..Len(cipherWordList) /\ Len(cipherWordList) \in Nat
  BY DEF IInv, TypeOK
<1>3. wordTable' \in Seq(Keyword)
  <2>1. wordTable' \in [1..Len(cipherWordList) -> Keyword]
    BY <1>1, <1>2, ListFacts
  <2> QED
    BY <1>2, <2>1
<1>4. TypeOK'
  BY <1>3 DEF IInv, TypeOK, fetch_table, clientVars, netVars, cipher_wordMap
<1>5. CountersOK'
  BY ServerKeepsCounters DEF fetch_table
<1>6. ConnOK' /\ TableOK' /\ ResultOK'
  BY <1>1 DEF IInv, ConnOK, TableOK, ResultOK, fetch_table
<1>7. RequestOK'
  BY DEF IInv, RequestOK, fetch_table, clientVars, netVars, Enc, Garbage
<1>8. MatchesBelongTogether'
  BY DEF MatchesBelongTogether, fetch_table
<1> QED
  BY <1>4, <1>5, <1>6, <1>7, <1>8 DEF IInv

\* What sorting the near keywords gives, for a plaintext w: every position has
\* the distance of its keyword, and an exact match comes first.
LEMMA SortedFacts ==
  ASSUME IInv, NEW w \in Word, NEW s \in Sorted(w)
  PROVE  /\ s \in Seq(DOMAIN wordTable)
         /\ DOMAIN s = 1..Len(s) /\ Len(s) \in Nat
         /\ \A k \in DOMAIN s : wordTable[s[k]] \in Word
         /\ \A k \in DOMAIN s : Dist[<<w, wordTable[s[k]]>>] \in Nat
         /\ \A k \in Exact(w) : 1 \in DOMAIN s /\ Dist[<<w, wordTable[s[1]]>>] = 0
<1>1. PICK len \in 0..Len(wordTable) : s \in Bijection(1..len, Near(w))
  BY DEF Sorted
<1>2. Len(wordTable) \in Nat /\ len \in Nat
  BY <1>1 DEF IInv, TypeOK
<1>3. s \in [1..len -> Near(w)] /\ \A t \in Near(w) : \E k \in 1..len : s[k] = t
  BY <1>1 DEF Bijection, Injection, Surjection
<1>4. Near(w) \subseteq DOMAIN wordTable
  BY DEF Near
<1>5. s \in Seq(DOMAIN wordTable) /\ DOMAIN s = 1..len /\ Len(s) = len
  BY <1>2, <1>3, <1>4
<1>6. \A k \in DOMAIN wordTable : wordTable[k] \in Word
  BY KeywordAssumption DEF IInv, TypeOK
<1>7. \A k \in DOMAIN s : wordTable[s[k]] \in Word
  BY <1>3, <1>4, <1>5, <1>6
<1>8. \A k \in DOMAIN s : Dist[<<w, wordTable[s[k]]>>] \in Nat
  BY <1>7, DistFacts
<1>9. ASSUME NEW e \in Exact(w)
      PROVE  1 \in DOMAIN s /\ Dist[<<w, wordTable[s[1]]>>] = 0
  <2>1. e \in Near(w) /\ Dist[<<w, wordTable[e]>>] = 0
    BY <1>9 DEF Exact, Near, Threshold
  <2>2. PICK a \in 1..len : s[a] = e
    BY <1>3, <2>1
  <2>3. 1 \in DOMAIN s /\ a \in DOMAIN s
    BY <1>2, <1>5, <2>2
  <2>4. CASE a = 1
    BY <2>1, <2>2, <2>3, <2>4
  <2>5. CASE 1 < a
    <3>1. Dist[<<w, wordTable[s[1]]>>] <= Dist[<<w, wordTable[s[a]]>>]
      BY <2>3, <2>5 DEF Sorted
    <3>2. Dist[<<w, wordTable[s[1]]>>] \in Nat
      BY <1>8, <2>3
    <3> QED
      BY <2>1, <2>2, <2>3, <3>1, <3>2
  <2> QED
    BY <1>2, <2>2, <2>4, <2>5
<1> QED
  BY <1>2, <1>5, <1>7, <1>8, <1>9

LEMMA Step1Step == ASSUME IInv, step_1 PROVE IInv'
<1>1. PICK w \in Plaintexts(word) :
        \E s \in Sorted(w) :
          /\ distance_vtr' = [k \in DOMAIN s |-> Dist[<<w, wordTable[s[k]]>>]]
          /\ \/ Exact(w) = {} /\ location' = s
             \/ \E last \in Exact(w) :
                  /\ \A k \in Exact(w) : k <= last
                  /\ location' = <<last>>
  BY DEF step_1
<1>2. PICK s \in Sorted(w) :
          /\ distance_vtr' = [k \in DOMAIN s |-> Dist[<<w, wordTable[s[k]]>>]]
          /\ \/ Exact(w) = {} /\ location' = s
             \/ \E last \in Exact(w) :
                  /\ \A k \in Exact(w) : k <= last
                  /\ location' = <<last>>
  BY <1>1
<1>3. conn \in Client
  BY DEF IInv, ConnOK, step_1
<1>4. asked[conn] \in Word
  BY <1>3 DEF IInv, TypeOK
<1>5. w \in Word /\ (word # Garbage => w = asked[conn])
  <2>1. CASE word = Garbage
    BY <1>1, <2>1 DEF Plaintexts, Garbage, Opens
  <2>2. CASE word = Enc("sk_3", asked[conn])
    BY <1>1, <1>4, <2>2 DEF Plaintexts, Enc, Opens
  <2> QED
    BY <2>1, <2>2 DEF IInv, RequestOK, step_1
<1>6. /\ s \in Seq(DOMAIN wordTable)
      /\ DOMAIN s = 1..Len(s) /\ Len(s) \in Nat
      /\ \A k \in DOMAIN s : wordTable[s[k]] \in Word
      /\ \A k \in DOMAIN s : Dist[<<w, wordTable[s[k]]>>] \in Nat
      /\ \A k \in Exact(w) : 1 \in DOMAIN s /\ Dist[<<w, wordTable[s[1]]>>] = 0
  BY <1>5, SortedFacts
<1>7. distance_vtr' \in Seq(Nat) /\ Len(distance_vtr') = Len(s) /\ DOMAIN distance_vtr' = DOMAIN s
  <2>1. distance_vtr' \in [1..Len(s) -> Nat]
    BY <1>2, <1>6
  <2> QED
    BY <1>6, <2>1
<1>8. DOMAIN wordTable = DOMAIN cipherWordList
  BY DEF IInv, TableOK, step_1
<1>9. /\ location' \in Seq(DOMAIN wordTable)
      /\ Len(location') <= Len(distance_vtr')
      /\ \A k \in DOMAIN location' :
           /\ k \in DOMAIN distance_vtr'
           /\ distance_vtr'[k] = Dist[<<w, wordTable[location'[k]]>>]
  <2>1. CASE location' = s
    BY <1>2, <1>6, <1>7, <2>1
  <2>2. ASSUME NEW last \in Exact(w), location' = <<last>>
        PROVE  /\ location' \in Seq(DOMAIN wordTable)
               /\ Len(location') <= Len(distance_vtr')
               /\ \A k \in DOMAIN location' :
                    /\ k \in DOMAIN distance_vtr'
                    /\ distance_vtr'[k] = Dist[<<w, wordTable[location'[k]]>>]
    <3>1. last \in DOMAIN wordTable /\ Dist[<<w, wordTable[last]>>] = 0
      BY DEF Exact
    <3>2. 1 \in DOMAIN s /\ Dist[<<w, wordTable[s[1]]>>] = 0
      BY <1>6
    <3>3. Len(s) >= 1
      BY <1>6, <3>2
    <3>4. distance_vtr'[1] = 0
      BY <1>2, <3>2
    <3>5. /\ location' \in Seq(DOMAIN wordTable) /\ Len(location') = 1
          /\ DOMAIN location' = {1} /\ location'[1] = last
      BY <2>2, <3>1
    <3> QED
      BY <1>6, <1>7, <3>1, <3>2, <3>3, <3>4, <3>5
  <2> QED
    BY <1>2, <2>1, <2>2
<1>10. Len(location') \in Nat /\ pending' = <<CountToken(Len(location'))>>
  BY <1>9 DEF step_1
<1>11. pending' \in Seq(Token)
  BY <1>10, TokenFacts
<1>12. location' \in Seq(DOMAIN cipherWordList)
  BY <1>8, <1>9
<1>13. TypeOK'
  BY <1>7, <1>11, <1>12 DEF IInv, TypeOK, step_1, clientVars, netVars, cipher_wordMap
<1>14. CountersOK'
  BY ServerKeepsCounters DEF step_1
<1>15. ConnOK' /\ TableOK' /\ ResultOK'
  BY <1>3, <1>8, <1>9 DEF IInv, TableOK, ConnOK, ResultOK, step_1
<1>16. RequestOK'
  BY DEF IInv, RequestOK, step_1, clientVars, netVars, Enc, Garbage
<1>17. MatchesBelongTogether'
  <2> SUFFICES ASSUME word # Garbage, NEW k \in DOMAIN location'
               PROVE  /\ cipherWordList[location'[k]] \in DOMAIN cipher_wordMap
                      /\ cipherWordList[location'[k]].text = wordTable[location'[k]]
                      /\ k \in DOMAIN distance_vtr'
                      /\ distance_vtr'[k] = Dist[<<asked[conn], wordTable[location'[k]]>>]
    BY DEF MatchesBelongTogether, step_1, clientVars, Garbage, cipher_wordMap, Enc
  <2>1. location'[k] \in DOMAIN cipherWordList
    BY <1>12
  <2>2. cipherWordList[location'[k]].text = wordTable[location'[k]]
    BY <1>8, <2>1 DEF IInv, TableOK
  <2> QED
    BY <1>5, <1>9, <2>1, <2>2, ListFacts
<1> QED
  BY <1>13, <1>14, <1>15, <1>16, <1>17 DEF IInv

\* The steps that leave the results of step_1 alone keep what is said of them.
LEMMA ResultsKept ==
  ASSUME IInv, spc \in {"write", "reenc"},
         UNCHANGED <<asked, conn, word, location, distance_vtr, cipherWordList, wordTable>>
  PROVE  MatchesBelongTogether' /\ TableOK' /\ (Len(location) <= Len(distance_vtr))'
<1>1. MatchesBelongTogether'
  BY DEF IInv, MatchesBelongTogether, cipher_wordMap, Enc, Garbage
<1>2. TableOK'
  BY DEF IInv, TableOK
<1>3. Len(location) <= Len(distance_vtr)
  BY DEF IInv, ResultOK
<1> QED
  BY <1>1, <1>2, <1>3

LEMMA WriteRecordStep == ASSUME IInv, WriteRecord PROVE IInv'
<1>1. conn \in Client /\ pending \in Seq(Token) /\ pending # <<>>
  BY DEF IInv, TypeOK, ConnOK, WriteRecord
<1>2. Head(pending) \in Token /\ Tail(pending) \in Seq(Token)
  BY <1>1, HeadOfSeq
<1>3. toClient' \in [Client -> Seq(Token)]
  <2>1. toClient[conn] \in Seq(Token)
    BY <1>1 DEF IInv, TypeOK
  <2>2. Append(toClient[conn], Head(pending)) \in Seq(Token)
    BY <1>2, <2>1, AppendProperties
  <2>3. CASE toClient' = [toClient EXCEPT ![conn] = Append(@, Head(pending))]
    BY <2>2, <2>3 DEF IInv, TypeOK
  <2>4. CASE toClient' = toClient
    BY <2>4 DEF IInv, TypeOK
  <2> QED
    BY <2>3, <2>4 DEF WriteRecord
<1>4. /\ link' \in [Client -> {"none", "open", "closed"}]
      /\ spc' \in {"write", "down"}
  BY DEF IInv, TypeOK, WriteRecord, ServerExit
<1>5. TypeOK'
  BY <1>2, <1>3, <1>4 DEF IInv, TypeOK, WriteRecord, clientVars, cipher_wordMap
<1>6. CountersOK'
  BY ServerKeepsCounters DEF WriteRecord
<1>7. MatchesBelongTogether' /\ TableOK' /\ (Len(location) <= Len(distance_vtr))'
  BY ResultsKept DEF WriteRecord, clientVars
<1>8. ConnOK' /\ ResultOK'
  BY <1>1, <1>4, <1>7 DEF ConnOK, ResultOK, WriteRecord
<1>9. RequestOK'
  BY DEF IInv, RequestOK, WriteRecord, clientVars, Enc, Garbage
<1> QED
  BY <1>5, <1>6, <1>7, <1>8, <1>9 DEF IInv

\* The position the server works at.
LEMMA QueryFacts ==
  ASSUME IInv, spc \in {"write", "reenc"}, idx < Len(location)
  PROVE  /\ idx + 1 \in DOMAIN location
         /\ idx + 1 \in DOMAIN distance_vtr /\ distance_vtr[idx + 1] \in Nat
         /\ query_cipher_word \in DOMAIN cipher_wordMap
         /\ query_cipher_word.text \in Word
         /\ cipher_wordMap[query_cipher_word] \in Seq(NumCipher("sk_2"))
<1>1. /\ idx \in Nat
      /\ location \in Seq(DOMAIN cipherWordList) /\ Len(location) \in Nat
      /\ distance_vtr \in Seq(Nat)
      /\ Len(location) <= Len(distance_vtr)
  BY DEF IInv, TypeOK, ResultOK
<1>2. idx + 1 \in DOMAIN location /\ idx + 1 \in DOMAIN distance_vtr
  BY <1>1
<1>3. distance_vtr[idx + 1] \in Nat /\ location[idx + 1] \in DOMAIN cipherWordList
  BY <1>1, <1>2
<1>4. query_cipher_word \in DOMAIN cipher_wordMap
  BY <1>3, ListFacts DEF query_cipher_word
<1> QED
  BY <1>2, <1>3, <1>4, MapFacts

LEMMA LookupStep == ASSUME IInv, Lookup PROVE IInv'
<1>1. /\ spc = "write" /\ idx < Len(location) /\ conn \in Client
  BY DEF IInv, ConnOK, Lookup
<1>2. /\ distance_vtr[idx + 1] \in Nat
      /\ query_cipher_word \in DOMAIN cipher_wordMap
      /\ query_cipher_word.text \in Word
      /\ cipher_wordMap[query_cipher_word] \in Seq(NumCipher("sk_2"))
  BY <1>1, QueryFacts
<1>3. /\ pending' = <<HeadToken(distance_vtr[idx + 1], Enc("sk_3", query_cipher_word.text)),
                      SizeToken(Len(cipher_wordMap[query_cipher_word]))>>
      /\ numIdx' = 0 /\ spc' = "reenc" /\ link' = link
  BY <1>2 DEF Lookup
<1>4. pending' \in Seq(Token)
  <2>1. HeadToken(distance_vtr[idx + 1], Enc("sk_3", query_cipher_word.text)) \in Token
    BY <1>2, CipherFacts, TokenFacts
  <2>2. Len(cipher_wordMap[query_cipher_word]) \in Nat
    BY <1>2
  <2>3. SizeToken(Len(cipher_wordMap[query_cipher_word])) \in Token
    BY <2>2, TokenFacts
  <2> QED
    BY <1>3, <2>1, <2>3
<1>5. TypeOK'
  BY <1>3, <1>4 DEF IInv, TypeOK, Lookup, clientVars, cipher_wordMap
<1>6. CountersOK'
  BY ServerKeepsCounters DEF Lookup
<1>7. MatchesBelongTogether' /\ TableOK' /\ (Len(location) <= Len(distance_vtr))'
  BY <1>1, ResultsKept DEF Lookup, clientVars
<1>8. ConnOK' /\ ResultOK'
  BY <1>1, <1>3, <1>7 DEF ConnOK, ResultOK, Lookup
<1>9. RequestOK'
  BY DEF IInv, RequestOK, Lookup, clientVars, Enc, Garbage
<1> QED
  BY <1>5, <1>6, <1>7, <1>8, <1>9 DEF IInv

LEMMA Step3Step == ASSUME IInv, step_3 PROVE IInv'
<1>1. spc = "reenc" /\ conn \in Client /\ idx < Len(location) /\ numIdx \in Nat
  BY DEF IInv, TypeOK, ConnOK, ResultOK, step_3
<1>2. postings \in Seq(NumCipher("sk_2"))
  BY <1>1, QueryFacts DEF postings
<1>3. numIdx + 1 \in DOMAIN postings
  BY <1>1, <1>2 DEF step_3
<1>4. pending' \in Seq(Token)
  <2>1. postings[numIdx + 1] \in NumCipher("sk_2")
    BY <1>2, <1>3
  <2>2. Enc("sk_3", postings[numIdx + 1].text) \in NumCipher("sk_3")
    BY <2>1, CipherFacts
  <2>3. NumToken(Enc("sk_3", postings[numIdx + 1].text)) \in Token
    BY <2>2, TokenFacts
  <2>4. pending \in Seq(Token)
    BY DEF IInv, TypeOK
  <2>5. Append(pending, NumToken(Enc("sk_3", postings[numIdx + 1].text))) \in Seq(Token)
    BY <2>3, <2>4, AppendProperties
  <2> QED
    BY <2>4, <2>5 DEF step_3
<1>5. TypeOK'
  <2>1. numIdx' \in Nat
    BY <1>1 DEF step_3
  <2> QED
    BY <1>4, <2>1 DEF IInv, TypeOK, step_3, clientVars, netVars, cipher_wordMap
<1>6. CountersOK'
  BY ServerKeepsCounters DEF step_3
<1>7. MatchesBelongTogether' /\ TableOK' /\ (Len(location) <= Len(distance_vtr))'
  BY <1>1, ResultsKept DEF step_3, clientVars
<1>8. ConnOK' /\ ResultOK'
  BY <1>1, <1>7 DEF ConnOK, ResultOK, step_3
<1>9. RequestOK'
  BY DEF IInv, RequestOK, step_3, clientVars, netVars, Enc, Garbage
<1> QED
  BY <1>5, <1>6, <1>7, <1>8, <1>9 DEF IInv

LEMMA ReplyStep == ASSUME IInv, Reply PROVE IInv'
<1>1. spc = "reenc" /\ conn \in Client /\ idx' \in Nat
  BY DEF IInv, TypeOK, ConnOK, Reply
<1>2. TypeOK'
  BY <1>1 DEF IInv, TypeOK, Reply, clientVars, netVars, cipher_wordMap
<1>3. CountersOK'
  BY ServerKeepsCounters DEF Reply
<1>4. MatchesBelongTogether' /\ TableOK' /\ (Len(location) <= Len(distance_vtr))'
  BY <1>1, ResultsKept DEF Reply, clientVars
<1>5. ConnOK' /\ ResultOK'
  BY <1>1, <1>4 DEF ConnOK, ResultOK, Reply
<1>6. RequestOK'
  BY DEF IInv, RequestOK, Reply, clientVars, netVars, Enc, Garbage
<1> QED
  BY <1>2, <1>3, <1>4, <1>5, <1>6 DEF IInv

LEMMA NextEpochStep == ASSUME IInv, NextEpoch PROVE IInv'
<1>1. spc = "write" /\ conn \in Client
  BY DEF IInv, ConnOK, NextEpoch
<1>2. /\ epoch' \in 0..(N - 1)
      /\ link' \in [Client -> {"none", "open", "closed"}]
      /\ conn' \in Client \cup {NoClient}
      /\ spc' \in {"recv", "accept"}
      /\ spc' = "recv" => conn' \in Client
  <2>1. epoch \in 0..(N - 1) /\ link \in [Client -> {"none", "open", "closed"}]
    BY DEF IInv, TypeOK
  <2>2. CASE epoch + 1 < ServerEpochs
    BY <1>1, <2>1, <2>2, BoundAssumption DEF NextEpoch, ServerEpochs
  <2>3. CASE ~(epoch + 1 < ServerEpochs)
    BY <1>1, <2>1, <2>3 DEF NextEpoch
  <2> QED
    BY <2>2, <2>3
<1>3. TypeOK'
  BY <1>2 DEF IInv, TypeOK, NextEpoch, clientVars, cipher_wordMap
<1>4. CountersOK'
  BY ServerKeepsCounters DEF NextEpoch
<1>5. ConnOK' /\ ResultOK' /\ TableOK'
  BY <1>2 DEF IInv, ConnOK, ResultOK, TableOK, NextEpoch
<1>6. RequestOK'
  BY <1>2 DEF IInv, RequestOK, NextEpoch, clientVars
<1>7. MatchesBelongTogether'
  BY <1>2 DEF MatchesBelongTogether
<1> QED
  BY <1>3, <1>4, <1>5, <1>6, <1>7 DEF IInv

LEMMA StopStep == ASSUME IInv, Stop PROVE IInv'
<1>1. spc' = "down" /\ link' \in [Client -> {"none", "open", "closed"}]
  BY DEF IInv, TypeOK, Stop, ServerExit
<1>2. TypeOK'
  BY <1>1 DEF IInv, TypeOK, Stop, clientVars, cipher_wordMap
<1>3. CountersOK'
  BY ServerKeepsCounters DEF Stop
<1>4. ConnOK' /\ ResultOK' /\ TableOK'
  BY <1>1 DEF IInv, ConnOK, ResultOK, TableOK, Stop
<1>5. RequestOK'
  BY <1>1 DEF IInv, RequestOK, Stop, clientVars
<1>6. MatchesBelongTogether'
  BY <1>1 DEF MatchesBelongTogether
<1> QED
  BY <1>2, <1>3, <1>4, <1>5, <1>6 DEF IInv

LEMMA StutterStep == ASSUME IInv, UNCHANGED vars PROVE IInv'
<1>1. TypeOK' /\ CountersOK'
  BY DEF vars, clientVars, netVars, serverVars, IInv, TypeOK, CountersOK, cipher_wordMap
<1> QED
  BY <1>1, ClientKeepsServer DEF vars, clientVars, netVars, IInv, RequestOK

-----------------------------------------------------------------------------
LEMMA InitIInv == Init => IInv
<1> SUFFICES ASSUME Init PROVE IInv
  OBVIOUS
<1>1. cipherWordList \in Seq(DOMAIN cipher_wordMap)
  <2>1. Cardinality(Keyword) \in Nat
    BY KeywordAssumption, FS_CardinalityType
  <2>2. cipherWordList \in [1..Cardinality(Keyword) -> DOMAIN cipher_wordMap]
    BY DEF Init, Bijection, Injection
  <2> QED
    BY <2>1, <2>2
<1>2. 0 \in 0..(N - 1)
  BY BoundAssumption
<1>3. <<>> \in Seq(DOMAIN cipherWordList)
  OBVIOUS
<1>4. TypeOK
  BY <1>1, <1>2, <1>3 DEF Init, TypeOK, Kinds, Ended
<1>5. CountersOK /\ ConnOK /\ TableOK /\ ResultOK /\ RequestOK /\ MatchesBelongTogether
  BY DEF Init, CountersOK, ConnOK, TableOK, ResultOK, RequestOK, MatchesBelongTogether
<1> QED
  BY <1>4, <1>5 DEF IInv

LEMMA NextIInv == IInv /\ [Next]_vars => IInv'
<1> SUFFICES ASSUME IInv, [Next]_vars PROVE IInv'
  OBVIOUS
<1>1. CASE ServerStep
  BY <1>1, AcceptStep, ReadRequestStep, FetchTableStep, Step1Step, WriteRecordStep,
     LookupStep, Step3Step, ReplyStep, NextEpochStep DEF ServerStep
<1>2. CASE Stop
  BY <1>2, StopStep
<1>3. ASSUME NEW c \in Client, ClientStep(c) \/ Crash(c) PROVE IInv'
  BY <1>3, ConnectStep, ConnectFailsStep, SendStep, ReadCountStep, ReadHeadStep,
     ReadSizeStep, ReadNumStep, ReadFailsStep, CrashStep DEF ClientStep
<1>4. CASE Finished \/ UNCHANGED vars
  BY <1>4, StutterStep DEF Finished
<1> QED
  BY <1>1, <1>2, <1>3, <1>4 DEF Next

LEMMA Invariance == Spec => []IInv
BY InitIInv, NextIInv, PTL DEF Spec

\* Every variable of the two programs, of the enclave and of the connections
\* keeps its type; in particular no loop counter of a client underflows and
\* step_1 returns positions of the table only.
THEOREM SSETypeOK == Spec => []TypeOK
BY Invariance, PTL DEF IInv

\* The keyword, the map key and the distance the server sends for a position
\* belong together, for every index, every request and every order std::sort
\* leaves ties in.
THEOREM SSEMatches == Spec => []MatchesBelongTogether
BY Invariance, PTL DEF IInv

\* "Failed Search!" (server.cpp:495-500) is never reached: every lookup finds
\* its key, whatever the enclave took for the request.
SearchSucceeds ==
  spc = "write" /\ idx < Len(location) => query_cipher_word \in DOMAIN cipher_wordMap

THEOREM SSESearchSucceeds == Spec => []SearchSucceeds
<1>1. IInv => SearchSucceeds
  BY QueryFacts DEF SearchSucceeds
<1> QED
  BY <1>1, Invariance, PTL

-----------------------------------------------------------------------------
(* The promise: the streams of tokens and what clients make of them.       *)

\* Where a client is in the grammar of an answer.
State == [kind : {"send"} \cup Kinds, left : Int, nums : Int]

ClientState(c) == [kind |-> cpc[c], left |-> left[c], nums |-> numsLeft[c]]

\* The record at the head of the stream takes it on, as in client.cpp:103-149.
EndsKeyword(x) ==
  [kind |-> IF x.left = 1 THEN "send" ELSE "head", left |-> x.left - 1, nums |-> x.nums]

After(x, t) ==
  IF t.kind = "count"
  THEN IF t.value = 0 THEN [x EXCEPT !.kind = "send"]
       ELSE [x EXCEPT !.kind = "head", !.left = t.value]
  ELSE IF t.kind = "head" THEN [x EXCEPT !.kind = "size"]
  ELSE IF t.kind = "size"
       THEN IF t.value = 0 THEN EndsKeyword(x)
            ELSE [x EXCEPT !.kind = "num", !.nums = t.value]
  ELSE IF x.nums = 1 THEN EndsKeyword([x EXCEPT !.nums = 0])
       ELSE [x EXCEPT !.nums = x.nums - 1]

\* The line of answer a that a client in state x is at, the record that comes
\* next, and what has been printed by then.
Row(a, x) == Len(a) - x.left + 1

Record(a, x) ==
  IF x.kind = "count" THEN CountToken(Len(a))
  ELSE IF x.kind = "head"
       THEN HeadToken(a[Row(a, x)].distance, Enc("sk_3", a[Row(a, x)].word))
  ELSE IF x.kind = "size" THEN SizeToken(Len(a[Row(a, x)].docs))
  ELSE NumToken(Enc("sk_3", a[Row(a, x)].docs[Len(a[Row(a, x)].docs) - x.nums + 1]))

Whole(a, k) == [i \in 1..k |-> a[i]]

\* Line k with its first n numbers.
Partly(a, k, n) ==
  [distance |-> a[k].distance, word |-> a[k].word, docs |-> [j \in 1..n |-> a[k].docs[j]]]

UpTo(a, k, n) == [i \in 1..k |-> IF i = k THEN Partly(a, k, n) ELSE a[i]]

Printed(a, x) ==
  IF x.kind = "head" THEN Whole(a, Row(a, x) - 1)
  ELSE IF x.kind = "size" THEN UpTo(a, Row(a, x), 0)
  ELSE IF x.kind = "num" THEN UpTo(a, Row(a, x), Len(a[Row(a, x)].docs) - x.nums)
  ELSE <<>>

\* State x is a place in answer a.
Place(a, x) ==
  /\ x.kind \in {"head", "size", "num"} => x.left \in 1..Len(a)
  /\ x.kind = "num" => x.nums \in 1..Len(a[Row(a, x)].docs)

\* A client in state x that reads s finds at each place the record of answer a
\* that it expects, and is then in state y.
Reads(a, x, s, y) ==
  \E st \in [0..Len(s) -> State] :
    /\ st[0] = x /\ st[Len(s)] = y
    /\ \A i \in 1..Len(s) :
         /\ s[i].kind = st[i - 1].kind
         /\ s[i] = Record(a, st[i - 1])
         /\ st[i] = After(st[i - 1], s[i])

-----------------------------------------------------------------------------
(* Facts about answers.                                                    *)

\* Search brings its own copies of these operators.
LEMMA SameOperators ==
  /\ \A S : Promise!Cardinality(S) = Cardinality(S)
  /\ \A S, T : Promise!Bijection(S, T) = Bijection(S, T)
<1>1. \A S : Promise!Cardinality(S) = Cardinality(S)
  BY DEF Promise!Cardinality, Cardinality
<1>2. \A S, T : Promise!Bijection(S, T) = Bijection(S, T)
  BY Zenon DEF Bijection, Injection, Surjection, IsInjective, Promise!Bijection,
               Promise!Injection, Promise!Surjection, Promise!IsInjective
<1> QED
  BY <1>1, <1>2

LEMMA LineFacts ==
  ASSUME NEW w \in Word, NEW k \in Keyword
  PROVE  /\ Promise!Line(w, k) \in Entry
         /\ Promise!Line(w, k).docs \in Seq(DocId) \ {<<>>}
<1>1. Dist[<<w, k>>] \in Nat /\ k \in Word /\ Docs[k] \in Seq(DocId) \ {<<>>}
  BY DistFacts, KeywordAssumption, DocsAssumption
<1> QED
  BY <1>1 DEF Promise!Line, Entry

LEMMA AnswerFacts ==
  ASSUME NEW w \in Word, NEW a \in Promise!Answers(w)
  PROVE  /\ a \in Seq(Entry) /\ Len(a) \in Nat
         /\ \A i \in 1..Len(a) :
              a[i] \in Entry /\ a[i].docs \in Seq(DocId) /\ Len(a[i].docs) \in Nat \ {0}
<1>1. /\ a \in Seq(Entry)
      /\ \A i \in 1..Len(a) : a[i].docs \in Seq(DocId) \ {<<>>}
  <2>1. CASE w \in Keyword
    <3>1. a = <<Promise!Line(w, w)>>
      BY <2>1 DEF Promise!Answers
    <3> DEFINE l == Promise!Line(w, w)
    <3>2. l \in Entry /\ l.docs \in Seq(DocId) \ {<<>>}
      BY <2>1, LineFacts
    <3> HIDE DEF l
    <3>3. a = <<l>>
      BY <3>1 DEF l
    <3> QED
      BY <3>2, <3>3
  <2>2. CASE w \notin Keyword
    <3>1. PICK s \in Promise!Rankings(w) : a = [k \in DOMAIN s |-> Promise!Line(w, s[k])]
      BY <2>2 DEF Promise!Answers
    <3>2. PICK len \in 0..Cardinality(Keyword) : s \in Bijection(1..len, Promise!Near(w))
      BY <3>1, SameOperators DEF Promise!Rankings
    <3>3. len \in Nat /\ DOMAIN s = 1..len /\ \A k \in 1..len : s[k] \in Keyword
      <4>1. Cardinality(Keyword) \in Nat
        BY KeywordAssumption, FS_CardinalityType
      <4>2. s \in [1..len -> Promise!Near(w)]
        BY <3>2 DEF Bijection, Injection
      <4>3. \A k \in Promise!Near(w) : k \in Keyword
        BY DEF Promise!Near
      <4>4. len \in Nat
        BY <3>2, <4>1
      <4>5. DOMAIN s = 1..len /\ \A k \in 1..len : s[k] \in Promise!Near(w)
        BY <4>2
      <4> QED
        BY <4>3, <4>4, <4>5
    <3>4. \A k \in 1..len :
            a[k] = Promise!Line(w, s[k]) /\ a[k] \in Entry /\ a[k].docs \in Seq(DocId) \ {<<>>}
      BY <3>1, <3>3, LineFacts
    <3>5. a \in [1..len -> Entry]
      BY <3>1, <3>3, <3>4
    <3> QED
      BY <3>3, <3>4, <3>5
  <2> QED
    BY <2>1, <2>2
<1>2. \A d \in Seq(DocId) \ {<<>>} : Len(d) \in Nat \ {0}
  BY EmptySeq, LenProperties
<1> QED
  BY <1>1, <1>2, LenProperties, ElementOfSeq

\* The next record of an answer has the kind the client expects, and takes it
\* to another place of the answer.
LEMMA RecordFacts ==
  ASSUME NEW w \in Word, NEW a \in Promise!Answers(w), NEW x \in State, x.kind \in Kinds,
         Place(a, x)
  PROVE  /\ Record(a, x) \in Token /\ Record(a, x).kind = x.kind
         /\ After(x, Record(a, x)) \in State
         /\ Place(a, After(x, Record(a, x)))
<1> DEFINE t == Record(a, x)
           r == Row(a, x)
<1>1. /\ Len(a) \in Nat
      /\ \A i \in 1..Len(a) :
           /\ a[i].distance \in Nat /\ a[i].word \in Word
           /\ a[i].docs \in Seq(DocId) /\ Len(a[i].docs) \in Nat \ {0}
  BY AnswerFacts DEF Entry
<1>2. x.left \in Int /\ x.nums \in Int
  BY DEF State
<1>3. CASE x.kind = "count"
  <2>1. t = CountToken(Len(a))
    BY <1>3 DEF Record
  <2>2. t.kind = "count" /\ t.value = Len(a) /\ t \in Token
    BY <1>1, <2>1, TokenFacts DEF CountToken
  <2> HIDE DEF t
  <2>3. After(x, t) = IF Len(a) = 0 THEN [x EXCEPT !.kind = "send"]
                      ELSE [x EXCEPT !.kind = "head", !.left = Len(a)]
    BY <2>2 DEF After
  <2>4. CASE Len(a) = 0
    <3>1. After(x, t) = [x EXCEPT !.kind = "send"]
      BY <2>3, <2>4
    <3>2. After(x, t) \in State /\ After(x, t).kind = "send"
      BY <3>1 DEF State
    <3> QED
      BY <1>3, <2>2, <3>2 DEF t, Place
  <2>5. CASE Len(a) # 0
    <3>1. After(x, t) = [x EXCEPT !.kind = "head", !.left = Len(a)]
      BY <2>3, <2>5
    <3>2. Len(a) \in Int /\ Len(a) \in 1..Len(a)
      BY <1>1, <2>5
    <3> DEFINE z == After(x, t)
    <3>3. z = [x EXCEPT !.kind = "head", !.left = Len(a)]
      BY <3>1
    <3> HIDE DEF z
    <3>4. z \in State /\ z.kind = "head" /\ z.left = Len(a)
      BY <3>2, <3>3 DEF State, Kinds
    <3>5. Place(a, z)
      BY <3>2, <3>4 DEF Place
    <3> QED
      BY <1>3, <2>2, <3>4, <3>5 DEF t, z
  <2> QED
    BY <2>4, <2>5
<1>4. CASE x.kind \in {"head", "size", "num"}
  <2>1. r \in 1..Len(a) /\ x.left \in 1..Len(a)
    BY <1>1, <1>2, <1>4 DEF Place, Row
  <2>2. CASE x.kind = "head"
    <3>1. t = HeadToken(a[r].distance, Enc("sk_3", a[r].word))
      BY <2>2 DEF Record
    <3>2. t.kind = "head" /\ t \in Token
      BY <1>1, <2>1, <3>1, TokenFacts, CipherFacts DEF HeadToken
    <3> HIDE DEF t, r
    <3>3. After(x, t) = [x EXCEPT !.kind = "size"]
      BY <3>2 DEF After
    <3>4. After(x, t) \in State /\ Place(a, After(x, t))
      BY <2>1, <3>3 DEF State, Kinds, Place
    <3> QED
      BY <2>2, <3>2, <3>4 DEF t
  <2>3. CASE x.kind = "size"
    <3>1. t = SizeToken(Len(a[r].docs))
      BY <2>3 DEF Record
    <3>2. t.kind = "size" /\ t \in Token /\ t.value = Len(a[r].docs) /\ t.value \in Nat \ {0}
      BY <1>1, <2>1, <3>1, TokenFacts DEF SizeToken
    <3> HIDE DEF t
    <3>3. After(x, t) = [x EXCEPT !.kind = "num", !.nums = t.value]
      BY <3>2 DEF After
    <3>4. Len(a[r].docs) \in Int /\ Len(a[r].docs) \in 1..Len(a[r].docs)
      BY <1>1, <2>1
    <3> DEFINE z == After(x, t)
    <3>5. z = [x EXCEPT !.kind = "num", !.nums = Len(a[r].docs)]
      BY <3>2, <3>3
    <3> HIDE DEF z
    <3>6. z \in State /\ z.kind = "num" /\ z.left = x.left /\ z.nums = Len(a[r].docs)
      BY <3>4, <3>5 DEF State, Kinds
    <3>7. Row(a, z) = r
      BY <3>6 DEF Row
    <3>8. Place(a, z)
      BY <2>1, <3>4, <3>6, <3>7 DEF Place
    <3> QED
      BY <2>3, <3>2, <3>6, <3>8 DEF t, z
  <2>4. CASE x.kind = "num"
    <3> DEFINE j == Len(a[r].docs) - x.nums + 1
    <3>1. x.nums \in 1..Len(a[r].docs) /\ j \in 1..Len(a[r].docs)
      BY <1>1, <2>1, <2>4 DEF Place
    <3>2. t = NumToken(Enc("sk_3", a[r].docs[j]))
      BY <2>4 DEF Record
    <3>3. t.kind = "num" /\ t \in Token
      <4>1. a[r].docs[j] \in DocId
        BY <1>1, <2>1, <3>1, ElementOfSeq
      <4> QED
        BY <3>2, <4>1, TokenFacts, CipherFacts DEF NumToken
    <3> HIDE DEF t, j
    <3>4. After(x, t) = IF x.nums = 1 THEN EndsKeyword([x EXCEPT !.nums = 0])
                        ELSE [x EXCEPT !.nums = x.nums - 1]
      BY <3>3 DEF After
    <3>5. After(x, t) \in State /\ Place(a, After(x, t))
      BY <1>1, <1>2, <2>1, <2>4, <3>1, <3>4 DEF State, Kinds, Place, Row, EndsKeyword
    <3> QED
      BY <2>4, <3>3, <3>5 DEF t
  <2> QED
    BY <1>4, <2>2, <2>3, <2>4
<1> QED
  BY <1>3, <1>4 DEF Kinds

\* What has been printed grows with the record that is read.
LEMMA WholeFacts ==
  ASSUME NEW w \in Word, NEW a \in Promise!Answers(w)
  PROVE  /\ Whole(a, 0) = <<>> /\ Whole(a, Len(a)) = a
         /\ \A k \in 0..Len(a) : Whole(a, k) \in Seq(Entry) /\ Len(Whole(a, k)) = k
<1>1. a \in Seq(Entry) /\ Len(a) \in Nat /\ \A i \in 1..Len(a) : a[i] \in Entry
  BY AnswerFacts
<1>2. ASSUME NEW k \in 0..Len(a) PROVE Whole(a, k) \in Seq(Entry) /\ Len(Whole(a, k)) = k
  <2>1. k \in Nat /\ Whole(a, k) \in [1..k -> Entry]
    BY <1>1 DEF Whole
  <2> QED
    BY <2>1
<1>3. Whole(a, 0) = <<>>
  BY <1>1, <1>2, EmptySeq
<1>4. Whole(a, Len(a)) = a
  <2>1. DOMAIN a = 1..Len(a) /\ Len(a) \in 0..Len(a)
    BY <1>1
  <2>2. Whole(a, Len(a)) \in Seq(Entry) /\ Len(Whole(a, Len(a))) = Len(a)
    BY <1>2, <2>1
  <2>3. \A i \in 1..Len(a) : Whole(a, Len(a))[i] = a[i]
    BY DEF Whole
  <2> QED
    BY <1>1, <2>2, <2>3, SeqEqual
<1> QED
  BY <1>2, <1>3, <1>4

Longer(l, d) == [l EXCEPT !.docs = Append(@, d)]

LEMMA PartlyFacts ==
  ASSUME NEW w \in Word, NEW a \in Promise!Answers(w), NEW r \in 1..Len(a)
  PROVE  /\ Partly(a, r, 0) = [distance |-> a[r].distance, word |-> a[r].word, docs |-> <<>>]
         /\ Partly(a, r, Len(a[r].docs)) = a[r]
         /\ \A n \in 0..Len(a[r].docs) : Partly(a, r, n) \in Entry
         /\ \A n \in 0..(Len(a[r].docs) - 1) :
              Longer(Partly(a, r, n), a[r].docs[n + 1]) = Partly(a, r, n + 1)
<1> DEFINE e == a[r]
           D == e.docs
           first(n) == [j \in 1..n |-> D[j]]
<1>1. e \in Entry /\ D \in Seq(DocId) /\ Len(D) \in Nat
  BY AnswerFacts
<1>2. /\ e.distance \in Nat /\ e.word \in Word
      /\ e = [distance |-> e.distance, word |-> e.word, docs |-> D]
  BY <1>1 DEF Entry
<1> HIDE DEF e
<1>3. \A n : Partly(a, r, n) = [distance |-> e.distance, word |-> e.word, docs |-> first(n)]
  BY DEF Partly, e
<1> HIDE DEF D
<1>4. ASSUME NEW n \in 0..Len(D)
      PROVE  first(n) \in Seq(DocId) /\ Len(first(n)) = n /\ \A j \in 1..n : first(n)[j] = D[j]
  <2>1. n \in Nat /\ \A j \in 1..n : D[j] \in DocId
    BY <1>1, ElementOfSeq
  <2>2. first(n) \in [1..n -> DocId]
    BY <2>1
  <2> QED
    BY <2>1, <2>2
<1> HIDE DEF first
<1>5. first(0) = <<>>
  BY <1>1, <1>4, EmptySeq
<1>6. first(Len(D)) = D
  <2>1. Len(D) \in 0..Len(D)
    BY <1>1
  <2> QED
    BY <1>1, <1>4, <2>1, SeqEqual
<1>7. ASSUME NEW n \in 0..(Len(D) - 1) PROVE Append(first(n), D[n + 1]) = first(n + 1)
  <2>1. n \in 0..Len(D) /\ n + 1 \in 0..Len(D) /\ n + 1 \in 1..Len(D) /\ n \in Nat
    BY <1>1
  <2>2. D[n + 1] \in DocId
    BY <1>1, <2>1, ElementOfSeq
  <2> DEFINE u == Append(first(n), D[n + 1])
             v == first(n + 1)
  <2>3. /\ first(n) \in Seq(DocId) /\ Len(first(n)) = n /\ \A j \in 1..n : first(n)[j] = D[j]
        /\ v \in Seq(DocId) /\ Len(v) = n + 1 /\ \A j \in 1..(n + 1) : v[j] = D[j]
    BY <1>4, <2>1
  <2>4. /\ u \in Seq(DocId) /\ Len(u) = n + 1
        /\ \A j \in 1..n : u[j] = first(n)[j]
        /\ u[n + 1] = D[n + 1]
    BY <2>2, <2>3, AppendProperties
  <2> HIDE DEF u, v
  <2>5. \A j \in 1..(n + 1) : u[j] = v[j]
    BY <2>1, <2>3, <2>4
  <2>6. u = v
    BY <2>3, <2>4, <2>5, SeqEqual
  <2> QED
    BY <2>6 DEF u, v
<1>8. \A n \in 0..Len(D) : Partly(a, r, n) \in Entry
  BY <1>2, <1>3, <1>4 DEF Entry
<1>9. \A n \in 0..(Len(D) - 1) : Longer(Partly(a, r, n), D[n + 1]) = Partly(a, r, n + 1)
  <2>1. \A m, v, f, d : Longer([distance |-> m, word |-> v, docs |-> f], d)
                         = [distance |-> m, word |-> v, docs |-> Append(f, d)]
    BY Z3 DEF Longer
  <2> SUFFICES ASSUME NEW n \in 0..(Len(D) - 1)
               PROVE  Longer(Partly(a, r, n), D[n + 1]) = Partly(a, r, n + 1)
    OBVIOUS
  <2>2. Partly(a, r, n) = [distance |-> e.distance, word |-> e.word, docs |-> first(n)]
    BY <1>3
  <2>3. Longer(Partly(a, r, n), D[n + 1])
          = [distance |-> e.distance, word |-> e.word, docs |-> Append(first(n), D[n + 1])]
    BY <2>1, <2>2
  <2> QED
    BY <1>3, <1>7, <2>3
<1> QED
  BY <1>2, <1>3, <1>5, <1>6, <1>8, <1>9 DEF e, D

LEMMA UpToFacts ==
  ASSUME NEW w \in Word, NEW a \in Promise!Answers(w), NEW r \in 1..Len(a)
  PROVE  /\ Append(Whole(a, r - 1), Partly(a, r, 0)) = UpTo(a, r, 0)
         /\ UpTo(a, r, Len(a[r].docs)) = Whole(a, r)
         /\ \A n \in 0..Len(a[r].docs) : UpTo(a, r, n) \in Seq(Entry) /\ Len(UpTo(a, r, n)) = r
         /\ \A n \in 0..(Len(a[r].docs) - 1) :
              WithDoc(UpTo(a, r, n), a[r].docs[n + 1]) = UpTo(a, r, n + 1)
<1> DEFINE D == a[r].docs
<1>1. /\ a \in Seq(Entry) /\ Len(a) \in Nat /\ r \in Nat \ {0} /\ r - 1 \in 0..Len(a)
      /\ \A i \in 1..Len(a) : a[i] \in Entry
      /\ Len(D) \in Nat \ {0}
  BY AnswerFacts
<1> HIDE DEF D
<1>2. ASSUME NEW n \in 0..Len(D)
      PROVE  /\ UpTo(a, r, n) \in [1..r -> Entry] /\ UpTo(a, r, n)[r] = Partly(a, r, n)
             /\ UpTo(a, r, n) \in Seq(Entry) /\ Len(UpTo(a, r, n)) = r
  <2>1. Partly(a, r, n) \in Entry
    BY PartlyFacts DEF D
  <2>2. UpTo(a, r, n) \in [1..r -> Entry] /\ UpTo(a, r, n)[r] = Partly(a, r, n)
    BY <1>1, <2>1 DEF UpTo
  <2> QED
    BY <1>1, <2>2
<1>3. Append(Whole(a, r - 1), Partly(a, r, 0)) = UpTo(a, r, 0)
  <2> DEFINE u == Append(Whole(a, r - 1), Partly(a, r, 0))
             v == UpTo(a, r, 0)
  <2>1. 0 \in 0..Len(D)
    BY <1>1
  <2>2. Partly(a, r, 0) \in Entry
    BY <2>1, PartlyFacts DEF D
  <2>3. Whole(a, r - 1) \in Seq(Entry) /\ Len(Whole(a, r - 1)) = r - 1
    BY <1>1, WholeFacts
  <2>4. /\ u \in Seq(Entry) /\ Len(u) = r
        /\ \A i \in 1..(r - 1) : u[i] = Whole(a, r - 1)[i]
        /\ u[r] = Partly(a, r, 0)
    BY <1>1, <2>2, <2>3, AppendProperties
  <2>5. v \in Seq(Entry) /\ Len(v) = r /\ v[r] = Partly(a, r, 0)
    BY <1>2, <2>1
  <2>6. \A i \in 1..(r - 1) : v[i] = Whole(a, r - 1)[i]
    BY <1>1 DEF UpTo, Whole
  <2> HIDE DEF u, v
  <2>7. \A i \in 1..r : u[i] = v[i]
    BY <1>1, <2>4, <2>5, <2>6
  <2>8. u = v
    BY <2>4, <2>5, <2>7, SeqEqual
  <2> QED
    BY <2>8 DEF u, v
<1>4. UpTo(a, r, Len(D)) = Whole(a, r)
  <2>1. Partly(a, r, Len(D)) = a[r]
    BY PartlyFacts DEF D
  <2> QED
    BY <2>1 DEF UpTo, Whole
<1>5. ASSUME NEW n \in 0..(Len(D) - 1)
      PROVE  WithDoc(UpTo(a, r, n), D[n + 1]) = UpTo(a, r, n + 1)
  <2>1. n \in 0..Len(D) /\ n + 1 \in 0..Len(D)
    BY <1>1
  <2>2. Longer(Partly(a, r, n), D[n + 1]) = Partly(a, r, n + 1)
    BY PartlyFacts DEF D
  <2>3. \A ls, d : WithDoc(ls, d) = [ls EXCEPT ![Len(ls)] = Longer(ls[Len(ls)], d)]
    BY DEF WithDoc, Longer
  <2>4. WithDoc(UpTo(a, r, n), D[n + 1]) = [UpTo(a, r, n) EXCEPT ![r] = Partly(a, r, n + 1)]
    BY <1>1, <1>2, <2>1, <2>2, <2>3
  <2> QED
    BY <1>1, <2>4 DEF UpTo
<1> QED
  BY <1>2, <1>3, <1>4, <1>5 DEF D

LEMMA CountPrints ==
  ASSUME NEW w \in Word, NEW a \in Promise!Answers(w), NEW x \in State, x.kind = "count"
  PROVE  /\ Record(a, x).value = Len(a) /\ Printed(a, x) = <<>>
         /\ Len(a) = 0 => a = <<>>
         /\ \A z : z.kind = "head" /\ z.left = Len(a) => Printed(a, z) = <<>>
<1>1. a \in Seq(Entry) /\ Len(a) \in Nat
  BY AnswerFacts
<1>2. ASSUME NEW z, z.kind = "head", z.left = Len(a) PROVE Printed(a, z) = <<>>
  <2>1. Row(a, z) - 1 = 0
    BY <1>1, <1>2 DEF Row
  <2> QED
    BY <1>2, <2>1, WholeFacts DEF Printed
<1>3. Record(a, x).value = Len(a)
  BY DEF Record, CountToken
<1>4. Printed(a, x) = <<>>
  BY DEF Printed
<1> QED
  BY <1>1, <1>2, <1>3, <1>4, EmptySeq

LEMMA HeadPrints ==
  ASSUME NEW w \in Word, NEW a \in Promise!Answers(w), NEW x \in State, x.kind = "head",
         Place(a, x), NEW z, z.kind = "size", z.left = x.left
  PROVE  Printed(a, z) =
           Append(Printed(a, x), [distance |-> Record(a, x).distance,
                                  word |-> Record(a, x).cipher.text, docs |-> <<>>])
<1> DEFINE r == Row(a, x)
<1>1. Len(a) \in Nat /\ x.left \in 1..Len(a) /\ r \in 1..Len(a) /\ Row(a, z) = r
  BY AnswerFacts DEF Place, Row
<1>2. Printed(a, x) = Whole(a, r - 1) /\ Printed(a, z) = UpTo(a, r, 0)
  BY <1>1 DEF Printed
<1>3. Record(a, x).distance = a[r].distance /\ Record(a, x).cipher.text = a[r].word
  BY DEF Record, HeadToken, Enc
<1> HIDE DEF r
<1>4. Partly(a, r, 0) = [distance |-> Record(a, x).distance,
                         word |-> Record(a, x).cipher.text, docs |-> <<>>]
  BY <1>1, <1>3, PartlyFacts
<1> QED
  BY <1>1, <1>2, <1>4, UpToFacts

\* At the end of file a size is taken for zero: the answer is cut short.
LEMMA SizePrints ==
  ASSUME NEW w \in Word, NEW a \in Promise!Answers(w), NEW x \in State, x.kind = "size",
         Place(a, x)
  PROVE  /\ Record(a, x).value \in Nat \ {0}
         /\ \A z : z.kind = "num" /\ z.left = x.left /\ z.nums = Record(a, x).value =>
              Printed(a, z) = Printed(a, x)
         /\ x.left = 1 => Printed(a, x) \in Promise!CutShort(w)
<1> DEFINE r == Row(a, x)
<1>1. /\ a \in Seq(Entry) /\ Len(a) \in Nat /\ x.left \in 1..Len(a) /\ r \in 1..Len(a)
      /\ a[r] \in Entry /\ Len(a[r].docs) \in Nat \ {0}
  <2>1. a \in Seq(Entry) /\ Len(a) \in Nat /\ x.left \in 1..Len(a) /\ r \in 1..Len(a)
    BY AnswerFacts DEF Place, Row
  <2> HIDE DEF r
  <2> QED
    BY <2>1, AnswerFacts
<1>2. Record(a, x).value = Len(a[r].docs)
  BY DEF Record, SizeToken
<1>3. Printed(a, x) = UpTo(a, r, 0)
  BY DEF Printed
<1>4. ASSUME NEW z, z.kind = "num", z.left = x.left, z.nums = Record(a, x).value
      PROVE  Printed(a, z) = Printed(a, x)
  <2>1. Row(a, z) = r
    BY <1>4 DEF Row
  <2> HIDE DEF r
  <2>2. Len(a[r].docs) - z.nums = 0
    BY <1>1, <1>2, <1>4
  <2> QED
    BY <1>3, <1>4, <2>1, <2>2 DEF Printed
<1>5. ASSUME x.left = 1 PROVE Printed(a, x) \in Promise!CutShort(w)
  <2>1. r = Len(a) /\ a # <<>>
    BY <1>1, <1>5, EmptySeq DEF Row
  <2> HIDE DEF r
  <2>2. Partly(a, r, 0) = [a[r] EXCEPT !.docs = <<>>]
    <3>1. Partly(a, r, 0) = [distance |-> a[r].distance, word |-> a[r].word, docs |-> <<>>]
      BY <1>1, PartlyFacts
    <3>2. \A e \in Entry : [e EXCEPT !.docs = <<>>]
                            = [distance |-> e.distance, word |-> e.word, docs |-> <<>>]
      BY DEF Entry
    <3> QED
      BY <1>1, <3>1, <3>2
  <2>3. UpTo(a, r, 0) = [a EXCEPT ![r] = Partly(a, r, 0)]
    <3>1. a \in [1..Len(a) -> Entry]
      BY <1>1
    <3> QED
      BY <2>1, <3>1 DEF UpTo
  <2>4. UpTo(a, r, 0) = [a EXCEPT ![Len(a)].docs = <<>>]
    BY <2>1, <2>2, <2>3
  <2> QED
    BY <1>3, <2>1, <2>4 DEF Promise!CutShort
<1> QED
  BY <1>1, <1>2, <1>4, <1>5

LEMMA NumPrints ==
  ASSUME NEW w \in Word, NEW a \in Promise!Answers(w), NEW x \in State, x.kind = "num",
         Place(a, x)
  PROVE  LET longer == WithDoc(Printed(a, x), Record(a, x).cipher.text)
         IN  /\ x.nums # 1 =>
                  \A z : z.kind = "num" /\ z.left = x.left /\ z.nums = x.nums - 1 =>
                    Printed(a, z) = longer
             /\ x.nums = 1 =>
                  \A z : z.kind = "head" /\ z.left = x.left - 1 => Printed(a, z) = longer
             /\ x.nums = 1 /\ x.left = 1 => longer = a
<1> DEFINE r == Row(a, x)
           n == Len(a[r].docs) - x.nums
           longer == WithDoc(Printed(a, x), Record(a, x).cipher.text)
<1>1. /\ Len(a) \in Nat /\ x.left \in 1..Len(a) /\ r \in 1..Len(a)
      /\ Len(a[r].docs) \in Nat \ {0} /\ x.nums \in 1..Len(a[r].docs)
  <2>1. /\ Len(a) \in Nat /\ x.left \in 1..Len(a) /\ r \in 1..Len(a)
        /\ x.nums \in 1..Len(a[r].docs)
    BY AnswerFacts DEF Place, Row
  <2> HIDE DEF r
  <2> QED
    BY <2>1, AnswerFacts
<1>2. n \in 0..(Len(a[r].docs) - 1)
  BY <1>1
<1>3. Record(a, x).cipher.text = a[r].docs[n + 1]
  BY DEF Record, NumToken, Enc
<1>4. Printed(a, x) = UpTo(a, r, n)
  BY DEF Printed
<1>5. longer = UpTo(a, r, n + 1)
  <2> HIDE DEF r, n
  <2> QED
    BY <1>1, <1>2, <1>3, <1>4, UpToFacts
<1>6. ASSUME x.nums = 1 PROVE longer = Whole(a, r)
  <2>1. n + 1 = Len(a[r].docs)
    BY <1>1, <1>6
  <2> HIDE DEF r, n, longer
  <2> QED
    BY <1>1, <1>5, <2>1, UpToFacts
<1>7. ASSUME x.nums # 1, NEW z, z.kind = "num", z.left = x.left, z.nums = x.nums - 1
      PROVE  Printed(a, z) = longer
  <2>1. Row(a, z) = r /\ Len(a[r].docs) - z.nums = n + 1
    BY <1>1, <1>7 DEF Row
  <2> HIDE DEF r, n, longer
  <2> QED
    BY <1>5, <1>7, <2>1 DEF Printed
<1>8. ASSUME x.nums = 1, NEW z, z.kind = "head", z.left = x.left - 1
      PROVE  Printed(a, z) = longer
  <2>1. Row(a, z) - 1 = r
    BY <1>1, <1>8 DEF Row
  <2> HIDE DEF r, n, longer
  <2> QED
    BY <1>6, <1>8, <2>1 DEF Printed
<1>9. ASSUME x.nums = 1, x.left = 1 PROVE longer = a
  <2>1. r = Len(a)
    BY <1>1, <1>9 DEF Row
  <2> HIDE DEF r, n, longer
  <2> QED
    BY <1>6, <1>9, <2>1, WholeFacts
<1> QED
  BY <1>7, <1>8, <1>9

-----------------------------------------------------------------------------
(* Facts about reading.                                                    *)

LEMMA AfterType ==
  ASSUME NEW x \in State, NEW t \in Token
  PROVE  After(x, t) \in State
<1>1. t.kind \in {"count", "size"} => t.value \in Int
  BY TokenFacts
<1>2. \A u \in State : EndsKeyword(u) \in State
  BY DEF EndsKeyword, State, Kinds
<1>3. CASE t.kind = "count"
  BY <1>1, <1>3 DEF After, State, Kinds
<1>4. CASE t.kind = "head"
  BY <1>4 DEF After, State, Kinds
<1>5. CASE t.kind = "size"
  <2>1. t.value \in Int
    BY <1>1, <1>5
  <2>2. [x EXCEPT !.kind = "num", !.nums = t.value] \in State
    BY <2>1 DEF State, Kinds
  <2> QED
    BY <1>2, <1>5, <2>2 DEF After
<1>6. CASE t.kind \notin {"count", "head", "size"}
  <2>1. [x EXCEPT !.nums = 0] \in State /\ [x EXCEPT !.nums = x.nums - 1] \in State
    BY DEF State
  <2> QED
    BY <1>2, <1>6, <2>1 DEF After
<1> QED
  BY <1>3, <1>4, <1>5, <1>6

LEMMA ReadsNothing ==
  ASSUME NEW a, NEW x \in State
  PROVE  Reads(a, x, <<>>, x) /\ \A y : Reads(a, x, <<>>, y) => y = x
<1> DEFINE st == [i \in 0..0 |-> x]
<1>1. Len(<<>>) = 0 /\ 1..0 = {} /\ st \in [0..0 -> State] /\ st[0] = x
  OBVIOUS
<1> HIDE DEF st
<1>2. Reads(a, x, <<>>, x)
  BY <1>1 DEF Reads
<1>3. \A y : Reads(a, x, <<>>, y) => y = x
  BY <1>1 DEF Reads
<1> QED
  BY <1>2, <1>3

LEMMA ReadsMore ==
  ASSUME NEW a, NEW s \in Seq(Token), NEW t \in Token, NEW x \in State, NEW y \in State,
         Reads(a, x, s, y), t.kind = y.kind, t = Record(a, y)
  PROVE  Reads(a, x, Append(s, t), After(y, t))
<1>1. PICK st \in [0..Len(s) -> State] :
        /\ st[0] = x /\ st[Len(s)] = y
        /\ \A i \in 1..Len(s) :
             /\ s[i].kind = st[i - 1].kind
             /\ s[i] = Record(a, st[i - 1])
             /\ st[i] = After(st[i - 1], s[i])
  BY DEF Reads
<1> DEFINE r == Append(s, t)
           z == After(y, t)
           more == [i \in 0..Len(r) |-> IF i <= Len(s) THEN st[i] ELSE z]
<1>2. /\ Len(s) \in Nat /\ Len(r) = Len(s) + 1
      /\ \A i \in 1..Len(s) : r[i] = s[i]
      /\ r[Len(s) + 1] = t
  BY AppendProperties
<1>3. z \in State
  BY AfterType
<1> HIDE DEF r, z
<1>4. more \in [0..Len(r) -> State]
  BY <1>2, <1>3
<1>5. more[0] = x /\ more[Len(r)] = z
  BY <1>1, <1>2
<1>6. ASSUME NEW i \in 1..Len(r)
      PROVE  /\ r[i].kind = more[i - 1].kind
             /\ r[i] = Record(a, more[i - 1])
             /\ more[i] = After(more[i - 1], r[i])
  <2>1. CASE i <= Len(s)
    <3>1. i \in 1..Len(s) /\ more[i - 1] = st[i - 1] /\ more[i] = st[i] /\ r[i] = s[i]
      BY <1>2, <2>1
    <3> QED
      BY <1>1, <3>1
  <2>2. CASE i = Len(s) + 1
    <3>1. more[i - 1] = y /\ more[i] = z /\ r[i] = t
      BY <1>1, <1>2, <2>2
    <3> QED
      BY <3>1 DEF z
  <2> QED
    BY <1>2, <2>1, <2>2
<1> HIDE DEF more
<1>7. Reads(a, x, r, z)
  BY <1>4, <1>5, <1>6 DEF Reads
<1> QED
  BY <1>7 DEF r, z

LEMMA ReadsFirst ==
  ASSUME NEW a, NEW s \in Seq(Token), s # <<>>, NEW x \in State, NEW y \in State, Reads(a, x, s, y)
  PROVE  Head(s).kind = x.kind /\ Head(s) = Record(a, x) /\ Reads(a, After(x, Head(s)), Tail(s), y)
<1>1. PICK st \in [0..Len(s) -> State] :
        /\ st[0] = x /\ st[Len(s)] = y
        /\ \A i \in 1..Len(s) :
             /\ s[i].kind = st[i - 1].kind
             /\ s[i] = Record(a, st[i - 1])
             /\ st[i] = After(st[i - 1], s[i])
  BY DEF Reads
<1> DEFINE r == Tail(s)
           rest == [i \in 0..Len(r) |-> st[i + 1]]
<1>2. /\ Len(s) \in Nat /\ Len(s) >= 1 /\ Len(r) = Len(s) - 1
      /\ \A i \in 1..Len(r) : r[i] = s[i + 1]
      /\ Head(s) = s[1]
  BY HeadTailProperties, EmptySeq
<1>3. Head(s).kind = x.kind /\ Head(s) = Record(a, x) /\ st[1] = After(x, Head(s))
  BY <1>1, <1>2
<1> HIDE DEF r
<1>4. rest \in [0..Len(r) -> State]
  BY <1>2
<1>5. rest[0] = After(x, Head(s)) /\ rest[Len(r)] = y
  BY <1>1, <1>2, <1>3
<1>6. ASSUME NEW i \in 1..Len(r)
      PROVE  /\ r[i].kind = rest[i - 1].kind
             /\ r[i] = Record(a, rest[i - 1])
             /\ rest[i] = After(rest[i - 1], r[i])
  <2>1. i + 1 \in 1..Len(s) /\ rest[i - 1] = st[i] /\ rest[i] = st[i + 1] /\ r[i] = s[i + 1]
    BY <1>2
  <2>2. /\ s[i + 1].kind = st[i].kind
        /\ s[i + 1] = Record(a, st[i])
        /\ st[i + 1] = After(st[i], s[i + 1])
    BY <1>1, <2>1
  <2> QED
    BY <2>1, <2>2
<1> HIDE DEF rest
<1>7. Reads(a, After(x, Head(s)), r, y)
  BY <1>4, <1>5, <1>6 DEF Reads
<1> QED
  BY <1>3, <1>7 DEF r

LEMMA ReadsPrefix ==
  ASSUME NEW a, NEW s \in Seq(Token), NEW t \in Seq(Token), NEW x \in State, NEW y \in State,
         Reads(a, x, s \o t, y)
  PROVE  \E z \in State : Reads(a, x, s, z)
<1> DEFINE r == s \o t
<1>1. PICK st \in [0..Len(r) -> State] :
        /\ st[0] = x /\ st[Len(r)] = y
        /\ \A i \in 1..Len(r) :
             /\ r[i].kind = st[i - 1].kind
             /\ r[i] = Record(a, st[i - 1])
             /\ st[i] = After(st[i - 1], r[i])
  BY DEF Reads
<1>2. /\ Len(s) \in Nat /\ Len(t) \in Nat /\ Len(r) = Len(s) + Len(t)
      /\ \A i \in 1..Len(s) : r[i] = s[i]
  BY ConcatProperties
<1> HIDE DEF r
<1> DEFINE first == [i \in 0..Len(s) |-> st[i]]
<1>3. first \in [0..Len(s) -> State] /\ first[0] = x /\ first[Len(s)] \in State
  BY <1>1, <1>2
<1>4. ASSUME NEW i \in 1..Len(s)
      PROVE  /\ s[i].kind = first[i - 1].kind
             /\ s[i] = Record(a, first[i - 1])
             /\ first[i] = After(first[i - 1], s[i])
  <2>1. i \in 1..Len(r) /\ first[i - 1] = st[i - 1] /\ first[i] = st[i] /\ r[i] = s[i]
    BY <1>2
  <2> QED
    BY <1>1, <2>1
<1> HIDE DEF first
<1>5. Reads(a, x, s, first[Len(s)])
  BY <1>3, <1>4 DEF Reads
<1> QED
  BY <1>3, <1>5


-----------------------------------------------------------------------------
(* The invariant: what has been sent and what the server is about to write *)
(* leaves a client where the server expects it, and is an answer to what   *)
(* it asked.                                                               *)

Busy == spc \notin {"accept", "down"}
Alive(c) == cpc[c] \in {"send"} \cup Kinds
Serving(c) == conn = c /\ spc \in {"write", "reenc"}

\* The records a client will read before the server makes another one.
Coming(c) == IF Serving(c) THEN toClient[c] \o pending ELSE toClient[c]

\* The server has no answer to make until it reads a request.
Ready(c, y) ==
  IF toServer[c] = <<>> THEN y.kind = "send" ELSE y.kind = "count" /\ Coming(c) = <<>>

AtWord(c) == conn = c /\ spc \in {"fetch", "match"}
AtEntry(c) == conn = c /\ spc = "write" /\ idx < Len(location)
AtNumbers(c) == conn = c /\ spc = "reenc"

\* The state in which the server expects a client that has read all of this.
Awaits(c, y) ==
  /\ AtWord(c) => toServer[c] = <<>> /\ y.kind = "count" /\ Coming(c) = <<>>
  /\ AtEntry(c) => toServer[c] = <<>> /\ y.kind = "head" /\ y.left = Len(location) - idx
  /\ AtNumbers(c) =>
       /\ toServer[c] = <<>> /\ pending # <<>>
       /\ \/ /\ numIdx < Len(postings)
             /\ y.kind = "num" /\ y.left = Len(location) - idx /\ y.nums = Len(postings) - numIdx
          \/ /\ numIdx = Len(postings)
             /\ y.kind = (IF Len(location) - idx = 1 THEN "send" ELSE "head")
             /\ y.left = Len(location) - idx - 1
  /\ ~AtWord(c) /\ ~AtEntry(c) /\ ~AtNumbers(c) => Ready(c, y)

\* The answer the server is making.
Making == [k \in DOMAIN location |-> Promise!Line(asked[conn], wordTable[location[k]])]

\* The answers a client will have printed in state y, and those the server
\* has finished for it.
Total(c, y) == Len(reports[c]) + (IF y.kind = "send" /\ cpc[c] # "send" THEN 1 ELSE 0)

Finishing(c, y) == Serving(c) /\ (y.kind = "send" \/ toServer[c] # <<>>)

Expected(c, y) ==
  IF Busy /\ conn = c THEN epoch + (IF Finishing(c, y) THEN 1 ELSE 0) ELSE 0

\* A client to which answer a is being sent, and which reads up to y, suits
\* the server.
Suits(c, a, y) ==
  /\ link[c] = "open" =>
       Awaits(c, y) /\ Total(c, y) = Expected(c, y) /\ (Serving(c) => a = Making)
  /\ link[c] = "closed" /\ spc # "down" => Total(c, y) = N

\* A size that was cut off has been taken for zero: nothing more will come.
Lost(c) == spc = "down" /\ toClient[c] = <<>> /\ cpc[c] = "head"

\* What a client has printed of this answer is the beginning of a.
Told(c, a) ==
  \/ Lost(c)
  \/ /\ Place(a, ClientState(c))
     /\ lines[c] = Printed(a, ClientState(c))
     /\ cpc[c] \in {"head", "size", "num"} \/ Coming(c) # <<>> =>
          a \in Promise!Answers(asked[c])

Synced(c) ==
  \E a \in Seq(Entry), y \in State :
    Told(c, a) /\ Reads(a, ClientState(c), Coming(c), y) /\ Suits(c, a, y)

Half(c) == Len(toServer[c]) <= 1 /\ (toServer[c] # <<>> => toClient[c] = <<>>)

\* A connection is in the accept queue once or served, and open.
LinkOK ==
  /\ Busy => link[conn] = "open"
  /\ spc # "down" =>
       \A k \in DOMAIN backlog : link[backlog[k]] = "open" /\ (Busy => backlog[k] # conn)
  /\ \A j, k \in DOMAIN backlog : j # k => backlog[j] # backlog[k]
  /\ \A c \in Client :
       cpc[c] = "start" =>
         /\ link[c] = "none" /\ toClient[c] = <<>> /\ toServer[c] = <<>>
         /\ lines[c] = <<>> /\ reports[c] = <<>>

\* A client that is served is answered for the word it sent.
Heard == spc \in {"fetch", "match", "write", "reenc"} /\ ~Gone(conn) => word # Garbage

SyncInv ==
  /\ \A c \in Client : Alive(c) => Synced(c)
  /\ \A c \in Client : Half(c)
  /\ LinkOK
  /\ Heard

\* Who has stopped, and why: a client of a running server stops when it has
\* its last answer, which is when the server is about to close the connection.
Stands(c) ==
  /\ ~Gone(c) => Len(reports[c]) < N
  /\ cpc[c] = "crashed" => c \in CanCrash
  /\ spc # "down" => cpc[c] # "failed"
  /\ spc # "down" /\ cpc[c] \in {"start", "done", "refused"} =>
       \A k \in DOMAIN backlog : backlog[k] # c
  /\ Busy /\ conn = c =>
       /\ cpc[c] \notin {"start", "refused"}
       /\ cpc[c] = "done" =>
            spc = "write" /\ pending = <<>> /\ ~(idx < Len(location)) /\ epoch = N - 1

Listed == cipherWordList \in Bijection(1..Cardinality(Keyword), DOMAIN cipher_wordMap)

Standing == (\A c \in Client : Stands(c)) /\ Listed

Inv == IInv /\ SyncInv /\ Standing

-----------------------------------------------------------------------------
(* Types.                                                                  *)

LEMMA ClientStateType ==
  ASSUME TypeOK, NEW c \in Client, Alive(c)
  PROVE  ClientState(c) \in State
BY DEF TypeOK, Alive, ClientState, State

LEMMA StateFields ==
  ASSUME NEW c \in Client
  PROVE  /\ ClientState(c).kind = cpc[c]
         /\ ClientState(c).left = left[c]
         /\ ClientState(c).nums = numsLeft[c]
BY DEF ClientState

LEMMA ComingType ==
  ASSUME TypeOK, NEW c \in Client
  PROVE  /\ Coming(c) \in Seq(Token) /\ toClient[c] \in Seq(Token) /\ pending \in Seq(Token)
         /\ ~Serving(c) => Coming(c) = toClient[c]
         /\ Serving(c) => Coming(c) = toClient[c] \o pending
<1>1. toClient[c] \in Seq(Token) /\ pending \in Seq(Token)
  BY DEF TypeOK
<1>2. toClient[c] \o pending \in Seq(Token)
  BY <1>1, ConcatProperties
<1> QED
  BY <1>1, <1>2 DEF Coming

\* What is in a stream comes first.
LEMMA IncomingFirst ==
  ASSUME TypeOK, NEW c \in Client, toClient[c] # <<>>
  PROVE  /\ Coming(c) # <<>> /\ Head(Coming(c)) = Head(toClient[c])
         /\ Serving(c) => Tail(Coming(c)) = Tail(toClient[c]) \o pending
         /\ ~Serving(c) => Tail(Coming(c)) = Tail(toClient[c])
<1> DEFINE s == toClient[c]
<1>1. s \in Seq(Token) /\ s # <<>> /\ pending \in Seq(Token)
  BY ComingType
<1> HIDE DEF s
<1>2. s \o pending # <<>> /\ Head(s \o pending) = Head(s) /\ Tail(s \o pending) = Tail(s) \o pending
  <2> DEFINE r == s \o pending
             u == Tail(s) \o pending
  <2>1. /\ Len(s) \in Nat /\ Len(s) >= 1 /\ Len(pending) \in Nat
        /\ r \in Seq(Token) /\ Len(r) = Len(s) + Len(pending)
        /\ \A i \in 1..Len(s) + Len(pending) :
             r[i] = IF i <= Len(s) THEN s[i] ELSE pending[i - Len(s)]
    BY <1>1, EmptySeq, ConcatProperties
  <2>2. /\ Tail(s) \in Seq(Token) /\ Len(Tail(s)) = Len(s) - 1
        /\ \A i \in 1..Len(Tail(s)) : Tail(s)[i] = s[i + 1]
    BY <1>1, HeadTailProperties
  <2>3. /\ u \in Seq(Token) /\ Len(u) = Len(Tail(s)) + Len(pending)
        /\ \A i \in 1..Len(Tail(s)) + Len(pending) :
             u[i] = IF i <= Len(Tail(s)) THEN Tail(s)[i] ELSE pending[i - Len(Tail(s))]
    BY <1>1, <2>2, ConcatProperties
  <2> HIDE DEF r, u
  <2>4. r # <<>> /\ Head(r) = r[1] /\ Head(s) = s[1] /\ r[1] = s[1]
    BY <1>1, <2>1
  <2>5. /\ Tail(r) \in Seq(Token) /\ Len(Tail(r)) = Len(r) - 1
        /\ \A i \in 1..Len(Tail(r)) : Tail(r)[i] = r[i + 1]
    BY <2>1, <2>4, HeadTailProperties
  <2>6. Len(Tail(r)) = Len(u)
    BY <2>1, <2>2, <2>3, <2>5
  <2>7. ASSUME NEW i \in 1..Len(Tail(r)) PROVE Tail(r)[i] = u[i]
    <3>1. i + 1 \in 1..Len(s) + Len(pending) /\ i \in 1..Len(Tail(s)) + Len(pending)
      BY <2>1, <2>2, <2>5
    <3>2. Tail(r)[i] = IF i + 1 <= Len(s) THEN s[i + 1] ELSE pending[i + 1 - Len(s)]
      BY <2>1, <2>5, <3>1
    <3>3. u[i] = IF i <= Len(s) - 1 THEN s[i + 1] ELSE pending[i - (Len(s) - 1)]
      BY <2>1, <2>2, <2>3, <3>1
    <3>4. (i + 1 <= Len(s) <=> i <= Len(s) - 1) /\ i + 1 - Len(s) = i - (Len(s) - 1)
      BY <2>1
    <3> QED
      BY <3>2, <3>3, <3>4
  <2>8. Tail(r) = u
    BY <2>3, <2>5, <2>6, <2>7, SeqEqual
  <2> QED
    BY <2>4, <2>8 DEF r, u
<1> QED
  BY <1>1, <1>2 DEF s, Coming

\* A client that is about to send has read everything.
LEMMA SendReadsNothing ==
  ASSUME NEW a, NEW s \in Seq(Token), NEW x \in State, NEW y \in State, Reads(a, x, s, y),
         x.kind = "send"
  PROVE  s = <<>> /\ y = x
<1>1. ASSUME s # <<>> PROVE FALSE
  <2>1. Head(s).kind = "send" /\ Head(s) \in Token
    BY <1>1, ReadsFirst, HeadOfSeq
  <2> QED
    BY <2>1 DEF Token
<1> QED
  BY <1>1, ReadsNothing

-----------------------------------------------------------------------------
(* The steps of a client.                                                  *)

Others(c) ==
  \A d \in Client \ {c} :
    /\ cpc'[d] = cpc[d] /\ left'[d] = left[d] /\ numsLeft'[d] = numsLeft[d]
    /\ lines'[d] = lines[d] /\ reports'[d] = reports[d]
    /\ toClient'[d] = toClient[d] /\ toServer'[d] = toServer[d] /\ link'[d] = link[d]

LEMMA Undisturbed ==
  ASSUME NEW c \in Client, Others(c), UNCHANGED <<serverVars, asked>>, NEW d \in Client \ {c}
  PROVE  /\ (Alive(d) => Synced(d)) => (Alive(d) => Synced(d))'
         /\ Half(d) => Half(d)'
<1>1. /\ cpc'[d] = cpc[d] /\ left'[d] = left[d] /\ numsLeft'[d] = numsLeft[d]
      /\ lines'[d] = lines[d] /\ reports'[d] = reports[d] /\ asked' = asked
      /\ toClient'[d] = toClient[d] /\ toServer'[d] = toServer[d] /\ link'[d] = link[d]
  BY DEF Others
<1>2. ClientState(d)' = ClientState(d) /\ Alive(d)' = Alive(d)
  BY <1>1 DEF ClientState, Alive
<1>3. Coming(d)' = Coming(d)
  BY <1>1 DEF Coming, Serving, serverVars
<1>4. \A y : Awaits(d, y)' = Awaits(d, y)
  BY <1>1, <1>3 DEF Awaits, Ready, AtWord, AtEntry, AtNumbers, postings, query_cipher_word,
                    serverVars
<1>5. \A y : Total(d, y)' = Total(d, y) /\ Expected(d, y)' = Expected(d, y)
  BY <1>1 DEF Total, Expected, Finishing, Serving, Busy, serverVars
<1>6. Making' = Making
  BY <1>1 DEF Making, serverVars
<1>7. \A a, y : Suits(d, a, y)' = Suits(d, a, y)
  BY <1>1, <1>4, <1>5, <1>6 DEF Suits, Serving, serverVars
<1>8. \A a : Told(d, a)' = Told(d, a)
  BY <1>1, <1>2, <1>3 DEF Told, Lost, serverVars
<1>9. Synced(d)' = Synced(d)
  BY <1>2, <1>3, <1>7, <1>8 DEF Synced
<1> QED
  BY <1>1, <1>2, <1>9 DEF Half

LEMMA ClientSync ==
  ASSUME Inv, NEW c \in Client, Others(c), UNCHANGED <<serverVars, asked, backlog, link>>,
         ~Gone(c), cpc'[c] # "start", (Alive(c) => Synced(c))', Half(c)', Stands(c)'
  PROVE  SyncInv' /\ Standing'
<1>1. \A d \in Client : (Alive(d) => Synced(d))' /\ Half(d)'
  BY Undisturbed DEF Inv, SyncInv
<1>2. LinkOK'
  BY DEF Inv, SyncInv, LinkOK, Others, Busy, serverVars
<1>3. Heard'
  <2>1. conn' = conn /\ spc' = spc /\ word' = word /\ (Busy => conn \in Client)
    BY DEF serverVars, Inv, IInv, ConnOK, Busy
  <2>2. Busy /\ ~Gone(conn)' => ~Gone(conn)
    BY <2>1 DEF Others, Gone
  <2> QED
    BY <2>1, <2>2 DEF Inv, SyncInv, Heard, Busy
<1>4. ASSUME NEW d \in Client \ {c} PROVE Stands(d)'
  <2>1. Stands(d) /\ cpc'[d] = cpc[d] /\ reports'[d] = reports[d]
    BY DEF Inv, Standing, Others
  <2> QED
    BY <2>1 DEF Stands, Gone, Busy, serverVars
<1>5. Listed'
  BY DEF Inv, Standing, Listed, serverVars
<1> QED
  BY <1>1, <1>2, <1>3, <1>4, <1>5 DEF SyncInv, Standing

\* What a client of the invariant is being sent.
LEMMA SyncedFacts ==
  ASSUME Inv, NEW c \in Client, Alive(c)
  PROVE  \E a \in Seq(Entry), y \in State :
           /\ Told(c, a) /\ Reads(a, ClientState(c), Coming(c), y) /\ Suits(c, a, y)
           /\ ClientState(c) \in State /\ Coming(c) \in Seq(Token)
BY ClientStateType, ComingType DEF Inv, IInv, SyncInv, Synced

\* Reading takes the server's invariant for granted: nothing but the answer
\* under way can be read.
LEMMA ReceivedFacts ==
  ASSUME Inv, NEW c \in Client, NEW kind \in Kinds, Receives(c, kind)
  PROVE  \E a \in Promise!Answers(asked[c]), y \in State :
           /\ a \in Seq(Entry) /\ Suits(c, a, y)
           /\ ClientState(c) \in State /\ ClientState(c).kind = kind
           /\ Place(a, ClientState(c)) /\ lines[c] = Printed(a, ClientState(c))
           /\ Incoming(c) = Record(a, ClientState(c)) /\ Incoming(c) \in Token
           /\ After(ClientState(c), Incoming(c)) \in State
           /\ Place(a, After(ClientState(c), Incoming(c)))
           /\ Tail(Coming(c)) \in Seq(Token)
           /\ Reads(a, After(ClientState(c), Incoming(c)), Tail(Coming(c)), y)
<1>1. cpc[c] = kind /\ toClient[c] # <<>> /\ Alive(c) /\ TypeOK /\ ~Lost(c)
  BY DEF Receives, Alive, Inv, IInv, Lost
<1>2. PICK a \in Seq(Entry), y \in State :
        /\ Told(c, a) /\ Reads(a, ClientState(c), Coming(c), y) /\ Suits(c, a, y)
        /\ ClientState(c) \in State /\ Coming(c) \in Seq(Token)
  BY <1>1, SyncedFacts
<1>3. Coming(c) # <<>> /\ Head(Coming(c)) = Incoming(c)
  BY <1>1, IncomingFirst DEF Incoming
<1>4. /\ Place(a, ClientState(c)) /\ lines[c] = Printed(a, ClientState(c))
      /\ a \in Promise!Answers(asked[c])
  BY <1>1, <1>2, <1>3 DEF Told
<1>5. /\ Incoming(c) = Record(a, ClientState(c))
      /\ Reads(a, After(ClientState(c), Incoming(c)), Tail(Coming(c)), y)
  BY <1>2, <1>3, ReadsFirst
<1>6. asked[c] \in Word /\ ClientState(c).kind = kind /\ kind \in Kinds
  BY <1>1, StateFields DEF TypeOK
<1>7. /\ Incoming(c) \in Token
      /\ After(ClientState(c), Incoming(c)) \in State
      /\ Place(a, After(ClientState(c), Incoming(c)))
  BY <1>2, <1>4, <1>5, <1>6, RecordFacts
<1>8. Tail(Coming(c)) \in Seq(Token)
  BY <1>2, <1>3, HeadTailProperties
<1> QED
  BY <1>2, <1>4, <1>5, <1>6, <1>7, <1>8

\* What a step that reads a record does to a client: it goes to the state the
\* record leads to, prints what the answer says by then, and has another answer
\* when that state is "send".
Progress(c) ==
  /\ cpc'[c] \in Kinds \cup {"send", "done"}
  /\ cpc'[c] # "done" => ClientState(c)' = After(ClientState(c), Incoming(c))
  /\ \A a \in Promise!Answers(asked[c]) :
       Place(a, ClientState(c)) /\ lines[c] = Printed(a, ClientState(c))
       /\ Incoming(c) = Record(a, ClientState(c)) /\ cpc'[c] # "done" =>
         lines'[c] = Printed(a, After(ClientState(c), Incoming(c)))
  /\ IF cpc'[c] \in {"send", "done"}
     THEN /\ After(ClientState(c), Incoming(c)).kind = "send"
          /\ Len(reports'[c]) = Len(reports[c]) + 1
          /\ cpc'[c] = "done" <=> Len(reports[c]) + 1 = N
     ELSE reports'[c] = reports[c]

\* A record is read.
LEMMA ReceivesSync ==
  ASSUME Inv, IInv', NEW c \in Client, NEW kind \in Kinds, Receives(c, kind),
         Others(c), UNCHANGED <<serverVars, asked, backlog, link, toServer>>, Progress(c)
  PROVE  SyncInv' /\ Standing'
<1>1. /\ TypeOK /\ TypeOK' /\ Alive(c) /\ toClient[c] # <<>> /\ cpc[c] = kind
      /\ toClient'[c] = Tail(toClient[c]) /\ asked' = asked /\ link' = link
      /\ cpc'[c] \in Kinds \cup {"send", "done"} /\ spc' = spc
  BY DEF Inv, IInv, TypeOK, Receives, Alive, Progress, serverVars
<1> DEFINE x == ClientState(c)
           z == After(x, Incoming(c))
<1>2. PICK a \in Promise!Answers(asked[c]), y \in State :
        /\ a \in Seq(Entry) /\ Suits(c, a, y)
        /\ x \in State /\ x.kind = kind
        /\ Place(a, x) /\ lines[c] = Printed(a, x)
        /\ Incoming(c) = Record(a, x) /\ Incoming(c) \in Token
        /\ z \in State /\ Place(a, z)
        /\ Tail(Coming(c)) \in Seq(Token) /\ Reads(a, z, Tail(Coming(c)), y)
  BY ReceivedFacts
<1>3. Coming(c)' = Tail(Coming(c)) /\ Coming(c) # <<>>
  BY <1>1, IncomingFirst DEF Coming, Serving, serverVars
<1>4. toServer[c] = <<>> /\ toServer'[c] = <<>>
  BY <1>1 DEF Inv, SyncInv, Half
<1>5. cpc'[c] # "done" => ClientState(c)' = z /\ lines'[c] = Printed(a, z)
  BY <1>2 DEF Progress
<1>6. /\ Len(reports[c]) \in Nat /\ Len(reports[c]) < N /\ N \in Nat /\ epoch \in 0..(N - 1)
      /\ reports'[c] \in Seq(Seq(Entry)) /\ Len(reports'[c]) \in Nat
  <2>1. reports[c] \in Seq(Seq(Entry)) /\ epoch \in 0..(N - 1) /\ reports'[c] \in Seq(Seq(Entry))
    BY <1>1 DEF TypeOK
  <2>2. ~Gone(c)
    BY <1>1 DEF Gone, Alive, Ended, Kinds
  <2> QED
    BY <2>1, <2>2, LenProperties, BoundAssumption DEF Inv, Standing, Stands
<1>7. cpc'[c] \in {"send", "done"} => Tail(Coming(c)) = <<>> /\ y = z /\ y.kind = "send"
  <2> SUFFICES ASSUME cpc'[c] \in {"send", "done"}
               PROVE  Tail(Coming(c)) = <<>> /\ y = z /\ y.kind = "send"
    OBVIOUS
  <2>1. z.kind = "send"
    BY DEF Progress
  <2> HIDE DEF z
  <2> QED
    BY <1>2, <2>1, SendReadsNothing
<1>8. ~AtWord(c) \/ link[c] # "open"
  BY <1>2, <1>3 DEF Suits, Awaits
<1>9. link[c] = "open" => Awaits(c, y)'
  <2> SUFFICES ASSUME link[c] = "open" PROVE Awaits(c, y)'
    OBVIOUS
  <2>1. Awaits(c, y) /\ ~AtWord(c) /\ ~AtWord(c)'
    BY <1>2, <1>8 DEF Suits, AtWord, serverVars
  <2> QED
    BY <1>4, <2>1 DEF Awaits, Ready, AtEntry, AtNumbers, AtWord, postings, query_cipher_word,
                      serverVars
<1>10. cpc'[c] # "done" => Total(c, y)' = Total(c, y)
  <2>1. cpc[c] # "send"
    BY <1>1 DEF Kinds
  <2>2. CASE cpc'[c] = "send"
    <3>1. y.kind = "send" /\ Len(reports'[c]) = Len(reports[c]) + 1
      BY <1>7, <2>2 DEF Progress
    <3>2. Total(c, y) = Len(reports[c]) + 1
      BY <2>1, <3>1 DEF Total
    <3>3. Total(c, y)' = Len(reports'[c]) + 0
      BY <2>2 DEF Total
    <3> QED
      BY <1>6, <3>1, <3>2, <3>3
  <2>3. CASE cpc'[c] \in Kinds
    BY <2>1, <2>3 DEF Total, Progress, Kinds
  <2> QED
    BY <1>1, <2>2, <2>3
<1>11. Expected(c, y)' = Expected(c, y)
  BY <1>4 DEF Expected, Finishing, Serving, Busy, serverVars
<1>12. Making' = Making
  BY <1>1 DEF Making, serverVars
<1>13. ASSUME cpc'[c] # "done" PROVE Synced(c)'
  <2>1. Told(c, a)'
    BY <1>1, <1>2, <1>5, <1>13 DEF Told
  <2>2. Reads(a, ClientState(c)', Coming(c)', y)
    BY <1>2, <1>3, <1>5, <1>13
  <2>3. Suits(c, a, y)'
    BY <1>1, <1>2, <1>9, <1>10, <1>11, <1>12, <1>13 DEF Suits, Serving, serverVars
  <2> QED
    BY <1>2, <2>1, <2>2, <2>3 DEF Synced
<1>14. ~Alive(c)' \/ cpc'[c] # "done"
  BY DEF Alive, Kinds
<1>15. Half(c)'
  BY <1>4 DEF Inv, SyncInv, Half
<1>16. Stands(c)'
  <2>1. Stands(c) /\ (spc # "down" => \A k \in DOMAIN backlog : link[backlog[k]] = "open")
        /\ (Busy => link[conn] = "open") /\ (spc # "down" /\ Busy => \A k \in DOMAIN backlog : backlog[k] # conn)
    BY DEF Inv, Standing, SyncInv, LinkOK
  <2>2. ~Gone(c)' => Len(reports'[c]) < N
    <3>1. CASE cpc'[c] = "done"
      BY <3>1 DEF Gone, Ended
    <3>2. CASE cpc'[c] = "send"
      BY <1>6, <3>2 DEF Progress
    <3>3. CASE cpc'[c] \in Kinds
      BY <1>6, <3>3 DEF Progress, Kinds
    <3> QED
      BY <1>1, <3>1, <3>2, <3>3
  <2>3. cpc'[c] \notin {"crashed", "failed", "start", "refused"}
    BY <1>1 DEF Kinds
  <2>4. ASSUME cpc'[c] = "done", link[c] = "open" PROVE Expected(c, y) = N
    <3>1. Total(c, y) = N
      BY <1>1, <1>7, <2>4 DEF Total, Kinds, Progress
    <3> QED
      BY <1>2, <2>4, <3>1 DEF Suits
  <2>5. ASSUME cpc'[c] = "done", spc # "down", NEW k \in DOMAIN backlog PROVE backlog[k] # c
    <3>1. SUFFICES ASSUME backlog[k] = c PROVE FALSE
      OBVIOUS
    <3>2. Expected(c, y) = N /\ ~(Busy /\ conn = c)
      BY <2>1, <2>4, <2>5, <3>1
    <3>3. Expected(c, y) = 0
      BY <3>2 DEF Expected
    <3> QED
      BY <3>2, <3>3, BoundAssumption
  <2>6. ASSUME cpc'[c] = "done", Busy, conn = c
        PROVE  spc = "write" /\ pending = <<>> /\ ~(idx < Len(location)) /\ epoch = N - 1
    <3>1. Expected(c, y) = N /\ link[c] = "open" /\ Awaits(c, y) /\ y.kind = "send"
      BY <1>2, <1>7, <2>1, <2>4, <2>6 DEF Suits
    <3>2. Finishing(c, y) /\ epoch = N - 1
      BY <1>6, <2>6, <3>1 DEF Expected
    <3>3. ~AtEntry(c)
      BY <3>1 DEF Awaits
    <3>4. Serving(c) /\ Tail(toClient[c]) \o pending = <<>>
      BY <1>1, <1>7, <2>6, <3>2, IncomingFirst DEF Finishing
    <3>5. pending = <<>>
      <4>1. Tail(toClient[c]) \in Seq(Token) /\ pending \in Seq(Token)
        BY <1>1, HeadTailProperties DEF TypeOK
      <4> QED
        BY <3>4, <4>1, ConcatEqualIffEmpty
    <3>6. ~AtNumbers(c)
      BY <3>1, <3>5 DEF Awaits
    <3> QED
      BY <2>6, <3>2, <3>3, <3>4, <3>5, <3>6 DEF Serving, AtEntry, AtNumbers
  <2> QED
    BY <1>1, <2>2, <2>3, <2>5, <2>6 DEF Stands, Busy, serverVars
<1>17. ~Gone(c) /\ cpc'[c] # "start"
  BY <1>1 DEF Gone, Alive, Ended, Kinds
<1> QED
  BY <1>13, <1>14, <1>15, <1>16, <1>17, ClientSync

\* A client of a running server has all its answers before the end of file.
LEMMA EndOfFile ==
  ASSUME Inv, NEW c \in Client, NEW kind \in Kinds \cup {"send"}, cpc[c] = kind,
         toClient[c] = <<>>, link[c] = "closed"
  PROVE  spc = "down"
<1>1. Alive(c) /\ ~Gone(c) /\ TypeOK
  BY DEF Alive, Gone, Kinds, Ended, Inv, IInv
<1>2. PICK a \in Seq(Entry), y \in State :
        /\ Told(c, a) /\ Reads(a, ClientState(c), Coming(c), y) /\ Suits(c, a, y)
        /\ ClientState(c) \in State /\ Coming(c) \in Seq(Token)
  BY <1>1, SyncedFacts
<1>3. ~Serving(c) /\ Coming(c) = <<>>
  BY DEF Inv, SyncInv, LinkOK, Busy, Serving, Coming
<1>4. y = ClientState(c) /\ y.kind = cpc[c]
  BY <1>2, <1>3, ReadsNothing, StateFields
<1>5. Len(reports[c]) \in Nat /\ Len(reports[c]) < N
  <2>1. reports[c] \in Seq(Seq(Entry))
    BY <1>1 DEF TypeOK
  <2> QED
    BY <1>1, <2>1, LenProperties DEF Inv, Standing, Stands
<1>6. Total(c, y) = Len(reports[c])
  <2>1. ~(y.kind = "send" /\ cpc[c] # "send")
    BY <1>4
  <2>2. Total(c, y) = Len(reports[c]) + 0
    BY <2>1 DEF Total
  <2> QED
    BY <1>5, <2>2
<1> QED
  BY <1>2, <1>5, <1>6, BoundAssumption DEF Suits

\* A client that is left alone goes on without reading.
LEMMA EofSync ==
  ASSUME Inv, IInv', NEW c \in Client, NEW kind \in Kinds, ReadsEof(c, kind),
         Others(c), UNCHANGED <<serverVars, asked, backlog, link, toServer>>,
         \/ cpc'[c] = "head" /\ reports'[c] = reports[c]
         \/ /\ cpc'[c] \in {"send", "done"} /\ lines'[c] = <<>>
            /\ Len(reports'[c]) = Len(reports[c]) + 1
            /\ cpc'[c] = "done" <=> Len(reports[c]) + 1 = N
  PROVE  SyncInv' /\ Standing'
<1>1. /\ TypeOK' /\ toClient'[c] = <<>> /\ link[c] = "closed" /\ link'[c] = "closed"
      /\ cpc[c] = kind /\ toClient[c] = <<>>
  BY DEF Inv, IInv, ReadsEof
<1>2. spc = "down" /\ spc' = "down" /\ ~Serving(c)'
  BY <1>1, EndOfFile DEF serverVars, Serving
<1>3. ASSUME Alive(c)' PROVE Synced(c)'
  <2>1. ClientState(c)' \in State
    BY <1>1, <1>3 DEF TypeOK, Alive, ClientState, State
  <2>2. Coming(c)' = <<>>
    BY <1>1, <1>2 DEF Coming
  <2>3. Reads(<<>>, ClientState(c)', <<>>, ClientState(c)')
    BY <2>1, ReadsNothing
  <2>4. Told(c, <<>>)'
    <3>1. CASE cpc'[c] = "head"
      BY <1>1, <1>2, <3>1 DEF Told, Lost
    <3>2. CASE cpc'[c] = "send" /\ lines'[c] = <<>>
      BY <2>2, <3>2 DEF Told, Place, Printed, ClientState
    <3> QED
      BY <1>3, <3>1, <3>2 DEF Alive, Kinds
  <2>5. Suits(c, <<>>, ClientState(c))'
    BY <1>1, <1>2 DEF Suits
  <2>6. <<>> \in Seq(Entry)
    OBVIOUS
  <2> QED
    BY <2>1, <2>2, <2>3, <2>4, <2>5, <2>6 DEF Synced
<1>4. Half(c)'
  BY <1>1 DEF Inv, SyncInv, Half
<1>5. ~Gone(c)
  BY <1>1 DEF Gone, Kinds, Ended
<1>6. Stands(c)'
  <2>1. Len(reports[c]) \in Nat /\ Len(reports[c]) < N /\ N \in Nat
    <3>1. reports[c] \in Seq(Seq(Entry))
      BY DEF Inv, IInv, TypeOK
    <3> QED
      BY <1>5, <3>1, LenProperties, BoundAssumption DEF Inv, Standing, Stands
  <2>2. ~Gone(c)' => Len(reports'[c]) < N
    BY <2>1 DEF Gone, Ended
  <2> QED
    BY <1>2, <2>2 DEF Stands, Busy
<1> QED
  BY <1>3, <1>4, <1>5, <1>6, ClientSync

\* A client that ends is not waited for.
LEMMA EndSync ==
  ASSUME Inv, NEW c \in Client, Others(c), UNCHANGED <<serverVars, asked, netVars>>,
         ~Gone(c), cpc'[c] \in Ended, Stands(c)'
  PROVE  SyncInv' /\ Standing'
<1>1. ~Alive(c)' /\ cpc'[c] # "start"
  BY DEF Alive, Kinds, Ended
<1>2. Half(c)'
  BY DEF Inv, SyncInv, Half, netVars
<1> QED
  BY <1>1, <1>2, ClientSync DEF netVars

LEMMA ConnectFailsSync == ASSUME Inv, NEW c \in Client, ConnectFails(c) PROVE SyncInv' /\ Standing'
<1>1. /\ cpc[c] = "start" /\ ~Gone(c) /\ cpc'[c] = "refused" /\ cpc'[c] \in Ended
      /\ Others(c) /\ UNCHANGED <<serverVars, asked, netVars>>
  BY DEF ConnectFails, Gone, Ended, Others, Inv, IInv, TypeOK, netVars
<1>2. Stands(c)'
  BY <1>1 DEF Inv, Standing, Stands, Gone, Busy, serverVars, netVars
<1> QED
  BY <1>1, <1>2, EndSync

LEMMA CrashSync == ASSUME Inv, NEW c \in Client, Crash(c) PROVE SyncInv' /\ Standing'
<1>1. /\ c \in CanCrash /\ ~Gone(c) /\ cpc'[c] = "crashed" /\ cpc'[c] \in Ended
      /\ Others(c) /\ UNCHANGED <<serverVars, asked, netVars>>
  BY DEF Crash, Ended, Others, Inv, IInv, TypeOK, netVars
<1>2. Stands(c)'
  BY <1>1 DEF Stands, Gone
<1> QED
  BY <1>1, <1>2, EndSync

LEMMA ReadFailsSync == ASSUME Inv, NEW c \in Client, ReadFails(c) PROVE SyncInv' /\ Standing'
<1>1. /\ ~Gone(c) /\ cpc'[c] = "failed" /\ cpc'[c] \in Ended
      /\ Others(c) /\ UNCHANGED <<serverVars, asked, netVars>>
  BY DEF ReadFails, ReadsEof, Gone, Ended, Others, Inv, IInv, TypeOK, netVars
<1>2. spc = "down"
  <2>1. cpc[c] \in Kinds /\ toClient[c] = <<>> /\ link[c] = "closed"
    BY DEF ReadFails, ReadsEof, Kinds
  <2> QED
    BY <2>1, EndOfFile
<1>3. Stands(c)'
  BY <1>1, <1>2 DEF Stands, Gone, Busy, serverVars
<1> QED
  BY <1>1, <1>3, EndSync

LEMMA ConnectSync == ASSUME Inv, IInv', NEW c \in Client, Connect(c) PROVE SyncInv' /\ Standing'
<1>1. /\ TypeOK /\ TypeOK' /\ cpc[c] = "start" /\ link[c] = "none"
      /\ toClient[c] = <<>> /\ toServer[c] = <<>> /\ lines[c] = <<>> /\ reports[c] = <<>>
      /\ cpc'[c] = "send" /\ link'[c] = "open" /\ toClient'[c] = <<>> /\ toServer'[c] = <<>>
      /\ UNCHANGED <<serverVars, asked>> /\ Others(c) /\ spc # "down"
      /\ left'[c] = left[c] /\ numsLeft'[c] = numsLeft[c]
      /\ lines'[c] = lines[c] /\ reports'[c] = reports[c]
  BY DEF Inv, IInv, TypeOK, SyncInv, LinkOK, Connect, Others
<1>2. Busy => conn # c
  BY <1>1 DEF Inv, Standing, Stands
<1>3. Synced(c)'
  <2>1. ClientState(c)' \in State /\ ClientState(c)'.kind = "send"
    BY <1>1 DEF TypeOK, ClientState, State
  <2>2. Reads(<<>>, ClientState(c)', <<>>, ClientState(c)')
    BY <2>1, ReadsNothing
  <2>3. /\ ~AtWord(c)' /\ ~AtEntry(c)' /\ ~AtNumbers(c)' /\ ~Serving(c)'
    BY <1>1, <1>2 DEF AtWord, AtEntry, AtNumbers, Serving, Busy, serverVars
  <2>4. Coming(c)' = <<>>
    BY <1>1, <2>3 DEF Coming
  <2>5. Awaits(c, ClientState(c))'
    BY <1>1, <2>1, <2>3 DEF Awaits, Ready
  <2>6. Told(c, <<>>)'
    BY <1>1, <2>1, <2>4 DEF Told, Place, Printed
  <2>7. Total(c, ClientState(c))' = 0 /\ Expected(c, ClientState(c))' = 0
    <3>1. Total(c, ClientState(c))' = Len(<<>>) + 0
      BY <1>1 DEF Total
    <3>2. Expected(c, ClientState(c))' = 0
      BY <1>1, <1>2 DEF Expected, Busy, serverVars
    <3> QED
      BY <3>1, <3>2
  <2>8. Suits(c, <<>>, ClientState(c))'
    BY <1>1, <2>3, <2>5, <2>7 DEF Suits
  <2>9. <<>> \in Seq(Entry)
    OBVIOUS
  <2> QED
    BY <2>1, <2>2, <2>4, <2>6, <2>8, <2>9 DEF Synced
<1>4. Half(c)'
  BY <1>1 DEF Half
<1>5. \A d \in Client : (Alive(d) => Synced(d))' /\ Half(d)'
  BY <1>1, <1>3, <1>4, Undisturbed DEF Inv, SyncInv
<1>6. /\ backlog \in Seq(Client) /\ Len(backlog) \in Nat
      /\ backlog' \in Seq(Client) /\ Len(backlog') = Len(backlog) + 1
      /\ \A k \in 1..Len(backlog) : backlog'[k] = backlog[k]
      /\ backlog'[Len(backlog) + 1] = c
  <2>1. backlog \in Seq(Client) /\ backlog' = Append(backlog, c)
    BY <1>1 DEF TypeOK, Connect
  <2> QED
    BY <2>1, AppendProperties, LenProperties
<1>7. \A k \in DOMAIN backlog' :
        (k \in DOMAIN backlog /\ backlog'[k] = backlog[k]) \/ (k = Len(backlog) + 1 /\ backlog'[k] = c)
  BY <1>6
<1>8. LinkOK'
  <2>1. \A k \in DOMAIN backlog : link[backlog[k]] = "open" /\ backlog[k] # c
    BY <1>1 DEF Inv, SyncInv, LinkOK
  <2>2. \A d \in Client : link[d] = "open" => link'[d] = "open"
    BY <1>1 DEF Others
  <2>3. \A k \in DOMAIN backlog : backlog[k] \in Client
    BY <1>6
  <2>4. (Busy => link[conn] = "open")'
    BY <1>1, <2>2 DEF Inv, IInv, ConnOK, SyncInv, LinkOK, Busy, serverVars
  <2>5. (\A k \in DOMAIN backlog : link[backlog[k]] = "open" /\ (Busy => backlog[k] # conn))'
    BY <1>1, <1>2, <1>7, <2>1, <2>2, <2>3 DEF Inv, SyncInv, LinkOK, Busy, serverVars
  <2>6. (\A j, k \in DOMAIN backlog : j # k => backlog[j] # backlog[k])'
    BY <1>7, <2>1 DEF Inv, SyncInv, LinkOK
  <2>7. (\A d \in Client : cpc[d] = "start" =>
           /\ link[d] = "none" /\ toClient[d] = <<>> /\ toServer[d] = <<>>
           /\ lines[d] = <<>> /\ reports[d] = <<>>)'
    BY <1>1 DEF Inv, SyncInv, LinkOK, Others
  <2> QED
    BY <2>4, <2>5, <2>6, <2>7 DEF LinkOK
<1>9. Heard'
  <2>1. conn' = conn /\ spc' = spc /\ word' = word /\ (Busy => conn \in Client \ {c})
    BY <1>1, <1>2 DEF serverVars, Inv, IInv, ConnOK, Busy
  <2>2. Busy /\ ~Gone(conn)' => ~Gone(conn)
    BY <1>1, <2>1 DEF Others, Gone
  <2> QED
    BY <2>1, <2>2 DEF Inv, SyncInv, Heard, Busy
<1>10. ASSUME NEW d \in Client PROVE Stands(d)'
  <2>1. Stands(d) /\ spc' = spc /\ conn' = conn /\ pending' = pending /\ idx' = idx
        /\ location' = location /\ epoch' = epoch
    BY <1>1 DEF Inv, Standing, serverVars
  <2>2. CASE d = c
    <3>1. Len(reports'[d]) < N
      BY <1>1, <2>2, BoundAssumption
    <3> QED
      BY <1>1, <2>1, <2>2, <3>1 DEF Stands, Busy
  <2>3. CASE d # c
    <3>1. cpc'[d] = cpc[d] /\ reports'[d] = reports[d]
      BY <1>1, <2>3 DEF Others
    <3> QED
      BY <1>7, <2>1, <2>3, <3>1 DEF Stands, Gone, Busy
  <2> QED
    BY <2>2, <2>3
<1>11. Listed'
  BY <1>1 DEF Inv, Standing, Listed, serverVars
<1> QED
  BY <1>5, <1>8, <1>9, <1>10, <1>11 DEF SyncInv, Standing

LEMMA SendSync == ASSUME Inv, IInv', NEW c \in Client, Send(c) PROVE SyncInv' /\ Standing'
<1>1. /\ TypeOK /\ TypeOK' /\ cpc[c] = "send" /\ Alive(c) /\ ~Gone(c) /\ Others(c)
      /\ UNCHANGED <<serverVars, asked, backlog, link, toClient>>
      /\ left'[c] = left[c] /\ numsLeft'[c] = numsLeft[c]
      /\ lines'[c] = lines[c] /\ reports'[c] = reports[c]
  BY DEF Inv, IInv, TypeOK, Send, Others, Alive, Gone, Ended
<1>2. PICK a \in Seq(Entry), y \in State :
        /\ Told(c, a) /\ Reads(a, ClientState(c), Coming(c), y) /\ Suits(c, a, y)
        /\ ClientState(c) \in State /\ Coming(c) \in Seq(Token)
  BY <1>1, SyncedFacts
<1>3. Coming(c) = <<>> /\ y = ClientState(c) /\ y.kind = "send"
  BY <1>1, <1>2, StateFields, SendReadsNothing
<1>4. toClient[c] = <<>> /\ (AtNumbers(c) => pending = <<>>)
  <2>1. CASE ~Serving(c)
    BY <1>3, <2>1 DEF Coming, Serving, AtNumbers
  <2>2. CASE Serving(c)
    BY <1>1, <1>3, <2>2, ComingType, ConcatEqualIffEmpty
  <2> QED
    BY <2>1, <2>2
<1>5. lines[c] = <<>>
  BY <1>1, <1>2 DEF Told, Lost, Printed, ClientState
<1>6. link[c] = "closed" => spc = "down"
  BY <1>1, <1>4, EndOfFile
<1>7. CASE cpc'[c] = "failed" /\ link[c] = "closed" /\ toServer' = toServer
  <2>1. Stands(c)'
    BY <1>1, <1>6, <1>7 DEF Stands, Gone, Ended, Busy, serverVars
  <2> QED
    BY <1>1, <1>7, <2>1, EndSync DEF netVars, Ended
<1>8. CASE cpc'[c] = "count"
  <2>1. ClientState(c)' \in State /\ ClientState(c)'.kind = "count"
    BY <1>1, <1>8 DEF TypeOK, ClientState, State, Kinds
  <2>2. Coming(c)' = <<>>
    BY <1>1, <1>3 DEF Coming, Serving, serverVars
  <2>3. Reads(a, ClientState(c)', Coming(c)', ClientState(c)')
    BY <2>1, <2>2, ReadsNothing
  <2>4. Told(c, a)'
    BY <1>1, <1>5, <1>8, <2>1, <2>2 DEF Told, Place, Printed
  <2>5. Stands(c)'
    <3>1. Stands(c)
      BY DEF Inv, Standing
    <3> QED
      BY <1>1, <1>8, <3>1 DEF Stands, Busy, serverVars
  <2>6. CASE link[c] = "closed" /\ toServer' = toServer
    <3>1. Suits(c, a, ClientState(c))'
      BY <1>1, <1>6, <2>6 DEF Suits, serverVars
    <3>2. Synced(c)' /\ Half(c)'
      BY <1>1, <1>2, <2>1, <2>3, <2>4, <2>6, <3>1 DEF Synced, Inv, SyncInv, Half
    <3> QED
      BY <1>1, <1>8, <2>5, <3>2, ClientSync
  <2>7. CASE link[c] = "open" /\ toServer'[c] = Append(toServer[c], Enc("sk_3", asked[c]))
    <3>1. /\ Awaits(c, y) /\ Total(c, y) = Expected(c, y) /\ (Serving(c) => a = Making)
      BY <1>2, <2>7 DEF Suits
    <3>2. ~AtWord(c) /\ ~AtEntry(c) /\ ~AtNumbers(c) /\ toServer[c] = <<>>
      BY <1>3, <1>4, <3>1 DEF Awaits, Ready
    <3>3. toServer'[c] # <<>> /\ Len(toServer'[c]) = 1
      BY <2>7, <3>2
    <3>4. Awaits(c, ClientState(c))'
      BY <1>1, <2>1, <2>2, <3>2, <3>3 DEF Awaits, Ready, AtWord, AtEntry, AtNumbers, serverVars
    <3>5. Total(c, ClientState(c))' = Total(c, y)
      <4>1. ~(y.kind = "send" /\ cpc[c] # "send") /\ ClientState(c)'.kind # "send"
        BY <1>1, <2>1
      <4>2. Total(c, y) = Len(reports[c]) + 0 /\ Total(c, ClientState(c))' = Len(reports'[c]) + 0
        BY <4>1 DEF Total
      <4> QED
        BY <1>1, <4>2
    <3>6. Expected(c, ClientState(c))' = Expected(c, y)
      <4>1. Finishing(c, ClientState(c))' <=> Finishing(c, y)
        BY <1>1, <1>3, <3>3 DEF Finishing, Serving, serverVars
      <4> QED
        BY <1>1, <4>1 DEF Expected, Busy, serverVars
    <3>7. Making' = Making /\ Serving(c)' = Serving(c)
      BY <1>1 DEF Making, Serving, serverVars
    <3>8. Suits(c, a, ClientState(c))'
      BY <1>1, <2>7, <3>1, <3>4, <3>5, <3>6, <3>7 DEF Suits
    <3>9. Synced(c)' /\ Half(c)'
      BY <1>1, <1>2, <1>4, <2>1, <2>3, <2>4, <3>3, <3>8 DEF Synced, Half
    <3> QED
      BY <1>1, <1>8, <2>5, <3>9, ClientSync
  <2> QED
    BY <1>1, <1>8, <2>6, <2>7 DEF Send, TypeOK
<1> QED
  BY <1>1, <1>7, <1>8 DEF Send, TypeOK

\* The ends of the loops of the client.
LEMMA EndEpochState ==
  ASSUME TypeOK, NEW c \in Client, NEW answer, EndEpoch(c, answer)
  PROVE  /\ lines'[c] = <<>> /\ cpc'[c] \in {"send", "done"}
         /\ reports'[c] = Append(reports[c], answer)
         /\ Len(reports'[c]) = Len(reports[c]) + 1
         /\ cpc'[c] = "done" <=> Len(reports[c]) + 1 = N
         /\ \A d \in Client \ {c} :
              cpc'[d] = cpc[d] /\ lines'[d] = lines[d] /\ reports'[d] = reports[d]
<1>1. Len(Append(reports[c], answer)) = Len(reports[c]) + 1
  OBVIOUS
<1> QED
  BY <1>1 DEF TypeOK, EndEpoch, ClientEpochs

LEMMA EndKeywordState ==
  ASSUME TypeOK, NEW c \in Client, NEW answer, EndKeyword(c, answer)
  PROVE  /\ left'[c] = left[c] - 1
         /\ \A d \in Client \ {c} :
              /\ cpc'[d] = cpc[d] /\ left'[d] = left[d]
              /\ lines'[d] = lines[d] /\ reports'[d] = reports[d]
         /\ left[c] = 1 =>
              /\ lines'[c] = <<>> /\ cpc'[c] \in {"send", "done"}
              /\ reports'[c] = Append(reports[c], answer)
              /\ Len(reports'[c]) = Len(reports[c]) + 1
              /\ cpc'[c] = "done" <=> Len(reports[c]) + 1 = N
         /\ left[c] # 1 =>
              cpc'[c] = "head" /\ lines'[c] = answer /\ reports'[c] = reports[c]
<1>1. left'[c] = left[c] - 1 /\ \A d \in Client \ {c} : left'[d] = left[d]
  BY DEF TypeOK, EndKeyword
<1>2. CASE left[c] = 1
  <2>1. EndEpoch(c, answer)
    BY <1>2 DEF EndKeyword
  <2> QED
    BY <1>1, <1>2, <2>1, EndEpochState
<1>3. CASE left[c] # 1
  BY <1>1, <1>3 DEF TypeOK, EndKeyword
<1> QED
  BY <1>2, <1>3

LEMMA ReadCountSync == ASSUME Inv, IInv', NEW c \in Client, ReadCount(c) PROVE SyncInv' /\ Standing'
<1> DEFINE x == ClientState(c)
           z == After(x, Incoming(c))
<1>1. /\ TypeOK /\ cpc[c] = "count" /\ Alive(c) /\ "count" \in Kinds
      /\ UNCHANGED <<serverVars, asked, backlog, link, toServer, numsLeft>>
  BY DEF Inv, IInv, ReadCount, Receives, ReadsEof, Kinds, Alive
<1>2. ASSUME NEW v, TakeCount(c, v), Receives(c, "count") \/ ReadsEof(c, "count")
      PROVE  /\ Others(c)
             /\ v = 0 => /\ cpc'[c] \in {"send", "done"} /\ lines'[c] = <<>> /\ left'[c] = left[c]
                         /\ Len(reports'[c]) = Len(reports[c]) + 1
                         /\ cpc'[c] = "done" <=> Len(reports[c]) + 1 = N
             /\ v # 0 => /\ cpc'[c] = "head" /\ left'[c] = v
                         /\ lines'[c] = lines[c] /\ reports'[c] = reports[c]
  <2>1. \A d \in Client \ {c} : toClient'[d] = toClient[d]
    BY <1>1, <1>2 DEF Receives, ReadsEof, TypeOK
  <2>2. CASE v = 0
    BY <1>1, <1>2, <2>1, <2>2, EndEpochState DEF TakeCount, Others
  <2>3. CASE v # 0
    BY <1>1, <1>2, <2>1, <2>3 DEF TakeCount, Others, TypeOK
  <2> QED
    BY <2>2, <2>3
<1>3. CASE ReadsEof(c, "count") /\ TakeCount(c, 0)
  BY <1>1, <1>2, <1>3, EofSync
<1>4. CASE Receives(c, "count") /\ TakeCount(c, Incoming(c).value)
  <2>1. /\ Incoming(c).kind = "count" /\ x \in State /\ x.kind = "count"
        /\ asked[c] \in Word /\ x = [kind |-> "count", left |-> left[c], nums |-> numsLeft[c]]
    BY <1>1, <1>4, ClientStateType, StateFields DEF Receives, TypeOK, ClientState
  <2>2. CASE Incoming(c).value = 0
    <3>1. z = [kind |-> "send", left |-> left[c], nums |-> numsLeft[c]]
      BY <2>1, <2>2 DEF After
    <3>2. cpc'[c] # "done" => ClientState(c)' = z
      BY <1>1, <1>2, <1>4, <2>2, <3>1 DEF ClientState
    <3>3. \A a : Printed(a, z) = <<>>
      BY <3>1 DEF Printed
    <3> QED
      BY <1>1, <1>2, <1>4, <2>2, <3>1, <3>2, <3>3, ReceivesSync DEF Progress
  <2>3. CASE Incoming(c).value # 0
    <3>1. z = [kind |-> "head", left |-> Incoming(c).value, nums |-> numsLeft[c]]
      <4>1. PICK v \in Int : v = Incoming(c).value
        BY <1>4, <2>1, ReceiveFacts, TokenFacts DEF Inv
      <4>2. z = [[kind |-> "count", left |-> left[c], nums |-> numsLeft[c]]
                  EXCEPT !.kind = "head", !.left = v]
        BY <2>1, <2>3, <4>1 DEF After
      <4>3. z = [kind |-> "head", left |-> v, nums |-> numsLeft[c]]
        BY <4>2
      <4> QED
        BY <4>1, <4>3
    <3>2. ClientState(c)' = z
      BY <1>1, <1>2, <1>4, <2>3, <3>1 DEF ClientState
    <3>3. ASSUME NEW a \in Promise!Answers(asked[c]), lines[c] = Printed(a, x),
                 Incoming(c) = Record(a, x)
          PROVE  lines'[c] = Printed(a, z)
      <4>1. Incoming(c).value = Len(a) /\ Printed(a, x) = <<>>
        BY <2>1, <3>3, CountPrints
      <4>2. z.kind = "head" /\ z.left = Len(a)
        BY <3>1, <4>1
      <4>3. Printed(a, z) = <<>>
        BY <2>1, <4>2, CountPrints
      <4> QED
        BY <1>2, <1>4, <2>3, <3>3, <4>1, <4>3
    <3> QED
      BY <1>1, <1>2, <1>4, <2>3, <3>1, <3>2, <3>3, ReceivesSync DEF Progress, Kinds
  <2> QED
    BY <2>2, <2>3
<1> QED
  BY <1>3, <1>4 DEF ReadCount

\* What a client reads was encrypted for it.
LEMMA IncomingOpens ==
  ASSUME Inv, NEW c \in Client, NEW kind \in {"head", "num"}, Receives(c, kind)
  PROVE  Opens("sk_3", Incoming(c).cipher)
<1>1. Incoming(c) \in Token /\ Incoming(c).kind = kind
  BY ReceiveFacts DEF Inv
<1>2. Incoming(c).cipher \in WordCipher("sk_3") \/ Incoming(c).cipher \in NumCipher("sk_3")
  BY <1>1, TokenFacts
<1> QED
  BY <1>2 DEF Opens, WordCipher, NumCipher

LEMMA ReadHeadSync == ASSUME Inv, IInv', NEW c \in Client, ReadHead(c) PROVE SyncInv' /\ Standing'
<1> DEFINE x == ClientState(c)
           z == After(x, Incoming(c))
           l == [distance |-> Incoming(c).distance, word |-> Incoming(c).cipher.text, docs |-> <<>>]
<1>1. /\ TypeOK /\ UNCHANGED <<serverVars, asked, backlog, link, toServer>> /\ Receives(c, "head")
      /\ "head" \in Kinds /\ cpc[c] = "head" /\ Incoming(c).kind = "head"
      /\ reports' = reports /\ left' = left /\ numsLeft' = numsLeft /\ asked[c] \in Word
  BY DEF Inv, IInv, TypeOK, ReadHead, Receives, Kinds
<1>2. Opens("sk_3", Incoming(c).cipher)
  BY <1>1, IncomingOpens
<1>3. cpc'[c] = "size" /\ lines'[c] = Append(lines[c], l) /\ Others(c)
  BY <1>1, <1>2 DEF TypeOK, ReadHead, Receives, Others
<1>4. x \in State /\ x = [kind |-> "head", left |-> left[c], nums |-> numsLeft[c]]
  BY <1>1, ClientStateType DEF ClientState, Alive
<1>5. z = [kind |-> "size", left |-> left[c], nums |-> numsLeft[c]]
  BY <1>1, <1>4 DEF After
<1>6. ClientState(c)' = z
  BY <1>1, <1>3, <1>5 DEF ClientState
<1>7. ASSUME NEW a \in Promise!Answers(asked[c]), Place(a, x), lines[c] = Printed(a, x),
             Incoming(c) = Record(a, x)
      PROVE  lines'[c] = Printed(a, z)
  <2>1. x.kind = "head" /\ z.kind = "size" /\ z.left = x.left
    BY <1>4, <1>5
  <2> HIDE DEF x, z
  <2>2. Printed(a, z) = Append(Printed(a, x), l)
    BY <1>1, <1>4, <1>7, <2>1, HeadPrints
  <2> QED
    BY <1>3, <1>7, <2>2
<1>8. Progress(c)
  BY <1>1, <1>3, <1>6, <1>7 DEF Progress, Kinds
<1> QED
  BY <1>1, <1>3, <1>8, ReceivesSync

LEMMA ReadSizeSync == ASSUME Inv, IInv', NEW c \in Client, ReadSize(c) PROVE SyncInv' /\ Standing'
<1> DEFINE x == ClientState(c)
           z == After(x, Incoming(c))
<1>1. /\ TypeOK /\ cpc[c] = "size" /\ Alive(c) /\ "size" \in Kinds /\ asked[c] \in Word
      /\ UNCHANGED <<serverVars, asked, backlog, link, toServer>>
      /\ \A d \in Client \ {c} : toClient'[d] = toClient[d]
  BY DEF Inv, IInv, TypeOK, ReadSize, Receives, ReadsEof, Kinds, Alive
<1>2. CASE ReadsEof(c, "size") /\ TakeSize(c, 0)
  <2>1. EndKeyword(c, lines[c]) /\ numsLeft' = numsLeft
    BY <1>2 DEF TakeSize
  <2> QED
    BY <1>1, <1>2, <2>1, EndKeywordState, EofSync DEF Others
<1>3. CASE Receives(c, "size") /\ TakeSize(c, Incoming(c).value)
  <2>1. /\ Incoming(c).kind = "size" /\ x \in State /\ x.kind = "size"
        /\ x = [kind |-> "size", left |-> left[c], nums |-> numsLeft[c]]
    BY <1>1, <1>3, ClientStateType, StateFields DEF Receives, ClientState
  <2>2. PICK a \in Promise!Answers(asked[c]) : Place(a, x) /\ Incoming(c) = Record(a, x)
    BY <1>1, <1>3, ReceivedFacts
  <2>3. Incoming(c).value \in Nat \ {0}
    BY <1>1, <2>1, <2>2, SizePrints
  <2>4. PICK v \in Int : v = Incoming(c).value
    BY <2>3
  <2>5. numsLeft' = [numsLeft EXCEPT ![c] = v] /\ cpc' = [cpc EXCEPT ![c] = "num"]
        /\ UNCHANGED <<left, lines, reports>>
    BY <1>3, <2>3, <2>4 DEF TakeSize
  <2>6. cpc'[c] = "num" /\ numsLeft'[c] = v /\ Others(c)
    BY <1>1, <2>5 DEF TypeOK, Others
  <2>7. z = [kind |-> "num", left |-> left[c], nums |-> v]
    <3>1. z = [[kind |-> "size", left |-> left[c], nums |-> numsLeft[c]]
                EXCEPT !.kind = "num", !.nums = v]
      BY <2>1, <2>3, <2>4 DEF After
    <3> QED
      BY <3>1
  <2>8. ClientState(c)' = z
    BY <2>5, <2>6, <2>7 DEF ClientState
  <2>9. ASSUME NEW b \in Promise!Answers(asked[c]), Place(b, x), lines[c] = Printed(b, x),
               Incoming(c) = Record(b, x)
        PROVE  lines'[c] = Printed(b, z)
    <3>1. z.kind = "num" /\ z.left = x.left /\ z.nums = Record(b, x).value
      BY <2>1, <2>4, <2>7, <2>9
    <3> HIDE DEF x, z
    <3>2. Printed(b, z) = Printed(b, x)
      BY <1>1, <2>1, <2>9, <3>1, SizePrints
    <3> QED
      BY <2>5, <2>9, <3>2
  <2>10. Progress(c)
    BY <2>5, <2>6, <2>8, <2>9 DEF Progress, Kinds
  <2> QED
    BY <1>1, <1>3, <2>6, <2>10, ReceivesSync
<1> QED
  BY <1>2, <1>3 DEF ReadSize

LEMMA ReadNumSync == ASSUME Inv, IInv', NEW c \in Client, ReadNum(c) PROVE SyncInv' /\ Standing'
<1> DEFINE x == ClientState(c)
           z == After(x, Incoming(c))
           longer == WithDoc(lines[c], Incoming(c).cipher.text)
<1>1. /\ TypeOK /\ cpc[c] = "num" /\ UNCHANGED <<serverVars, asked, backlog, link, toServer>>
      /\ Receives(c, "num") /\ Incoming(c).kind = "num" /\ "num" \in Kinds /\ Alive(c)
      /\ numsLeft[c] \in Nat /\ left[c] \in Nat /\ numsLeft'[c] = numsLeft[c] - 1
      /\ \A d \in Client \ {c} : numsLeft'[d] = numsLeft[d] /\ toClient'[d] = toClient[d]
      /\ asked[c] \in Word
  BY DEF Inv, IInv, TypeOK, ReadNum, Receives, Kinds, Alive
<1>2. Opens("sk_3", Incoming(c).cipher)
  BY <1>1, IncomingOpens
<1>3. /\ x \in State /\ x.kind = "num" /\ x.nums = numsLeft[c] /\ x.left = left[c]
      /\ x = [kind |-> "num", left |-> left[c], nums |-> numsLeft[c]]
  BY <1>1, ClientStateType, StateFields DEF ClientState
<1>4. CASE numsLeft[c] # 1
  <2>1. /\ cpc' = cpc /\ left' = left /\ reports' = reports
        /\ lines' = [lines EXCEPT ![c] = WithDoc(@, Incoming(c).cipher.text)]
    BY <1>2, <1>4 DEF ReadNum
  <2>2. lines'[c] = longer /\ Others(c)
    BY <1>1, <2>1 DEF TypeOK, Others
  <2>3. z = [kind |-> "num", left |-> left[c], nums |-> numsLeft[c] - 1]
    <3>1. z = [x EXCEPT !.nums = x.nums - 1]
      BY <1>1, <1>3, <1>4 DEF After
    <3> QED
      BY <1>3, <3>1
  <2>4. ClientState(c)' = z
    BY <1>1, <2>1, <2>3 DEF ClientState
  <2>5. ASSUME NEW a \in Promise!Answers(asked[c]), Place(a, x), lines[c] = Printed(a, x),
               Incoming(c) = Record(a, x)
        PROVE  lines'[c] = Printed(a, z)
    <3>1. z.kind = "num" /\ z.left = x.left /\ z.nums = x.nums - 1 /\ x.nums # 1
      BY <1>3, <1>4, <2>3
    <3> HIDE DEF x, z
    <3>2. Printed(a, z) = WithDoc(Printed(a, x), Record(a, x).cipher.text)
      BY <1>1, <1>3, <2>5, <3>1, NumPrints
    <3> QED
      BY <2>2, <2>5, <3>2
  <2>6. Progress(c)
    BY <1>1, <2>1, <2>4, <2>5 DEF Progress, Kinds
  <2> QED
    BY <1>1, <2>2, <2>6, ReceivesSync
<1>5. CASE numsLeft[c] = 1
  <2>1. EndKeyword(c, longer)
    BY <1>2, <1>5 DEF ReadNum
  <2>2. Others(c)
    BY <1>1, <2>1, EndKeywordState DEF Others
  <2>3. z = [kind |-> IF left[c] = 1 THEN "send" ELSE "head", left |-> left[c] - 1, nums |-> 0]
    <3>1. z = EndsKeyword([x EXCEPT !.nums = 0])
      BY <1>1, <1>3, <1>5 DEF After
    <3>2. [x EXCEPT !.nums = 0] = [kind |-> "num", left |-> left[c], nums |-> 0]
      BY <1>3
    <3> QED
      BY <3>1, <3>2 DEF EndsKeyword
  <2>4. left'[c] = left[c] - 1 /\ numsLeft'[c] = 0
    BY <1>1, <1>5, <2>1, EndKeywordState
  <2>5. CASE left[c] = 1
    <3>1. /\ lines'[c] = <<>> /\ cpc'[c] \in {"send", "done"}
          /\ Len(reports'[c]) = Len(reports[c]) + 1
          /\ cpc'[c] = "done" <=> Len(reports[c]) + 1 = N
      BY <1>1, <2>1, <2>5, EndKeywordState
    <3>2. z.kind = "send" /\ \A a : Printed(a, z) = <<>>
      BY <2>3, <2>5 DEF Printed
    <3>3. cpc'[c] # "done" => ClientState(c)' = z
      BY <2>3, <2>4, <2>5, <3>1 DEF ClientState
    <3>4. Progress(c)
      BY <3>1, <3>2, <3>3 DEF Progress
    <3> QED
      BY <1>1, <2>2, <3>4, ReceivesSync
  <2>6. CASE left[c] # 1
    <3>1. cpc'[c] = "head" /\ lines'[c] = longer /\ reports'[c] = reports[c]
      BY <1>1, <2>1, <2>6, EndKeywordState
    <3>2. ClientState(c)' = z
      BY <2>3, <2>4, <2>6, <3>1 DEF ClientState
    <3>3. ASSUME NEW a \in Promise!Answers(asked[c]), Place(a, x), lines[c] = Printed(a, x),
                 Incoming(c) = Record(a, x)
          PROVE  lines'[c] = Printed(a, z)
      <4>1. z.kind = "head" /\ z.left = x.left - 1 /\ x.nums = 1
        BY <1>3, <1>5, <2>3, <2>6
      <4> HIDE DEF x, z
      <4>2. Printed(a, z) = WithDoc(Printed(a, x), Record(a, x).cipher.text)
        BY <1>1, <1>3, <3>3, <4>1, NumPrints
      <4> QED
        BY <3>1, <3>3, <4>2
    <3>4. Progress(c)
      BY <3>1, <3>2, <3>3 DEF Progress, Kinds
    <3> QED
      BY <1>1, <2>2, <3>4, ReceivesSync
  <2> QED
    BY <2>5, <2>6
<1> QED
  BY <1>4, <1>5

LEMMA ClientStepSync ==
  ASSUME Inv, IInv', NEW c \in Client, ClientStep(c) \/ Crash(c)
  PROVE  SyncInv' /\ Standing'
BY ConnectSync, ConnectFailsSync, SendSync, ReadCountSync, ReadHeadSync, ReadSizeSync,
   ReadNumSync, ReadFailsSync, CrashSync
DEF ClientStep

-----------------------------------------------------------------------------
(* The steps of the server.                                                *)

\* A step between accept() and close() concerns one client only.
LEMMA ServerSync ==
  ASSUME Inv, Busy, Busy', UNCHANGED <<clientVars, backlog, link, conn, cipherWordList>>,
         \A d \in Client \ {conn} : toClient'[d] = toClient[d] /\ toServer'[d] = toServer[d],
         Alive(conn) => Synced(conn)', Half(conn)', Heard', cpc[conn] # "done"
  PROVE  SyncInv' /\ Standing'
<1>1. ASSUME NEW d \in Client \ {conn} PROVE (Alive(d) => Synced(d))' /\ Half(d)'
  <2>1. /\ ClientState(d)' = ClientState(d) /\ Alive(d)' = Alive(d)
        /\ Coming(d)' = Coming(d)
    BY <1>1 DEF ClientState, Alive, Coming, Serving, clientVars
  <2>2. \A y : Awaits(d, y)' = Awaits(d, y)
    BY <1>1, <2>1 DEF Awaits, Ready, AtWord, AtEntry, AtNumbers
  <2>3. \A y : Total(d, y)' = Total(d, y) /\ Expected(d, y)' = Expected(d, y)
    BY <1>1 DEF Total, Expected, clientVars
  <2>4. \A a, y : Suits(d, a, y)' = Suits(d, a, y)
    BY <1>1, <2>2, <2>3 DEF Suits, Serving, Busy
  <2>5. \A a : Told(d, a)' = Told(d, a)
    BY <2>1 DEF Told, Lost, Busy, clientVars
  <2>6. Synced(d)' = Synced(d)
    BY <2>1, <2>4, <2>5 DEF Synced
  <2> QED
    BY <1>1, <2>1, <2>6 DEF Inv, SyncInv, Half
<1>2. Alive(conn)' = Alive(conn) /\ conn' = conn
  BY DEF Alive, clientVars
<1>3. \A d \in Client : (Alive(d) => Synced(d))' /\ Half(d)'
  <2> SUFFICES ASSUME NEW d \in Client PROVE (Alive(d) => Synced(d))' /\ Half(d)'
    OBVIOUS
  <2>1. CASE d = conn
    <3>1. Alive(d)' = Alive(conn) /\ Synced(d)' = Synced(conn)' /\ Half(d)' = Half(conn)'
      BY <1>2, <2>1
    <3> QED
      BY <3>1
  <2> QED
    BY <1>1, <2>1
<1>4. LinkOK'
  BY DEF Inv, SyncInv, LinkOK, Busy, clientVars
<1>5. \A d \in Client : Stands(d)'
  BY DEF Inv, Standing, Stands, Gone, Busy, clientVars
<1>6. Listed'
  BY DEF Inv, Standing, Listed
<1> QED
  BY <1>3, <1>4, <1>5, <1>6 DEF SyncInv, Standing

\* What the invariant says of the client that is served.
LEMMA ServedFacts ==
  ASSUME Inv, Busy
  PROVE  /\ conn \in Client /\ link[conn] = "open" /\ TypeOK
         /\ spc # "write" \/ pending # <<>> \/ idx < Len(location) => cpc[conn] # "done"
         /\ Alive(conn) <=> ~Gone(conn)
         /\ Alive(conn) =>
              \E a \in Seq(Entry), y \in State :
                /\ Told(conn, a) /\ Reads(a, ClientState(conn), Coming(conn), y)
                /\ Awaits(conn, y) /\ Total(conn, y) = Expected(conn, y)
                /\ Serving(conn) => a = Making
                /\ ClientState(conn) \in State /\ Coming(conn) \in Seq(Token)
         /\ Half(conn) /\ Heard
         /\ toClient[conn] \in Seq(Token) /\ pending \in Seq(Token)
<1>1. conn \in Client /\ link[conn] = "open" /\ TypeOK
  BY DEF Inv, IInv, ConnOK, Busy, SyncInv, LinkOK
<1>2. Stands(conn)
  BY <1>1 DEF Inv, Standing
<1>3. Alive(conn) <=> ~Gone(conn)
  BY <1>1, <1>2 DEF TypeOK, Alive, Gone, Kinds, Ended, Stands
<1>4. spc # "write" \/ pending # <<>> \/ idx < Len(location) => cpc[conn] # "done"
  BY <1>2 DEF Stands
<1>5. ASSUME Alive(conn)
      PROVE  \E a \in Seq(Entry), y \in State :
               /\ Told(conn, a) /\ Reads(a, ClientState(conn), Coming(conn), y)
               /\ Awaits(conn, y) /\ Total(conn, y) = Expected(conn, y)
               /\ Serving(conn) => a = Making
               /\ ClientState(conn) \in State /\ Coming(conn) \in Seq(Token)
  <2>1. PICK a \in Seq(Entry), y \in State :
          /\ Told(conn, a) /\ Reads(a, ClientState(conn), Coming(conn), y) /\ Suits(conn, a, y)
          /\ ClientState(conn) \in State /\ Coming(conn) \in Seq(Token)
    BY <1>1, <1>5, SyncedFacts
  <2> QED
    BY <1>1, <2>1 DEF Suits
<1>6. toClient[conn] \in Seq(Token) /\ pending \in Seq(Token)
  BY <1>1 DEF TypeOK
<1> QED
  BY <1>1, <1>3, <1>4, <1>5, <1>6 DEF Inv, SyncInv

LEMMA AcceptSync == ASSUME Inv, Accept PROVE SyncInv' /\ Standing'
<1>1. /\ spc = "accept" /\ spc' = "recv" /\ backlog \in Seq(Client) /\ backlog # <<>>
      /\ conn' = Head(backlog) /\ backlog' = Tail(backlog) /\ epoch' = 0
      /\ UNCHANGED <<clientVars, link, toServer, toClient, cipherWordList>>
  BY DEF Accept, Inv, IInv, TypeOK
<1>2. ASSUME NEW d \in Client PROVE (Alive(d) => Synced(d))' /\ Half(d)'
  <2>1. /\ ClientState(d)' = ClientState(d) /\ Alive(d)' = Alive(d)
        /\ Coming(d)' = Coming(d)
    BY <1>1 DEF ClientState, Alive, Coming, Serving, clientVars
  <2>2. \A y : Awaits(d, y)' = Awaits(d, y)
    BY <1>1, <2>1 DEF Awaits, Ready, AtWord, AtEntry, AtNumbers
  <2>3. \A y : Total(d, y)' = Total(d, y) /\ Expected(d, y)' = 0 /\ Expected(d, y) = 0
    BY <1>1 DEF Total, Expected, Finishing, Serving, Busy, clientVars
  <2>4. \A a, y : Suits(d, a, y)' = Suits(d, a, y)
    BY <1>1, <2>2, <2>3 DEF Suits, Serving
  <2>5. \A a : Told(d, a)' = Told(d, a)
    BY <1>1, <2>1 DEF Told, Lost, clientVars
  <2>6. Synced(d)' = Synced(d)
    BY <2>1, <2>4, <2>5 DEF Synced
  <2> QED
    BY <1>1, <2>1, <2>6 DEF Inv, SyncInv, Half
<1>3. /\ Len(backlog) \in Nat /\ Len(backlog) >= 1 /\ Head(backlog) = backlog[1]
      /\ DOMAIN backlog = 1..Len(backlog)
      /\ backlog' \in Seq(Client) /\ Len(backlog') = Len(backlog) - 1
      /\ DOMAIN backlog' = 1..Len(backlog')
      /\ \A k \in 1..Len(backlog') : backlog'[k] = backlog[k + 1]
  BY <1>1, HeadTailProperties, EmptySeq, LenProperties
<1>4. /\ \A k \in DOMAIN backlog' : k + 1 \in 1..Len(backlog) /\ k + 1 # 1 /\ backlog'[k] = backlog[k + 1]
      /\ \A j, k \in DOMAIN backlog' : j # k => j + 1 # k + 1
  BY <1>3
<1>5. LinkOK'
  <2>1. /\ \A k \in 1..Len(backlog) : link[backlog[k]] = "open"
        /\ \A j, k \in 1..Len(backlog) : j # k => backlog[j] # backlog[k]
    BY <1>1, <1>3 DEF Inv, SyncInv, LinkOK
  <2>2. (Busy => link[conn] = "open")'
    BY <1>1, <1>3, <2>1
  <2>3. (\A k \in DOMAIN backlog : link[backlog[k]] = "open" /\ (Busy => backlog[k] # conn))'
    BY <1>1, <1>3, <1>4, <2>1
  <2>4. (\A j, k \in DOMAIN backlog : j # k => backlog[j] # backlog[k])'
    BY <1>4, <2>1
  <2> QED
    BY <1>1, <2>2, <2>3, <2>4 DEF Inv, SyncInv, LinkOK, clientVars
<1>6. Heard'
  BY <1>1 DEF Heard
<1>7. ASSUME NEW d \in Client PROVE Stands(d)'
  <2>1. Stands(d) /\ cpc' = cpc /\ reports' = reports
    BY <1>1 DEF Inv, Standing, clientVars
  <2>2. conn' = d => \E k \in DOMAIN backlog : backlog[k] = d
    BY <1>1, <1>3
  <2>3. \A k \in DOMAIN backlog' : \E j \in DOMAIN backlog : backlog[j] = backlog'[k]
    BY <1>3, <1>4
  <2> QED
    BY <1>1, <2>1, <2>2, <2>3 DEF Stands, Gone, Busy
<1>8. Listed'
  BY <1>1 DEF Inv, Standing, Listed
<1> QED
  BY <1>2, <1>5, <1>6, <1>7, <1>8 DEF SyncInv, Standing

LEMMA ReadRequestSync == ASSUME Inv, ReadRequest PROVE SyncInv' /\ Standing'
<1>1. /\ Busy /\ Busy' /\ spc = "recv" /\ spc' = "fetch"
      /\ UNCHANGED <<clientVars, backlog, link, conn, toClient, epoch, cipherWordList>>
  BY DEF ReadRequest, Busy
<1>2. /\ conn \in Client /\ Half(conn) /\ cpc[conn] # "done" /\ TypeOK
      /\ toServer[conn] \in Seq(WordCipher("sk_3")) /\ (Alive(conn) <=> ~Gone(conn))
  BY <1>1, ServedFacts DEF TypeOK
<1>3. \A d \in Client \ {conn} : toServer'[d] = toServer[d]
  BY <1>2 DEF ReadRequest, TypeOK
<1>4. CASE toServer[conn] # <<>> /\ toServer'[conn] = Tail(toServer[conn]) /\ word' = Head(toServer[conn])
  <2>1. toServer'[conn] = <<>>
    BY <1>2, <1>4 DEF Half
  <2>2. word' # Garbage
    <3>1. 1 \in DOMAIN toServer[conn] /\ Head(toServer[conn]) = toServer[conn][1]
      BY <1>2, <1>4, EmptySeq
    <3>2. word' = Enc("sk_3", asked[conn])
      BY <1>2, <1>4, <3>1 DEF Inv, IInv, RequestOK
    <3> QED
      BY <3>2 DEF Enc, Garbage
  <2>3. ASSUME Alive(conn) PROVE Synced(conn)'
    <3>1. PICK a \in Seq(Entry), y \in State :
            /\ Told(conn, a) /\ Reads(a, ClientState(conn), Coming(conn), y)
            /\ Awaits(conn, y) /\ Total(conn, y) = Expected(conn, y)
      BY <1>1, <2>3, ServedFacts
    <3>2. y.kind = "count" /\ Coming(conn) = <<>>
      BY <1>1, <1>4, <3>1 DEF Awaits, AtWord, AtEntry, AtNumbers, Ready
    <3>3. /\ ClientState(conn)' = ClientState(conn) /\ Coming(conn)' = Coming(conn)
          /\ ~Serving(conn) /\ ~Serving(conn)'
      BY <1>1 DEF ClientState, Coming, Serving, clientVars
    <3>4. Awaits(conn, y)'
      BY <1>1, <2>1, <3>2, <3>3 DEF Awaits, AtWord, AtEntry, AtNumbers
    <3>5. Total(conn, y)' = Total(conn, y) /\ Expected(conn, y)' = Expected(conn, y)
      BY <1>1, <3>3 DEF Total, Expected, Finishing, clientVars
    <3>6. Told(conn, a)'
      BY <1>1, <3>1, <3>3 DEF Told, Lost, clientVars
    <3>7. Suits(conn, a, y)'
      BY <1>1, <1>2, <3>1, <3>3, <3>4, <3>5, ServedFacts DEF Suits
    <3> QED
      BY <1>1, <3>1, <3>3, <3>6, <3>7 DEF Synced
  <2>4. Half(conn)' /\ Heard'
    BY <1>1, <2>1, <2>2 DEF Half, Heard
  <2> QED
    BY <1>1, <1>2, <1>3, <2>3, <2>4, ServerSync
<1>5. CASE Gone(conn) /\ toServer' = toServer
  <2>1. Half(conn)' /\ Heard'
    BY <1>1, <1>2, <1>5 DEF Half, Heard, Gone, clientVars
  <2> QED
    BY <1>1, <1>2, <1>3, <1>5, <2>1, ServerSync
<1> QED
  BY <1>2, <1>4, <1>5 DEF ReadRequest, TypeOK

-----------------------------------------------------------------------------
(* The answer the server makes is one the client may be given.             *)

LEMMA BijectionFacts ==
  ASSUME NEW S, NEW T, NEW f
  PROVE  f \in Bijection(S, T) <=>
           /\ f \in [S -> T]
           /\ \A x, y \in S : f[x] = f[y] => x = y
           /\ \A t \in T : \E x \in S : f[x] = t
<1>1. f \in [S -> T] => DOMAIN f = S
  OBVIOUS
<1> QED
  BY <1>1, Zenon DEF Bijection, Injection, Surjection, IsInjective

\* The table of the enclave holds every keyword once.
LEMMA TableFacts ==
  ASSUME Inv, spc \in {"match", "write", "reenc"}
  PROVE  /\ wordTable \in Bijection(1..Cardinality(Keyword), Keyword)
         /\ Len(wordTable) = Cardinality(Keyword) /\ Cardinality(Keyword) \in Nat
<1> DEFINE n == Cardinality(Keyword)
<1>1. n \in Nat
  BY KeywordAssumption, FS_CardinalityType
<1> HIDE DEF n
<1>2. /\ cipherWordList \in [1..n -> DOMAIN cipher_wordMap]
      /\ \A j, k \in 1..n : cipherWordList[j] = cipherWordList[k] => j = k
      /\ \A t \in DOMAIN cipher_wordMap : \E k \in 1..n : cipherWordList[k] = t
  <2> DEFINE T == DOMAIN cipher_wordMap
  <2>1. cipherWordList \in Bijection(1..n, T)
    BY DEF Inv, Standing, Listed, n
  <2> HIDE DEF T
  <2> DEFINE D == 1..n
  <2>2. cipherWordList \in Bijection(D, T)
    BY <2>1
  <2> HIDE DEF D
  <2>3. cipherWordList \in [D -> T]
    BY <2>2, BijectionFacts
  <2>4. \A j, k \in D : cipherWordList[j] = cipherWordList[k] => j = k
    BY <2>2, BijectionFacts
  <2>5. \A t \in T : \E k \in D : cipherWordList[k] = t
    BY <2>2, BijectionFacts
  <2> QED
    BY <2>3, <2>4, <2>5 DEF D, T
<1>3. /\ wordTable \in Seq(Keyword) /\ DOMAIN wordTable = 1..n
      /\ \A k \in 1..n : wordTable[k] = cipherWordList[k].text
  BY <1>2 DEF Inv, IInv, TypeOK, TableOK
<1>4. Len(wordTable) = n /\ wordTable \in [1..n -> Keyword]
  BY <1>1, <1>3
<1>5. \A k \in 1..n : cipherWordList[k] = Enc("sk_1", wordTable[k])
  <2> SUFFICES ASSUME NEW k \in 1..n PROVE cipherWordList[k] = Enc("sk_1", wordTable[k])
    OBVIOUS
  <2>1. PICK q \in Keyword : cipherWordList[k] = Enc("sk_1", q)
    BY <1>2, MapFacts
  <2> QED
    BY <1>3, <2>1 DEF Enc
<1>6. \A j, k \in 1..n : wordTable[j] = wordTable[k] => j = k
  BY <1>2, <1>5
<1>7. \A q \in Keyword : \E k \in 1..n : wordTable[k] = q
  <2> SUFFICES ASSUME NEW q \in Keyword PROVE \E k \in 1..n : wordTable[k] = q
    OBVIOUS
  <2>1. Enc("sk_1", q) \in DOMAIN cipher_wordMap
    BY MapFacts
  <2>2. PICK k \in 1..n : cipherWordList[k] = Enc("sk_1", q)
    BY <1>2, <2>1
  <2> QED
    BY <1>3, <2>2 DEF Enc
<1>8. wordTable \in Bijection(1..n, Keyword)
  BY <1>4, <1>6, <1>7, BijectionFacts
<1> QED
  BY <1>1, <1>4, <1>8 DEF n

\* Sorted positions are a ranking of their keywords.
LEMMA SortedIsRanking ==
  ASSUME Inv, spc = "match", NEW w \in Word, NEW s \in Sorted(w)
  PROVE  [k \in DOMAIN s |-> wordTable[s[k]]] \in Promise!Rankings(w)
<1> DEFINE n == Cardinality(Keyword)
           r == [k \in DOMAIN s |-> wordTable[s[k]]]
<1>1. /\ wordTable \in [1..n -> Keyword] /\ Len(wordTable) = n /\ n \in Nat
      /\ \A j, k \in 1..n : wordTable[j] = wordTable[k] => j = k
      /\ \A q \in Keyword : \E k \in 1..n : wordTable[k] = q
  BY TableFacts, BijectionFacts
<1> HIDE DEF n
<1>2. PICK len \in 0..n : s \in Bijection(1..len, Near(w))
  BY <1>1 DEF Sorted
<1>3. /\ s \in [1..len -> Near(w)]
      /\ \A j, k \in 1..len : s[j] = s[k] => j = k
      /\ \A t \in Near(w) : \E k \in 1..len : s[k] = t
  BY <1>2, BijectionFacts
<1>4. /\ \A t \in Near(w) : t \in 1..n /\ wordTable[t] \in Promise!Near(w)
      /\ \A q \in Promise!Near(w) : \E t \in Near(w) : wordTable[t] = q
  BY <1>1 DEF Near, Promise!Near, Threshold, Promise!Threshold
<1>5. DOMAIN s = 1..len /\ DOMAIN r = 1..len /\ \A k \in 1..len : r[k] = wordTable[s[k]]
  BY <1>3
<1>6. r \in Bijection(1..len, Promise!Near(w))
  <2>1. r \in [1..len -> Promise!Near(w)]
    BY <1>3, <1>4
  <2>2. \A j, k \in 1..len : r[j] = r[k] => j = k
    BY <1>1, <1>3, <1>4, <1>5
  <2>3. \A q \in Promise!Near(w) : \E k \in 1..len : r[k] = q
    BY <1>3, <1>4, <1>5
  <2> HIDE DEF r
  <2> QED
    BY <2>1, <2>2, <2>3, BijectionFacts
<1>7. \A a, b \in DOMAIN r : a < b => Dist[<<w, r[a]>>] <= Dist[<<w, r[b]>>]
  BY <1>5 DEF Sorted
<1> HIDE DEF r
<1>8. r \in UNION {Bijection(1..l, Promise!Near(w)) : l \in 0..n}
  BY <1>2, <1>6
<1>9. r \in UNION {Promise!Bijection(1..l, Promise!Near(w)) : l \in 0..Promise!Cardinality(Keyword)}
  BY <1>8, SameOperators DEF n
<1>10. r \in Promise!Rankings(w)
  BY <1>7, <1>9 DEF Promise!Rankings
<1> QED
  BY <1>10 DEF r

LEMMA MakingAnswers ==
  ASSUME Inv, step_1, word # Garbage
  PROVE  Making' \in Promise!Answers(asked[conn])
<1> DEFINE w == asked[conn]
<1>1. /\ spc = "match" /\ conn' = conn /\ asked' = asked /\ wordTable' = wordTable
      /\ TypeOK /\ conn \in Client /\ w \in Word
      /\ wordTable \in Seq(Keyword)
  BY DEF step_1, clientVars, Inv, IInv, TypeOK, ConnOK
<1>2. Plaintexts(word) = {w}
  <2>1. word = Enc("sk_3", w)
    BY <1>1 DEF Inv, IInv, RequestOK
  <2> QED
    BY <2>1 DEF Plaintexts, Opens, Enc
<1> HIDE DEF w
<1>3. PICK s \in Sorted(w) :
        \/ Exact(w) = {} /\ location' = s
        \/ \E last \in Exact(w) : location' = <<last>>
  BY <1>2 DEF step_1
<1>4. /\ wordTable \in [1..Cardinality(Keyword) -> Keyword]
      /\ \A q \in Keyword : \E k \in 1..Cardinality(Keyword) : wordTable[k] = q
  BY <1>1, TableFacts, BijectionFacts
<1>5. \A k \in DOMAIN wordTable : Dist[<<w, wordTable[k]>>] = 0 <=> wordTable[k] = w
  BY <1>1, <1>4, DistAssumption, KeywordAssumption
<1>6. Making' = [k \in DOMAIN location' |-> Promise!Line(w, wordTable[location'[k]])]
  BY <1>1 DEF Making, w
<1>7. CASE Exact(w) = {} /\ location' = s
  <2>1. w \notin Keyword
    BY <1>4, <1>5, <1>7 DEF Exact
  <2> DEFINE r == [k \in DOMAIN s |-> wordTable[s[k]]]
  <2>2. r \in Promise!Rankings(w)
    BY <1>1, SortedIsRanking
  <2>3. Making' = [k \in DOMAIN r |-> Promise!Line(w, r[k])]
    BY <1>6, <1>7
  <2> HIDE DEF r
  <2> QED
    BY <2>1, <2>2, <2>3 DEF Promise!Answers, w
<1>8. ASSUME NEW last \in Exact(w), location' = <<last>>
      PROVE  Making' \in Promise!Answers(w)
  <2>1. wordTable[last] = w /\ w \in Keyword
    BY <1>4, <1>5 DEF Exact
  <2> DEFINE l == Promise!Line(w, w)
  <2>2. DOMAIN location' = 1..1 /\ location'[1] = last
    BY <1>8
  <2>3. Making' = [k \in 1..1 |-> l]
    BY <1>6, <2>1, <2>2
  <2> HIDE DEF l
  <2>4. Making' = <<l>>
    BY <2>3
  <2> QED
    BY <2>1, <2>4 DEF Promise!Answers, l
<1> QED
  BY <1>3, <1>7, <1>8 DEF w

-----------------------------------------------------------------------------
(* The answer is sent.                                                     *)

LEMMA FetchTableSync == ASSUME Inv, fetch_table PROVE SyncInv' /\ Standing'
<1>1. /\ Busy /\ Busy' /\ spc = "fetch" /\ spc' = "match"
      /\ UNCHANGED <<clientVars, backlog, link, conn, toClient, toServer, epoch, word,
                     cipherWordList>>
  BY DEF fetch_table, netVars, Busy
<1>2. conn \in Client /\ Half(conn) /\ Heard /\ cpc[conn] # "done"
  BY <1>1, ServedFacts
<1>3. ASSUME Alive(conn) PROVE Synced(conn)'
  <2>1. PICK a \in Seq(Entry), y \in State :
          /\ Told(conn, a) /\ Reads(a, ClientState(conn), Coming(conn), y)
          /\ Awaits(conn, y) /\ Total(conn, y) = Expected(conn, y) /\ link[conn] = "open"
    BY <1>1, <1>3, ServedFacts
  <2>2. /\ ClientState(conn)' = ClientState(conn) /\ Coming(conn)' = Coming(conn)
        /\ ~Serving(conn) /\ ~Serving(conn)'
    BY <1>1 DEF ClientState, Coming, Serving, clientVars
  <2>3. Awaits(conn, y)'
    BY <1>1, <2>1, <2>2 DEF Awaits, AtWord, AtEntry, AtNumbers
  <2>4. Total(conn, y)' = Total(conn, y) /\ Expected(conn, y)' = Expected(conn, y)
    BY <1>1, <2>2 DEF Total, Expected, Finishing, clientVars
  <2>5. Told(conn, a)'
    BY <1>1, <2>1, <2>2 DEF Told, Lost, clientVars
  <2>6. Suits(conn, a, y)'
    BY <1>1, <2>1, <2>2, <2>3, <2>4 DEF Suits
  <2> QED
    BY <1>1, <2>1, <2>2, <2>5, <2>6 DEF Synced
<1>4. Half(conn)' /\ Heard'
  BY <1>1, <1>2 DEF Half, Heard, Gone, clientVars
<1> QED
  BY <1>1, <1>2, <1>3, <1>4, ServerSync

LEMMA Step1Sync == ASSUME Inv, IInv', step_1 PROVE SyncInv' /\ Standing'
<1>1. /\ Busy /\ Busy' /\ spc = "match" /\ spc' = "write" /\ idx' = 0
      /\ pending' = <<CountToken(Len(location'))>>
      /\ UNCHANGED <<clientVars, backlog, link, conn, toClient, toServer, epoch, word,
                     cipherWordList>>
  BY DEF step_1, netVars, Busy
<1>2. /\ TypeOK /\ conn \in Client /\ Half(conn) /\ Heard /\ cpc[conn] # "done"
      /\ location' \in Seq(DOMAIN cipherWordList') /\ Len(location') \in Nat
      /\ DOMAIN location' = 1..Len(location') /\ asked[conn] \in Word
  <2>1. location' \in Seq(DOMAIN cipherWordList')
    BY DEF IInv, TypeOK
  <2> QED
    BY <1>1, <2>1, ServedFacts, LenProperties DEF TypeOK
<1>3. ASSUME Alive(conn) PROVE Synced(conn)'
  <2>1. PICK b \in Seq(Entry), y \in State :
          /\ Told(conn, b) /\ Reads(b, ClientState(conn), Coming(conn), y)
          /\ Awaits(conn, y) /\ Total(conn, y) = Expected(conn, y) /\ link[conn] = "open"
          /\ ClientState(conn) \in State
    BY <1>1, <1>3, ServedFacts
  <2>2. y.kind = "count" /\ Coming(conn) = <<>> /\ toServer[conn] = <<>>
    BY <1>1, <2>1 DEF Awaits, AtWord
  <2>3. y = ClientState(conn) /\ cpc[conn] = "count"
    BY <1>2, <2>1, <2>2, ReadsNothing, StateFields
  <2>4. lines[conn] = <<>>
    BY <1>1, <2>1, <2>2, <2>3 DEF Told, Lost, Printed
  <2>5. PICK a \in Promise!Answers(asked[conn]) : a = Making'
    <3>1. word # Garbage
      BY <1>1, <1>2, <1>3, ServedFacts DEF Heard
    <3> QED
      BY <3>1, MakingAnswers
  <2>6. a \in Seq(Entry) /\ Len(a) = Len(location')
    <3>1. a \in Seq(Entry) /\ Len(a) \in Nat /\ DOMAIN a = 1..Len(a)
      BY <1>2, AnswerFacts
    <3>2. DOMAIN a = 1..Len(location')
      BY <1>2, <2>5 DEF Making
    <3> DEFINE m == Len(a)
               n == Len(location')
    <3>3. m \in Nat /\ n \in Nat /\ 1..m = 1..n
      BY <1>2, <3>1, <3>2
    <3> HIDE DEF m, n
    <3>4. (m > 0 => m \in 1..n) /\ (n > 0 => n \in 1..m)
      BY <3>3
    <3>5. m = n
      BY <3>3, <3>4
    <3> QED
      BY <3>1, <3>5 DEF m, n
  <2>7. PICK t \in Token : t = CountToken(Len(location'))
    BY <1>2, TokenFacts
  <2>8. PICK z \in State : z = After(y, t)
    BY AfterType
  <2>9. t.kind = "count" /\ t.value = Len(location') /\ t = Record(a, y)
    BY <2>2, <2>6, <2>7 DEF CountToken, Record
  <2>10. Coming(conn)' = Append(<<>>, t)
    <3>1. Coming(conn)' = <<>> \o <<t>>
      <4>1. toClient[conn] = <<>>
        BY <1>1, <2>2 DEF Coming, Serving
      <4> QED
        BY <1>1, <2>7, <4>1 DEF Coming, Serving
    <3> QED
      BY <3>1, ConcatEmptySeq
  <2>11. Reads(a, ClientState(conn), Append(<<>>, t), z)
    <3>1. <<>> \in Seq(Token) /\ Reads(a, y, <<>>, y)
      BY ReadsNothing
    <3> QED
      BY <2>2, <2>3, <2>8, <2>9, <3>1, ReadsMore
  <2>12. IF Len(location') = 0 THEN z.kind = "send" ELSE z.kind = "head" /\ z.left = Len(location')
    BY <2>8, <2>9 DEF After, State
  <2>13. Awaits(conn, z)'
    BY <1>1, <1>2, <2>2, <2>12 DEF Awaits, AtWord, AtEntry, AtNumbers, Ready
  <2>14. Total(conn, z)' = Expected(conn, z)'
    <3>1. /\ Len(reports[conn]) = epoch /\ epoch \in Nat
      <4>1. Total(conn, y) = Len(reports[conn]) + 0
        BY <2>2 DEF Total
      <4>2. Expected(conn, y) = epoch + 0
        BY <1>1 DEF Expected, Finishing, Serving
      <4>3. reports[conn] \in Seq(Seq(Entry)) /\ epoch \in Nat
        BY <1>2, BoundAssumption DEF TypeOK
      <4>4. Len(reports[conn]) \in Nat
        BY <4>3, LenProperties
      <4>5. Len(reports[conn]) + 0 = epoch + 0
        BY <2>1, <4>1, <4>2
      <4> QED
        BY <4>3, <4>4, <4>5
    <3>2. Finishing(conn, z)' <=> z.kind = "send"
      BY <1>1, <2>2 DEF Finishing, Serving
    <3>3. Expected(conn, z)' = epoch + (IF z.kind = "send" THEN 1 ELSE 0)
      BY <1>1, <3>2 DEF Expected
    <3>4. Total(conn, z)' = Len(reports[conn]) + (IF z.kind = "send" THEN 1 ELSE 0)
      <4>1. (z.kind = "send" /\ cpc[conn]' # "send") <=> z.kind = "send"
        BY <1>1, <2>3 DEF clientVars
      <4> QED
        BY <1>1, <4>1 DEF Total, clientVars
    <3> QED
      BY <3>1, <3>3, <3>4
  <2>15. Told(conn, a)'
    <3>1. Place(a, ClientState(conn)) /\ Printed(a, ClientState(conn)) = <<>>
      BY <2>2, <2>3 DEF Place, Printed
    <3>2. ClientState(conn)' = ClientState(conn) /\ lines'[conn'] = <<>>
      BY <1>1, <2>4 DEF ClientState, clientVars
    <3> QED
      BY <1>1, <2>5, <3>1, <3>2 DEF Told, clientVars
  <2>16. Suits(conn, a, z)'
    BY <1>1, <2>1, <2>5, <2>13, <2>14 DEF Suits
  <2>17. ClientState(conn)' = ClientState(conn)
    BY <1>1 DEF ClientState, clientVars
  <2> QED
    BY <1>1, <2>6, <2>10, <2>11, <2>15, <2>16, <2>17 DEF Synced
<1>4. Half(conn)' /\ Heard'
  BY <1>1, <1>2 DEF Half, Heard, Gone, clientVars
<1> QED
  BY <1>1, <1>2, <1>3, <1>4, ServerSync

\* The server is gone: what it has written is still read.
LEMMA ExitSync ==
  ASSUME Inv, ServerExit, UNCHANGED <<clientVars, backlog, toServer, toClient, cipherWordList>>
  PROVE  SyncInv' /\ Standing'
<1>1. /\ TypeOK /\ spc' = "down" /\ ~Busy' /\ \A d \in Client : link'[d] # "open"
      /\ \A d \in Client : link[d] = "none" => link'[d] = "none"
  BY DEF ServerExit, Inv, IInv, TypeOK, Busy
<1>2. ASSUME NEW d \in Client, Alive(d) PROVE Synced(d)'
  <2>1. PICK a \in Seq(Entry), y \in State :
          /\ Told(d, a) /\ Reads(a, ClientState(d), Coming(d), y)
          /\ ClientState(d) \in State /\ Coming(d) \in Seq(Token)
    BY <1>2, SyncedFacts
  <2>2. /\ toClient[d] \in Seq(Token) /\ pending \in Seq(Token)
        /\ toClient[d] # <<>> => Coming(d) # <<>>
        /\ Serving(d) => Coming(d) = toClient[d] \o pending
        /\ ~Serving(d) => Coming(d) = toClient[d]
    BY <1>1, ComingType, IncomingFirst
  <2>3. PICK z \in State : Reads(a, ClientState(d), toClient[d], z)
    <3>1. CASE Serving(d)
      <4>1. Reads(a, ClientState(d), toClient[d] \o pending, y)
        BY <2>1, <2>2, <3>1
      <4> QED
        BY <2>1, <2>2, <4>1, ReadsPrefix
    <3>2. CASE ~Serving(d)
      BY <2>1, <2>2, <3>2
    <3> QED
      BY <3>1, <3>2
  <2>4. ClientState(d)' = ClientState(d) /\ Coming(d)' = toClient[d]
    BY <1>1 DEF ClientState, Coming, Serving, clientVars
  <2>5. Told(d, a)'
    BY <1>1, <2>1, <2>2, <2>4 DEF Told, Lost, clientVars
  <2>6. Suits(d, a, z)'
    BY <1>1 DEF Suits
  <2> QED
    BY <2>1, <2>3, <2>4, <2>5, <2>6 DEF Synced
<1>3. \A d \in Client : (Alive(d) => Synced(d))' /\ Half(d)'
  BY <1>2 DEF Inv, SyncInv, Alive, Half, clientVars
<1>4. LinkOK' /\ Heard'
  BY <1>1 DEF Inv, SyncInv, LinkOK, Heard, clientVars
<1>5. \A d \in Client : Stands(d)'
  BY <1>1 DEF Inv, Standing, Stands, Gone, clientVars
<1>6. Listed'
  BY DEF Inv, Standing, Listed
<1> QED
  BY <1>3, <1>4, <1>5, <1>6 DEF SyncInv, Standing
LEMMA ConcatMoves ==
  ASSUME NEW s \in Seq(Token), NEW p \in Seq(Token), p # <<>>
  PROVE  Append(s, Head(p)) \o Tail(p) = s \o p
<1>1. Head(p) \in Token /\ Tail(p) \in Seq(Token) /\ <<Head(p)>> \in Seq(Token)
  BY HeadTailProperties
<1>2. Append(s, Head(p)) = s \o <<Head(p)>>
  BY <1>1, AppendIsConcat
<1>3. (s \o <<Head(p)>>) \o Tail(p) = s \o (<<Head(p)>> \o Tail(p))
  BY <1>1, ConcatAssociative
<1>4. <<Head(p)>> \o Tail(p) = p
  BY <1>1
<1> QED
  BY <1>2, <1>3, <1>4

LEMMA ConcatAppend ==
  ASSUME NEW s \in Seq(Token), NEW p \in Seq(Token), NEW t \in Token
  PROVE  s \o p \in Seq(Token) /\ s \o Append(p, t) = Append(s \o p, t)
<1>1. <<t>> \in Seq(Token) /\ s \o p \in Seq(Token)
  BY ConcatProperties
<1>2. Append(p, t) = p \o <<t>> /\ Append(s \o p, t) = (s \o p) \o <<t>>
  BY <1>1, AppendIsConcat
<1>3. (s \o p) \o <<t>> = s \o (p \o <<t>>)
  BY <1>1, ConcatAssociative
<1> QED
  BY <1>1, <1>2, <1>3

LEMMA WriteRecordSync == ASSUME Inv, WriteRecord PROVE SyncInv' /\ Standing'
<1>1. /\ Busy /\ spc = "write" /\ pending # <<>> /\ pending' = Tail(pending)
      /\ UNCHANGED <<clientVars, backlog, toServer, conn, epoch, word, idx, numIdx, location,
                     cipherWordList, wordTable>>
  BY DEF WriteRecord, Busy
<1>2. /\ conn \in Client /\ Half(conn) /\ Heard /\ (Alive(conn) <=> ~Gone(conn)) /\ TypeOK
      /\ cpc[conn] # "done" /\ link[conn] = "open"
      /\ toClient \in [Client -> Seq(Token)] /\ pending \in Seq(Token)
  BY <1>1, ServedFacts DEF TypeOK
<1>3. CASE /\ ~Gone(conn) /\ UNCHANGED <<link, spc>>
           /\ toClient' = [toClient EXCEPT ![conn] = Append(@, Head(pending))]
  <2>1. PICK a \in Seq(Entry), y \in State :
          /\ Told(conn, a) /\ Reads(a, ClientState(conn), Coming(conn), y)
          /\ Awaits(conn, y) /\ Total(conn, y) = Expected(conn, y)
          /\ Serving(conn) => a = Making
    BY <1>1, <1>2, <1>3, ServedFacts
  <2>2. /\ toClient'[conn] = Append(toClient[conn], Head(pending))
        /\ \A d \in Client \ {conn} : toClient'[d] = toClient[d]
    BY <1>2, <1>3
  <2>3. Serving(conn) /\ Serving(conn)' /\ Coming(conn)' = Coming(conn)
    BY <1>1, <1>2, <1>3, <2>2, ConcatMoves DEF Coming, Serving
  <2>4. Coming(conn) # <<>>
    BY <1>1, <1>2, <2>3, ConcatEqualIffEmpty DEF Coming
  <2>5. toServer[conn] = <<>>
    BY <1>1, <2>1, <2>4 DEF Awaits, Ready, AtWord, AtEntry, AtNumbers
  <2>6. Awaits(conn, y)'
    BY <1>1, <1>3, <2>1, <2>5 DEF Awaits, Ready, AtWord, AtEntry, AtNumbers
  <2>7. Total(conn, y)' = Total(conn, y) /\ Expected(conn, y)' = Expected(conn, y) /\ Making' = Making
    BY <1>1, <1>3, <2>3 DEF Total, Expected, Finishing, Busy, Making, clientVars
  <2>8. ClientState(conn)' = ClientState(conn)
    BY <1>1 DEF ClientState, clientVars
  <2>9. Told(conn, a)'
    BY <1>1, <2>1, <2>3, <2>8 DEF Told, Lost, clientVars
  <2>10. Suits(conn, a, y)'
    BY <1>1, <1>2, <1>3, <2>1, <2>3, <2>6, <2>7 DEF Suits
  <2>11. Synced(conn)'
    BY <1>1, <2>1, <2>3, <2>8, <2>9, <2>10 DEF Synced
  <2>12. Half(conn)' /\ Heard' /\ Busy'
    BY <1>1, <1>2, <1>3, <2>5 DEF Half, Heard, Gone, Busy, clientVars
  <2> QED
    BY <1>1, <1>2, <1>3, <2>2, <2>11, <2>12, ServerSync
<1>4. CASE Gone(conn) /\ toClient' = toClient /\ ServerExit
  BY <1>1, <1>4, ExitSync
<1>5. CASE Gone(conn) /\ UNCHANGED <<toClient, link, spc>>
  <2>1. Half(conn)' /\ Heard' /\ Busy'
    BY <1>1, <1>2, <1>5 DEF Half, Heard, Gone, Busy, clientVars
  <2> QED
    BY <1>1, <1>2, <1>5, <2>1, ServerSync
<1> QED
  BY <1>3, <1>4, <1>5 DEF WriteRecord

\* The list the server is working at, and its line of the answer.
LEMMA PostingsFacts ==
  ASSUME Inv, spc \in {"write", "reenc"}, idx < Len(location)
  PROVE  /\ query_cipher_word \in DOMAIN cipher_wordMap
         /\ query_cipher_word.text \in Keyword /\ query_cipher_word.text \in Word
         /\ distance_vtr[idx + 1] \in Nat
         /\ postings \in Seq(NumCipher("sk_2")) /\ Len(postings) \in Nat \ {0}
         /\ Len(postings) = Len(Docs[query_cipher_word.text])
         /\ \A j \in 1..Len(postings) :
              postings[j] = Enc("sk_2", Docs[query_cipher_word.text][j])
<1>1. /\ query_cipher_word \in DOMAIN cipher_wordMap
      /\ distance_vtr[idx + 1] \in Nat
      /\ cipher_wordMap[query_cipher_word] \in Seq(NumCipher("sk_2"))
  BY QueryFacts DEF Inv
<1>2. PICK k \in Keyword : query_cipher_word = Enc("sk_1", k)
  BY <1>1, MapFacts
<1>3. query_cipher_word.text = k /\ k \in Word
  BY <1>2, KeywordAssumption DEF Enc
<1>4. cipher_wordMap[query_cipher_word] = [d \in DOMAIN Docs[k] |-> Enc("sk_2", Docs[k][d])]
  BY <1>1, <1>3 DEF cipher_wordMap
<1>5. Docs[k] \in Seq(DocId) /\ Docs[k] # <<>>
  BY DocsAssumption
<1>6. Len(Docs[k]) \in Nat \ {0} /\ DOMAIN Docs[k] = 1..Len(Docs[k])
  BY <1>5, EmptySeq, LenProperties
<1>7. Len(cipher_wordMap[query_cipher_word]) = Len(Docs[k])
  BY <1>4, <1>6
<1> QED
  BY <1>1, <1>3, <1>4, <1>6, <1>7 DEF postings

LEMMA RowFacts ==
  ASSUME Inv, spc \in {"write", "reenc"}, ~Gone(conn), idx < Len(location)
  PROVE  /\ Len(Making) = Len(location) /\ idx \in Nat /\ Len(location) \in Nat
         /\ Making[idx + 1] = [distance |-> distance_vtr[idx + 1],
                               word |-> query_cipher_word.text,
                               docs |-> Docs[query_cipher_word.text]]
<1>1. /\ idx \in Nat /\ location \in Seq(DOMAIN cipherWordList) /\ Len(location) \in Nat
      /\ DOMAIN location = 1..Len(location) /\ MatchesBelongTogether
  BY LenProperties DEF Inv, IInv, TypeOK
<1>2. idx + 1 \in DOMAIN location
  BY <1>1
<1>3. word # Garbage
  BY DEF Inv, SyncInv, Heard
<1>4. /\ query_cipher_word.text = wordTable[location[idx + 1]]
      /\ distance_vtr[idx + 1] = Dist[<<asked[conn], wordTable[location[idx + 1]]>>]
  BY <1>1, <1>2, <1>3 DEF MatchesBelongTogether, query_cipher_word
<1>5. Making[idx + 1] = Promise!Line(asked[conn], wordTable[location[idx + 1]])
  BY <1>2 DEF Making
<1>6. Len(Making) = Len(location)
  BY <1>1 DEF Making
<1> QED
  BY <1>1, <1>4, <1>5, <1>6 DEF Promise!Line

LEMMA LookupSync == ASSUME Inv, Lookup PROVE SyncInv' /\ Standing'
<1>1. /\ Busy /\ spc = "write" /\ pending = <<>> /\ idx < Len(location)
      /\ UNCHANGED <<clientVars, backlog, conn, toClient, toServer, epoch, word, idx, location,
                     distance_vtr, cipherWordList, wordTable>>
  BY DEF Lookup, Busy
<1>2. /\ query_cipher_word \in DOMAIN cipher_wordMap
      /\ postings \in Seq(NumCipher("sk_2")) /\ Len(postings) \in Nat \ {0}
      /\ Len(postings) = Len(Docs[query_cipher_word.text])
      /\ distance_vtr[idx + 1] \in Nat /\ query_cipher_word.text \in Word
  BY <1>1, PostingsFacts
<1>3. PICK h \in Token : h = HeadToken(distance_vtr[idx + 1], Enc("sk_3", query_cipher_word.text))
  BY <1>2, TokenFacts, CipherFacts
<1>4. PICK u \in Token : u = SizeToken(Len(postings))
  BY <1>2, TokenFacts
<1>5. /\ pending' = <<h, u>> /\ numIdx' = 0 /\ spc' = "reenc" /\ link' = link /\ Busy'
  BY <1>2, <1>3, <1>4 DEF Lookup, postings, Busy
<1>6. h.kind = "head" /\ u.kind = "size" /\ u.value = Len(postings)
  BY <1>3, <1>4 DEF HeadToken, SizeToken
<1>7. postings' = postings /\ Making' = Making
  BY <1>1 DEF postings, query_cipher_word, Making, clientVars
<1>8. /\ conn \in Client /\ cpc[conn] # "done" /\ Half(conn) /\ Heard
      /\ toClient[conn] \in Seq(Token) /\ link[conn] = "open" /\ TypeOK
  BY <1>1, ServedFacts
<1>9. ASSUME Alive(conn) PROVE Synced(conn)'
  <2>1. PICK a \in Seq(Entry), y \in State :
          /\ Told(conn, a) /\ Reads(a, ClientState(conn), Coming(conn), y)
          /\ Awaits(conn, y) /\ Total(conn, y) = Expected(conn, y)
          /\ Serving(conn) => a = Making
          /\ ClientState(conn) \in State
    BY <1>1, <1>9, ServedFacts
  <2>2. y.kind = "head" /\ y.left = Len(location) - idx /\ toServer[conn] = <<>> /\ Serving(conn)
    BY <1>1, <2>1 DEF Awaits, AtEntry, Serving
  <2>3. Coming(conn) = toClient[conn]
    <3>1. Coming(conn) = toClient[conn] \o <<>>
      BY <1>1 DEF Coming, Serving
    <3> QED
      BY <1>8, <3>1, ConcatEmptySeq
  <2>4. /\ Len(a) = Len(location) /\ idx \in Nat /\ Len(location) \in Nat
        /\ a[idx + 1] = [distance |-> distance_vtr[idx + 1],
                         word |-> query_cipher_word.text,
                         docs |-> Docs[query_cipher_word.text]]
    <3>1. ~Gone(conn)
      BY <1>1, <1>9, ServedFacts
    <3> QED
      BY <1>1, <2>1, <2>2, <3>1, RowFacts
  <2>5. PICK w \in State : w = After(y, h)
    BY AfterType
  <2>6. PICK z \in State : z = After(w, u)
    BY AfterType
  <2>7. w.kind = "size" /\ w.left = y.left
    BY <1>6, <2>5 DEF After, State
  <2>8. z.kind = "num" /\ z.left = y.left /\ z.nums = Len(postings)
    BY <1>2, <1>6, <2>6, <2>7 DEF After, State
  <2>9. Row(a, y) = idx + 1 /\ Row(a, w) = idx + 1
    BY <2>2, <2>4, <2>7 DEF Row
  <2>10. h = Record(a, y)
    BY <1>3, <2>2, <2>4, <2>9 DEF Record
  <2>11. u = Record(a, w)
    BY <1>2, <1>4, <2>4, <2>7, <2>9 DEF Record
  <2>12. Reads(a, ClientState(conn), Append(toClient[conn], h), w)
    BY <1>6, <1>8, <2>1, <2>2, <2>3, <2>5, <2>10, ReadsMore
  <2>13. Reads(a, ClientState(conn), Append(Append(toClient[conn], h), u), z)
    BY <1>6, <1>8, <2>1, <2>6, <2>7, <2>11, <2>12, AppendProperties, ReadsMore
  <2>14. Coming(conn)' = Append(Append(toClient[conn], h), u)
    <3>1. Coming(conn)' = toClient[conn] \o <<h, u>>
      BY <1>1, <1>5 DEF Coming, Serving
    <3>2. <<h, u>> = <<h>> \o <<u>> /\ <<h>> \in Seq(Token) /\ <<u>> \in Seq(Token)
      OBVIOUS
    <3>3. toClient[conn] \o <<h, u>> = (toClient[conn] \o <<h>>) \o <<u>>
      BY <1>8, <3>2, ConcatAssociative
    <3> QED
      BY <1>8, <3>1, <3>3, AppendIsConcat, AppendProperties
  <2>15. Awaits(conn, z)'
    BY <1>1, <1>2, <1>5, <1>7, <2>2, <2>8 DEF Awaits, AtWord, AtEntry, AtNumbers
  <2>16. Total(conn, z)' = Expected(conn, z)'
    <3>1. Total(conn, z)' = Total(conn, y)
      BY <1>1, <2>2, <2>8 DEF Total, clientVars
    <3>2. Expected(conn, z)' = Expected(conn, y)
      <4>1. ~Finishing(conn, y) /\ ~Finishing(conn, z)'
        BY <1>1, <2>2, <2>8 DEF Finishing
      <4> QED
        BY <1>1, <1>5, <4>1 DEF Expected
    <3> QED
      BY <2>1, <3>1, <3>2
  <2>17. ClientState(conn)' = ClientState(conn)
    BY <1>1 DEF ClientState, clientVars
  <2>18. Told(conn, a)'
    <3>1. a \in Promise!Answers(asked[conn])
      <4>1. CASE Coming(conn) = <<>>
        <5>1. cpc[conn] = "head"
          BY <1>8, <2>1, <2>2, <4>1, ReadsNothing, StateFields
        <5> QED
          BY <1>1, <2>1, <5>1 DEF Told, Lost
      <4>2. CASE Coming(conn) # <<>>
        BY <1>1, <2>1, <4>2 DEF Told, Lost
      <4> QED
        BY <4>1, <4>2
    <3> QED
      BY <1>1, <2>1, <2>17, <3>1 DEF Told, Lost, clientVars
  <2>19. Suits(conn, a, z)'
    BY <1>1, <1>5, <1>7, <1>8, <2>1, <2>2, <2>15, <2>16 DEF Suits
  <2> QED
    BY <1>1, <2>1, <2>13, <2>14, <2>17, <2>18, <2>19 DEF Synced
<1>10. Half(conn)' /\ Heard'
  BY <1>1, <1>8 DEF Half, Heard, Gone, clientVars
<1> QED
  BY <1>1, <1>5, <1>8, <1>9, <1>10, ServerSync

LEMMA Step3Sync == ASSUME Wide = {}, Inv, step_3 PROVE SyncInv' /\ Standing'
<1>1. /\ Busy /\ Busy' /\ spc = "reenc" /\ spc' = "reenc" /\ numIdx < Len(postings) /\ TypeOK
      /\ numIdx' = numIdx + 1 /\ numIdx \in Nat /\ idx < Len(location)
      /\ UNCHANGED <<clientVars, backlog, link, conn, toClient, toServer, epoch, word, idx,
                     location, cipherWordList, wordTable>>
  BY DEF step_3, netVars, Busy, Inv, IInv, TypeOK, ResultOK
<1>2. /\ postings \in Seq(NumCipher("sk_2")) /\ Len(postings) \in Nat
      /\ Len(postings) = Len(Docs[query_cipher_word.text])
      /\ postings[numIdx + 1] = Enc("sk_2", Docs[query_cipher_word.text][numIdx + 1])
  <2>1. /\ postings \in Seq(NumCipher("sk_2")) /\ Len(postings) \in Nat
        /\ Len(postings) = Len(Docs[query_cipher_word.text])
        /\ \A j \in 1..Len(postings) :
             postings[j] = Enc("sk_2", Docs[query_cipher_word.text][j])
    BY <1>1, PostingsFacts
  <2>2. numIdx + 1 \in 1..Len(postings)
    BY <1>1, <2>1
  <2> QED
    BY <2>1, <2>2
<1>3. postings[numIdx + 1] \in NumCipher("sk_2")
  BY <1>1, <1>2, ElementOfSeq
<1>4. PICK t \in Token : t = NumToken(Enc("sk_3", postings[numIdx + 1].text))
  BY <1>3, CipherFacts, TokenFacts
<1>5. pending' = Append(pending, t) /\ pending \in Seq(Token) /\ t.kind = "num"
  BY <1>1, <1>3, <1>4, CipherFacts DEF step_3, OpensNumber, Opens, TypeOK, NumToken
<1>6. postings' = postings /\ Making' = Making
  BY <1>1 DEF postings, query_cipher_word, Making, clientVars
<1>7. /\ conn \in Client /\ cpc[conn] # "done" /\ Half(conn) /\ Heard
      /\ toClient[conn] \in Seq(Token) /\ link[conn] = "open"
  BY <1>1, ServedFacts
<1>8. ASSUME Alive(conn) PROVE Synced(conn)'
  <2>1. PICK a \in Seq(Entry), y \in State :
          /\ Told(conn, a) /\ Reads(a, ClientState(conn), Coming(conn), y)
          /\ Awaits(conn, y) /\ Total(conn, y) = Expected(conn, y)
          /\ Serving(conn) => a = Making
          /\ ClientState(conn) \in State /\ Coming(conn) \in Seq(Token)
    BY <1>1, <1>8, ServedFacts
  <2>2. /\ toServer[conn] = <<>> /\ pending # <<>> /\ y.kind = "num"
        /\ y.left = Len(location) - idx /\ y.nums = Len(postings) - numIdx
        /\ Serving(conn) /\ Serving(conn)'
    BY <1>1, <1>2, <2>1 DEF Awaits, AtNumbers, Serving
  <2>3. /\ Len(a) = Len(location) /\ idx \in Nat /\ Len(location) \in Nat
        /\ a[idx + 1] = [distance |-> distance_vtr[idx + 1],
                         word |-> query_cipher_word.text,
                         docs |-> Docs[query_cipher_word.text]]
    <3>1. ~Gone(conn)
      BY <1>1, <1>8, ServedFacts
    <3> QED
      BY <1>1, <2>1, <2>2, <3>1, RowFacts
  <2>4. PICK z \in State : z = After(y, t)
    BY AfterType
  <2>5. IF y.nums = 1
        THEN z.kind = (IF y.left = 1 THEN "send" ELSE "head") /\ z.left = y.left - 1
        ELSE z.kind = "num" /\ z.left = y.left /\ z.nums = y.nums - 1
    BY <1>5, <2>2, <2>4 DEF After, EndsKeyword, State
  <2>6. t = Record(a, y)
    <3> DEFINE D == Docs[query_cipher_word.text]
    <3>1. Row(a, y) = idx + 1
      BY <2>2, <2>3 DEF Row
    <3>2. a[Row(a, y)].docs = D
      BY <2>3, <3>1
    <3>3. Len(D) - y.nums + 1 = numIdx + 1
      BY <1>1, <1>2, <2>2
    <3>4. t = NumToken(Enc("sk_3", D[numIdx + 1]))
      BY <1>2, <1>4 DEF Enc
    <3> HIDE DEF D
    <3> QED
      BY <2>2, <3>2, <3>3, <3>4 DEF Record
  <2>7. Coming(conn)' = Append(Coming(conn), t) /\ Coming(conn) # <<>>
    <3>1. Coming(conn) = toClient[conn] \o pending /\ Coming(conn)' = toClient[conn] \o Append(pending, t)
      BY <1>1, <1>5 DEF Coming, Serving
    <3>2. toClient[conn] \in Seq(Token) /\ pending \in Seq(Token)
      BY <1>5, <1>7
    <3>3. toClient[conn] \o Append(pending, t) = Append(toClient[conn] \o pending, t)
      BY <3>2, ConcatAppend
    <3>4. toClient[conn] \o pending # <<>>
      BY <2>2, <3>2, ConcatEqualIffEmpty
    <3> QED
      BY <3>1, <3>3, <3>4
  <2>8. Reads(a, ClientState(conn), Append(Coming(conn), t), z)
    BY <1>5, <2>1, <2>2, <2>4, <2>6, ReadsMore
  <2>9. pending' # <<>>
    BY <1>5, AppendProperties
  <2>10. \/ numIdx' < Len(postings) /\ y.nums # 1 /\ y.nums - 1 = Len(postings) - numIdx'
         \/ numIdx' = Len(postings) /\ y.nums = 1
    BY <1>1, <1>2, <2>2
  <2>11. Awaits(conn, z)'
    BY <1>1, <1>6, <2>2, <2>5, <2>9, <2>10 DEF Awaits, AtWord, AtEntry, AtNumbers
  <2>12. ClientState(conn)' = ClientState(conn)
    BY <1>1 DEF ClientState, clientVars
  <2>13. cpc[conn] # "send"
    <3>1. ClientState(conn).kind = cpc[conn]
      BY <1>7, StateFields
    <3>2. ClientState(conn).kind = "send" => Coming(conn) = <<>>
      BY <2>1, SendReadsNothing
    <3> QED
      BY <2>7, <3>1, <3>2
  <2>14. Total(conn, z)' = Expected(conn, z)'
    <3>1. Len(reports[conn]) = epoch /\ epoch \in Nat
      <4>1. Total(conn, y) = Len(reports[conn]) + 0
        BY <2>2 DEF Total
      <4>2. ~Finishing(conn, y)
        BY <2>2 DEF Finishing
      <4>3. Expected(conn, y) = epoch + 0
        BY <1>1, <4>2 DEF Expected
      <4>4. reports[conn] \in Seq(Seq(Entry)) /\ epoch \in Nat
        BY <1>1, <1>7, BoundAssumption DEF TypeOK
      <4>5. Len(reports[conn]) \in Nat
        BY <4>4, LenProperties
      <4>6. Len(reports[conn]) + 0 = epoch + 0
        BY <2>1, <4>1, <4>3
      <4> QED
        BY <4>4, <4>5, <4>6
    <3>2. Finishing(conn, z)' <=> z.kind = "send"
      BY <1>1, <2>2 DEF Finishing
    <3>3. Expected(conn, z)' = epoch + (IF z.kind = "send" THEN 1 ELSE 0)
      BY <1>1, <3>2 DEF Expected
    <3>4. Total(conn, z)' = Len(reports[conn]) + (IF z.kind = "send" THEN 1 ELSE 0)
      <4>1. (z.kind = "send" /\ cpc[conn]' # "send") <=> z.kind = "send"
        BY <1>1, <2>13 DEF clientVars
      <4> QED
        BY <1>1, <4>1 DEF Total, clientVars
    <3> QED
      BY <3>1, <3>3, <3>4
  <2>15. Told(conn, a)'
    BY <1>1, <2>1, <2>7, <2>12 DEF Told, Lost, clientVars
  <2>16. Suits(conn, a, z)'
    BY <1>1, <1>6, <1>7, <2>1, <2>2, <2>11, <2>14 DEF Suits
  <2> QED
    BY <1>1, <2>1, <2>7, <2>8, <2>12, <2>15, <2>16 DEF Synced
<1>9. Half(conn)' /\ Heard'
  BY <1>1, <1>7 DEF Half, Heard, Gone, clientVars
<1> QED
  BY <1>1, <1>7, <1>8, <1>9, ServerSync

LEMMA ReplySync == ASSUME Inv, Reply PROVE SyncInv' /\ Standing'
<1>1. /\ Busy /\ Busy' /\ spc = "reenc" /\ spc' = "write" /\ numIdx = Len(postings)
      /\ idx' = idx + 1 /\ idx \in Nat /\ idx < Len(location) /\ Len(location) \in Nat
      /\ UNCHANGED <<clientVars, backlog, link, conn, toClient, toServer, epoch, word, location,
                     pending, cipherWordList, wordTable>>
  BY LenProperties DEF Reply, netVars, Busy, Inv, IInv, TypeOK, ResultOK
<1>2. Len(postings) \in Nat
  BY <1>1, PostingsFacts
<1>3. conn \in Client /\ cpc[conn] # "done" /\ Half(conn) /\ Heard /\ link[conn] = "open"
  BY <1>1, ServedFacts
<1>4. ASSUME Alive(conn) PROVE Synced(conn)'
  <2>1. PICK a \in Seq(Entry), y \in State :
          /\ Told(conn, a) /\ Reads(a, ClientState(conn), Coming(conn), y)
          /\ Awaits(conn, y) /\ Total(conn, y) = Expected(conn, y)
          /\ Serving(conn) => a = Making
    BY <1>1, <1>4, ServedFacts
  <2>2. /\ toServer[conn] = <<>>
        /\ y.kind = (IF Len(location) - idx = 1 THEN "send" ELSE "head")
        /\ y.left = Len(location) - idx - 1
    BY <1>1, <1>2, <2>1 DEF Awaits, AtNumbers
  <2>3. Coming(conn)' = Coming(conn) /\ Serving(conn) /\ Serving(conn)' /\ Making' = Making
    BY <1>1 DEF Coming, Serving, Making, clientVars
  <2>4. \/ idx' < Len(location) /\ Len(location) - idx # 1 /\ Len(location) - idx' = Len(location) - idx - 1
        \/ idx' = Len(location) /\ Len(location) - idx = 1
    BY <1>1
  <2>5. Awaits(conn, y)'
    BY <1>1, <2>2, <2>4 DEF Awaits, Ready, AtWord, AtEntry, AtNumbers
  <2>6. Total(conn, y)' = Total(conn, y) /\ Expected(conn, y)' = Expected(conn, y)
    BY <1>1, <2>3 DEF Total, Expected, Finishing, clientVars
  <2>7. ClientState(conn)' = ClientState(conn)
    BY <1>1 DEF ClientState, clientVars
  <2>8. Told(conn, a)'
    BY <1>1, <2>1, <2>3, <2>7 DEF Told, Lost, clientVars
  <2>9. Suits(conn, a, y)'
    BY <1>1, <1>3, <2>1, <2>3, <2>5, <2>6 DEF Suits
  <2> QED
    BY <1>1, <2>1, <2>3, <2>7, <2>8, <2>9 DEF Synced
<1>5. Half(conn)' /\ Heard'
  BY <1>1, <1>3 DEF Half, Heard, Gone, clientVars
<1> QED
  BY <1>1, <1>3, <1>4, <1>5, ServerSync

\* The connection is closed when the client has been sent all its answers.
LEMMA NextEpochSync == ASSUME Inv, IInv', NextEpoch PROVE SyncInv' /\ Standing'
<1>1. /\ Busy /\ spc = "write" /\ pending = <<>> /\ idx = Len(location)
      /\ Len(location) \in Nat /\ epoch \in Nat /\ N \in Nat \ {0} /\ ~(idx < Len(location))
      /\ UNCHANGED <<clientVars, backlog, toClient, toServer, word, idx, location, pending,
                     cipherWordList>>
      /\ spc' \in {"recv", "accept"}
  BY LenProperties, BoundAssumption DEF NextEpoch, Busy, Inv, IInv, TypeOK
<1>2. /\ conn \in Client /\ Half(conn) /\ toClient[conn] \in Seq(Token) /\ TypeOK
      /\ link[conn] = "open" /\ Stands(conn)
  BY <1>1, ServedFacts DEF Inv, Standing
<1>3. \A d \in Client : Coming(d) = toClient[d]
  <2>1. toClient[conn] \o <<>> = toClient[conn]
    BY <1>2, ConcatEmptySeq
  <2> QED
    BY <1>1, <2>1 DEF Coming, Serving
<1>4. \/ /\ epoch + 1 < N /\ epoch' = epoch + 1 /\ spc' = "recv" /\ conn' = conn /\ link' = link
      \/ /\ epoch + 1 = N /\ spc' = "accept" /\ link' = [link EXCEPT ![conn] = "closed"]
         /\ conn' = NoClient
  <2>1. epoch \in 0..(N - 1)
    BY <1>2 DEF TypeOK
  <2> QED
    BY <1>1, <2>1 DEF NextEpoch, ServerEpochs
<1>5. /\ \A d \in Client \ {conn} : link'[d] = link[d]
      /\ link'[conn] = "open" \/ link'[conn] = "closed"
  BY <1>2, <1>4 DEF TypeOK
<1>6. ASSUME NEW d \in Client, Alive(d) PROVE Synced(d)'
  <2>1. PICK a \in Seq(Entry), y \in State :
          /\ Told(d, a) /\ Reads(a, ClientState(d), Coming(d), y) /\ Suits(d, a, y)
    BY <1>6, SyncedFacts
  <2>2. Coming(d)' = Coming(d) /\ ClientState(d)' = ClientState(d) /\ ~Serving(d)'
    BY <1>1, <1>3 DEF Coming, Serving, ClientState, clientVars
  <2>3. Told(d, a)'
    BY <1>1, <2>1, <2>2 DEF Told, Lost, clientVars
  <2>4. Awaits(d, y) => Awaits(d, y)'
    BY <1>1, <2>2 DEF Awaits, Ready, AtWord, AtEntry, AtNumbers
  <2>5. Total(d, y)' = Total(d, y)
    BY <1>1 DEF Total, clientVars
  <2>6. CASE d # conn
    <3>1. Expected(d, y) = 0 /\ Expected(d, y)' = 0
      BY <1>1, <1>4, <2>6 DEF Expected, Busy
    <3> QED
      BY <1>1, <1>5, <2>1, <2>2, <2>3, <2>4, <2>5, <2>6, <3>1 DEF Synced, Suits
  <2>7. CASE d = conn
    <3>1. Awaits(d, y) /\ Total(d, y) = Expected(d, y)
      BY <1>2, <2>1, <2>7 DEF Suits
    <3>2. Finishing(d, y)
      BY <1>1, <2>7, <3>1 DEF Finishing, Serving, Awaits, AtWord, AtEntry, AtNumbers, Ready
    <3>3. Expected(d, y) = epoch + 1
      BY <1>1, <2>7, <3>2 DEF Expected
    <3>4. CASE /\ epoch' = epoch + 1 /\ spc' = "recv" /\ conn' = conn /\ link' = link
      <4>1. ~Finishing(d, y)'
        BY <2>2 DEF Finishing
      <4>2. Expected(d, y)' = epoch + 1 + 0
        BY <2>7, <3>4, <4>1 DEF Expected, Busy
      <4>3. Total(d, y)' = Expected(d, y)'
        BY <1>1, <2>5, <3>1, <3>3, <4>2
      <4>4. Suits(d, a, y)'
        BY <1>2, <2>2, <2>4, <2>7, <3>1, <3>4, <4>3 DEF Suits
      <4> QED
        BY <2>1, <2>2, <2>3, <4>4 DEF Synced
    <3>5. CASE epoch + 1 = N /\ spc' = "accept" /\ link' = [link EXCEPT ![conn] = "closed"]
      <4>1. link'[d] = "closed"
        BY <1>2, <2>7, <3>5 DEF TypeOK
      <4>2. Suits(d, a, y)'
        BY <2>5, <3>1, <3>3, <3>5, <4>1 DEF Suits
      <4> QED
        BY <2>1, <2>2, <2>3, <4>2 DEF Synced
    <3> QED
      BY <1>4, <3>4, <3>5
  <2> QED
    BY <2>6, <2>7
<1>7. \A d \in Client : (Alive(d) => Synced(d))' /\ Half(d)'
  BY <1>1, <1>6 DEF Inv, SyncInv, Alive, Half, clientVars
<1>8. LinkOK'
  <2>1. CASE spc' = "recv" /\ conn' = conn /\ link' = link
    BY <1>1, <2>1 DEF Inv, SyncInv, LinkOK, Busy, clientVars
  <2>2. CASE spc' = "accept"
    <3>1. backlog \in Seq(Client) /\ \A k \in DOMAIN backlog : backlog[k] \in Client
      BY <1>2 DEF TypeOK
    <3>2. cpc[conn] # "start"
      BY <1>1, <1>2 DEF Stands
    <3> QED
      BY <1>1, <1>2, <1>5, <2>2, <3>1, <3>2 DEF Inv, SyncInv, LinkOK, Busy, clientVars
  <2> QED
    BY <1>4, <2>1, <2>2
<1>9. Heard'
  BY <1>1 DEF Heard
<1>10. ASSUME NEW d \in Client PROVE Stands(d)'
  <2>1. Stands(d) /\ cpc' = cpc /\ reports' = reports /\ backlog' = backlog
    BY <1>1 DEF Inv, Standing, clientVars
  <2>2. Busy' => conn' = conn /\ (conn = d => cpc[d] # "done")
    <3>1. SUFFICES ASSUME Busy', conn = d PROVE conn' = conn /\ cpc[d] # "done"
      BY <1>4 DEF Busy
    <3>2. epoch + 1 < N /\ conn' = conn
      BY <1>4, <3>1 DEF Busy
    <3>3. epoch # N - 1
      BY <1>1, <3>2
    <3> QED
      BY <1>1, <2>1, <3>1, <3>2, <3>3 DEF Stands
  <2> QED
    BY <1>1, <2>1, <2>2 DEF Stands, Gone, Busy
<1>11. Listed'
  BY <1>1 DEF Inv, Standing, Listed
<1> QED
  BY <1>7, <1>8, <1>9, <1>10, <1>11 DEF SyncInv, Standing

LEMMA StutterSync == ASSUME Inv, UNCHANGED vars PROVE SyncInv' /\ Standing'
<1>1. UNCHANGED <<cpc, asked, left, numsLeft, lines, reports, backlog, link, toServer, toClient,
                  spc, conn, epoch, word, idx, numIdx, location, pending, cipherWordList, wordTable>>
  BY DEF vars, clientVars, netVars, serverVars
<1>2. \A d \in Client : (Alive(d) => Synced(d))' /\ Half(d)' /\ Stands(d)'
  <2> SUFFICES ASSUME NEW d \in Client PROVE (Alive(d) => Synced(d))' /\ Half(d)' /\ Stands(d)'
    OBVIOUS
  <2>1. ClientState(d)' = ClientState(d) /\ Alive(d)' = Alive(d) /\ Coming(d)' = Coming(d)
    BY <1>1 DEF ClientState, Alive, Coming, Serving
  <2>2. \A y : Awaits(d, y)' = Awaits(d, y)
    BY <1>1, <2>1 DEF Awaits, Ready, AtWord, AtEntry, AtNumbers, postings, query_cipher_word
  <2>3. \A y : Total(d, y)' = Total(d, y) /\ Expected(d, y)' = Expected(d, y)
    BY <1>1 DEF Total, Expected, Finishing, Serving, Busy
  <2>4. Making' = Making
    BY <1>1 DEF Making
  <2>5. \A a, y : Suits(d, a, y)' = Suits(d, a, y)
    BY <1>1, <2>2, <2>3, <2>4 DEF Suits, Serving
  <2>6. \A a : Told(d, a)' = Told(d, a)
    BY <1>1, <2>1 DEF Told, Lost
  <2>7. Synced(d)' = Synced(d)
    BY <2>1, <2>5, <2>6 DEF Synced
  <2>8. (Alive(d) => Synced(d)) /\ Half(d) /\ Stands(d)
    BY DEF Inv, SyncInv, Standing
  <2>9. Half(d)' /\ Stands(d)'
    BY <1>1, <2>8 DEF Half, Stands, Gone, Busy
  <2> QED
    BY <2>1, <2>7, <2>8, <2>9
<1>3. LinkOK' /\ Heard' /\ Listed'
  BY <1>1 DEF Inv, SyncInv, Standing, LinkOK, Busy, Heard, Gone, Listed
<1> QED
  BY <1>2, <1>3 DEF SyncInv, Standing

-----------------------------------------------------------------------------
(* The invariant holds.                                                    *)

LEMMA InitInv == Init => Inv
<1> SUFFICES ASSUME Init PROVE Inv
  OBVIOUS
<1>1. \A c \in Client : cpc[c] = "start" /\ toServer[c] = <<>> /\ Len(reports[c]) = 0
  BY DEF Init
<1>2. \A c \in Client : ~Alive(c) /\ Half(c)
  BY <1>1 DEF Alive, Half, Kinds
<1>3. LinkOK /\ Heard /\ Listed
  BY DEF Init, LinkOK, Busy, Heard, Listed
<1>4. \A c \in Client : Stands(c)
  <2>1. backlog = <<>> /\ ~Busy /\ 0 < N
    BY BoundAssumption DEF Init, Busy
  <2> QED
    BY <1>1, <2>1 DEF Stands
<1> QED
  BY <1>2, <1>3, <1>4, InitIInv DEF Inv, SyncInv, Standing

LEMMA NextInv == ASSUME Wide = {} PROVE Inv /\ [Next]_vars => Inv'
<1> SUFFICES ASSUME Inv, [Next]_vars PROVE Inv'
  OBVIOUS
<1>1. IInv'
  BY NextIInv DEF Inv
<1>2. CASE ServerStep
  <2>1. SyncInv' /\ Standing'
    BY <1>1, <1>2, AcceptSync, ReadRequestSync, FetchTableSync, Step1Sync, WriteRecordSync,
       LookupSync, Step3Sync, ReplySync, NextEpochSync DEF ServerStep
  <2> QED
    BY <1>1, <2>1 DEF Inv
<1>3. CASE Stop
  BY <1>1, <1>3, ExitSync DEF Stop, Inv
<1>4. ASSUME NEW c \in Client, ClientStep(c) \/ Crash(c) PROVE Inv'
  BY <1>1, <1>4, ClientStepSync DEF Inv
<1>5. CASE Finished \/ UNCHANGED vars
  BY <1>1, <1>5, StutterSync DEF Finished, Inv
<1> QED
  BY <1>2, <1>3, <1>4, <1>5 DEF Next

LEMMA SyncGives == Inv => InSync /\ HalfDuplex
<1> SUFFICES ASSUME Inv PROVE InSync /\ HalfDuplex
  OBVIOUS
<1>1. ASSUME NEW c \in Client, cpc[c] \in Kinds, toClient[c] # <<>>
      PROVE  Incoming(c).kind = cpc[c]
  <2>1. Alive(c) /\ TypeOK
    BY <1>1 DEF Alive, Inv, IInv
  <2>2. PICK a \in Seq(Entry), y \in State :
          /\ Reads(a, ClientState(c), Coming(c), y)
          /\ ClientState(c) \in State /\ Coming(c) \in Seq(Token)
    BY <2>1, SyncedFacts
  <2>3. Coming(c) # <<>> /\ Head(Coming(c)) = Incoming(c)
    BY <1>1, <2>1, IncomingFirst DEF Incoming
  <2> QED
    BY <2>2, <2>3, ReadsFirst, StateFields
<1> QED
  BY <1>1 DEF InSync, HalfDuplex, Inv, SyncInv, Half

LEMMA Correctness == Wide = {} => (Spec => []Inv)
<1> SUFFICES ASSUME Wide = {} PROVE Spec => []Inv
  OBVIOUS
<1>1. Inv /\ [Next]_vars => Inv'
  BY NextInv
<1> QED
  BY <1>1, InitInv, PTL DEF Spec

\* What a client reads next is what the server wrote at that place of the
\* protocol, for any number of clients, epochs and keywords, whoever ends at
\* whatever step, if every number of the index has eight digits
\* (client.cpp:103-149, server.cpp:425-491).
THEOREM SSEInSync == Wide = {} => (Spec => []InSync)
<1> SUFFICES ASSUME Wide = {} PROVE Spec => []InSync
  OBVIOUS
<1>1. Spec => []Inv
  BY Correctness
<1> QED
  BY <1>1, SyncGives, PTL

\* No connection carries a request while an answer is under way, under the same
\* assumption: the two programs cannot block each other with full buffers.
THEOREM SSEHalfDuplex == Wide = {} => (Spec => []HalfDuplex)
<1> SUFFICES ASSUME Wide = {} PROVE Spec => []HalfDuplex
  OBVIOUS
<1>1. Spec => []Inv
  BY Correctness
<1> QED
  BY <1>1, SyncGives, PTL

-----------------------------------------------------------------------------
(* Every step of the service is a step of its promise, or none.            *)

Kept == Promise!Next \/ UNCHANGED Promise!vars

\* The statuses of the other clients stay what they are.
OthersStay(c) == \A d \in Client \ {c} : Status(d)' = Status(d)

LEMMA QuietKeeps ==
  ASSUME UNCHANGED <<asked, reports>>, \A d \in Client : Status(d)' = Status(d),
         spc = "down" <=> spc' = "down"
  PROVE  Kept
<1>1. (spc # "down")' = (spc # "down")
  OBVIOUS
<1>2. [d \in Client |-> Status(d)]' = [d \in Client |-> Status(d)]
  OBVIOUS
<1> QED
  BY <1>1, <1>2 DEF Kept, Promise!vars

LEMMA ReportKeeps ==
  ASSUME NEW c \in Client, NEW answer, UNCHANGED <<asked, spc>>,
         reports' = [reports EXCEPT ![c] = Append(@, answer)],
         Status(c) = "asking", OthersStay(c),
         Status(c)' = (IF Len(reports[c]) + 1 = N THEN "done" ELSE "asking"),
         \/ answer \in Promise!Answers(asked[c])
         \/ spc = "down" /\ answer \in Promise!CutShort(asked[c])
  PROVE  Kept
<1> DEFINE old == [d \in Client |-> Status(d)]
           new == [d \in Client |-> Status(d)']
<1>1. old[c] = "asking" /\ new = [old EXCEPT ![c] = IF Len(reports[c]) + 1 = N THEN "done" ELSE "asking"]
  BY DEF OthersStay
<1>2. Promise!Report(c, answer)
  BY <1>1 DEF Promise!Report
<1>3. Promise!Answer(c) \/ Promise!AnswerAfterOutage(c)
  BY <1>2 DEF Promise!Answer, Promise!AnswerAfterOutage
<1> QED
  BY <1>3 DEF Kept, Promise!Next

LEMMA LeaveKeeps ==
  ASSUME NEW c \in Client, NEW how, UNCHANGED <<asked, reports, spc>>,
         Status(c) = "asking", Status(c)' = how, OthersStay(c),
         \/ how = "failed" /\ (c \in CanCrash \/ spc = "down")
         \/ /\ how = "refused" /\ reports[c] = <<>>
            /\ \/ spc = "down"
               \/ Cardinality({d \in Client \ {c} : Status(d) \in {"asking", "failed"}}) > Backlog
  PROVE  Kept
<1> DEFINE old == [d \in Client |-> Status(d)]
           new == [d \in Client |-> Status(d)']
<1>1. old[c] = "asking" /\ new = [old EXCEPT ![c] = how]
  BY DEF OthersStay
<1>2. Promise!Leave(c, how)
  BY <1>1 DEF Promise!Leave
<1>3. CASE how = "failed" /\ (c \in CanCrash \/ spc = "down")
  <2>1. Promise!Fail(c)
    BY <1>2, <1>3 DEF Promise!Fail
  <2> QED
    BY <2>1 DEF Kept, Promise!Next
<1>4. CASE /\ how = "refused" /\ reports[c] = <<>>
           /\ \/ spc = "down"
              \/ Cardinality({d \in Client \ {c} : Status(d) \in {"asking", "failed"}}) > Backlog
  <2>1. {d \in Client \ {c} : old[d] \in {"asking", "failed"}}
          = {d \in Client \ {c} : Status(d) \in {"asking", "failed"}}
    OBVIOUS
  <2>2. Promise!Refuse(c)
    BY <1>2, <1>4, <2>1, SameOperators DEF Promise!Refuse
  <2> QED
    BY <2>2 DEF Kept, Promise!Next
<1> QED
  BY <1>3, <1>4

LEMMA OutageKeeps ==
  ASSUME UNCHANGED clientVars, spc # "down", spc' = "down",
         ServerMayStop \/ \E c \in CanCrash : cpc[c] = "crashed"
  PROVE  Kept
<1>1. /\ asked' = asked /\ reports' = reports
      /\ [d \in Client |-> Status(d)]' = [d \in Client |-> Status(d)]
  BY DEF clientVars, Status
<1>2. ServerMayStop \/ \E c \in CanCrash : [d \in Client |-> Status(d)][c] = "failed"
  BY FaultAssumption DEF Status
<1>3. Promise!Outage
  BY <1>1, <1>2 DEF Promise!Outage
<1> QED
  BY <1>3 DEF Kept, Promise!Next

-----------------------------------------------------------------------------
(* The steps of a client.                                                  *)

\* An answer is printed.
LEMMA EndEpochKeeps ==
  ASSUME TypeOK, NEW c \in Client, NEW answer, EndEpoch(c, answer), UNCHANGED <<asked, spc>>,
         cpc[c] \in Kinds,
         \/ answer \in Promise!Answers(asked[c])
         \/ spc = "down" /\ answer \in Promise!CutShort(asked[c])
  PROVE  Kept
<1>1. Status(c) = "asking" /\ OthersStay(c)
  BY EndEpochState DEF Status, Kinds, OthersStay
<1>2. Status(c)' = (IF Len(reports[c]) + 1 = N THEN "done" ELSE "asking")
  BY EndEpochState DEF Status
<1>3. reports' = [reports EXCEPT ![c] = Append(@, answer)]
  BY DEF EndEpoch
<1> QED
  BY <1>1, <1>2, <1>3, ReportKeeps

\* A client that goes on has not printed an answer.
LEMMA ProgressKeeps ==
  ASSUME NEW c \in Client, UNCHANGED <<asked, reports, spc>>,
         \A d \in Client \ {c} : cpc'[d] = cpc[d],
         cpc[c] \notin Ended, cpc'[c] \notin Ended
  PROVE  Kept
<1>1. \A d \in Client : Status(d)' = Status(d)
  BY DEF Status, Ended
<1> QED
  BY <1>1, QuietKeeps

LEMMA ConnectKeeps == ASSUME Inv, NEW c \in Client, Connect(c) PROVE Kept
<1>1. cpc[c] = "start" /\ cpc'[c] = "send" /\ \A d \in Client \ {c} : cpc'[d] = cpc[d]
  BY DEF Connect, Inv, IInv, TypeOK
<1>2. UNCHANGED <<asked, reports, spc>>
  BY DEF Connect, serverVars
<1> QED
  BY <1>1, <1>2, ProgressKeeps DEF Ended

\* Every connection in the queue of a running server is that of a client that
\* has not left, or was killed.
LEMMA QueueFacts ==
  ASSUME Inv, NEW c \in Client, cpc[c] = "start", spc # "down", Len(backlog) > Backlog
  PROVE  Cardinality({d \in Client \ {c} : Status(d) \in {"asking", "failed"}}) > Backlog
<1> DEFINE S == {d \in Client \ {c} : Status(d) \in {"asking", "failed"}}
<1>1. backlog \in Seq(Client) /\ Len(backlog) \in Nat
  BY LenProperties DEF Inv, IInv, TypeOK
<1>2. \A k \in 1..Len(backlog) : backlog[k] \in S
  <2> SUFFICES ASSUME NEW k \in 1..Len(backlog) PROVE backlog[k] \in S
    OBVIOUS
  <2>1. backlog[k] \in Client /\ k \in DOMAIN backlog
    BY <1>1, ElementOfSeq
  <2>2. cpc[backlog[k]] \notin {"start", "done", "refused"}
    BY <2>1 DEF Inv, Standing, Stands
  <2> QED
    BY <2>1, <2>2 DEF Status
<1>3. \A j, k \in 1..Len(backlog) : backlog[j] = backlog[k] => j = k
  BY <1>1 DEF Inv, SyncInv, LinkOK
<1>4. S \in SUBSET Client
  OBVIOUS
<1> HIDE DEF S
<1>5. backlog \in [1..Len(backlog) -> S]
  BY <1>1, <1>2
<1>6. backlog \in Injection(1..Len(backlog), S)
  BY <1>3, <1>5 DEF Injection, IsInjective
<1>7. IsFiniteSet(S)
  BY <1>4, ClientAssumption, FS_Subset
<1>8. Cardinality(1..Len(backlog)) <= Cardinality(S)
  BY <1>6, <1>7, FS_Injection
<1>9. Cardinality(1..Len(backlog)) = Len(backlog)
  <2> DEFINE n == Len(backlog)
  <2>1. 1 \in Int /\ n \in Int /\ n \in Nat
    BY <1>1
  <2> HIDE DEF n
  <2>2. Cardinality(1..n) = IF 1 > n THEN 0 ELSE n - 1 + 1
    BY <2>1, FS_Interval
  <2>3. Cardinality(1..n) = n
    BY <2>1, <2>2
  <2> QED
    BY <2>3 DEF n
<1>10. Cardinality(S) \in Nat
  BY <1>7, FS_CardinalityType
<1>11. Cardinality(S) > Backlog
  BY <1>1, <1>8, <1>9, <1>10, BoundAssumption
<1> QED
  BY <1>11 DEF S

LEMMA ConnectFailsKeeps == ASSUME Inv, NEW c \in Client, ConnectFails(c) PROVE Kept
<1>1. /\ cpc[c] = "start" /\ cpc'[c] = "refused" /\ \A d \in Client \ {c} : cpc'[d] = cpc[d]
      /\ UNCHANGED <<asked, reports, spc>>
      /\ spc = "down" \/ Len(backlog) > Backlog
  BY DEF ConnectFails, Inv, IInv, TypeOK, serverVars
<1>2. Status(c) = "asking" /\ Status(c)' = "refused" /\ OthersStay(c)
  BY <1>1 DEF Status, OthersStay
<1>3. reports[c] = <<>>
  BY <1>1 DEF Inv, SyncInv, LinkOK
<1>4. \/ spc = "down"
      \/ Cardinality({d \in Client \ {c} : Status(d) \in {"asking", "failed"}}) > Backlog
  BY <1>1, QueueFacts
<1> QED
  BY <1>1, <1>2, <1>3, <1>4, LeaveKeeps

\* A client that fails was killed, or its server is gone.
LEMMA FailureKeeps ==
  ASSUME NEW c \in Client, UNCHANGED <<asked, reports, spc>>,
         \A d \in Client \ {c} : cpc'[d] = cpc[d],
         cpc[c] \notin Ended, cpc'[c] \in {"failed", "crashed"},
         c \in CanCrash \/ spc = "down"
  PROVE  Kept
<1>1. Status(c) = "asking" /\ Status(c)' = "failed" /\ OthersStay(c)
  BY DEF Status, OthersStay, Ended
<1> QED
  BY <1>1, LeaveKeeps

LEMMA SendKeeps == ASSUME Inv, NEW c \in Client, Send(c) PROVE Kept
<1>1. /\ cpc[c] = "send" /\ cpc'[c] \in {"count", "failed"}
      /\ \A d \in Client \ {c} : cpc'[d] = cpc[d]
      /\ UNCHANGED <<asked, reports, spc>>
      /\ cpc'[c] = "failed" => link[c] = "closed"
  BY DEF Send, Inv, IInv, TypeOK, serverVars
<1>2. ASSUME link[c] = "closed" PROVE spc = "down"
  <2>1. Alive(c)
    BY <1>1 DEF Alive
  <2>2. PICK a \in Seq(Entry), y \in State :
          /\ Reads(a, ClientState(c), Coming(c), y)
          /\ ClientState(c) \in State /\ Coming(c) \in Seq(Token)
    BY <2>1, SyncedFacts
  <2>3. Coming(c) = <<>>
    BY <1>1, <2>2, SendReadsNothing, StateFields
  <2>4. toClient[c] = <<>>
    BY <1>2, <2>3 DEF Inv, SyncInv, LinkOK, Busy, Serving, Coming
  <2> QED
    BY <1>1, <1>2, <2>4, EndOfFile
<1> QED
  BY <1>1, <1>2, ProgressKeeps, FailureKeeps DEF Ended

LEMMA ReadFailsKeeps == ASSUME Inv, NEW c \in Client, ReadFails(c) PROVE Kept
<1>1. /\ cpc[c] \in Kinds /\ toClient[c] = <<>> /\ link[c] = "closed" /\ cpc'[c] = "failed"
      /\ \A d \in Client \ {c} : cpc'[d] = cpc[d]
      /\ UNCHANGED <<asked, reports, spc>>
  BY DEF ReadFails, ReadsEof, Kinds, Inv, IInv, TypeOK, serverVars
<1>2. spc = "down"
  BY <1>1, EndOfFile
<1> QED
  BY <1>1, <1>2, FailureKeeps DEF Ended, Kinds

LEMMA CrashKeeps == ASSUME Inv, NEW c \in Client, Crash(c) PROVE Kept
<1>1. /\ cpc[c] \notin Ended /\ cpc'[c] = "crashed" /\ c \in CanCrash
      /\ \A d \in Client \ {c} : cpc'[d] = cpc[d]
      /\ UNCHANGED <<asked, reports, spc>>
  BY DEF Crash, Gone, Inv, IInv, TypeOK, serverVars
<1> QED
  BY <1>1, FailureKeeps

LEMMA ReadCountKeeps == ASSUME Inv, NEW c \in Client, ReadCount(c) PROVE Kept
<1>1. /\ TypeOK /\ cpc[c] = "count" /\ cpc[c] \in Kinds /\ UNCHANGED <<asked, spc>> /\ asked[c] \in Word
  BY DEF Inv, IInv, TypeOK, ReadCount, Receives, ReadsEof, Kinds, serverVars
<1>2. ASSUME NEW v, v # 0, TakeCount(c, v) PROVE Kept
  <2>1. /\ cpc'[c] = "head" /\ \A d \in Client \ {c} : cpc'[d] = cpc[d]
        /\ reports' = reports
    BY <1>1, <1>2 DEF TakeCount, TypeOK
  <2> QED
    BY <1>1, <2>1, ProgressKeeps DEF Ended
<1>3. CASE ReadsEof(c, "count") /\ TakeCount(c, 0)
  <2>1. toClient[c] = <<>> /\ link[c] = "closed"
    BY <1>3 DEF ReadsEof
  <2>2. spc = "down"
    BY <1>1, <2>1, EndOfFile
  <2>3. <<>> \in Promise!CutShort(asked[c])
    BY DEF Promise!CutShort
  <2> QED
    BY <1>1, <1>3, <2>2, <2>3, EndEpochKeeps DEF TakeCount
<1>4. CASE Receives(c, "count") /\ TakeCount(c, Incoming(c).value) /\ Incoming(c).value = 0
  <2>1. "count" \in Kinds
    BY DEF Kinds
  <2>2. PICK a \in Promise!Answers(asked[c]) :
          /\ a \in Seq(Entry) /\ ClientState(c) \in State /\ ClientState(c).kind = "count"
          /\ Incoming(c) = Record(a, ClientState(c))
    BY <1>4, <2>1, ReceivedFacts
  <2>3. a = <<>>
    BY <1>1, <1>4, <2>2, CountPrints
  <2> QED
    BY <1>1, <1>4, <2>2, <2>3, EndEpochKeeps DEF TakeCount
<1> QED
  BY <1>2, <1>3, <1>4 DEF ReadCount

LEMMA ReadHeadKeeps == ASSUME Inv, NEW c \in Client, ReadHead(c) PROVE Kept
<1>1. Receives(c, "head") /\ Opens("sk_3", Incoming(c).cipher)
  BY IncomingOpens DEF ReadHead
<1>2. /\ cpc[c] = "head" /\ cpc'[c] = "size" /\ \A d \in Client \ {c} : cpc'[d] = cpc[d]
      /\ UNCHANGED <<asked, reports, spc>>
  BY <1>1 DEF ReadHead, Receives, Inv, IInv, TypeOK, serverVars
<1> QED
  BY <1>2, ProgressKeeps DEF Ended

\* The last line is cut short by the end of file, and printed.
LEMMA ReadSizeKeeps == ASSUME Inv, NEW c \in Client, ReadSize(c) PROVE Kept
<1>1. /\ TypeOK /\ cpc[c] = "size" /\ cpc[c] \in Kinds /\ UNCHANGED <<asked, spc>>
      /\ asked[c] \in Word /\ Alive(c) /\ "size" \in Kinds
  BY DEF Inv, IInv, TypeOK, ReadSize, Receives, ReadsEof, Kinds, Alive, serverVars
<1>2. ClientState(c) \in State /\ ClientState(c).kind = "size" /\ ClientState(c).left = left[c]
  BY <1>1, ClientStateType, StateFields
<1>3. CASE Receives(c, "size") /\ TakeSize(c, Incoming(c).value)
  <2>1. PICK a \in Promise!Answers(asked[c]) :
          Place(a, ClientState(c)) /\ Incoming(c) = Record(a, ClientState(c))
    BY <1>1, <1>3, ReceivedFacts
  <2>2. Incoming(c).value # 0
    BY <1>1, <1>2, <2>1, SizePrints
  <2>3. cpc'[c] = "num" /\ (\A d \in Client \ {c} : cpc'[d] = cpc[d]) /\ reports' = reports
    BY <1>1, <1>3, <2>2 DEF TakeSize, TypeOK
  <2> QED
    BY <1>1, <2>3, ProgressKeeps DEF Ended, Kinds
<1>4. CASE ReadsEof(c, "size") /\ TakeSize(c, 0)
  <2>1. toClient[c] = <<>> /\ link[c] = "closed" /\ EndKeyword(c, lines[c])
    BY <1>4 DEF ReadsEof, TakeSize
  <2>2. spc = "down"
    BY <1>1, <2>1, EndOfFile
  <2>3. CASE left[c] = 1
    <3>1. PICK a \in Seq(Entry) : Told(c, a)
      BY <1>1, SyncedFacts
    <3>2. /\ a \in Promise!Answers(asked[c]) /\ Place(a, ClientState(c))
          /\ lines[c] = Printed(a, ClientState(c))
      BY <1>1, <3>1 DEF Told, Lost
    <3>3. lines[c] \in Promise!CutShort(asked[c])
      BY <1>1, <1>2, <2>3, <3>2, SizePrints
    <3>4. EndEpoch(c, lines[c])
      BY <2>1, <2>3 DEF EndKeyword
    <3> QED
      BY <1>1, <2>2, <3>3, <3>4, EndEpochKeeps
  <2>4. CASE left[c] # 1
    <3>1. cpc'[c] = "head" /\ (\A d \in Client \ {c} : cpc'[d] = cpc[d]) /\ reports' = reports
      BY <1>1, <2>1, <2>4 DEF EndKeyword, TypeOK
    <3> QED
      BY <1>1, <3>1, ProgressKeeps DEF Ended, Kinds
  <2> QED
    BY <2>3, <2>4
<1> QED
  BY <1>3, <1>4 DEF ReadSize

\* With its last number an answer is complete.
LEMMA ReadNumKeeps == ASSUME Inv, NEW c \in Client, ReadNum(c) PROVE Kept
<1> DEFINE longer == WithDoc(lines[c], Incoming(c).cipher.text)
<1>1. /\ TypeOK /\ cpc[c] = "num" /\ cpc[c] \in Kinds /\ UNCHANGED <<asked, spc>>
      /\ asked[c] \in Word /\ Alive(c) /\ Receives(c, "num") /\ "num" \in Kinds
  BY DEF Inv, IInv, TypeOK, ReadNum, Receives, Kinds, Alive, serverVars
<1>2. Opens("sk_3", Incoming(c).cipher)
  BY <1>1, IncomingOpens
<1>3. CASE numsLeft[c] = 1 /\ left[c] = 1
  <2>1. EndEpoch(c, longer)
    BY <1>2, <1>3 DEF ReadNum, EndKeyword
  <2>2. PICK a \in Promise!Answers(asked[c]) :
          /\ ClientState(c) \in State /\ ClientState(c).kind = "num" /\ Place(a, ClientState(c))
          /\ lines[c] = Printed(a, ClientState(c)) /\ Incoming(c) = Record(a, ClientState(c))
    BY <1>1, ReceivedFacts
  <2>3. ClientState(c).left = 1 /\ ClientState(c).nums = 1
    BY <1>3, StateFields
  <2>4. WithDoc(Printed(a, ClientState(c)), Record(a, ClientState(c)).cipher.text) = a
    BY <1>1, <2>2, <2>3, NumPrints
  <2>5. longer = a
    BY <2>2, <2>4
  <2> HIDE DEF longer
  <2> QED
    BY <1>1, <2>1, <2>2, <2>5, EndEpochKeeps
<1>4. CASE ~(numsLeft[c] = 1 /\ left[c] = 1)
  <2>1. /\ cpc'[c] \in {"num", "head"} /\ (\A d \in Client \ {c} : cpc'[d] = cpc[d])
        /\ reports' = reports
    BY <1>1, <1>2, <1>4 DEF ReadNum, EndKeyword, TypeOK
  <2> QED
    BY <1>1, <2>1, ProgressKeeps DEF Ended, Kinds
<1> QED
  BY <1>3, <1>4

-----------------------------------------------------------------------------
(* The steps of the server.                                                *)

LEMMA ServerQuiet == ASSUME UNCHANGED clientVars, spc = "down" <=> spc' = "down" PROVE Kept
<1>1. asked' = asked /\ reports' = reports /\ \A d \in Client : Status(d)' = Status(d)
  BY DEF clientVars, Status
<1> QED
  BY <1>1, QuietKeeps

\* The server is ended by a client it was serving only if that one was killed.
LEMMA WriteRecordKeeps == ASSUME Inv, WriteRecord PROVE Kept
<1>1. spc = "write" /\ pending # <<>> /\ Busy /\ UNCHANGED clientVars
  BY DEF WriteRecord, Busy
<1>2. CASE spc' = spc
  BY <1>1, <1>2, ServerQuiet
<1>3. CASE Gone(conn) /\ spc' = "down"
  <2>1. conn \in Client /\ cpc[conn] # "done" /\ Stands(conn)
    BY <1>1, ServedFacts DEF Inv, Standing
  <2>2. cpc[conn] = "crashed" /\ conn \in CanCrash
    BY <1>1, <1>3, <2>1 DEF Stands, Gone, Ended
  <2> QED
    BY <1>1, <1>3, <2>2, OutageKeeps
<1> QED
  BY <1>2, <1>3 DEF WriteRecord, ServerExit

LEMMA LookupKeeps == ASSUME Inv, Lookup PROVE Kept
<1>1. query_cipher_word \in DOMAIN cipher_wordMap
  BY PostingsFacts DEF Lookup
<1> QED
  BY <1>1, ServerQuiet DEF Lookup

LEMMA ServerStepKeeps == ASSUME Inv, ServerStep PROVE Kept
<1>1. CASE Accept
  BY <1>1, ServerQuiet DEF Accept
<1>2. CASE ReadRequest
  BY <1>2, ServerQuiet DEF ReadRequest
<1>3. CASE fetch_table
  BY <1>3, ServerQuiet DEF fetch_table
<1>4. CASE step_1
  BY <1>4, ServerQuiet DEF step_1
<1>5. CASE step_3
  BY <1>5, ServerQuiet DEF step_3
<1>6. CASE Reply
  BY <1>6, ServerQuiet DEF Reply
<1>7. CASE NextEpoch
  <2>1. spc = "write" /\ spc' \in {"recv", "accept"} /\ UNCHANGED clientVars
    BY <1>7 DEF NextEpoch
  <2> QED
    BY <2>1, ServerQuiet
<1> QED
  BY <1>1, <1>2, <1>3, <1>4, <1>5, <1>6, <1>7, WriteRecordKeeps, LookupKeeps DEF ServerStep

LEMMA StopKeeps == ASSUME Stop PROVE Kept
BY OutageKeeps DEF Stop, ServerExit

-----------------------------------------------------------------------------
(* The service keeps its promise.                                          *)

LEMMA InitKeeps == Init => Promise!Init
BY DEF Init, Promise!Init, Status

LEMMA NextKeeps == Inv /\ [Next]_vars => Kept
<1> SUFFICES ASSUME Inv, [Next]_vars PROVE Kept
  OBVIOUS
<1>1. CASE ServerStep
  BY <1>1, ServerStepKeeps
<1>2. CASE Stop
  BY <1>2, StopKeeps
<1>3. ASSUME NEW c \in Client, ClientStep(c) \/ Crash(c) PROVE Kept
  BY <1>3, ConnectKeeps, ConnectFailsKeeps, SendKeeps, ReadCountKeeps, ReadHeadKeeps,
     ReadSizeKeeps, ReadNumKeeps, ReadFailsKeeps, CrashKeeps DEF ClientStep
<1>4. CASE Finished \/ UNCHANGED vars
  <2>1. UNCHANGED clientVars /\ spc' = spc
    BY <1>4 DEF Finished, vars, serverVars
  <2> QED
    BY <2>1, ServerQuiet
<1> QED
  BY <1>1, <1>2, <1>3, <1>4 DEF Next

\* The service implements its promise, for every number of clients, epochs and
\* queue places, every index, every distance and every order std::sort leaves
\* ties in, whoever fails at whatever step: a client prints nothing but the
\* correct answers to its word until an outage, what it prints after one is a
\* correct answer cut short, it is turned away only by a full queue or an
\* outage, and only a killed process causes one (client.cpp:94-160,
\* server.cpp:338-512).  The assumption is that of the streams: every document
\* number has eight digits.
THEOREM SSEKeepsPromise == Wide = {} => (Spec => PromiseKept)
<1> SUFFICES ASSUME Wide = {} PROVE Spec => PromiseKept
  OBVIOUS
<1>1. Spec => []Inv
  BY Correctness
<1>2. Inv /\ [Next]_vars => [Promise!Next]_(Promise!vars)
  BY NextKeeps DEF Kept
<1> QED
  BY <1>1, <1>2, InitKeeps, PTL DEF Spec, PromiseKept, Promise!Spec
=============================================================================
