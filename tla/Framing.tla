------------------------------ MODULE Framing ------------------------------
(***************************************************************************)
(* One connection of the search service in bytes.  client.cpp and          *)
(* server.cpp call read() once for every field and look neither at its     *)
(* result nor, for a request, at what they got: a field that arrives in    *)
(* two pieces is cut, and everything behind it is read shifted.            *)
(*                                                                         *)
(* An integer is sent as its digits, the lowest first.  The bytes of a     *)
(* ciphertext or of a tag are known by the text they belong to and by      *)
(* their place in it: the only thing ever done with them is to verify      *)
(* them.                                                                   *)
(***************************************************************************)
EXTENDS Naturals, Sequences, SequencesExt

CONSTANTS
  Text,         \* what is encrypted: keywords and document numbers
  Bad,          \* what does not decrypt
  Length,       \* how many bytes each of them has
  AnswerTo,     \* the answer to every word that may be asked
  N,            \* the literal 5 in server.cpp:348 and client.cpp:94
  Base,         \* the digits of an integer are below this
  IntSize,      \* sizeof(int)
  CountSize,    \* sizeof(size_t)
  ContentSize,  \* the literal 128 of a ciphertext's buffer
  TagSize,      \* the literal 16
  NumberSize,   \* sizeof(cipher_number)
  MaxCuts       \* a bound on the reads that return less than has arrived

Entry == [word : Text, docs : Seq(Text)]

ASSUME TextAssumption ==
  /\ Bad \notin Text
  /\ Length \in [Text -> 1..ContentSize]
  /\ DOMAIN AnswerTo \subseteq Text /\ Range(AnswerTo) \subseteq Seq(Entry)
ASSUME FieldAssumption ==
  /\ Base \in Nat \ {0, 1} /\ MaxCuts \in Nat
  /\ \A size \in {N, IntSize, CountSize, ContentSize, TagSize, NumberSize} : size \in Nat \ {0}

VARIABLES
  \* the connection
  toServer, toClient,  \* the bytes under way
  open,                \* the server has not closed its side
  cuts,                \* the fields cut so far
  \* the client
  cpc,                 \* the field it reads next, "send", "done" or "failed"
  asked,               \* plain_word
  round,               \* its epoch counter
  left, numsLeft,      \* keywords and numbers still to come
  got,                 \* the fields of the record it is reading
  decrypted_word,
  vec_num,             \* the numbers of this keyword, Bad if they do not verify
  printed,             \* the lines it has printed
  \* the server
  spc,                 \* the field it reads next, "write", "accept" or "down"
  epoch,               \* its epoch counter
  request,             \* the fields of the request
  toWrite,             \* the fields of this answer not written yet
  \* the history of the session, which only properties read
  due,                 \* the lines that answer what the client has asked
  misread              \* the server has answered a request that did not decrypt

clientVars == <<cpc, asked, round, left, numsLeft, got, decrypted_word, vec_num, printed>>
sessionVars == <<open, spc, epoch, request, toWrite, due, misread>>
byteVars == <<toServer, toClient, cuts, clientVars, sessionVars>>

-----------------------------------------------------------------------------
(* Bytes and fields.                                                       *)

Opaque == {"content", "tag"}
Byte == [kind : {"int"}, digit : 0..(Base - 1)]
          \cup [kind : Opaque, of : Text, at : Nat]

\* v without its p lowest digits, for p up to n.
Shifted(v, n) ==
  LET shifted[p \in 0..n] == IF p = 0 THEN v ELSE shifted[p - 1] \div Base IN shifted
IntBytes(v, n) ==
  LET shifted == Shifted(v, n) IN
  [p \in 1..n |-> [kind |-> "int", digit |-> shifted[p - 1] % Base]]
TextBytes(kind, t, n) == [p \in 1..n |-> [kind |-> kind, of |-> t, at |-> p]]

\* len, content and tag of one ciphertext.
CipherFields(t) ==
  <<IntBytes(Length[t], IntSize), TextBytes("content", t, ContentSize),
    TextBytes("tag", t, TagSize)>>

\* Mutant: the numbers are announced by their count.
AnnouncedCount(docs) == Len(docs)
Announced(docs) == Len(docs) * NumberSize

EntryFields(entry) ==
  <<IntBytes(1, IntSize)>> \o CipherFields(entry.word)
    \o <<IntBytes(Announced(entry.docs), CountSize)>>
    \o FlattenSeq([d \in DOMAIN entry.docs |-> CipherFields(entry.docs[d])])

AnswerFields(answer) ==
  <<IntBytes(Len(answer), CountSize)>>
    \o FlattenSeq([k \in DOMAIN answer |-> EntryFields(answer[k])])

\* No integer has more digits than its field.
Fits(v, n) == Shifted(v, n)[n] = 0

ASSUME WidthAssumption ==
  /\ \A t \in Text : Fits(Length[t], IntSize)
  /\ \A answer \in Range(AnswerTo) :
       /\ Fits(Len(answer), CountSize)
       /\ \A e \in Range(answer) : Fits(Announced(e.docs), CountSize)

\* The integer with these digits, the highest taken first.
Value(digits) ==
  LET above[p \in 1..(Len(digits) + 1)] ==
        IF p = Len(digits) + 1 THEN 0 ELSE digits[p] + Base * above[p + 1]
  IN above[1]

\* The values of an integer that was zero before these bytes were read into it.
\* Of a byte that is no digit it matters only whether it is zero.
Values(bytes) ==
  LET unknown == {p \in DOMAIN bytes : bytes[p].kind \in Opaque}
      digit(p, high) == IF p \notin unknown THEN bytes[p].digit
                        ELSE IF p \in high THEN Base - 1 ELSE 0
  IN {Value([p \in DOMAIN bytes |-> digit(p, high)]) : high \in SUBSET unknown}

\* gcm_decrypt looks at the first len bytes and at the tag.  What was not read of
\* a length that was not initialised may be zeros.
OpensAs(fields, t) ==
  /\ Length[t] \in Values(fields.len)
  /\ Len(fields.content) >= Length[t]
  /\ SubSeq(fields.content, 1, Length[t]) = TextBytes("content", t, Length[t])
  /\ fields.tag = TextBytes("tag", t, TagSize)

Decrypted(fields) ==
  IF \E t \in Text : OpensAs(fields, t) THEN CHOOSE t \in Text : OpensAs(fields, t) ELSE Bad

NoFields == [len |-> <<>>, content |-> <<>>, tag |-> <<>>]

FieldSize ==
  [count |-> CountSize, distance |-> IntSize, size |-> CountSize,
   len |-> IntSize, content |-> ContentSize, tag |-> TagSize,
   numLen |-> IntSize, numContent |-> ContentSize, numTag |-> TagSize]

\* What read() may return for n bytes: some of those that have arrived, nothing
\* at the end of the stream.  It blocks while there is nothing.
Results(stream, ended, n) ==
  LET most == IF n < Len(stream) THEN n ELSE Len(stream) IN
  IF most = 0
  THEN IF ended THEN {[bytes |-> <<>>, rest |-> <<>>, cut |-> 0]} ELSE {}
  ELSE {[bytes |-> SubSeq(stream, 1, k), rest |-> SubSeq(stream, k + 1, Len(stream)),
         cut |-> IF k < most THEN 1 ELSE 0] : k \in 1..most}

ClientEnded == cpc \in {"done", "failed"}

-----------------------------------------------------------------------------
FramingInit ==
  /\ toServer = <<>> /\ toClient = <<>> /\ open = TRUE
  /\ cuts = 0
  /\ cpc = "send"
  /\ asked \in DOMAIN AnswerTo
  /\ round = 1 /\ left = 0 /\ numsLeft = 0
  /\ got = NoFields /\ decrypted_word = Bad /\ vec_num = <<>> /\ printed = <<>>
  /\ spc = "len" /\ epoch = 1
  /\ request = NoFields
  /\ toWrite = <<>>
  /\ due = <<>> /\ misread = FALSE

(* The client.                                                             *)

\* Writing to a server that has closed is lost or ends the client.
Send ==
  /\ cpc = "send"
  /\ \/ /\ open
        /\ toServer' = toServer \o FlattenSeq(CipherFields(asked))
        /\ cpc' = "count"
     \/ ~open /\ cpc' \in {"count", "failed"} /\ UNCHANGED toServer
  /\ due' = due \o AnswerTo[asked]
  /\ UNCHANGED <<toClient, cuts, asked, round, left, numsLeft, got, decrypted_word, vec_num, printed,
                 open, spc, epoch, request, toWrite, misread>>

Took(field, r) ==
  /\ cpc = field
  /\ cuts' = cuts + r.cut
  /\ cuts' <= MaxCuts
  /\ toClient' = r.rest
  /\ UNCHANGED <<toServer, asked, sessionVars>>

Incoming(field) == Results(toClient, ~open, FieldSize[field])

\* Mutant: one epoch too many.
EndEpochMore ==
  /\ round' = round + 1
  /\ cpc' = IF round > N THEN "done" ELSE "send"

EndEpoch ==
  /\ round' = round + 1
  /\ cpc' = IF round = N THEN "done" ELSE "send"

ReadCount ==
  \E r \in Incoming("count") : \E v \in Values(r.bytes) :
    /\ Took("count", r)
    /\ left' = v
    /\ IF v = 0 THEN EndEpoch ELSE cpc' = "distance" /\ UNCHANGED round
    /\ UNCHANGED <<numsLeft, got, decrypted_word, vec_num, printed>>

\* The distance is printed only.
ReadDistance ==
  \E r \in Incoming("distance") :
    /\ Took("distance", r)
    /\ cpc' = "len"
    /\ UNCHANGED <<round, left, numsLeft, got, decrypted_word, vec_num, printed>>

ReadField(field, next, name) ==
  \E r \in Incoming(field) :
    /\ Took(field, r)
    /\ got' = [got EXCEPT ![name] = r.bytes]
    /\ cpc' = next
    /\ UNCHANGED <<round, left, numsLeft, decrypted_word, vec_num, printed>>

\* The keyword is decrypted at once, and the client ends if it cannot be.
ReadTag ==
  \E r \in Incoming("tag") :
    /\ Took("tag", r)
    /\ decrypted_word' = Decrypted([got EXCEPT !.tag = r.bytes])
    /\ cpc' = IF decrypted_word' = Bad THEN "failed" ELSE "size"
    /\ got' = NoFields
    /\ UNCHANGED <<round, left, numsLeft, vec_num, printed>>

\* Mutant: a number that does not decrypt does not end the client.
PrintLineAll(nums) ==
  /\ printed' = Append(printed, [word |-> decrypted_word, docs |-> nums])
  /\ vec_num' = <<>>
  /\ left' = left - 1
  /\ IF left = 1 THEN EndEpoch ELSE cpc' = "distance" /\ UNCHANGED round

FirstBad(nums) == SelectInSeq(nums, LAMBDA t : t = Bad)

\* The numbers are decrypted and printed up to the first that cannot be.
PrintLine(nums) ==
  LET bad == FirstBad(nums) IN
  /\ printed' = Append(printed, [word |-> decrypted_word,
                                 docs |-> IF bad = 0 THEN nums ELSE SubSeq(nums, 1, bad - 1)])
  /\ vec_num' = <<>>
  /\ IF bad # 0
     THEN cpc' = "failed" /\ UNCHANGED <<round, left>>
     ELSE /\ left' = left - 1
          /\ IF left = 1 THEN EndEpoch ELSE cpc' = "distance" /\ UNCHANGED round

ReadSize ==
  \E r \in Incoming("size") : \E v \in Values(r.bytes) :
    /\ Took("size", r)
    /\ numsLeft' = v \div NumberSize
    /\ IF numsLeft' = 0
       THEN PrintLine(<<>>)
       ELSE cpc' = "numLen" /\ UNCHANGED <<round, left, vec_num, printed>>
    /\ UNCHANGED <<got, decrypted_word>>

ReadNumTag ==
  \E r \in Incoming("numTag") :
    LET nums == Append(vec_num, Decrypted([got EXCEPT !.tag = r.bytes])) IN
    /\ Took("numTag", r)
    /\ got' = NoFields
    /\ numsLeft' = numsLeft - 1
    /\ IF numsLeft = 1
       THEN PrintLine(nums)
       ELSE vec_num' = nums /\ cpc' = "numLen" /\ UNCHANGED <<round, left, printed>>
    /\ UNCHANGED decrypted_word

ClientStep ==
  \/ Send \/ ReadCount \/ ReadDistance
  \/ ReadField("len", "content", "len") \/ ReadField("content", "tag", "content") \/ ReadTag
  \/ ReadSize
  \/ ReadField("numLen", "numContent", "len") \/ ReadField("numContent", "numTag", "content")
  \/ ReadNumTag

(* The server.                                                             *)

\* Mutant: at the end of the stream the read is tried again.
ReadRequestRetries(field, next) ==
  /\ spc = field
  /\ \E r \in Results(toServer, ClientEnded, FieldSize[field]) :
       /\ cuts' = cuts + r.cut /\ cuts' <= MaxCuts
       /\ toServer' = r.rest
       /\ request' = [request EXCEPT ![field] = r.bytes]
       /\ spc' = IF r.bytes = <<>> THEN field ELSE next
  /\ UNCHANGED <<toClient, clientVars, open, epoch, toWrite, due, misread>>

ReadRequest(field, next) ==
  /\ spc = field
  /\ \E r \in Results(toServer, ClientEnded, FieldSize[field]) :
       /\ cuts' = cuts + r.cut /\ cuts' <= MaxCuts
       /\ toServer' = r.rest
       /\ request' = [request EXCEPT ![field] = r.bytes]
  /\ spc' = next
  /\ UNCHANGED <<toClient, clientVars, open, epoch, toWrite, due, misread>>

\* The three ECALLs: a request that does not decrypt is answered all the same.
MakeAnswer ==
  /\ spc = "answer"
  /\ \E answer \in (IF Decrypted(request) = Bad THEN Range(AnswerTo)
                    ELSE {AnswerTo[Decrypted(request)]}) :
       toWrite' = AnswerFields(answer)
  /\ misread' = (misread \/ Decrypted(request) = Bad)
  /\ request' = NoFields
  /\ spc' = "write"
  /\ UNCHANGED <<toServer, toClient, cuts, clientVars, open, epoch, due>>

WriteField ==
  /\ spc = "write" /\ toWrite # <<>>
  /\ toWrite' = Tail(toWrite)
  /\ IF ClientEnded
     THEN \/ UNCHANGED <<toClient, open, spc>>
          \/ spc' = "down" /\ open' = FALSE /\ UNCHANGED toClient
     ELSE toClient' = toClient \o Head(toWrite) /\ UNCHANGED <<open, spc>>
  /\ UNCHANGED <<toServer, cuts, clientVars, epoch, request, due, misread>>

NextEpoch ==
  /\ spc = "write" /\ toWrite = <<>> /\ epoch < N
  /\ epoch' = epoch + 1
  /\ spc' = "len"
  /\ UNCHANGED <<toServer, toClient, cuts, clientVars, open, request, toWrite, due, misread>>

\* close() while there is something unread resets the connection, and the end
\* of what the client has not read may be lost.
Close ==
  /\ spc = "write" /\ toWrite = <<>> /\ epoch = N
  /\ open' = FALSE
  /\ spc' = "accept"
  /\ toClient' \in {toClient} \cup
       (IF toServer = <<>> THEN {} ELSE {SubSeq(toClient, 1, k) : k \in 0..Len(toClient)})
  /\ UNCHANGED <<toServer, cuts, clientVars, epoch, request, toWrite, due, misread>>

ServerStep ==
  \/ ReadRequest("len", "content") \/ ReadRequest("content", "tag")
  \/ ReadRequest("tag", "answer")
  \/ MakeAnswer \/ WriteField \/ NextEpoch \/ Close

SessionOver == ClientEnded /\ spc \in {"accept", "down"} /\ UNCHANGED byteVars

FramingNext == ClientStep \/ ServerStep \/ SessionOver

FramingSpec == FramingInit /\ [][FramingNext]_byteVars /\ WF_byteVars(ClientStep) /\ WF_byteVars(ServerStep)

-----------------------------------------------------------------------------
(* Properties.                                                             *)

BytesOK ==
  /\ toServer \in Seq(Byte) /\ toClient \in Seq(Byte)
  /\ open \in BOOLEAN /\ cuts \in 0..MaxCuts
  /\ cpc \in DOMAIN FieldSize \cup {"send", "done", "failed"}
  /\ asked \in DOMAIN AnswerTo
  /\ round \in 1..(N + 1) /\ epoch \in 1..N
  /\ left \in Nat /\ numsLeft \in Nat
  /\ \A fields \in {got, request} : fields \in [{"len", "content", "tag"} -> Seq(Byte)]
  /\ decrypted_word \in Text \cup {Bad} /\ vec_num \in Seq(Text \cup {Bad})
  /\ printed \in Seq(Entry) /\ due \in Seq(Entry) /\ misread \in BOOLEAN
  /\ spc \in {"len", "content", "tag", "answer", "write", "accept", "down"}
  /\ toWrite \in Seq(Seq(Byte))

\* What the bytes of a field are.
KindOf(field) ==
  CASE field \in {"content", "numContent"} -> "content"
    [] field \in {"tag", "numTag"} -> "tag"
    [] OTHER -> "int"

\* As long as the network keeps every field in one piece, field for field the
\* two programs agree where it begins and how long it is: the sizes they write
\* in bytes, counts and lengths (server.cpp:398-489) are the ones the other side
\* reads with (client.cpp:104-147).  The server reads the word that was asked, and
\* a client that is done has printed the answers to it and nothing else.
AlignedUnlessCut ==
  cuts = 0 =>
    /\ cpc \in DOMAIN FieldSize /\ toClient # <<>> =>
         /\ Len(toClient) >= FieldSize[cpc]
         /\ \A p \in 1..FieldSize[cpc] :
              /\ toClient[p].kind = KindOf(cpc)
              /\ toClient[p].kind \in Opaque => toClient[p].at = p
    /\ spc = "answer" => Decrypted(request) = asked
    /\ cpc = "done" => printed = due

\* One field cut in two costs the answer but never falsifies it: every line the
\* client prints is the beginning of a line of some word's answer, although a cut
\* size is a wrong size and all that follows is read shifted.  Only the tags stand
\* between a shifted read and the screen (client.cpp:121-132, 165-177).  And if no
\* request was cut, so that the server always knew what it was asked, the lines
\* are a beginning of the right answers, in their order.
PrintedIsPrefix ==
  /\ \A k \in DOMAIN printed : \E line \in UNION {Range(answer) : answer \in Range(AnswerTo)} :
       printed[k].word = line.word /\ IsPrefix(printed[k].docs, line.docs)
  /\ ~misread =>
       /\ Len(printed) <= Len(due)
       /\ \A k \in DOMAIN printed :
            printed[k].word = due[k].word /\ IsPrefix(printed[k].docs, due[k].docs)

\* A cut makes neither side wait for bytes the other will not send: what is read
\* too little is left over, so that the reads that follow never ask for more
\* than there will be (client.cpp:104-147, server.cpp:359-361).
BothEnd == <>[](ClientEnded /\ spc \in {"accept", "down"})
=============================================================================
