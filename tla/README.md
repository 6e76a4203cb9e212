# Verification of SDGW-CP-ABE-SSE

The repository holds two programs that do not call each other: a keyword search
over an encrypted index (`src/SSE`: a client, a server, and an SGX enclave the
server calls) and an attribute-based encryption of a search key (`src/CP-ABE`: a
policy parser, a secret sharing scheme and a pairing-based cryptosystem). This
directory models both in TLA+, checks the models with TLC, and proves with TLAPS
what matters most. `PROJECT.json` ties every definition to the lines it models.

## 1. Inventory

### 1.1 Encrypted search

| part | source | state | operations |
| --- | --- | --- | --- |
| data scripts | `data_1.py`, `data_2.py` | the table in memory | draw keywords and documents, write the index file |
| index | `include/Index.h` | `wordMap`, `cipher_wordMap`, `cipherWordList` | `readFile`, `initialzie` (once, before `listen`) |
| server | `Server/App/server.cpp` | the socket in use, epoch counter, received word, `location`, `distance_vtr`, loop counters | accept, read a request, three ECALLs, look up, write the answer, close |
| enclave | `Server/Enclave/Enclave.cpp` | `wordTable` and the heap, both of which survive from request to request | `fetch_table`, `step_1`, `step_3`, `calculateEditDistance` |
| client | `Client/client.cpp` | what is still to come of an answer, lines printed | connect, five times: send a word, read and print an answer |
| TCP | the kernel | accept queue, two byte streams per connection | |
| AES-GCM | `include/utilities.h`, `Enclave.cpp:68-197` | none | `gcm_encrypt`, `gcm_decrypt` with a fixed IV |

A request is one ciphertext under `sk_3`. The enclave decrypts the whole table
(`fetch_table`, key `sk_1`), then the request, and compares it with every entry
(`step_1`): an exact match gives one position, otherwise the positions of all words
at distance at most 2, nearest first. The server finds each position's ciphertext
in its map and the enclave re-encrypts word and document numbers for the client
(`step_3`, `sk_2` to `sk_3`). Nothing in the stream names a record, no result of
`read` or of an ECALL is looked at, the number of requests per connection is a
literal in both programs, and the server serves one connection at a time.

Hard here: the interleaving of several clients with the server through an accept
queue of bounded length; the end of either process at any step, when reads return
nothing and writes are lost or raise SIGPIPE; streams that must stay aligned
without any check, and reads that may return less than a field; two result arrays
filled and sorted in different places; a table and a list that belong together by
position only; an enclave whose heap fills from request to request and whose calls
may fail unseen; a dynamic program with a shortcut; a line-oriented parser of an
index file.

Correct means: every client ends; the server is always free again; what a client
prints is the right answer unless the service was out; positions, distances and
table belong together; a heap that runs out does not make a search miss keywords of
a table that was whole; the index is what the file says, and the file what the
scripts had in memory.

### 1.2 Attribute-based encryption

| part | source | state | operations |
| --- | --- | --- | --- |
| LSSS | `other/LSSS.cpp` | share matrix `M`, names of its rows `rho` | `initialize`/`parseString`, `isSatisfy`, `findVector`, `generateShares`, `getValidSharesExt`, the destructor |
| utilities | `other/utilities.cpp` | none | `solve`, `Fetchrows`, `string2attribute_Set` |
| GWABE | `other/GWABE.cpp` | `mpk`, `msk`; the caller's key tuples, ciphertexts, transformed ciphertexts | `Setup`, `KeyGen`, `Encrypt`, `Transform`, `Decrypt` |
| driver | `test.cpp` | the objects of one round | a round of the five operations and a comparison, 20 times |

A policy such as `(A,(B,C,1),2)` becomes a matrix whose rows combine to
`(1, 0, ..., 0)` exactly for the sets of names that satisfy it; the combination is
found by elimination on a Gram matrix. An encryption hides a random `R`; the shares
of `s = H(R, ek)` let `Transform`, then `Decrypt`, recover `R`, from it `ek`, and
check both.

Hard here: a splitting loop that moves its own index and tests three overlapping
conditions; columns that must not be shared between gates; elimination that
overwrites the cells it computes from and passes over a column together with a
row; legal but unusual sequences of calls on objects that were used before; and a
ciphertext that points to an LSSS object it does not own.

Correct means: the matrix has the meaning of the policy; `isSatisfy` says so;
`Decrypt` returns what was encrypted, for the right keys only, or ends the program;
`main` finishes its rounds exactly when the policy admits the key.

## 2. Modules

| module | models | remarks |
| --- | --- | --- |
| `SSE` | clients, server, ECALLs, connections | one action per read, write, ECALL or loop iteration |
| `Search` | the promise to the user | abstract specification; `SSE!PromiseKept` is the refinement |
| `Framing` | one connection in bytes | one action per `read`; `SSE` with every field taken apart |
| `Enclave` | the enclave over its life | heap, bridges, failures, the server that does not look |
| `Gcm` | authenticated encryption | symbolic |
| `Dataset` | `data_1.py`, `data_2.py` | extends `Index`: the scripts, then the server that reads |
| `Index` | `readFile`, `initialzie` | its last state is `SSE`'s first |
| `EditDistance` | `calculateEditDistance` | one action per loop iteration |
| `Alignment` | Levenshtein distance | reference definition: the cheapest alignment of two words |
| `LSSS` | `initialize`, `parseString` | one action per turn of the splitting loop |
| `PolicyTrees` | what a policy means | reference definition, recursive |
| `Field` | the group Zr: inverses, sums of products | under `Solve` and `GWABE` |
| `Solve` | `solve` over Zr | one action per cell |
| `Solutions` | a call of `solve` | `Solve` with the system of the call remembered, and the solutions of a system |
| `Access` | `isSatisfy`, `findVector` | joins `LSSS` and `Solve`; a library of steps for `Driver` |
| `GWABE` | the class: five operations | one operator per method, over exponents; no caller |
| `Calls` | any caller of `GWABE` | any order of calls, used objects, LSSS objects changed or destroyed |
| `Driver` | `main` of `test.cpp`, and a caller of `isSatisfy` | joins `Access` and `GWABE` |
| `MC*` | instances for TLC | |
| `*Proofs` | theorems | `SSEProofs`; `SessionProofs`, about `Framing` and `Enclave`; `IndexProofs`, `EditDistanceProofs`, `LSSSProofs`, `SolveProofs`, `CallsProofs`; `FieldProofs`: lemmas on remainders and sums of products for the last three |

Operators whose names end in the name of another and a slip (`EndGroupSkips`,
`ReplyEarly`, `otherRow`/`rowsBelow`) are variants with a plausible bug; no
specification uses them. `PROJECT.json` names the property each one breaks.

### 2.1 SSE

Variables keep the names of the code. `cpc[c]` is the call a client is about to
make, `spc` the step of the server's loop. `Connect`, `Send`, `ReadCount`,
`ReadHead`, `ReadSize`, `ReadNum` are the client's calls in the order of
`client.cpp`; `ReadFails` is end of file where a ciphertext was expected.
`Accept`, `ReadRequest`, `fetch_table`, `step_1`, `Lookup`, `step_3` (per number),
`Reply`, `WriteRecord` and `NextEpoch` are the server's loop. `Crash` and `Stop` are
the end of a client and of the server at any step.

* The consecutive writes of one record (length, bytes, tag) are one record here;
  `Framing` takes them apart.
* Writing to a peer that has closed may succeed and be lost or raise SIGPIPE, which
  neither program catches. What has been received stays readable after the other
  side closed. Linux keeps one connection more than `listen`'s argument.
* End of file leaves zero in the integer that was to be read. Where bytes were to be
  read the tag does not verify, and the client calls `exit(-1)`; the server goes on
  with what its buffer holds, which may be any word (`Plaintexts`).
* Every program encrypts with a fixed IV, so equal plaintexts under one key are equal
  ciphertexts: the server's lookup by ciphertext is one by value.
* Sorting by distance is not stable: ties come in any order.
* `Wide` are document numbers that are not eight digits long, which `step_3` drops.

### 2.2 Search

A client prints `N` answers; each is one of `Answers(word)`: the word's own line if it
is a keyword, otherwise the lines of the near keywords in an order of increasing
distance. `Outage` may happen only if the server may stop or a client that may crash
has failed. After it an answer may be cut short, and a client may fail or be refused.
The mapping: `asked` and `reports` are the same, `status` merges the client's program
counter, and `serving` says the server is not down.

### 2.3 Framing

One client and one server, and between them bytes. An integer is sent as its
digits, the lowest first; a byte of a ciphertext is known by its text and its place.
Each field is read by one `read`, of the size the code asks for. A *cut* is a read
that returns less than that although more is to come: what it did not take is read
as the beginning of the next field, and the unread part of an integer keeps the
zero it was initialised with. `MaxCuts` bounds the cuts. Closing a socket with
unread bytes resets the connection, so that what the peer has not read is lost.

Two variables are a history: `due` has the lines that answer what the client has
asked so far, and `misread` says that a request did not decrypt, so that the server
has answered whatever was in its buffer.

Without a cut the two programs agree on every field (`AlignedUnlessCut`). With
one, every line the client prints is still the beginning of a line of some word's
answer (`PrintedIsPrefix`): shifted bytes fail to verify and the client exits. The
answer need not be that to the word asked: after a request that was cut on its way
the server answers another word, and the client prints it, since nothing in the stream
says what is answered. Only if no request was misread are the lines a beginning of
those that are due, in their order. This is the limit of what holds: with two
cuts the client can print a line of no answer. If the size of a list is cut after its
first byte it becomes a smaller number that is not zero (in the code, a list of twelve
numbers has the size 288 = 256 + 32, whose first byte is 32, and 32 / 24 is one number
instead of twelve), and a second cut, in a count, shifts the rest by whole records, so
that a number is taken for a keyword and verifies.

### 2.4 Enclave

The state is the free heap, what is held by the bridge of the running call, the
filled part of `wordTable`, and what the server believes. Costs are constants per
kind of allocation. `fetch_table` takes a new keyword per entry at every request and
frees nothing; each ECALL's bridge copies its buffers for the time of the call. A
bridge that gets no memory returns an error. A `new`, a `malloc` or an
`EVP_CIPHER_CTX_new` that gets none ends the enclave (`Abort`), by an exception nobody
catches or through a null pointer, after which every call fails. What OpenSSL allocates
later in a decryption (`Enclave.cpp:147-164`, the longer IV for one) may fail with a
message only: `gcm_decrypt` then returns -1, and the caller logs it and goes on. So
`DecryptKeyword` may leave an entry as it was and take the next one, `Compare` may
compare what its buffer holds (`Found`), and `Reencrypt` may leave out the word or some
numbers (`result = "part"`). The vectors of `calculateEditDistance` are freed after each
comparison, but they must fit (`ComparisonFits`). The server ignores every status: after
a failed call it goes on with the old table, the old `location_len` or the zeroed
result (`stale`).

An entry that cannot be decrypted again keeps the keyword of an earlier request. So
once a heap has held the whole table, no search misses a keyword however little is left
later (`WholeTableSearched`): a property of the leak, for a `fetch_table` that freed the
old keywords first would break it. On a heap too small for the first table, one with gaps
is searched by an enclave that lives.

The sizes of the code: the bridge of `fetch_table` copies 10,000 entries, 240 kB;
each keyword leaks a heap chunk of about 32 bytes; `HeapMaxSize` is 16 MB. With
10,000 keywords the heap lasts for about 45 to 50 requests, that is ten sessions.

### 2.5 Index, Dataset and EditDistance

`Index` reads a file of lines (`word:`, number, bracket, blank) one line per step and
then encrypts the map entry by entry and number by number; the hash table's order is
any order. `Init` of `SSE` is the state after `listen`: a bijection from positions to
encrypted keywords with a non-empty list each. `ServiceMayStart` says that this is
what `Index` ends in, for every file.

`Dataset` puts the scripts in front: `data_1` draws up to `MaxAssigned` numbers for a
keyword, `data_2` assigns all documents, a keyword drawn twice is overwritten; then
the table is written, with its braces and brackets, and `Index` reads that file.

`EditDistance` fills the table cell by cell. `Filled(p, q)` says which cells are final.
What it returns is compared with `Alignment`, which knows no table: the least cost of
an alignment, a set of pairs of positions without crossings.

### 2.6 LSSS, Solve, Access

A text is a sequence of tokens: a name is one token, a threshold one digit.
`EndGroup`, `EndName` and `Take` are the three outcomes of one turn of the loop of
`parseString`; `PushParts` pads, appends the powers and pushes; `Reshape` ends
`initialize`. The stack, the counter and the vectors are the code's. Row vectors are
sequences of integers.

`Solve` copies the loops of `solve`, from right to left as the code has them, with
column and row exchange. `Solutions` calls it with the systems of `Given` and says what
for: the vectors that solve the system of the call. `Access` takes any set of names, makes the Gram system,
runs `Solve` and tests the answer as `isSatisfy` does; `findVector` is the same
without the test. The code computes products as doubles and then converts them: they
are integers far below 2^53 at these sizes.

### 2.7 GWABE, Calls, Driver

A group element is its exponent to a fixed base, so `element_mul` is a sum,
`element_pow_zn` and `pairing_apply` are products modulo the order. Each `Setup` draws
its own generator `g`. Random draws and hashes are functions of the call, with
arbitrary different values: an equation that holds by accident only is not
expected to hold. `KeyGen` into a used tuple keeps old components (`Kept`:
`emplace`), `Encrypt` into a used ciphertext appends its shares and the assertion
ends the program, `Transform` takes the rows of the policy the ciphertext points to,
and `Decrypt` may take the secret half of any tuple. Reading outside a vector, or
through a pointer to a destroyed object, is `undefined`. Records carry copies of the
ciphertext and key they came from (`from`, `tk`), of the policy that was read
(`under`), and the call that made them (`made`); only properties read these.

`Calls` is a caller that does anything the interface allows, with the LSSS objects too:
`Initialize` calls `initialize` once more, which clears nothing, so that the rows of
the new policy come behind the old ones, with zeros up to the new width; `Assign` puts
another object in its place; `Destroy` ends it. A ciphertext's pointer follows all of
these, and `Transform` may pair rows of one policy with vectors that were made for
another. It then reads outside the vectors, which is `undefined`, or makes an element
that need not be the one `Decrypt` looks for; `Decrypt` must
tell (`ReturnsWhatWasSealed`, `OnlyAdmitted`), and an honest key is promised success
only if the policy was the one it was sealed under (`HonestDecrypts`). Contents outside
`Policies`, rows of different widths among them, are left out: `generateShares` would
read past a shorter row.
`Driver` is `main`: fresh objects, then each call as a whole modelled operation, with
the policy parsed by `LSSS` and the weights computed by `Solve`. The attribute
string `(A,B,2)` gives its trailing number as one more attribute, as the code does.
A second program asks `isSatisfy` about the same attributes, which `main` never
calls. The policies of the driver are well-formed: those of `test.cpp:79-83` have no
threshold, so that the code cuts their last name (`A50` becomes `A`), reads 0 and
makes a matrix of ones, which any one of the names opens.

## 3. Runs

| run | states | question |
| --- | --- | --- |
| `edit_distance` | 29,044 | is the returned number the least number of edits |
| `search` | 9,576 | one client, every kind of word: is each answer the promised one, do the streams stay aligned |
| `faults` | 225,885 | a client and the server may end anywhere: do the others end, does the server get free, does the promise hold |
| `untrusted_plaintext` | violated | is a request that does not decrypt answered |
| `wide_number` | violated | is the announced count of numbers the count sent |
| `framing` | 49,261 | what do reads that return too little do to a session |
| `enclave` | 175,175 | five requests on heaps of every size: what is used after a call has failed |
| `index` | 187,875 | is the encrypted index what the file says, and the file what the scripts meant |
| `lsss` | 5,660 | is the matrix what the policy means, for every policy |
| `solve` | 13,342 | does elimination keep the solutions and solve regular systems |
| `driver` | 378,739 | parser, elimination and the five operations together: does `main` succeed exactly for admitted keys, and end |
| `gwabe` | 466,364 | what can any order of calls, and of changes to the policy behind a ciphertext, make `Decrypt` return |

Deadlock is checked everywhere but in `gwabe`, where a caller may stop whenever it
likes. The others have an explicit stuttering step for the state in which the
program has finished, and only there.

### Bounds

* Requests per connection (`N`, 5 in the code): 2, so that there is a first and a last
  one and a step between. Nothing else depends on the number.
* Accept queue (`Backlog`, 5): 0 with two clients in `faults`, so that it is full and
  a client is refused; 1 in `search`.
* Keywords: two or three in `search`, with words that match exactly with another
  keyword near, are at equal distance from two, near all, or near none; one in
  `faults`. Lists of one or two numbers. `MCSSE` asserts that its distances are those
  of its spellings.
* `framing`: two requests; an `int` of two digits to the base 4, a `size_t` of four, as
  an `int` is half a `size_t`; ciphertexts of one or two bytes in buffers of three; the
  size of a two-number list needs two digits, so that a cut may leave a wrong one. One
  cut anywhere: with two the property does not hold (2.3).
* `enclave`: a table of three, lists of up to two, heaps of every size from one that
  does not hold the first table (5) to one that serves four requests (83), so that
  memory runs out at every allocation of every call; the costs are small numbers chosen
  for that.
* Words for the edit distance: all of at most three letters over three letters.
* Index files: all of at most five lines over two keywords and two numbers, well-formed
  or not: a keyword twice with lists, lists without a keyword, missing brackets; and
  all files the scripts write after three draws of two keywords over two documents.
* Policies: all trees of gates over up to four names, with gates nested to
  depth three, thresholds up to four, so that some gates ask for more than they have. `Order` is 5 for the
  search over all combinations in `Spans`, more than any point used by a gate; 4001 in
  `driver`, a prime that divides no determinant of the systems, as the order of the
  real group does not. Two rounds of `main`, so that one follows another.
* Systems in `solve`: all of one and two equations over a field of three, singular and
  contradictory ones among them. Three and four equations occur in `driver`.
* `gwabe`: at most two calls of `Setup`, `KeyGen` and `Encrypt`, one of `Transform`, six
  of these altogether, any number of `Decrypt`, and one change of the LSSS object; two
  names, and the policies of the first, of the second, of either and of both, where
  that of either is what `initialize` makes of an object with the first and the text
  of the second; a string of full length and a short one. Two of each suffice to
  mix up keys, setups and ciphertexts. `Order` is 30011, so that products stay below
  2^31. Tuples and ciphertexts are interchangeable (symmetry); the checked properties
  are all safety.

### Fairness

`FairSpec` of `SSE` and `FramingSpec` of `Framing` assume weak fairness of the server's steps
and of each client's: both are straight-line processes that the operating system
runs when the call they are in can return. `Crash`, `Stop` and the cutting of a read
are not fair: nobody has to die. `LSSS` and `Driver` assume weak fairness of the one
program there is. `EveryClientEnds` needs the server to finish other sessions, and so
the other clients to go on or die.

### Findings

1. `untrusted_plaintext`: when a request does not decrypt, `step_1` logs it and goes on
   (`Enclave.cpp:316-326`), although the comment at `Enclave.cpp:179-180` says the
   plaintext is then not trustworthy. It happens when a client dies between two
   requests: the server computes and writes an answer for nobody.
2. `wide_number`: the server announces the size of a list (`server.cpp:483`), `step_3`
   drops every number that is not eight bytes long, and the client, which takes the
   announced value for "the number of index to be processed" (`client.cpp:135`), reads
   further than was written. The shipped data has eight-digit numbers only.

Without a line of the repository that says otherwise, and so no findings: a used
`Cipher` can never be encrypted into again, the assertion stops it; and the heap of
the enclave is used up after a number of requests (2.4).

## 4. Proofs

| theorem | what | assumes |
| --- | --- | --- |
| `SSETypeOK` | type correctness | the constants' assumptions of `SSE` |
| `SSEMatches` | `MatchesBelongTogether` | the same |
| `SSESearchSucceeds` | the server's "Failed Search!" exit is unreachable | the same |
| `SSEKeepsPromise` | `PromiseKept`: the service implements `Search` | the same, and eight-digit numbers (`Wide = {}`) |
| `SSEInSync`, `SSEHalfDuplex` | the streams stay aligned; no answer and request at once | the same |
| `EnclaveTypeOK`, `EnclaveWholeTableSearched`, `EnclaveServesWithinBudget` | heap accounting; once the heap holds the table, none with gaps is searched; within the budget no call fails | any costs, heap and words |
| `FramingBytesOK`, `FramingAlignedUnlessCut` | wherever reads are cut, counters and decoded values stay in range; without a cut client and server agree on every field and on every answer | no integer is too wide for its field (`WidthAssumption`), no text for its buffer (`TextAssumption`) |
| `IndexTypeOK`, `IndexPostings`, `IndexNeverEmpty`, `IndexListMatchesMap`, `IndexServiceMayStart` | the invariants of `Index` | any file of lines |
| `DatasetServed`, `DatasetReadsWhatWasWritten` | the same invariants on the files the scripts write; the server's map is the script's table, its lists increasing | at least one document, whose numbers are written in digits (`DocumentsAssumption`) |
| `EditDistanceReturnsLevenshtein` | the number returned is the least number of edits over all alignments | any words |
| `EditDistanceTypeOK`, `-Optimal`, `-Neighbours`, `-Bounds`, `-Zero` | the table's structure | any words |
| `LSSSTypeOK`, `LSSSRectangular` | the parser stays in its text; the matrix is one | any text of tokens |
| `LSSSSplitIsTopLevel`, `LSSSNamesInOrder` | a gate is cut exactly at its own commas; no name is lost, repeated or moved | the policies follow the grammar (`GrammarAssumption`) |
| `LSSSMatrixMeansPolicy` | the rows of a set of attributes combine to (1, 0, ..., 0) exactly if the policy admits the set | the same; what a policy admits is defined gate by gate (`AcceptsAssumption`); Zr is a field with a point for each part of a gate (`FieldAssumption`) |
| `SolveTypeOK`, `SolveEchelon`, `SolveUnitColumns` | no division by zero; cleared columns stay cleared; pivots end as unit columns | every non-zero element of Zr has an inverse |
| `SolveKeepsSolutions`, `SolveReturnsTheSolution` | elimination keeps the solutions of the system; `solve` returns the solution of a system that has exactly one | the same, any systems |
| `CallsHonestDecrypts` | the scheme is correct: a key of the ciphertext's `Setup` with admitted attributes opens it, whatever was called before and whatever became of the LSSS objects, if `Transform` read the ciphertext's policy | the constants' assumptions of `Calls` (below) |
| `CallsTypeOK`, `CallsWriteOnce` | type correctness; a ciphertext is written once | the same |

Each proof has an inductive invariant (`IInv`; in `SSEProofs` also `Inv` on top of it)
and one step per action. The invariants a run does not list (`NeighboursClose`, `ZeroIffEqual`,
`Bounds`, `NeverEmpty`, `ListMatchesMap`, `Echelon`) are proved for every value of the
constants, and the runs check properties that rest on them.

* `SSE`: types do not say that `location[idx + 1]` exists, that the list read by
  `step_3` is the one that was looked up, or that the table in the enclave is that of
  the current list. `CountersOK`, `ConnOK`, `TableOK`, `ResultOK` and `RequestOK` do,
  relating the loop counters to the arrays in every phase. The hard step is `step_1`:
  whatever order the sort leaves, position and distance of one index are of one word,
  also on an exact match, where one array is longer than the other.
* `SSE`, the promise: that every step of `SSE` is a step of `Search` or a stutter needs an
  invariant about what is under way, for a client prints what it reads much later
  than the server computes it. The client is an automaton over records (`After`).
  `Record(a, x)` is the record of answer `a` a client in state `x` should get next, and
  `Printed(a, x)` the lines it has printed by then; `Reads(a, x, s, y)` says that the
  whole stream `s` consists of these records and leads from `x` to `y`. `Synced(c)` says
  that for some answer `a` the lines of `c` are `Printed` (`Told`), that it `Reads` all
  that is under way and all that the server is about to write, and ends where the
  server's loop counters expect it (`Awaits`), with as many answers as the epoch counter
  says (`Total`, `Expected`); and while the server makes an answer, that one is `a`
  (`Making`), which is one of `Search`'s `Answers` to the word the client sent. A
  write appends to the path, a read takes its first step away, the end of the server
  leaves a prefix. `LinkOK` says that a connection is queued once or served;
  `Standing` who has stopped and why: a client of a running server never fails of its
  own, which is why only a killed one can end the server (`WriteRecordKeeps`), and the
  queue holds clients that wait or were killed, which is why a client is refused with
  reason (`QueueFacts`). The step that computes an answer (`MakingAnswers`) needs that
  the enclave's table is the keyword list, each keyword once (`TableFacts`), and that
  what the sort leaves is one of the rankings of `Search` (`SortedIsRanking`). The end
  of file gives the shortened answers: a size that is missing is taken for zero
  (`SizePrints`). That every number is sent is used in one step, `Step3Sync`; the run
  `wide_number` shows it is needed. `InSync` and `HalfDuplex` follow from the same
  invariant.
* `Framing`: the property looks at the first field only, which a single write of the wrong
  size would shift much later; so the invariant speaks of all bytes under way and to
  come. `SessionOK` (what holds with cuts as well) bounds the counters and says what a
  field that was received is made of. `Sync` says that, if nothing was cut, the
  session is in one of three places: nothing under way (`Resting`), the fields of the
  request under way, or received in part (`Requesting`), or the answer under way
  (`Answering`). There the bytes that have arrived and those the server is about to
  write, put together, are whole fields, and these are the ones the reader's state
  asks for: before an entry (`BeforeEntries`), or in an entry at its word or
  at its numbers (`InEntry`), with as many numbers and lines to come as its
  counters say. `Carries` is this relation between bytes and fields. A write moves bytes
  from one part to the other; a read that is not cut takes exactly the first field
  (`ResultsWhole`). That an integer comes back as it was sent (`Value` of its digits,
  by induction on the digits) needs that it fits its field; the value the client divides
  to get the number of documents (`Announced`) is one of these.
* `Enclave`: on a heap that holds the table once, a table with gaps is the first and its
  `fetch_table` is still running, with all entries below the loop counter filled and
  nothing else taken from the heap (`TableOK`): no decryption has failed yet. The budget
  of a request is added up call by call.
* `EditDistance`: optimality of the shortcut needs that neighbours differ by at most
  one, which in turn follows from the recurrence: both are proved together, for the
  cells `Filled`. That the result is the Levenshtein distance is an invariant too: each
  filled cell is the cost of some alignment of the two prefixes (one is made by
  adding a pair, or nothing, to an alignment of a neighbour) and no alignment is
  cheaper (taking its last pair, or its last letter, away leaves one of a neighbour).
* `Index`: the posting list of a keyword is defined by the lines of the file without
  the parser's state; `CurrentIsOpen` says that the current keyword is the one the
  next number belongs to. `ListIsVisited`, `InEntry` and `Encrypted` describe the loop
  half way through an entry.
* `Dataset`: the invariant `DInv` adds what the file looks like, `Written`, to that of
  `Index`, and that table and list of keys keep in step (`TableOK`). The flattened
  entries are laid out one after the other (`FlatteningLaidOut`, by induction on the
  number of keywords), so entry `n` begins after some offset `o[n]` with its keyword and
  ends with its bracket, and no other line is a keyword (`EntriesAt`). The lines with the
  numbers of keyword `n` are then the interval between the two (`NumbersAre`: the
  closing bracket is not a number, so nothing after it is under the keyword, and a key
  that stands once opens once), the brace lines are under no keyword, and
  `PostingsAsWritten` makes the list read that of the table (`ListIsRead`). That
  `sorted(set(files))` exists is `InOrder`: a finite set of numbers can be put in order.
* `LSSS`: a vector never exceeds the counter, because the gate in work was counted
  before its parts were pushed; thresholds are positive, which `Threshold` adds.
  The loop that cuts a gate looks at one character and the next, counts brackets and
  skips what follows a part, so what it leaves is right only if the text is one of the
  grammar: tokens follow each other as in `(A,(B,C,1),2)` and brackets match
  (`GrammarAssumption`: the form `parseString` reads; that `test.cpp` gives it policies
  without a threshold is told in 2.7).
  `Cut` says what holds in the middle: the parts collected and the commas between
  them are the text read so far, all of them are names or groups (`IsPart`), and what
  has been collected since is a beginning of one with `ct` brackets open. `SplitsTexts`
  says that everything on the stack is a policy or a part of one again, which is what
  the next turn needs (`PartIsText`, `GateInner`). The names on the stack, read from
  its top, are those still to come: a name popped is the first of them
  (`WaitingPop`), and parts pushed in reverse give the names of the gate
  (`WaitingPush`), by `SplitEnd`.
* `LSSS`, the meaning of the matrix: while `initialize` runs there are vectors that are
  not rows yet, so the invariant speaks of all of them (`Meaning`). For every set of
  attributes, take the rows of its names, the vectors waiting with a text that admits
  it, and that of the gate in work if the gate does (`Live`). If the policy admits the
  set they combine to `(1, 0, ..., 0)` (`TargetSpanned`); if not, some vector `u` with
  `u[1] = 1` is orthogonal to all of them (`TargetMissed`). The negative half has to be
  the existence of `u`: "no combination" would not survive the push of a gate. A name
  moves from the stack to the rows and nothing changes (`LeafDecides`). When a gate with
  threshold `t` becomes its parts, part `j` gets the gate's vector and the powers
  `j, ..., j^(t-1)` in new columns. With at least `t` parts that admit the set there are
  weights of these that sum to one and cancel the powers (`Interpolation`, by
  induction on the points), so the parts take over the weight of the gate (`ShareWeight`,
  `PushSpans`). With fewer there is a polynomial with any given constant term
  that vanishes at their points (`Vanishing`), and its coefficients continue `u` into
  the new columns (`HideParts`, `PushMisses`). `PartsCount` ties the vectors that were
  pushed to the parts of the gate, in reverse order, and says that the points are
  different modulo `Order`. At the end the stack is empty, and a set whose rows are
  orthogonal to `u` does not combine to `(1, 0, ..., 0)` (`NotSpannedIf`). This is the
  property by which `CallsHonestDecrypts` takes the weights of admitted attributes for
  granted, and by which no weights exist for the others.
* `Solve`: half way through a row the pivot is still undivided and half way through
  elimination some rows are done: `InWork`. That the pivot is divided last is what
  makes the next reads of it right. The solutions are those of the given system not
  only between two columns but at every cell, if one looks at the matrix as it will
  be once the row in work is done (`Completed`): writing a cell does not change that
  matrix at all, since the cells still to come are computed from cells not yet
  written, and beginning a row changes it by one row operation. So right-to-left is
  used in the two steps where a cell is written, algebra in the two where a row
  begins (`PivotSolves`, `ReduceSolves`). A scalar product is a recursive function;
  that it is linear in a row (`CombineRows`) is proved on its partial sums. A column that was
  passed over (`Skipped`) gives a vector that every row sends to zero (`Kernel`), so a
  system with one solution has none, and its matrix ends as the unit matrix.
* `Calls`: `HonestDecrypts` speaks of the last step of a scheme, so the invariant has to
  say of every object what it is made of. `Key(k, p, n)`, `Sealed(c, p, n)` and
  `Transformed(x, p, n)` give the components of a key, a ciphertext and a transformed
  ciphertext as functions of the call that made them and, if there was no `Setup`
  since, of the parameters `p` (`Later`: the next call and the next `Setup` leave this
  true). `Sealed` says too that the three vectors are as long as the matrix the
  ciphertext was sealed with, and from this comes `CallsWriteOnce`: shares appended to
  a used vector can never be as many as the new policy has rows, so the assertion in
  `Encrypt` stops them. Of the object behind the ciphertext's pointer nothing is known
  but that it holds some policy or none, so `Transformed` says two things: whatever
  policy was read, the result is an element of the group (`DenominatorType`), and if it
  was the one of the ciphertext (`under`), it is the one the algebra needs.
  The rest is the algebra of the scheme. In one row of the denominator what was drawn
  for the row cancels (`Cancels`), which needs that the key's component was made with
  the rest of the key, the hypothesis `MadeTogether` of the property. So the
  denominator is a multiple of the sum of the shares by their weights
  (`DenominatorOpens`), that sum is the secret (`SharesRecombine`: the weights put the
  rows together to `(1, 0, ..., 0)`, and the order of two sums may be exchanged,
  `ProductOfRowSum`), the part of the key with `b` cancels (`Opens`), and so `Decrypt`
  finds the `R`, the string and the secret of `Encrypt` (`HonestMatches`).
  What is assumed of the constants: a policy has one name per row, and rows of one
  width (what `initialize` makes; `LSSSRectangular`). What is drawn and hashed is an
  element of Zr (`element_random`, `element_from_hash`), and `r_2` of `KeyGen`
  has an inverse: only zero has none, which the code does not exclude but which is
  drawn from a group of 160 bits once in 2^160. `findVector` returns a weight for every row of
  the attributes (`LSSS.cpp:541-544`), and for admitted attributes weights that put
  those rows together to `(1, 0, ..., 0)`; this is what `isSatisfy` tests, and the run
  `driver` checks it for its policies (`IsSatisfyIsPolicy`). Nothing is assumed of
  different values being different.

Induction: the library's induction theorems take a predicate as a parameter, which the
provers cannot instantiate, but `NatLessThanWellFounded` and `WFMin` give a least
element of a set of numbers and so induction for sets (`Induction` in `FieldProofs`).

TLC alone covers: liveness (`EveryClientEnds`, `SessionEnds`, `BothEnd`, `Ends`,
whose proof needs `ENABLED`); `IsSatisfyIsPolicy`, which goes through the Gram matrix of
the rows, and over a finite field that matrix may lose rank where the rows do not;
`FreeRowsVanish`, which Gram matrices of rationals have and those over Zr may miss;
`MainOpensIffAdmitted`, which rests on these two; `PrintedIsPrefix`, which holds for one
cut and not for two (2.3), so that no invariant for every `MaxCuts` gives it; and
what `Decrypt` never returns (`ReturnsWhatWasSealed`, `OnlyAdmitted`), which rests on
equations between drawn and hashed values that do not hold by accident.

## 5. Not modelled

* The vendored libraries: nearly all of the repository's lines are headers of the SGX
  SDK, SGXSSL, OpenSSL and PBC. They are modelled from their use; the programs of the
  repository itself are a few thousand lines, and the map covers their logic.
* Memory layout: writes past the end of an object. The result arrays hold 200 and 500
  entries (in the shipped data no word has more than 187 near keywords), and
  `new unsigned char(len)` in `fetch_table` is one byte with the value `len`.
  Fragmentation of the enclave's heap.
* More than one cut read per session, where `PrintedIsPrefix` no longer holds (2.3).
* The server's garbage request with a garbage length, beyond its word being arbitrary.
* Thresholds of two digits and gates without a threshold: `parseString` takes the last
  character, so `10` reads as 0.
* The widths of `int` and `double` in the share matrix and its products.
* Functions nothing calls (`satisfy`, `getValidShares`, `compare_serl_deserl`,
  `Index::query`, `solve` over doubles), output, timing, and the start of the enclave.

## 6. Plan

Done: everything in the table of section 2. To come, most important first:

1. Names as sequences of characters in `LSSS`, for thresholds of any number of digits.
2. `Framing` with the enclave's failures: what a client reads after a failed ECALL.
