------------------------------- MODULE Search -------------------------------
(***************************************************************************)
(* What the search service promises its users, without connections,        *)
(* ciphertexts or a protocol: a client asks one word N times and each time *)
(* prints a correct answer.  An exact keyword is answered by its own line, *)
(* any other word by the lines of all keywords within the threshold, the   *)
(* nearest first.  The promise is void for what is printed after an        *)
(* outage, and only a failure of a process causes one.                     *)
(***************************************************************************)
EXTENDS Naturals, Sequences, FiniteSets, Functions

CONSTANTS Client, Keyword, Word, DocId, Docs, Dist, N, Backlog, CanCrash, ServerMayStop

Threshold == 2

VARIABLES asked,     \* the word of each client
          reports,   \* the answers each client has printed
          status,    \* "asking", "done", "refused" or "failed"
          serving    \* FALSE after an outage

vars == <<asked, reports, status, serving>>

Line(w, k) == [distance |-> Dist[<<w, k>>], word |-> k, docs |-> Docs[k]]

Near(w) == {k \in Keyword : Dist[<<w, k>>] <= Threshold}

\* The near keywords in order of distance; ties in any order.
Rankings(w) ==
  {s \in UNION {Bijection(1..len, Near(w)) : len \in 0..Cardinality(Keyword)} :
     \A a, b \in DOMAIN s : a < b => Dist[<<w, s[a]>>] <= Dist[<<w, s[b]>>]}

Answers(w) ==
  IF w \in Keyword
  THEN {<<Line(w, w)>>}
  ELSE {[k \in DOMAIN s |-> Line(w, s[k])] : s \in Rankings(w)}

\* What a client may print when the connection ends under it: nothing, or the
\* right lines with the last one cut short.
CutShort(w) ==
  {<<>>} \cup {[a EXCEPT ![Len(a)].docs = <<>>] : a \in Answers(w) \ {<<>>}}

Init ==
  /\ asked \in [Client -> Word]
  /\ reports = [c \in Client |-> <<>>]
  /\ status = [c \in Client |-> "asking"]
  /\ serving = TRUE

Report(c, answer) ==
  /\ status[c] = "asking"
  /\ reports' = [reports EXCEPT ![c] = Append(@, answer)]
  /\ status' = [status EXCEPT ![c] = IF Len(reports[c]) + 1 = N THEN "done" ELSE "asking"]
  /\ UNCHANGED <<asked, serving>>

Answer(c) == \E a \in Answers(asked[c]) : Report(c, a)

AnswerAfterOutage(c) == ~serving /\ \E a \in CutShort(asked[c]) : Report(c, a)

Leave(c, how) ==
  /\ status[c] = "asking"
  /\ status' = [status EXCEPT ![c] = how]
  /\ UNCHANGED <<asked, reports, serving>>

\* A client dies of its own, or because the service is out.
Fail(c) == (c \in CanCrash \/ ~serving) /\ Leave(c, "failed")

\* A client that has not been answered yet is turned away when the service is
\* out or enough others are waiting.
Refuse(c) ==
  /\ reports[c] = <<>>
  /\ \/ ~serving
     \/ Cardinality({d \in Client \ {c} : status[d] \in {"asking", "failed"}}) > Backlog
  /\ Leave(c, "refused")

\* Only the end of the server process, or the failure of a client it was
\* talking to, causes an outage.
Outage ==
  /\ serving
  /\ ServerMayStop \/ \E c \in CanCrash : status[c] = "failed"
  /\ serving' = FALSE
  /\ UNCHANGED <<asked, reports, status>>

Next ==
  \/ Outage
  \/ \E c \in Client : Answer(c) \/ AnswerAfterOutage(c) \/ Fail(c) \/ Refuse(c)

Spec == Init /\ [][Next]_vars
=============================================================================
