-------------------------------- MODULE LSSS --------------------------------
(***************************************************************************)
(* LSSS::initialize and LSSS::parseString of CP-ABE/other/LSSS.cpp: an     *)
(* access policy such as (A,(B,C,1),2), a threshold gate over names and    *)
(* gates, is turned into the share matrix M, whose row k belongs to the    *)
(* name rho[k].  A stack holds the parts of the policy that are still to   *)
(* be expanded, each with the row vector its gate has given it.            *)
(*                                                                         *)
(* A text is a sequence of tokens: a name is one token, a threshold is one *)
(* digit, blanks are gone (trim).  Positions count from 1.                 *)
(***************************************************************************)
EXTENDS Field, Sequences, SequencesExt

CONSTANTS
  Attribute,      \* the names of attributes
  Policies,       \* the policies, sequences of tokens
  Accepts(_, _)   \* Accepts(p, S): policy p is meant to admit the attributes S

Digit == <<"1", "2", "3", "4", "5", "6", "7", "8", "9">>
Token == Attribute \cup Range(Digit) \cup {"(", ")", ","}

ASSUME PoliciesAssumption == Policies \subseteq Seq(Token) \ {<<>>}

VARIABLES
  policy,     \* the argument of initialize
  M, rho,     \* the share matrix and the names of its rows
  stk,        \* pairs of a row vector and a text
  counter,    \* the columns used so far
  top,        \* the gate parseString works on, with its vector
  d,          \* the threshold of that gate
  at,         \* the position the splitting loop has reached
  ct,         \* how deep in brackets that position is
  substr,     \* the part being collected
  substrvec,  \* the parts collected
  pc          \* "loop" of initialize, "split" of parseString, "done" or "abort"

vars == <<policy, M, rho, stk, counter, top, d, at, ct, substr, substrvec, pc>>
splitVars == <<at, ct, substr, substrvec>>

Pair(vec, text) == [vec |-> vec, text |-> text]

\* v followed by the zeros that bring it to n entries.
Padded(v, n) ==
  [c \in 1..(IF Len(v) < n THEN n ELSE Len(v)) |-> IF c <= Len(v) THEN v[c] ELSE 0]

\* x^n, multiplied up.
Power(x, n) ==
  LET prod[t \in 0..n] == IF t = 0 THEN 1 ELSE prod[t - 1] * x
  IN  prod[n]

\* v followed by x, x^2, ..., x^(t - 1).
WithPowers(v, x, t) ==
  [c \in 1..(Len(v) + t - 1) |-> IF c <= Len(v) THEN v[c] ELSE Power(x, c - Len(v))]

Init ==
  /\ policy \in Policies
  /\ M = <<>> /\ rho = <<>>
  /\ stk = <<Pair(<<1>>, policy)>>
  /\ counter = 1
  /\ top = Pair(<<>>, <<>>)
  /\ d = 0
  /\ at = 1 /\ ct = 0 /\ substr = <<>> /\ substrvec = <<>>
  /\ pc = "loop"

\* A name: its vector becomes a row.
Leaf ==
  /\ pc = "loop"
  /\ stk # <<>>
  /\ Last(stk).text[1] # "("
  /\ stk' = Front(stk)
  /\ M' = Append(M, Last(stk).vec)
  /\ rho' = Append(rho, Last(stk).text)
  /\ UNCHANGED <<policy, counter, top, d, splitVars, pc>>

\* A gate loses its brackets, its threshold and the comma before that.
Gate ==
  /\ pc = "loop"
  /\ stk # <<>>
  /\ Last(stk).text[1] = "("
  /\ LET gate == Last(stk).text IN
       /\ top' = Pair(Last(stk).vec, SubSeq(gate, 2, Len(gate) - 3))
       /\ \E n \in DOMAIN Digit : Digit[n] = gate[Len(gate) - 1] /\ d' = n
  /\ stk' = Front(stk)
  /\ at' = 1 /\ ct' = 0 /\ substr' = <<>> /\ substrvec' = <<>>
  /\ pc' = "split"
  /\ UNCHANGED <<policy, M, rho, counter>>

text == top.text
depth == ct + (CASE text[at] = "(" -> 1 [] text[at] = ")" -> -1 [] OTHER -> 0)
taken == Append(substr, text[at])
NextIs(c) == at < Len(text) /\ text[at + 1] = c

Splitting == pc = "split" /\ at <= Len(text)
splitRest == <<policy, M, rho, stk, counter, top, d, pc>>

\* Mutant: the character after the separator is lost as well.
EndGroupSkips ==
  /\ Splitting
  /\ depth = 0 /\ text[at] = ")"
  /\ substrvec' = Append(substrvec, taken)
  /\ substr' = <<>> /\ ct' = 0
  /\ at' = at + 3
  /\ UNCHANGED splitRest

\* The bracket that closes a part; what follows it is skipped, and a second
\* bracket there would end an empty part.
EndGroup ==
  /\ Splitting
  /\ depth = 0 /\ text[at] = ")"
  /\ substrvec' = Append(substrvec, taken) \o (IF NextIs(")") THEN <<<<>>>> ELSE <<>>)
  /\ substr' = <<>> /\ ct' = 0
  /\ at' = at + (IF NextIs(")") THEN 3 ELSE 2)
  /\ UNCHANGED splitRest

\* Mutant: a comma inside brackets separates parts too.
EndNameAnywhere ==
  /\ Splitting
  /\ ~ (depth = 0 /\ text[at] = ")")
  /\ NextIs(",")
  /\ substrvec' = Append(substrvec, taken)
  /\ substr' = <<>> /\ ct' = depth
  /\ at' = at + 2
  /\ UNCHANGED splitRest

\* The last token before a comma outside brackets.
EndName ==
  /\ Splitting
  /\ depth = 0 /\ text[at] # ")" /\ NextIs(",")
  /\ substrvec' = Append(substrvec, taken)
  /\ substr' = <<>> /\ ct' = depth
  /\ at' = at + 2
  /\ UNCHANGED splitRest

Take ==
  /\ Splitting
  /\ ~ (depth = 0 /\ (text[at] = ")" \/ NextIs(",")))
  /\ substr' = taken /\ ct' = depth
  /\ at' = at + 1
  /\ UNCHANGED <<splitRest, substrvec>>

\* Mutant: what is collected after the last separator is forgotten.
PartsSeparated == substrvec

Parts == IF substr = <<>> THEN substrvec ELSE Append(substrvec, substr)

\* assert(d <= n) fails.
Abort ==
  /\ pc = "split" /\ at > Len(text)
  /\ d > Len(Parts)
  /\ pc' = "abort"
  /\ UNCHANGED <<policy, M, rho, stk, counter, top, d, splitVars>>

\* Mutants: the gate's own columns do not begin after those in use; the first
\* part ends up at the bottom; the gate's columns are not counted.
PushPartsNoZeros ==
  /\ pc = "split" /\ at > Len(text)
  /\ d <= Len(Parts)
  /\ stk' = stk \o Reverse([x \in DOMAIN Parts |-> Pair(WithPowers(top.vec, x, d), Parts[x])])
  /\ counter' = counter + d - 1
  /\ pc' = "loop"
  /\ UNCHANGED <<policy, M, rho, top, d, splitVars>>

PushPartsForward ==
  /\ pc = "split" /\ at > Len(text)
  /\ d <= Len(Parts)
  /\ LET vec == Padded(top.vec, counter) IN
       stk' = stk \o [x \in DOMAIN Parts |-> Pair(WithPowers(vec, x, d), Parts[x])]
  /\ counter' = counter + d - 1
  /\ pc' = "loop"
  /\ UNCHANGED <<policy, M, rho, top, d, splitVars>>

PushPartsUncounted ==
  /\ pc = "split" /\ at > Len(text)
  /\ d <= Len(Parts)
  /\ LET vec == Padded(top.vec, counter) IN
       stk' = stk \o Reverse([x \in DOMAIN Parts |-> Pair(WithPowers(vec, x, d), Parts[x])])
  /\ pc' = "loop"
  /\ UNCHANGED <<policy, M, rho, counter, top, d, splitVars>>

\* The parts go on the stack, the first on top, each with its own point of the
\* gate's polynomial in d - 1 columns that no other gate uses.
PushParts ==
  /\ pc = "split" /\ at > Len(text)
  /\ d <= Len(Parts)
  /\ LET vec == Padded(top.vec, counter) IN
       stk' = stk \o Reverse([x \in DOMAIN Parts |-> Pair(WithPowers(vec, x, d), Parts[x])])
  /\ counter' = counter + d - 1
  /\ pc' = "loop"
  /\ UNCHANGED <<policy, M, rho, top, d, splitVars>>

Reshape ==
  /\ pc = "loop"
  /\ stk = <<>>
  /\ M' = [r \in DOMAIN M |-> Padded(M[r], counter)]
  /\ pc' = "done"
  /\ UNCHANGED <<policy, rho, stk, counter, top, d, splitVars>>

Finished == pc \in {"done", "abort"} /\ UNCHANGED vars

Step == Leaf \/ Gate \/ EndGroup \/ EndName \/ Take \/ Abort \/ PushParts \/ Reshape
Next == Step \/ Finished

Spec == Init /\ [][Next]_vars /\ WF_vars(Step)

-----------------------------------------------------------------------------
(* Fetchrows of utilities.cpp.                                             *)

Rows(S) == {r \in DOMAIN rho : rho[r][1] \in S}

-----------------------------------------------------------------------------
(* Properties.                                                             *)

IsSequence(v) == v \in Seq(Range(v))
IsPair(p) == IsSequence(p.vec) /\ p.text \in Seq(Token)

TypeOK ==
  /\ policy \in Policies
  /\ IsSequence(M) /\ \A r \in DOMAIN M : IsSequence(M[r])
  /\ rho \in Seq(Seq(Token))
  /\ IsSequence(stk) /\ \A s \in DOMAIN stk : IsPair(stk[s])
  /\ counter \in Nat \ {0}
  /\ IsPair(top)
  /\ d \in 0..9
  /\ at \in 1..(Len(text) + 2) /\ ct \in Int
  /\ substr \in Seq(Token) /\ substrvec \in Seq(Seq(Token))
  /\ pc \in {"loop", "split", "done", "abort"}

Opened(s) ==
  Cardinality({k \in DOMAIN s : s[k] = "("}) - Cardinality({k \in DOMAIN s : s[k] = ")"})

\* A name, or a group whose first bracket is closed by its last.
IsPart(s) ==
  \/ Len(s) = 1 /\ s[1] \in Attribute
  \/ /\ Len(s) > 1 /\ Opened(s) = 0
     /\ \A k \in 1..(Len(s) - 1) : Opened(SubSeq(s, 1, k)) > 0

\* A group is a bracket, its parts with a comma after each, a digit, a bracket.
MayFollow(a, b) ==
  \/ a \in {"(", ","} /\ b \in Attribute \cup {"("}
  \/ a \in Attribute \cup {")"} /\ b = ","
  \/ a = "," /\ b \in Range(Digit)
  \/ a \in Range(Digit) /\ b = ")"

\* The policies are written that way.
ASSUME GrammarAssumption ==
  /\ Attribute \cap (Range(Digit) \cup {"(", ")", ","}) = {}
  /\ \A p \in Policies :
       IsPart(p) /\ \A k \in 1..(Len(p) - 1) : MayFollow(p[k], p[k + 1])

Stretches(p) == {SubSeq(p, a, b) : a, b \in DOMAIN p}

\* The policies, and the gates and names in them.
Texts == {s \in UNION {Stretches(p) : p \in Policies} : IsPart(s)}

\* Where the parts of a gate begin and end: inside its bracket and no other.
PartsOf(s) ==
  {p \in (DOMAIN s) \X (DOMAIN s) :
     Opened(SubSeq(s, 1, p[1] - 1)) = 1 /\ IsPart(SubSeq(s, p[1], p[2]))}

\* A name admits those who have it, a gate those whom as many of its parts admit
\* as its threshold says.
ASSUME AcceptsAssumption ==
  \A s \in Texts :
    LET parts == PartsOf(s) IN
      \A S \in SUBSET Attribute :
        IF Len(s) = 1
        THEN Accepts(s, S) <=> s[1] \in S
        ELSE \A n \in DOMAIN Digit : Digit[n] = s[Len(s) - 1] =>
               (Accepts(s, S) <=>
                  Cardinality({p \in parts : Accepts(SubSeq(s, p[1], p[2]), S)}) >= n)

\* Zr is a field with a point other than zero for each part of a gate.
ASSUME FieldAssumption ==
  /\ \A y \in 1..(Order - 1) : \E z \in 1..(Order - 1) : (y * z) % Order = 1
  /\ \A s \in Texts : Cardinality(PartsOf(s)) < Order

\* Parts with commas between them.
Joined(parts) ==
  FlattenSeq([k \in DOMAIN parts |-> IF k = 1 THEN parts[k] ELSE <<",">> \o parts[k]])

\* When the loop over the characters ends it has cut the gate exactly at the
\* commas outside brackets (LSSS.cpp:48-79).
SplitIsTopLevel ==
  pc = "split" /\ at > Len(text) =>
    /\ \A k \in DOMAIN Parts : IsPart(Parts[k])
    /\ text = Joined(Parts)

Names(s) == FlattenSeq([k \in DOMAIN s |-> IF s[k] \in Attribute THEN <<s[k]>> ELSE <<>>])

\* No name is lost, repeated or moved: the rows, what the splitting loop holds
\* and the stack from its top spell the names of the policy in their order,
\* which is why row k of M and rho[k] agree for all who parse the same text.
NamesInOrder ==
  pc # "abort" =>
    Names(policy) =
      FlattenSeq(rho)
        \o (IF pc = "split"
            THEN Names(FlattenSeq(substrvec) \o substr \o SubSeq(text, at, Len(text)))
            ELSE <<>>)
        \o Names(FlattenSeq(Reverse([k \in DOMAIN stk |-> stk[k].text])))

\* No vector is ever longer than the columns counted, so that reshape (LSSS.cpp
\* :127-131) leaves a matrix of that width, with one name per row.
Rectangular ==
  /\ Len(M) = Len(rho)
  /\ \A r \in DOMAIN M : Len(M[r]) <= counter
  /\ \A k \in DOMAIN stk : Len(stk[k].vec) <= counter
  /\ pc = "split" => Len(top.vec) <= counter
  /\ pc = "done" => \A r \in DOMAIN M : Len(M[r]) = counter

Spans(S) ==
  \E w \in [Rows(S) -> Zr] :
    LET weight == [r \in DOMAIN M |-> IF r \in Rows(S) THEN w[r] ELSE 0] IN
      \A c \in 1..counter :
        Product(weight, [r \in DOMAIN M |-> M[r][c]], Len(M)) = (IF c = 1 THEN 1 ELSE 0)

\* The rows of a set of attributes combine to (1, 0, ..., 0), the vector that
\* recovers the secret, exactly if the policy admits the set: gates share no
\* column, and no set of too few parts can make up for it.
MatrixMeansPolicy ==
  pc = "done" => \A S \in SUBSET Attribute : Spans(S) <=> Accepts(policy, S)

\* A policy somebody can satisfy becomes a matrix: the assertion d <= n of
\* parseString (LSSS.cpp:83) stops only the others.
Parses ==
  Accepts(policy, Attribute) ~> pc = "done"
=============================================================================
