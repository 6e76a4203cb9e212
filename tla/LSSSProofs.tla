----------------------------- MODULE LSSSProofs -----------------------------
(***************************************************************************)
(* For every policy of the grammar, parseString cuts a gate exactly at the *)
(* commas outside brackets and initialize keeps the names in their order;  *)
(* the share matrix is as wide as the columns counted, with one name per   *)
(* row, and a set of attributes spans (1, 0, ..., 0) exactly if the policy *)
(* admits it.                                                              *)
(***************************************************************************)
EXTENDS LSSS, FieldProofs, SequenceTheorems, FiniteSetTheorems

-----------------------------------------------------------------------------
(* FlattenSeq.                                                             *)

\* The first n sequences of ss put together, one after the other.
Flattening(f, ss, n) == f = [i \in 1..n |-> IF i = 1 THEN ss[i] ELSE f[i - 1] \o ss[i]]

\* There is such a function: by induction on n.
LEMMA FlatteningExists ==
  ASSUME NEW S, NEW n \in Nat, NEW ss, \A i \in 1..n : ss[i] \in Seq(S)
  PROVE  \E f : Flattening(f, ss, n) /\ \A i \in 1..n : f[i] \in Seq(S)
<1> DEFINE Q == {m \in Nat : m <= n =>
                   \E f : Flattening(f, ss, m) /\ \A i \in 1..m : f[i] \in Seq(S)}
<1>1. 0 \in Q
  <2>1. Flattening([i \in {} |-> 0], ss, 0)
    BY DEF Flattening
  <2> QED
    BY <2>1
<1>2. ASSUME NEW m \in Nat, m \in Q PROVE m + 1 \in Q
  <2> SUFFICES ASSUME m + 1 <= n
               PROVE  \E f : Flattening(f, ss, m + 1) /\ \A i \in 1..(m + 1) : f[i] \in Seq(S)
    OBVIOUS
  <2>1. PICK f : Flattening(f, ss, m) /\ \A i \in 1..m : f[i] \in Seq(S)
    BY <1>2
  <2> DEFINE last == IF m = 0 THEN ss[1] ELSE f[m] \o ss[m + 1]
             g == [i \in 1..(m + 1) |-> IF i <= m THEN f[i] ELSE last]
  <2>2. last \in Seq(S)
    <3>1. m + 1 \in 1..n /\ (m # 0 => m \in 1..m)
      OBVIOUS
    <3>2. ss[m + 1] \in Seq(S) /\ (m # 0 => f[m] \in Seq(S))
      BY <2>1, <3>1
    <3> QED
      BY <3>2
  <2>3. \A i \in 1..m : f[i] = IF i = 1 THEN ss[i] ELSE f[i - 1] \o ss[i]
    BY <2>1 DEF Flattening
  <2>4. ASSUME NEW i \in 1..(m + 1)
        PROVE  g[i] = (IF i = 1 THEN ss[i] ELSE g[i - 1] \o ss[i]) /\ g[i] \in Seq(S)
    <3>1. CASE i <= m
      <4>1. i \in 1..m /\ g[i] = f[i] /\ (i # 1 => g[i - 1] = f[i - 1])
        BY <3>1
      <4> QED
        BY <2>1, <2>3, <4>1
    <3>2. CASE i = m + 1
      <4>1. g[i] = last /\ (i = 1 <=> m = 0) /\ (i # 1 => g[i - 1] = f[m])
        BY <3>2
      <4> QED
        BY <2>2, <3>2, <4>1
    <3> QED
      BY <3>1, <3>2
  <2>5. g = [i \in 1..(m + 1) |-> g[i]]
    OBVIOUS
  <2> HIDE DEF g
  <2>6. Flattening(g, ss, m + 1)
    BY <2>4, <2>5 DEF Flattening
  <2> QED
    BY <2>4, <2>6
<1> HIDE DEF Q
<1>3. Nat \subseteq Q
  BY <1>1, <1>2, Induction
<1>4. n \in Q
  BY <1>3
<1> QED
  BY <1>4 DEF Q

Agree(ss, tt, n) == \A i \in 1..n : ss[i] = tt[i]

\* Two such functions agree: by induction as well.
LEMMA FlatteningUnique ==
  ASSUME NEW n \in Nat, NEW ss, NEW tt, Agree(ss, tt, n),
         NEW m \in Nat, n <= m,
         NEW f, Flattening(f, ss, n), NEW g, Flattening(g, tt, m)
  PROVE  Agree(f, g, n)
<1> DEFINE Q == {j \in Nat : j \in 1..n => f[j] = g[j]}
<1>1. \A i \in 1..n : f[i] = IF i = 1 THEN ss[i] ELSE f[i - 1] \o ss[i]
  BY DEF Flattening
<1>2. \A i \in 1..m : g[i] = IF i = 1 THEN tt[i] ELSE g[i - 1] \o tt[i]
  BY DEF Flattening
<1>3. 0 \in Q
  OBVIOUS
<1>4. ASSUME NEW j \in Nat, j \in Q PROVE j + 1 \in Q
  <2> SUFFICES ASSUME j + 1 \in 1..n PROVE f[j + 1] = g[j + 1]
    OBVIOUS
  <2>1. j + 1 \in 1..m /\ ss[j + 1] = tt[j + 1] /\ (j + 1) - 1 = j
    BY DEF Agree
  <2>2. CASE j = 0
    BY <1>1, <1>2, <2>1, <2>2
  <2>3. CASE j # 0
    <3>1. f[j] = g[j] /\ j + 1 # 1
      BY <1>4, <2>3
    <3>2. f[j + 1] = f[(j + 1) - 1] \o ss[j + 1] /\ g[j + 1] = g[(j + 1) - 1] \o tt[j + 1]
      BY <1>1, <1>2, <2>1, <3>1
    <3> QED
      BY <2>1, <3>1, <3>2
  <2> QED
    BY <2>2, <2>3
<1> HIDE DEF Q
<1>5. Nat \subseteq Q
  BY <1>3, <1>4, Induction
<1> QED
  BY <1>5 DEF Q, Agree

\* FlattenSeq is the last value of such a function.
LEMMA FlattenIsLast ==
  ASSUME NEW ss, Len(ss) \in Nat, Len(ss) # 0, NEW f, Flattening(f, ss, Len(ss))
  PROVE  FlattenSeq(ss) = f[Len(ss)]
<1> DEFINE n == Len(ss)
           g == CHOOSE h : h = [i \in 1..n |-> IF i = 1 THEN ss[i] ELSE h[i - 1] \o ss[i]]
<1>1. g = [i \in 1..n |-> IF i = 1 THEN ss[i] ELSE g[i - 1] \o ss[i]]
  BY DEF Flattening
<1>2. FlattenSeq(ss) = g[n]
  BY DEF FlattenSeq
<1> HIDE DEF g
<1>3. Flattening(g, ss, n)
  BY <1>1 DEF Flattening
<1>4. n \in 1..n
  OBVIOUS
<1> HIDE DEF n
<1>5. f[n] = g[n]
  <2>1. n \in Nat /\ n <= n /\ Flattening(f, ss, n) /\ Agree(ss, ss, n)
    BY DEF n, Agree
  <2>2. Agree(f, g, n)
    BY <1>3, <2>1, FlatteningUnique
  <2> QED
    BY <1>4, <2>2 DEF Agree
<1> QED
  BY <1>2, <1>5 DEF n

\* Nothing to put together.
LEMMA FlattenEmpty == FlattenSeq(<<>>) = <<>>
BY DEF FlattenSeq

LEMMA FlattenType ==
  ASSUME NEW S, NEW ss \in Seq(Seq(S))
  PROVE  FlattenSeq(ss) \in Seq(S)
<1> DEFINE n == Len(ss)
<1>1. n \in Nat /\ \A i \in 1..n : ss[i] \in Seq(S)
  OBVIOUS
<1>2. CASE n = 0
  <2>1. ss = <<>>
    BY <1>2
  <2>2. <<>> \in Seq(S)
    OBVIOUS
  <2> QED
    BY <2>1, <2>2, FlattenEmpty
<1>3. CASE n # 0
  <2>1. PICK f : Flattening(f, ss, n) /\ \A i \in 1..n : f[i] \in Seq(S)
    BY <1>1, FlatteningExists
  <2>2. FlattenSeq(ss) = f[n]
    BY <1>1, <1>3, <2>1, FlattenIsLast
  <2> QED
    BY <1>1, <1>3, <2>1, <2>2
<1> QED
  BY <1>2, <1>3

\* One more sequence.
LEMMA FlattenAppend ==
  ASSUME NEW S, NEW ss \in Seq(Seq(S)), NEW s \in Seq(S)
  PROVE  FlattenSeq(Append(ss, s)) = FlattenSeq(ss) \o s
<1> DEFINE n == Len(ss)
           tt == Append(ss, s)
<1>1. /\ n \in Nat /\ tt \in Seq(Seq(S)) /\ Len(tt) = n + 1
      /\ \A i \in 1..n : ss[i] \in Seq(S) /\ tt[i] = ss[i]
      /\ tt[n + 1] = s
      /\ \A i \in 1..(n + 1) : tt[i] \in Seq(S)
  OBVIOUS
<1> HIDE DEF tt
<1>2. PICK g : Flattening(g, tt, n + 1) /\ \A i \in 1..(n + 1) : g[i] \in Seq(S)
  BY <1>1, FlatteningExists, SMTT(30)
<1>3. FlattenSeq(tt) = g[n + 1]
  BY <1>1, <1>2, FlattenIsLast
<1>4. g[n + 1] = IF n + 1 = 1 THEN tt[n + 1] ELSE g[(n + 1) - 1] \o tt[n + 1]
  <2>1. \A i \in 1..(n + 1) : g[i] = IF i = 1 THEN tt[i] ELSE g[i - 1] \o tt[i]
    BY <1>2 DEF Flattening
  <2>2. n + 1 \in 1..(n + 1)
    BY <1>1
  <2> HIDE DEF n
  <2> QED
    BY <2>1, <2>2
<1>5. CASE n = 0
  <2>1. ss = <<>>
    BY <1>5
  <2>2. FlattenSeq(tt) = s
    BY <1>1, <1>3, <1>4, <1>5
  <2>3. <<>> \o s = s
    OBVIOUS
  <2> QED
    BY <2>1, <2>2, <2>3, FlattenEmpty DEF tt
<1>6. CASE n # 0
  <2>1. PICK f : Flattening(f, ss, n) /\ \A i \in 1..n : f[i] \in Seq(S)
    BY <1>1, FlatteningExists
  <2>2. FlattenSeq(ss) = f[n]
    BY <1>1, <1>6, <2>1, FlattenIsLast
  <2>3. f[n] = g[n]
    <3>1. Agree(f, g, n)
      <4> DEFINE m == n + 1
      <4>1. m \in Nat /\ n <= m /\ n \in Nat /\ Agree(ss, tt, n)
        BY <1>1 DEF Agree
      <4>2. Flattening(g, tt, m) /\ Flattening(f, ss, n)
        BY <1>2, <2>1
      <4> HIDE DEF n, m
      <4> QED
        BY <4>1, <4>2, FlatteningUnique
    <3> QED
      BY <1>1, <1>6, <3>1 DEF Agree
  <2>4. (n + 1) - 1 = n /\ n + 1 # 1
    BY <1>1, <1>6
  <2> QED
    BY <1>1, <1>3, <1>4, <2>2, <2>3, <2>4 DEF tt
<1> QED
  BY <1>5, <1>6

-----------------------------------------------------------------------------
(* More on sequences, and the brackets opened in a text.                   *)

LEMMA SeqIsSequence ==
  ASSUME NEW S, NEW v \in Seq(S)
  PROVE IsSequence(v)
<1>1. DOMAIN v = 1..Len(v) /\ Len(v) \in Nat
  OBVIOUS
<1>2. v = [i \in 1..Len(v) |-> v[i]]
  BY <1>1
<1>3. v \in [1..Len(v) -> Range(v)]
  BY <1>1, <1>2 DEF Range
<1> QED
  BY <1>1, <1>3 DEF IsSequence

\* Facts about \o in a form that the provers do not rewrite before they use it.
Cat(a, b) == a \o b

LEMMA CatAssociative ==
  ASSUME NEW S, NEW a, a \in Seq(S), NEW b, b \in Seq(S), NEW c, c \in Seq(S)
  PROVE  Cat(Cat(a, b), c) = Cat(a, Cat(b, c))
BY ConcatAssociative DEF Cat

LEMMA CatType ==
  ASSUME NEW S, NEW a, a \in Seq(S), NEW b, b \in Seq(S)
  PROVE  Cat(a, b) \in Seq(S) /\ Len(Cat(a, b)) = Len(a) + Len(b)
BY DEF Cat

LEMMA CatFirst ==
  ASSUME NEW a, IsSequence(a), NEW b, IsSequence(b), NEW i, i \in DOMAIN a
  PROVE  Cat(a, b)[i] = a[i]
BY DEF Cat, IsSequence

LEMMA CatSecond ==
  ASSUME NEW a, IsSequence(a), NEW b, IsSequence(b), NEW i, i \in DOMAIN b
  PROVE  Cat(a, b)[Len(a) + i] = b[i]
BY DEF Cat, IsSequence

LEMMA CatEmpty ==
  ASSUME NEW S, NEW a, a \in Seq(S)
  PROVE  Cat(a, <<>>) = a /\ Cat(<<>>, a) = a
BY DEF Cat

\* Two lists of sequences, one after the other: by induction on the second.
LEMMA FlattenConcat ==
  ASSUME NEW S, NEW ss \in Seq(Seq(S)), NEW tt \in Seq(Seq(S))
  PROVE  FlattenSeq(ss \o tt) = FlattenSeq(ss) \o FlattenSeq(tt)
<1> DEFINE Good(uu) == FlattenSeq(ss \o uu) = FlattenSeq(ss) \o FlattenSeq(uu)
           Q == {m \in Nat : \A uu \in Seq(Seq(S)) : Len(uu) = m => Good(uu)}
<1>1. FlattenSeq(ss) \in Seq(S)
  BY FlattenType
<1>2. 0 \in Q
  <2> SUFFICES ASSUME NEW uu \in Seq(Seq(S)), Len(uu) = 0 PROVE Good(uu)
    OBVIOUS
  <2>1. uu = <<>> /\ ss \o <<>> = ss
    OBVIOUS
  <2>2. FlattenSeq(ss) \o <<>> = FlattenSeq(ss)
    BY <1>1
  <2> QED
    BY <2>1, <2>2, FlattenEmpty
<1>3. ASSUME NEW m \in Nat, m \in Q PROVE m + 1 \in Q
  <2> SUFFICES ASSUME NEW uu \in Seq(Seq(S)), Len(uu) = m + 1 PROVE Good(uu)
    OBVIOUS
  <2>1. uu # <<>>
    OBVIOUS
  <2>2. PICK vv \in Seq(Seq(S)), s \in Seq(S) : uu = Append(vv, s)
    BY <2>1, SequenceEmptyOrAppend
  <2>3. Len(vv) = m
    BY <2>2
  <2>4. FlattenSeq(ss \o vv) = FlattenSeq(ss) \o FlattenSeq(vv)
    BY <1>3, <2>3
  <2>5. ss \o uu = Append(ss \o vv, s) /\ ss \o vv \in Seq(Seq(S))
    <3>1. ss \o vv \in Seq(Seq(S)) /\ Append(ss \o vv, s) \in Seq(Seq(S)) /\ ss \o uu \in Seq(Seq(S))
      OBVIOUS
    <3>2. Len(ss \o uu) = Len(Append(ss \o vv, s))
      BY <2>2
    <3>3. \A i \in 1..Len(ss \o uu) : (ss \o uu)[i] = Append(ss \o vv, s)[i]
      BY <2>2
    <3> QED
      BY <3>1, <3>2, <3>3, SeqEqual
  <2>6. FlattenSeq(ss \o uu) = FlattenSeq(ss \o vv) \o s /\ FlattenSeq(uu) = FlattenSeq(vv) \o s
    BY <2>2, <2>5, FlattenAppend
  <2>7. FlattenSeq(vv) \in Seq(S)
    BY FlattenType
  <2>8. (FlattenSeq(ss) \o FlattenSeq(vv)) \o s = FlattenSeq(ss) \o (FlattenSeq(vv) \o s)
    <3>1. s \in Seq(S)
      BY <2>2
    <3>2. Cat(Cat(FlattenSeq(ss), FlattenSeq(vv)), s) = Cat(FlattenSeq(ss), Cat(FlattenSeq(vv), s))
      BY <1>1, <2>7, <3>1, CatAssociative
    <3> QED
      BY <3>2, Zenon DEF Cat
  <2> QED
    BY <2>4, <2>6, <2>8
<1> HIDE DEF Q
<1>4. Nat \subseteq Q
  BY <1>2, <1>3, Induction
<1>5. Len(tt) \in Q
  BY <1>4
<1> QED
  BY <1>5 DEF Q

LEMMA FlattenOne ==
  ASSUME NEW S, NEW s \in Seq(S)
  PROVE  FlattenSeq(<<s>>) = s
<1>1. <<>> \in Seq(Seq(S)) /\ Append(<<>>, s) = <<s>> /\ <<>> \o s = s
  OBVIOUS
<1> QED
  BY <1>1, FlattenAppend, FlattenEmpty

-----------------------------------------------------------------------------
(* The names in a text.                                                    *)

NameOf(x) == IF x \in Attribute THEN <<x>> ELSE <<>>
NameMap(s) == [k \in DOMAIN s |-> NameOf(s[k])]

LEMMA NamesIsFlat == \A s : Names(s) = FlattenSeq(NameMap(s))
BY DEF Names, NameMap, NameOf

LEMMA NameMapType ==
  ASSUME NEW s \in Seq(Token)
  PROVE  NameMap(s) \in Seq(Seq(Attribute)) /\ Len(NameMap(s)) = Len(s)
<1>1. DOMAIN s = 1..Len(s) /\ Len(s) \in Nat
  OBVIOUS
<1>2. NameMap(s) \in [1..Len(s) -> Seq(Attribute)]
  BY <1>1 DEF NameMap, NameOf
<1> QED
  BY <1>1, <1>2

LEMMA NamesType ==
  ASSUME NEW s \in Seq(Token)
  PROVE  Names(s) \in Seq(Attribute)
BY NamesIsFlat, NameMapType, FlattenType

LEMMA NamesConcat ==
  ASSUME NEW s \in Seq(Token), NEW t \in Seq(Token)
  PROVE  Names(s \o t) = Names(s) \o Names(t)
<1>1. s \o t \in Seq(Token) /\ Len(s \o t) = Len(s) + Len(t)
  OBVIOUS
<1>2. /\ NameMap(s) \in Seq(Seq(Attribute)) /\ Len(NameMap(s)) = Len(s)
      /\ NameMap(t) \in Seq(Seq(Attribute)) /\ Len(NameMap(t)) = Len(t)
      /\ NameMap(s \o t) \in Seq(Seq(Attribute)) /\ Len(NameMap(s \o t)) = Len(s) + Len(t)
  BY <1>1, NameMapType
<1>3. NameMap(s \o t) = NameMap(s) \o NameMap(t)
  <2> DEFINE u == NameMap(s)
             v == NameMap(t)
             w == NameMap(s \o t)
  <2>1. \A i \in 1..Len(s) : u[i] = NameOf(s[i]) /\ w[i] = NameOf(s[i])
    BY <1>1 DEF NameMap
  <2>2. \A i \in 1..Len(t) : v[i] = NameOf(t[i]) /\ w[Len(s) + i] = NameOf(t[i])
    BY <1>1 DEF NameMap
  <2>3. /\ u \in Seq(Seq(Attribute)) /\ Len(u) = Len(s)
        /\ v \in Seq(Seq(Attribute)) /\ Len(v) = Len(t)
        /\ w \in Seq(Seq(Attribute)) /\ Len(w) = Len(s) + Len(t)
        /\ Len(s) \in Nat /\ Len(t) \in Nat
    BY <1>2
  <2> HIDE DEF u, v, w
  <2> DEFINE T == Seq(Attribute)
  <2>4. u \in Seq(T) /\ v \in Seq(T) /\ w \in Seq(T)
    BY <2>3
  <2> HIDE DEF T
  <2>5. /\ Cat(u, v) \in Seq(T) /\ Len(Cat(u, v)) = Len(u) + Len(v)
        /\ IsSequence(u) /\ DOMAIN u = 1..Len(u) /\ IsSequence(v) /\ DOMAIN v = 1..Len(v)
    BY <2>4, CatType, SeqIsSequence
  <2>7. ASSUME NEW i \in 1..(Len(s) + Len(t)) PROVE w[i] = Cat(u, v)[i]
    <3>1. CASE i \in 1..Len(s)
      <4>1. i \in DOMAIN u
        BY <2>3, <2>5, <3>1
      <4>2. Cat(u, v)[i] = u[i]
        BY <2>5, <4>1, CatFirst, Zenon
      <4> QED
        BY <2>1, <3>1, <4>2, Zenon
    <3>2. CASE i > Len(s)
      <4> DEFINE j == i - Len(s)
      <4>1. j \in 1..Len(t) /\ j \in DOMAIN v /\ Len(s) + j = i /\ Len(u) + j = i
        BY <2>3, <2>5, <3>2
      <4> HIDE DEF j
      <4>2. Cat(u, v)[Len(u) + j] = v[j]
        <5>1. IsSequence(u) /\ IsSequence(v) /\ j \in DOMAIN v
          BY <2>5, <4>1
        <5> QED
          BY <5>1, CatSecond, Zenon
      <4>3. v[j] = NameOf(t[j]) /\ w[Len(s) + j] = NameOf(t[j])
        BY <2>2, <4>1, Zenon
      <4> QED
        BY <4>1, <4>2, <4>3, Zenon
    <3> QED
      BY <2>3, <3>1, <3>2
  <2>6. w = Cat(u, v)
    BY <2>3, <2>4, <2>5, <2>7, SeqEqual
  <2> QED
    BY <2>6, Zenon DEF u, v, w, Cat
<1> QED
  BY <1>2, <1>3, NamesIsFlat, FlattenConcat

\* The names of one token.
LEMMA NamesOne ==
  ASSUME NEW x \in Token
  PROVE  Names(<<x>>) = NameOf(x)
<1>1. NameMap(<<x>>) = <<NameOf(x)>>
  <2>1. <<x>> \in Seq(Token) /\ Len(<<x>>) = 1
    OBVIOUS
  <2>2. NameMap(<<x>>) \in Seq(Seq(Attribute)) /\ Len(NameMap(<<x>>)) = 1
    BY <2>1, NameMapType
  <2>3. NameMap(<<x>>)[1] = NameOf(x)
    BY DEF NameMap
  <2> QED
    BY <2>2, <2>3
<1>2. NameOf(x) \in Seq(Attribute)
  BY DEF NameOf
<1> QED
  BY <1>1, <1>2, NamesIsFlat, FlattenOne

LEMMA NamesEmpty == Names(<<>>) = <<>>
<1>1. <<>> \in Seq(Token) /\ Len(<<>>) = 0
  OBVIOUS
<1>2. NameMap(<<>>) \in Seq(Seq(Attribute)) /\ Len(NameMap(<<>>)) = 0
  BY <1>1, NameMapType
<1>3. NameMap(<<>>) = <<>>
  BY <1>2
<1> QED
  BY <1>3, NamesIsFlat, FlattenEmpty

-----------------------------------------------------------------------------
(* Brackets.                                                               *)

Delta(x) == CASE x = "(" -> 1 [] x = ")" -> -1 [] OTHER -> 0

\* Where s has the token x.
Places(s, x) == {k \in DOMAIN s : s[k] = x}

LEMMA PlacesAppend ==
  ASSUME NEW s \in Seq(Token), NEW e \in Token, NEW x
  PROVE  /\ IsFiniteSet(Places(s, x)) /\ Cardinality(Places(s, x)) \in Nat
         /\ Cardinality(Places(Append(s, e), x))
              = Cardinality(Places(s, x)) + (IF e = x THEN 1 ELSE 0)
<1> DEFINE n == Len(s)
<1>1. n \in Nat /\ DOMAIN s = 1..n /\ DOMAIN Append(s, e) = 1..(n + 1)
      /\ (\A k \in 1..n : Append(s, e)[k] = s[k]) /\ Append(s, e)[n + 1] = e
  OBVIOUS
<1>2. IsFiniteSet(Places(s, x))
  <2>1. IsFiniteSet(1..n)
    BY <1>1, FS_Interval
  <2>2. Places(s, x) \in SUBSET (1..n)
    BY <1>1 DEF Places
  <2> QED
    BY <2>1, <2>2, FS_Subset
<1>3. Cardinality(Places(s, x)) \in Nat
  BY <1>2, FS_CardinalityType
<1>4. CASE e = x
  <2>1. Places(Append(s, e), x) = Places(s, x) \cup {n + 1} /\ n + 1 \notin Places(s, x)
    BY <1>1, <1>4 DEF Places
  <2> QED
    BY <1>2, <1>3, <1>4, <2>1, FS_AddElement
<1>5. CASE e # x
  <2>1. Places(Append(s, e), x) = Places(s, x)
    BY <1>1, <1>5 DEF Places
  <2> QED
    BY <1>2, <1>3, <1>5, <2>1
<1> QED
  BY <1>4, <1>5

LEMMA OpenedPlaces == \A s : Opened(s) = Cardinality(Places(s, "(")) - Cardinality(Places(s, ")"))
BY DEF Opened, Places

LEMMA OpenedType == \A s \in Seq(Token) : Opened(s) \in Int
<1> SUFFICES ASSUME NEW s \in Seq(Token) PROVE Opened(s) \in Int
  OBVIOUS
<1>1. "(" \in Token
  BY DEF Token
<1>2. Cardinality(Places(s, "(")) \in Nat /\ Cardinality(Places(s, ")")) \in Nat
  BY <1>1, PlacesAppend
<1> QED
  BY <1>2, OpenedPlaces

LEMMA OpenedAppend ==
  ASSUME NEW s \in Seq(Token), NEW e \in Token
  PROVE  Opened(Append(s, e)) = Opened(s) + Delta(e)
<1> DEFINE Change(x) == IF e = x THEN 1 ELSE 0
           p == Cardinality(Places(s, "("))
           q == Cardinality(Places(s, ")"))
<1>1. /\ Cardinality(Places(Append(s, e), "(")) = p + Change("(")
      /\ Cardinality(Places(Append(s, e), ")")) = q + Change(")")
      /\ p \in Nat /\ q \in Nat
  BY PlacesAppend
<1>2. Opened(s) = p - q /\ Opened(Append(s, e)) = (p + Change("(")) - (q + Change(")"))
  BY <1>1, OpenedPlaces
<1> HIDE DEF p, q
<1>3. Delta(e) = Change("(") - Change(")")
  BY DEF Delta
<1>4. Change("(") \in Int /\ Change(")") \in Int
  OBVIOUS
<1> HIDE DEF Change
<1> QED
  BY <1>1, <1>2, <1>3, <1>4

LEMMA OpenedEmpty == Opened(<<>>) = 0
<1>1. \A x : Places(<<>>, x) = {}
  BY DEF Places
<1>2. Opened(<<>>) = 0 - 0
  BY <1>1, FS_EmptySet, OpenedPlaces
<1> QED
  BY <1>2

\* How many brackets are open after the first k tokens.
Deep(s, k) == Opened(SubSeq(s, 1, k))

LEMMA DeepStep ==
  ASSUME NEW s \in Seq(Token)
  PROVE  /\ Deep(s, 0) = 0
         /\ \A k \in 0..Len(s) : Deep(s, k) \in Int
         /\ \A k \in 1..Len(s) : Deep(s, k) = Deep(s, k - 1) + Delta(s[k])
<1>1. SubSeq(s, 1, 0) = <<>>
  BY SubSeqEmpty
<1>2. ASSUME NEW k \in 0..Len(s) PROVE SubSeq(s, 1, k) \in Seq(Token)
  <2>1. \A i \in 1..k : s[i] \in Token
    OBVIOUS
  <2> QED
    BY <2>1, SubSeqProperties
<1>3. ASSUME NEW k \in 1..Len(s) PROVE SubSeq(s, 1, k) = Append(SubSeq(s, 1, k - 1), s[k])
  <2>1. k - 1 \in 0..Len(s) /\ k \in 0..Len(s) /\ s[k] \in Token /\ 1 \in Int /\ k \in Int /\ k - 1 \in Int
    OBVIOUS
  <2>2. SubSeq(s, 1, k) \in Seq(Token) /\ SubSeq(s, 1, k - 1) \in Seq(Token)
    BY <1>2, <2>1
  <2>3. /\ Len(SubSeq(s, 1, k)) = k /\ Len(SubSeq(s, 1, k - 1)) = k - 1
        /\ \A i \in 1..k : SubSeq(s, 1, k)[i] = s[i]
        /\ \A i \in 1..(k - 1) : SubSeq(s, 1, k - 1)[i] = s[i]
    <3>1. \A i \in 1..k : s[i] \in Token
      OBVIOUS
    <3>2. \A i \in 1..(k - 1) : s[i] \in Token
      OBVIOUS
    <3> QED
      BY <2>1, <3>1, <3>2, SubSeqProperties
  <2> QED
    BY <2>1, <2>2, <2>3, SeqEqual
<1>4. ASSUME NEW k \in 0..Len(s) PROVE Deep(s, k) \in Int
  BY <1>2, OpenedType DEF Deep
<1>5. ASSUME NEW k \in 1..Len(s) PROVE Deep(s, k) = Deep(s, k - 1) + Delta(s[k])
  <2>1. k - 1 \in 0..Len(s) /\ s[k] \in Token
    OBVIOUS
  <2>2. SubSeq(s, 1, k - 1) \in Seq(Token)
    BY <1>2, <2>1
  <2> QED
    BY <1>3, <2>1, <2>2, OpenedAppend DEF Deep
<1> QED
  BY <1>1, <1>4, <1>5, OpenedEmpty DEF Deep

-----------------------------------------------------------------------------
(* Stretches of a text.                                                    *)

\* A stretch of a text.
LEMMA SubFacts ==
  ASSUME NEW s \in Seq(Token), NEW m \in 1..(Len(s) + 1), NEW n \in (m - 1)..Len(s)
  PROVE  /\ SubSeq(s, m, n) \in Seq(Token) /\ Len(SubSeq(s, m, n)) = n - m + 1
         /\ \A i \in 1..(n - m + 1) : SubSeq(s, m, n)[i] = s[m + i - 1]
<1>1. \A i \in m..n : s[i] \in Token
  OBVIOUS
<1>2. m \in Int /\ n \in Int /\ (m <= n \/ n = m - 1)
  OBVIOUS
<1> QED
  BY <1>1, <1>2, SubSeqProperties

\* A sequence with an element more.
LEMMA AppendFacts ==
  ASSUME NEW S, NEW v \in Seq(S), NEW e \in S
  PROVE  /\ Append(v, e) \in Seq(S) /\ Len(Append(v, e)) = Len(v) + 1 /\ Len(v) \in Nat
         /\ Append(v, e)[Len(v) + 1] = e
         /\ \A i \in 1..Len(v) : Append(v, e)[i] = v[i]
OBVIOUS

LEMMA SubAppend ==
  ASSUME NEW s \in Seq(Token), NEW m \in 1..Len(s), NEW n \in m..Len(s)
  PROVE  SubSeq(s, m, n) = Append(SubSeq(s, m, n - 1), s[n])
<1> DEFINE u == SubSeq(s, m, n)
           v == SubSeq(s, m, n - 1)
<1>1. n - 1 \in (m - 1)..Len(s) /\ m \in 1..(Len(s) + 1) /\ n \in (m - 1)..Len(s) /\ s[n] \in Token
  OBVIOUS
<1>2. /\ u \in Seq(Token) /\ Len(u) = n - m + 1
      /\ \A i \in 1..(n - m + 1) : u[i] = s[m + i - 1]
  BY <1>1, SubFacts
<1>3. /\ v \in Seq(Token) /\ Len(v) = n - m
      /\ \A i \in 1..(n - m) : v[i] = s[m + i - 1]
  <2>1. (n - 1) - m + 1 = n - m
    OBVIOUS
  <2> QED
    BY <1>1, <2>1, SubFacts
<1> HIDE DEF u, v
<1> DEFINE w == Append(v, s[n])
<1>4. Len(v) = n - m /\ n - m \in Nat
  BY <1>3
<1>5. /\ w \in Seq(Token) /\ Len(w) = n - m + 1 /\ w[n - m + 1] = s[n]
      /\ \A i \in 1..(n - m) : w[i] = v[i]
  <2>1. v \in Seq(Token) /\ s[n] \in Token
    BY <1>1, <1>3
  <2>2. /\ w \in Seq(Token) /\ Len(w) = Len(v) + 1 /\ w[Len(v) + 1] = s[n]
        /\ \A i \in 1..Len(v) : w[i] = v[i]
    BY <2>1, AppendFacts
  <2> HIDE DEF w
  <2> QED
    BY <1>4, <2>2
<1> HIDE DEF w
<1>6. ASSUME NEW i \in 1..(n - m + 1) PROVE u[i] = w[i]
  <2>1. CASE i \in 1..(n - m)
    BY <1>2, <1>3, <1>5, <2>1
  <2>2. CASE i = n - m + 1
    <3>1. m + i - 1 = n
      BY <2>2
    <3> QED
      BY <1>2, <1>5, <2>2, <3>1
  <2> QED
    BY <1>4, <2>1, <2>2
<1>7. Len(u) = Len(w) /\ \A i \in 1..Len(u) : u[i] = w[i]
  BY <1>2, <1>5, <1>6
<1>8. u = w
  BY <1>2, <1>5, <1>7, SeqEqual
<1> QED
  BY <1>8 DEF u, v, w

\* The brackets a stretch opens and does not close: by induction on its length.
LEMMA OpenedStretch ==
  ASSUME NEW s \in Seq(Token), NEW m \in 1..Len(s), NEW n \in (m - 1)..Len(s)
  PROVE  Opened(SubSeq(s, m, n)) = Deep(s, n) - Deep(s, m - 1)
<1> DEFINE Good(k) == Opened(SubSeq(s, m, k)) = Deep(s, k) - Deep(s, m - 1)
           Q == {i \in Nat : (m - 1) + i <= Len(s) => Good((m - 1) + i)}
<1>1. \A k \in 0..Len(s) : Deep(s, k) \in Int
  BY DeepStep
<1>2. 0 \in Q
  <2>1. SubSeq(s, m, m - 1) = <<>>
    BY SubSeqEmpty
  <2>2. m - 1 \in 0..Len(s) /\ (m - 1) + 0 = m - 1
    OBVIOUS
  <2>3. Deep(s, m - 1) - Deep(s, m - 1) = 0
    BY <1>1, <2>2
  <2> QED
    BY <2>1, <2>2, <2>3, OpenedEmpty
<1>3. ASSUME NEW i \in Nat, i \in Q PROVE i + 1 \in Q
  <2> DEFINE k == (m - 1) + i
  <2> SUFFICES ASSUME k + 1 <= Len(s) PROVE Good(k + 1)
    OBVIOUS
  <2>1. k + 1 \in m..Len(s) /\ k + 1 \in 1..Len(s) /\ k \in 0..Len(s) /\ m - 1 \in 0..Len(s)
        /\ (k + 1) - 1 = k /\ k \in (m - 1)..Len(s) /\ m \in 1..(Len(s) + 1) /\ s[k + 1] \in Token
    OBVIOUS
  <2>2. Good(k)
    BY <1>3, <2>1
  <2> HIDE DEF k
  <2>3. SubSeq(s, m, k + 1) = Append(SubSeq(s, m, k), s[k + 1])
    BY <2>1, SubAppend
  <2>4. SubSeq(s, m, k) \in Seq(Token)
    BY <2>1, SubFacts
  <2>5. Opened(SubSeq(s, m, k + 1)) = Opened(SubSeq(s, m, k)) + Delta(s[k + 1])
    BY <2>1, <2>3, <2>4, OpenedAppend
  <2>6. Deep(s, k + 1) = Deep(s, k) + Delta(s[k + 1])
    BY <2>1, DeepStep
  <2>7. Delta(s[k + 1]) \in Int
    BY DEF Delta
  <2>8. Deep(s, k) \in Int /\ Deep(s, m - 1) \in Int
    BY <1>1, <2>1
  <2> QED
    BY <2>2, <2>5, <2>6, <2>7, <2>8
<1> HIDE DEF Q
<1>4. Nat \subseteq Q
  BY <1>2, <1>3, Induction
<1> DEFINE j == n - (m - 1)
<1>5. j \in Nat /\ (m - 1) + j = n /\ n <= Len(s)
  OBVIOUS
<1> HIDE DEF j
<1>6. j \in Q
  BY <1>4, <1>5
<1> QED
  BY <1>5, <1>6 DEF Q

-----------------------------------------------------------------------------
(* Texts: the policies, and the gates and names in them.                   *)

Grammatical(s) == \A k \in 1..(Len(s) - 1) : MayFollow(s[k], s[k + 1])

IsDigit(x) == x \in Range(Digit)

\* The SMT backend does not get along with the token itself.
Comma == ","

\* No token is of two kinds.
LEMMA Kinds ==
  /\ "(" # ")" /\ "(" # Comma /\ ")" # Comma /\ Comma \in Token
  /\ "(" \notin Attribute /\ ")" \notin Attribute /\ Comma \notin Attribute
  /\ ~ IsDigit("(") /\ ~ IsDigit(")") /\ ~ IsDigit(Comma)
  /\ \A x \in Attribute : ~ IsDigit(x) /\ x # "(" /\ x # ")" /\ x # Comma
  /\ \A x \in Token : x \in Attribute \/ IsDigit(x) \/ x = "(" \/ x = ")" \/ x = Comma
<1>1. Range(Digit) = {"1", "2", "3", "4", "5", "6", "7", "8", "9"}
  BY DEF Range, Digit
<1>2. "(" \notin Range(Digit) /\ ")" \notin Range(Digit) /\ "," \notin Range(Digit)
  BY <1>1
<1>3. \A x \in Attribute : x \notin Range(Digit) /\ x # "(" /\ x # ")" /\ x # ","
  BY GrammarAssumption
<1> QED
  BY <1>2, <1>3, Zenon DEF IsDigit, Token, Comma

\* What stands before and after what.
LEMMA Following ==
  ASSUME NEW x, NEW y, MayFollow(x, y)
  PROVE  /\ y = ")" => IsDigit(x)
         /\ IsDigit(y) => x = Comma
         /\ y = Comma => x \in Attribute \cup {")"}
         /\ x = "(" => y \in Attribute \cup {"("}
         /\ x = Comma => y \in Attribute \cup {"("} \/ IsDigit(y)
         /\ x \in Attribute \cup {")"} => y = Comma
         /\ IsDigit(x) => y = ")"
BY Kinds, Zenon DEF MayFollow, IsDigit, Comma

LEMMA DeltaOf ==
  /\ Delta("(") = 1 /\ Delta(")") = -1 /\ Delta(Comma) = 0
  /\ \A x \in Attribute : Delta(x) = 0
  /\ \A x : IsDigit(x) => Delta(x) = 0
BY Kinds DEF Delta

LEMMA PolicyInSeq == \A p \in Policies : p \in Seq(Token) /\ p # <<>>
BY PoliciesAssumption

\* A text follows the grammar.
LEMMA TextFacts ==
  ASSUME NEW s \in Texts
  PROVE  s \in Seq(Token) /\ IsPart(s) /\ Grammatical(s)
<1>1. PICK p \in Policies : \E a, b \in DOMAIN p : s = SubSeq(p, a, b)
  BY DEF Texts, Stretches
<1>2. PICK a \in DOMAIN p, b \in DOMAIN p : s = SubSeq(p, a, b)
  BY <1>1
<1>3. IsPart(s)
  BY DEF Texts
<1>4. p \in Seq(Token) /\ \A k \in 1..(Len(p) - 1) : MayFollow(p[k], p[k + 1])
  BY <1>1, PolicyInSeq, GrammarAssumption
<1>5. a \in 1..Len(p) /\ b \in 1..Len(p) /\ Len(p) \in Nat
  BY <1>2, <1>4
<1>6. a <= b
  <2> SUFFICES ASSUME b < a PROVE FALSE
    BY <1>5
  <2>1. s = <<>>
    BY <1>2, <1>5, SubSeqEmpty
  <2>2. Len(s) = 0
    BY <2>1
  <2> QED
    BY <1>3, <2>2 DEF IsPart
<1>7. a \in 1..(Len(p) + 1) /\ b \in (a - 1)..Len(p)
  BY <1>5, <1>6
<1>8. /\ s \in Seq(Token) /\ Len(s) = b - a + 1
      /\ \A i \in 1..(b - a + 1) : s[i] = p[a + i - 1]
  BY <1>2, <1>4, <1>7, SubFacts
<1>9. ASSUME NEW k \in 1..(Len(s) - 1) PROVE MayFollow(s[k], s[k + 1])
  <2>1. k \in 1..(b - a + 1) /\ k + 1 \in 1..(b - a + 1) /\ a + k - 1 \in 1..(Len(p) - 1)
        /\ (a + k - 1) + 1 = a + (k + 1) - 1
    BY <1>5, <1>6, <1>8, SMTT(30)
  <2>2. s[k] = p[a + k - 1] /\ s[k + 1] = p[(a + k - 1) + 1]
    BY <1>8, <2>1
  <2> QED
    BY <1>4, <2>1, <2>2
<1> QED
  BY <1>3, <1>8, <1>9 DEF Grammatical

LEMMA StretchesHas ==
  ASSUME NEW p, NEW a \in DOMAIN p, NEW b \in DOMAIN p
  PROVE  SubSeq(p, a, b) \in Stretches(p)
<1> DEFINE Stretch(q, i, j) == SubSeq(q, i, j)
<1>1. Stretches(p) = {Stretch(p, i, j) : i, j \in DOMAIN p} /\ SubSeq(p, a, b) = Stretch(p, a, b)
  BY DEF Stretches
<1> HIDE DEF Stretch
<1>2. Stretch(p, a, b) \in {Stretch(p, i, j) : i, j \in DOMAIN p}
  BY SMT
<1> QED
  BY <1>1, <1>2

\* The policies are texts.
LEMMA PolicyIsText ==
  ASSUME NEW p \in Policies
  PROVE  p \in Texts
<1>1. p \in Seq(Token) /\ p # <<>>
  BY PolicyInSeq
<1>2. 1 \in DOMAIN p /\ Len(p) \in DOMAIN p /\ p = SubSeq(p, 1, Len(p))
  BY <1>1, SubSeqFull
<1>3. IsPart(p)
  BY GrammarAssumption
<1>5. p \in UNION {Stretches(q) : q \in Policies}
  <2>1. p \in Stretches(p)
    BY <1>2, StretchesHas, Zenon
  <2> QED
    BY <2>1
<1> QED
  BY <1>3, <1>5 DEF Texts

\* A stretch of a stretch.
LEMMA SubOfSub ==
  ASSUME NEW p \in Seq(Token), NEW a \in 1..Len(p), NEW b \in a..Len(p),
         NEW i \in 1..(b - a + 1), NEW j \in i..(b - a + 1)
  PROVE  /\ SubSeq(SubSeq(p, a, b), i, j) = SubSeq(p, a + i - 1, a + j - 1)
         /\ a + i - 1 \in 1..Len(p) /\ a + j - 1 \in 1..Len(p)
<1> DEFINE s == SubSeq(p, a, b)
           e == a + i - 1
           f == a + j - 1
           u == SubSeq(s, i, j)
           v == SubSeq(p, e, f)
           n == Len(p)
<1>1. n \in Int /\ a \in Int /\ b \in Int /\ i \in Int /\ j \in Int
  OBVIOUS
<1>2. a >= 1 /\ b <= n /\ i >= 1 /\ j <= (b - a) + 1 /\ i <= j /\ a <= b
  OBVIOUS
<1>3. a \in 1..(n + 1) /\ b \in (a - 1)..n
  OBVIOUS
<1>4. s \in Seq(Token) /\ Len(s) = b - a + 1 /\ \A k \in 1..(b - a + 1) : s[k] = p[a + k - 1]
  BY <1>3, SubFacts
<1> HIDE DEF n, s
<1>5. e \in Int /\ f \in Int /\ 1 <= e /\ e <= f /\ f <= n /\ f - e = j - i
  BY <1>1, <1>2
<1>6. \A k \in Int : a + (i + k - 1) - 1 = e + k - 1
  BY <1>1
<1>7. \A k \in 1..(j - i + 1) : k \in Int /\ i + k - 1 \in 1..(b - a + 1)
  <2> SUFFICES ASSUME NEW k \in Int, 1 <= k, k <= j - i + 1 PROVE i + k - 1 \in 1..(b - a + 1)
    BY <1>1
  <2> QED
    BY <1>1, <1>2
<1> HIDE DEF e, f
<1>8. /\ i \in 1..(Len(s) + 1) /\ j \in (i - 1)..Len(s) /\ e \in 1..(n + 1) /\ f \in (e - 1)..n
      /\ f - e + 1 = j - i + 1 /\ e \in 1..n /\ f \in 1..n
  BY <1>1, <1>2, <1>4, <1>5
<1>9. u \in Seq(Token) /\ Len(u) = j - i + 1 /\ \A k \in 1..(j - i + 1) : u[k] = s[i + k - 1]
  BY <1>4, <1>8, SubFacts
<1>10. v \in Seq(Token) /\ Len(v) = f - e + 1 /\ \A k \in 1..(f - e + 1) : v[k] = p[e + k - 1]
  BY <1>8, SubFacts DEF n
<1> HIDE DEF u, v
<1>11. ASSUME NEW k \in 1..(j - i + 1) PROVE u[k] = v[k]
  BY <1>4, <1>6, <1>7, <1>8, <1>9, <1>10
<1>12. u = v
  BY <1>8, <1>9, <1>10, <1>11, SeqEqual
<1> QED
  BY <1>8, <1>12 DEF u, v, s, e, f, n

\* A part is not empty.
LEMMA PartNotEmpty == \A s : IsPart(s) => s # <<>>
<1>1. ~ IsPart(<<>>)
  <2>1. Len(<<>>) = 0
    OBVIOUS
  <2> QED
    BY <2>1 DEF IsPart
<1> QED
  BY <1>1

\* So are the parts in a text.
LEMMA PartIsText ==
  ASSUME NEW s \in Texts, NEW i \in 1..Len(s), NEW j \in 1..Len(s), IsPart(SubSeq(s, i, j))
  PROVE  SubSeq(s, i, j) \in Texts
<1>0. PICK p \in Policies : \E a, b \in DOMAIN p : s = SubSeq(p, a, b)
  BY DEF Texts, Stretches
<1>1. PICK a \in DOMAIN p, b \in DOMAIN p : s = SubSeq(p, a, b)
  BY <1>0
<1>2. p \in Seq(Token)
  BY <1>0, PolicyInSeq
<1>3. a \in 1..Len(p) /\ b \in 1..Len(p) /\ Len(p) \in Nat
  BY <1>1, <1>2
<1>4. Len(s) = IF a <= b THEN b - a + 1 ELSE 0
  <2>1. \A k \in a..b : p[k] \in Token
    BY <1>2, <1>3
  <2> QED
    BY <1>1, <1>3, <2>1, SubSeqProperties
<1>5. b \in a..Len(p) /\ i \in 1..(b - a + 1) /\ j \in 1..(b - a + 1)
  BY <1>3, <1>4
<1>6. i <= j
  <2> SUFFICES ASSUME j < i PROVE FALSE
    BY <1>5
  <2>1. SubSeq(s, i, j) = <<>>
    BY <1>5, SubSeqEmpty
  <2> QED
    BY <2>1, PartNotEmpty
<1>7. j \in i..(b - a + 1)
  BY <1>5, <1>6
<1> DEFINE e == a + i - 1
           f == a + j - 1
<1>8. SubSeq(s, i, j) = SubSeq(p, e, f) /\ e \in 1..Len(p) /\ f \in 1..Len(p)
  BY <1>1, <1>2, <1>3, <1>5, <1>7, SubOfSub
<1>9. e \in DOMAIN p /\ f \in DOMAIN p
  <2>1. e \in 1..Len(p) /\ f \in 1..Len(p) /\ DOMAIN p = 1..Len(p)
    BY <1>2, <1>8
  <2> HIDE DEF e, f
  <2> QED
    BY <2>1
<1> HIDE DEF e, f
<1>10. SubSeq(p, e, f) \in Stretches(p)
  BY <1>9, StretchesHas, Zenon
<1>11. SubSeq(s, i, j) \in UNION {Stretches(q) : q \in Policies}
  BY <1>0, <1>8, <1>10
<1> QED
  BY <1>11 DEF Texts

\* A text that does not begin with a bracket is a name.
LEMMA NameFacts ==
  ASSUME NEW s \in Texts, s[1] # "("
  PROVE  Len(s) = 1 /\ s[1] \in Attribute /\ s = <<s[1]>>
<1>1. s \in Seq(Token) /\ IsPart(s)
  BY TextFacts
<1>2. CASE Len(s) > 1
  <2>1. 1 \in 1..(Len(s) - 1) /\ 1 \in 1..Len(s) /\ 1 - 1 = 0 /\ s[1] \in Token /\ Len(s) # 1
    BY <1>1, <1>2
  <2>2. Deep(s, 1) > 0
    BY <1>1, <2>1 DEF IsPart, Deep
  <2>3. Deep(s, 1) = 0 + Delta(s[1])
    BY <1>1, <2>1, DeepStep
  <2>4. Delta(s[1]) <= 0
    BY <2>1 DEF Delta
  <2>5. Delta(s[1]) \in Int
    BY DEF Delta
  <2> QED
    BY <2>2, <2>3, <2>4, <2>5
<1>3. CASE ~ (Len(s) > 1)
  <2>1. Len(s) = 1 /\ s[1] \in Attribute
    BY <1>1, <1>3 DEF IsPart
  <2>2. s = <<s[1]>>
    BY <1>1, <2>1
  <2> QED
    BY <2>1, <2>2
<1> QED
  BY <1>2, <1>3

-----------------------------------------------------------------------------
(* Gates: a bracket, the inner text, a comma, the threshold, a bracket.    *)

\* What stands between the first bracket of a gate and the comma before its
\* threshold.
Inner(t) ==
  /\ t \in Seq(Token) /\ Len(t) # 0 /\ Grammatical(t)
  /\ t[1] \in Attribute \cup {"("} /\ t[Len(t)] \in Attribute \cup {")"}
  /\ Deep(t, Len(t)) = 0 /\ \A k \in 1..Len(t) : Deep(t, k) >= 0

\* g is a gate with the inner text t and the threshold e.
IsGate(g, t, e) ==
  /\ g \in Texts /\ g[1] = "("
  /\ Len(g) - 3 \in 2..Len(g)
  /\ t = SubSeq(g, 2, Len(g) - 3) /\ e = g[Len(g) - 1]

\* The last token of a text and those before it.
LEMMA GateShape ==
  ASSUME NEW s \in Texts, s[1] = "("
  PROVE  /\ s \in Seq(Token) /\ Len(s) \in Nat /\ Len(s) >= 5
         /\ s[2] \in Attribute \cup {"("} /\ s[Len(s) - 3] \in Attribute \cup {")"}
         /\ s[Len(s) - 2] = Comma /\ IsDigit(s[Len(s) - 1]) /\ s[Len(s)] = ")"
         /\ Deep(s, Len(s)) = 0 /\ \A k \in 1..(Len(s) - 1) : Deep(s, k) > 0
<1> DEFINE n == Len(s)
<1>1. s \in Seq(Token) /\ IsPart(s) /\ Grammatical(s) /\ n \in Nat
  BY TextFacts
<1>2. n > 1 /\ Opened(s) = 0 /\ \A k \in 1..(n - 1) : Opened(SubSeq(s, 1, k)) > 0
  <2>1. s[1] \notin Attribute
    BY Kinds
  <2> QED
    BY <1>1, <2>1 DEF IsPart
<1>3. Deep(s, n) = 0 /\ \A k \in 1..(n - 1) : Deep(s, k) > 0
  <2>1. SubSeq(s, 1, n) = s
    BY <1>1, SubSeqFull
  <2> QED
    BY <1>2, <2>1 DEF Deep
<1>4. \A k \in 1..(n - 1) : MayFollow(s[k], s[k + 1])
  BY <1>1 DEF Grammatical
<1>5. \A k \in 1..n : s[k] \in Token
  BY <1>1
<1> HIDE DEF n
<1>6. s[n] = ")"
  <2>1. n \in 1..n /\ n - 1 \in 1..(n - 1)
    BY <1>1, <1>2
  <2>2. Deep(s, n) = Deep(s, n - 1) + Delta(s[n]) /\ Deep(s, n - 1) > 0 /\ Deep(s, n - 1) \in Int
    BY <1>1, <1>3, <2>1, DeepStep DEF n
  <2>3. Delta(s[n]) \in {-1, 0, 1} /\ (s[n] # ")" => Delta(s[n]) >= 0)
    BY DEF Delta
  <2> QED
    BY <1>3, <2>2, <2>3
<1>7. IsDigit(s[n - 1]) /\ n - 1 # 1
  <2>1. n - 1 \in 1..(n - 1) /\ (n - 1) + 1 = n
    BY <1>1, <1>2
  <2>2. MayFollow(s[n - 1], s[n])
    BY <1>4, <2>1
  <2>3. IsDigit(s[n - 1])
    BY <1>6, <2>2, Following
  <2>4. n - 1 # 1
    BY <2>3, Kinds
  <2> QED
    BY <2>3, <2>4
<1>8. s[n - 2] = Comma /\ n - 2 # 1
  <2>1. n - 2 \in 1..(n - 1) /\ (n - 2) + 1 = n - 1
    <3>1. n \in Int /\ n > 1 /\ n - 1 # 1
      BY <1>1, <1>2, <1>7
    <3> QED
      BY <3>1
  <2>2. MayFollow(s[n - 2], s[n - 1])
    BY <1>4, <2>1
  <2>3. s[n - 2] = Comma
    BY <1>7, <2>2, Following
  <2>4. n - 2 # 1
    BY <2>3, Kinds
  <2> QED
    BY <2>3, <2>4
<1>9. s[n - 3] \in Attribute \cup {")"} /\ n - 3 # 1
  <2>1. n - 3 \in 1..(n - 1) /\ (n - 3) + 1 = n - 2
    <3>1. n \in Int /\ n > 1 /\ n - 1 # 1 /\ n - 2 # 1
      BY <1>1, <1>2, <1>7, <1>8
    <3> QED
      BY <3>1
  <2>2. MayFollow(s[n - 3], s[n - 2])
    BY <1>4, <2>1
  <2>3. s[n - 3] \in Attribute \cup {")"}
    BY <1>8, <2>2, Following
  <2>4. n - 3 # 1
    BY <2>3, Kinds
  <2> QED
    BY <2>3, <2>4
<1>11. n >= 5
  <2>1. n \in Int /\ n > 1 /\ n - 1 # 1 /\ n - 2 # 1 /\ n - 3 # 1
    BY <1>1, <1>2, <1>7, <1>8, <1>9
  <2> QED
    BY <2>1
<1>10. s[2] \in Attribute \cup {"("}
  <2>1. 1 \in 1..(n - 1)
    BY <1>1, <1>2
  <2>2. MayFollow(s[1], s[1 + 1])
    BY <1>4, <2>1
  <2>3. 1 + 1 = 2
    OBVIOUS
  <2> QED
    BY <2>2, <2>3, Following
<1> QED
  BY <1>1, <1>3, <1>6, <1>7, <1>8, <1>9, <1>10, <1>11 DEF n

\* A gate and the text inside it, one token further left and one bracket less
\* deep.
LEMMA GateInner ==
  ASSUME NEW g, NEW t, NEW e, IsGate(g, t, e)
  PROVE  /\ Len(t) = Len(g) - 4 /\ Len(g) \in Nat /\ Len(g) >= 5 /\ g \in Seq(Token)
         /\ \A k \in 1..Len(t) : t[k] = g[k + 1]
         /\ \A k \in 0..Len(t) : Deep(t, k) = Deep(g, k + 1) - 1
         /\ Inner(t)
<1> DEFINE n == Len(g)
<1>1. /\ g \in Seq(Token) /\ n \in Nat /\ n >= 5
      /\ g[2] \in Attribute \cup {"("} /\ g[n - 3] \in Attribute \cup {")"}
      /\ Deep(g, n) = 0 /\ \A k \in 1..(n - 1) : Deep(g, k) > 0
  BY GateShape DEF IsGate
<1>1a. g[n - 2] = Comma /\ IsDigit(g[n - 1]) /\ g[n] = ")" /\ g[1] = "("
  BY GateShape DEF IsGate
<1>2. Grammatical(g)
  BY TextFacts DEF IsGate
<1>3. t \in Seq(Token) /\ Len(t) = n - 4 /\ \A k \in 1..(n - 4) : t[k] = g[k + 1]
  <2>1. 2 \in 1..(n + 1) /\ n - 3 \in (2 - 1)..n /\ (n - 3) - 2 + 1 = n - 4
        /\ \A k \in 1..(n - 4) : 2 + k - 1 = k + 1
    BY <1>1
  <2>2. t = SubSeq(g, 2, n - 3)
    BY DEF IsGate
  <2> HIDE DEF n
  <2>3. /\ SubSeq(g, 2, n - 3) \in Seq(Token) /\ Len(SubSeq(g, 2, n - 3)) = n - 4
        /\ \A k \in 1..(n - 4) : SubSeq(g, 2, n - 3)[k] = g[2 + k - 1]
    <3>1. /\ SubSeq(g, 2, n - 3) \in Seq(Token) /\ Len(SubSeq(g, 2, n - 3)) = (n - 3) - 2 + 1
          /\ \A k \in 1..((n - 3) - 2 + 1) : SubSeq(g, 2, n - 3)[k] = g[2 + k - 1]
      BY <1>1, <2>1, SubFacts DEF n
    <3> QED
      BY <2>1, <3>1
  <2> QED
    BY <2>1, <2>2, <2>3
<1> HIDE DEF n
<1>4. Deep(g, 1) = 1
  <2>1. 1 \in 1..Len(g) /\ 1 - 1 = 0
    BY <1>1 DEF n
  <2>2. Deep(g, 1) = 0 + Delta("(")
    BY <1>1, <1>1a, <2>1, DeepStep
  <2> QED
    BY <2>2, DeltaOf
<1>5. ASSUME NEW k \in 0..(n - 4) PROVE Deep(t, k) = Deep(g, k + 1) - 1
  <2>1. CASE k = 0
    <3>1. Deep(t, 0) = 0
      BY <1>3, DeepStep
    <3> QED
      BY <1>4, <2>1, <3>1
  <2>2. CASE k # 0
    <3>1. /\ 2 \in 1..n /\ n - 3 \in 2..n /\ 1 \in 1..((n - 3) - 2 + 1) /\ k \in 1..((n - 3) - 2 + 1)
          /\ 2 + 1 - 1 = 2 /\ 2 + k - 1 = k + 1 /\ k + 1 \in (2 - 1)..n /\ 2 - 1 = 1
      BY <1>1, <2>2
    <3>2. SubSeq(t, 1, k) = SubSeq(g, 2, k + 1)
      <4>1. t = SubSeq(g, 2, n - 3)
        BY DEF IsGate, n
      <4>2. SubSeq(SubSeq(g, 2, n - 3), 1, k) = SubSeq(g, 2 + 1 - 1, 2 + k - 1)
        BY <1>1, <3>1, SubOfSub DEF n
      <4> QED
        BY <3>1, <4>1, <4>2
    <3>3. Opened(SubSeq(g, 2, k + 1)) = Deep(g, k + 1) - Deep(g, 2 - 1)
      BY <1>1, <3>1, OpenedStretch DEF n
    <3> QED
      BY <1>4, <3>1, <3>2, <3>3 DEF Deep
  <2> QED
    BY <2>1, <2>2
<1>6. ASSUME NEW k \in 1..(n - 4) PROVE Deep(t, k) >= 0
  <2>1. k \in 0..(n - 4) /\ k + 1 \in 1..(n - 1) /\ k + 1 \in 0..n
    BY <1>1
  <2>2. Deep(t, k) = Deep(g, k + 1) - 1 /\ Deep(g, k + 1) > 0
    BY <1>1, <1>5, <2>1
  <2>3. Deep(g, k + 1) \in Int
    BY <1>1, <2>1, DeepStep DEF n
  <2> QED
    BY <2>2, <2>3
<1>7. Deep(t, n - 4) = 0
  <2>1. /\ n - 4 \in 0..(n - 4) /\ (n - 4) + 1 = n - 3 /\ n \in 1..n /\ n - 1 \in 1..n /\ n - 2 \in 1..n
        /\ n - 3 \in 0..n /\ (n - 2) - 1 = n - 3 /\ (n - 1) - 1 = n - 2
    BY <1>1
  <2>2. /\ Deep(g, n) = Deep(g, n - 1) + Delta(g[n])
        /\ Deep(g, n - 1) = Deep(g, n - 2) + Delta(g[n - 1])
        /\ Deep(g, n - 2) = Deep(g, n - 3) + Delta(g[n - 2])
        /\ Deep(g, n - 3) \in Int
    BY <1>1, <2>1, DeepStep DEF n
  <2>3. Delta(g[n]) = -1 /\ Delta(g[n - 1]) = 0 /\ Delta(g[n - 2]) = 0
    BY <1>1a, DeltaOf
  <2>4. Deep(t, n - 4) = Deep(g, n - 3) - 1
    BY <1>5, <2>1
  <2> QED
    BY <1>1, <2>2, <2>3, <2>4
<1>8. Grammatical(t)
  <2>1. ASSUME NEW k \in 1..((n - 4) - 1) PROVE MayFollow(t[k], t[k + 1])
    <3>1. k \in 1..(n - 4) /\ k + 1 \in 1..(n - 4) /\ k + 1 \in 1..(n - 1)
      BY <1>1
    <3>2. t[k] = g[k + 1] /\ t[k + 1] = g[(k + 1) + 1]
      BY <1>3, <3>1
    <3> QED
      BY <1>2, <3>1, <3>2 DEF Grammatical, n
  <2> QED
    BY <1>3, <2>1 DEF Grammatical
<1>9. t[1] \in Attribute \cup {"("} /\ t[n - 4] \in Attribute \cup {")"}
  <2>1. 1 \in 1..(n - 4) /\ n - 4 \in 1..(n - 4) /\ 1 + 1 = 2 /\ (n - 4) + 1 = n - 3 /\ n - 4 # 0
    BY <1>1
  <2>2. t[1] = g[2] /\ t[n - 4] = g[n - 3]
    BY <1>3, <2>1
  <2> QED
    BY <1>1, <2>2
<1>10. n - 4 # 0
  BY <1>1
<1>11. Inner(t)
  BY <1>3, <1>6, <1>7, <1>8, <1>9, <1>10 DEF Inner
<1> QED
  BY <1>1, <1>3, <1>5, <1>11 DEF n

\* What Gate leaves in top is the text inside a gate.
LEMMA GateSplits ==
  ASSUME NEW s \in Texts, s[1] = "("
  PROVE  IsGate(s, SubSeq(s, 2, Len(s) - 3), s[Len(s) - 1])
<1>1. Len(s) \in Nat /\ Len(s) >= 5
  BY GateShape
<1> QED
  BY <1>1 DEF IsGate

\* Stretches of the text inside a gate that are parts are texts.
LEMMA InnerPart ==
  ASSUME NEW g, NEW t, NEW e, IsGate(g, t, e), NEW i \in 1..Len(t), NEW j \in i..Len(t),
         IsPart(SubSeq(t, i, j))
  PROVE  /\ SubSeq(t, i, j) \in Texts
         /\ SubSeq(t, i, j) = SubSeq(g, i + 1, j + 1)
         /\ i + 1 \in 1..Len(g) /\ j + 1 \in 1..Len(g)
<1> DEFINE n == Len(g)
<1>1. g \in Seq(Token) /\ n \in Nat /\ n >= 5 /\ Len(t) = n - 4
  BY GateInner
<1>2. t = SubSeq(g, 2, n - 3) /\ g \in Texts
  BY DEF IsGate
<1> HIDE DEF n
<1>3. /\ 2 \in 1..n /\ n - 3 \in 2..n /\ i \in 1..((n - 3) - 2 + 1) /\ j \in i..((n - 3) - 2 + 1)
      /\ 2 + i - 1 = i + 1 /\ 2 + j - 1 = j + 1 /\ i + 1 \in 1..n /\ j + 1 \in 1..n
  BY <1>1
<1>4. SubSeq(SubSeq(g, 2, n - 3), i, j) = SubSeq(g, 2 + i - 1, 2 + j - 1)
  BY <1>1, <1>3, SubOfSub DEF n
<1>5. SubSeq(t, i, j) = SubSeq(g, i + 1, j + 1)
  BY <1>2, <1>3, <1>4
<1>6. IsPart(SubSeq(g, i + 1, j + 1))
  BY <1>5, Zenon
<1>7. SubSeq(g, i + 1, j + 1) \in Texts
  BY <1>2, <1>3, <1>6, PartIsText DEF n
<1> QED
  BY <1>3, <1>5, <1>7 DEF n

-----------------------------------------------------------------------------
(* The parts of a gate, by where they begin.                               *)

\* A stretch from i to j that is a part: where it begins, and what it opens.
LEMMA StretchPart ==
  ASSUME NEW s \in Seq(Token), NEW i \in 1..Len(s), NEW j \in 1..Len(s), IsPart(SubSeq(s, i, j))
  PROVE  /\ i <= j
         /\ s[i] \in Attribute \cup {"("}
         /\ Deep(s, j) = Deep(s, i - 1)
         /\ \A k \in i..(j - 1) : Deep(s, k) > Deep(s, i - 1)
<1> DEFINE u == SubSeq(s, i, j)
<1>1. i <= j
  <2> SUFFICES ASSUME j < i PROVE FALSE
    OBVIOUS
  <2>1. u = <<>>
    BY SubSeqEmpty
  <2> QED
    BY <2>1, PartNotEmpty
<1>2. /\ i \in 1..(Len(s) + 1) /\ j \in (i - 1)..Len(s) /\ j \in i..Len(s)
      /\ i - 1 \in 0..Len(s) /\ j \in 0..Len(s) /\ j - i + 1 \in Nat /\ j - i + 1 >= 1
  BY <1>1
<1>3. u \in Seq(Token) /\ Len(u) = j - i + 1 /\ \A k \in 1..(j - i + 1) : u[k] = s[i + k - 1]
  BY <1>2, SubFacts
<1>4. u[1] = s[i]
  <2>1. 1 \in 1..(j - i + 1) /\ i + 1 - 1 = i
    BY <1>2
  <2> QED
    BY <1>3, <2>1
<1>5. Deep(s, j) \in Int /\ Deep(s, i - 1) \in Int
  BY <1>2, DeepStep
<1>6. Opened(u) = Deep(s, j) - Deep(s, i - 1)
  BY <1>2, OpenedStretch
<1>7. ASSUME NEW k \in i..(j - 1)
      PROVE  /\ Opened(SubSeq(u, 1, (k - i) + 1)) = Deep(s, k) - Deep(s, i - 1)
             /\ (k - i) + 1 \in 1..(Len(u) - 1) /\ Deep(s, k) \in Int
  <2>1. /\ 1 \in 1..(j - i + 1) /\ (k - i) + 1 \in 1..(j - i + 1) /\ i + 1 - 1 = i
        /\ i + ((k - i) + 1) - 1 = k /\ k \in (i - 1)..Len(s) /\ k \in 0..Len(s)
        /\ (k - i) + 1 \in 1..((j - i + 1) - 1)
    <3>1. /\ i \in Int /\ j \in Int /\ k \in Int /\ Len(s) \in Int
          /\ 1 <= i /\ i <= k /\ k <= j - 1 /\ j <= Len(s)
      OBVIOUS
    <3> QED
      BY <3>1
  <2>2. SubSeq(u, 1, (k - i) + 1) = SubSeq(s, i + 1 - 1, i + ((k - i) + 1) - 1)
    BY <1>2, <2>1, SubOfSub
  <2>3. Opened(SubSeq(s, i, k)) = Deep(s, k) - Deep(s, i - 1)
    BY <2>1, OpenedStretch
  <2>4. Deep(s, k) \in Int
    BY <2>1, DeepStep
  <2> QED
    BY <1>3, <2>1, <2>2, <2>3, <2>4
<1>8. IsPart(u)
  OBVIOUS
<1> HIDE DEF u
<1>9. CASE Len(u) = 1 /\ u[1] \in Attribute
  <2>1. i = j
    <3>1. i \in Int /\ j \in Int
      OBVIOUS
    <3>2. j - i + 1 = 1
      BY <1>3, <1>9
    <3> QED
      BY <3>1, <3>2
  <2>2. Deep(s, j) = Deep(s, j - 1) + Delta(s[j]) /\ Delta(s[j]) = 0
    BY <1>4, <1>9, <2>1, DeepStep, DeltaOf
  <2> QED
    BY <1>1, <1>4, <1>5, <1>9, <2>1, <2>2
<1>10. CASE /\ Len(u) > 1 /\ Opened(u) = 0
            /\ \A k \in 1..(Len(u) - 1) : Opened(SubSeq(u, 1, k)) > 0
  <2>1. Deep(s, j) = Deep(s, i - 1)
    BY <1>5, <1>6, <1>10
  <2>2. ASSUME NEW k \in i..(j - 1) PROVE Deep(s, k) > Deep(s, i - 1)
    <3>1. Opened(SubSeq(u, 1, (k - i) + 1)) > 0
      BY <1>7, <1>10
    <3>2. Deep(s, k) - Deep(s, i - 1) > 0 /\ Deep(s, k) \in Int
      BY <1>7, <3>1
    <3> QED
      BY <1>5, <3>2
  <2>3. s[i] = "("
    <3>1. i \in i..(j - 1)
      BY <1>2, <1>3, <1>10
    <3>2. Deep(s, i) > Deep(s, i - 1) /\ Deep(s, i) = Deep(s, i - 1) + Delta(s[i])
      BY <2>2, <3>1, DeepStep
    <3>3. Delta(s[i]) \in {-1, 0, 1} /\ (s[i] # "(" => Delta(s[i]) <= 0)
      BY DEF Delta
    <3> QED
      BY <1>5, <3>2, <3>3
  <2> QED
    BY <1>1, <2>1, <2>2, <2>3
<1> QED
  BY <1>8, <1>9, <1>10 DEF IsPart

\* Such a stretch, told by the brackets.
LEMMA PartStretch ==
  ASSUME NEW s \in Seq(Token), NEW i \in 1..Len(s), NEW j \in 1..Len(s), i < j,
         Deep(s, j) = Deep(s, i - 1), \A k \in i..(j - 1) : Deep(s, k) > Deep(s, i - 1)
  PROVE  IsPart(SubSeq(s, i, j))
<1> DEFINE u == SubSeq(s, i, j)
<1>1. /\ i \in 1..(Len(s) + 1) /\ j \in (i - 1)..Len(s) /\ j \in i..Len(s)
      /\ i - 1 \in 0..Len(s) /\ j \in 0..Len(s) /\ j - i + 1 > 1 /\ j - i + 1 \in Nat
  OBVIOUS
<1>2. u \in Seq(Token) /\ Len(u) = j - i + 1
  BY <1>1, SubFacts
<1>3. Deep(s, j) \in Int /\ Deep(s, i - 1) \in Int
  BY <1>1, DeepStep
<1>4. Opened(u) = 0
  BY <1>1, <1>3, OpenedStretch
<1>5. ASSUME NEW m \in 1..(Len(u) - 1) PROVE Opened(SubSeq(u, 1, m)) > 0
  <2> DEFINE k == (i + m) - 1
  <2>1. /\ 1 \in 1..(j - i + 1) /\ m \in 1..(j - i + 1) /\ i + 1 - 1 = i
        /\ i + m - 1 = k /\ k \in (i - 1)..Len(s) /\ k \in 0..Len(s) /\ k \in i..(j - 1)
    <3>1. /\ i \in Int /\ j \in Int /\ m \in Int /\ Len(s) \in Int
          /\ 1 <= i /\ 1 <= m /\ m <= j - i /\ j <= Len(s)
      BY <1>2
    <3> QED
      BY <3>1
  <2> HIDE DEF k
  <2>2. SubSeq(u, 1, m) = SubSeq(s, i + 1 - 1, i + m - 1)
    BY <1>1, <2>1, SubOfSub
  <2>3. Opened(SubSeq(s, i, k)) = Deep(s, k) - Deep(s, i - 1)
    BY <2>1, OpenedStretch
  <2>4. Deep(s, k) \in Int /\ Deep(s, k) > Deep(s, i - 1)
    BY <2>1, DeepStep
  <2>5. Deep(s, k) - Deep(s, i - 1) > 0
    BY <1>3, <2>4
  <2> QED
    BY <2>1, <2>2, <2>3, <2>5
<1> HIDE DEF u
<1>6. Len(u) > 1
  BY <1>1, <1>2
<1>7. IsPart(u)
  BY <1>4, <1>5, <1>6 DEF IsPart
<1> QED
  BY <1>7 DEF u

\* A name alone is a part.
LEMMA NamePart ==
  ASSUME NEW s \in Seq(Token), NEW i \in 1..Len(s), s[i] \in Attribute
  PROVE  SubSeq(s, i, i) = <<s[i]>> /\ IsPart(SubSeq(s, i, i))
<1>1. i \in 1..(Len(s) + 1) /\ i \in (i - 1)..Len(s) /\ i - i + 1 = 1 /\ i + 1 - 1 = i /\ 1 \in 1..1
  OBVIOUS
<1>2. /\ SubSeq(s, i, i) \in Seq(Token) /\ Len(SubSeq(s, i, i)) = 1 /\ SubSeq(s, i, i)[1] = s[i]
  BY <1>1, SubFacts
<1>3. SubSeq(s, i, i) = <<s[i]>>
  <2>1. \A u \in Seq(Token) : Len(u) = 1 => u = <<u[1]>>
    OBVIOUS
  <2> QED
    BY <1>2, <2>1, Zenon
<1> QED
  BY <1>2, <1>3 DEF IsPart

\* Where a part begins decides where it ends.
LEMMA PartEnds ==
  ASSUME NEW s \in Seq(Token), NEW i \in 1..Len(s), NEW j \in 1..Len(s), NEW k \in 1..Len(s),
         IsPart(SubSeq(s, i, j)), IsPart(SubSeq(s, i, k))
  PROVE  ~ (j < k)
<1> SUFFICES ASSUME j < k PROVE FALSE
  OBVIOUS
<1>1. i <= j /\ Deep(s, j) = Deep(s, i - 1)
  BY StretchPart
<1>2. j \in i..(k - 1)
  BY <1>1
<1>3. Deep(s, j) > Deep(s, i - 1)
  BY <1>2, StretchPart
<1>4. Deep(s, j) \in Int
  <2>1. j \in 0..Len(s)
    OBVIOUS
  <2> QED
    BY <2>1, DeepStep
<1> QED
  BY <1>1, <1>3, <1>4

-----------------------------------------------------------------------------

\* The parts of a gate that begin before position m.
Begun(g, m) == {p \in PartsOf(g) : p[1] < m}

\* vec holds these parts, each once.
Numbered(ps, g, m, vec) ==
  /\ ps \in Bijection(DOMAIN vec, Begun(g, m))
  /\ \A x \in DOMAIN vec : vec[x] = SubSeq(g, ps[x][1], ps[x][2])
Pieces(g, m, vec) == \E ps : Numbered(ps, g, m, vec)

\* A part more.
LEMMA BegunStep ==
  ASSUME NEW g \in Seq(Token), NEW m \in 1..Len(g), NEW e \in m..Len(g), e + 1 <= Len(g),
         IsPart(SubSeq(g, m, e)), Deep(g, m - 1) = 1, g[e + 1] = Comma
  PROVE  Begun(g, e + 2) = Begun(g, m) \cup {<<m, e>>} /\ <<m, e>> \notin Begun(g, m)
<1> DEFINE n == Len(g)
<1>1. n \in Nat /\ e \in 1..n /\ m \in Int /\ e \in Int /\ m <= e
  OBVIOUS
<1>2. <<m, e>> \in PartsOf(g) /\ <<m, e>>[1] < e + 2 /\ ~ (<<m, e>>[1] < m)
  <2>1. m \in DOMAIN g /\ e \in DOMAIN g
    BY <1>1
  <2>2. <<m, e>> \in (DOMAIN g) \X (DOMAIN g)
    BY <2>1
  <2>3. Opened(SubSeq(g, 1, m - 1)) = 1
    BY DEF Deep
  <2>4. <<m, e>>[1] = m /\ <<m, e>>[2] = e
    OBVIOUS
  <2>5. m < e + 2 /\ ~ (m < m)
    BY <1>1
  <2> QED
    BY <2>2, <2>3, <2>4, <2>5 DEF PartsOf
<1>3. ASSUME NEW p \in Begun(g, e + 2), ~ (p[1] < m) PROVE p = <<m, e>>
  <2> DEFINE i == p[1]
             j == p[2]
  <2>1. /\ p = <<i, j>> /\ i \in 1..n /\ j \in 1..n /\ Deep(g, i - 1) = 1 /\ IsPart(SubSeq(g, i, j))
        /\ i < e + 2
    BY DEF Begun, PartsOf, Deep
  <2> HIDE DEF i, j, n
  <2>2. i \in Int /\ m <= i
    <3>1. i \in Int /\ ~ (i < m)
      BY <1>1, <1>3, <2>1 DEF i
    <3> QED
      BY <1>1, <3>1
  <2>3. i # e + 1
    <3>1. g[i] \in Attribute \cup {"("}
      BY <2>1, StretchPart DEF n
    <3> QED
      BY <3>1, Kinds
  <2>4. ~ (m < i /\ i <= e)
    <3> SUFFICES ASSUME m < i, i <= e PROVE FALSE
      OBVIOUS
    <3>1. i - 1 \in m..(e - 1)
      BY <1>1, <2>2
    <3>2. Deep(g, i - 1) > Deep(g, m - 1)
      BY <1>1, <3>1, StretchPart DEF n
    <3> QED
      BY <2>1, <3>2
  <2>5. i = m
    BY <1>1, <2>1, <2>2, <2>3, <2>4
  <2>6. ~ (j < e) /\ ~ (e < j)
    BY <1>1, <2>1, <2>5, PartEnds DEF n
  <2>7. j = e
    BY <1>1, <2>1, <2>6
  <2> QED
    BY <2>1, <2>5, <2>7
<1>4. ASSUME NEW p \in Begun(g, m) PROVE p \in Begun(g, e + 2)
  <2>1. p \in PartsOf(g) /\ p[1] < m /\ p[1] \in Int
    BY DEF Begun, PartsOf
  <2>2. p[1] < e + 2
    BY <1>1, <2>1
  <2> QED
    BY <2>1, <2>2 DEF Begun
<1>5. <<m, e>> \in Begun(g, e + 2)
  BY <1>2 DEF Begun
<1>6. \A p \in Begun(g, e + 2) : p \in Begun(g, m) \/ p = <<m, e>>
  BY <1>3 DEF Begun
<1>7. <<m, e>> \notin Begun(g, m)
  BY <1>2 DEF Begun
<1> QED
  BY <1>4, <1>5, <1>6, <1>7

-----------------------------------------------------------------------------
(* The parts found so far, and the text they join to.                      *)

LEMMA BijectionStep ==
  ASSUME NEW n \in Nat, NEW S, NEW y, y \notin S, NEW ps \in Bijection(1..n, S)
  PROVE  [x \in 1..(n + 1) |-> IF x <= n THEN ps[x] ELSE y] \in Bijection(1..(n + 1), S \cup {y})
<1> DEFINE F == [x \in 1..(n + 1) |-> IF x <= n THEN ps[x] ELSE y]
           D == 1..(n + 1)
           T == S \cup {y}
<1>1. /\ ps \in [1..n -> S] /\ (\A a, b \in 1..n : ps[a] = ps[b] => a = b)
      /\ \A t \in S : \E s \in 1..n : ps[s] = t
  <2> DEFINE E == 1..n
  <2>1. ps \in Bijection(E, S)
    OBVIOUS
  <2> HIDE DEF E
  <2>2. ps \in [E -> S] /\ (\A a, b \in E : ps[a] = ps[b] => a = b) /\ \A t \in S : \E s \in E : ps[s] = t
    <3>1. ps \in [E -> S]
      BY <2>1 DEF Bijection, Injection
    <3>2. \A a, b \in E : ps[a] = ps[b] => a = b
      BY <2>1 DEF Bijection, Injection, IsInjective
    <3>3. \A t \in S : \E s \in E : ps[s] = t
      BY <2>1 DEF Bijection, Surjection
    <3> QED
      BY <3>1, <3>2, <3>3
  <2> QED
    BY <2>2 DEF E
<1>2. (\A x \in 1..n : F[x] = ps[x] /\ x \in D /\ ps[x] \in S) /\ F[n + 1] = y /\ n + 1 \in D
      /\ F \in [D -> T] /\ \A x \in D : x \in 1..n \/ x = n + 1
  BY <1>1
<1> HIDE DEF F, D
<1>3. \A a, b \in D : F[a] = F[b] => a = b
  BY <1>1, <1>2
<1>4. \A t \in T : \E s \in D : F[s] = t
  BY <1>1, <1>2
<1>5. F \in Bijection(D, T)
  BY <1>2, <1>3, <1>4 DEF Bijection, Injection, Surjection, IsInjective
<1> QED
  BY <1>5 DEF F, D

\* No part has begun at the first bracket, and there is none without brackets.
LEMMA PiecesNone ==
  ASSUME NEW g \in Seq(Token), Len(g) >= 5
  PROVE  Pieces(g, 2, <<>>)
<1>1. Begun(g, 2) = {}
  <2> SUFFICES ASSUME NEW p \in Begun(g, 2) PROVE FALSE
    OBVIOUS
  <2>1. p[1] \in 1..Len(g) /\ p[1] < 2 /\ Deep(g, p[1] - 1) = 1
    BY DEF Begun, PartsOf, Deep
  <2>2. p[1] - 1 = 0
    BY <2>1
  <2>3. Deep(g, 0) = 0
    BY DeepStep
  <2> QED
    BY <2>1, <2>2, <2>3
<1> DEFINE F == [x \in {} |-> 0]
<1>2. F \in [{} -> {}] /\ DOMAIN <<>> = {}
  OBVIOUS
<1>3. F \in Bijection({}, {})
  <2>1. (\A a, b \in {} : F[a] = F[b] => a = b) /\ \A t \in {} : \E s \in {} : F[s] = t
    OBVIOUS
  <2> HIDE DEF F
  <2> QED
    BY <1>2, <2>1 DEF Bijection, Injection, Surjection, IsInjective
<1> HIDE DEF F
<1>4. Numbered(F, g, 2, <<>>)
  BY <1>1, <1>2, <1>3 DEF Numbered
<1> QED
  BY <1>4 DEF Pieces

LEMMA PiecesStep ==
  ASSUME NEW g \in Seq(Token), NEW m \in 1..Len(g), NEW e \in m..Len(g), e + 1 <= Len(g),
         IsPart(SubSeq(g, m, e)), Deep(g, m - 1) = 1, g[e + 1] = Comma,
         NEW vec \in Seq(Seq(Token)), Pieces(g, m, vec)
  PROVE  Pieces(g, e + 2, Append(vec, SubSeq(g, m, e)))
<1> DEFINE n == Len(vec)
           new == Append(vec, SubSeq(g, m, e))
<1>1. PICK ps : Numbered(ps, g, m, vec)
  BY DEF Pieces
<1>2. Begun(g, e + 2) = Begun(g, m) \cup {<<m, e>>} /\ <<m, e>> \notin Begun(g, m)
  BY BegunStep
<1>3. SubSeq(g, m, e) \in Seq(Token)
  <2>1. m \in 1..(Len(g) + 1) /\ e \in (m - 1)..Len(g)
    OBVIOUS
  <2> QED
    BY <2>1, SubFacts
<1>4. /\ n \in Nat /\ DOMAIN vec = 1..n /\ DOMAIN new = 1..(n + 1)
      /\ \A x \in 1..(n + 1) : new[x] = IF x <= n THEN vec[x] ELSE SubSeq(g, m, e)
  BY <1>3
<1>5. /\ ps \in Bijection(1..n, Begun(g, m))
      /\ \A x \in 1..n : vec[x] = SubSeq(g, ps[x][1], ps[x][2])
  BY <1>1, <1>4 DEF Numbered
<1> DEFINE F == [x \in 1..(n + 1) |-> IF x <= n THEN ps[x] ELSE <<m, e>>]
<1> HIDE DEF n, new
<1>6. F \in Bijection(1..(n + 1), Begun(g, e + 2))
  BY <1>2, <1>4, <1>5, BijectionStep
<1>7. ASSUME NEW x \in 1..(n + 1) PROVE new[x] = SubSeq(g, F[x][1], F[x][2])
  <2>1. CASE x <= n
    <3>1. x \in 1..n /\ F[x] = ps[x] /\ new[x] = vec[x]
      BY <1>4, <2>1
    <3> QED
      BY <1>5, <3>1
  <2>2. CASE ~ (x <= n)
    <3>1. F[x] = <<m, e>> /\ new[x] = SubSeq(g, m, e)
      BY <1>4, <2>2
    <3>2. <<m, e>>[1] = m /\ <<m, e>>[2] = e
      OBVIOUS
    <3> QED
      BY <3>1, <3>2
  <2> QED
    BY <2>1, <2>2
<1> HIDE DEF F
<1>8. Numbered(F, g, e + 2, new)
  BY <1>4, <1>6, <1>7 DEF Numbered
<1> QED
  BY <1>8 DEF Pieces, new

\* The pieces are parts, and texts.
LEMMA PieceFacts ==
  ASSUME NEW g \in Texts, NEW m, NEW vec, Pieces(g, m, vec)
  PROVE  \A x \in DOMAIN vec : IsPart(vec[x]) /\ vec[x] \in Texts
<1>1. PICK ps : Numbered(ps, g, m, vec)
  BY DEF Pieces
<1>2. g \in Seq(Token)
  BY TextFacts
<1>3. ASSUME NEW x \in DOMAIN vec PROVE IsPart(vec[x]) /\ vec[x] \in Texts
  <2>1. vec[x] = SubSeq(g, ps[x][1], ps[x][2]) /\ ps[x] \in Begun(g, m)
    BY <1>1 DEF Numbered, Bijection, Injection
  <2>2. ps[x][1] \in 1..Len(g) /\ ps[x][2] \in 1..Len(g) /\ IsPart(SubSeq(g, ps[x][1], ps[x][2]))
    BY <1>2, <2>1 DEF Begun, PartsOf
  <2> QED
    BY <2>1, <2>2, PartIsText
<1> QED
  BY <1>3

\* When the end of the text inside is reached, no part is missing.
LEMMA PiecesAll ==
  ASSUME NEW g, NEW t, NEW e, IsGate(g, t, e)
  PROVE  Begun(g, Len(t) + 3) = PartsOf(g)
<1> DEFINE n == Len(g)
<1>1. g \in Seq(Token) /\ n \in Nat /\ n >= 5 /\ Len(t) = n - 4
  BY GateInner
<1>2. IsDigit(g[n - 1]) /\ g[n] = ")"
  BY GateShape DEF IsGate
<1> HIDE DEF n
<1>3. ASSUME NEW p \in PartsOf(g) PROVE p[1] < Len(t) + 3
  <2> DEFINE i == p[1]
  <2>1. i \in 1..n /\ p[2] \in 1..n /\ IsPart(SubSeq(g, i, p[2]))
    BY <1>1 DEF PartsOf, n
  <2> HIDE DEF i
  <2>2. g[i] \in Attribute \cup {"("}
    BY <1>1, <2>1, StretchPart DEF n
  <2>3. i # n /\ i # n - 1
    BY <1>2, <2>2, Kinds
  <2>4. i < Len(t) + 3
    BY <1>1, <2>1, <2>3
  <2> QED
    BY <2>4 DEF i
<1> QED
  BY <1>3 DEF Begun

-----------------------------------------------------------------------------
(* Joined.                                                                 *)

Separated(x) == <<",">> \o x
WithCommas(vec) == [k \in DOMAIN vec |-> IF k = 1 THEN vec[k] ELSE Separated(vec[k])]

LEMMA JoinedIs == \A vec : Joined(vec) = FlattenSeq(WithCommas(vec))
BY DEF Joined, WithCommas, Separated

LEMMA SeparatedType ==
  ASSUME NEW x \in Seq(Token)
  PROVE  Separated(x) \in Seq(Token) /\ Separated(x) = <<Comma>> \o x
<1>1. <<Comma>> \in Seq(Token)
  BY Kinds
<1>2. Separated(x) = <<Comma>> \o x
  BY Zenon DEF Separated, Comma
<1> QED
  BY <1>1, <1>2

LEMMA WithCommasType ==
  ASSUME NEW vec \in Seq(Seq(Token))
  PROVE  WithCommas(vec) \in Seq(Seq(Token)) /\ Len(WithCommas(vec)) = Len(vec)
<1>1. DOMAIN vec = 1..Len(vec) /\ Len(vec) \in Nat
  OBVIOUS
<1>2. WithCommas(vec) \in [1..Len(vec) -> Seq(Token)]
  BY <1>1, SeparatedType DEF WithCommas
<1> QED
  BY <1>1, <1>2

LEMMA JoinedEmpty == Joined(<<>>) = <<>>
<1>1. WithCommas(<<>>) = <<>>
  <2>1. <<>> \in Seq(Seq(Token)) /\ Len(<<>>) = 0
    OBVIOUS
  <2>2. WithCommas(<<>>) \in Seq(Seq(Token)) /\ Len(WithCommas(<<>>)) = 0
    BY <2>1, WithCommasType
  <2> QED
    BY <2>2
<1> QED
  BY <1>1, JoinedIs, FlattenEmpty

LEMMA JoinedAppend ==
  ASSUME NEW vec \in Seq(Seq(Token)), NEW x \in Seq(Token)
  PROVE  /\ Joined(vec) \in Seq(Token)
         /\ vec = <<>> => Joined(Append(vec, x)) = x
         /\ vec # <<>> => Joined(Append(vec, x)) = Joined(vec) \o Separated(x)
<1> DEFINE y == IF vec = <<>> THEN x ELSE Separated(x)
           n == Len(vec)
           w == WithCommas(vec)
           z == WithCommas(Append(vec, x))
<1>1. y \in Seq(Token) /\ n \in Nat /\ (vec = <<>> <=> n = 0)
  BY SeparatedType
<1>2. /\ Append(vec, x) \in Seq(Seq(Token)) /\ Len(Append(vec, x)) = n + 1
      /\ \A k \in 1..n : Append(vec, x)[k] = vec[k]
      /\ Append(vec, x)[n + 1] = x
      /\ DOMAIN vec = 1..n /\ DOMAIN Append(vec, x) = 1..(n + 1)
  OBVIOUS
<1>3. /\ w \in Seq(Seq(Token)) /\ Len(w) = n
      /\ z \in Seq(Seq(Token)) /\ Len(z) = n + 1
  BY <1>2, WithCommasType
<1>4. /\ \A k \in 1..n : w[k] = IF k = 1 THEN vec[k] ELSE Separated(vec[k])
      /\ \A k \in 1..n : z[k] = IF k = 1 THEN vec[k] ELSE Separated(vec[k])
      /\ z[n + 1] = IF n + 1 = 1 THEN x ELSE Separated(x)
  <2>1. \A k \in 1..n : w[k] = IF k = 1 THEN vec[k] ELSE Separated(vec[k])
    BY <1>2 DEF WithCommas
  <2> DEFINE u == Append(vec, x)
  <2>2. \A k \in 1..(n + 1) : z[k] = IF k = 1 THEN u[k] ELSE Separated(u[k])
    BY <1>2 DEF WithCommas
  <2>3. n + 1 \in 1..(n + 1) /\ \A k \in 1..n : k \in 1..(n + 1)
    BY <1>1
  <2>4. (\A k \in 1..n : u[k] = vec[k]) /\ u[n + 1] = x
    BY <1>2
  <2> HIDE DEF u, w, z, n
  <2> QED
    BY <2>1, <2>2, <2>3, <2>4
<1> HIDE DEF w, z, n
<1>5. z[n + 1] = y
  BY <1>1, <1>4
<1> HIDE DEF y
<1>6. z = Append(w, y)
  <2> DEFINE v == Append(w, y)
             T == Seq(Token)
  <2>1. w \in Seq(T) /\ y \in T /\ z \in Seq(T)
    BY <1>1, <1>3
  <2> HIDE DEF T
  <2>2. v \in Seq(T) /\ Len(v) = n + 1 /\ (\A k \in 1..n : v[k] = w[k]) /\ v[n + 1] = y
    BY <1>3, <2>1
  <2> HIDE DEF v
  <2>3. ASSUME NEW k \in 1..(n + 1) PROVE z[k] = v[k]
    <3>1. CASE k = n + 1
      BY <1>5, <2>2, <3>1
    <3>2. CASE k # n + 1
      <4>1. k \in 1..n
        BY <1>1, <3>2
      <4> QED
        BY <1>4, <2>2, <4>1
    <3> QED
      BY <3>1, <3>2
  <2>4. z = v
    BY <1>3, <2>1, <2>2, <2>3, SeqEqual
  <2> QED
    BY <2>4 DEF v
<1>7. FlattenSeq(z) = FlattenSeq(w) \o y /\ FlattenSeq(w) \in Seq(Token)
  BY <1>1, <1>3, <1>6, FlattenAppend, FlattenType
<1>8. Joined(Append(vec, x)) = Joined(vec) \o y /\ Joined(vec) \in Seq(Token)
  BY <1>7, JoinedIs DEF w, z
<1>9. CASE vec = <<>>
  <2>1. y = x /\ Joined(vec) = <<>> /\ <<>> \o x = x
    BY <1>9, JoinedEmpty DEF y
  <2> QED
    BY <1>8, <1>9, <2>1
<1>10. CASE vec # <<>>
  BY <1>8, <1>10 DEF y
<1> QED
  BY <1>9, <1>10

-----------------------------------------------------------------------------
(* The splitting loop: what it has cut of a text.                          *)

\* The splitting loop at position a of the text t: in vec what stands before the
\* last separator, in u what has been collected since, c brackets open.
CutAt(t, a, c, b, u, vec) ==
  /\ b = a - Len(u) /\ b \in Nat
  /\ u \in Seq(Token) /\ vec \in Seq(Seq(Token))
  /\ \/ a <= Len(t) + 1 /\ b \in 1..Len(t) /\ b <= a
     \/ a = Len(t) + 2 /\ u = <<>>
  /\ u = SubSeq(t, b, a - 1)
  /\ b = 1 <=> vec = <<>>
  /\ b # 1 => b >= 3 /\ Joined(vec) = SubSeq(t, 1, b - 2)
  /\ b # 1 /\ b <= Len(t) => t[b - 1] = Comma /\ Deep(t, b - 1) = 0
  /\ a <= Len(t) + 1 => c = Deep(t, a - 1)
  /\ \A k \in b..(a - 1) : k < Len(t) => Deep(t, k) > 0
  /\ a = Len(t) + 1 => b = Len(t) /\ t[b] \in Attribute
Cut(t, a, c, u, vec) == a \in Nat /\ CutAt(t, a, c, a - Len(u), u, vec)

\* At the start.
LEMMA CutInit ==
  ASSUME NEW t, Inner(t)
  PROVE  Cut(t, 1, 0, <<>>, <<>>)
<1>1. t \in Seq(Token) /\ Len(t) \in Nat /\ Len(t) # 0
  BY DEF Inner
<1>2. /\ Len(<<>>) = 0 /\ <<>> \in Seq(Token) /\ <<>> \in Seq(Seq(Token)) /\ 1 - 0 = 1
      /\ 1 <= Len(t) + 1 /\ 1 \in 1..Len(t) /\ 1 # Len(t) + 1 /\ 1 - 1 = 0
  BY <1>1
<1>3. SubSeq(t, 1, 0) = <<>>
  BY SubSeqEmpty
<1>4. Deep(t, 0) = 0
  BY <1>1, DeepStep
<1> QED
  BY <1>1, <1>2, <1>3, <1>4 DEF Cut, CutAt

\* What holds wherever the loop reads a token.
Reads(t, a, c, b, u, vec) ==
  /\ t \in Seq(Token) /\ Len(t) \in Nat /\ a \in 1..Len(t) /\ b \in 1..a
  /\ u \in Seq(Token) /\ vec \in Seq(Seq(Token))
  /\ t[a] \in Token /\ c = Deep(t, a - 1) /\ Deep(t, a) = c + Delta(t[a])
  /\ c \in Int /\ c >= 0 /\ Deep(t, a) >= 0 /\ Deep(t, a) \in Int
  /\ Append(u, t[a]) = SubSeq(t, b, a)
  /\ Deep(t, b - 1) = 0
  /\ t[b] \in Attribute \cup {"("}

LEMMA CutReads ==
  ASSUME NEW t, Inner(t), NEW a, NEW c, NEW u, NEW vec, Cut(t, a, c, u, vec), a <= Len(t)
  PROVE  Reads(t, a, c, a - Len(u), u, vec)
<1> DEFINE b == a - Len(u)
<1>1. /\ t \in Seq(Token) /\ Len(t) \in Nat /\ Len(t) # 0 /\ Grammatical(t)
      /\ t[1] \in Attribute \cup {"("} /\ t[Len(t)] \in Attribute \cup {")"}
      /\ \A k \in 1..Len(t) : Deep(t, k) >= 0
  BY DEF Inner
<1>2. CutAt(t, a, c, b, u, vec) /\ a \in Nat
  BY DEF Cut
<1> HIDE DEF b
<1>3. /\ b \in Nat /\ b \in 1..Len(t) /\ b <= a /\ u \in Seq(Token) /\ vec \in Seq(Seq(Token))
      /\ u = SubSeq(t, b, a - 1) /\ c = Deep(t, a - 1)
  <2>1. a <= Len(t) + 1 /\ a # Len(t) + 2
    BY <1>1, <1>2
  <2>2. b \in Nat /\ u \in Seq(Token) /\ vec \in Seq(Seq(Token)) /\ u = SubSeq(t, b, a - 1)
    BY <1>2, Zenon DEF CutAt
  <2>3. \/ a <= Len(t) + 1 /\ b \in 1..Len(t) /\ b <= a
        \/ a = Len(t) + 2 /\ u = <<>>
    BY <1>2, Zenon DEF CutAt
  <2>4. a <= Len(t) + 1 => c = Deep(t, a - 1)
    BY <1>2, Zenon DEF CutAt
  <2> QED
    BY <2>1, <2>2, <2>3, <2>4
<1>4. a \in 1..Len(t) /\ b \in 1..a /\ a \in b..Len(t) /\ a - 1 \in 0..Len(t) /\ a \in 0..Len(t)
  BY <1>1, <1>2, <1>3
<1>5. t[a] \in Token
  BY <1>1, <1>4
<1>6. Deep(t, a) = c + Delta(t[a]) /\ c \in Int /\ Deep(t, a) \in Int /\ Deep(t, a) >= 0
  BY <1>1, <1>3, <1>4, DeepStep
<1>7. c >= 0
  <2>1. CASE a = 1
    <3>1. Deep(t, 0) = 0 /\ 1 - 1 = 0
      BY <1>1, DeepStep
    <3> QED
      BY <1>3, <2>1, <3>1
  <2>2. CASE a # 1
    <3>1. a - 1 \in 1..Len(t)
      BY <1>4, <2>2
    <3> QED
      BY <1>1, <1>3, <3>1
  <2> QED
    BY <2>1, <2>2
<1>8. Append(u, t[a]) = SubSeq(t, b, a)
  BY <1>1, <1>3, <1>4, SubAppend
<1>9. Deep(t, b - 1) = 0 /\ t[b] \in Attribute \cup {"("}
  <2>1. CASE b = 1
    <3>1. Deep(t, 0) = 0 /\ 1 - 1 = 0
      BY <1>1, DeepStep
    <3> QED
      BY <1>1, <2>1, <3>1
  <2>2. CASE b # 1
    <3>1. b <= Len(t)
      BY <1>1, <1>3
    <3>2. t[b - 1] = Comma /\ Deep(t, b - 1) = 0
      BY <1>2, <2>2, <3>1 DEF CutAt
    <3>3. b - 1 \in 1..(Len(t) - 1) /\ (b - 1) + 1 = b
      <4>1. b \in Int /\ Len(t) \in Int /\ 1 <= b /\ b <= Len(t) /\ b # 1
        BY <1>1, <1>3, <2>2
      <4> QED
        BY <4>1
    <3>4. MayFollow(t[b - 1], t[b])
      BY <1>1, <3>3 DEF Grammatical
    <3>5. t[b] \in Attribute \cup {"("} \/ IsDigit(t[b])
      BY <3>2, <3>4, Following
    <3>6. ~ IsDigit(t[b])
      <4> SUFFICES ASSUME IsDigit(t[b]) PROVE FALSE
        OBVIOUS
      <4>1. b # Len(t)
        BY <1>1, Kinds
      <4>2. b \in 1..(Len(t) - 1) /\ b + 1 \in 1..Len(t) /\ b \in 1..Len(t) /\ (b + 1) - 1 = b
        <5>1. b \in Int /\ Len(t) \in Int /\ 1 <= b /\ b <= Len(t) /\ b # Len(t)
          BY <1>1, <1>3, <4>1
        <5> QED
          BY <5>1
      <4>3. MayFollow(t[b], t[b + 1])
        BY <1>1, <4>2 DEF Grammatical
      <4>4. t[b + 1] = ")"
        BY <4>3, Following
      <4>5. Deep(t, b) = 0 + Delta(t[b]) /\ Deep(t, b + 1) = Deep(t, b) + Delta(t[b + 1])
        BY <1>1, <3>2, <4>2, DeepStep
      <4>6. Delta(t[b]) = 0 /\ Delta(t[b + 1]) = -1
        BY <4>4, DeltaOf
      <4>7. Deep(t, b + 1) >= 0
        BY <1>1, <4>2
      <4> QED
        BY <4>5, <4>6, <4>7
    <3> QED
      BY <3>2, <3>5, <3>6
  <2> QED
    BY <2>1, <2>2
<1>10. Reads(t, a, c, b, u, vec)
  BY <1>1, <1>3, <1>4, <1>5, <1>6, <1>7, <1>8, <1>9 DEF Reads
<1> QED
  BY <1>10 DEF b

\* Parts with commas between them, and one part more.
LEMMA JoinedMore ==
  ASSUME NEW t \in Seq(Token), NEW vec \in Seq(Seq(Token)),
         NEW b \in 1..Len(t), NEW e \in b..Len(t),
         b = 1 <=> vec = <<>>,
         b # 1 => b >= 3 /\ Joined(vec) = SubSeq(t, 1, b - 2) /\ t[b - 1] = Comma
  PROVE  Joined(Append(vec, SubSeq(t, b, e))) = SubSeq(t, 1, e)
<1> DEFINE p == SubSeq(t, b, e)
           n == Len(t)
<1>1. b \in 1..(n + 1) /\ e \in (b - 1)..n /\ n \in Nat /\ b \in Int /\ e \in Int /\ b <= e /\ e <= n
  OBVIOUS
<1>2. p \in Seq(Token) /\ Len(p) = e - b + 1 /\ \A k \in 1..(e - b + 1) : p[k] = t[b + k - 1]
  BY <1>1, SubFacts
<1>3. CASE b = 1
  BY <1>2, <1>3, JoinedAppend
<1>4. CASE b # 1
  <2> DEFINE h == SubSeq(t, 1, b - 2)
             s == Separated(p)
             w == h \o s
             v == SubSeq(t, 1, e)
  <2>1. b >= 3 /\ Joined(vec) = h /\ t[b - 1] = Comma /\ vec # <<>>
    BY <1>4
  <2>2. Joined(Append(vec, p)) = w
    BY <1>2, <2>1, JoinedAppend
  <2>3. 1 \in 1..(n + 1) /\ b - 2 \in (1 - 1)..n /\ e \in (1 - 1)..n
        /\ (b - 2) - 1 + 1 = b - 2 /\ e - 1 + 1 = e /\ b - 2 \in Nat /\ e - b + 1 \in Nat
        /\ \A k \in Int : 1 + k - 1 = k
    BY <1>1, <2>1
  <2>4. /\ h \in Seq(Token) /\ Len(h) = (b - 2) - 1 + 1
        /\ \A k \in 1..((b - 2) - 1 + 1) : h[k] = t[1 + k - 1]
    BY <2>3, SubFacts
  <2>5. /\ v \in Seq(Token) /\ Len(v) = e - 1 + 1 /\ \A k \in 1..(e - 1 + 1) : v[k] = t[1 + k - 1]
    BY <2>3, SubFacts
  <2>6. h \in Seq(Token) /\ Len(h) = b - 2 /\ \A k \in 1..(b - 2) : h[k] = t[k]
    BY <2>3, <2>4
  <2>7. v \in Seq(Token) /\ Len(v) = e /\ \A k \in 1..e : v[k] = t[k]
    BY <2>3, <2>5
  <2> HIDE DEF h, v, p, n
  <2>8. /\ s \in Seq(Token) /\ Len(s) = e - b + 2 /\ s[1] = Comma
        /\ \A k \in 1..(e - b + 1) : s[k + 1] = p[k]
    <3>1. s \in Seq(Token) /\ s = <<Comma>> \o p
      BY <1>2, SeparatedType
    <3>2. Comma \in Token
      BY Kinds
    <3>3. Len(<<Comma>> \o p) = 1 + Len(p) /\ (<<Comma>> \o p)[1] = Comma
          /\ \A k \in 1..Len(p) : (<<Comma>> \o p)[k + 1] = p[k]
      <4> DEFINE q == <<Comma>>
      <4>1. q \in Seq(Token) /\ Len(q) = 1 /\ q[1] = Comma /\ p \in Seq(Token) /\ Len(p) \in Nat
        BY <1>2, <3>2
      <4> HIDE DEF q
      <4>a. q \in Seq(Token) /\ p \in Seq(Token)
        BY <4>1
      <4>2. /\ Len(q \o p) = Len(q) + Len(p)
            /\ \A k \in 1..Len(q) : (q \o p)[k] = q[k]
            /\ \A k \in 1..Len(p) : (q \o p)[Len(q) + k] = p[k]
        BY <4>a
      <4>b. 1 \in 1..Len(q)
        BY <4>1
      <4>3. \A k \in 1..Len(p) : Len(q) + k = k + 1
        BY <4>1
      <4> QED
        BY <4>1, <4>b, <4>2, <4>3 DEF q
    <3>4. 1 + (e - b + 1) = e - b + 2
      BY <1>1
    <3> QED
      BY <1>2, <3>1, <3>3, <3>4
  <2> HIDE DEF s
  <2>9. /\ w \in Seq(Token) /\ Len(w) = Len(h) + Len(s)
        /\ \A k \in 1..Len(h) : w[k] = h[k]
        /\ \A k \in 1..Len(s) : w[Len(h) + k] = s[k]
    <3>1. h \in Seq(Token) /\ s \in Seq(Token)
      BY <2>6, <2>8
    <3> HIDE DEF h
    <3> QED
      BY <3>1, SMTT(30)
  <2> HIDE DEF w
  <2>10. Len(w) = e
    <3>1. (b - 2) + (e - b + 2) = e
      BY <1>1
    <3> QED
      BY <2>6, <2>8, <2>9, <3>1
  <2>11. ASSUME NEW k \in 1..e PROVE w[k] = v[k]
    <3>1. CASE k <= b - 2
      <4>1. k \in 1..(b - 2)
        BY <1>1, <3>1
      <4> QED
        BY <2>6, <2>7, <2>9, <4>1
    <3>2. CASE k = b - 1
      <4>1. 1 \in 1..Len(s) /\ Len(h) + 1 = b - 1
        BY <1>1, <2>6, <2>8
      <4>2. w[b - 1] = Comma
        BY <2>8, <2>9, <4>1
      <4>3. v[k] = t[k]
        BY <2>7
      <4> QED
        BY <2>1, <3>2, <4>2, <4>3
    <3>3. CASE k >= b
      <4> DEFINE i == (k - b) + 1
      <4>1. i \in 1..(e - b + 1) /\ i + 1 \in 1..Len(s) /\ Len(h) + (i + 1) = k /\ b + i - 1 = k
        <5>1. k \in Int /\ b <= k /\ k <= e /\ Len(s) = e - b + 2 /\ Len(h) = b - 2
          BY <2>6, <2>8, <3>3
        <5> QED
          BY <1>1, <5>1
      <4> HIDE DEF i
      <4>2. w[k] = s[i + 1] /\ s[i + 1] = p[i] /\ p[i] = t[k]
        BY <1>2, <2>8, <2>9, <4>1
      <4>3. v[k] = t[k]
        BY <2>7
      <4> QED
        BY <4>2, <4>3
    <3> QED
      BY <1>1, <3>1, <3>2, <3>3
  <2>12. w = v
    BY <2>7, <2>9, <2>10, <2>11, SeqEqual
  <2> QED
    BY <2>2, <2>12 DEF v, p
<1> QED
  BY <1>3, <1>4

-----------------------------------------------------------------------------
(* The splitting loop: one turn.                                           *)

SplitAt(g, t, e, a, c, u, vec) ==
  /\ IsGate(g, t, e)
  /\ Cut(t, a, c, u, vec)
  /\ Pieces(g, (a - Len(u)) + 1, vec)

LEMMA SplitInit ==
  ASSUME NEW g, NEW t, NEW e, IsGate(g, t, e)
  PROVE  SplitAt(g, t, e, 1, 0, <<>>, <<>>)
<1>1. Inner(t) /\ g \in Seq(Token) /\ Len(g) >= 5
  BY GateInner
<1>2. (1 - Len(<<>>)) + 1 = 2
  OBVIOUS
<1> QED
  BY <1>1, <1>2, CutInit, PiecesNone DEF SplitAt

\* The stretch since the last separator is a part, and the next begins two
\* positions further.
LEMMA SplitPart ==
  ASSUME NEW g, NEW t, NEW e, NEW a, NEW c, NEW u, NEW vec, SplitAt(g, t, e, a, c, u, vec),
         a <= Len(t), Deep(t, a) = 0, IsPart(Append(u, t[a])),
         a < Len(t) => t[a + 1] = Comma
  PROVE  SplitAt(g, t, e, a + 2, 0, <<>>, Append(vec, Append(u, t[a])))
<1> DEFINE b == a - Len(u)
           n == Len(t)
           p == Append(u, t[a])
           new == Append(vec, p)
<1>0. Inner(t) /\ Cut(t, a, c, u, vec) /\ IsGate(g, t, e) /\ Pieces(g, b + 1, vec)
  BY GateInner DEF SplitAt
<1>1. /\ t \in Seq(Token) /\ n \in Nat /\ a \in 1..n /\ b \in 1..a
      /\ vec \in Seq(Seq(Token)) /\ p = SubSeq(t, b, a) /\ Deep(t, b - 1) = 0
  <2>1. Reads(t, a, c, b, u, vec)
    BY <1>0, CutReads, Zenon
  <2> QED
    BY <2>1 DEF Reads
<1>2. t[n] \in Attribute \cup {")"}
  BY <1>0 DEF Inner
<1>3. a + 1 # n
  <2> SUFFICES ASSUME a + 1 = n PROVE FALSE
    OBVIOUS
  <2>1. a < n
    BY <1>1
  <2>2. t[n] = Comma
    BY <2>1
  <2> QED
    BY <1>2, <2>2, Kinds
<1>4. b \in Int /\ a \in Int /\ 1 <= b /\ b <= a /\ a <= n /\ b \in 1..n /\ a \in b..n
  BY <1>1
<1>5. CutAt(t, a, c, b, u, vec)
  BY <1>0 DEF Cut
<1>6. /\ b = 1 <=> vec = <<>>
      /\ b # 1 => b >= 3 /\ Joined(vec) = SubSeq(t, 1, b - 2) /\ t[b - 1] = Comma
  <2>1. b <= Len(t)
    BY <1>4
  <2>2. /\ b = 1 <=> vec = <<>>
        /\ b # 1 => b >= 3 /\ Joined(vec) = SubSeq(t, 1, b - 2)
    BY <1>5, Zenon DEF CutAt
  <2>3. b # 1 /\ b <= Len(t) => t[b - 1] = Comma
    BY <1>5, Zenon DEF CutAt
  <2> QED
    BY <2>1, <2>2, <2>3, Zenon
<1>7. p \in Seq(Token)
  <2>1. b \in 1..(n + 1) /\ a \in (b - 1)..n
    BY <1>1, <1>4
  <2> QED
    BY <1>1, <2>1, SubFacts
<1> HIDE DEF p, b
<1>8. Joined(new) = SubSeq(t, 1, a)
  BY <1>1, <1>4, <1>6, JoinedMore
<1>9. new \in Seq(Seq(Token)) /\ new # <<>>
  <2> DEFINE T == Seq(Token)
  <2>1. vec \in Seq(T) /\ p \in T
    BY <1>1, <1>7
  <2> HIDE DEF T
  <2>2. new \in Seq(T) /\ new # <<>>
    BY <2>1
  <2> QED
    BY <2>2 DEF T
<1> HIDE DEF new
<1>10. CutAt(t, a + 2, 0, a + 2, <<>>, new)
  <2>1. a + 2 = (a + 2) - Len(<<>>) /\ a + 2 \in Nat /\ <<>> \in Seq(Token)
    BY <1>4
  <2>2. \/ a + 2 <= n + 1 /\ a + 2 \in 1..n /\ a + 2 <= a + 2
        \/ a + 2 = n + 2 /\ <<>> = <<>>
    BY <1>1, <1>3, <1>4
  <2>3. <<>> = SubSeq(t, a + 2, (a + 2) - 1)
    <3>1. (a + 2) - 1 < a + 2 /\ a + 2 \in Int /\ (a + 2) - 1 \in Int
      BY <1>4
    <3> QED
      BY <3>1, SubSeqEmpty
  <2>4. a + 2 # 1 /\ a + 2 >= 3 /\ (a + 2) - 2 = a /\ (a + 2) - 1 = a + 1
    BY <1>4
  <2>5. a + 2 <= n => t[a + 1] = Comma /\ Deep(t, a + 1) = 0
    <3> SUFFICES ASSUME a + 2 <= n PROVE t[a + 1] = Comma /\ Deep(t, a + 1) = 0
      OBVIOUS
    <3>1. a < n /\ a + 1 \in 1..n /\ (a + 1) - 1 = a
      BY <1>1, <1>4
    <3>2. Deep(t, a + 1) = 0 + Delta(t[a + 1])
      BY <1>1, <3>1, DeepStep
    <3>3. t[a + 1] = Comma
      BY <3>1
    <3> QED
      BY <3>2, <3>3, DeltaOf
  <2>6. a + 2 <= n + 1 => 0 = Deep(t, a + 1)
    <3> SUFFICES ASSUME a + 2 <= n + 1 PROVE 0 = Deep(t, a + 1)
      OBVIOUS
    <3>1. a + 2 <= n
      BY <1>1, <1>3, <1>4
    <3> QED
      BY <2>5, <3>1
  <2>7. \A k \in (a + 2)..(a + 1) : k < n => Deep(t, k) > 0
    <3>1. (a + 2)..(a + 1) = {}
      BY <1>4
    <3> QED
      BY <3>1
  <2>8. a + 2 # n + 1
    BY <1>1, <1>3, <1>4
  <2> QED
    BY <1>8, <1>9, <2>1, <2>2, <2>3, <2>4, <2>5, <2>6, <2>7, <2>8, Zenon DEF CutAt, n
<1>11. Cut(t, a + 2, 0, <<>>, new)
  <2>1. (a + 2) - Len(<<>>) = a + 2 /\ a + 2 \in Nat
    BY <1>4
  <2> QED
    BY <1>10, <2>1 DEF Cut
<1>12. Pieces(g, a + 3, new)
  <2> DEFINE l == Len(g)
  <2>1. /\ n = l - 4 /\ l \in Nat /\ g \in Seq(Token)
        /\ (\A k \in 1..n : t[k] = g[k + 1]) /\ \A k \in 0..n : Deep(t, k) = Deep(g, k + 1) - 1
    BY <1>0, GateInner
  <2>2. IsPart(SubSeq(t, b, a))
    BY <1>1 DEF p
  <2>3. SubSeq(t, b, a) = SubSeq(g, b + 1, a + 1)
    BY <1>0, <1>4, <2>2, InnerPart
  <2> HIDE DEF n, l
  <2>4. /\ b + 1 \in 1..l /\ a + 1 \in (b + 1)..l /\ (a + 1) + 1 <= l /\ (b + 1) - 1 = b
        /\ b - 1 \in 0..n /\ (b - 1) + 1 = b /\ (a + 1) + 1 = a + 2 /\ (a + 1) + 2 = a + 3
        /\ b \in 0..l
    <3>1. n \in Int /\ l = n + 4 /\ a \in Int /\ b \in Int /\ 1 <= b /\ b <= a /\ a <= n
      BY <1>4, <2>1
    <3> QED
      BY <3>1
  <2>5. Deep(g, b) = 1
    <3>1. Deep(t, b - 1) = Deep(g, b) - 1
      BY <2>1, <2>4
    <3>2. Deep(g, b) \in Int
      BY <2>1, <2>4, DeepStep DEF l
    <3> QED
      BY <1>1, <3>1, <3>2
  <2>6. g[a + 2] = Comma
    <3>1. CASE a < n
      <4>1. a + 1 \in 1..n
        BY <1>1, <1>4, <3>1
      <4>2. t[a + 1] = g[(a + 1) + 1]
        BY <2>1, <4>1
      <4>3. t[a + 1] = Comma
        BY <3>1 DEF n
      <4> QED
        BY <2>4, <4>2, <4>3
    <3>2. CASE ~ (a < n)
      <4>1. a + 2 = l - 2
        BY <1>1, <1>4, <2>1, <3>2
      <4>2. g[l - 2] = Comma
        BY <1>0, GateShape DEF IsGate, l
      <4> QED
        BY <4>1, <4>2
    <3> QED
      BY <3>1, <3>2
  <2>7. IsPart(SubSeq(g, b + 1, a + 1)) /\ p = SubSeq(g, b + 1, a + 1)
    BY <1>1, <2>2, <2>3
  <2>8. Pieces(g, (a + 1) + 2, Append(vec, SubSeq(g, b + 1, a + 1)))
    <3> DEFINE m == b + 1
               h == a + 1
    <3>1. /\ m \in 1..l /\ h \in m..l /\ h + 1 <= l /\ IsPart(SubSeq(g, m, h))
          /\ Deep(g, m - 1) = 1 /\ g[h + 1] = Comma /\ Pieces(g, m, vec)
      BY <1>0, <2>4, <2>5, <2>6, <2>7 DEF b
    <3> HIDE DEF m, h
    <3>2. Pieces(g, h + 2, Append(vec, SubSeq(g, m, h)))
      BY <1>1, <2>1, <3>1, PiecesStep DEF l
    <3> QED
      BY <3>2 DEF m, h
  <2> QED
    BY <2>4, <2>7, <2>8 DEF new
<1>13. ((a + 2) - Len(<<>>)) + 1 = a + 3
  BY <1>4
<1> QED
  BY <1>0, <1>11, <1>12, <1>13 DEF SplitAt, new, p

\* A closing bracket that leaves none open ends a part.
LEMMA SplitGroup ==
  ASSUME NEW g, NEW t, NEW e, NEW a, NEW c, NEW u, NEW vec, SplitAt(g, t, e, a, c, u, vec),
         a <= Len(t), Deep(t, a) = 0, t[a] = ")"
  PROVE  /\ SplitAt(g, t, e, a + 2, 0, <<>>, Append(vec, Append(u, t[a])))
         /\ ~ (a < Len(t) /\ t[a + 1] = ")")
<1> DEFINE b == a - Len(u)
<1>0. Inner(t) /\ Cut(t, a, c, u, vec) /\ IsGate(g, t, e)
  BY GateInner DEF SplitAt
<1>1. /\ t \in Seq(Token) /\ Len(t) \in Nat /\ a \in 1..Len(t) /\ b \in 1..a
      /\ Append(u, t[a]) = SubSeq(t, b, a) /\ Deep(t, b - 1) = 0 /\ t[b] \in Attribute \cup {"("}
  <2>1. Reads(t, a, c, b, u, vec)
    BY <1>0, CutReads, Zenon
  <2> QED
    BY <2>1 DEF Reads
<1>2. ASSUME a < Len(t) PROVE t[a + 1] = Comma
  <2>1. a \in 1..(Len(t) - 1)
    BY <1>1, <1>2
  <2>2. MayFollow(t[a], t[a + 1])
    BY <1>0, <2>1 DEF Inner, Grammatical
  <2> QED
    BY <2>2, Following
<1>3. b # a
  BY <1>1, Kinds
<1>4. CutAt(t, a, c, b, u, vec)
  BY <1>0 DEF Cut
<1>5. \A k \in b..(a - 1) : k < Len(t) => Deep(t, k) > 0
  BY <1>4 DEF CutAt
<1> HIDE DEF b
<1>6. \A k \in b..(a - 1) : Deep(t, k) > Deep(t, b - 1)
  <2>1. \A k \in b..(a - 1) : k < Len(t)
    BY <1>1
  <2> QED
    BY <1>1, <1>5, <2>1
<1>7. b \in 1..Len(t) /\ b < a
  BY <1>1, <1>3
<1>8. IsPart(SubSeq(t, b, a))
  BY <1>1, <1>6, <1>7, PartStretch
<1>9. IsPart(Append(u, t[a]))
  BY <1>1, <1>8
<1>10. SplitAt(g, t, e, a + 2, 0, <<>>, Append(vec, Append(u, t[a])))
  BY <1>2, <1>9, SplitPart
<1> QED
  BY <1>2, <1>10, Kinds

\* What is collected when a comma follows outside brackets is one name.
LEMMA SplitName ==
  ASSUME NEW g, NEW t, NEW e, NEW a, NEW c, NEW u, NEW vec, SplitAt(g, t, e, a, c, u, vec),
         a < Len(t), Deep(t, a) = 0, t[a] # ")", t[a + 1] = Comma
  PROVE  SplitAt(g, t, e, a + 2, 0, <<>>, Append(vec, Append(u, t[a])))
<1> DEFINE b == a - Len(u)
<1>0. Inner(t) /\ Cut(t, a, c, u, vec) /\ IsGate(g, t, e) /\ Len(t) \in Nat /\ a \in Nat /\ a <= Len(t)
  <2>1. Inner(t) /\ Cut(t, a, c, u, vec) /\ IsGate(g, t, e)
    BY GateInner DEF SplitAt
  <2>2. Len(t) \in Nat /\ a \in Nat
    BY <2>1 DEF Inner, Cut
  <2> QED
    BY <2>1, <2>2
<1>1. /\ t \in Seq(Token) /\ a \in 1..Len(t) /\ b \in 1..a
      /\ c = Deep(t, a - 1) /\ Deep(t, a) = c + Delta(t[a]) /\ c \in Int
      /\ Append(u, t[a]) = SubSeq(t, b, a) /\ Deep(t, b - 1) = 0 /\ t[b] \in Attribute \cup {"("}
  <2>1. Reads(t, a, c, b, u, vec)
    BY <1>0, CutReads, Zenon
  <2> QED
    BY <2>1 DEF Reads
<1>2. t[a] \in Attribute
  <2>1. a \in 1..(Len(t) - 1)
    BY <1>0, <1>1
  <2>2. MayFollow(t[a], t[a + 1])
    BY <1>0, <2>1 DEF Inner, Grammatical
  <2> QED
    BY <2>2, Following
<1>3. CutAt(t, a, c, b, u, vec)
  BY <1>0 DEF Cut
<1>4. \A k \in b..(a - 1) : k < Len(t) => Deep(t, k) > 0
  BY <1>3 DEF CutAt
<1> HIDE DEF b
<1>5. b = a
  <2> SUFFICES ASSUME b # a PROVE FALSE
    OBVIOUS
  <2>1. a - 1 \in b..(a - 1) /\ a - 1 < Len(t)
    BY <1>0, <1>1
  <2>2. Deep(t, a - 1) > 0
    BY <1>4, <2>1
  <2>3. Delta(t[a]) = 0
    BY <1>2, DeltaOf
  <2> QED
    BY <1>1, <2>2, <2>3
<1>6. IsPart(SubSeq(t, a, a))
  BY <1>1, <1>2, NamePart
<1>7. IsPart(Append(u, t[a]))
  BY <1>1, <1>5, <1>6
<1> QED
  BY <1>0, <1>7, SplitPart

\* Any other token is collected.
LEMMA SplitTake ==
  ASSUME NEW g, NEW t, NEW e, NEW a, NEW c, NEW u, NEW vec, SplitAt(g, t, e, a, c, u, vec),
         a <= Len(t), Deep(t, a) = 0 => t[a] # ")" /\ ~ (a < Len(t) /\ t[a + 1] = Comma)
  PROVE  SplitAt(g, t, e, a + 1, Deep(t, a), Append(u, t[a]), vec)
<1> DEFINE b == a - Len(u)
           n == Len(t)
           p == Append(u, t[a])
<1>0. Inner(t) /\ Cut(t, a, c, u, vec) /\ IsGate(g, t, e) /\ Pieces(g, b + 1, vec)
  BY GateInner DEF SplitAt
<1>1. /\ t \in Seq(Token) /\ n \in Nat /\ a \in 1..n /\ b \in 1..a /\ u \in Seq(Token)
      /\ t[a] \in Token /\ c = Deep(t, a - 1) /\ Deep(t, a) = c + Delta(t[a]) /\ c \in Int /\ c >= 0
      /\ p = SubSeq(t, b, a) /\ Deep(t, b - 1) = 0 /\ t[b] \in Attribute \cup {"("}
      /\ Deep(t, a) >= 0 /\ Deep(t, a) \in Int
  <2>1. Reads(t, a, c, b, u, vec)
    BY <1>0, CutReads, Zenon
  <2> QED
    BY <2>1 DEF Reads
<1>2. CutAt(t, a, c, b, u, vec)
  BY <1>0 DEF Cut
<1>3. \A k \in b..(a - 1) : k < n => Deep(t, k) > 0
  BY <1>2 DEF CutAt
<1>4. p \in Seq(Token) /\ Len(p) = Len(u) + 1 /\ (a + 1) - Len(p) = b /\ Len(u) \in Nat
  BY <1>1
<1>4a. b \in Int /\ a \in Int /\ n \in Int /\ 1 <= b /\ b <= a /\ a <= n
  BY <1>1
<1>5. ASSUME a < n, Deep(t, a) = 0 PROVE FALSE
  <2>1. t[a] # ")" /\ t[a + 1] # Comma
    BY <1>5
  <2>2. a \in 1..(n - 1) /\ a + 1 \in 1..n /\ (a + 1) - 1 = a
    BY <1>4a, <1>5
  <2>3. MayFollow(t[a], t[a + 1])
    BY <1>0, <2>2 DEF Inner, Grammatical
  <2>4. t[a] \notin Attribute
    BY <2>1, <2>3, Following
  <2>5. ~ IsDigit(t[a])
    <3> SUFFICES ASSUME IsDigit(t[a]) PROVE FALSE
      OBVIOUS
    <3>1. t[a + 1] = ")"
      BY <2>3, Following
    <3>2. Deep(t, a + 1) = 0 + Delta(t[a + 1])
      BY <1>1, <1>5, <2>2, DeepStep
    <3>3. Delta(t[a + 1]) = -1
      BY <3>1, DeltaOf
    <3>4. Deep(t, a + 1) >= 0
      BY <1>0, <2>2 DEF Inner
    <3> QED
      BY <3>2, <3>3, <3>4
  <2>6. t[a] # "("
    <3> SUFFICES ASSUME t[a] = "(" PROVE FALSE
      OBVIOUS
    <3>1. Delta(t[a]) = 1
      BY DeltaOf
    <3> QED
      BY <1>1, <1>5, <3>1
  <2>7. t[a] # Comma
    <3> SUFFICES ASSUME t[a] = Comma PROVE FALSE
      OBVIOUS
    <3>1. Delta(t[a]) = 0
      BY DeltaOf
    <3>2. b # a
      BY <1>1, Kinds
    <3>3. a - 1 \in b..(a - 1) /\ a - 1 < n
      BY <1>4a, <3>2
    <3>4. Deep(t, a - 1) > 0
      BY <1>3, <3>3
    <3> QED
      BY <1>1, <1>5, <3>1, <3>4
  <2> QED
    BY <1>1, <2>1, <2>4, <2>5, <2>6, <2>7, Kinds
<1>6. ASSUME a = n PROVE b = n /\ t[b] \in Attribute
  <2>1. Deep(t, a) = 0 /\ t[a] \in Attribute \cup {")"}
    BY <1>0, <1>6 DEF Inner
  <2>2. t[a] \in Attribute
    BY <2>1
  <2>3. b = a
    <3> SUFFICES ASSUME b # a PROVE FALSE
      OBVIOUS
    <3>1. a - 1 \in b..(a - 1) /\ a - 1 < n
      BY <1>4a
    <3>2. Deep(t, a - 1) > 0
      BY <1>3, <3>1
    <3>3. Delta(t[a]) = 0
      BY <2>2, DeltaOf
    <3> QED
      BY <1>1, <2>1, <3>2, <3>3
  <2> QED
    BY <1>6, <2>2, <2>3
<1>7. /\ b \in Nat /\ vec \in Seq(Seq(Token))
      /\ b = 1 <=> vec = <<>>
      /\ b # 1 => b >= 3 /\ Joined(vec) = SubSeq(t, 1, b - 2)
      /\ b # 1 /\ b <= Len(t) => t[b - 1] = Comma /\ Deep(t, b - 1) = 0
  BY <1>2, Zenon DEF CutAt
<1> HIDE DEF b, p, n
<1>8. CutAt(t, a + 1, Deep(t, a), b, p, vec)
  <2>1. (a + 1) - 1 = a
    BY <1>4a
  <2>2. b = (a + 1) - Len(p) /\ p = SubSeq(t, b, (a + 1) - 1) /\ p \in Seq(Token)
    BY <1>1, <1>4, <2>1
  <2>3. a + 1 <= n + 1 /\ b \in 1..n /\ b <= a + 1
    BY <1>4a
  <2>4. a + 1 <= n + 1 => Deep(t, a) = Deep(t, (a + 1) - 1)
    BY <2>1
  <2>5. \A k \in b..((a + 1) - 1) : k < n => Deep(t, k) > 0
    <3> SUFFICES ASSUME NEW k \in b..a, k < n PROVE Deep(t, k) > 0
      BY <2>1
    <3>1. CASE k = a
      BY <1>1, <1>5, <3>1
    <3>2. CASE k # a
      <4>1. k \in b..(a - 1)
        BY <1>4a, <3>2
      <4> QED
        BY <1>3, <4>1
    <3> QED
      BY <3>1, <3>2
  <2>6. a + 1 = n + 1 => b = n /\ t[b] \in Attribute
    BY <1>4a, <1>6
  <2> QED
    BY <1>7, <2>2, <2>3, <2>4, <2>5, <2>6, Zenon DEF CutAt, n
<1>9. Cut(t, a + 1, Deep(t, a), p, vec)
  <2>1. a + 1 \in Nat
    BY <1>4a
  <2> QED
    BY <1>4, <1>8, <2>1 DEF Cut
<1> QED
  BY <1>0, <1>4, <1>9 DEF SplitAt, p

-----------------------------------------------------------------------------
(* The splitting loop: its end.                                            *)

PartsIn(u, vec) == IF u = <<>> THEN vec ELSE Append(vec, u)

\* When the loop has read the text, no part is missing and no comma.
LEMMA SplitEnd ==
  ASSUME NEW g, NEW t, NEW e, NEW a, NEW c, NEW u, NEW vec, SplitAt(g, t, e, a, c, u, vec),
         ~ (a <= Len(t))
  PROVE  Joined(PartsIn(u, vec)) = t /\ Pieces(g, Len(t) + 3, PartsIn(u, vec))
<1> DEFINE b == a - Len(u)
           n == Len(t)
<1>0. Inner(t) /\ Cut(t, a, c, u, vec) /\ IsGate(g, t, e) /\ Pieces(g, b + 1, vec)
  BY GateInner DEF SplitAt
<1>1. /\ t \in Seq(Token) /\ n \in Nat /\ t[n] \in Attribute \cup {")"} /\ Deep(t, n) = 0
  BY <1>0 DEF Inner
<1>2. CutAt(t, a, c, b, u, vec) /\ a \in Nat
  BY <1>0 DEF Cut
<1>3. /\ b \in Nat /\ vec \in Seq(Seq(Token)) /\ u \in Seq(Token) /\ u = SubSeq(t, b, a - 1)
      /\ b = 1 <=> vec = <<>>
      /\ b # 1 => b >= 3 /\ Joined(vec) = SubSeq(t, 1, b - 2)
      /\ b # 1 /\ b <= Len(t) => t[b - 1] = Comma /\ Deep(t, b - 1) = 0
  BY <1>2, Zenon DEF CutAt
<1>4. \/ a <= n + 1 /\ b \in 1..n /\ b <= a
      \/ a = n + 2 /\ u = <<>>
  BY <1>2, Zenon DEF CutAt, n
<1>5. a = n + 1 => b = n /\ t[b] \in Attribute
  BY <1>2, Zenon DEF CutAt, n
<1>6. ~ (a <= n)
  OBVIOUS
<1>7. CASE a = n + 2 /\ u = <<>>
  <2>1. b = n + 2
    <3>1. Len(<<>>) = 0
      OBVIOUS
    <3> QED
      BY <1>1, <1>7, <3>1
  <2>2. b # 1 /\ b - 2 = n /\ b + 1 = n + 3
    BY <1>1, <2>1
  <2>3. Joined(vec) = SubSeq(t, 1, n)
    BY <1>3, <2>2
  <2>4. SubSeq(t, 1, n) = t
    BY <1>1, SubSeqFull
  <2>5. PartsIn(u, vec) = vec
    BY <1>7 DEF PartsIn
  <2> HIDE DEF b
  <2>6. Pieces(g, n + 3, vec)
    BY <1>0, <2>2
  <2> QED
    BY <2>3, <2>4, <2>5, <2>6
<1>8. CASE a <= n + 1 /\ b \in 1..n
  <2>1. a = n + 1
    BY <1>1, <1>2, <1>6, <1>8
  <2>2. b = n /\ t[n] \in Attribute
    BY <1>5, <2>1
  <2> HIDE DEF b, n
  <2>3. n \in 1..n /\ a - 1 = n /\ n \in n..n
    BY <1>1, <1>8, <2>1, <2>2
  <2>4. SubSeq(t, n, n) = <<t[n]>> /\ IsPart(SubSeq(t, n, n))
    BY <1>1, <2>2, <2>3, NamePart DEF n
  <2>5. u = SubSeq(t, n, n)
    BY <1>3, <2>2, <2>3
  <2>6. u # <<>>
    BY <2>4, <2>5, PartNotEmpty
  <2>7. PartsIn(u, vec) = Append(vec, u)
    BY <2>6 DEF PartsIn
  <2>8. /\ n = 1 <=> vec = <<>>
        /\ n # 1 => n >= 3 /\ Joined(vec) = SubSeq(t, 1, n - 2) /\ t[n - 1] = Comma
    <3>1. n <= Len(t)
      BY <1>1 DEF n
    <3> QED
      BY <1>3, <2>2, <3>1
  <2>9. Joined(Append(vec, SubSeq(t, n, n))) = SubSeq(t, 1, n)
    BY <1>1, <1>3, <2>3, <2>8, JoinedMore, ZenonT(60) DEF n
  <2>10. SubSeq(t, 1, n) = t
    BY <1>1, SubSeqFull DEF n
  <2>11. Deep(t, n - 1) = 0
    <3>1. Deep(t, n) = Deep(t, n - 1) + Delta(t[n]) /\ Delta(t[n]) = 0
      BY <1>1, <2>2, <2>3, DeepStep, DeltaOf DEF n
    <3>2. n - 1 \in 0..n
      BY <2>3
    <3>3. Deep(t, n - 1) \in Int
      BY <1>1, <3>2, DeepStep DEF n
    <3> QED
      BY <1>1, <3>1, <3>3
  <2>12. Pieces(g, n + 3, Append(vec, u))
    <3> DEFINE l == Len(g)
               m == n + 1
    <3>1. n = l - 4 /\ l \in Nat /\ g \in Seq(Token) /\ \A k \in 0..n : Deep(t, k) = Deep(g, k + 1) - 1
      BY <1>0, GateInner DEF n
    <3>2. SubSeq(t, n, n) = SubSeq(g, n + 1, n + 1)
      <4>1. n \in 1..Len(t) /\ n \in n..Len(t) /\ IsPart(SubSeq(t, n, n)) /\ IsGate(g, t, e)
        BY <1>0, <2>3, <2>4 DEF n
      <4> QED
        <5> HIDE DEF n
        <5> QED
          BY <4>1, InnerPart
    <3>3. g[l - 2] = Comma
      BY <1>0, GateShape DEF IsGate
    <3> HIDE DEF l
    <3>4. /\ m \in 1..l /\ m \in m..l /\ m + 1 <= l /\ m + 1 = l - 2 /\ m - 1 = n /\ m + 2 = n + 3
          /\ n - 1 \in 0..n /\ (n - 1) + 1 = n /\ n \in 0..l
      BY <1>1, <2>3, <3>1
    <3>5. Deep(g, n) = 1
      <4>1. Deep(t, n - 1) = Deep(g, n) - 1
        BY <3>1, <3>4
      <4>2. Deep(g, n) \in Int
        BY <3>1, <3>4, DeepStep DEF l
      <4> QED
        BY <2>11, <4>1, <4>2
    <3>6. Pieces(g, m, vec)
      BY <1>0, <2>2
    <3> HIDE DEF m
    <3>7. IsPart(SubSeq(g, m, m)) /\ u = SubSeq(g, m, m)
      BY <2>4, <2>5, <3>2 DEF m
    <3>8. g[m + 1] = Comma /\ Deep(g, m - 1) = 1
      BY <3>3, <3>4, <3>5
    <3>9. Pieces(g, m + 2, Append(vec, SubSeq(g, m, m)))
      BY <1>3, <3>1, <3>4, <3>6, <3>7, <3>8, PiecesStep DEF l
    <3> QED
      BY <3>4, <3>7, <3>9
  <2> QED
    BY <2>5, <2>7, <2>9, <2>10, <2>12 DEF n
<1> QED
  BY <1>4, <1>7, <1>8

-----------------------------------------------------------------------------
(* The types, and the shape of the matrix.                                 *)

\* The threshold of a gate that is being split.
Threshold == pc = "split" => d \in 1..9

IInv == TypeOK /\ Rectangular /\ Threshold

-----------------------------------------------------------------------------
(* Sequences.                                                              *)

\* A function on 1..n is a sequence of that length.
LEMMA FunctionIsSequence ==
  ASSUME NEW n \in Nat, NEW v, v = [i \in 1..n |-> v[i]]
  PROVE IsSequence(v) /\ Len(v) = n
<1>1. DOMAIN v = 1..n
  OBVIOUS
<1>2. v \in [1..n -> Range(v)]
  BY <1>1 DEF Range
<1> QED
  BY <1>2 DEF IsSequence

LEMMA PaddedProperties ==
  ASSUME NEW v, IsSequence(v), NEW n \in Nat
  PROVE /\ IsSequence(Padded(v, n))
        /\ Len(Padded(v, n)) = IF Len(v) < n THEN n ELSE Len(v)
<1> DEFINE m == IF Len(v) < n THEN n ELSE Len(v)
<1>1. m \in Nat
  BY DEF IsSequence
<1>2. Padded(v, n) = [c \in 1..m |-> Padded(v, n)[c]]
  BY DEF Padded
<1> QED
  BY <1>1, <1>2, FunctionIsSequence

LEMMA WithPowersProperties ==
  ASSUME NEW v, IsSequence(v), NEW x, NEW t \in 1..9
  PROVE /\ IsSequence(WithPowers(v, x, t))
        /\ Len(WithPowers(v, x, t)) = Len(v) + t - 1
<1> DEFINE m == Len(v) + t - 1
<1>1. m \in Nat
  BY DEF IsSequence
<1>2. WithPowers(v, x, t) = [c \in 1..m |-> WithPowers(v, x, t)[c]]
  BY DEF WithPowers
<1> QED
  BY <1>1, <1>2, FunctionIsSequence

\* What Front and Last leave of the stack.
LEMMA FrontLast ==
  ASSUME NEW v, IsSequence(v), v # <<>>
  PROVE /\ IsSequence(Front(v)) /\ Len(Front(v)) = Len(v) - 1
        /\ \A i \in 1..(Len(v) - 1) : Front(v)[i] = v[i]
        /\ Len(v) \in DOMAIN v /\ Last(v) = v[Len(v)]
        /\ DOMAIN v = 1..Len(v) /\ DOMAIN Front(v) = 1..(Len(v) - 1)
<1>1. v \in Seq(Range(v)) /\ Len(v) \in Nat /\ DOMAIN v = 1..Len(v) /\ Len(v) # 0
  BY DEF IsSequence
<1>2. \A i \in 1..(Len(v) - 1) : v[i] \in Range(v)
  BY <1>1 DEF Range
<1>3. /\ Front(v) \in Seq(Range(v)) /\ Len(Front(v)) = Len(v) - 1
      /\ \A i \in 1..(Len(v) - 1) : Front(v)[i] = v[i]
  BY <1>1, <1>2, SubSeqProperties DEF Front
<1> QED
  BY <1>1, <1>3, SeqIsSequence DEF Last

\* What Append adds.
LEMMA AppendSequence ==
  ASSUME NEW v, IsSequence(v), NEW e
  PROVE /\ IsSequence(Append(v, e)) /\ Len(Append(v, e)) = Len(v) + 1
        /\ DOMAIN Append(v, e) = 1..(Len(v) + 1)
        /\ \A i \in 1..(Len(v) + 1) : Append(v, e)[i] = IF i <= Len(v) THEN v[i] ELSE e
<1> DEFINE S == Range(v) \cup {e}
<1>1. v \in Seq(S) /\ e \in S
  BY DEF IsSequence
<1> HIDE DEF S
<1>2. Append(v, e) \in Seq(S) /\ Len(Append(v, e)) = Len(v) + 1 /\ Len(v) \in Nat
  BY <1>1, AppendProperties
<1>3. \A i \in 1..(Len(v) + 1) : Append(v, e)[i] = IF i <= Len(v) THEN v[i] ELSE e
  BY <1>1, <1>2, AppendProperties
<1>4. DOMAIN Append(v, e) = 1..(Len(v) + 1)
  BY <1>2
<1> QED
  BY <1>2, <1>3, <1>4, SeqIsSequence

\* A sequence followed by another.
LEMMA ConcatSequence ==
  ASSUME NEW v, IsSequence(v), NEW w, IsSequence(w)
  PROVE /\ IsSequence(v \o w)
        /\ DOMAIN (v \o w) = 1..(Len(v) + Len(w))
        /\ \A i \in 1..(Len(v) + Len(w)) :
             (v \o w)[i] = IF i <= Len(v) THEN v[i] ELSE w[i - Len(v)]
<1> DEFINE S == Range(v) \cup Range(w)
<1>1. v \in Seq(S) /\ w \in Seq(S)
  BY DEF IsSequence
<1> HIDE DEF S
<1>2. v \o w \in Seq(S) /\ Len(v \o w) = Len(v) + Len(w)
  BY <1>1, ConcatProperties
<1>3. \A i \in 1..(Len(v) + Len(w)) :
        (v \o w)[i] = IF i <= Len(v) THEN v[i] ELSE w[i - Len(v)]
  BY <1>1, ConcatProperties
<1>4. DOMAIN (v \o w) = 1..(Len(v) + Len(w))
  BY <1>2
<1> QED
  BY <1>2, <1>3, <1>4, SeqIsSequence

\* A sequence turned around.
LEMMA ReverseSequence ==
  ASSUME NEW v, IsSequence(v)
  PROVE /\ IsSequence(Reverse(v)) /\ Len(Reverse(v)) = Len(v)
        /\ \A i \in 1..Len(v) : \E j \in 1..Len(v) : Reverse(v)[i] = v[j]
<1>1. Len(v) \in Nat
  BY DEF IsSequence
<1>2. Reverse(v) = [i \in 1..Len(v) |-> Reverse(v)[i]]
  BY DEF Reverse
<1>3. \A i \in 1..Len(v) : Reverse(v)[i] = v[(Len(v) - i) + 1] /\ (Len(v) - i) + 1 \in 1..Len(v)
  BY <1>1 DEF Reverse
<1> QED
  BY <1>1, <1>2, <1>3, FunctionIsSequence

-----------------------------------------------------------------------------

LEMMA InitIInv == Init => IInv
<1> SUFFICES ASSUME Init PROVE IInv
  OBVIOUS
<1>1. policy \in Seq(Token)
  BY PoliciesAssumption DEF Init
<1>2. IsSequence(<<>>) /\ IsSequence(<<1>>) /\ IsSequence(stk)
  BY SeqIsSequence, <<>> \in Seq({}), <<1>> \in Seq({1}), stk \in Seq({Pair(<<1>>, policy)})
  DEF Init
<1>3. DOMAIN stk = {1} /\ stk[1].vec = <<1>> /\ stk[1].text = policy
  BY DEF Init, Pair
<1>4. DOMAIN M = {} /\ Len(M) = 0 /\ Len(rho) = 0 /\ Len(text) = 0
  BY DEF Init, text, Pair
<1>5. TypeOK
  BY <1>1, <1>2, <1>3, <1>4 DEF Init, TypeOK, IsPair, Pair
<1>6. counter = 1 /\ Len(stk[1].vec) = 1 /\ pc = "loop"
  BY <1>3 DEF Init
<1>7. Rectangular /\ Threshold
  <2>1. \A s \in DOMAIN stk : Len(stk[s].vec) <= counter
    <3> SUFFICES ASSUME NEW s \in DOMAIN stk PROVE Len(stk[s].vec) <= counter
      OBVIOUS
    <3>1. s = 1
      BY <1>3
    <3>2. Len(stk[s].vec) = counter
      BY <1>6, <3>1
    <3>3. counter <= counter
      BY <1>6
    <3> QED
      BY <3>2, <3>3
  <2>2. pc # "split" /\ pc # "done"
    BY <1>6
  <2>3. \A r \in DOMAIN M : Len(M[r]) <= counter
    BY <1>4
  <2> QED
    BY <1>4, <2>1, <2>2, <2>3 DEF Rectangular, Threshold
<1> QED
  BY <1>5, <1>7 DEF IInv

LEMMA StepIInv == IInv /\ [Next]_vars => IInv'
<1> SUFFICES ASSUME IInv, [Next]_vars PROVE IInv'
  OBVIOUS
<1>1. TypeOK /\ Rectangular /\ Threshold
  BY DEF IInv
<1>2. IsSequence(stk) /\ IsSequence(M) /\ text \in Seq(Token) /\ IsSequence(top.vec)
  BY <1>1 DEF TypeOK, IsPair, text
<1>3. CASE Leaf
  <2> DEFINE n == Len(stk)
  <2>1. /\ stk # <<>> /\ stk' = Front(stk) /\ M' = Append(M, stk[n].vec)
        /\ rho' = Append(rho, stk[n].text)
        /\ UNCHANGED <<policy, counter, top, d, at, ct, substr, substrvec, pc>> /\ pc = "loop"
    BY <1>3 DEF Leaf, splitVars, Last
  <2>2. /\ IsSequence(stk') /\ DOMAIN stk' \subseteq DOMAIN stk
        /\ \A i \in DOMAIN stk' : stk'[i] = stk[i]
        /\ n \in DOMAIN stk
    <3>1. /\ IsSequence(Front(stk)) /\ Len(stk) \in DOMAIN stk
          /\ DOMAIN stk = 1..Len(stk) /\ DOMAIN Front(stk) = 1..(Len(stk) - 1)
          /\ \A i \in 1..(Len(stk) - 1) : Front(stk)[i] = stk[i]
      BY <1>2, <2>1, FrontLast
    <3>2. Len(stk) \in Nat
      BY <1>2 DEF IsSequence
    <3> QED
      BY <2>1, <3>1, <3>2
  <2>3. IsPair(stk[n]) /\ Len(stk[n].vec) <= counter
    BY <1>1, <2>2 DEF TypeOK, Rectangular
  <2>4. /\ IsSequence(M') /\ Len(M') = Len(M) + 1 /\ DOMAIN M' = 1..(Len(M) + 1)
        /\ \A i \in 1..(Len(M) + 1) : M'[i] = IF i <= Len(M) THEN M[i] ELSE stk[n].vec
        /\ DOMAIN M = 1..Len(M) /\ Len(M) \in Nat
    BY <1>2, <2>1, AppendSequence DEF IsSequence
  <2>5. rho' \in Seq(Seq(Token)) /\ Len(rho') = Len(rho) + 1
    BY <1>1, <2>1, <2>3 DEF TypeOK, IsPair
  <2>6. TypeOK'
    BY <1>1, <2>1, <2>2, <2>3, <2>4, <2>5, SMTT(30) DEF TypeOK, IsPair, text
  <2>7. Rectangular'
    BY <1>1, <2>1, <2>2, <2>3, <2>4, <2>5 DEF Rectangular
  <2> QED
    BY <1>1, <2>1, <2>6, <2>7 DEF IInv, Threshold
<1>4. CASE Gate
  <2> DEFINE n == Len(stk)
             gate == stk[n].text
  <2>1. PICK t \in DOMAIN Digit : d' = t
    BY <1>4 DEF Gate
  <2>2. /\ stk # <<>> /\ stk' = Front(stk)
        /\ top' = Pair(stk[n].vec, SubSeq(gate, 2, Len(gate) - 3))
        /\ at' = 1 /\ ct' = 0 /\ substr' = <<>> /\ substrvec' = <<>> /\ pc' = "split"
        /\ UNCHANGED <<policy, M, rho, counter>>
    BY <1>4 DEF Gate, Last
  <2>3. t \in 1..9
    BY <2>1 DEF Digit
  <2>4. /\ IsSequence(stk') /\ DOMAIN stk' \subseteq DOMAIN stk
        /\ \A i \in DOMAIN stk' : stk'[i] = stk[i]
        /\ n \in DOMAIN stk
    <3>1. /\ IsSequence(Front(stk)) /\ Len(stk) \in DOMAIN stk
          /\ DOMAIN stk = 1..Len(stk) /\ DOMAIN Front(stk) = 1..(Len(stk) - 1)
          /\ \A i \in 1..(Len(stk) - 1) : Front(stk)[i] = stk[i]
      BY <1>2, <2>2, FrontLast
    <3>2. Len(stk) \in Nat
      BY <1>2 DEF IsSequence
    <3> QED
      BY <2>2, <3>1, <3>2
  <2>5. IsSequence(stk[n].vec) /\ gate \in Seq(Token) /\ Len(stk[n].vec) <= counter
    BY <1>1, <2>4 DEF TypeOK, Rectangular, IsPair
  <2>6. SubSeq(gate, 2, Len(gate) - 3) \in Seq(Token)
    BY <2>5, SubSeqProperties
  <2>7. top'.vec = stk[n].vec /\ top'.text \in Seq(Token) /\ text' = top'.text
    BY <2>2, <2>6 DEF Pair, text
  <2>8. TypeOK'
    BY <1>1, <2>1, <2>2, <2>3, <2>4, <2>5, <2>7, SMTT(30) DEF TypeOK, IsPair
  <2>9. Rectangular'
    BY <1>1, <2>2, <2>4, <2>5, <2>7 DEF Rectangular
  <2> QED
    BY <2>1, <2>3, <2>8, <2>9 DEF IInv, Threshold
<1>5. ASSUME Splitting PROVE taken \in Seq(Token) /\ depth \in Int
  <2>1. at \in 1..Len(text) /\ text[at] \in Token
    BY <1>1, <1>2, <1>5 DEF TypeOK, Splitting
  <2> QED
    BY <1>1, <2>1 DEF TypeOK, taken, depth
<1>6. ASSUME UNCHANGED splitRest, Splitting, substr' \in Seq(Token), substrvec' \in Seq(Seq(Token)),
             ct' \in Int, at' \in 1..(Len(text) + 2)
      PROVE IInv'
  <2>1. UNCHANGED <<policy, M, rho, stk, counter, top, d, pc>> /\ text' = text
    BY <1>6 DEF splitRest, text
  <2>2. TypeOK'
    BY <1>1, <1>6, <2>1 DEF TypeOK
  <2> QED
    BY <1>1, <2>1, <2>2 DEF IInv, Rectangular, Threshold
<1>7. CASE EndGroup
  <2>1. Splitting /\ UNCHANGED splitRest /\ at <= Len(text)
    BY <1>7 DEF EndGroup, Splitting
  <2>2. substrvec' \in Seq(Seq(Token))
    <3>1. Append(substrvec, taken) \in Seq(Seq(Token))
      BY <1>1, <1>5, <2>1 DEF TypeOK
    <3>2. <<<<>>>> \in Seq(Seq(Token)) /\ <<>> \in Seq(Seq(Token))
      OBVIOUS
    <3> QED
      BY <1>7, <3>1, <3>2 DEF EndGroup
  <2>3. substr' \in Seq(Token) /\ ct' \in Int /\ at' \in 1..(Len(text) + 2)
    BY <1>1, <1>2, <1>7, <2>1 DEF EndGroup, TypeOK, NextIs
  <2> QED
    BY <1>6, <2>1, <2>2, <2>3
<1>8. CASE EndName
  <2>1. Splitting /\ UNCHANGED splitRest /\ at <= Len(text)
    BY <1>8 DEF EndName, Splitting
  <2>2. substrvec' = Append(substrvec, taken) /\ ct' = depth /\ substr' = <<>> /\ at' = at + 2
    BY <1>8 DEF EndName
  <2>3. substrvec' \in Seq(Seq(Token)) /\ ct' \in Int /\ substr' \in Seq(Token)
    BY <1>1, <1>5, <2>1, <2>2 DEF TypeOK
  <2>4. at' \in 1..(Len(text) + 2)
    BY <1>1, <1>2, <2>1, <2>2 DEF TypeOK
  <2> QED
    BY <1>6, <2>1, <2>3, <2>4
<1>9. CASE Take
  <2>1. Splitting /\ UNCHANGED splitRest /\ at <= Len(text)
    BY <1>9 DEF Take, Splitting
  <2>2. substrvec' \in Seq(Seq(Token)) /\ substr' \in Seq(Token) /\ ct' \in Int
    BY <1>1, <1>5, <1>9, <2>1 DEF Take, TypeOK
  <2>3. at' \in 1..(Len(text) + 2)
    <3>1. at' = at + 1
      BY <1>9 DEF Take
    <3> QED
      BY <1>1, <1>2, <2>1, <3>1 DEF TypeOK
  <2> QED
    BY <1>6, <2>1, <2>2, <2>3
<1>10. CASE Abort
  <2>1. UNCHANGED <<policy, M, rho, stk, counter, top, d, at, ct, substr, substrvec>>
        /\ text' = text /\ pc' = "abort"
    BY <1>10 DEF Abort, splitVars, text
  <2> QED
    BY <1>1, <2>1 DEF IInv, TypeOK, Rectangular, Threshold
<1>11. CASE PushParts
  <2> DEFINE vec == Padded(top.vec, counter)
             n == Len(Parts)
             new == [x \in DOMAIN Parts |-> Pair(WithPowers(vec, x, d), Parts[x])]
  <2>1. /\ stk' = stk \o Reverse(new) /\ counter' = counter + d - 1 /\ pc = "split" /\ pc' = "loop"
        /\ UNCHANGED <<policy, M, rho, top, d, at, ct, substr, substrvec>> /\ text' = text
    BY <1>11 DEF PushParts, splitVars, text
  <2>2. d \in 1..9 /\ counter \in Nat \ {0} /\ Len(top.vec) <= counter /\ Len(top.vec) \in Nat
    BY <1>1, <1>2, <2>1 DEF TypeOK, Threshold, Rectangular, IsSequence
  <2>3. Parts \in Seq(Seq(Token)) /\ DOMAIN Parts = 1..n /\ n \in Nat
    BY <1>1 DEF TypeOK, Parts
  <2>4. IsSequence(vec) /\ Len(vec) = counter
    BY <1>2, <2>2, PaddedProperties
  <2> HIDE DEF vec
  <2>5. \A x \in 1..n : IsPair(new[x]) /\ Len(new[x].vec) = counter'
    <3> SUFFICES ASSUME NEW x \in 1..n PROVE IsPair(new[x]) /\ Len(new[x].vec) = counter'
      OBVIOUS
    <3>1. new[x].vec = WithPowers(vec, x, d) /\ new[x].text = Parts[x]
      BY <2>3 DEF Pair
    <3>2. IsSequence(WithPowers(vec, x, d)) /\ Len(WithPowers(vec, x, d)) = counter + d - 1
      BY <2>2, <2>4, WithPowersProperties
    <3> QED
      BY <2>1, <2>3, <3>1, <3>2 DEF IsPair
  <2>6. DOMAIN new = 1..n /\ new = [i \in 1..n |-> new[i]]
    BY <2>3
  <2> HIDE DEF new, n
  <2>7. /\ IsSequence(Reverse(new)) /\ Len(Reverse(new)) = n
        /\ \A i \in 1..n : \E j \in 1..n : Reverse(new)[i] = new[j]
    <3>1. IsSequence(new) /\ Len(new) = n
      BY <2>3, <2>6, FunctionIsSequence
    <3> QED
      BY <3>1, ReverseSequence
  <2>8. DOMAIN stk = 1..Len(stk) /\ Len(stk) \in Nat
    BY <1>2 DEF IsSequence
  <2>9. /\ IsSequence(stk') /\ DOMAIN stk' = 1..(Len(stk) + n)
        /\ \A i \in 1..(Len(stk) + n) :
             stk'[i] = IF i <= Len(stk) THEN stk[i] ELSE Reverse(new)[i - Len(stk)]
    <3>1. /\ IsSequence(stk \o Reverse(new))
          /\ DOMAIN (stk \o Reverse(new)) = 1..(Len(stk) + Len(Reverse(new)))
          /\ \A i \in 1..(Len(stk) + Len(Reverse(new))) :
               (stk \o Reverse(new))[i] = IF i <= Len(stk) THEN stk[i] ELSE Reverse(new)[i - Len(stk)]
      BY <1>2, <2>7, ConcatSequence, Zenon
    <3> QED
      BY <2>1, <2>7, <3>1, Zenon
  <2>10. \A i \in DOMAIN stk' : IsPair(stk'[i]) /\ Len(stk'[i].vec) <= counter'
    <3> SUFFICES ASSUME NEW i \in 1..(Len(stk) + n)
                 PROVE IsPair(stk'[i]) /\ Len(stk'[i].vec) <= counter'
      BY <2>9
    <3>1. CASE i <= Len(stk)
      <4>1. i \in DOMAIN stk /\ stk'[i] = stk[i]
        BY <2>8, <2>9, <3>1
      <4>2. IsPair(stk[i]) /\ Len(stk[i].vec) <= counter /\ Len(stk[i].vec) \in Nat
        BY <1>1, <4>1 DEF TypeOK, Rectangular, IsPair, IsSequence
      <4> QED
        BY <2>1, <2>2, <4>1, <4>2
    <3>2. CASE i > Len(stk)
      <4>1. i - Len(stk) \in 1..n /\ stk'[i] = Reverse(new)[i - Len(stk)]
        BY <2>3, <2>8, <2>9, <3>2
      <4>2. PICK j \in 1..n : stk'[i] = new[j]
        BY <2>7, <4>1
      <4> QED
        BY <2>1, <2>2, <2>5, <4>2
    <3> QED
      BY <2>3, <2>8, <3>1, <3>2
  <2>11. TypeOK'
    <3>1. counter' \in Nat \ {0}
      BY <2>1, <2>2
    <3>2. \A i \in DOMAIN stk' : IsPair(stk'[i])
      BY <2>10
    <3> QED
      BY <1>1, <2>1, <2>9, <3>1, <3>2 DEF TypeOK
  <2>12. Rectangular'
    <3>1. \A r \in DOMAIN M : Len(M[r]) <= counter /\ Len(M[r]) \in Nat
      BY <1>1 DEF TypeOK, Rectangular, IsSequence
    <3> QED
      BY <1>1, <2>1, <2>2, <2>10, <3>1 DEF Rectangular
  <2> QED
    BY <2>1, <2>11, <2>12 DEF IInv, Threshold
<1>12. CASE Reshape
  <2>1. /\ stk = <<>> /\ M' = [r \in DOMAIN M |-> Padded(M[r], counter)] /\ pc' = "done"
        /\ UNCHANGED <<policy, rho, stk, counter, top, d, at, ct, substr, substrvec>> /\ text' = text
    BY <1>12 DEF Reshape, splitVars, text
  <2>2. DOMAIN M = 1..Len(M) /\ Len(M) \in Nat
    BY <1>2 DEF IsSequence
  <2>3. IsSequence(M') /\ Len(M') = Len(M) /\ DOMAIN M' = DOMAIN M
    BY <2>1, <2>2, FunctionIsSequence
  <2>4. \A r \in DOMAIN M' : IsSequence(M'[r]) /\ Len(M'[r]) = counter
    <3> SUFFICES ASSUME NEW r \in DOMAIN M PROVE IsSequence(M'[r]) /\ Len(M'[r]) = counter
      BY <2>3
    <3>1. IsSequence(M[r]) /\ Len(M[r]) <= counter /\ Len(M[r]) \in Nat /\ counter \in Nat
      BY <1>1 DEF TypeOK, Rectangular, IsSequence
    <3>2. M'[r] = Padded(M[r], counter)
      BY <2>1
    <3> QED
      BY <3>1, <3>2, PaddedProperties
  <2>5. TypeOK'
    BY <1>1, <2>1, <2>3, <2>4 DEF TypeOK
  <2>6. Rectangular'
    BY <1>1, <2>1, <2>3, <2>4 DEF TypeOK, Rectangular
  <2> QED
    BY <2>1, <2>5, <2>6 DEF IInv, Threshold
<1>13. CASE UNCHANGED vars
  <2>1. UNCHANGED <<policy, M, rho, stk, counter, top, d, at, ct, substr, substrvec, pc>>
        /\ text' = text
    BY <1>13 DEF vars, text
  <2> QED
    BY <1>1, <2>1 DEF IInv, TypeOK, Rectangular, Threshold
<1> QED
  BY <1>3, <1>4, <1>7, <1>8, <1>9, <1>10, <1>11, <1>12, <1>13 DEF Next, Step, Finished

LEMMA SpecIInv == Spec => []IInv
BY InitIInv, StepIInv, PTL DEF Spec

-----------------------------------------------------------------------------

\* Whatever text is parsed, positions stay within a gate's text, thresholds are
\* digits, and vectors, rows and names are sequences.
THEOREM LSSSTypeOK == Spec => []TypeOK
BY SpecIInv, PTL DEF IInv

\* No vector outgrows the columns counted, so that the share matrix becomes
\* rectangular, however deep the policy nests its gates.
THEOREM LSSSRectangular == Spec => []Rectangular
BY SpecIInv, PTL DEF IInv

-----------------------------------------------------------------------------
(* The gates are cut at the commas outside brackets.                       *)

\* What waits on the stack are texts, and what is split is the text inside a gate.
SplitsTexts ==
  /\ \A k \in DOMAIN stk : stk[k].text \in Texts
  /\ pc = "split" => \E g : SplitAt(g, text, Digit[d], at, ct, substr, substrvec)

CommaNext == NextIs(",")

LEMMA CommaNextIs == CommaNext <=> at < Len(text) /\ text[at + 1] = Comma
BY Zenon DEF CommaNext, NextIs, Comma

LEMMA PartsIs == Parts = PartsIn(substr, substrvec)
BY DEF Parts, PartsIn

LEMMA InitSplitsTexts == Init => SplitsTexts
<1> SUFFICES ASSUME Init PROVE SplitsTexts
  OBVIOUS
<1>1. DOMAIN stk = {1} /\ stk[1].text = policy /\ policy \in Policies /\ pc = "loop"
  BY DEF Init, Pair
<1>2. policy \in Texts
  BY <1>1, PolicyIsText
<1> QED
  BY <1>1, <1>2 DEF SplitsTexts

\* What a step of the splitting loop does to its variables.
LEMMA SplittingSteps ==
  ASSUME TypeOK, SplitsTexts, Splitting, NEW g,
         SplitAt(g, text, Digit[d], at, ct, substr, substrvec)
  PROVE  /\ depth = Deep(text, at)
         /\ EndGroup => /\ depth = 0 /\ text[at] = ")"
                        /\ substrvec' = Append(substrvec, taken) /\ substr' = <<>>
                        /\ ct' = 0 /\ at' = at + 2
         /\ EndName => /\ depth = 0 /\ text[at] # ")" /\ at < Len(text) /\ text[at + 1] = Comma
                       /\ substrvec' = Append(substrvec, taken) /\ substr' = <<>>
                       /\ ct' = 0 /\ at' = at + 2
         /\ Take => /\ depth = 0 => text[at] # ")" /\ ~ (at < Len(text) /\ text[at + 1] = Comma)
                    /\ substrvec' = substrvec /\ substr' = taken
                    /\ ct' = depth /\ at' = at + 1
<1>1. Inner(text) /\ Cut(text, at, ct, substr, substrvec) /\ at <= Len(text)
  BY GateInner DEF SplitAt, Splitting
<1>2. Reads(text, at, ct, at - Len(substr), substr, substrvec)
  BY <1>1, CutReads, Zenon
<1>3. Deep(text, at) = ct + Delta(text[at]) /\ substrvec \in Seq(Seq(Token))
      /\ substr \in Seq(Token) /\ text[at] \in Token
  BY <1>2 DEF Reads
<1>4. depth = Deep(text, at)
  BY <1>3 DEF depth, Delta
<1>5. ASSUME EndGroup
      PROVE  /\ depth = 0 /\ text[at] = ")"
             /\ substrvec' = Append(substrvec, taken) /\ substr' = <<>>
             /\ ct' = 0 /\ at' = at + 2
  <2>1. depth = 0 /\ text[at] = ")" /\ substr' = <<>> /\ ct' = 0
    BY <1>5 DEF EndGroup
  <2>2. ~ NextIs(")")
    BY <1>1, <1>4, <2>1, SplitGroup DEF NextIs
  <2>3. substrvec' = Append(substrvec, taken) \o <<>> /\ at' = at + 2
    BY <1>5, <2>2 DEF EndGroup
  <2>4. taken \in Seq(Token)
    BY <1>3 DEF taken
  <2>5. Append(substrvec, taken) \o <<>> = Append(substrvec, taken)
    BY <1>3, <2>4
  <2> QED
    BY <2>1, <2>3, <2>5
<1>6. ASSUME EndName
      PROVE  /\ depth = 0 /\ text[at] # ")" /\ at < Len(text) /\ text[at + 1] = Comma
             /\ substrvec' = Append(substrvec, taken) /\ substr' = <<>>
             /\ ct' = 0 /\ at' = at + 2
  <2>1. /\ depth = 0 /\ text[at] # ")" /\ CommaNext
        /\ substrvec' = Append(substrvec, taken) /\ substr' = <<>>
        /\ ct' = depth /\ at' = at + 2
    BY <1>6, Zenon DEF EndName, CommaNext
  <2> QED
    BY <2>1, CommaNextIs
<1>7. ASSUME Take
      PROVE  /\ depth = 0 => text[at] # ")" /\ ~ (at < Len(text) /\ text[at + 1] = Comma)
             /\ substrvec' = substrvec /\ substr' = taken
             /\ ct' = depth /\ at' = at + 1
  <2>1. /\ ~ (depth = 0 /\ (text[at] = ")" \/ CommaNext))
        /\ substrvec' = substrvec /\ substr' = taken /\ ct' = depth /\ at' = at + 1
    BY <1>7, Zenon DEF Take, CommaNext
  <2> QED
    BY <2>1, CommaNextIs
<1> QED
  BY <1>4, <1>5, <1>6, <1>7

\* The texts on the stack.
Waiting == [k \in DOMAIN stk |-> stk[k].text]

LEMMA StepSplitsTexts == IInv /\ SplitsTexts /\ [Next]_vars => SplitsTexts'
<1> SUFFICES ASSUME IInv, SplitsTexts, [Next]_vars PROVE SplitsTexts'
  OBVIOUS
<1>1. TypeOK /\ Threshold /\ IsSequence(stk)
  BY DEF IInv, TypeOK
<1>2. \A k \in DOMAIN stk : stk[k].text \in Texts
  BY DEF SplitsTexts
<1>3. ASSUME stk # <<>>, stk' = Front(stk)
      PROVE  /\ \A k \in DOMAIN stk' : stk'[k].text \in Texts
             /\ Last(stk).text \in Texts
  <2>1. /\ Len(stk) \in DOMAIN stk /\ Last(stk) = stk[Len(stk)]
        /\ DOMAIN stk = 1..Len(stk) /\ DOMAIN Front(stk) = 1..(Len(stk) - 1)
        /\ \A i \in 1..(Len(stk) - 1) : Front(stk)[i] = stk[i]
    BY <1>1, <1>3, FrontLast
  <2>2. Len(stk) \in Nat
    BY <1>1 DEF IsSequence
  <2>3. \A i \in 1..(Len(stk) - 1) : i \in 1..Len(stk)
    BY <2>2
  <2> QED
    BY <1>2, <1>3, <2>1, <2>3
<1>4. CASE Leaf
  <2>1. stk # <<>> /\ stk' = Front(stk) /\ pc' = "loop"
    BY <1>4 DEF Leaf
  <2> QED
    BY <1>3, <2>1 DEF SplitsTexts
<1>5. CASE Gate
  <2> DEFINE gate == Last(stk).text
  <2>1. /\ stk # <<>> /\ stk' = Front(stk) /\ gate[1] = "("
        /\ top'.text = SubSeq(gate, 2, Len(gate) - 3)
        /\ at' = 1 /\ ct' = 0 /\ substr' = <<>> /\ substrvec' = <<>>
    BY <1>5 DEF Gate, Pair
  <2>2. Digit[d'] = gate[Len(gate) - 1]
    BY <1>5 DEF Gate
  <2>3. gate \in Texts
    BY <1>3, <2>1
  <2> HIDE DEF gate
  <2>4. IsGate(gate, text', Digit[d'])
    BY <2>1, <2>2, <2>3, GateSplits DEF text
  <2>5. SplitAt(gate, text', Digit[d'], at', ct', substr', substrvec')
    BY <2>1, <2>4, SplitInit
  <2> QED
    BY <1>3, <2>1, <2>5 DEF SplitsTexts
<1>6. ASSUME Splitting, UNCHANGED splitRest, NEW g,
             SplitAt(g, text, Digit[d], at', ct', substr', substrvec')
      PROVE  SplitsTexts'
  <2>1. pc' = pc /\ stk' = stk /\ d' = d /\ text' = text
    BY <1>6 DEF splitRest, text
  <2>2. \E h : SplitAt(h, text', Digit[d'], at', ct', substr', substrvec')
    BY <1>6, <2>1
  <2>3. \A k \in DOMAIN stk' : stk'[k].text \in Texts
    BY <1>2, <2>1
  <2> QED
    BY <2>2, <2>3 DEF SplitsTexts
<1>7. CASE EndGroup
  <2>1. Splitting /\ UNCHANGED splitRest /\ pc = "split" /\ at <= Len(text)
    BY <1>7 DEF EndGroup, Splitting
  <2>2. PICK g : SplitAt(g, text, Digit[d], at, ct, substr, substrvec)
    BY <2>1 DEF SplitsTexts
  <2>3. /\ Deep(text, at) = 0 /\ text[at] = ")"
        /\ substrvec' = Append(substrvec, taken) /\ substr' = <<>>
        /\ ct' = 0 /\ at' = at + 2
    BY <1>1, <1>7, <2>1, <2>2, SplittingSteps
  <2>4. SplitAt(g, text, Digit[d], at + 2, 0, <<>>, Append(substrvec, taken))
    BY <2>1, <2>2, <2>3, SplitGroup DEF taken
  <2> QED
    BY <1>6, <2>1, <2>3, <2>4
<1>8. CASE EndName
  <2>1. Splitting /\ UNCHANGED splitRest /\ pc = "split" /\ at <= Len(text)
    BY <1>8 DEF EndName, Splitting
  <2>2. PICK g : SplitAt(g, text, Digit[d], at, ct, substr, substrvec)
    BY <2>1 DEF SplitsTexts
  <2>3. /\ Deep(text, at) = 0 /\ text[at] # ")" /\ at < Len(text) /\ text[at + 1] = Comma
        /\ substrvec' = Append(substrvec, taken) /\ substr' = <<>>
        /\ ct' = 0 /\ at' = at + 2
    BY <1>1, <1>8, <2>1, <2>2, SplittingSteps
  <2>4. SplitAt(g, text, Digit[d], at + 2, 0, <<>>, Append(substrvec, taken))
    BY <2>1, <2>2, <2>3, SplitName DEF taken
  <2> QED
    BY <1>6, <2>1, <2>3, <2>4
<1>9. CASE Take
  <2>1. Splitting /\ UNCHANGED splitRest /\ pc = "split" /\ at <= Len(text)
    BY <1>9 DEF Take, Splitting
  <2>2. PICK g : SplitAt(g, text, Digit[d], at, ct, substr, substrvec)
    BY <2>1 DEF SplitsTexts
  <2>3. /\ Deep(text, at) = 0 => text[at] # ")" /\ ~ (at < Len(text) /\ text[at + 1] = Comma)
        /\ substrvec' = substrvec /\ substr' = taken
        /\ ct' = Deep(text, at) /\ at' = at + 1
    BY <1>1, <1>9, <2>1, <2>2, SplittingSteps
  <2>4. SplitAt(g, text, Digit[d], at + 1, Deep(text, at), taken, substrvec)
    BY <2>1, <2>2, <2>3, SplitTake DEF taken
  <2> QED
    BY <1>6, <2>1, <2>3, <2>4
<1>10. CASE Abort
  <2>1. stk' = stk /\ pc' = "abort"
    BY <1>10 DEF Abort
  <2> QED
    BY <1>2, <2>1 DEF SplitsTexts
<1>11. CASE PushParts
  <2> DEFINE vec == Padded(top.vec, counter)
             n == Len(Parts)
             new == [x \in DOMAIN Parts |-> Pair(WithPowers(vec, x, d), Parts[x])]
  <2>1. stk' = stk \o Reverse(new) /\ pc = "split" /\ pc' = "loop" /\ ~ (at <= Len(text))
    <3>1. stk' = stk \o Reverse(new) /\ pc = "split" /\ pc' = "loop" /\ at > Len(text)
      BY <1>11 DEF PushParts
    <3>2. at \in Int /\ Len(text) \in Int
      BY <1>1 DEF TypeOK, IsPair, text
    <3> QED
      BY <3>1, <3>2
  <2>2. PICK g : SplitAt(g, text, Digit[d], at, ct, substr, substrvec)
    BY <2>1 DEF SplitsTexts
  <2>3. \A x \in DOMAIN Parts : Parts[x] \in Texts
    <3>1. Pieces(g, Len(text) + 3, Parts)
      BY <2>1, <2>2, PartsIs, SplitEnd
    <3>2. g \in Texts
      BY <2>2 DEF SplitAt, IsGate
    <3> QED
      BY <3>1, <3>2, PieceFacts
  <2>4. Parts \in Seq(Seq(Token)) /\ DOMAIN Parts = 1..n /\ n \in Nat
    BY <1>1 DEF TypeOK, Parts
  <2>5. \A x \in 1..n : new[x].text \in Texts
    BY <2>3, <2>4 DEF Pair
  <2>6. new = [x \in 1..n |-> new[x]]
    BY <2>4
  <2> HIDE DEF new, n
  <2>7. /\ IsSequence(Reverse(new)) /\ Len(Reverse(new)) = n
        /\ \A i \in 1..n : \E j \in 1..n : Reverse(new)[i] = new[j]
    <3>1. IsSequence(new) /\ Len(new) = n
      BY <2>4, <2>6, FunctionIsSequence
    <3> QED
      BY <3>1, ReverseSequence
  <2>8. DOMAIN stk = 1..Len(stk) /\ Len(stk) \in Nat
    BY <1>1 DEF IsSequence
  <2>9. /\ DOMAIN stk' = 1..(Len(stk) + n)
        /\ \A i \in 1..(Len(stk) + n) :
             stk'[i] = IF i <= Len(stk) THEN stk[i] ELSE Reverse(new)[i - Len(stk)]
    <3>1. /\ DOMAIN (stk \o Reverse(new)) = 1..(Len(stk) + Len(Reverse(new)))
          /\ \A i \in 1..(Len(stk) + Len(Reverse(new))) :
               (stk \o Reverse(new))[i] = IF i <= Len(stk) THEN stk[i] ELSE Reverse(new)[i - Len(stk)]
      BY <1>1, <2>7, ConcatSequence, Zenon
    <3> QED
      BY <2>1, <2>7, <3>1, Zenon
  <2>10. ASSUME NEW i \in 1..(Len(stk) + n) PROVE stk'[i].text \in Texts
    <3>1. CASE i <= Len(stk)
      <4>1. i \in DOMAIN stk /\ stk'[i] = stk[i]
        BY <2>8, <2>9, <3>1
      <4> QED
        BY <1>2, <4>1
    <3>2. CASE i > Len(stk)
      <4>1. i - Len(stk) \in 1..n /\ stk'[i] = Reverse(new)[i - Len(stk)]
        BY <2>4, <2>8, <2>9, <3>2
      <4>2. PICK j \in 1..n : stk'[i] = new[j]
        BY <2>7, <4>1, ZenonT(60)
      <4> QED
        BY <2>5, <4>2
    <3> QED
      BY <2>4, <2>8, <3>1, <3>2
  <2> QED
    BY <2>1, <2>9, <2>10 DEF SplitsTexts
<1>12. CASE Reshape
  <2>1. stk' = stk /\ pc' = "done"
    BY <1>12 DEF Reshape
  <2> QED
    BY <1>2, <2>1 DEF SplitsTexts
<1>13. CASE UNCHANGED vars
  <2>1. stk' = stk /\ pc' = pc /\ text' = text /\ d' = d /\ at' = at /\ ct' = ct
        /\ substr' = substr /\ substrvec' = substrvec
    BY <1>13 DEF vars, text
  <2> QED
    BY <2>1 DEF SplitsTexts
<1> QED
  BY <1>4, <1>5, <1>7, <1>8, <1>9, <1>10, <1>11, <1>12, <1>13 DEF Next, Step, Finished

LEMMA SpecSplitsTexts == Spec => []SplitsTexts
BY InitSplitsTexts, StepSplitsTexts, SpecIInv, PTL DEF Spec

\* Every gate is cut exactly at the commas outside brackets, however the policy
\* nests its gates: the parts are names or groups and spell the gate's text.
THEOREM LSSSSplitIsTopLevel == Spec => []SplitIsTopLevel
<1>1. IInv /\ SplitsTexts => SplitIsTopLevel
  <2> SUFFICES ASSUME IInv, SplitsTexts, pc = "split", at > Len(text)
               PROVE  (\A k \in DOMAIN Parts : IsPart(Parts[k])) /\ text = Joined(Parts)
    BY DEF SplitIsTopLevel
  <2>1. PICK g : SplitAt(g, text, Digit[d], at, ct, substr, substrvec)
    BY DEF SplitsTexts
  <2>2. ~ (at <= Len(text))
    BY DEF IInv, TypeOK, IsPair, text
  <2>3. Joined(Parts) = text /\ Pieces(g, Len(text) + 3, Parts)
    BY <2>1, <2>2, PartsIs, SplitEnd
  <2>4. g \in Texts
    BY <2>1 DEF SplitAt, IsGate
  <2> QED
    BY <2>3, <2>4, PieceFacts
<1> QED
  BY <1>1, SpecIInv, SpecSplitsTexts, PTL

-----------------------------------------------------------------------------
(* Names, in texts and in what waits on the stack.                         *)

\* The first token of a stretch and the others.
LEMMA SubFirst ==
  ASSUME NEW s \in Seq(Token), NEW m \in 1..Len(s), NEW n \in m..Len(s)
  PROVE  SubSeq(s, m, n) = <<s[m]>> \o SubSeq(s, m + 1, n)
<1> DEFINE u == SubSeq(s, m, n)
           v == SubSeq(s, m + 1, n)
           q == <<s[m]>>
           w == q \o v
<1>1. /\ m \in 1..(Len(s) + 1) /\ n \in (m - 1)..Len(s) /\ m + 1 \in 1..(Len(s) + 1)
      /\ n \in ((m + 1) - 1)..Len(s) /\ n - (m + 1) + 1 = n - m /\ n - m \in Nat /\ s[m] \in Token
      /\ m \in Int /\ n \in Int /\ m <= n
  OBVIOUS
<1>2. u \in Seq(Token) /\ Len(u) = n - m + 1 /\ \A i \in 1..(n - m + 1) : u[i] = s[m + i - 1]
  BY <1>1, SubFacts
<1>3. /\ v \in Seq(Token) /\ Len(v) = n - (m + 1) + 1
      /\ \A i \in 1..(n - (m + 1) + 1) : v[i] = s[(m + 1) + i - 1]
  BY <1>1, SubFacts
<1>4. q \in Seq(Token) /\ Len(q) = 1 /\ q[1] = s[m]
  BY <1>1
<1> HIDE DEF u, v, q
<1>5. /\ w \in Seq(Token) /\ Len(w) = Len(q) + Len(v)
      /\ \A k \in 1..Len(q) : w[k] = q[k]
      /\ \A k \in 1..Len(v) : w[Len(q) + k] = v[k]
  <2>1. q \in Seq(Token) /\ v \in Seq(Token)
    BY <1>3, <1>4
  <2> QED
    BY <2>1
<1> HIDE DEF w
<1>6. Len(w) = n - m + 1
  BY <1>1, <1>3, <1>4, <1>5
<1>7. ASSUME NEW i \in 1..(n - m + 1) PROVE u[i] = w[i]
  <2>1. CASE i = 1
    <3>1. 1 \in 1..Len(q) /\ m + 1 - 1 = m
      BY <1>1, <1>4
    <3>2. w[1] = s[m]
      BY <1>4, <1>5, <3>1
    <3>3. u[1] = s[m]
      BY <1>2, <2>1, <3>1
    <3> QED
      BY <2>1, <3>2, <3>3
  <2>2. CASE i # 1
    <3> DEFINE k == i - 1
    <3>1. k \in 1..(n - m) /\ Len(q) + k = i /\ (m + 1) + k - 1 = m + i - 1
      BY <1>1, <1>4, <2>2
    <3> HIDE DEF k
    <3>2. k \in 1..Len(v) /\ k \in 1..(n - (m + 1) + 1)
      BY <1>1, <1>3, <3>1
    <3>3. w[i] = v[k] /\ v[k] = s[m + i - 1]
      BY <1>3, <1>5, <3>1, <3>2
    <3> QED
      BY <1>2, <3>3
  <2> QED
    BY <2>1, <2>2
<1>8. u = w
  BY <1>2, <1>5, <1>6, <1>7, SeqEqual
<1> QED
  BY <1>8 DEF u, v, w, q

LEMMA NamesAppend ==
  ASSUME NEW s \in Seq(Token), NEW x \in Token
  PROVE  Names(Append(s, x)) = Names(s) \o NameOf(x)
<1>1. Append(s, x) = s \o <<x>> /\ <<x>> \in Seq(Token)
  OBVIOUS
<1> QED
  BY <1>1, NamesConcat, NamesOne

\* The names in a gate are those between its brackets.
LEMMA NamesGate ==
  ASSUME NEW g, NEW t, NEW e, IsGate(g, t, e)
  PROVE  Names(g) = Names(t)
<1> DEFINE n == Len(g)
<1>1. /\ g \in Seq(Token) /\ n \in Nat /\ n >= 5
      /\ g[n - 2] = Comma /\ IsDigit(g[n - 1]) /\ g[n] = ")" /\ g[1] = "("
  BY GateShape DEF IsGate
<1>2. t = SubSeq(g, 2, n - 3) /\ t \in Seq(Token)
  <2>1. t \in Seq(Token)
    BY GateInner DEF Inner
  <2> QED
    BY <2>1 DEF IsGate
<1>3. \A x \in {Comma, g[n - 1], ")", "("} : NameOf(x) = <<>>
  BY <1>1, Kinds DEF NameOf
<1> HIDE DEF n
<1>4. ASSUME NEW k \in {n - 2, n - 1, n}
      PROVE  Names(SubSeq(g, 1, k)) = Names(SubSeq(g, 1, k - 1))
  <2>1. /\ k \in 1..n /\ 1 \in 1..n /\ k \in 1..Len(g) /\ 1 \in 1..Len(g)
        /\ 1 \in 1..(Len(g) + 1) /\ k - 1 \in (1 - 1)..Len(g)
    BY <1>1 DEF n
  <2>2. SubSeq(g, 1, k) = Append(SubSeq(g, 1, k - 1), g[k]) /\ SubSeq(g, 1, k - 1) \in Seq(Token)
    BY <1>1, <2>1, SubAppend, SubFacts
  <2>3. g[k] \in Token
    BY <1>1, <2>1
  <2>4. NameOf(g[k]) = <<>>
    BY <1>1, <1>3
  <2>5. Names(SubSeq(g, 1, k)) = Names(SubSeq(g, 1, k - 1)) \o <<>>
    BY <2>2, <2>3, <2>4, NamesAppend
  <2>6. Names(SubSeq(g, 1, k - 1)) \in Seq(Attribute)
    BY <2>2, NamesType
  <2> QED
    BY <2>5, <2>6
<1>5. SubSeq(g, 1, n) = g
  BY <1>1, SubSeqFull DEF n
<1>6. Names(g) = Names(SubSeq(g, 1, n - 3))
  <2>1. n - 1 - 1 = n - 2 /\ n - 2 - 1 = n - 3
    BY <1>1
  <2> QED
    BY <1>4, <1>5, <2>1
<1>7. SubSeq(g, 1, n - 3) = <<g[1]>> \o t
  <2>1. 1 \in 1..Len(g) /\ n - 3 \in 1..Len(g) /\ 1 + 1 = 2
    BY <1>1 DEF n
  <2> QED
    BY <1>1, <1>2, <2>1, SubFirst
<1>8. <<g[1]>> \in Seq(Token) /\ g[1] \in Token
  <2>1. "(" \in Token
    BY DEF Token
  <2> QED
    BY <1>1, <2>1
<1>9. Names(<<g[1]>> \o t) = <<>> \o Names(t)
  <2> DEFINE q == <<g[1]>>
  <2>1. q \in Seq(Token) /\ t \in Seq(Token) /\ Names(q) = <<>>
    <3>1. Names(<<g[1]>>) = NameOf(g[1]) /\ NameOf(g[1]) = <<>>
      BY <1>1, <1>3, <1>8, NamesOne
    <3> QED
      BY <1>2, <1>8, <3>1
  <2> HIDE DEF q
  <2>2. Names(q \o t) = Names(q) \o Names(t)
    BY <2>1, NamesConcat
  <2>3. Names(q \o t) = <<>> \o Names(t)
    BY <2>1, <2>2
  <2> QED
    BY <2>3 DEF q
<1>10. Names(t) \in Seq(Attribute)
  BY <1>2, NamesType
<1>11. <<>> \o Names(t) = Names(t)
  BY <1>10
<1> QED
  BY <1>6, <1>7, <1>9, <1>11, Zenon

-----------------------------------------------------------------------------
(* The stack, read from its top.                                           *)

Remaining(r) == FlattenSeq(Reverse(r))

LEMMA ReverseFacts ==
  ASSUME NEW S, NEW r \in Seq(S)
  PROVE  /\ Reverse(r) \in Seq(S) /\ Len(Reverse(r)) = Len(r)
         /\ \A i \in 1..Len(r) : Reverse(r)[i] = r[(Len(r) - i) + 1]
<1>1. Len(r) \in Nat /\ \A i \in 1..Len(r) : (Len(r) - i) + 1 \in 1..Len(r) /\ r[(Len(r) - i) + 1] \in S
  OBVIOUS
<1>2. Reverse(r) = [i \in 1..Len(r) |-> r[(Len(r) - i) + 1]]
  BY DEF Reverse
<1> QED
  BY <1>1, <1>2

LEMMA ReverseAppend ==
  ASSUME NEW S, NEW r \in Seq(S), NEW e \in S
  PROVE  Reverse(Append(r, e)) = <<e>> \o Reverse(r)
<1> DEFINE u == Reverse(Append(r, e))
           v == Reverse(r)
           q == <<e>>
           w == q \o v
           n == Len(r)
           p == Append(r, e)
<1>1. p \in Seq(S) /\ Len(p) = n + 1 /\ n \in Nat /\ p[n + 1] = e /\ \A i \in 1..n : p[i] = r[i]
  OBVIOUS
<1>2. u \in Seq(S) /\ Len(u) = n + 1 /\ \A i \in 1..(n + 1) : u[i] = p[((n + 1) - i) + 1]
  <2> HIDE DEF p, n
  <2>1. u \in Seq(S) /\ Len(u) = Len(p) /\ \A i \in 1..Len(p) : u[i] = p[(Len(p) - i) + 1]
    <3>1. /\ Reverse(p) \in Seq(S) /\ Len(Reverse(p)) = Len(p)
          /\ \A i \in 1..Len(p) : Reverse(p)[i] = p[(Len(p) - i) + 1]
      BY <1>1, ReverseFacts
    <3> QED
      BY <3>1 DEF p
  <2> QED
    BY <1>1, <2>1
<1>3. v \in Seq(S) /\ Len(v) = n /\ \A i \in 1..n : v[i] = r[(n - i) + 1]
  BY ReverseFacts
<1>4. q \in Seq(S) /\ Len(q) = 1 /\ q[1] = e
  OBVIOUS
<1> HIDE DEF u, v, q, p
<1>5. /\ w \in Seq(S) /\ Len(w) = Len(q) + Len(v)
      /\ \A k \in 1..Len(q) : w[k] = q[k]
      /\ \A k \in 1..Len(v) : w[Len(q) + k] = v[k]
  <2>1. q \in Seq(S) /\ v \in Seq(S)
    BY <1>3, <1>4
  <2> QED
    BY <2>1
<1> HIDE DEF w, n
<1>6. Len(w) = n + 1
  BY <1>1, <1>3, <1>4, <1>5
<1>7. ASSUME NEW i \in 1..(n + 1) PROVE u[i] = w[i]
  <2>1. CASE i = 1
    <3>1. 1 \in 1..Len(q) /\ ((n + 1) - 1) + 1 = n + 1
      BY <1>1, <1>4
    <3> QED
      BY <1>1, <1>2, <1>4, <1>5, <2>1, <3>1
  <2>2. CASE i # 1
    <3> DEFINE k == i - 1
               j == ((n + 1) - i) + 1
    <3>1. k \in 1..n /\ Len(q) + k = i /\ (n - k) + 1 = j /\ j \in 1..n
      BY <1>1, <1>4, <2>2
    <3>2. u[i] = p[j]
      BY <1>2
    <3> HIDE DEF k, j
    <3>3. w[i] = v[k] /\ v[k] = r[j]
      BY <1>3, <1>5, <3>1
    <3> QED
      BY <1>1, <3>1, <3>2, <3>3
  <2> QED
    BY <2>1, <2>2
<1>8. u = w
  BY <1>2, <1>5, <1>6, <1>7, SeqEqual
<1> QED
  BY <1>8 DEF u, v, w, q, p

LEMMA RemainingAppend ==
  ASSUME NEW r \in Seq(Seq(Token)), NEW s \in Seq(Token)
  PROVE  Remaining(Append(r, s)) = s \o Remaining(r) /\ Remaining(r) \in Seq(Token)
<1> DEFINE T == Seq(Token)
<1>1. r \in Seq(T) /\ s \in T
  OBVIOUS
<1> HIDE DEF T
<1>2. Reverse(Append(r, s)) = <<s>> \o Reverse(r) /\ Reverse(r) \in Seq(T) /\ <<s>> \in Seq(T)
  <2>1. Reverse(Append(r, s)) = <<s>> \o Reverse(r)
    BY <1>1, ReverseAppend
  <2>2. Reverse(r) \in Seq(T)
    BY <1>1, ReverseFacts
  <2>3. <<s>> \in Seq(T)
    BY <1>1
  <2> QED
    BY <2>1, <2>2, <2>3
<1>3. FlattenSeq(<<s>> \o Reverse(r)) = FlattenSeq(<<s>>) \o FlattenSeq(Reverse(r))
  BY <1>2, FlattenConcat DEF T
<1>4. FlattenSeq(Reverse(r)) \in Seq(Token)
  BY <1>2, FlattenType DEF T
<1>5. FlattenSeq(<<s>>) = s
  BY FlattenOne
<1> QED
  BY <1>2, <1>3, <1>4, <1>5 DEF Remaining

\* Pushed in reverse order, the first comes first again: by induction on what is
\* pushed.
LEMMA ReverseReverse ==
  ASSUME NEW S, NEW v \in Seq(S)
  PROVE  Reverse(Reverse(v)) = v
<1> DEFINE n == Len(v)
           u == Reverse(v)
           w == Reverse(u)
<1>1. n \in Nat
  OBVIOUS
<1>2. u \in Seq(S) /\ Len(u) = n /\ \A i \in 1..n : u[i] = v[(n - i) + 1]
  BY ReverseFacts
<1> HIDE DEF u
<1>3. w \in Seq(S) /\ Len(w) = n /\ \A i \in 1..n : w[i] = u[(n - i) + 1]
  BY <1>2, ReverseFacts
<1> HIDE DEF w
<1>4. ASSUME NEW i \in 1..n PROVE w[i] = v[i]
  <2> DEFINE j == (n - i) + 1
  <2>1. j \in 1..n /\ (n - j) + 1 = i
    BY <1>1
  <2>2. w[i] = u[j]
    BY <1>3
  <2> HIDE DEF j, n
  <2> QED
    BY <1>2, <2>1, <2>2
<1>5. w = v
  BY <1>3, <1>4, SeqEqual
<1> QED
  BY <1>5 DEF w, u

LEMMA ReverseConcat ==
  ASSUME NEW S, NEW r \in Seq(S), NEW v \in Seq(S)
  PROVE  Reverse(r \o v) = Reverse(v) \o Reverse(r)
<1> DEFINE m == Len(r)
           n == Len(v)
           rv == r \o v
           a == Reverse(r)
           b == Reverse(v)
           ba == b \o a
           w == Reverse(rv)
<1>1. /\ rv \in Seq(S) /\ Len(rv) = m + n /\ m \in Nat /\ n \in Nat
      /\ \A i \in 1..m : rv[i] = r[i]
      /\ \A i \in 1..n : rv[m + i] = v[i]
  OBVIOUS
<1>2. a \in Seq(S) /\ Len(a) = m /\ \A i \in 1..m : a[i] = r[(m - i) + 1]
  BY ReverseFacts
<1>3. b \in Seq(S) /\ Len(b) = n /\ \A i \in 1..n : b[i] = v[(n - i) + 1]
  BY ReverseFacts
<1> HIDE DEF a, b, rv
<1>4. w \in Seq(S) /\ Len(w) = m + n /\ \A i \in 1..(m + n) : w[i] = rv[((m + n) - i) + 1]
  <2> HIDE DEF m, n
  <2>1. w \in Seq(S) /\ Len(w) = Len(rv) /\ \A i \in 1..Len(rv) : w[i] = rv[(Len(rv) - i) + 1]
    BY <1>1, ReverseFacts
  <2> QED
    BY <1>1, <2>1
<1>5. /\ ba \in Seq(S) /\ Len(ba) = Len(b) + Len(a)
      /\ \A i \in 1..Len(b) : ba[i] = b[i]
      /\ \A i \in 1..Len(a) : ba[Len(b) + i] = a[i]
  <2>1. a \in Seq(S) /\ b \in Seq(S)
    BY <1>2, <1>3
  <2> QED
    BY <2>1
<1> HIDE DEF w, ba, m, n
<1>6. Len(ba) = m + n
  BY <1>1, <1>2, <1>3, <1>5
<1>7. ASSUME NEW i \in 1..(m + n) PROVE w[i] = ba[i]
  <2> DEFINE j == ((m + n) - i) + 1
  <2>1. w[i] = rv[j]
    BY <1>4
  <2>2. CASE i <= n
    <3> DEFINE k == (n - i) + 1
    <3>1. i \in 1..n /\ k \in 1..n /\ m + k = j
      BY <1>1, <2>2
    <3> HIDE DEF j, k
    <3>2. rv[j] = v[k]
      BY <1>1, <3>1
    <3>3. ba[i] = b[i] /\ b[i] = v[k]
      BY <1>3, <1>5, <3>1 DEF k
    <3> QED
      BY <2>1, <3>2, <3>3
  <2>3. CASE i > n
    <3> DEFINE k == i - n
    <3>1. k \in 1..m /\ n + k = i /\ (m - k) + 1 = j /\ j \in 1..m
      BY <1>1, <2>3
    <3> HIDE DEF j, k
    <3>2. rv[j] = r[j]
      BY <1>1, <3>1
    <3>3. ba[i] = a[k] /\ a[k] = r[j]
      BY <1>2, <1>3, <1>5, <3>1
    <3> QED
      BY <2>1, <3>2, <3>3
  <2> QED
    BY <1>1, <2>2, <2>3
<1>8. w = ba
  BY <1>4, <1>5, <1>6, <1>7, SeqEqual
<1> QED
  BY <1>8 DEF w, ba, rv, a, b

LEMMA RemainingPush ==
  ASSUME NEW r \in Seq(Seq(Token)), NEW v \in Seq(Seq(Token))
  PROVE  Remaining(r \o Reverse(v)) = FlattenSeq(v) \o Remaining(r)
<1> DEFINE T == Seq(Token)
<1>1. r \in Seq(T) /\ v \in Seq(T)
  OBVIOUS
<1> HIDE DEF T
<1>2. Reverse(v) \in Seq(T) /\ Reverse(r) \in Seq(T)
  BY <1>1, ReverseFacts
<1>3. Reverse(r \o Reverse(v)) = Reverse(Reverse(v)) \o Reverse(r)
  BY <1>1, <1>2, ReverseConcat
<1>4. Reverse(Reverse(v)) = v
  BY <1>1, ReverseReverse
<1>5. FlattenSeq(v \o Reverse(r)) = FlattenSeq(v) \o FlattenSeq(Reverse(r))
  BY <1>1, <1>2, FlattenConcat DEF T
<1> QED
  BY <1>3, <1>4, <1>5 DEF Remaining

-----------------------------------------------------------------------------
(* The names still to come.                                                *)

\* What is collected and what is to be read, as the names in it.
Pending(t, a, u, vec) == Names(FlattenSeq(vec) \o u \o SubSeq(t, a, Len(t)))

LEMMA PendingIs ==
  ASSUME NEW t \in Seq(Token), NEW a \in 1..(Len(t) + 2), NEW u \in Seq(Token),
         NEW vec \in Seq(Seq(Token))
  PROVE  /\ Pending(t, a, u, vec)
              = Cat(Cat(Names(FlattenSeq(vec)), Names(u)), Names(SubSeq(t, a, Len(t))))
         /\ Names(FlattenSeq(vec)) \in Seq(Attribute) /\ Names(u) \in Seq(Attribute)
         /\ Names(SubSeq(t, a, Len(t))) \in Seq(Attribute)
<1> DEFINE f == FlattenSeq(vec)
           s == SubSeq(t, a, Len(t))
<1>1. f \in Seq(Token)
  BY FlattenType
<1>2. s \in Seq(Token)
  <2>1. CASE a <= Len(t) + 1
    <3>1. a \in 1..(Len(t) + 1) /\ Len(t) \in (a - 1)..Len(t)
      BY <2>1
    <3> QED
      BY <3>1, SubFacts
  <2>2. CASE ~ (a <= Len(t) + 1)
    <3>1. Len(t) < a /\ a \in Int /\ Len(t) \in Int
      BY <2>2
    <3>2. s = <<>>
      BY <3>1, SubSeqEmpty
    <3> QED
      BY <3>2
  <2> QED
    BY <2>1, <2>2
<1> HIDE DEF f, s
<1>3. f \o u \in Seq(Token)
  BY <1>1
<1>4. Names((f \o u) \o s) = Names(f \o u) \o Names(s) /\ Names(f \o u) = Names(f) \o Names(u)
  BY <1>1, <1>2, <1>3, NamesConcat
<1>5. Names(f) \in Seq(Attribute) /\ Names(u) \in Seq(Attribute) /\ Names(s) \in Seq(Attribute)
  BY <1>1, <1>2, NamesType
<1>6. Pending(t, a, u, vec) = Cat(Cat(Names(f), Names(u)), Names(s))
  BY <1>4, Zenon DEF Pending, Cat, f, s
<1> QED
  BY <1>5, <1>6 DEF f, s

\* Taking a token.
LEMMA PendingTake ==
  ASSUME NEW t \in Seq(Token), NEW a \in 1..Len(t), NEW u \in Seq(Token),
         NEW vec \in Seq(Seq(Token))
  PROVE  Pending(t, a + 1, Append(u, t[a]), vec) = Pending(t, a, u, vec)
<1> DEFINE F == Names(FlattenSeq(vec))
           U == Names(u)
           x == NameOf(t[a])
           R == Names(SubSeq(t, a + 1, Len(t)))
           p == Append(u, t[a])
<1>1. /\ t[a] \in Token /\ p \in Seq(Token) /\ a \in 1..(Len(t) + 2) /\ a + 1 \in 1..(Len(t) + 2)
      /\ Len(t) \in a..Len(t) /\ a + 1 \in 1..(Len(t) + 1) /\ Len(t) \in ((a + 1) - 1)..Len(t)
  OBVIOUS
<1>2. Names(p) = U \o x
  BY <1>1, NamesAppend
<1>3. Names(SubSeq(t, a, Len(t))) = x \o R
  <2>1. SubSeq(t, a, Len(t)) = <<t[a]>> \o SubSeq(t, a + 1, Len(t))
    BY <1>1, SubFirst
  <2> DEFINE q == <<t[a]>>
             s == SubSeq(t, a + 1, Len(t))
  <2>2. q \in Seq(Token) /\ Names(q) = x /\ s \in Seq(Token)
    BY <1>1, NamesOne, SubFacts
  <2> HIDE DEF q, s, x
  <2>3. Names(q \o s) = x \o Names(s)
    BY <2>2, NamesConcat
  <2> QED
    BY <2>1, <2>3 DEF q, s
<1>4. Pending(t, a + 1, p, vec) = Cat(Cat(F, Names(p)), R) /\ R \in Seq(Attribute)
  BY <1>1, PendingIs
<1>5. Pending(t, a, u, vec) = Cat(Cat(F, U), Names(SubSeq(t, a, Len(t))))
      /\ F \in Seq(Attribute) /\ U \in Seq(Attribute)
  BY <1>1, PendingIs
<1>6. x \in Seq(Attribute)
  BY DEF NameOf
<1> HIDE DEF F, U, x, R, p
<1>7. Cat(Cat(F, Cat(U, x)), R) = Cat(Cat(F, U), Cat(x, R))
  <2>1. Cat(F, U) \in Seq(Attribute)
    BY <1>5, CatType
  <2>2. Cat(Cat(F, U), Cat(x, R)) = Cat(Cat(Cat(F, U), x), R)
    BY <1>4, <1>6, <2>1, CatAssociative
  <2>3. Cat(Cat(F, U), x) = Cat(F, Cat(U, x))
    BY <1>5, <1>6, CatAssociative
  <2> QED
    BY <2>2, <2>3, Zenon
<1>8. Names(p) = Cat(U, x) /\ Names(SubSeq(t, a, Len(t))) = Cat(x, R)
  BY <1>2, <1>3, Zenon DEF Cat
<1>9. Pending(t, a + 1, p, vec) = Pending(t, a, u, vec)
  BY <1>4, <1>5, <1>7, <1>8, Zenon
<1> QED
  BY <1>9 DEF p

\* Closing a part.
LEMMA PendingEnd ==
  ASSUME NEW t \in Seq(Token), NEW a \in 1..Len(t), NEW u \in Seq(Token),
         NEW vec \in Seq(Seq(Token)), a < Len(t) => t[a + 1] = Comma
  PROVE  Pending(t, a + 2, <<>>, Append(vec, Append(u, t[a]))) = Pending(t, a, u, vec)
<1> DEFINE p == Append(u, t[a])
           new == Append(vec, p)
           n == Len(t)
           F == Names(FlattenSeq(vec))
           P == Names(p)
           R == Names(SubSeq(t, a + 1, n))
           T == Seq(Token)
<1>1. /\ t[a] \in Token /\ p \in Seq(Token) /\ a \in Int /\ n \in Int /\ 1 <= a /\ a <= n
      /\ a + 1 \in 1..(n + 2) /\ a + 2 \in 1..(n + 2) /\ <<>> \in Seq(Token)
  OBVIOUS
<1>2. Pending(t, a + 1, p, vec) = Pending(t, a, u, vec)
  BY PendingTake
<1>3. new \in Seq(Seq(Token)) /\ FlattenSeq(new) = FlattenSeq(vec) \o p
  <2> HIDE DEF p
  <2>1. vec \in Seq(T) /\ p \in T
    BY <1>1
  <2> HIDE DEF T
  <2>2. new \in Seq(T)
    BY <2>1
  <2>3. FlattenSeq(new) = FlattenSeq(vec) \o p
    BY <1>1, FlattenAppend
  <2> QED
    BY <2>2, <2>3 DEF T
<1> HIDE DEF p, new
<1>4. Names(SubSeq(t, a + 2, n)) = R
  <2>1. CASE a < n
    <3>1. a + 1 \in 1..n /\ n \in (a + 1)..n /\ (a + 1) + 1 = a + 2
          /\ a + 2 \in 1..(n + 1) /\ n \in ((a + 2) - 1)..n
      BY <1>1, <2>1
    <3>2. SubSeq(t, a + 1, n) = <<t[a + 1]>> \o SubSeq(t, a + 2, n)
      BY <3>1, SubFirst
    <3> DEFINE q == <<t[a + 1]>>
               s == SubSeq(t, a + 2, n)
    <3>3. t[a + 1] = Comma /\ NameOf(Comma) = <<>>
      BY <2>1, Kinds DEF NameOf
    <3>4. q \in Seq(Token) /\ Names(q) = <<>> /\ s \in Seq(Token)
      BY <3>1, <3>3, Kinds, NamesOne, SubFacts
    <3> HIDE DEF q, s
    <3>5. Names(q \o s) = <<>> \o Names(s) /\ Names(s) \in Seq(Attribute)
      BY <3>4, NamesConcat, NamesType, ZenonT(60)
    <3>6. <<>> \o Names(s) = Names(s)
      BY <3>5
    <3> QED
      BY <3>2, <3>5, <3>6 DEF q, s
  <2>2. CASE ~ (a < n)
    <3>1. n < a + 1 /\ n < a + 2 /\ a + 1 \in Int /\ a + 2 \in Int
      BY <1>1, <2>2
    <3>2. SubSeq(t, a + 1, n) = <<>> /\ SubSeq(t, a + 2, n) = <<>>
      BY <1>1, <3>1, SubSeqEmpty
    <3> QED
      BY <3>2
  <2> QED
    BY <2>1, <2>2
<1>5. FlattenSeq(vec) \in Seq(Token)
  BY FlattenType
<1>6. Names(FlattenSeq(new)) = F \o P
  BY <1>1, <1>3, <1>5, NamesConcat
<1>7. Pending(t, a + 2, <<>>, new) = Cat(Cat(F \o P, <<>>), R)
  <2>1. Pending(t, a + 2, <<>>, new)
          = Cat(Cat(Names(FlattenSeq(new)), Names(<<>>)), Names(SubSeq(t, a + 2, Len(t))))
    BY <1>1, <1>3, PendingIs
  <2> QED
    BY <1>4, <1>6, <2>1, NamesEmpty, Zenon
<1>8. Pending(t, a + 1, p, vec) = Cat(Cat(F, P), R) /\ F \in Seq(Attribute) /\ P \in Seq(Attribute)
  BY <1>1, PendingIs
<1>9. Cat(F \o P, <<>>) = Cat(F, P)
  <2>1. Cat(F, P) \in Seq(Attribute)
    BY <1>8, CatType
  <2>2. Cat(Cat(F, P), <<>>) = Cat(F, P)
    BY <2>1, CatEmpty
  <2> QED
    BY <2>2, Zenon DEF Cat
<1> QED
  BY <1>2, <1>7, <1>8, <1>9, Zenon DEF new, p

-----------------------------------------------------------------------------

Rest == IF pc = "split" THEN Pending(text, at, substr, substrvec) ELSE <<>>
OnStack == Names(Remaining(Waiting))

LEMMA NamesInOrderIs ==
  NamesInOrder <=> (pc # "abort" => Names(policy) = Cat(Cat(FlattenSeq(rho), Rest), OnStack))
BY Zenon DEF NamesInOrder, Rest, OnStack, Pending, Remaining, Waiting, Cat

\* The types of what the names are put together from.
LEMMA NamesTypes ==
  ASSUME IInv
  PROVE  /\ policy \in Seq(Token) /\ text \in Seq(Token) /\ rho \in Seq(Seq(Token))
         /\ substr \in Seq(Token) /\ substrvec \in Seq(Seq(Token))
         /\ at \in 1..(Len(text) + 2) /\ FlattenSeq(rho) \in Seq(Token)
         /\ Waiting \in Seq(Seq(Token)) /\ Len(Waiting) = Len(stk) /\ IsSequence(stk)
         /\ Remaining(Waiting) \in Seq(Token) /\ OnStack \in Seq(Attribute)
         /\ Rest \in Seq(Attribute)
<1>1. /\ policy \in Seq(Token) /\ text \in Seq(Token) /\ rho \in Seq(Seq(Token))
      /\ substr \in Seq(Token) /\ substrvec \in Seq(Seq(Token))
      /\ at \in 1..(Len(text) + 2) /\ IsSequence(stk)
      /\ \A k \in DOMAIN stk : stk[k].text \in Seq(Token)
  BY PoliciesAssumption DEF IInv, TypeOK, IsPair, text
<1>2. FlattenSeq(rho) \in Seq(Token)
  BY <1>1, FlattenType
<1>3. Waiting \in Seq(Seq(Token)) /\ Len(Waiting) = Len(stk)
  <2>1. DOMAIN stk = 1..Len(stk) /\ Len(stk) \in Nat
    BY <1>1 DEF IsSequence
  <2>2. Waiting \in [1..Len(stk) -> Seq(Token)]
    BY <1>1, <2>1 DEF Waiting
  <2> QED
    BY <2>1, <2>2
<1>4. Remaining(Waiting) \in Seq(Token)
  <2>1. <<>> \in Seq(Token)
    OBVIOUS
  <2> QED
    BY <1>3, <2>1, RemainingAppend
<1>5. OnStack \in Seq(Attribute)
  BY <1>4, NamesType DEF OnStack
<1>6. Rest \in Seq(Attribute)
  <2>1. CASE pc = "split"
    <3> DEFINE F == Names(FlattenSeq(substrvec))
               U == Names(substr)
               R == Names(SubSeq(text, at, Len(text)))
    <3>1. Pending(text, at, substr, substrvec) = Cat(Cat(F, U), R)
          /\ F \in Seq(Attribute) /\ U \in Seq(Attribute) /\ R \in Seq(Attribute)
      BY <1>1, PendingIs
    <3> HIDE DEF F, U, R
    <3>2. Cat(Cat(F, U), R) \in Seq(Attribute)
      BY <3>1, CatType
    <3> QED
      BY <2>1, <3>1, <3>2 DEF Rest
  <2>2. CASE pc # "split"
    BY <2>2 DEF Rest
  <2> QED
    BY <2>1, <2>2
<1> QED
  BY <1>1, <1>2, <1>3, <1>4, <1>5, <1>6

\* The stack loses its top.
LEMMA WaitingPop ==
  ASSUME IInv, IInv', stk # <<>>, stk' = Front(stk), Last(stk).text \in Seq(Token)
  PROVE  OnStack = Names(Last(stk).text) \o OnStack'
<1> DEFINE s == Last(stk).text
           n == Len(stk)
<1>1. /\ Waiting \in Seq(Seq(Token)) /\ Len(Waiting) = Len(stk) /\ IsSequence(stk)
  BY NamesTypes
<1>2. /\ Waiting' \in Seq(Seq(Token)) /\ Len(Waiting') = Len(stk') /\ Remaining(Waiting') \in Seq(Token)
  <2>1. (IInv => /\ Waiting \in Seq(Seq(Token)) /\ Len(Waiting) = Len(stk)
                 /\ Remaining(Waiting) \in Seq(Token))'
    BY NamesTypes, PTL
  <2> QED
    BY <2>1
<1>3. /\ Len(stk') = n - 1 /\ Last(stk) = stk[n] /\ DOMAIN stk = 1..n /\ DOMAIN stk' = 1..(n - 1)
      /\ \A i \in 1..(n - 1) : stk'[i] = stk[i]
      /\ n \in Nat /\ n # 0
  <2>1. /\ Len(Front(stk)) = Len(stk) - 1
        /\ \A i \in 1..(Len(stk) - 1) : Front(stk)[i] = stk[i]
        /\ Len(stk) \in DOMAIN stk /\ Last(stk) = stk[Len(stk)]
        /\ DOMAIN stk = 1..Len(stk) /\ DOMAIN Front(stk) = 1..(Len(stk) - 1)
    BY <1>1, FrontLast
  <2>2. Len(stk) \in Nat
    BY <1>1 DEF IsSequence
  <2> QED
    BY <2>1, <2>2
<1>4. Waiting = Append(Waiting', s)
  <2> DEFINE T == Seq(Token)
             u == Waiting
             v == Waiting'
             w == Append(v, s)
  <2>1. /\ \A i \in 1..n : u[i] = stk[i].text
        /\ \A i \in 1..(n - 1) : v[i] = stk'[i].text
    BY <1>3 DEF Waiting
  <2>2. u \in Seq(T) /\ Len(u) = n /\ v \in Seq(T) /\ Len(v) = n - 1 /\ s \in T
    BY <1>1, <1>2, <1>3
  <2> HIDE DEF T, u, v
  <2>3. w \in Seq(T) /\ Len(w) = n /\ (\A i \in 1..(n - 1) : w[i] = v[i]) /\ w[n] = s
    <3>1. (n - 1) + 1 = n
      BY <1>3
    <3> QED
      BY <2>2, <3>1
  <2>4. s = stk[n].text
    BY <1>3
  <2> HIDE DEF w, s, n
  <2>5. ASSUME NEW i \in 1..n PROVE u[i] = w[i]
    <3>1. CASE i = n
      BY <2>1, <2>3, <2>4, <3>1
    <3>2. CASE i # n
      <4>1. i \in 1..(n - 1)
        BY <1>3, <3>2
      <4> QED
        BY <1>3, <2>1, <2>3, <4>1
    <3> QED
      BY <3>1, <3>2
  <2>6. u = w
    BY <2>2, <2>3, <2>5, SeqEqual
  <2> QED
    BY <2>6 DEF u, v, w
<1>5. Remaining(Waiting) = s \o Remaining(Waiting')
  BY <1>2, <1>4, RemainingAppend
<1>6. Names(s \o Remaining(Waiting')) = Names(s) \o Names(Remaining(Waiting'))
  BY <1>2, NamesConcat
<1> QED
  BY <1>5, <1>6 DEF OnStack

-----------------------------------------------------------------------------
(* The names keep their order.                                             *)

\* A field of the records of a sequence, turned around with it.
LEMMA ReverseText ==
  ASSUME NEW r, IsSequence(r)
  PROVE  /\ Len(Reverse(r)) = Len(r) /\ Len(r) \in Nat
         /\ \A i \in 1..Len(r) : Reverse(r)[i] = r[(Len(r) - i) + 1]
<1>1. r \in Seq(Range(r))
  BY DEF IsSequence
<1> QED
  BY <1>1, ReverseFacts

\* The parts of a gate come on top, the first on top of the others.
LEMMA WaitingPush ==
  ASSUME IInv, IInv', PushParts
  PROVE  Waiting' = Waiting \o Reverse(Parts) /\ Parts \in Seq(Seq(Token))
<1> DEFINE vec == Padded(top.vec, counter)
           n == Len(Parts)
           m == Len(stk)
           new == [x \in DOMAIN Parts |-> Pair(WithPowers(vec, x, d), Parts[x])]
           T == Seq(Token)
           u == Waiting
           v == Reverse(Parts)
           w == Waiting'
           uv == u \o v
<1>1. stk' = stk \o Reverse(new)
  BY DEF PushParts
<1>2. Parts \in Seq(T) /\ DOMAIN Parts = 1..n /\ n \in Nat
  BY DEF IInv, TypeOK, Parts
<1>3. u \in Seq(T) /\ Len(u) = m /\ IsSequence(stk)
  BY NamesTypes
<1>4. w \in Seq(T) /\ Len(w) = Len(stk')
  <2>1. (IInv => Waiting \in Seq(Seq(Token)) /\ Len(Waiting) = Len(stk))'
    BY NamesTypes, PTL
  <2> QED
    BY <2>1
<1>5. new = [x \in 1..n |-> new[x]] /\ \A x \in 1..n : new[x].text = Parts[x]
  BY <1>2 DEF Pair
<1> HIDE DEF n, new, m, T
<1>6. IsSequence(new) /\ Len(new) = n
  BY <1>2, <1>5, FunctionIsSequence
<1>7. v \in Seq(T) /\ Len(v) = n /\ \A i \in 1..n : v[i] = Parts[(n - i) + 1]
  BY <1>2, ReverseFacts DEF n
<1>8. /\ IsSequence(Reverse(new)) /\ Len(Reverse(new)) = n
      /\ \A i \in 1..n : Reverse(new)[i] = new[(n - i) + 1]
  BY <1>6, ReverseText, ReverseSequence
<1>9. /\ m \in Nat /\ DOMAIN stk = 1..m /\ DOMAIN stk' = 1..(m + n)
      /\ \A i \in 1..(m + n) : stk'[i] = IF i <= m THEN stk[i] ELSE Reverse(new)[i - m]
  <2>1. m \in Nat /\ DOMAIN stk = 1..m
    BY <1>3 DEF IsSequence, m
  <2>2. /\ DOMAIN (stk \o Reverse(new)) = 1..(Len(stk) + Len(Reverse(new)))
        /\ \A i \in 1..(Len(stk) + Len(Reverse(new))) :
             (stk \o Reverse(new))[i] = IF i <= Len(stk) THEN stk[i] ELSE Reverse(new)[i - Len(stk)]
    BY <1>3, <1>8, ConcatSequence, Zenon
  <2> QED
    BY <1>1, <1>8, <2>1, <2>2, Zenon DEF m
<1>10. /\ \A i \in 1..m : u[i] = stk[i].text
       /\ \A i \in 1..(m + n) : w[i] = stk'[i].text
  BY <1>9 DEF Waiting
<1>11. Len(w) = m + n
  <2>1. DOMAIN w = 1..(m + n)
    BY <1>9 DEF Waiting
  <2> HIDE DEF w
  <2>2. DOMAIN w = 1..Len(w) /\ Len(w) \in Nat
    BY <1>4
  <2>3. m + n \in Nat
    BY <1>2, <1>9
  <2> QED
    BY <2>1, <2>2, <2>3
<1> HIDE DEF u, v, w
<1>12. /\ uv \in Seq(T) /\ Len(uv) = Len(u) + Len(v)
       /\ \A i \in 1..Len(u) : uv[i] = u[i]
       /\ \A i \in 1..Len(v) : uv[Len(u) + i] = v[i]
  <2>1. u \in Seq(T) /\ v \in Seq(T)
    BY <1>3, <1>7
  <2> QED
    BY <2>1
<1> HIDE DEF uv
<1>13. ASSUME NEW i \in 1..(m + n) PROVE w[i] = uv[i]
  <2>1. CASE i <= m
    <3>1. i \in 1..m
      BY <1>9, <2>1
    <3> QED
      BY <1>3, <1>9, <1>10, <1>12, <2>1, <3>1
  <2>2. CASE ~ (i <= m)
    <3> DEFINE k == i - m
               j == (n - k) + 1
    <3>1. k \in 1..n /\ m + k = i /\ j \in 1..n
      BY <1>2, <1>9, <2>2
    <3>2. stk'[i] = Reverse(new)[k]
      BY <1>9, <2>2
    <3>3. v[k] = Parts[j] /\ Reverse(new)[k] = new[j]
      BY <1>7, <1>8, <3>1
    <3> HIDE DEF k, j
    <3>4. new[j].text = Parts[j]
      BY <1>5, <3>1
    <3>5. uv[i] = v[k]
      BY <1>3, <1>7, <1>12, <3>1
    <3> QED
      BY <1>10, <3>2, <3>3, <3>4, <3>5
  <2> QED
    BY <2>1, <2>2
<1>14. w = uv
  <2>1. Len(uv) = m + n
    BY <1>3, <1>7, <1>12
  <2> QED
    BY <1>4, <1>11, <1>12, <1>13, <2>1, SeqEqual
<1> QED
  BY <1>2, <1>14 DEF w, uv, u, v, T

LEMMA InitNamesInOrder == Init => NamesInOrder
<1> SUFFICES ASSUME Init PROVE NamesInOrder
  OBVIOUS
<1>1. /\ rho = <<>> /\ pc = "loop" /\ stk = <<Pair(<<1>>, policy)>> /\ policy \in Seq(Token)
  BY PoliciesAssumption DEF Init
<1>2. Waiting = <<policy>>
  <2>1. DOMAIN stk = 1..1 /\ stk[1].text = policy
    BY <1>1 DEF Pair
  <2>2. Waiting = [k \in 1..1 |-> policy]
    BY <2>1 DEF Waiting
  <2> QED
    BY <2>2
<1>3. Remaining(Waiting) = policy
  <2>1. <<>> \in Seq(Seq(Token)) /\ Append(<<>>, policy) = <<policy>>
    OBVIOUS
  <2>2. Remaining(<<policy>>) = policy \o Remaining(<<>>)
    BY <1>1, <2>1, RemainingAppend
  <2>3. Reverse(<<>>) = <<>>
    <3>1. <<>> \in Seq(Seq(Token)) /\ Len(<<>>) = 0
      OBVIOUS
    <3>2. Reverse(<<>>) = [k \in 1..Len(<<>>) |-> <<>>[(Len(<<>>) - k) + 1]]
      BY DEF Reverse
    <3>3. 1..Len(<<>>) = {}
      BY <3>1
    <3>4. Reverse(<<>>) = [k \in {} |-> <<>>[(Len(<<>>) - k) + 1]]
      BY <3>2, <3>3, Zenon
    <3> QED
      BY <3>4
  <2>4. Remaining(<<>>) = <<>>
    BY <2>3, FlattenEmpty DEF Remaining
  <2>5. policy \o <<>> = policy
    BY <1>1
  <2> QED
    BY <1>2, <2>2, <2>4, <2>5
<1>4. FlattenSeq(rho) = <<>> /\ Rest = <<>>
  BY <1>1, FlattenEmpty DEF Rest
<1>5. Names(policy) \in Seq(Attribute) /\ <<>> \in Seq(Attribute)
  BY <1>1, NamesType
<1>6. Cat(Cat(<<>>, <<>>), Names(policy)) = Names(policy)
  BY <1>5, CatEmpty
<1> QED
  BY <1>3, <1>4, <1>6, NamesInOrderIs DEF OnStack

LEMMA StepNamesInOrder ==
  IInv /\ IInv' /\ SplitsTexts /\ NamesInOrder /\ [Next]_vars => NamesInOrder'
<1> SUFFICES ASSUME IInv, IInv', SplitsTexts, NamesInOrder, [Next]_vars PROVE NamesInOrder'
  OBVIOUS
<1> DEFINE F == FlattenSeq(rho)
<1>1. /\ TypeOK /\ text \in Seq(Token) /\ rho \in Seq(Seq(Token)) /\ substr \in Seq(Token)
      /\ substrvec \in Seq(Seq(Token)) /\ F \in Seq(Token) /\ Waiting \in Seq(Seq(Token))
      /\ OnStack \in Seq(Attribute) /\ Rest \in Seq(Attribute) /\ IsSequence(stk)
      /\ at \in 1..(Len(text) + 2)
  BY NamesTypes DEF IInv
<1>2. OnStack' \in Seq(Attribute) /\ Rest' \in Seq(Attribute)
  <2>1. (IInv => OnStack \in Seq(Attribute) /\ Rest \in Seq(Attribute))'
    BY NamesTypes, PTL
  <2> QED
    BY <2>1
<1>3. /\ F \in Seq(Token) /\ OnStack \in Seq(Token) /\ Rest \in Seq(Token)
      /\ OnStack' \in Seq(Token) /\ Rest' \in Seq(Token)
  <2>1. Attribute \subseteq Token
    BY DEF Token
  <2>2. \A s \in Seq(Attribute) : s \in Seq(Token)
    BY <2>1
  <2> QED
    BY <1>1, <1>2, <2>2
<1>4. (NamesInOrder <=> (pc # "abort" => Names(policy) = Cat(Cat(FlattenSeq(rho), Rest), OnStack)))'
  BY NamesInOrderIs, PTL
<1>5. pc # "abort" => Names(policy) = Cat(Cat(F, Rest), OnStack)
  BY NamesInOrderIs
<1>6. \A k \in DOMAIN stk : stk[k].text \in Texts
  BY DEF SplitsTexts
<1>7. ASSUME stk # <<>> PROVE Last(stk).text \in Texts /\ Last(stk).text \in Seq(Token)
  <2>1. Len(stk) \in DOMAIN stk /\ Last(stk) = stk[Len(stk)]
    BY <1>1, <1>7, FrontLast
  <2>2. Last(stk).text \in Texts
    BY <1>6, <2>1
  <2> QED
    BY <2>2, TextFacts
<1>8. CASE Leaf
  <2> DEFINE s == Last(stk).text
  <2>1. /\ stk # <<>> /\ stk' = Front(stk) /\ s[1] # "(" /\ rho' = Append(rho, s)
        /\ pc = "loop" /\ pc' = "loop" /\ policy' = policy
    BY <1>8 DEF Leaf
  <2>2. s \in Texts /\ s \in Seq(Token)
    BY <1>7, <2>1
  <2>3. OnStack = Names(s) \o OnStack'
    BY <2>1, <2>2, WaitingPop
  <2> HIDE DEF s
  <2>4. Names(s) = s
    <3>1. s[1] \in Attribute /\ s = <<s[1]>> /\ s[1] \in Token
      BY <2>1, <2>2, NameFacts DEF Token
    <3>2. NameOf(s[1]) = <<s[1]>>
      BY <3>1 DEF NameOf
    <3>3. Names(<<s[1]>>) = NameOf(s[1])
      BY <3>1, NamesOne
    <3> QED
      BY <3>1, <3>2, <3>3, Zenon
  <2>5. FlattenSeq(rho') = Cat(F, s)
    <3>1. FlattenSeq(Append(rho, s)) = F \o s
      BY <1>1, <2>2, FlattenAppend
    <3> QED
      BY <2>1, <3>1, Zenon DEF Cat
  <2>6. Rest = <<>> /\ Rest' = <<>>
    BY <2>1 DEF Rest
  <2> HIDE DEF F
  <2>7. Cat(Cat(F, <<>>), Cat(s, OnStack')) = Cat(Cat(Cat(F, s), <<>>), OnStack')
    <3>1. Cat(F, s) \in Seq(Token)
      BY <1>3, <2>2, CatType
    <3>2. Cat(F, <<>>) = F /\ Cat(Cat(F, s), <<>>) = Cat(F, s)
      BY <1>3, <3>1, CatEmpty
    <3>3. Cat(Cat(F, s), OnStack') = Cat(F, Cat(s, OnStack'))
      BY <1>3, <2>2, CatAssociative
    <3> QED
      BY <3>2, <3>3, Zenon
  <2>8. OnStack = Cat(s, OnStack')
    BY <2>3, <2>4, Zenon DEF Cat
  <2>9. pc # "abort"
    BY <2>1
  <2> QED
    BY <1>4, <1>5, <2>1, <2>5, <2>6, <2>7, <2>8, <2>9, Zenon
<1>9. CASE Gate
  <2> DEFINE s == Last(stk).text
  <2>1. /\ stk # <<>> /\ stk' = Front(stk) /\ s[1] = "(" /\ rho' = rho
        /\ top'.text = SubSeq(s, 2, Len(s) - 3)
        /\ at' = 1 /\ substr' = <<>> /\ substrvec' = <<>>
        /\ pc = "loop" /\ pc' = "split" /\ policy' = policy
    BY <1>9 DEF Gate, Pair
  <2>2. s \in Texts /\ s \in Seq(Token)
    BY <1>7, <2>1
  <2>3. OnStack = Names(s) \o OnStack'
    BY <2>1, <2>2, WaitingPop
  <2> HIDE DEF s
  <2>4. IsGate(s, text', s[Len(s) - 1])
    BY <2>1, <2>2, GateSplits DEF text
  <2>5. Names(s) = Names(text')
    BY <2>4, NamesGate
  <2>6. text' \in Seq(Token) /\ Inner(text')
    BY <2>4, GateInner DEF Inner
  <2>7. Rest' = Names(text')
    <3>1. Rest' = Pending(text', 1, <<>>, <<>>)
      BY <2>1 DEF Rest
    <3> DEFINE t == text'
    <3>2. t \in Seq(Token) /\ 1 \in 1..(Len(t) + 2) /\ <<>> \in Seq(Token) /\ <<>> \in Seq(Seq(Token))
      BY <2>6
    <3> HIDE DEF t
    <3>3. Pending(t, 1, <<>>, <<>>)
            = Cat(Cat(Names(FlattenSeq(<<>>)), Names(<<>>)), Names(SubSeq(t, 1, Len(t))))
      BY <3>2, PendingIs
    <3>4. SubSeq(t, 1, Len(t)) = t /\ Names(t) \in Seq(Attribute) /\ <<>> \in Seq(Attribute)
      BY <3>2, SubSeqFull, NamesType
    <3>5. Cat(Cat(<<>>, <<>>), Names(t)) = Names(t)
      BY <3>4, CatEmpty
    <3>6. Pending(t, 1, <<>>, <<>>) = Names(t)
      BY <3>3, <3>4, <3>5, FlattenEmpty, NamesEmpty, Zenon
    <3> QED
      BY <3>1, <3>6 DEF t
  <2>8. Rest = <<>> /\ pc # "abort"
    BY <2>1 DEF Rest
  <2>9. OnStack = Cat(Rest', OnStack')
    BY <2>3, <2>5, <2>7, Zenon DEF Cat
  <2> HIDE DEF F
  <2>10. Cat(Cat(F, <<>>), Cat(Rest', OnStack')) = Cat(Cat(F, Rest'), OnStack')
    <3>1. Cat(F, <<>>) = F
      BY <1>3, CatEmpty
    <3>2. Cat(Cat(F, Rest'), OnStack') = Cat(F, Cat(Rest', OnStack'))
      BY <1>3, CatAssociative
    <3> QED
      BY <3>1, <3>2, Zenon
  <2>11. FlattenSeq(rho') = F
    BY <2>1 DEF F
  <2> QED
    BY <1>4, <1>5, <2>1, <2>8, <2>9, <2>10, <2>11, Zenon
<1>10. ASSUME UNCHANGED splitRest, pc = "split", Pending(text, at', substr', substrvec') = Rest
       PROVE  NamesInOrder'
  <2>1. /\ stk' = stk /\ rho' = rho /\ policy' = policy /\ pc' = pc /\ text' = text
    BY <1>10 DEF splitRest, text
  <2>2. OnStack' = OnStack /\ FlattenSeq(rho') = F
    BY <2>1 DEF OnStack, Waiting
  <2>3. Rest' = Rest
    BY <1>10, <2>1 DEF Rest
  <2> QED
    BY <1>4, <1>5, <2>1, <2>2, <2>3, Zenon
<1>11. ASSUME Splitting
       PROVE  /\ pc = "split" /\ at \in 1..Len(text) /\ at <= Len(text)
              /\ Rest = Pending(text, at, substr, substrvec)
              /\ \E g : SplitAt(g, text, Digit[d], at, ct, substr, substrvec)
  BY <1>1, <1>11 DEF Splitting, Rest, SplitsTexts
<1>12. CASE EndGroup
  <2>1. Splitting /\ UNCHANGED splitRest
    BY <1>12 DEF EndGroup
  <2>2. PICK g : SplitAt(g, text, Digit[d], at, ct, substr, substrvec)
    BY <1>11, <2>1
  <2>3. /\ text[at] = ")" /\ substrvec' = Append(substrvec, Append(substr, text[at]))
        /\ substr' = <<>> /\ at' = at + 2
    BY <1>1, <1>12, <2>1, <2>2, SplittingSteps DEF taken
  <2>4. ASSUME at < Len(text) PROVE text[at + 1] = Comma
    <3>1. Grammatical(text)
      BY <2>2, GateInner DEF SplitAt, Inner
    <3>2. at \in 1..(Len(text) - 1)
      BY <1>1, <2>4
    <3>3. MayFollow(text[at], text[at + 1])
      BY <3>1, <3>2 DEF Grammatical
    <3> QED
      BY <2>3, <3>3, Following
  <2>5. Pending(text, at', substr', substrvec') = Rest
    BY <1>1, <1>11, <2>1, <2>3, <2>4, PendingEnd
  <2> QED
    BY <1>10, <1>11, <2>1, <2>5
<1>13. CASE EndName
  <2>1. Splitting /\ UNCHANGED splitRest
    BY <1>13 DEF EndName
  <2>2. PICK g : SplitAt(g, text, Digit[d], at, ct, substr, substrvec)
    BY <1>11, <2>1
  <2>3. /\ text[at + 1] = Comma /\ substrvec' = Append(substrvec, Append(substr, text[at]))
        /\ substr' = <<>> /\ at' = at + 2
    BY <1>1, <1>13, <2>1, <2>2, SplittingSteps DEF taken
  <2>4. Pending(text, at', substr', substrvec') = Rest
    BY <1>1, <1>11, <2>1, <2>3, PendingEnd
  <2> QED
    BY <1>10, <1>11, <2>1, <2>4
<1>14. CASE Take
  <2>1. Splitting /\ UNCHANGED splitRest
    BY <1>14 DEF Take
  <2>2. PICK g : SplitAt(g, text, Digit[d], at, ct, substr, substrvec)
    BY <1>11, <2>1
  <2>3. substrvec' = substrvec /\ substr' = Append(substr, text[at]) /\ at' = at + 1
    BY <1>1, <1>14, <2>1, <2>2, SplittingSteps DEF taken
  <2>4. Pending(text, at', substr', substrvec') = Rest
    BY <1>1, <1>11, <2>1, <2>3, PendingTake
  <2> QED
    BY <1>10, <1>11, <2>1, <2>4
<1>15. CASE Abort
  <2>1. pc' = "abort"
    BY <1>15 DEF Abort
  <2> QED
    BY <1>4, <2>1
<1>16. CASE PushParts
  <2>1. pc = "split" /\ pc' = "loop" /\ rho' = rho /\ policy' = policy /\ at > Len(text)
    BY <1>16 DEF PushParts
  <2>2. Waiting' = Waiting \o Reverse(Parts) /\ Parts \in Seq(Seq(Token))
    BY <1>16, WaitingPush
  <2> DEFINE G == FlattenSeq(Parts)
  <2>3. Remaining(Waiting') = G \o Remaining(Waiting)
    BY <1>1, <2>2, RemainingPush
  <2>4. G \in Seq(Token) /\ Remaining(Waiting) \in Seq(Token)
    BY <2>2, FlattenType, NamesTypes
  <2> HIDE DEF G
  <2>5. OnStack' = Cat(Names(G), OnStack) /\ Names(G) \in Seq(Attribute)
    <3>1. Names(G \o Remaining(Waiting)) = Names(G) \o Names(Remaining(Waiting))
      BY <2>4, NamesConcat
    <3>2. Names(G) \in Seq(Attribute)
      BY <2>4, NamesType
    <3> QED
      BY <2>3, <3>1, <3>2, Zenon DEF OnStack, Cat
  <2>6. Rest = Names(G)
    <3>1. Rest = Cat(Cat(Names(FlattenSeq(substrvec)), Names(substr)), Names(SubSeq(text, at, Len(text))))
          /\ Names(FlattenSeq(substrvec)) \in Seq(Attribute) /\ Names(substr) \in Seq(Attribute)
      BY <1>1, <2>1, PendingIs DEF Rest
    <3>2. Len(text) < at /\ at \in Int /\ Len(text) \in Int
      BY <1>1, <2>1
    <3>3. Names(SubSeq(text, at, Len(text))) = <<>>
      BY <3>2, SubSeqEmpty, NamesEmpty
    <3> DEFINE A == Names(FlattenSeq(substrvec))
               B == Names(substr)
    <3>4. A \in Seq(Attribute) /\ B \in Seq(Attribute) /\ Rest = Cat(Cat(A, B), <<>>)
      BY <3>1, <3>3
    <3> HIDE DEF A, B
    <3>5. Cat(A, B) \in Seq(Attribute)
      BY <3>4, CatType
    <3>6. Rest = Cat(A, B)
      BY <3>4, <3>5, CatEmpty
    <3>7. Names(G) = Cat(A, B)
      <4>1. CASE substr = <<>>
        <5>1. Parts = substrvec
          BY <4>1 DEF Parts
        <5>2. Names(G) = A /\ B = <<>>
          BY <4>1, <5>1, NamesEmpty DEF G, A, B
        <5>3. Cat(A, <<>>) = A
          BY <3>4, CatEmpty
        <5> QED
          BY <5>2, <5>3, Zenon
      <4>2. CASE substr # <<>>
        <5>1. Parts = Append(substrvec, substr)
          BY <4>2 DEF Parts
        <5>2. G = FlattenSeq(substrvec) \o substr
          BY <1>1, <5>1, FlattenAppend DEF G
        <5>3. FlattenSeq(substrvec) \in Seq(Token)
          BY <1>1, FlattenType
        <5>4. Names(FlattenSeq(substrvec) \o substr) = Names(FlattenSeq(substrvec)) \o Names(substr)
          BY <1>1, <5>3, NamesConcat
        <5> QED
          BY <5>2, <5>4, Zenon DEF A, B, Cat
      <4> QED
        BY <4>1, <4>2
    <3> QED
      BY <3>6, <3>7, Zenon
  <2>7. Rest' = <<>> /\ pc # "abort"
    BY <2>1 DEF Rest
  <2> HIDE DEF F
  <2>8. Cat(Cat(F, Rest), OnStack) = Cat(Cat(F, <<>>), Cat(Rest, OnStack))
    <3>1. Cat(F, <<>>) = F
      BY <1>3, CatEmpty
    <3>2. Cat(Cat(F, Rest), OnStack) = Cat(F, Cat(Rest, OnStack))
      BY <1>3, CatAssociative
    <3> QED
      BY <3>1, <3>2, Zenon
  <2>9. OnStack' = Cat(Rest, OnStack)
    BY <2>5, <2>6, Zenon
  <2>10. FlattenSeq(rho') = F
    BY <2>1 DEF F
  <2> QED
    BY <1>4, <1>5, <2>1, <2>7, <2>8, <2>9, <2>10, Zenon
<1>17. ASSUME UNCHANGED <<policy, rho, stk>>, Rest' = Rest, pc # "abort" \/ pc' = pc PROVE NamesInOrder'
  <2>1. OnStack' = OnStack /\ FlattenSeq(rho') = F /\ policy' = policy
    BY <1>17 DEF OnStack, Waiting
  <2> QED
    BY <1>4, <1>5, <1>17, <2>1, Zenon
<1>18. CASE Reshape
  <2>1. UNCHANGED <<policy, rho, stk>> /\ pc = "loop" /\ pc' = "done"
    BY <1>18 DEF Reshape
  <2>2. Rest' = Rest
    BY <2>1 DEF Rest
  <2> QED
    BY <1>17, <2>1, <2>2
<1>19. CASE UNCHANGED vars
  <2>1. UNCHANGED <<policy, rho, stk>> /\ pc' = pc
    BY <1>19 DEF vars
  <2>2. Rest' = Rest
    BY <1>19 DEF vars, Rest, text
  <2> QED
    BY <1>17, <2>1, <2>2
<1> QED
  BY <1>8, <1>9, <1>12, <1>13, <1>14, <1>15, <1>16, <1>18, <1>19 DEF Next, Step, Finished

\* However the policy nests its gates, the rows, what is being split and the
\* stack spell its names in their order: none is lost, repeated or moved.
THEOREM LSSSNamesInOrder == Spec => []NamesInOrder
BY InitNamesInOrder, StepNamesInOrder, SpecIInv, SpecSplitsTexts, PTL DEF Spec

-----------------------------------------------------------------------------
(* Powers.                                                                 *)

\* The first powers of x.
PowersTo(x, n, f) ==
  /\ f \in [0..n -> Int]
  /\ f[0] = 1
  /\ \A c \in 1..n : f[c] = f[c - 1] * x

\* There are such powers: by induction on n.
LEMMA PowersExist ==
  ASSUME NEW x \in Int, NEW n \in Nat
  PROVE  \E f : PowersTo(x, n, f)
<1> DEFINE Q == {m \in Nat : \E f : PowersTo(x, m, f)}
<1>1. 0 \in Q
  <2>1. PowersTo(x, 0, [c \in 0..0 |-> 1])
    BY DEF PowersTo
  <2> QED
    BY <2>1
<1>2. ASSUME NEW m \in Nat, m \in Q PROVE m + 1 \in Q
  <2>1. PICK f : PowersTo(x, m, f)
    BY <1>2
  <2> DEFINE e == f[m] * x
             h == [c \in 0..(m + 1) |-> IF c <= m THEN f[c] ELSE e]
  <2>2. f[m] \in Int
    BY <2>1 DEF PowersTo
  <2>3. e \in Int
    BY <2>2
  <2>4. h \in [0..(m + 1) -> Int] /\ h[0] = 1
    <3> HIDE DEF e
    <3> QED
      BY <2>1, <2>3 DEF PowersTo
  <2>5. ASSUME NEW c \in 1..(m + 1) PROVE h[c] = h[c - 1] * x
    <3>1. CASE c <= m
      BY <2>1, <3>1 DEF PowersTo
    <3>2. CASE c = m + 1
      BY <3>2
    <3> QED
      BY <3>1, <3>2
  <2> HIDE DEF h
  <2>6. PowersTo(x, m + 1, h)
    BY <2>4, <2>5 DEF PowersTo
  <2> QED
    BY <2>6
<1> HIDE DEF Q
<1>3. Nat \subseteq Q
  BY <1>1, <1>2, Induction
<1>4. n \in Q
  BY <1>3
<1> QED
  BY <1>4 DEF Q

LEMMA PowerIsLast ==
  ASSUME NEW x \in Int, NEW n \in Nat, NEW h, PowersTo(x, n, h)
  PROVE  Power(x, n) = h[n]
<1> DEFINE Is(g) == g = [t \in 0..n |-> IF t = 0 THEN 1 ELSE g[t - 1] * x]
           f == CHOOSE g : Is(g)
<1>1. Is(h)
  BY DEF PowersTo
<1>2. Is(f)
  BY <1>1
<1>3. Power(x, n) = f[n]
  BY DEF Power
<1> HIDE DEF f
<1> DEFINE Q == {m \in Nat : m <= n => f[m] = h[m]}
<1>4. 0 \in Q
  BY <1>1, <1>2
<1>5. ASSUME NEW m \in Nat, m \in Q PROVE m + 1 \in Q
  BY <1>1, <1>2, <1>5
<1> HIDE DEF Q
<1>6. Nat \subseteq Q
  BY <1>4, <1>5, Induction
<1>7. n \in Q
  BY <1>6
<1> QED
  BY <1>3, <1>7 DEF Q

\* A power is a number, and the next one has a factor more.
LEMMA PowerSteps ==
  ASSUME NEW x \in Int, NEW n \in Nat
  PROVE  Power(x, 0) = 1 /\ Power(x, n) \in Int /\ Power(x, n + 1) = Power(x, n) * x
<1>1. PICK h : PowersTo(x, n + 1, h)
  BY PowersExist
<1> DEFINE f == [c \in 0..n |-> h[c]]
           e == [c \in 0..0 |-> h[c]]
<1>2. PowersTo(x, n, f) /\ f[n] = h[n]
  BY <1>1 DEF PowersTo
<1>3. PowersTo(x, 0, e) /\ e[0] = 1
  BY <1>1 DEF PowersTo
<1>4. h[n] \in Int /\ h[n + 1] = h[n] * x
  <2>1. h \in [0..(n + 1) -> Int] /\ \A c \in 1..(n + 1) : h[c] = h[c - 1] * x
    BY <1>1 DEF PowersTo
  <2>2. n + 1 \in 1..(n + 1) /\ n \in 0..(n + 1) /\ (n + 1) - 1 = n
    OBVIOUS
  <2> QED
    BY <2>1, <2>2
<1> HIDE DEF f, e
<1>5. Power(x, n) = f[n]
  BY <1>2, PowerIsLast
<1>6. Power(x, n + 1) = h[n + 1]
  BY <1>1, PowerIsLast
<1>7. Power(x, 0) = e[0]
  BY <1>3, PowerIsLast
<1> QED
  BY <1>2, <1>3, <1>4, <1>5, <1>6, <1>7

-----------------------------------------------------------------------------
(* Sums of products.                                                       *)

\* Three sums go on, the first as the other two together.
LEMMA LinearStep ==
  ASSUME NEW a \in Int, NEW b \in Int, NEW p \in Int, NEW q \in Int, NEW r \in Int,
         NEW t \in Int, NEW y \in Int, NEW z \in Int,
         Same(p, a * q + b * r), Same(t, a * y + b * z)
  PROVE  Same((p + t) % Order, a * ((q + y) % Order) + b * ((r + z) % Order))
<1> DEFINE e == a * q + b * r
           h == a * y + b * z
           j == a * (q + y) + b * (r + z)
           k == a * ((q + y) % Order) + b * ((r + z) % Order)
<1>1. e \in Int /\ h \in Int /\ j \in Int /\ p + t \in Int /\ q + y \in Int /\ r + z \in Int
  OBVIOUS
<1>2. j = e + h
  <2>1. a * (q + y) = a * q + a * y /\ b * (r + z) = b * r + b * z
    OBVIOUS
  <2>2. a * q \in Int /\ a * y \in Int /\ b * r \in Int /\ b * z \in Int
    OBVIOUS
  <2> QED
    BY <2>1, <2>2
<1>3. Same(k, j)
  BY <1>1, Rests DEF Same
<1> HIDE DEF e, h, j, k
<1>4. Same(p + t, e + h)
  BY <1>1, SameSum DEF e, h
<1>5. Same((p + t) % Order, p + t)
  BY <1>1, SameRest
<1> QED
  BY <1>2, <1>3, <1>4, <1>5 DEF Same, k

\* What holds of the summands holds of the sums: by induction on their number.
LEMMA LinearTerms ==
  ASSUME NEW n \in Nat, NEW a \in Int, NEW b \in Int,
         NEW w, NEW x, NEW v, NEW y, NEW u, NEW z,
         Numbers(w, n), Numbers(x, n), Numbers(v, n), Numbers(y, n), Numbers(u, n), Numbers(z, n),
         \A c \in 1..n : Same(w[c] * x[c], a * (v[c] * y[c]) + b * (u[c] * z[c]))
  PROVE  Same(Product(w, x, n), a * Product(v, y, n) + b * Product(u, z, n))
<1> DEFINE Q == {m \in Nat : m <= n =>
                   Same(Product(w, x, m), a * Product(v, y, m) + b * Product(u, z, m))}
<1>1. 0 \in Q
  <2>1. Product(w, x, 0) = 0 /\ Product(v, y, 0) = 0 /\ Product(u, z, 0) = 0
    BY ProductOfNone
  <2>2. a * 0 + b * 0 = 0
    OBVIOUS
  <2> QED
    BY <2>1, <2>2 DEF Same
<1>2. ASSUME NEW m \in Nat, m \in Q PROVE m + 1 \in Q
  <2> SUFFICES ASSUME m + 1 <= n
               PROVE  Same(Product(w, x, m + 1), a * Product(v, y, m + 1) + b * Product(u, z, m + 1))
    OBVIOUS
  <2>1. /\ Numbers(w, m + 1) /\ Numbers(x, m + 1) /\ Numbers(v, m + 1)
        /\ Numbers(y, m + 1) /\ Numbers(u, m + 1) /\ Numbers(z, m + 1)
    BY DEF Numbers
  <2>2. /\ w[m + 1] \in Int /\ x[m + 1] \in Int /\ v[m + 1] \in Int
        /\ y[m + 1] \in Int /\ u[m + 1] \in Int /\ z[m + 1] \in Int
    BY <2>1 DEF Numbers
  <2> DEFINE p == Product(w, x, m)
             q == Product(v, y, m)
             r == Product(u, z, m)
             t == w[m + 1] * x[m + 1]
             e == v[m + 1] * y[m + 1]
             f == u[m + 1] * z[m + 1]
  <2>3. Product(w, x, m + 1) = (p + t) % Order /\ p \in Int
    BY <2>1, ProductSteps, Elements
  <2>4. Product(v, y, m + 1) = (q + e) % Order /\ q \in Int
    BY <2>1, ProductSteps, Elements
  <2>5. Product(u, z, m + 1) = (r + f) % Order /\ r \in Int
    BY <2>1, ProductSteps, Elements
  <2>6. t \in Int /\ e \in Int /\ f \in Int
    BY <2>2
  <2>7. Same(p, a * q + b * r)
    BY <1>2
  <2>8. Same(t, a * e + b * f)
    <3>1. m + 1 \in 1..n
      OBVIOUS
    <3> QED
      BY <3>1
  <2> HIDE DEF p, q, r, t, e, f
  <2>9. Same((p + t) % Order, a * ((q + e) % Order) + b * ((r + f) % Order))
    BY <2>3, <2>4, <2>5, <2>6, <2>7, <2>8, LinearStep
  <2> QED
    BY <2>3, <2>4, <2>5, <2>9
<1> HIDE DEF Q
<1>3. Nat \subseteq Q
  BY <1>1, <1>2, Induction
<1>4. n \in Q
  BY <1>3
<1> QED
  BY <1>4 DEF Q

\* Elements of Zr with the same rest are equal.
LEMMA SameElements == \A y, z \in Zr : Same(y, z) => y = z
BY Elements DEF Same

\* A multiple of the summands.
LEMMA MultipleTerms ==
  ASSUME NEW n \in Nat, NEW a \in Int, NEW w, NEW x, NEW v, NEW y,
         Numbers(w, n), Numbers(x, n), Numbers(v, n), Numbers(y, n),
         \A c \in 1..n : Same(w[c] * x[c], a * (v[c] * y[c]))
  PROVE  Same(Product(w, x, n), a * Product(v, y, n))
<1>1. \A c \in 1..n : Same(w[c] * x[c], a * (v[c] * y[c]) + 0 * (v[c] * y[c]))
  <2> SUFFICES ASSUME NEW c \in 1..n
               PROVE  Same(w[c] * x[c], a * (v[c] * y[c]) + 0 * (v[c] * y[c]))
    OBVIOUS
  <2>1. v[c] \in Int /\ y[c] \in Int
    BY DEF Numbers
  <2>2. a * (v[c] * y[c]) + 0 * (v[c] * y[c]) = a * (v[c] * y[c])
    BY <2>1
  <2> QED
    BY <2>2
<1>2. Same(Product(w, x, n), a * Product(v, y, n) + 0 * Product(v, y, n))
  BY <1>1, LinearTerms
<1>3. Product(v, y, n) \in Int
  BY ProductType, Elements
<1>4. a * Product(v, y, n) + 0 * Product(v, y, n) = a * Product(v, y, n)
  BY <1>3
<1> QED
  BY <1>2, <1>4

LEMMA SameTerms ==
  ASSUME NEW n \in Nat, NEW w, NEW x, NEW v, NEW y,
         Numbers(w, n), Numbers(x, n), Numbers(v, n), Numbers(y, n),
         \A c \in 1..n : Same(w[c] * x[c], v[c] * y[c])
  PROVE  Product(w, x, n) = Product(v, y, n)
<1>1. \A c \in 1..n : Same(w[c] * x[c], 1 * (v[c] * y[c]))
  BY DEF Numbers
<1>2. Same(Product(w, x, n), 1 * Product(v, y, n))
  BY <1>1, MultipleTerms
<1>3. Product(v, y, n) \in Zr /\ Product(w, x, n) \in Zr
  BY ProductType
<1>4. 1 * Product(v, y, n) = Product(v, y, n)
  BY <1>3, Elements
<1> QED
  BY <1>2, <1>3, <1>4, SameElements

\* A sum in two pieces: by induction on the length of the second.
LEMMA ProductSplit ==
  ASSUME NEW m \in Nat, NEW k \in Nat, NEW v, NEW x, NEW u, NEW y,
         Numbers(v, m + k), Numbers(x, m + k),
         \A i \in 1..k : u[i] = v[m + i] /\ y[i] = x[m + i]
  PROVE  Same(Product(v, x, m + k), Product(v, x, m) + Product(u, y, k))
<1> DEFINE Q == {j \in Nat : j <= k =>
                   Same(Product(v, x, m + j), Product(v, x, m) + Product(u, y, j))}
<1>0. Numbers(v, m) /\ Numbers(x, m) /\ Numbers(u, k) /\ Numbers(y, k)
  <2>1. \A c \in 1..m : c \in 1..(m + k)
    OBVIOUS
  <2>2. \A i \in 1..k : m + i \in 1..(m + k)
    OBVIOUS
  <2> QED
    BY <2>1, <2>2 DEF Numbers
<1>1. Product(v, x, m) \in Zr /\ Product(v, x, m) \in Int
  BY <1>0, ProductType, Elements
<1>2. 0 \in Q
  <2>1. Product(u, y, 0) = 0 /\ m + 0 = m /\ Product(v, x, m) + 0 = Product(v, x, m)
    BY <1>1, ProductOfNone
  <2> QED
    BY <2>1 DEF Same
<1>3. ASSUME NEW j \in Nat, j \in Q PROVE j + 1 \in Q
  <2> SUFFICES ASSUME j + 1 <= k
               PROVE  Same(Product(v, x, m + (j + 1)), Product(v, x, m) + Product(u, y, j + 1))
    OBVIOUS
  <2>1. /\ m + j \in Nat /\ m + (j + 1) = (m + j) + 1
        /\ Numbers(v, (m + j) + 1) /\ Numbers(x, (m + j) + 1)
        /\ Numbers(u, j + 1) /\ Numbers(y, j + 1)
    BY <1>0 DEF Numbers
  <2> DEFINE P == Product(v, x, m)
             p == Product(v, x, m + j)
             q == Product(u, y, j)
             t == v[(m + j) + 1] * x[(m + j) + 1]
  <2>2. Product(v, x, (m + j) + 1) = (p + t) % Order /\ p \in Int
    BY <2>1, ProductSteps, Elements
  <2>3. Product(u, y, j + 1) = (q + u[j + 1] * y[j + 1]) % Order /\ q \in Int
    BY <2>1, ProductSteps, Elements
  <2>4. u[j + 1] * y[j + 1] = t
    <3>1. j + 1 \in 1..k /\ m + (j + 1) = (m + j) + 1
      OBVIOUS
    <3> QED
      BY <3>1
  <2>5. t \in Int
    <3>1. (m + j) + 1 \in 1..((m + j) + 1)
      OBVIOUS
    <3> QED
      BY <2>1, <3>1 DEF Numbers
  <2>6. Same(p, P + q)
    BY <1>3
  <2> HIDE DEF P, p, q, t
  <2>7. P \in Int
    BY <1>1 DEF P
  <2>8. Same(p + t, (P + q) + t)
    <3>1. Same(t, t) /\ P + q \in Int
      BY <2>3, <2>7 DEF Same
    <3> QED
      BY <2>2, <2>5, <2>6, <3>1, SameSum
  <2>9. Same((q + t) % Order, q + t)
    BY <2>3, <2>5, SameRest
  <2>10. Same(P + ((q + t) % Order), P + (q + t))
    <3>1. Same(P, P) /\ q + t \in Int /\ (q + t) % Order \in Int
      BY <2>3, <2>5, SameRest DEF Same
    <3> QED
      BY <2>7, <2>9, <3>1, SameSum
  <2>11. (P + q) + t = P + (q + t)
    BY <2>3, <2>5, <2>7
  <2>12. Same((p + t) % Order, p + t)
    BY <2>2, <2>5, SameRest
  <2>13. Same((p + t) % Order, P + ((q + t) % Order))
    BY <2>8, <2>10, <2>11, <2>12 DEF Same
  <2> QED
    BY <2>1, <2>2, <2>3, <2>4, <2>13 DEF P
<1> HIDE DEF Q
<1>4. Nat \subseteq Q
  BY <1>2, <1>3, Induction
<1>5. k \in Q
  BY <1>4
<1> QED
  BY <1>5 DEF Q

-----------------------------------------------------------------------------
(* Points, and weights that interpolate at them.                           *)

\* Different points other than zero.
Points(pt, n) ==
  /\ pt \in [1..n -> 1..(Order - 1)]
  /\ \A i, j \in 1..n : pt[i] = pt[j] => i = j

\* The t-th powers of the points.
PowerRow(pt, n, t) == [i \in 1..n |-> Power(pt[i], t)]

LEMMA PowerRowSteps ==
  ASSUME NEW n \in Nat, NEW pt, Points(pt, n), NEW t \in Nat
  PROVE  /\ Numbers(PowerRow(pt, n, t), n)
         /\ \A i \in 1..n : /\ PowerRow(pt, n, 0)[i] = 1 /\ pt[i] \in Int
                            /\ PowerRow(pt, n, t)[i] \in Int
                            /\ PowerRow(pt, n, t + 1)[i] = PowerRow(pt, n, t)[i] * pt[i]
<1>1. Order \in Nat
  BY OrderAssumption
<1>2. ASSUME NEW i \in 1..n
      PROVE  /\ PowerRow(pt, n, 0)[i] = 1 /\ pt[i] \in Int /\ PowerRow(pt, n, t)[i] \in Int
             /\ PowerRow(pt, n, t + 1)[i] = PowerRow(pt, n, t)[i] * pt[i]
  <2>1. pt[i] \in Int
    BY <1>1 DEF Points
  <2>2. Power(pt[i], 0) = 1 /\ Power(pt[i], t) \in Int /\ Power(pt[i], t + 1) = Power(pt[i], t) * pt[i]
    BY <2>1, PowerSteps
  <2> QED
    BY <2>1, <2>2 DEF PowerRow
<1> QED
  BY <1>2 DEF Numbers

\* The difference of two points has an inverse.
LEMMA Inverses ==
  ASSUME NEW x \in 1..(Order - 1), NEW p \in 1..(Order - 1), x # p
  PROVE  \E q \in Zr : Same(q * (x - p), 1)
<1>1. Order \in Nat /\ Order > 1 /\ x \in Int /\ p \in Int
  BY OrderAssumption
<1> DEFINE e == IF x > p THEN x - p ELSE (x - p) + Order
<1>2. e \in 1..(Order - 1) /\ e \in Int
  BY <1>1
<1>3. PICK q \in 1..(Order - 1) : (e * q) % Order = 1
  BY <1>2, FieldAssumption
<1>4. Same(e, x - p)
  <2>1. CASE x > p
    BY <2>1 DEF Same
  <2>2. CASE ~ (x > p)
    <3>1. x - p \in Int /\ 1 \in Int /\ e = (x - p) + 1 * Order
      BY <1>1, <2>2
    <3> HIDE DEF e
    <3>2. e % Order = (x - p) % Order
      BY <1>2, <3>1, ModPeriod
    <3> QED
      BY <3>2 DEF Same
  <2> QED
    BY <2>1, <2>2
<1> HIDE DEF e
<1>5. q \in Int /\ q \in Zr
  BY <1>1 DEF Zr
<1>6. Same(q * e, q * (x - p))
  <2>1. Same(q, q) /\ x - p \in Int
    BY <1>1 DEF Same
  <2> QED
    BY <1>2, <1>4, <1>5, <2>1, SameProduct
<1>7. 1 % Order = 1 /\ q * e = e * q
  <2>1. 1 \in Zr
    BY <1>1 DEF Zr
  <2> QED
    BY <1>2, <1>5, <2>1, Elements
<1> QED
  BY <1>3, <1>5, <1>6, <1>7 DEF Same

\* Weights on the points of A that give the constant term of every polynomial with
\* fewer coefficients than A has points.
Interpolates(w, pt, n, A) ==
  /\ w \in [1..n -> Zr]
  /\ \A i \in 1..n : i \notin A => w[i] = 0
  /\ \A t \in Nat : t < Cardinality(A) =>
       Product(w, PowerRow(pt, n, t), n) = (IF t = 0 THEN 1 ELSE 0)

\* A weight y for the point x, made from the weight o that it had before the point p.
LEMMA WeightOf ==
  ASSUME NEW x \in Int, NEW p \in Int, NEW q \in Int, NEW o \in Int, Same(q * (x - p), 1)
  PROVE  Same((((-p) * (q * o)) % Order) * (x - p), (-p) * o)
<1> DEFINE y == (-p) * (q * o)
<1>1. y \in Int /\ x - p \in Int /\ (-p) * o \in Int /\ q * (x - p) \in Int
  OBVIOUS
<1>2. y * (x - p) = ((-p) * o) * (q * (x - p))
  <2> DEFINE e == x - p
             f == -p
  <2>1. e \in Int /\ f \in Int
    OBVIOUS
  <2> HIDE DEF e, f
  <2>2. (f * (q * o)) * e = (f * o) * (q * e)
    BY <2>1
  <2> QED
    BY <2>2 DEF e, f
<1> HIDE DEF y
<1>3. Same((y % Order) * (x - p), y * (x - p))
  <2>1. Same(y % Order, y) /\ y % Order \in Int /\ Same(x - p, x - p)
    BY <1>1, SameRest DEF Same
  <2> QED
    BY <1>1, <2>1, SameProduct
<1>4. Same(((-p) * o) * (q * (x - p)), ((-p) * o) * 1)
  <2>1. Same((-p) * o, (-p) * o) /\ 1 \in Int
    BY DEF Same
  <2> QED
    BY <1>1, <2>1, SameProduct
<1>5. ((-p) * o) * 1 = (-p) * o
  BY <1>1
<1> QED
  BY <1>2, <1>3, <1>4, <1>5 DEF Same, y

\* The next power, by the relation of the old and the new weight.
LEMMA NextPower ==
  ASSUME NEW x \in Int, NEW p \in Int, NEW y \in Int, NEW o \in Int, NEW r \in Int,
         Same(y * (x - p), (-p) * o)
  PROVE  Same(y * (r * x), p * (y * r) + (-p) * (o * r))
<1> DEFINE e == y * (x - p)
           f == (-p) * o
<1>1. e \in Int /\ f \in Int /\ e * r \in Int /\ f * r \in Int /\ p * (y * r) \in Int
  OBVIOUS
<1>2. y * (r * x) = p * (y * r) + e * r
  <2> DEFINE s == x - p
             k == y * r
  <2>1. s \in Int /\ x = p + s /\ k \in Int
    OBVIOUS
  <2>2. y * (r * x) = k * x
    OBVIOUS
  <2>3. (y * s) * r = k * s
    BY <2>1
  <2> HIDE DEF s, k
  <2>4. k * x = p * k + k * s
    BY <2>1
  <2> QED
    BY <2>2, <2>3, <2>4 DEF s, k
<1>3. (-p) * (o * r) = f * r
  OBVIOUS
<1> HIDE DEF e, f
<1>4. Same(e * r, f * r)
  <2>1. Same(r, r) /\ Same(e, f)
    BY DEF Same, e, f
  <2> QED
    BY <1>1, <2>1, SameProduct
<1>5. Same(p * (y * r) + e * r, p * (y * r) + f * r)
  <2>1. Same(p * (y * r), p * (y * r))
    BY DEF Same
  <2> QED
    BY <1>1, <1>4, <2>1, SameSum
<1> QED
  BY <1>2, <1>3, <1>5

\* A point more.
LEMMA InterpolateStep ==
  ASSUME NEW n \in Nat, NEW pt, Points(pt, n), NEW A, A \subseteq 1..n, NEW z \in A,
         NEW w, Interpolates(w, pt, n, A \ {z}), NEW k \in Nat,
         Cardinality(A \ {z}) = k, Cardinality(A) = k + 1
  PROVE  \E l : Interpolates(l, pt, n, A)
<1> DEFINE p == pt[z]
           x(t) == PowerRow(pt, n, t)
<1>1. /\ z \in 1..n /\ Order \in Nat /\ Order > 1 /\ p \in Int
      /\ p \in 1..(Order - 1) /\ \A i \in 1..n : pt[i] \in 1..(Order - 1) /\ pt[i] \in Int
      /\ \A i \in 1..n : i # z => pt[i] # p
  BY OrderAssumption DEF Points
<1>2. w \in [1..n -> Zr] /\ w[z] = 0 /\ \A i \in 1..n : w[i] \in Int /\ (i \notin A => w[i] = 0)
  BY <1>1, Elements DEF Interpolates
<1> DEFINE q == [i \in 1..n |-> CHOOSE e \in Zr : Same(e * (pt[i] - p), 1)]
<1>3. \A i \in 1..n : i # z => q[i] \in Zr /\ q[i] \in Int /\ Same(q[i] * (pt[i] - p), 1)
  <2> SUFFICES ASSUME NEW i \in 1..n, i # z
               PROVE  q[i] \in Zr /\ q[i] \in Int /\ Same(q[i] * (pt[i] - p), 1)
    OBVIOUS
  <2>1. pt[i] \in 1..(Order - 1) /\ pt[i] # p
    BY <1>1
  <2> DEFINE pi == pt[i]
  <2> HIDE DEF p, pi
  <2>2. \E e \in Zr : Same(e * (pi - p), 1)
    BY <1>1, <2>1, Inverses DEF pi
  <2>3. q[i] = CHOOSE e \in Zr : Same(e * (pi - p), 1)
    BY DEF pi
  <2> HIDE DEF q
  <2>4. q[i] \in Zr /\ Same(q[i] * (pi - p), 1)
    BY <2>2, <2>3, Zenon
  <2> QED
    BY <2>4, Elements DEF pi
<1> HIDE DEF q
<1> DEFINE m == [i \in 1..n |-> IF i = z THEN 0 ELSE ((-p) * (q[i] * w[i])) % Order]
           s == Product(m, x(0), n)
           c == (1 - s) % Order
           l == [i \in 1..n |-> IF i = z THEN c ELSE m[i]]
           u == [i \in 1..n |-> IF i = z THEN 1 ELSE 0]
<1>4. m \in [1..n -> Zr] /\ m[z] = 0 /\ \A i \in 1..n : i \notin A => m[i] = 0
  <2>1. 0 \in Zr /\ 0 % Order = 0
    BY <1>1 DEF Zr
  <2>2. \A i \in 1..n : i # z => ((-p) * (q[i] * w[i])) % Order \in Zr
    <3> HIDE DEF p
    <3>1. \A i \in 1..n : i # z => (-p) * (q[i] * w[i]) \in Int
      BY <1>1, <1>2, <1>3
    <3> QED
      BY <3>1, Mod
  <2>3. \A i \in 1..n : i \notin A => ((-p) * (q[i] * w[i])) % Order = 0
    <3> HIDE DEF p
    <3>1. \A i \in 1..n : i \notin A => i # z /\ q[i] \in Int /\ w[i] = 0
      BY <1>2, <1>3
    <3>2. \A i \in 1..n : i \notin A => (-p) * (q[i] * w[i]) = 0
      BY <1>1, <3>1
    <3> QED
      BY <2>1, <3>2
  <2> QED
    BY <1>1, <2>1, <2>2, <2>3
<1>5. \A t \in Nat : Numbers(x(t), n)
  BY PowerRowSteps
<1>6. Numbers(m, n) /\ Numbers(w, n) /\ Numbers(u, n)
  BY <1>2, <1>4, Elements DEF Numbers
<1>7. s \in Int
  <2> HIDE DEF m, x
  <2> QED
    BY <1>5, <1>6, ProductType, Elements
<1>8. c \in Zr /\ c \in Int /\ Same(c, 1 - s)
  <2> HIDE DEF s
  <2>1. 1 - s \in Int
    BY <1>7
  <2> QED
    BY <2>1, Mod, SameRest DEF Zr
<1>9. l \in [1..n -> Zr] /\ Numbers(l, n) /\ \A i \in 1..n : i \notin A => l[i] = 0
  <2> HIDE DEF c, m
  <2>1. l \in [1..n -> Zr]
    BY <1>4, <1>8
  <2> QED
    BY <1>4, <2>1, Elements DEF Numbers
<1>10. \A i \in 1..n : Same(l[i] * (pt[i] - p), (-p) * w[i])
  <2> SUFFICES ASSUME NEW i \in 1..n PROVE Same(l[i] * (pt[i] - p), (-p) * w[i])
    OBVIOUS
  <2>1. CASE i = z
    <3>1. l[i] = c /\ pt[i] - p = 0 /\ w[i] = 0
      BY <1>1, <1>2, <2>1
    <3>2. l[i] * (pt[i] - p) = 0 /\ (-p) * w[i] = 0
      <4> HIDE DEF c, p, l
      <4>1. c * 0 = 0 /\ (-p) * 0 = 0
        BY <1>1, <1>8
      <4> QED
        BY <3>1, <4>1
    <3> QED
      BY <3>2 DEF Same
  <2>2. CASE i # z
    <3>1. l[i] = ((-p) * (q[i] * w[i])) % Order
      BY <2>2
    <3> HIDE DEF l, p
    <3>2. pt[i] \in Int /\ q[i] \in Int /\ w[i] \in Int /\ Same(q[i] * (pt[i] - p), 1)
      BY <1>1, <1>2, <1>3, <2>2
    <3>3. Same((((-p) * (q[i] * w[i])) % Order) * (pt[i] - p), (-p) * w[i])
      BY <1>1, <3>2, WeightOf
    <3> QED
      BY <3>1, <3>3
  <2> QED
    BY <2>1, <2>2
<1> HIDE DEF l, m
<1>11. Product(l, x(0), n) = 1
  <2> DEFINE y == x(0)
  <2>1. Numbers(y, n) /\ \A i \in 1..n : y[i] = 1
    BY <1>5, PowerRowSteps
  <2> HIDE DEF x, y
  <2>2. ASSUME NEW i \in 1..n PROVE Same(l[i] * y[i], 1 * (m[i] * y[i]) + c * (u[i] * y[i]))
    <3>1. y[i] = 1 /\ m[i] \in Int /\ l[i] = (IF i = z THEN c ELSE m[i]) /\ u[i] = (IF i = z THEN 1 ELSE 0)
      BY <1>4, <2>1, Elements DEF l
    <3> HIDE DEF c
    <3>2. l[i] * y[i] = 1 * (m[i] * y[i]) + c * (u[i] * y[i])
      BY <1>4, <1>8, <3>1
    <3> QED
      BY <3>2 DEF Same
  <2> HIDE DEF u
  <2>3. Same(Product(l, y, n), 1 * Product(m, y, n) + c * Product(u, y, n))
    <3>1. /\ Numbers(l, n) /\ Numbers(y, n) /\ Numbers(m, n) /\ Numbers(u, n)
          /\ 1 \in Int /\ c \in Int
      BY <1>6, <1>8, <1>9, <2>1
    <3> HIDE DEF c
    <3>2. \A i \in 1..n : Same(l[i] * y[i], 1 * (m[i] * y[i]) + c * (u[i] * y[i]))
      BY <2>2
    <3> QED
      BY <3>1, <3>2, LinearTerms
  <2>4. 1 % Order = 1 /\ 1 \in Zr
    BY <1>1 DEF Zr
  <2>5. Product(u, y, n) = 1
    <3>1. \A i \in 1..n : u[i] = (IF i = z THEN 1 ELSE 0)
      BY DEF u
    <3>2. Product(u, y, n) = y[z] % Order
      BY <1>1, <2>1, <3>1, UnitProduct
    <3> QED
      BY <1>1, <2>1, <2>4, <3>2
  <2>6. Product(m, y, n) = s
    BY DEF y
  <2> HIDE DEF s
  <2>7. Same(s + c, s + (1 - s))
    <3>1. Same(s, s) /\ 1 - s \in Int
      BY <1>7 DEF Same
    <3> HIDE DEF c
    <3> QED
      BY <1>7, <1>8, <3>1, SameSum
  <2>8. 1 * s + c * 1 = s + c /\ s + (1 - s) = 1
    <3> HIDE DEF c
    <3> QED
      BY <1>7, <1>8
  <2>9. Same(Product(l, y, n), 1)
    BY <2>3, <2>5, <2>6, <2>7, <2>8 DEF Same
  <2>10. Product(l, y, n) \in Zr
    BY <1>9, <2>1, ProductType
  <2> QED
    BY <2>4, <2>9, <2>10, SameElements DEF y
<1>12. \A t \in Nat : Same(Product(l, x(t + 1), n), p * Product(l, x(t), n) + (-p) * Product(w, x(t), n))
  <2> SUFFICES ASSUME NEW t \in Nat
               PROVE Same(Product(l, x(t + 1), n), p * Product(l, x(t), n) + (-p) * Product(w, x(t), n))
    OBVIOUS
  <2> DEFINE y == x(t)
             v == x(t + 1)
  <2>1. Numbers(y, n) /\ Numbers(v, n)
    BY <1>5
  <2>2. \A i \in 1..n : y[i] \in Int /\ v[i] = y[i] * pt[i]
    BY PowerRowSteps
  <2> HIDE DEF x, y, v, p
  <2>3. ASSUME NEW i \in 1..n PROVE Same(l[i] * v[i], p * (l[i] * y[i]) + (-p) * (w[i] * y[i]))
    <3>1. l[i] \in Int /\ w[i] \in Int /\ pt[i] \in Int /\ y[i] \in Int /\ v[i] = y[i] * pt[i]
      BY <1>1, <1>2, <1>9, <2>2 DEF Numbers
    <3>2. Same(l[i] * (pt[i] - p), (-p) * w[i])
      BY <1>10
    <3>3. Same(l[i] * (y[i] * pt[i]), p * (l[i] * y[i]) + (-p) * (w[i] * y[i]))
      BY <1>1, <3>1, <3>2, NextPower
    <3> QED
      BY <3>1, <3>3
  <2>4. -p \in Int
    BY <1>1
  <2>5. Same(Product(l, v, n), p * Product(l, y, n) + (-p) * Product(w, y, n))
    BY <1>1, <1>6, <1>9, <2>1, <2>3, <2>4, LinearTerms
  <2> QED
    BY <2>5 DEF v, y
<1> DEFINE Q == {t \in Nat : t < k + 1 => Product(l, x(t), n) = (IF t = 0 THEN 1 ELSE 0)}
<1>13. 0 \in Q
  BY <1>11
<1>14. ASSUME NEW t \in Nat, t \in Q PROVE t + 1 \in Q
  <2> SUFFICES ASSUME t + 1 < k + 1 PROVE Product(l, x(t + 1), n) = 0
    OBVIOUS
  <2> DEFINE e == IF t = 0 THEN 1 ELSE 0
  <2>1. Product(l, x(t), n) = e
    BY <1>14
  <2>2. Product(w, x(t), n) = e
    BY DEF Interpolates
  <2>3. Product(l, x(t + 1), n) \in Zr
    <3>1. Numbers(x(t + 1), n)
      BY <1>5
    <3> HIDE DEF x
    <3> QED
      BY <1>9, <3>1, ProductType
  <2>4. p * e + (-p) * e = 0 /\ 0 \in Zr
    <3>1. e \in Int
      OBVIOUS
    <3> HIDE DEF e, p
    <3>2. p * e + (-p) * e = 0
      BY <1>1, <3>1
    <3> QED
      BY <1>1, <3>2 DEF Zr
  <2>5. Same(Product(l, x(t + 1), n), p * Product(l, x(t), n) + (-p) * Product(w, x(t), n))
    BY <1>12
  <2> HIDE DEF x, e, p
  <2> QED
    BY <2>1, <2>2, <2>3, <2>4, <2>5, SameElements
<1> HIDE DEF Q
<1>15. Nat \subseteq Q
  BY <1>13, <1>14, Induction
<1>16. \A t \in Nat : t < Cardinality(A) => Product(l, PowerRow(pt, n, t), n) = (IF t = 0 THEN 1 ELSE 0)
  BY <1>15 DEF Q
<1>17. Interpolates(l, pt, n, A)
  BY <1>9, <1>16 DEF Interpolates
<1> QED
  BY <1>17

LEMMA SubsetsFinite ==
  ASSUME NEW n \in Nat, NEW A \in SUBSET (1..n)
  PROVE  IsFiniteSet(A) /\ Cardinality(A) \in Nat /\ (Cardinality(A) = 0 <=> A = {})
         /\ \A z \in A : Cardinality(A \ {z}) = Cardinality(A) - 1
<1>1. IsFiniteSet(1..n)
  BY FS_Interval
<1>2. IsFiniteSet(A)
  BY <1>1, FS_Subset
<1> QED
  BY <1>2, FS_CardinalityType, FS_EmptySet, FS_RemoveElement

\* Every set of points has such weights: by induction on its size.
LEMMA Interpolation ==
  ASSUME NEW n \in Nat, NEW pt, Points(pt, n), NEW A \in SUBSET (1..n)
  PROVE  \E w : Interpolates(w, pt, n, A)
<1> DEFINE Q == {k \in Nat : \A B \in SUBSET (1..n) : Cardinality(B) = k =>
                                \E w : Interpolates(w, pt, n, B)}
<1>1. 0 \in Q
  <2> SUFFICES ASSUME NEW B \in SUBSET (1..n), Cardinality(B) = 0
               PROVE  \E w : Interpolates(w, pt, n, B)
    OBVIOUS
  <2> DEFINE w == [i \in 1..n |-> 0]
  <2>1. 0 \in Zr
    BY OrderAssumption DEF Zr
  <2>2. w \in [1..n -> Zr] /\ \A i \in 1..n : w[i] = 0
    BY <2>1
  <2>3. \A t \in Nat : ~ (t < Cardinality(B))
    OBVIOUS
  <2> HIDE DEF w
  <2>4. Interpolates(w, pt, n, B)
    BY <2>2, <2>3 DEF Interpolates
  <2> QED
    BY <2>4
<1>2. ASSUME NEW k \in Nat, k \in Q PROVE k + 1 \in Q
  <2> SUFFICES ASSUME NEW B \in SUBSET (1..n), Cardinality(B) = k + 1
               PROVE  \E w : Interpolates(w, pt, n, B)
    OBVIOUS
  <2>1. Cardinality(B) # 0
    OBVIOUS
  <2>2. PICK z \in B : TRUE
    BY <2>1, SubsetsFinite
  <2>3. Cardinality(B \ {z}) = Cardinality(B) - 1
    BY SubsetsFinite
  <2>4. Cardinality(B \ {z}) = k
    BY <2>3
  <2>5. B \ {z} \in SUBSET (1..n) /\ B \subseteq 1..n
    OBVIOUS
  <2>6. PICK w : Interpolates(w, pt, n, B \ {z})
    BY <1>2, <2>4, <2>5
  <2> HIDE DEF Q
  <2> QED
    BY <2>4, <2>5, <2>6, InterpolateStep
<1> HIDE DEF Q
<1>3. Nat \subseteq Q
  BY <1>1, <1>2, Induction
<1>4. Cardinality(A) \in Q
  BY <1>3, SubsetsFinite
<1> QED
  BY <1>4 DEF Q

-----------------------------------------------------------------------------
(* Polynomials.                                                            *)

\* The powers of x that the coefficients of a polynomial multiply.
PowersOf(x, m) == [t \in 1..m |-> Power(x, t - 1)]

Value(c, x, m) == Product(c, PowersOf(x, m), m)

LEMMA PowersOfSteps ==
  ASSUME NEW x \in Int, NEW m \in Nat
  PROVE  /\ Numbers(PowersOf(x, m), m)
         /\ m > 0 => PowersOf(x, m)[1] = 1
         /\ \A t \in 1..m : PowersOf(x, m)[t] = Power(x, t - 1) /\ Power(x, t - 1) \in Int
                            /\ Power(x, t) = Power(x, t - 1) * x
<1>1. ASSUME NEW t \in 1..m
      PROVE  /\ PowersOf(x, m)[t] = Power(x, t - 1) /\ Power(x, t - 1) \in Int
             /\ Power(x, t) = Power(x, t - 1) * x
  <2>1. t - 1 \in Nat /\ (t - 1) + 1 = t
    OBVIOUS
  <2>2. Power(x, t - 1) \in Int /\ Power(x, (t - 1) + 1) = Power(x, t - 1) * x
    BY <2>1, PowerSteps
  <2> QED
    BY <2>1, <2>2 DEF PowersOf
<1>2. m > 0 => PowersOf(x, m)[1] = 1
  <2> SUFFICES ASSUME m > 0 PROVE PowersOf(x, m)[1] = 1
    OBVIOUS
  <2>1. 1 \in 1..m /\ 1 - 1 = 0
    OBVIOUS
  <2>2. PowersOf(x, m)[1] = Power(x, 1 - 1)
    BY <1>1, <2>1
  <2>3. Power(x, 0) = 1
    BY PowerSteps
  <2> QED
    BY <2>1, <2>2, <2>3
<1> QED
  BY <1>1, <1>2 DEF Numbers

\* With the coefficients moved up by one the value has the factor x.
LEMMA Shifted ==
  ASSUME NEW x \in Int, NEW m \in Nat, NEW c, Numbers(c, m + 1), c[m + 1] = 0,
         NEW s, s[1] = 0, \A t \in 1..m : s[t + 1] = c[t]
  PROVE  Numbers(s, m + 1) /\ Same(Value(s, x, m + 1), x * Value(c, x, m + 1))
<1> DEFINE P == PowersOf(x, m + 1)
           y == [t \in 1..m |-> Power(x, t)]
<1>1. m + 1 \in Nat /\ Numbers(P, m + 1) /\ P[1] = 1
  <2>1. m + 1 \in Nat /\ m + 1 > 0
    OBVIOUS
  <2> QED
    BY <2>1, PowersOfSteps, SMTT(30)
<1>2. \A t \in 1..(m + 1) : P[t] = Power(x, t - 1) /\ Power(x, t - 1) \in Int
                            /\ Power(x, t) = Power(x, t - 1) * x
  BY <1>1, PowersOfSteps
<1>3. Numbers(s, m + 1)
  <2> SUFFICES ASSUME NEW t \in 1..(m + 1) PROVE s[t] \in Int
    BY DEF Numbers
  <2>1. CASE t = 1
    BY <2>1
  <2>2. CASE t # 1
    <3>1. t - 1 \in 1..m /\ (t - 1) + 1 = t /\ t - 1 \in 1..(m + 1)
      BY <2>2
    <3>2. s[(t - 1) + 1] = c[t - 1] /\ c[t - 1] \in Int
      BY <3>1 DEF Numbers
    <3> QED
      BY <3>1, <3>2
  <2> QED
    BY <2>1, <2>2
<1> HIDE DEF P
<1>4. \A t \in 1..m : c[t] = s[1 + t] /\ y[t] = P[1 + t]
  <2> SUFFICES ASSUME NEW t \in 1..m PROVE c[t] = s[1 + t] /\ y[t] = P[1 + t]
    OBVIOUS
  <2>1. t + 1 = 1 + t /\ t + 1 \in 1..(m + 1) /\ (t + 1) - 1 = t
    OBVIOUS
  <2>2. P[t + 1] = Power(x, (t + 1) - 1)
    BY <1>2, <2>1
  <2> QED
    BY <2>1, <2>2
<1>5. Same(Product(s, P, 1 + m), Product(s, P, 1) + Product(c, y, m))
  <2>1. Numbers(s, 1 + m) /\ Numbers(P, 1 + m)
    <3>1. 1 + m = m + 1
      OBVIOUS
    <3> QED
      BY <1>1, <1>3, <3>1
  <2> HIDE DEF y
  <2> QED
    BY <1>4, <2>1, ProductSplit
<1>6. Product(s, P, 1) = 0
  <2>1. Numbers(s, 0 + 1) /\ Numbers(P, 0 + 1)
    BY <1>1, <1>3 DEF Numbers
  <2>2. Product(s, P, 0 + 1) = (Product(s, P, 0) + s[0 + 1] * P[0 + 1]) % Order
    BY <2>1, ProductSteps
  <2>3. Product(s, P, 0) = 0
    BY ProductOfNone
  <2>4. 0 + 1 = 1 /\ s[1] * P[1] = 0 /\ 0 % Order = 0
    BY <1>1, OrderAssumption
  <2> QED
    BY <2>2, <2>3, <2>4
<1>7. Numbers(c, m) /\ Numbers(P, m) /\ Numbers(y, m)
  <2>1. \A t \in 1..m : t \in 1..(m + 1) /\ t + 1 \in 1..(m + 1) /\ t + 1 = 1 + t
    OBVIOUS
  <2> HIDE DEF y
  <2> QED
    BY <1>1, <1>4, <2>1 DEF Numbers
<1>8. Same(Product(c, y, m), x * Product(c, P, m))
  <2>1. ASSUME NEW t \in 1..m PROVE Same(c[t] * y[t], x * (c[t] * P[t]))
    <3>1. t \in 1..(m + 1) /\ y[t] = Power(x, t)
      OBVIOUS
    <3>2. y[t] = P[t] * x /\ P[t] \in Int /\ c[t] \in Int
      BY <1>2, <1>7, <3>1 DEF Numbers
    <3> HIDE DEF y
    <3>3. c[t] * (P[t] * x) = x * (c[t] * P[t])
      BY <3>2
    <3> QED
      BY <3>2, <3>3 DEF Same
  <2> HIDE DEF y
  <2> QED
    BY <1>7, <2>1, MultipleTerms
<1>9. Product(c, P, m + 1) = Product(c, P, m)
  <2>1. Product(c, P, m) \in Zr /\ Product(c, P, m + 1) = (Product(c, P, m) + c[m + 1] * P[m + 1]) % Order
    BY <1>1, ProductSteps
  <2>2. m + 1 \in 1..(m + 1)
    OBVIOUS
  <2>3. P[m + 1] \in Int
    BY <1>1, <2>2 DEF Numbers
  <2>4. c[m + 1] * P[m + 1] = 0
    BY <2>3
  <2>5. Product(c, P, m) + 0 = Product(c, P, m)
    BY <2>1, Elements
  <2> QED
    BY <2>1, <2>4, <2>5, Elements
<1>10. 1 + m = m + 1 /\ 0 + Product(c, y, m) = Product(c, y, m)
  <2> HIDE DEF y
  <2>1. Product(c, y, m) \in Int
    BY <1>7, ProductType, Elements
  <2> QED
    BY <2>1
<1>11. Same(Product(s, P, m + 1), x * Product(c, P, m + 1))
  <2> HIDE DEF y
  <2> QED
    BY <1>5, <1>6, <1>8, <1>9, <1>10 DEF Same
<1> QED
  BY <1>3, <1>11 DEF P, Value

\* Coefficients of a polynomial, as many as the points it vanishes at and one, with
\* the constant term e.
Vanishes(c, pt, A, m, e) ==
  /\ c \in [1..m -> Zr]
  /\ c[1] = e
  /\ \A t \in 1..m : t > Cardinality(A) + 1 => c[t] = 0
  /\ \A i \in A : Value(c, pt[i], m) = 0

\* A factor 1 - q x.
LEMMA FactorMore ==
  ASSUME NEW m \in Nat, NEW c \in [1..(m + 1) -> Zr], c[m + 1] = 0, NEW q \in Int,
         NEW l, l = [t \in 1..(m + 1) |-> (1 * c[t] + (-q) * (IF t = 1 THEN 0 ELSE c[t - 1])) % Order],
         NEW x \in Int
  PROVE  Same(Value(l, x, m + 1), (1 - q * x) * Value(c, x, m + 1))
<1> DEFINE s == [t \in 1..(m + 1) |-> IF t = 1 THEN 0 ELSE c[t - 1]]
           P == PowersOf(x, m + 1)
           y == Product(c, P, m + 1)
           z == Product(s, P, m + 1)
<1>1. m + 1 \in Nat /\ Numbers(P, m + 1) /\ Numbers(c, m + 1)
  <2>1. m + 1 \in Nat
    OBVIOUS
  <2>2. \A t \in 1..(m + 1) : c[t] \in Int
    BY Elements
  <2> QED
    BY <2>1, <2>2, PowersOfSteps DEF Numbers
<1>2. s[1] = 0 /\ \A t \in 1..m : s[t + 1] = c[t]
  <2>1. ASSUME NEW t \in 1..m PROVE s[t + 1] = c[t]
    <3>1. t + 1 \in 1..(m + 1) /\ t + 1 # 1 /\ (t + 1) - 1 = t
      OBVIOUS
    <3> QED
      BY <3>1
  <2> QED
    BY <2>1
<1>3. Combined(l, 1, c, -q, s, m + 1)
  BY DEF Combined
<1> HIDE DEF s
<1>4. Numbers(s, m + 1) /\ Same(Value(s, x, m + 1), x * Value(c, x, m + 1))
  BY <1>1, <1>2, Shifted
<1> HIDE DEF P
<1>5. Product(l, P, m + 1) = (1 * y + (-q) * z) % Order
  <2>1. -q \in Int
    OBVIOUS
  <2> QED
    BY <1>1, <1>3, <1>4, <2>1, CombineRows
<1>6. y \in Int /\ z \in Int
  BY <1>1, <1>4, ProductType, Elements
<1>7. Same(z, x * y)
  BY <1>4 DEF Value, P
<1> HIDE DEF y, z
<1>8. Same((-q) * z, (-q) * (x * y))
  <2>1. Same(-q, -q) /\ -q \in Int /\ x * y \in Int
    BY <1>6 DEF Same
  <2> QED
    BY <1>6, <1>7, <2>1, SameProduct
<1>9. Same(1 * y + (-q) * z, 1 * y + (-q) * (x * y))
  <2>1. Same(1 * y, 1 * y) /\ 1 * y \in Int /\ (-q) * z \in Int /\ (-q) * (x * y) \in Int
    BY <1>6 DEF Same
  <2> QED
    BY <1>8, <2>1, SameSum
<1>10. 1 * y + (-q) * (x * y) = (1 - q * x) * y
  <2>1. (-q) * (x * y) = -((q * x) * y)
    BY <1>6
  <2> DEFINE e == q * x
  <2>2. e \in Int
    OBVIOUS
  <2> HIDE DEF e
  <2>3. 1 * y + (-(e * y)) = (1 - e) * y
    BY <1>6, <2>2
  <2> QED
    BY <2>1, <2>3 DEF e
<1>11. Same((1 * y + (-q) * z) % Order, 1 * y + (-q) * z)
  <2>1. 1 * y + (-q) * z \in Int
    BY <1>6
  <2> QED
    BY <2>1, SameRest
<1> QED
  BY <1>5, <1>9, <1>10, <1>11 DEF Same, Value, P, y

\* A point other than zero has an inverse.
LEMMA PointInverse ==
  ASSUME NEW x \in 1..(Order - 1)
  PROVE  \E q \in Int : Same(1 - q * x, 0)
<1>1. Order \in Nat /\ Order > 1 /\ x \in Int
  BY OrderAssumption
<1>2. PICK q \in 1..(Order - 1) : (x * q) % Order = 1
  BY FieldAssumption
<1>3. q \in Int /\ q * x \in Int /\ q * x = x * q /\ 1 % Order = 1
  <2>1. 1 \in Zr /\ q \in Int
    BY <1>1 DEF Zr
  <2> QED
    BY <1>1, <2>1, Elements
<1>4. Same(1, 1) /\ Same(q * x, 1)
  BY <1>2, <1>3 DEF Same
<1>5. Same(1 - q * x, 1 - 1)
  <2>1. 1 \in Int
    OBVIOUS
  <2> HIDE <1>2
  <2> QED
    BY <1>3, <1>4, <2>1, SameDifference
<1> QED
  BY <1>3, <1>5

\* A point more.
LEMMA VanishStep ==
  ASSUME NEW n \in Nat, NEW pt, Points(pt, n), NEW A \in SUBSET (1..n), NEW z \in A,
         NEW m \in Nat, NEW e, NEW c, Vanishes(c, pt, A \ {z}, m + 1, e), Cardinality(A) <= m
  PROVE  \E l : Vanishes(l, pt, A, m + 1, e)
<1>1. /\ Cardinality(A) \in Nat /\ Cardinality(A \ {z}) = Cardinality(A) - 1
      /\ \A i \in A : pt[i] \in 1..(Order - 1) /\ pt[i] \in Int
  <2>1. \A i \in A : i \in 1..n
    OBVIOUS
  <2>2. \A i \in A : pt[i] \in 1..(Order - 1)
    BY <2>1 DEF Points
  <2>3. \A i \in A : pt[i] \in Int
    BY <2>2, OrderAssumption
  <2>4. Cardinality(A) \in Nat /\ Cardinality(A \ {z}) = Cardinality(A) - 1
    BY SubsetsFinite
  <2> QED
    BY <2>2, <2>3, <2>4
<1>2. /\ c \in [1..(m + 1) -> Zr] /\ c[1] = e
      /\ \A t \in 1..(m + 1) : t > Cardinality(A) => c[t] = 0
      /\ \A i \in A : i # z => Value(c, pt[i], m + 1) = 0
  BY <1>1 DEF Vanishes
<1>3. c[m + 1] = 0 /\ m + 1 \in Nat /\ 1 \in 1..(m + 1)
  BY <1>1, <1>2
<1>4. PICK q \in Int : Same(1 - q * pt[z], 0)
  BY <1>1, PointInverse
<1> DEFINE l == [t \in 1..(m + 1) |-> (1 * c[t] + (-q) * (IF t = 1 THEN 0 ELSE c[t - 1])) % Order]
<1>5. \A t \in 1..(m + 1) : c[t] \in Int /\ (IF t = 1 THEN 0 ELSE c[t - 1]) \in Int
  <2>1. \A t \in 1..(m + 1) : c[t] \in Int
    BY <1>2, Elements
  <2>2. \A t \in 1..(m + 1) : t # 1 => t - 1 \in 1..(m + 1)
    OBVIOUS
  <2> QED
    BY <2>1, <2>2
<1>6. l \in [1..(m + 1) -> Zr]
  <2> SUFFICES ASSUME NEW t \in 1..(m + 1)
               PROVE (1 * c[t] + (-q) * (IF t = 1 THEN 0 ELSE c[t - 1])) % Order \in Zr
    OBVIOUS
  <2> DEFINE y == c[t]
             x == IF t = 1 THEN 0 ELSE c[t - 1]
  <2>1. y \in Int /\ x \in Int
    BY <1>5
  <2> HIDE DEF x, y
  <2>2. 1 * y + (-q) * x \in Int
    BY <2>1
  <2>3. (1 * y + (-q) * x) % Order \in Zr
    BY <2>2, Mod
  <2> QED
    BY <2>3 DEF x, y
<1>7. l[1] = e
  <2>1. l[1] = (1 * c[1] + (-q) * 0) % Order
    BY <1>3
  <2>2. c[1] \in Int /\ c[1] \in Zr /\ c[1] % Order = c[1]
    BY <1>2, <1>3, Elements
  <2>3. 1 * c[1] + (-q) * 0 = c[1]
    BY <2>2
  <2> QED
    BY <1>2, <2>1, <2>2, <2>3
<1>8. ASSUME NEW t \in 1..(m + 1), t > Cardinality(A) + 1 PROVE l[t] = 0
  <2>1. t # 1 /\ t - 1 \in 1..(m + 1) /\ t > Cardinality(A) /\ t - 1 > Cardinality(A)
    BY <1>1, <1>8
  <2>2. c[t] = 0 /\ c[t - 1] = 0
    BY <1>2, <2>1
  <2>3. 1 * 0 + (-q) * 0 = 0 /\ 0 % Order = 0
    BY OrderAssumption
  <2> QED
    BY <2>1, <2>2, <2>3
<1>9. ASSUME NEW i \in A PROVE Value(l, pt[i], m + 1) = 0
  <2> DEFINE x == pt[i]
             P == PowersOf(x, m + 1)
  <2>1. x \in Int
    BY <1>1
  <2> HIDE DEF x
  <2>2. Same(Value(l, x, m + 1), (1 - q * x) * Value(c, x, m + 1))
    BY <1>2, <1>3, <2>1, FactorMore
  <2>3. Numbers(l, m + 1) /\ Numbers(c, m + 1) /\ Numbers(P, m + 1)
    <3> HIDE DEF l
    <3> QED
      BY <1>2, <1>3, <1>6, <2>1, Elements, PowersOfSteps DEF Numbers
  <2> HIDE DEF l, P
  <2>4. Value(l, x, m + 1) \in Zr /\ Value(c, x, m + 1) \in Zr
    <3>1. Product(l, P, m + 1) \in Zr /\ Product(c, P, m + 1) \in Zr
      BY <1>3, <2>3, ProductType
    <3> QED
      BY <3>1 DEF Value, P
  <2> DEFINE v == Value(c, x, m + 1)
  <2>5. v \in Int /\ 0 \in Zr /\ 1 - q * x \in Int
    BY <2>1, <2>4, Elements, OrderAssumption DEF Zr
  <2>6. Same((1 - q * x) * v, 0)
    <3>1. CASE i = z
      <4> HIDE DEF v
      <4>1. Same(1 - q * x, 0) /\ Same(v, v)
        BY <1>4, <3>1 DEF Same, x
      <4>2. Same((1 - q * x) * v, 0 * v)
        BY <2>5, <4>1, SameProduct
      <4>3. 0 * v = 0
        BY <2>5
      <4> QED
        BY <4>2, <4>3
    <3>2. CASE i # z
      <4>1. v = 0
        BY <1>2, <3>2 DEF x
      <4>2. (1 - q * x) * 0 = 0
        BY <2>5
      <4> QED
        BY <4>1, <4>2 DEF Same
    <3> QED
      BY <3>1, <3>2
  <2>7. Value(l, x, m + 1) = 0
    BY <2>2, <2>4, <2>5, <2>6, SameElements DEF Same
  <2> QED
    BY <2>7 DEF x
<1> HIDE DEF l
<1>10. Vanishes(l, pt, A, m + 1, e)
  BY <1>6, <1>7, <1>8, <1>9 DEF Vanishes
<1> QED
  BY <1>10

\* There is a polynomial with any constant term that vanishes at these points, if it
\* has a coefficient more than there are points: by induction on their number.
LEMMA Vanishing ==
  ASSUME NEW n \in Nat, NEW pt, Points(pt, n), NEW A \in SUBSET (1..n), NEW m \in Nat,
         Cardinality(A) <= m, NEW e \in Zr
  PROVE  \E c : Vanishes(c, pt, A, m + 1, e)
<1> DEFINE Q == {k \in Nat : \A B \in SUBSET (1..n) : Cardinality(B) = k /\ k <= m =>
                                \E c : Vanishes(c, pt, B, m + 1, e)}
<1>1. 0 \in Q
  <2> SUFFICES ASSUME NEW B \in SUBSET (1..n), Cardinality(B) = 0
               PROVE  \E c : Vanishes(c, pt, B, m + 1, e)
    OBVIOUS
  <2> DEFINE c == [t \in 1..(m + 1) |-> IF t = 1 THEN e ELSE 0]
  <2>1. 0 \in Zr /\ B = {} /\ Cardinality(B) + 1 = 1
    <3>1. B = {}
      BY SubsetsFinite
    <3> QED
      BY <3>1, OrderAssumption DEF Zr
  <2>2. c \in [1..(m + 1) -> Zr] /\ c[1] = e
    BY <2>1
  <2>3. \A t \in 1..(m + 1) : t > Cardinality(B) + 1 => c[t] = 0
    BY <2>1
  <2> HIDE DEF c
  <2>4. Vanishes(c, pt, B, m + 1, e)
    BY <2>1, <2>2, <2>3 DEF Vanishes
  <2> QED
    BY <2>4
<1>2. ASSUME NEW k \in Nat, k \in Q PROVE k + 1 \in Q
  <2> SUFFICES ASSUME NEW B \in SUBSET (1..n), Cardinality(B) = k + 1, k + 1 <= m
               PROVE  \E c : Vanishes(c, pt, B, m + 1, e)
    OBVIOUS
  <2>1. Cardinality(B) # 0
    OBVIOUS
  <2>2. PICK z \in B : TRUE
    BY <2>1, SubsetsFinite
  <2>3. Cardinality(B \ {z}) = Cardinality(B) - 1
    BY SubsetsFinite
  <2>4. Cardinality(B \ {z}) = k /\ k <= m /\ Cardinality(B) <= m
    BY <2>3
  <2>5. B \ {z} \in SUBSET (1..n)
    OBVIOUS
  <2>6. PICK c : Vanishes(c, pt, B \ {z}, m + 1, e)
    BY <1>2, <2>4, <2>5
  <2> HIDE DEF Q
  <2> QED
    BY <2>4, <2>6, VanishStep
<1> HIDE DEF Q
<1>3. Nat \subseteq Q
  BY <1>1, <1>2, Induction
<1>4. Cardinality(A) \in Q
  BY <1>3, SubsetsFinite
<1> QED
  BY <1>4 DEF Q

-----------------------------------------------------------------------------
(* Weighted sums of vectors, column by column.                             *)

\* Two scalar products whose summands are the same.
Termwise(w, x, v, y, n) ==
  /\ Numbers(w, n) /\ Numbers(x, n) /\ Numbers(v, n) /\ Numbers(y, n)
  /\ \A c \in 1..n : Same(w[c] * x[c], v[c] * y[c])

LEMMA TermwiseSame ==
  ASSUME NEW n \in Nat, NEW w, NEW x, NEW v, NEW y, Termwise(w, x, v, y, n)
  PROVE  Product(w, x, n) = Product(v, y, n)
BY SameTerms DEF Termwise

\* The entry of a vector in column c, which is zero behind its end.
Entry(v, c) == IF c <= Len(v) THEN v[c] ELSE 0

\* vs holds a vectors of numbers with at most n entries.
Vectors(vs, a, n) == \A k \in 1..a : vs[k] \in Seq(Int) /\ Len(vs[k]) <= n

EntriesOf(vs, a, c) == [k \in 1..a |-> Entry(vs[k], c)]

\* Column c of the sum of these vectors with the weights w.
Weighed(w, vs, a, c) == Product(w, EntriesOf(vs, a, c), a)

\* Entries, weights and columns are numbers.
LEMMA EntryType ==
  ASSUME NEW v \in Seq(Int), NEW c \in Nat \ {0}
  PROVE  Entry(v, c) \in Int
<1>1. CASE c <= Len(v)
  <2>1. c \in 1..Len(v)
    BY <1>1
  <2>2. v[c] \in Int
    BY <2>1
  <2> QED
    BY <1>1, <2>2 DEF Entry
<1>2. CASE ~ (c <= Len(v))
  BY <1>2 DEF Entry
<1> QED
  BY <1>1, <1>2

LEMMA EntriesNumbers ==
  ASSUME NEW a \in Nat, NEW vs, NEW n \in Nat, Vectors(vs, a, n), NEW c \in Nat \ {0}
  PROVE  /\ Numbers(EntriesOf(vs, a, c), a)
         /\ \A k \in 1..a : EntriesOf(vs, a, c)[k] = Entry(vs[k], c) /\ Entry(vs[k], c) \in Int
<1>1. ASSUME NEW k \in 1..a
      PROVE EntriesOf(vs, a, c)[k] = Entry(vs[k], c) /\ Entry(vs[k], c) \in Int
  <2>1. vs[k] \in Seq(Int)
    BY DEF Vectors
  <2>2. Entry(vs[k], c) \in Int
    BY <2>1, EntryType
  <2> QED
    BY <2>2 DEF EntriesOf
<1> QED
  BY <1>1 DEF Numbers

LEMMA WeightNumbers ==
  ASSUME NEW a \in Nat, NEW w \in [1..a -> Zr]
  PROVE  Numbers(w, a) /\ \A k \in 1..a : w[k] \in Zr /\ w[k] \in Int
BY Elements DEF Numbers

LEMMA WeighedType ==
  ASSUME NEW a \in Nat, NEW w \in [1..a -> Zr], NEW vs, NEW n \in Nat, Vectors(vs, a, n),
         NEW c \in Nat \ {0}
  PROVE  Weighed(w, vs, a, c) \in Zr /\ Weighed(w, vs, a, c) \in Int
<1>1. Numbers(w, a) /\ Numbers(EntriesOf(vs, a, c), a)
  BY WeightNumbers, EntriesNumbers
<1>2. Product(w, EntriesOf(vs, a, c), a) \in Zr
  BY <1>1, ProductType
<1> QED
  BY <1>2, Elements DEF Weighed

\* Only the entries in column c matter.
LEMMA WeighedSame ==
  ASSUME NEW a \in Nat, NEW c \in Nat \ {0}, NEW n \in Nat, NEW m \in Nat,
         NEW w \in [1..a -> Zr], NEW y, Numbers(y, a),
         NEW vs, NEW us, Vectors(vs, a, n), Vectors(us, a, m),
         \A k \in 1..a : w[k] = y[k] /\ Entry(vs[k], c) = Entry(us[k], c)
  PROVE  Weighed(w, vs, a, c) = Weighed(y, us, a, c)
<1> DEFINE e == EntriesOf(vs, a, c)
           f == EntriesOf(us, a, c)
<1>1. Numbers(e, a) /\ Numbers(f, a) /\ Numbers(w, a)
  BY EntriesNumbers, WeightNumbers
<1>2. ASSUME NEW k \in 1..a PROVE Same(w[k] * e[k], y[k] * f[k])
  <2>1. e[k] = Entry(vs[k], c) /\ f[k] = Entry(us[k], c)
    BY EntriesNumbers
  <2>2. e[k] = f[k] /\ w[k] = y[k]
    BY <2>1
  <2> QED
    BY <2>2 DEF Same
<1> HIDE DEF e, f
<1>3. Product(w, e, a) = Product(y, f, a)
  BY <1>1, <1>2, SameTerms
<1> QED
  BY <1>3 DEF Weighed, e, f

\* Vectors that end before column c.
LEMMA WeighedBehind ==
  ASSUME NEW a \in Nat, NEW w \in [1..a -> Zr], NEW vs, NEW n \in Nat, Vectors(vs, a, n),
         NEW c \in Nat, c > n
  PROVE  Weighed(w, vs, a, c) = 0
<1> DEFINE e == EntriesOf(vs, a, c)
<1>1. c \in Nat \ {0} /\ Numbers(w, a)
  BY WeightNumbers
<1>2. Numbers(e, a)
  BY <1>1, EntriesNumbers
<1>3. ASSUME NEW k \in 1..a PROVE e[k] = 0
  <2>1. Len(vs[k]) \in Nat /\ Len(vs[k]) <= n
    BY DEF Vectors
  <2>2. ~ (c <= Len(vs[k]))
    BY <2>1
  <2> QED
    BY <2>2 DEF EntriesOf, Entry
<1> HIDE DEF e
<1>4. Product(e, w, a) = 0
  BY <1>1, <1>3, ProductOfZeros
<1>5. Product(w, e, a) = Product(e, w, a)
  BY <1>1, <1>2, ProductCommutes
<1> QED
  BY <1>4, <1>5 DEF Weighed, e

\* One vector more; ws and w, and us and vs, begin alike.
LEMMA WeighedMore ==
  ASSUME NEW a \in Nat, NEW w \in [1..a -> Zr], NEW y \in [1..(a + 1) -> Zr],
         NEW n \in Nat, NEW m \in Nat, NEW vs, NEW us, Vectors(vs, a, n), Vectors(us, a + 1, m),
         \A k \in 1..a : y[k] = w[k] /\ us[k] = vs[k],
         NEW c \in Nat \ {0}
  PROVE  Weighed(y, us, a + 1, c) = (Weighed(w, vs, a, c) + y[a + 1] * Entry(us[a + 1], c)) % Order
<1> DEFINE e == EntriesOf(us, a + 1, c)
           f == EntriesOf(vs, a, c)
<1>1. a + 1 \in Nat /\ a + 1 \in 1..(a + 1) /\ \A k \in 1..a : k \in 1..(a + 1)
  OBVIOUS
<1>2. Numbers(e, a + 1) /\ Numbers(y, a + 1) /\ Numbers(f, a) /\ Numbers(w, a)
  BY <1>1, EntriesNumbers, WeightNumbers
<1>3. \A k \in 1..(a + 1) : e[k] = Entry(us[k], c)
  BY <1>1, EntriesNumbers
<1>4. \A k \in 1..a : f[k] = Entry(vs[k], c)
  BY EntriesNumbers
<1>5. \A k \in 1..a : Same(y[k] * e[k], w[k] * f[k])
  <2> SUFFICES ASSUME NEW k \in 1..a PROVE Same(y[k] * e[k], w[k] * f[k])
    OBVIOUS
  <2>1. e[k] = f[k] /\ y[k] = w[k]
    BY <1>1, <1>3, <1>4
  <2> QED
    BY <2>1 DEF Same
<1> HIDE DEF e, f
<1>6. Numbers(e, a) /\ Numbers(y, a)
  BY <1>1, <1>2 DEF Numbers
<1>7. Product(y, e, a) = Product(w, f, a)
  BY <1>2, <1>5, <1>6, SameTerms
<1>8. Product(y, e, a + 1) = (Product(y, e, a) + y[a + 1] * e[a + 1]) % Order
  BY <1>2, ProductSteps
<1> QED
  BY <1>1, <1>3, <1>7, <1>8 DEF Weighed, e, f

\* More vectors.
LEMMA WeighedJoin ==
  ASSUME NEW a \in Nat, NEW b \in Nat, NEW w \in [1..a -> Zr], NEW y \in [1..b -> Zr],
         NEW l \in [1..(a + b) -> Zr], NEW n \in Nat, NEW m \in Nat,
         NEW vs, NEW us, NEW ts, Vectors(vs, a, n), Vectors(us, b, m), Vectors(ts, a + b, m),
         \A k \in 1..a : l[k] = w[k] /\ ts[k] = vs[k],
         \A k \in 1..b : l[a + k] = y[k] /\ ts[a + k] = us[k],
         NEW c \in Nat \ {0}
  PROVE  Same(Weighed(l, ts, a + b, c), Weighed(w, vs, a, c) + Weighed(y, us, b, c))
<1> DEFINE e == EntriesOf(ts, a + b, c)
           f == EntriesOf(vs, a, c)
           g == EntriesOf(us, b, c)
<1>1. a + b \in Nat /\ (\A k \in 1..a : k \in 1..(a + b)) /\ (\A k \in 1..b : a + k \in 1..(a + b))
  OBVIOUS
<1>2. /\ Numbers(e, a + b) /\ Numbers(l, a + b) /\ Numbers(f, a) /\ Numbers(w, a)
      /\ Numbers(g, b) /\ Numbers(y, b)
  BY <1>1, EntriesNumbers, WeightNumbers
<1>3. \A k \in 1..(a + b) : e[k] = Entry(ts[k], c)
  BY <1>1, EntriesNumbers
<1>4. \A k \in 1..a : f[k] = Entry(vs[k], c)
  BY EntriesNumbers
<1>5. \A k \in 1..b : g[k] = Entry(us[k], c)
  BY EntriesNumbers
<1>6. \A k \in 1..a : Same(l[k] * e[k], w[k] * f[k])
  <2> SUFFICES ASSUME NEW k \in 1..a PROVE Same(l[k] * e[k], w[k] * f[k])
    OBVIOUS
  <2>1. e[k] = f[k] /\ l[k] = w[k]
    BY <1>1, <1>3, <1>4
  <2> QED
    BY <2>1 DEF Same
<1>7. \A k \in 1..b : y[k] = l[a + k] /\ g[k] = e[a + k]
  BY <1>1, <1>3, <1>5
<1> HIDE DEF e, f, g
<1>8. Numbers(e, a) /\ Numbers(l, a)
  BY <1>1, <1>2 DEF Numbers
<1>9. Product(l, e, a) = Product(w, f, a)
  <2>1. Termwise(l, e, w, f, a)
    BY <1>2, <1>6, <1>8 DEF Termwise
  <2> QED
    BY <2>1, TermwiseSame
<1>10. Same(Product(l, e, a + b), Product(l, e, a) + Product(y, g, b))
  BY <1>2, <1>7, ProductSplit
<1> QED
  BY <1>9, <1>10 DEF Weighed, e, f, g

-----------------------------------------------------------------------------
(* A vector as a row of the matrix times a column.                         *)

RowOf(v, n) == [c \in 1..n |-> Entry(v, c)]
Dot(v, u, n) == Product(RowOf(v, n), u, n)

\* The rows are numbers.
LEMMA RowNumbers ==
  ASSUME NEW v \in Seq(Int), NEW n \in Nat
  PROVE  Numbers(RowOf(v, n), n) /\ \A c \in 1..n : RowOf(v, n)[c] = Entry(v, c)
<1>1. ASSUME NEW c \in 1..n PROVE Entry(v, c) \in Int
  <2>1. c \in Nat \ {0}
    OBVIOUS
  <2> QED
    BY <2>1, EntryType
<1> QED
  BY <1>1 DEF Numbers, RowOf

LEMMA DotType ==
  ASSUME NEW v \in Seq(Int), NEW n \in Nat, NEW u \in [1..n -> Zr]
  PROVE  Dot(v, u, n) \in Zr
<1>1. Numbers(RowOf(v, n), n) /\ Numbers(u, n)
  BY RowNumbers, WeightNumbers
<1> QED
  BY <1>1, ProductType DEF Dot

Widens(y, u, n) == \A c \in 1..n : y[c] = u[c]

\* More columns make no difference to a vector that ends before them.
LEMMA DotWider ==
  ASSUME NEW n \in Nat, NEW k \in Nat, NEW v \in Seq(Int), Len(v) <= n,
         NEW u \in [1..n -> Zr], NEW y \in [1..(n + k) -> Zr], Widens(y, u, n)
  PROVE  Dot(v, y, n + k) = Dot(v, u, n)
<1> DEFINE e == RowOf(v, n + k)
           f == RowOf(v, n)
           z == [i \in 1..k |-> 0]
           x == [i \in 1..k |-> y[n + i]]
<1>1. n + k \in Nat /\ (\A c \in 1..n : c \in 1..(n + k)) /\ (\A i \in 1..k : n + i \in 1..(n + k))
  OBVIOUS
<1>2. Numbers(e, n + k) /\ \A c \in 1..(n + k) : e[c] = Entry(v, c)
  BY <1>1, RowNumbers
<1>3. Numbers(f, n) /\ \A c \in 1..n : f[c] = Entry(v, c)
  BY RowNumbers
<1>4. Numbers(u, n) /\ Numbers(y, n + k)
  BY <1>1, WeightNumbers
<1>5. \A i \in 1..k : z[i] = e[n + i] /\ x[i] = y[n + i]
  <2> SUFFICES ASSUME NEW i \in 1..k PROVE e[n + i] = 0
    OBVIOUS
  <2>1. Len(v) \in Nat /\ ~ (n + i <= Len(v))
    OBVIOUS
  <2>2. e[n + i] = Entry(v, n + i)
    BY <1>1, <1>2
  <2> QED
    BY <2>1, <2>2 DEF Entry
<1>6. Numbers(x, k) /\ \A i \in 1..k : z[i] = 0
  BY <1>1, <1>4 DEF Numbers
<1> HIDE DEF e, f, z, x
<1>7. Same(Product(e, y, n + k), Product(e, y, n) + Product(z, x, k))
  BY <1>2, <1>4, <1>5, ProductSplit
<1>8. Product(z, x, k) = 0
  BY <1>6, ProductOfZeros
<1>9. Numbers(e, n) /\ Numbers(y, n)
  BY <1>1, <1>2, <1>4 DEF Numbers
<1>10. Product(e, y, n) = Product(f, u, n)
  <2>1. \A c \in 1..n : Same(e[c] * y[c], f[c] * u[c])
    BY <1>1, <1>2, <1>3 DEF Same, Widens
  <2>2. Termwise(e, y, f, u, n)
    BY <1>3, <1>4, <1>9, <2>1 DEF Termwise
  <2> QED
    BY <2>2, TermwiseSame
<1>11. Product(e, y, n + k) \in Zr /\ Product(f, u, n) \in Zr
  BY <1>1, <1>2, <1>3, <1>4, ProductType
<1>12. Product(f, u, n) + 0 = Product(f, u, n)
  BY <1>11, Elements
<1>13. Product(e, y, n + k) = Product(f, u, n)
  BY <1>7, <1>8, <1>10, <1>11, <1>12, SameElements
<1> QED
  BY <1>13 DEF Dot, e, f

LEMMA DotsWider ==
  ASSUME NEW n \in Nat, NEW k \in Nat, NEW u \in [1..n -> Zr], NEW y \in [1..(n + k) -> Zr],
         Widens(y, u, n)
  PROVE  \A v \in Seq(Int) : Len(v) <= n => Dot(v, y, n + k) = Dot(v, u, n)
BY DotWider

-----------------------------------------------------------------------------
(* The vectors of the parts of a gate.                                     *)

\* The vector that the gate with the vector v gives to its part at the point x: v, its
\* n - Len(v) zeros, and the powers of x.
PartVector(v, n, x, t) == WithPowers(Padded(v, n), x, t)

\* Its entries.
LEMMA PartVectorFacts ==
  ASSUME NEW n \in Nat, NEW v \in Seq(Int), Len(v) <= n, NEW x \in Int, NEW t \in Nat \ {0}
  PROVE  /\ PartVector(v, n, x, t) \in Seq(Int) /\ Len(PartVector(v, n, x, t)) = n + (t - 1)
         /\ \A c \in 1..n : Entry(PartVector(v, n, x, t), c) = Entry(v, c)
         /\ \A i \in 1..(t - 1) : Entry(PartVector(v, n, x, t), n + i) = Power(x, i)
<1> DEFINE p == Padded(v, n)
           q == PartVector(v, n, x, t)
<1>1. Len(v) \in Nat /\ t - 1 \in Nat /\ n + (t - 1) \in Nat
  OBVIOUS
<1>2. p = [c \in 1..n |-> Entry(v, c)]
  BY <1>1 DEF Padded, Entry
<1>3. \A c \in 1..n : Entry(v, c) \in Int
  <2> SUFFICES ASSUME NEW c \in 1..n PROVE Entry(v, c) \in Int
    OBVIOUS
  <2>1. c \in Nat \ {0}
    OBVIOUS
  <2> QED
    BY <2>1, EntryType
<1>4. p \in Seq(Int) /\ Len(p) = n /\ \A c \in 1..n : p[c] = Entry(v, c)
  <2> HIDE DEF p
  <2> QED
    BY <1>2, <1>3
<1> HIDE DEF p
<1>5. q = [c \in 1..(n + (t - 1)) |-> IF c <= n THEN p[c] ELSE Power(x, c - n)]
  <2>1. (Len(p) + t) - 1 = n + (t - 1)
    BY <1>4
  <2>2. q = [c \in 1..((Len(p) + t) - 1) |-> IF c <= Len(p) THEN p[c] ELSE Power(x, c - Len(p))]
    BY DEF PartVector, WithPowers, p
  <2> HIDE DEF q
  <2> QED
    BY <1>4, <2>1, <2>2
<1> HIDE DEF q
<1>6. \A c \in 1..(n + (t - 1)) : (IF c <= n THEN p[c] ELSE Power(x, c - n)) \in Int
  <2> SUFFICES ASSUME NEW c \in 1..(n + (t - 1))
               PROVE (IF c <= n THEN p[c] ELSE Power(x, c - n)) \in Int
    OBVIOUS
  <2>1. CASE c <= n
    <3>1. c \in 1..n
      BY <2>1
    <3> QED
      BY <1>3, <1>4, <2>1, <3>1
  <2>2. CASE ~ (c <= n)
    <3>1. c - n \in Nat
      BY <2>2
    <3>2. Power(x, c - n) \in Int
      BY <3>1, PowerSteps
    <3> QED
      BY <2>2, <3>2
  <2> QED
    BY <2>1, <2>2
<1>7. q \in Seq(Int) /\ Len(q) = n + (t - 1)
      /\ \A c \in 1..(n + (t - 1)) : q[c] = (IF c <= n THEN p[c] ELSE Power(x, c - n))
  <2> DEFINE m == n + (t - 1)
             f(c) == IF c <= n THEN p[c] ELSE Power(x, c - n)
  <2>1. m \in Nat /\ (\A c \in 1..m : f(c) \in Int) /\ q = [c \in 1..m |-> f(c)]
    BY <1>1, <1>5, <1>6
  <2> HIDE DEF m, f
  <2>2. q \in Seq(Int) /\ Len(q) = m /\ \A c \in 1..m : q[c] = f(c)
    BY <2>1
  <2> QED
    BY <2>2 DEF m, f
<1>8. ASSUME NEW c \in 1..n PROVE Entry(q, c) = Entry(v, c)
  <2>1. c \in 1..(n + (t - 1)) /\ c <= n /\ c <= Len(q)
    BY <1>1, <1>7
  <2>2. q[c] = p[c]
    BY <1>7, <2>1
  <2>3. Entry(q, c) = q[c]
    BY <2>1 DEF Entry
  <2> QED
    BY <1>4, <2>2, <2>3
<1>9. ASSUME NEW i \in 1..(t - 1) PROVE Entry(q, n + i) = Power(x, i)
  <2>1. n + i \in 1..(n + (t - 1)) /\ ~ (n + i <= n) /\ n + i <= Len(q) /\ (n + i) - n = i
    BY <1>1, <1>7
  <2>2. q[n + i] = Power(x, (n + i) - n)
    BY <1>7, <2>1
  <2>3. Entry(q, n + i) = q[n + i]
    BY <2>1 DEF Entry
  <2> QED
    BY <2>1, <2>2, <2>3
<1> QED
  BY <1>7, <1>8, <1>9 DEF q

\* us are the vectors of the parts of a gate.
PartVectors(us, k, pt, v, n, t) == \A i \in 1..k : us[i] = PartVector(v, n, pt[i], t)

LEMMA PartVectorsFacts ==
  ASSUME NEW k \in Nat, NEW pt, Points(pt, k), NEW n \in Nat, NEW v \in Seq(Int), Len(v) <= n,
         NEW t \in Nat \ {0}, NEW us, PartVectors(us, k, pt, v, n, t)
  PROVE  /\ Vectors(us, k, n + (t - 1))
         /\ \A i \in 1..k : /\ pt[i] \in Int
                            /\ \A c \in 1..n : Entry(us[i], c) = Entry(v, c)
                            /\ \A j \in 1..(t - 1) : Entry(us[i], n + j) = Power(pt[i], j)
<1> SUFFICES ASSUME NEW i \in 1..k
             PROVE /\ us[i] \in Seq(Int) /\ Len(us[i]) <= n + (t - 1) /\ pt[i] \in Int
                   /\ \A c \in 1..n : Entry(us[i], c) = Entry(v, c)
                   /\ \A j \in 1..(t - 1) : Entry(us[i], n + j) = Power(pt[i], j)
  BY DEF Vectors
<1>1. pt[i] \in Int /\ n + (t - 1) \in Nat
  BY OrderAssumption DEF Points
<1>2. us[i] = PartVector(v, n, pt[i], t)
  BY DEF PartVectors
<1>3. /\ us[i] \in Seq(Int) /\ Len(us[i]) = n + (t - 1)
      /\ \A c \in 1..n : Entry(us[i], c) = Entry(v, c)
      /\ \A j \in 1..(t - 1) : Entry(us[i], n + j) = Power(pt[i], j)
  BY <1>1, <1>2, PartVectorFacts
<1> QED
  BY <1>1, <1>3

\* y distributes the weight e of the gate over its parts in A.
Shares(y, us, k, A, e, v, n, t) ==
  /\ \A i \in 1..k : i \notin A => y[i] = 0
  /\ \A c \in 1..n : Same(Weighed(y, us, k, c), e * Entry(v, c))
  /\ \A j \in 1..(t - 1) : Weighed(y, us, k, n + j) = 0

\* This is possible if as many parts as the threshold are in A.
LEMMA ShareWeight ==
  ASSUME NEW k \in Nat, NEW pt, Points(pt, k), NEW n \in Nat, NEW v \in Seq(Int), Len(v) <= n,
         NEW t \in Nat \ {0}, NEW us, PartVectors(us, k, pt, v, n, t),
         NEW A \in SUBSET (1..k), Cardinality(A) >= t, NEW e \in Zr
  PROVE  \E y \in [1..k -> Zr] : Shares(y, us, k, A, e, v, n, t)
<1>1. PICK w : Interpolates(w, pt, k, A)
  BY Interpolation
<1> DEFINE y == [i \in 1..k |-> (e * w[i]) % Order]
<1>2. w \in [1..k -> Zr] /\ e \in Int /\ Numbers(w, k) /\ \A i \in 1..k : w[i] \in Int
  <2>1. w \in [1..k -> Zr]
    BY <1>1 DEF Interpolates
  <2> QED
    BY <2>1, WeightNumbers, Elements
<1>3. y \in [1..k -> Zr]
  <2>1. \A i \in 1..k : (e * w[i]) \in Int
    BY <1>2
  <2> QED
    BY <2>1, Mod
<1>4. \A i \in 1..k : i \notin A => y[i] = 0
  <2> SUFFICES ASSUME NEW i \in 1..k, i \notin A PROVE y[i] = 0
    OBVIOUS
  <2>1. w[i] = 0
    BY <1>1 DEF Interpolates
  <2>2. e * 0 = 0 /\ 0 % Order = 0
    BY <1>2, OrderAssumption
  <2> QED
    BY <2>1, <2>2
<1>5. ASSUME NEW i \in 1..k, NEW r \in Int PROVE Same(y[i] * r, e * (w[i] * r))
  <2>1. e * w[i] \in Int /\ Same(r, r) /\ y[i] = (e * w[i]) % Order
    BY <1>2 DEF Same
  <2>2. Same(y[i], e * w[i]) /\ y[i] \in Int
    BY <2>1, SameRest
  <2> HIDE DEF y
  <2>3. Same(y[i] * r, (e * w[i]) * r)
    BY <2>1, <2>2, SameProduct
  <2>4. (e * w[i]) * r = e * (w[i] * r)
    BY <1>2
  <2> QED
    BY <2>3, <2>4
<1> HIDE DEF y
<1>6. Numbers(y, k) /\ t \in Nat /\ t - 1 \in Nat /\ n + (t - 1) \in Nat
  BY <1>3, WeightNumbers
<1>7. Vectors(us, k, n + (t - 1))
  BY PartVectorsFacts
<1>8. Cardinality(A) \in Nat
  BY SubsetsFinite
<1>9. ASSUME NEW c \in 1..n PROVE Same(Weighed(y, us, k, c), e * Entry(v, c))
  <2> DEFINE E == EntriesOf(us, k, c)
             r == Entry(v, c)
             P == PowerRow(pt, k, 0)
  <2>1. c \in Nat \ {0}
    OBVIOUS
  <2>2. r \in Int
    BY <2>1, EntryType
  <2>3. Numbers(E, k) /\ \A i \in 1..k : E[i] = Entry(us[i], c)
    BY <1>6, <1>7, <2>1, EntriesNumbers
  <2>4. \A i \in 1..k : E[i] = r
    BY <2>3, PartVectorsFacts
  <2>5. Numbers(P, k) /\ \A i \in 1..k : P[i] = 1
    BY PowerRowSteps
  <2>6. Product(w, P, k) = 1
    <3>1. 0 \in Nat /\ 0 < Cardinality(A)
      BY <1>8
    <3> QED
      BY <1>1, <3>1 DEF Interpolates
  <2> HIDE DEF E, r, P
  <2>7. ASSUME NEW i \in 1..k PROVE Same(y[i] * E[i], (e * r) * (w[i] * P[i]))
    <3>1. Same(y[i] * r, e * (w[i] * r))
      BY <1>5, <2>2
    <3>2. w[i] \in Int
      BY <1>2
    <3>3. e * (w[i] * r) = (e * r) * (w[i] * 1)
      BY <1>2, <2>2, <3>2
    <3> QED
      BY <2>4, <2>5, <3>1, <3>3
  <2>8. e * r \in Int
    BY <1>2, <2>2
  <2>9. Same(Product(y, E, k), (e * r) * Product(w, P, k))
    BY <1>2, <1>6, <2>3, <2>5, <2>7, <2>8, MultipleTerms
  <2>10. (e * r) * 1 = e * r
    BY <2>8
  <2> QED
    BY <2>6, <2>9, <2>10 DEF Weighed, E, r
<1>10. ASSUME NEW j \in 1..(t - 1) PROVE Weighed(y, us, k, n + j) = 0
  <2> DEFINE E == EntriesOf(us, k, n + j)
             P == PowerRow(pt, k, j)
  <2>1. n + j \in Nat \ {0} /\ j \in Nat /\ j # 0 /\ j < Cardinality(A)
    BY <1>8
  <2>2. Numbers(E, k) /\ \A i \in 1..k : E[i] = Entry(us[i], n + j)
    BY <1>6, <1>7, <2>1, EntriesNumbers
  <2>3. \A i \in 1..k : E[i] = Power(pt[i], j)
    BY <2>2, PartVectorsFacts
  <2>4. Numbers(P, k) /\ \A i \in 1..k : P[i] = E[i] /\ P[i] \in Int
    BY <2>1, <2>3, PowerRowSteps DEF PowerRow
  <2>5. Product(w, P, k) = 0
    BY <1>1, <2>1 DEF Interpolates
  <2> HIDE DEF E, P
  <2>6. ASSUME NEW i \in 1..k PROVE Same(y[i] * E[i], e * (w[i] * P[i]))
    BY <1>5, <2>4
  <2>7. Same(Product(y, E, k), e * Product(w, P, k))
    BY <1>2, <1>6, <2>2, <2>4, <2>6, MultipleTerms
  <2>8. Product(y, E, k) \in Zr /\ 0 \in Zr /\ e * 0 = 0
    BY <1>2, <1>6, <2>2, ProductType, OrderAssumption DEF Zr
  <2>9. Product(y, E, k) = 0
    BY <2>5, <2>7, <2>8, SameElements
  <2> QED
    BY <2>9 DEF Weighed, E
<1>11. Shares(y, us, k, A, e, v, n, t)
  BY <1>4, <1>9, <1>10 DEF Shares
<1> QED
  BY <1>3, <1>11

\* u, followed by the entries of f behind its first.
Extended(u, n, f, t) == [c \in 1..(n + (t - 1)) |-> IF c <= n THEN u[c] ELSE f[(c - n) + 1]]

\* Its entries.
LEMMA ExtendedFacts ==
  ASSUME NEW n \in Nat, NEW t \in Nat \ {0}, NEW u \in [1..n -> Zr], NEW f \in [1..t -> Zr]
  PROVE  /\ Extended(u, n, f, t) \in [1..(n + (t - 1)) -> Zr]
         /\ \A c \in 1..n : Extended(u, n, f, t)[c] = u[c]
         /\ \A i \in 1..(t - 1) : Extended(u, n, f, t)[n + i] = f[1 + i]
<1> DEFINE m == n + (t - 1)
           y(c) == IF c <= n THEN u[c] ELSE f[(c - n) + 1]
<1>1. \A c \in 1..m : y(c) \in Zr
  <2> SUFFICES ASSUME NEW c \in 1..m PROVE y(c) \in Zr
    OBVIOUS
  <2>1. CASE c <= n
    <3>1. c \in 1..n
      BY <2>1
    <3> QED
      BY <2>1, <3>1
  <2>2. CASE ~ (c <= n)
    <3>1. (c - n) + 1 \in 1..t
      BY <2>2
    <3> QED
      BY <2>2, <3>1
  <2> QED
    BY <2>1, <2>2
<1>2. \A c \in 1..n : c \in 1..m /\ y(c) = u[c]
  OBVIOUS
<1>3. \A i \in 1..(t - 1) : n + i \in 1..m /\ y(n + i) = f[1 + i]
  <2> SUFFICES ASSUME NEW i \in 1..(t - 1) PROVE n + i \in 1..m /\ y(n + i) = f[1 + i]
    OBVIOUS
  <2>1. n + i \in 1..m /\ ~ (n + i <= n) /\ ((n + i) - n) + 1 = 1 + i
    OBVIOUS
  <2> QED
    BY <2>1
<1> HIDE DEF y
<1> QED
  BY <1>1, <1>2, <1>3 DEF Extended, y

\* If not, and u sends the vector of the gate to s, then further entries of u make it
\* send the parts in A to zero: the coefficients of a polynomial that is s at zero.
LEMMA DotPart ==
  ASSUME NEW n \in Nat, NEW v \in Seq(Int), Len(v) <= n, NEW x \in Int, NEW t \in Nat \ {0},
         NEW u \in [1..n -> Zr], NEW f \in [1..t -> Zr], f[1] = Dot(v, u, n)
  PROVE  Dot(PartVector(v, n, x, t), Extended(u, n, f, t), n + (t - 1)) = Value(f, x, t)
<1> DEFINE k == t - 1
           q == PartVector(v, n, x, t)
           e == RowOf(q, n + k)
           r == RowOf(v, n)
           y == Extended(u, n, f, t)
           P == PowersOf(x, t)
           g == [i \in 1..k |-> Power(x, i)]
           h == [i \in 1..k |-> f[1 + i]]
<1>1. k \in Nat /\ t = 1 + k /\ n + k \in Nat /\ 1 \in 1..t /\ 1 \in Nat
  OBVIOUS
<1>2. (\A i \in 1..k : 1 + i \in 1..t /\ n + i \in 1..(n + k) /\ (n + i) - n = i /\ i + 1 = 1 + i /\ ~ (n + i <= n))
      /\ (\A c \in 1..n : c \in 1..(n + k) /\ c <= n)
  BY <1>1
<1>3. /\ q \in Seq(Int) /\ Len(q) = n + k
      /\ \A c \in 1..n : Entry(q, c) = Entry(v, c)
      /\ \A i \in 1..k : Entry(q, n + i) = Power(x, i)
  BY PartVectorFacts
<1> HIDE DEF q
<1>4. Numbers(e, n + k) /\ \A c \in 1..(n + k) : e[c] = Entry(q, c)
  BY <1>1, <1>3, RowNumbers
<1>5. Numbers(r, n) /\ \A c \in 1..n : r[c] = Entry(v, c)
  BY RowNumbers
<1>6. /\ y \in [1..(n + k) -> Zr]
      /\ \A c \in 1..n : y[c] = u[c]
      /\ \A i \in 1..k : y[n + i] = f[1 + i]
  BY ExtendedFacts
<1> HIDE DEF y
<1>8. Numbers(y, n + k) /\ Numbers(u, n) /\ Numbers(f, t) /\ f[1] \in Zr
  BY <1>1, <1>6, WeightNumbers
<1>9. Numbers(P, t) /\ P[1] = 1 /\ \A i \in 1..k : P[1 + i] = Power(x, i)
  <2>1. t \in Nat /\ t > 0
    OBVIOUS
  <2>2. Numbers(P, t) /\ P[1] = 1 /\ \A j \in 1..t : P[j] = Power(x, j - 1)
    BY <2>1, PowersOfSteps
  <2> HIDE DEF P
  <2>3. ASSUME NEW i \in 1..k PROVE P[1 + i] = Power(x, i)
    <3>1. 1 + i \in 1..t /\ (1 + i) - 1 = i
      BY <1>2
    <3>2. P[1 + i] = Power(x, (1 + i) - 1)
      BY <2>2, <3>1
    <3> QED
      BY <3>1, <3>2
  <2> QED
    BY <2>2, <2>3
<1>10. (\A i \in 1..k : g[i] = e[n + i] /\ h[i] = y[n + i]) /\ (\A i \in 1..k : h[i] = f[1 + i] /\ g[i] = P[1 + i])
  <2> HIDE DEF e, P
  <2> QED
    BY <1>2, <1>3, <1>4, <1>6, <1>9
<1>11. Numbers(g, k) /\ Numbers(h, k)
  <2>1. \A i \in 1..k : e[n + i] \in Int /\ y[n + i] \in Int
    BY <1>2, <1>4, <1>8 DEF Numbers
  <2> HIDE DEF e, g, h
  <2> QED
    BY <1>10, <2>1 DEF Numbers
<1> HIDE DEF e, r, P, g, h
<1>12. Same(Product(e, y, n + k), Product(e, y, n) + Product(g, h, k))
  <2> HIDE DEF k
  <2> QED
    BY <1>1, <1>4, <1>8, <1>10, ProductSplit
<1>13. Product(e, y, n) = Product(r, u, n)
  <2>1. Numbers(e, n) /\ Numbers(y, n)
    BY <1>2, <1>4, <1>8 DEF Numbers
  <2>2. \A c \in 1..n : Same(e[c] * y[c], r[c] * u[c])
    <3> SUFFICES ASSUME NEW c \in 1..n PROVE Same(e[c] * y[c], r[c] * u[c])
      OBVIOUS
    <3>1. e[c] = r[c] /\ y[c] = u[c]
      BY <1>2, <1>3, <1>4, <1>5, <1>6
    <3> QED
      BY <3>1 DEF Same
  <2>3. Termwise(e, y, r, u, n)
    BY <1>5, <1>8, <2>1, <2>2 DEF Termwise
  <2> QED
    BY <2>3, TermwiseSame
<1>14. Same(Product(f, P, 1 + k), Product(f, P, 1) + Product(h, g, k))
  <2>1. Numbers(f, 1 + k) /\ Numbers(P, 1 + k)
    BY <1>1, <1>8, <1>9
  <2> HIDE DEF k
  <2> QED
    BY <1>1, <1>10, <2>1, ProductSplit
<1>15. Product(f, P, 1) = f[1]
  <2>1. Numbers(f, 0 + 1) /\ Numbers(P, 0 + 1)
    BY <1>8, <1>9 DEF Numbers
  <2>2. Product(f, P, 0 + 1) = (Product(f, P, 0) + f[0 + 1] * P[0 + 1]) % Order
    BY <2>1, ProductSteps
  <2>3. Product(f, P, 0) = 0
    BY ProductOfNone
  <2>4. f[1] \in Int /\ f[1] % Order = f[1]
    BY <1>8, Elements
  <2>5. 0 + 1 = 1 /\ 0 + f[1] * 1 = f[1]
    BY <2>4
  <2> QED
    BY <1>9, <2>2, <2>3, <2>4, <2>5
<1>16. Product(g, h, k) = Product(h, g, k)
  BY <1>1, <1>11, ProductCommutes
<1>17. Product(e, y, n + k) \in Zr /\ Product(f, P, t) \in Zr
  BY <1>1, <1>4, <1>8, <1>9, ProductType
<1>18. Product(r, u, n) = f[1]
  BY DEF Dot, r
<1>19. Product(e, y, n + k) = Product(f, P, t)
  <2>1. Same(Product(e, y, n + k), Product(f, P, 1 + k))
    BY <1>12, <1>13, <1>14, <1>15, <1>16, <1>18 DEF Same
  <2> QED
    BY <1>1, <1>17, <2>1, SameElements
<1> QED
  BY <1>19 DEF Dot, Value, e, P, q, y

\* u sends the vector of the gate to zero if as many parts as its threshold are in A.
Obeys(u, v, n, A, t) == Cardinality(A) >= t => Dot(v, u, n) = 0
Hides(y, us, A, m) == \A i \in A : Dot(us[i], y, m) = 0

\* All parts in A at once.
LEMMA HideParts ==
  ASSUME NEW k \in Nat, NEW pt, Points(pt, k), NEW n \in Nat, NEW v \in Seq(Int), Len(v) <= n,
         NEW t \in Nat \ {0}, NEW us, PartVectors(us, k, pt, v, n, t),
         NEW A \in SUBSET (1..k), NEW u \in [1..n -> Zr],
         Obeys(u, v, n, A, t)
  PROVE  \E y \in [1..(n + (t - 1)) -> Zr] : Widens(y, u, n) /\ Hides(y, us, A, n + (t - 1))
<1> DEFINE s == Dot(v, u, n)
           m == n + (t - 1)
<1>1. s \in Zr /\ 0 \in Zr /\ m \in Nat /\ t - 1 \in Nat /\ (t - 1) + 1 = t /\ 1 \in 1..t
  BY DotType, OrderAssumption DEF Zr
<1>2. Cardinality(A) \in Nat
  BY SubsetsFinite
<1>3. \E f \in [1..t -> Zr] : f[1] = s /\ \A i \in A : Value(f, pt[i], t) = 0
  <2>1. CASE Cardinality(A) >= t
    <3> DEFINE f == [i \in 1..t |-> 0]
    <3>1. f \in [1..t -> Zr] /\ f[1] = s /\ \A i \in 1..t : f[i] = 0
      BY <1>1, <2>1 DEF Obeys
    <3>2. ASSUME NEW i \in A PROVE Value(f, pt[i], t) = 0
      <4>1. i \in 1..k
        OBVIOUS
      <4>2. pt[i] \in Int
        BY <4>1, PartVectorsFacts
      <4>3. Numbers(PowersOf(pt[i], t), t)
        BY <4>2, PowersOfSteps
      <4> HIDE DEF f
      <4> QED
        BY <3>1, <4>3, ProductOfZeros DEF Value
    <3> HIDE DEF f
    <3> QED
      BY <3>1, <3>2
  <2>2. CASE ~ (Cardinality(A) >= t)
    <3>1. Cardinality(A) <= t - 1
      BY <1>2, <2>2
    <3> HIDE DEF s
    <3>2. PICK f : Vanishes(f, pt, A, (t - 1) + 1, s)
      BY <1>1, <3>1, Vanishing
    <3> QED
      BY <1>1, <3>2 DEF Vanishes
  <2> QED
    BY <2>1, <2>2
<1>4. PICK f \in [1..t -> Zr] : f[1] = s /\ \A i \in A : Value(f, pt[i], t) = 0
  BY <1>3
<1> DEFINE y == Extended(u, n, f, t)
<1>5. y \in [1..m -> Zr] /\ \A c \in 1..n : y[c] = u[c]
  BY ExtendedFacts
<1>6. ASSUME NEW i \in A PROVE Dot(us[i], y, m) = 0
  <2>1. i \in 1..k
    OBVIOUS
  <2>2. pt[i] \in Int /\ us[i] = PartVector(v, n, pt[i], t)
    BY <2>1, PartVectorsFacts DEF PartVectors
  <2>3. Value(f, pt[i], t) = 0 /\ f[1] = Dot(v, u, n)
    BY <1>4
  <2> DEFINE x == pt[i]
  <2>4. x \in Int
    BY <2>2
  <2> HIDE DEF x
  <2>5. Dot(PartVector(v, n, x, t), Extended(u, n, f, t), n + (t - 1)) = Value(f, x, t)
    BY <1>4, <2>4, DotPart
  <2> QED
    BY <2>2, <2>3, <2>5 DEF x
<1> HIDE DEF y
<1>7. Widens(y, u, n) /\ Hides(y, us, A, m)
  BY <1>5, <1>6 DEF Widens, Hides
<1> QED
  BY <1>5, <1>7

-----------------------------------------------------------------------------
(* The rows of a set combine to (1, 0, ..., 0).                            *)

Target(c) == IF c = 1 THEN 1 ELSE 0

\* The vectors ms[k] with k in L, those vs[k] with k in K, and v if it is live, combine
\* to (1, 0, ..., 0).
TargetSpanned(ms, a, L, vs, b, K, v, live, n) ==
  \E w \in [1..a -> Zr], y \in [1..b -> Zr], e \in Zr :
    /\ \A k \in 1..a : k \notin L => w[k] = 0
    /\ \A k \in 1..b : k \notin K => y[k] = 0
    /\ \A c \in 1..n :
         Same((Weighed(w, ms, a, c) + Weighed(y, vs, b, c)) + (IF live THEN e * Entry(v, c) ELSE 0),
              Target(c))

\* Something sends all of them to zero and (1, 0, ..., 0) to one.
TargetMissed(ms, a, L, vs, b, K, v, live, n) ==
  \E u \in [1..n -> Zr] :
    /\ u[1] = 1
    /\ \A k \in 1..a : k \in L => Dot(ms[k], u, n) = 0
    /\ \A k \in 1..b : k \in K => Dot(vs[k], u, n) = 0
    /\ live => Dot(v, u, n) = 0

\* The weights of the first b vectors.
Leading(y, b) == [k \in 1..b |-> y[k]]

\* Column c of a sum of b + 1 vectors is that of the first b and the last summand.
LastSummand(y, vs, us, b, c) ==
  /\ Weighed(Leading(y, b), us, b, c) \in Int
  /\ y[b + 1] \in Int /\ Entry(vs[b + 1], c) \in Int
  /\ Weighed(y, vs, b + 1, c)
       = (Weighed(Leading(y, b), us, b, c) + y[b + 1] * Entry(vs[b + 1], c)) % Order

LEMMA LeadingType ==
  ASSUME NEW b \in Nat, NEW y \in [1..(b + 1) -> Zr]
  PROVE  /\ Leading(y, b) \in [1..b -> Zr] /\ y[b + 1] \in Zr
         /\ \A k \in 1..b : Leading(y, b)[k] = y[k] /\ k \in 1..(b + 1)
<1>1. (\A k \in 1..b : k \in 1..(b + 1)) /\ b + 1 \in 1..(b + 1)
  OBVIOUS
<1> QED
  BY <1>1 DEF Leading

LEMMA WeighedLess ==
  ASSUME NEW b \in Nat, NEW vs, NEW us, NEW n \in Nat, Vectors(vs, b + 1, n),
         \A k \in 1..b : us[k] = vs[k], NEW y \in [1..(b + 1) -> Zr], NEW c \in Nat \ {0}
  PROVE  LastSummand(y, vs, us, b, c)
<1> DEFINE z == Leading(y, b)
<1>1. (\A k \in 1..b : k \in 1..(b + 1)) /\ b + 1 \in 1..(b + 1) /\ b + 1 \in Nat
  OBVIOUS
<1>2. Vectors(us, b, n)
  BY <1>1 DEF Vectors
<1>3. z \in [1..b -> Zr] /\ \A k \in 1..b : y[k] = z[k] /\ vs[k] = us[k]
  BY <1>1, LeadingType
<1>4. Entry(vs[b + 1], c) \in Int
  BY <1>1, EntriesNumbers
<1>5. y[b + 1] \in Zr /\ y[b + 1] \in Int
  BY <1>1, WeightNumbers
<1> HIDE DEF z
<1>6. Weighed(z, us, b, c) \in Int
  BY <1>2, <1>3, WeighedType
<1>7. Weighed(y, vs, b + 1, c) = (Weighed(z, us, b, c) + y[b + 1] * Entry(vs[b + 1], c)) % Order
  BY <1>2, <1>3, WeighedMore
<1> QED
  BY <1>4, <1>5, <1>6, <1>7 DEF z, LastSummand

\* A summand moves from one sum to the other.
LEMMA MoveSummand ==
  ASSUME NEW w \in Int, NEW y \in Int, NEW t \in Int
  PROVE  Same(((w + t) % Order) + y, w + ((y + t) % Order))
<1>1. w + t \in Int /\ y + t \in Int
  OBVIOUS
<1>2. Same((w + t) % Order, w + t) /\ (w + t) % Order \in Int
  BY <1>1, SameRest
<1>3. Same((y + t) % Order, y + t) /\ (y + t) % Order \in Int
  BY <1>1, SameRest
<1>4. Same(((w + t) % Order) + y, (w + t) + y)
  <2>1. Same(y, y)
    BY DEF Same
  <2> QED
    BY <1>1, <1>2, <2>1, SameSum
<1>5. Same(w + ((y + t) % Order), w + (y + t))
  <2>1. Same(w, w)
    BY DEF Same
  <2> QED
    BY <1>1, <1>3, <2>1, SameSum
<1>6. (w + t) + y = w + (y + t)
  OBVIOUS
<1> QED
  BY <1>4, <1>5, <1>6 DEF Same

\* The last of the waiting vectors becomes the last row.
Moved(ms, a, L, vs, b, K, ms2, L2, vs2, K2) ==
  /\ \A k \in 1..a : ms2[k] = ms[k] /\ (k \in L2 <=> k \in L)
  /\ ms2[a + 1] = vs[b + 1]
  /\ a + 1 \in L2 <=> b + 1 \in K
  /\ \A k \in 1..b : vs2[k] = vs[k] /\ (k \in K2 <=> k \in K)

\* Leaf makes a row of a vector that waits: its weight goes with it.
LEMMA LeafSpans ==
  ASSUME NEW a \in Nat, NEW b \in Nat, NEW n \in Nat, NEW ms, NEW vs, NEW L, NEW K, NEW v,
         Vectors(ms, a, n), Vectors(vs, b + 1, n),
         NEW ms2, NEW vs2, NEW L2, NEW K2, Moved(ms, a, L, vs, b, K, ms2, L2, vs2, K2),
         TargetSpanned(ms, a, L, vs, b + 1, K, v, FALSE, n)
  PROVE  TargetSpanned(ms2, a + 1, L2, vs2, b, K2, v, FALSE, n)
<1>0. /\ \A k \in 1..a : ms2[k] = ms[k] /\ (k \in L2 <=> k \in L)
      /\ ms2[a + 1] = vs[b + 1] /\ (a + 1 \in L2 <=> b + 1 \in K)
      /\ \A k \in 1..b : vs2[k] = vs[k] /\ (k \in K2 <=> k \in K)
  BY DEF Moved
<1>1. PICK w \in [1..a -> Zr], y \in [1..(b + 1) -> Zr], e \in Zr :
        /\ \A k \in 1..a : k \notin L => w[k] = 0
        /\ \A k \in 1..(b + 1) : k \notin K => y[k] = 0
        /\ \A c \in 1..n : Same((Weighed(w, ms, a, c) + Weighed(y, vs, b + 1, c)) + 0, Target(c))
  BY DEF TargetSpanned
<1> DEFINE f == [k \in 1..(a + 1) |-> IF k <= a THEN w[k] ELSE y[b + 1]]
           z == Leading(y, b)
<1>2. z \in [1..b -> Zr] /\ \A k \in 1..b : k \notin K2 => z[k] = 0
  BY <1>0, <1>1, LeadingType
<1>3. /\ f \in [1..(a + 1) -> Zr] /\ (\A k \in 1..a : f[k] = w[k]) /\ f[a + 1] = y[b + 1]
      /\ \A k \in 1..(a + 1) : k \notin L2 => f[k] = 0
  <2>1. b + 1 \in 1..(b + 1) /\ a + 1 \in 1..(a + 1) /\ ~ (a + 1 <= a)
    OBVIOUS
  <2>2. y[b + 1] \in Zr /\ (b + 1 \notin K => y[b + 1] = 0)
    BY <1>1, <2>1
  <2>3. \A k \in 1..(a + 1) : k \in 1..a \/ k = a + 1
    OBVIOUS
  <2>4. ASSUME NEW k \in 1..(a + 1), k \notin L2 PROVE f[k] = 0
    <3>1. CASE k \in 1..a
      BY <1>0, <1>1, <2>4, <3>1
    <3>2. CASE k = a + 1
      BY <1>0, <2>1, <2>2, <2>4, <3>2
    <3> QED
      BY <2>3, <3>1, <3>2
  <2> QED
    BY <2>1, <2>2, <2>3, <2>4
<1>4. Vectors(ms2, a + 1, n)
  <2> SUFFICES ASSUME NEW k \in 1..(a + 1) PROVE ms2[k] \in Seq(Int) /\ Len(ms2[k]) <= n
    BY DEF Vectors
  <2>1. CASE k \in 1..a
    BY <1>0, <2>1 DEF Vectors
  <2>2. CASE k = a + 1
    <3>1. b + 1 \in 1..(b + 1)
      OBVIOUS
    <3> QED
      BY <1>0, <2>2, <3>1 DEF Vectors
  <2> QED
    BY <2>1, <2>2
<1>5. ASSUME NEW c \in 1..n
      PROVE  Same((Weighed(f, ms2, a + 1, c) + Weighed(z, vs2, b, c)) + 0, Target(c))
  <2> DEFINE t == y[b + 1] * Entry(vs[b + 1], c)
             W == Weighed(w, ms, a, c)
             Y == Weighed(z, vs2, b, c)
  <2>1. c \in Nat \ {0}
    OBVIOUS
  <2>2. /\ Entry(vs[b + 1], c) \in Int /\ y[b + 1] \in Int /\ Y \in Int
        /\ Weighed(y, vs, b + 1, c) = (Y + t) % Order
    <3>1. LastSummand(y, vs, vs2, b, c)
      BY <1>0, <1>1, <2>1, WeighedLess
    <3> QED
      BY <3>1 DEF LastSummand
  <2>3. W \in Int
    BY <1>1, <2>1, WeighedType
  <2>4. Weighed(f, ms2, a + 1, c) = (W + t) % Order
    <3>1. LastSummand(f, ms2, ms, a, c)
      BY <1>0, <1>3, <1>4, <2>1, WeighedLess
    <3>2. Leading(f, a) = w
      <4>1. \A k \in 1..a : Leading(f, a)[k] = w[k]
        BY <1>3, LeadingType
      <4>2. Leading(f, a) \in [1..a -> Zr]
        BY <1>3, LeadingType
      <4> HIDE DEF f
      <4> QED
        BY <1>1, <4>1, <4>2
    <3> HIDE DEF f
    <3> QED
      BY <1>0, <1>3, <3>1, <3>2 DEF LastSummand
  <2>5. t \in Int
    BY <2>2
  <2>6. Same((W + Weighed(y, vs, b + 1, c)) + 0, Target(c))
    BY <1>1
  <2> HIDE DEF t, W, Y, f, z
  <2>7. Same(((W + t) % Order) + Y, W + ((Y + t) % Order))
    BY <2>2, <2>3, <2>5, MoveSummand
  <2>8. (Y + t) % Order \in Int /\ (W + t) % Order \in Int
    <3>1. Y + t \in Int /\ W + t \in Int
      BY <2>2, <2>3, <2>5
    <3> QED
      BY <3>1, SameRest
  <2>9. (W + ((Y + t) % Order)) + 0 = W + ((Y + t) % Order)
        /\ (((W + t) % Order) + Y) + 0 = ((W + t) % Order) + Y
    BY <2>2, <2>3, <2>8
  <2>10. Same((((W + t) % Order) + Y) + 0, Target(c))
    BY <2>2, <2>6, <2>7, <2>9 DEF Same
  <2> QED
    BY <2>4, <2>10 DEF Y
<1> HIDE DEF f, z
<1> QED
  BY <1>1, <1>2, <1>3, <1>5 DEF TargetSpanned

\* The last of the waiting vectors becomes that of the gate.
Opens(vs, b, K, vs2, K2, live) ==
  /\ live <=> b + 1 \in K
  /\ \A k \in 1..b : vs2[k] = vs[k] /\ (k \in K2 <=> k \in K)

\* Gate takes the vector from the stack; a gate that admits the set keeps its weight.
LEMMA GateSpans ==
  ASSUME NEW a \in Nat, NEW b \in Nat, NEW n \in Nat, NEW ms, NEW vs, NEW L, NEW K, NEW v,
         Vectors(ms, a, n), Vectors(vs, b + 1, n),
         NEW vs2, NEW K2, NEW live \in BOOLEAN, Opens(vs, b, K, vs2, K2, live),
         TargetSpanned(ms, a, L, vs, b + 1, K, v, FALSE, n)
  PROVE  TargetSpanned(ms, a, L, vs2, b, K2, vs[b + 1], live, n)
<1>0. (live <=> b + 1 \in K) /\ \A k \in 1..b : vs2[k] = vs[k] /\ (k \in K2 <=> k \in K)
  BY DEF Opens
<1>1. PICK w \in [1..a -> Zr], y \in [1..(b + 1) -> Zr], e \in Zr :
        /\ \A k \in 1..a : k \notin L => w[k] = 0
        /\ \A k \in 1..(b + 1) : k \notin K => y[k] = 0
        /\ \A c \in 1..n : Same((Weighed(w, ms, a, c) + Weighed(y, vs, b + 1, c)) + 0, Target(c))
  BY DEF TargetSpanned
<1> DEFINE z == Leading(y, b)
           x(c) == IF live THEN y[b + 1] * Entry(vs[b + 1], c) ELSE 0
<1>2. z \in [1..b -> Zr] /\ \A k \in 1..b : k \notin K2 => z[k] = 0
  BY <1>0, <1>1, LeadingType
<1>3. ASSUME NEW c \in 1..n
      PROVE  Same((Weighed(w, ms, a, c) + Weighed(z, vs2, b, c)) + x(c), Target(c))
  <2> DEFINE t == y[b + 1] * Entry(vs[b + 1], c)
             W == Weighed(w, ms, a, c)
             Y == Weighed(z, vs2, b, c)
  <2>1. c \in Nat \ {0} /\ b + 1 \in 1..(b + 1)
    OBVIOUS
  <2>2. /\ Entry(vs[b + 1], c) \in Int /\ y[b + 1] \in Int /\ Y \in Int
        /\ Weighed(y, vs, b + 1, c) = (Y + t) % Order
    <3>1. LastSummand(y, vs, vs2, b, c)
      BY <1>0, <1>1, <2>1, WeighedLess
    <3> QED
      BY <3>1 DEF LastSummand
  <2>3. W \in Int
    BY <1>1, <2>1, WeighedType
  <2>4. t \in Int
    BY <2>2
  <2>5. x(c) = t
    <3>1. CASE live
      BY <3>1
    <3>2. CASE ~ live
      <4>1. y[b + 1] = 0
        BY <1>0, <1>1, <2>1, <3>2
      <4>2. t = 0
        BY <2>2, <4>1
      <4> QED
        BY <3>2, <4>2
    <3> QED
      BY <3>1, <3>2
  <2>6. Same((W + Weighed(y, vs, b + 1, c)) + 0, Target(c))
    BY <1>1
  <2> HIDE DEF t, W, Y, z, x
  <2>7. (Y + t) % Order \in Int /\ Same((Y + t) % Order, Y + t) /\ Y + t \in Int
    <3>1. Y + t \in Int
      BY <2>2, <2>4
    <3> QED
      BY <3>1, SameRest
  <2>8. Same(W + ((Y + t) % Order), W + (Y + t))
    <3>1. Same(W, W)
      BY DEF Same
    <3> QED
      BY <2>3, <2>7, <3>1, SameSum
  <2>9. (W + ((Y + t) % Order)) + 0 = W + ((Y + t) % Order) /\ W + (Y + t) = (W + Y) + t
    BY <2>2, <2>3, <2>4, <2>7
  <2>10. Same((W + Y) + t, Target(c))
    BY <2>2, <2>6, <2>8, <2>9 DEF Same
  <2> QED
    BY <2>5, <2>10 DEF W, Y
<1>4. b + 1 \in 1..(b + 1)
  OBVIOUS
<1>5. y[b + 1] \in Zr
  BY <1>1, <1>4
<1> HIDE DEF z
<1> QED
  BY <1>1, <1>2, <1>3, <1>5 DEF TargetSpanned

\* The parts in A take over the weight of the gate if it is live, and none if it is not.
SharesIf(y, us, k, A, live, e, v, n, t) ==
  /\ \A i \in 1..k : i \notin A => y[i] = 0
  /\ \A c \in 1..n : Same(Weighed(y, us, k, c), IF live THEN e * Entry(v, c) ELSE 0)
  /\ \A j \in 1..(t - 1) : Weighed(y, us, k, n + j) = 0

\* A live gate has as many parts in A as its threshold says.
Enough(live, A, t) == live => Cardinality(A) >= t

LEMMA PartWeights ==
  ASSUME NEW k \in Nat, NEW pt, Points(pt, k), NEW n \in Nat, NEW v \in Seq(Int), Len(v) <= n,
         NEW t \in Nat \ {0}, NEW us, PartVectors(us, k, pt, v, n, t),
         NEW A \in SUBSET (1..k), NEW live \in BOOLEAN, Enough(live, A, t), NEW e \in Zr
  PROVE  \E y \in [1..k -> Zr] : SharesIf(y, us, k, A, live, e, v, n, t)
<1>1. CASE live
  <2>1. PICK y \in [1..k -> Zr] : Shares(y, us, k, A, e, v, n, t)
    BY <1>1, ShareWeight DEF Enough
  <2>2. SharesIf(y, us, k, A, live, e, v, n, t)
    BY <1>1, <2>1 DEF Shares, SharesIf
  <2> QED
    BY <2>2
<1>2. CASE ~ live
  <2> DEFINE y == [i \in 1..k |-> 0]
  <2>1. y \in [1..k -> Zr] /\ \A i \in 1..k : y[i] = 0
    BY OrderAssumption DEF Zr
  <2>2. Vectors(us, k, n + (t - 1)) /\ n + (t - 1) \in Nat
    BY PartVectorsFacts
  <2> HIDE DEF y
  <2>3. ASSUME NEW c \in Nat \ {0} PROVE Weighed(y, us, k, c) = 0
    <3>1. Numbers(EntriesOf(us, k, c), k)
      BY <2>2, EntriesNumbers
    <3> QED
      BY <2>1, <3>1, ProductOfZeros DEF Weighed
  <2>4. \A c \in 1..n : Same(Weighed(y, us, k, c), 0)
    <3> SUFFICES ASSUME NEW c \in 1..n PROVE Same(Weighed(y, us, k, c), 0)
      OBVIOUS
    <3>1. c \in Nat \ {0}
      OBVIOUS
    <3> QED
      BY <2>3, <3>1 DEF Same
  <2>5. \A j \in 1..(t - 1) : Weighed(y, us, k, n + j) = 0
    <3> SUFFICES ASSUME NEW j \in 1..(t - 1) PROVE Weighed(y, us, k, n + j) = 0
      OBVIOUS
    <3>1. n + j \in Nat \ {0}
      OBVIOUS
    <3> QED
      BY <2>3, <3>1
  <2>6. SharesIf(y, us, k, A, live, e, v, n, t)
    BY <1>2, <2>1, <2>4, <2>5 DEF SharesIf
  <2> QED
    BY <2>1, <2>6
<1> QED
  BY <1>1, <1>2

-----------------------------------------------------------------------------
(* The same when a gate is replaced by its parts.                          *)

\* us, of which those in A are in the set, behind vs.
Pushed(ts, J, vs, b, K, us, k, A) ==
  /\ \A i \in 1..b : ts[i] = vs[i] /\ (i \in J <=> i \in K)
  /\ \A i \in 1..k : ts[b + i] = us[i] /\ (b + i \in J <=> i \in A)

\* The stack still holds vectors of numbers.
LEMMA PushedVectors ==
  ASSUME NEW b \in Nat, NEW k \in Nat, NEW n \in Nat, NEW m \in Nat, n <= m,
         NEW ts, NEW J, NEW vs, NEW K, NEW us, NEW A,
         Vectors(vs, b, n), Vectors(us, k, m), Pushed(ts, J, vs, b, K, us, k, A)
  PROVE  Vectors(ts, b + k, m)
<1> SUFFICES ASSUME NEW i \in 1..(b + k) PROVE ts[i] \in Seq(Int) /\ Len(ts[i]) <= m
  BY DEF Vectors
<1>1. CASE i <= b
  <2>1. i \in 1..b
    BY <1>1
  <2>2. ts[i] = vs[i]
    BY <2>1 DEF Pushed
  <2>3. vs[i] \in Seq(Int) /\ Len(vs[i]) <= n /\ Len(vs[i]) \in Nat
    BY <2>1 DEF Vectors
  <2>4. Len(vs[i]) <= m
    BY <2>3
  <2> QED
    BY <2>2, <2>3, <2>4
<1>2. CASE ~ (i <= b)
  <2>1. i - b \in 1..k /\ b + (i - b) = i
    BY <1>2
  <2>2. ts[i] = us[i - b]
    BY <2>1 DEF Pushed
  <2> QED
    BY <2>1, <2>2 DEF Vectors
<1> QED
  BY <1>1, <1>2

\* The gate with the vector v and k parts pushes the vectors us of its parts.
PushStep(a, b, n, ms, vs, K, v, t, k, pt, us, A, ts, J) ==
  /\ a \in Nat /\ b \in Nat /\ n \in Nat \ {0} /\ t \in Nat \ {0} /\ k \in Nat
  /\ v \in Seq(Int) /\ Len(v) <= n /\ Vectors(ms, a, n) /\ Vectors(vs, b, n)
  /\ Points(pt, k) /\ PartVectors(us, k, pt, v, n, t) /\ A \in SUBSET (1..k)
  /\ Pushed(ts, J, vs, b, K, us, k, A)

\* The parts take over the weight of their gate, in columns that nothing else uses.
LEMMA PushSpans ==
  ASSUME NEW a, NEW b, NEW n, NEW ms, NEW vs, NEW L, NEW K, NEW v, NEW t, NEW k, NEW pt,
         NEW us, NEW A, NEW ts, NEW J, PushStep(a, b, n, ms, vs, K, v, t, k, pt, us, A, ts, J),
         NEW live \in BOOLEAN, Enough(live, A, t),
         TargetSpanned(ms, a, L, vs, b, K, v, live, n)
  PROVE  TargetSpanned(ms, a, L, ts, b + k, J, v, FALSE, n + (t - 1))
<1> SUFFICES ASSUME a \in Nat, b \in Nat, n \in Nat \ {0}, v \in Seq(Int), Len(v) <= n,
                    Vectors(ms, a, n), Vectors(vs, b, n), t \in Nat \ {0}, k \in Nat,
                    Points(pt, k), PartVectors(us, k, pt, v, n, t), A \in SUBSET (1..k),
                    Pushed(ts, J, vs, b, K, us, k, A)
             PROVE  TargetSpanned(ms, a, L, ts, b + k, J, v, FALSE, n + (t - 1))
  BY DEF PushStep
<1> DEFINE m == n + (t - 1)
           s(e, c) == IF live THEN e * Entry(v, c) ELSE 0
<1>1. PICK w \in [1..a -> Zr], y \in [1..b -> Zr], e \in Zr :
        /\ \A i \in 1..a : i \notin L => w[i] = 0
        /\ \A i \in 1..b : i \notin K => y[i] = 0
        /\ \A c \in 1..n : Same((Weighed(w, ms, a, c) + Weighed(y, vs, b, c)) + s(e, c), Target(c))
  BY DEF TargetSpanned
<1>1a. n \in Nat
  OBVIOUS
<1>1b. w \in [1..a -> Zr] /\ y \in [1..b -> Zr] /\ e \in Zr
  BY <1>1
<1>2. PICK z \in [1..k -> Zr] : SharesIf(z, us, k, A, live, e, v, n, t)
  <2> HIDE DEF s
  <2>1. \E z \in [1..k -> Zr] : SharesIf(z, us, k, A, live, e, v, n, t)
    BY <1>1b, <1>1a, PartWeights
  <2> QED
    BY <2>1
<1> DEFINE l == [i \in 1..(b + k) |-> IF i <= b THEN y[i] ELSE z[i - b]]
<1>3. m \in Nat /\ n <= m /\ b + k \in Nat /\ n \in Nat
  OBVIOUS
<1>4. l \in [1..(b + k) -> Zr]
  <2> SUFFICES ASSUME NEW i \in 1..(b + k) PROVE (IF i <= b THEN y[i] ELSE z[i - b]) \in Zr
    OBVIOUS
  <2>1. CASE i <= b
    <3>1. i \in 1..b
      BY <2>1
    <3> QED
      BY <1>1, <2>1, <3>1
  <2>2. CASE ~ (i <= b)
    <3>1. i - b \in 1..k
      BY <2>2
    <3> QED
      BY <1>2, <2>2, <3>1
  <2> QED
    BY <2>1, <2>2
<1>5. \A i \in 1..b : l[i] = y[i] /\ i \in 1..(b + k)
  OBVIOUS
<1>6. \A i \in 1..k : l[b + i] = z[i] /\ b + i \in 1..(b + k)
  <2> SUFFICES ASSUME NEW i \in 1..k PROVE l[b + i] = z[i] /\ b + i \in 1..(b + k)
    OBVIOUS
  <2>1. b + i \in 1..(b + k) /\ ~ (b + i <= b) /\ (b + i) - b = i
    OBVIOUS
  <2> QED
    BY <2>1
<1> HIDE DEF l
<1>7. ASSUME NEW i \in 1..(b + k), i \notin J PROVE l[i] = 0
  <2>1. CASE i \in 1..b
    BY <1>1, <1>5, <1>7, <2>1 DEF Pushed
  <2>2. CASE i \notin 1..b
    <3>1. i - b \in 1..k /\ b + (i - b) = i
      BY <2>2
    <3>2. l[i] = z[i - b]
      BY <1>6, <3>1
    <3>3. i - b \notin A
      BY <1>7, <3>1 DEF Pushed
    <3> QED
      BY <1>2, <3>1, <3>2, <3>3 DEF SharesIf
  <2> QED
    BY <2>1, <2>2
<1>8. Vectors(us, k, m)
  BY PartVectorsFacts
<1>9. Vectors(ts, b + k, m)
  <2> HIDE DEF m
  <2> QED
    BY <1>3, <1>8, PushedVectors
<1>10. (\A i \in 1..b : l[i] = y[i] /\ ts[i] = vs[i]) /\ \A i \in 1..k : l[b + i] = z[i] /\ ts[b + i] = us[i]
  BY <1>5, <1>6 DEF Pushed
<1>11. ASSUME NEW c \in 1..m
       PROVE  Same((Weighed(w, ms, a, c) + Weighed(l, ts, b + k, c)) + 0, Target(c))
  <2> DEFINE W == Weighed(w, ms, a, c)
             Y == Weighed(y, vs, b, c)
             Z == Weighed(z, us, k, c)
             T == Weighed(l, ts, b + k, c)
  <2>1. c \in Nat \ {0}
    OBVIOUS
  <2>2. W \in Int /\ Y \in Int
    BY <1>1, <1>3, <2>1, WeighedType
  <2>3. Z \in Int
    <3> HIDE DEF m
    <3> QED
      BY <1>2, <1>3, <1>8, <2>1, WeighedType
  <2>4. T \in Int
    <3> HIDE DEF m
    <3> QED
      BY <1>3, <1>4, <1>9, <2>1, WeighedType
  <2>5. Same(T, Y + Z)
    <3> HIDE DEF m
    <3> QED
      BY <1>1, <1>2, <1>3, <1>4, <1>8, <1>9, <1>10, <2>1, WeighedJoin
  <2>6. CASE c <= n
    <3>1. c \in 1..n
      BY <2>6
    <3> DEFINE q == s(e, c)
    <3>2. q \in Int
      <4>1. Entry(v, c) \in Int /\ e \in Int
        BY <1>1, <2>1, EntryType, Elements
      <4> QED
        BY <4>1
    <3>3. Same((W + Y) + q, Target(c))
      BY <1>1, <3>1
    <3>4. Same(Z, q)
      BY <1>2, <3>1 DEF SharesIf
    <3> HIDE DEF q, W, Y, Z, T
    <3>5. Same(Y + Z, Y + q) /\ Y + Z \in Int /\ Y + q \in Int
      <4>1. Same(Y, Y)
        BY DEF Same
      <4> QED
        BY <2>2, <2>3, <3>2, <3>4, <4>1, SameSum
    <3>6. Same(T, Y + q)
      BY <2>5, <3>5 DEF Same
    <3>7. Same(W + T, W + (Y + q))
      <4>1. Same(W, W)
        BY DEF Same
      <4> QED
        BY <2>2, <2>4, <3>5, <3>6, <4>1, SameSum
    <3>8. W + (Y + q) = (W + Y) + q /\ (W + T) + 0 = W + T
      BY <2>2, <2>4, <3>2
    <3>9. Same((W + T) + 0, Target(c))
      BY <3>3, <3>7, <3>8 DEF Same
    <3> QED
      BY <3>9 DEF W, T
  <2>7. CASE ~ (c <= n)
    <3>1. c \in Nat /\ c > n /\ c # 1 /\ c - n \in 1..(t - 1) /\ n + (c - n) = c
      BY <2>7
    <3>2. W = 0
      <4>1. c \in Nat /\ c > n
        BY <3>1
      <4> HIDE DEF m
      <4> QED
        BY <1>1b, <1>1a, <4>1, WeighedBehind
    <3>2a. Y = 0
      <4>1. c \in Nat /\ c > n
        BY <3>1
      <4> HIDE DEF m
      <4> QED
        BY <1>1b, <1>1a, <4>1, WeighedBehind, SMTT(30)
    <3>3. Z = 0
      BY <1>2, <3>1 DEF SharesIf
    <3> HIDE DEF W, Y, Z, T
    <3>4. Y + Z = 0 /\ (W + T) + 0 = T
      BY <2>4, <3>2, <3>3, <3>2a
    <3>5. Target(c) = 0
      BY <3>1 DEF Target
    <3>6. Same((W + T) + 0, Target(c))
      BY <2>5, <3>4, <3>5
    <3> QED
      BY <3>6 DEF W, T
  <2> QED
    BY <2>6, <2>7
<1> HIDE DEF m
<1>12. \E f \in [1..a -> Zr], g \in [1..(b + k) -> Zr], h \in Zr :
         /\ \A i \in 1..a : i \notin L => f[i] = 0
         /\ \A i \in 1..(b + k) : i \notin J => g[i] = 0
         /\ \A c \in 1..m : Same((Weighed(f, ms, a, c) + Weighed(g, ts, b + k, c)) + 0, Target(c))
  BY <1>1, <1>4, <1>7, <1>11
<1> QED
  BY <1>12 DEF TargetSpanned, m

\* Only the entries of the vectors matter.
LEMMA SpansAlike ==
  ASSUME NEW a \in Nat, NEW n \in Nat, NEW ms, NEW os, NEW L, NEW vs, NEW K, NEW v,
         Vectors(ms, a, n), Vectors(os, a, n),
         \A i \in 1..a : \A c \in 1..n : Entry(ms[i], c) = Entry(os[i], c),
         TargetSpanned(ms, a, L, vs, 0, K, v, FALSE, n)
  PROVE  TargetSpanned(os, a, L, vs, 0, K, v, FALSE, n)
<1>1. PICK w \in [1..a -> Zr], y \in [1..0 -> Zr], e \in Zr :
        /\ \A i \in 1..a : i \notin L => w[i] = 0
        /\ \A i \in 1..0 : i \notin K => y[i] = 0
        /\ \A c \in 1..n : Same((Weighed(w, ms, a, c) + Weighed(y, vs, 0, c)) + 0, Target(c))
  BY DEF TargetSpanned
<1>2. ASSUME NEW c \in 1..n PROVE Weighed(w, ms, a, c) = Weighed(w, os, a, c)
  <2>1. c \in Nat \ {0} /\ Numbers(w, a)
    BY <1>1, WeightNumbers
  <2>2. \A i \in 1..a : w[i] = w[i] /\ Entry(ms[i], c) = Entry(os[i], c)
    OBVIOUS
  <2> QED
    BY <1>1, <2>1, <2>2, WeighedSame
<1>3. \A c \in 1..n : Same((Weighed(w, os, a, c) + Weighed(y, vs, 0, c)) + 0, Target(c))
  BY <1>1, <1>2
<1> QED
  BY <1>1, <1>3 DEF TargetSpanned

-----------------------------------------------------------------------------
(* The rows of a set are separated from (1, 0, ..., 0).                    *)

\* What separates the rows from (1, 0, ..., 0) goes through the same steps.
LEMMA LeafMisses ==
  ASSUME NEW a \in Nat, NEW b \in Nat, NEW n \in Nat, NEW ms, NEW vs, NEW L, NEW K, NEW v,
         NEW ms2, NEW vs2, NEW L2, NEW K2, Moved(ms, a, L, vs, b, K, ms2, L2, vs2, K2),
         TargetMissed(ms, a, L, vs, b + 1, K, v, FALSE, n)
  PROVE  TargetMissed(ms2, a + 1, L2, vs2, b, K2, v, FALSE, n)
<1>1. PICK u \in [1..n -> Zr] :
        /\ u[1] = 1
        /\ \A k \in 1..a : k \in L => Dot(ms[k], u, n) = 0
        /\ \A k \in 1..(b + 1) : k \in K => Dot(vs[k], u, n) = 0
  BY DEF TargetMissed
<1>2. (\A k \in 1..b : k \in 1..(b + 1)) /\ b + 1 \in 1..(b + 1)
      /\ \A k \in 1..(a + 1) : k \in 1..a \/ k = a + 1
  OBVIOUS
<1>3. ASSUME NEW k \in 1..(a + 1), k \in L2 PROVE Dot(ms2[k], u, n) = 0
  <2>1. CASE k \in 1..a
    BY <1>1, <1>3, <2>1 DEF Moved
  <2>2. CASE k = a + 1
    BY <1>1, <1>2, <1>3, <2>2 DEF Moved
  <2> QED
    BY <1>2, <2>1, <2>2
<1>4. ASSUME NEW k \in 1..b, k \in K2 PROVE Dot(vs2[k], u, n) = 0
  BY <1>1, <1>2, <1>4 DEF Moved
<1> QED
  BY <1>1, <1>3, <1>4 DEF TargetMissed

LEMMA GateMisses ==
  ASSUME NEW a \in Nat, NEW b \in Nat, NEW n \in Nat, NEW ms, NEW vs, NEW L, NEW K, NEW v,
         NEW vs2, NEW K2, NEW live \in BOOLEAN, Opens(vs, b, K, vs2, K2, live),
         TargetMissed(ms, a, L, vs, b + 1, K, v, FALSE, n)
  PROVE  TargetMissed(ms, a, L, vs2, b, K2, vs[b + 1], live, n)
<1>1. PICK u \in [1..n -> Zr] :
        /\ u[1] = 1
        /\ \A k \in 1..a : k \in L => Dot(ms[k], u, n) = 0
        /\ \A k \in 1..(b + 1) : k \in K => Dot(vs[k], u, n) = 0
  BY DEF TargetMissed
<1>2. (\A k \in 1..b : k \in 1..(b + 1)) /\ b + 1 \in 1..(b + 1)
  OBVIOUS
<1>3. ASSUME NEW k \in 1..b, k \in K2 PROVE Dot(vs2[k], u, n) = 0
  BY <1>1, <1>2, <1>3 DEF Opens
<1>4. ASSUME live PROVE Dot(vs[b + 1], u, n) = 0
  BY <1>1, <1>2, <1>4 DEF Opens
<1> QED
  BY <1>1, <1>3, <1>4 DEF TargetMissed

\* A gate that is not live has fewer parts in A.
Short(live, A, t) == Cardinality(A) >= t => live

\* It gets an entry for each new column, so that it still sends the parts that admit
\* the set to zero.
LEMMA PushMisses ==
  ASSUME NEW a, NEW b, NEW n, NEW ms, NEW vs, NEW L, NEW K, NEW v, NEW t, NEW k, NEW pt,
         NEW us, NEW A, NEW ts, NEW J, PushStep(a, b, n, ms, vs, K, v, t, k, pt, us, A, ts, J),
         NEW live \in BOOLEAN, Short(live, A, t),
         TargetMissed(ms, a, L, vs, b, K, v, live, n)
  PROVE  TargetMissed(ms, a, L, ts, b + k, J, v, FALSE, n + (t - 1))
<1> SUFFICES ASSUME a \in Nat, b \in Nat, n \in Nat \ {0}, v \in Seq(Int), Len(v) <= n,
                    Vectors(ms, a, n), Vectors(vs, b, n), t \in Nat \ {0}, k \in Nat,
                    Points(pt, k), PartVectors(us, k, pt, v, n, t), A \in SUBSET (1..k),
                    Pushed(ts, J, vs, b, K, us, k, A)
             PROVE  TargetMissed(ms, a, L, ts, b + k, J, v, FALSE, n + (t - 1))
  BY DEF PushStep
<1>1. PICK u \in [1..n -> Zr] :
        /\ u[1] = 1
        /\ \A i \in 1..a : i \in L => Dot(ms[i], u, n) = 0
        /\ \A i \in 1..b : i \in K => Dot(vs[i], u, n) = 0
        /\ live => Dot(v, u, n) = 0
  BY DEF TargetMissed
<1>2. u \in [1..n -> Zr] /\ Obeys(u, v, n, A, t) /\ n \in Nat /\ 1 \in 1..n
  BY <1>1 DEF Short, Obeys
<1> DEFINE r == t - 1
<1>3. \E y \in [1..(n + r) -> Zr] : Widens(y, u, n) /\ Hides(y, us, A, n + r)
  BY <1>2, HideParts
<1>4. PICK y \in [1..(n + r) -> Zr] : Widens(y, u, n) /\ Hides(y, us, A, n + r)
  BY <1>3
<1>5. r \in Nat
  OBVIOUS
<1> HIDE DEF r
<1>5a. y \in [1..(n + r) -> Zr] /\ Widens(y, u, n) /\ u \in [1..n -> Zr] /\ n \in Nat
  BY <1>2, <1>4
<1>6. \A p \in Seq(Int) : Len(p) <= n => Dot(p, y, n + r) = Dot(p, u, n)
  BY <1>5, <1>5a, DotsWider, ZenonT(60)
<1>7. ASSUME NEW i \in 1..a, i \in L PROVE Dot(ms[i], y, n + r) = 0
  <2>1. ms[i] \in Seq(Int) /\ Len(ms[i]) <= n
    BY DEF Vectors
  <2> QED
    BY <1>1, <1>6, <1>7, <2>1
<1>8. ASSUME NEW i \in 1..(b + k), i \in J PROVE Dot(ts[i], y, n + r) = 0
  <2>1. CASE i \in 1..b
    <3>1. ts[i] = vs[i] /\ i \in K
      BY <1>8, <2>1 DEF Pushed
    <3>2. vs[i] \in Seq(Int) /\ Len(vs[i]) <= n
      BY <2>1 DEF Vectors
    <3>3. Dot(vs[i], y, n + r) = Dot(vs[i], u, n)
      BY <1>6, <3>2
    <3> QED
      BY <1>1, <2>1, <3>1, <3>3
  <2>2. CASE i \notin 1..b
    <3>1. i - b \in 1..k /\ b + (i - b) = i
      BY <2>2
    <3>2. ts[i] = us[i - b] /\ i - b \in A
      BY <1>8, <3>1 DEF Pushed
    <3> QED
      BY <1>4, <3>2 DEF Hides
  <2> QED
    BY <2>1, <2>2
<1>9. y[1] = 1
  BY <1>1, <1>2, <1>4 DEF Widens
<1>10. TargetMissed(ms, a, L, ts, b + k, J, v, FALSE, n + r)
  BY <1>4, <1>7, <1>8, <1>9 DEF TargetMissed
<1> QED
  BY <1>10 DEF r

\* The same of what separates them.
LEMMA MissesAlike ==
  ASSUME NEW a \in Nat, NEW n \in Nat, NEW ms, NEW os, NEW L, NEW vs, NEW K, NEW v,
         \A i \in 1..a : \A c \in 1..n : Entry(ms[i], c) = Entry(os[i], c),
         TargetMissed(ms, a, L, vs, 0, K, v, FALSE, n)
  PROVE  TargetMissed(os, a, L, vs, 0, K, v, FALSE, n)
<1>1. PICK u \in [1..n -> Zr] :
        /\ u[1] = 1
        /\ \A k \in 1..a : k \in L => Dot(ms[k], u, n) = 0
        /\ \A k \in 1..0 : k \in K => Dot(vs[k], u, n) = 0
  BY DEF TargetMissed
<1>2. ASSUME NEW i \in 1..a PROVE Dot(ms[i], u, n) = Dot(os[i], u, n)
  <2>1. RowOf(ms[i], n) = RowOf(os[i], n)
    BY DEF RowOf
  <2> QED
    BY <2>1 DEF Dot
<1> QED
  BY <1>1, <1>2 DEF TargetMissed

-----------------------------------------------------------------------------
(* The first vector, and the matrix at the end.                            *)

\* At first there is one vector, (1), which is in the set or not.
LEMMA FirstSpans ==
  ASSUME NEW ms, NEW L, NEW vs, vs[1] = << 1 >>, NEW K, 1 \in K, NEW v
  PROVE  TargetSpanned(ms, 0, L, vs, 1, K, v, FALSE, 1)
<1> DEFINE w == [k \in 1..0 |-> 0]
           y == [k \in 1..1 |-> 1]
<1>1. 1 \in Zr /\ 0 \in Zr /\ 1 % Order = 1 /\ 0 % Order = 0
  <2>1. 1 \in Zr /\ 0 \in Zr
    BY OrderAssumption DEF Zr
  <2> QED
    BY <2>1, Elements
<1>2. w \in [1..0 -> Zr] /\ y \in [1..1 -> Zr] /\ y[1] = 1 /\ \A k \in 1..1 : k \notin K => y[k] = 0
  BY <1>1
<1> HIDE DEF w, y
<1>3. Vectors(vs, 1, 1) /\ Entry(vs[1], 1) = 1
  <2>1. vs[1] \in Seq(Int) /\ Len(vs[1]) = 1 /\ vs[1][1] = 1
    OBVIOUS
  <2>2. \A k \in 1..1 : k = 1
    OBVIOUS
  <2>3. Vectors(vs, 1, 1)
    <3> SUFFICES ASSUME NEW k \in 1..1 PROVE vs[k] \in Seq(Int) /\ Len(vs[k]) <= 1
      BY DEF Vectors
    <3>1. k = 1
      OBVIOUS
    <3>2. 1 <= 1
      OBVIOUS
    <3> QED
      BY <2>1, <3>1, <3>2
  <2> QED
    BY <2>1, <2>3 DEF Entry
<1>4. ASSUME NEW c \in 1..1
      PROVE Same((Weighed(w, ms, 0, c) + Weighed(y, vs, 1, c)) + 0, Target(c))
  <2>1. c = 1
    OBVIOUS
  <2>2. Weighed(w, ms, 0, 1) = 0
    BY ProductOfNone DEF Weighed
  <2>3. Weighed(y, vs, 1, 1) = 1
    <3> DEFINE e == EntriesOf(vs, 1, 1)
    <3>1. Numbers(e, 1) /\ e[1] = 1 /\ Numbers(y, 1)
      <4>1. 1 \in Nat /\ 1 \in Nat \ {0} /\ 1 \in 1..1
        OBVIOUS
      <4>2. Numbers(e, 1) /\ e[1] = Entry(vs[1], 1)
        BY <1>3, <4>1, EntriesNumbers
      <4> HIDE DEF e
      <4> QED
        BY <1>2, <1>3, <4>1, <4>2, WeightNumbers
    <3> HIDE DEF e
    <3>2. Numbers(y, 0 + 1) /\ Numbers(e, 0 + 1)
      BY <3>1
    <3>3. Product(y, e, 0 + 1) = (Product(y, e, 0) + y[0 + 1] * e[0 + 1]) % Order
      BY <3>2, ProductSteps
    <3>4. Product(y, e, 0) = 0
      BY ProductOfNone
    <3>5. 0 + 1 * 1 = 1 /\ 0 + 1 = 1
      OBVIOUS
    <3>6. Product(y, e, 1) = 1
      BY <1>1, <1>2, <3>1, <3>3, <3>4, <3>5
    <3> QED
      BY <3>6 DEF Weighed, e
  <2> QED
    BY <2>1, <2>2, <2>3 DEF Target, Same
<1>5. \E f \in [1..0 -> Zr], g \in [1..1 -> Zr], h \in Zr :
        /\ \A k \in 1..0 : k \notin L => f[k] = 0
        /\ \A k \in 1..1 : k \notin K => g[k] = 0
        /\ \A c \in 1..1 : Same((Weighed(f, ms, 0, c) + Weighed(g, vs, 1, c)) + 0, Target(c))
  <2>1. \A k \in 1..0 : k \notin L => w[k] = 0
    OBVIOUS
  <2>2. \E h : h \in Zr
    BY <1>1
  <2>3. PICK h : h \in Zr
    BY <2>2
  <2> QED
    BY <1>2, <1>4, <2>1, <2>3
<1> QED
  BY <1>5 DEF TargetSpanned

\* A set that the policy does not admit has no vector at first.
LEMMA FirstMisses ==
  ASSUME NEW ms, NEW L, NEW vs, NEW K, 1 \notin K, NEW v
  PROVE  TargetMissed(ms, 0, L, vs, 1, K, v, FALSE, 1)
<1> DEFINE u == [c \in 1..1 |-> 1]
<1>1. u \in [1..1 -> Zr] /\ u[1] = 1
  BY OrderAssumption DEF Zr
<1> HIDE DEF u
<1> QED
  BY <1>1 DEF TargetMissed

\* Spans, said of any matrix.
Spanned(ms, a, L, n) ==
  \E w \in [L -> Zr] :
    \A c \in 1..n :
      Product([r \in 1..a |-> IF r \in L THEN w[r] ELSE 0], [r \in 1..a |-> ms[r][c]], a)
        = (IF c = 1 THEN 1 ELSE 0)

Wide(ms, a, n) == \A r \in 1..a : ms[r] \in Seq(Int) /\ Len(ms[r]) = n

LEMMA WideColumns ==
  ASSUME NEW ms, NEW a \in Nat, NEW n \in Nat, Wide(ms, a, n), NEW c \in 1..n
  PROVE  Column(ms, a, c) = EntriesOf(ms, a, c) /\ Numbers(EntriesOf(ms, a, c), a)
         /\ Vectors(ms, a, n)
<1>1. Vectors(ms, a, n)
  BY DEF Vectors, Wide
<1>2. c \in Nat \ {0}
  OBVIOUS
<1>3. \A r \in 1..a : Entry(ms[r], c) = ms[r][c]
  BY DEF Wide, Entry
<1> QED
  BY <1>1, <1>2, <1>3, EntriesNumbers DEF EntriesOf, Column

\* At the end only the rows are left.
LEMMA SpannedIf ==
  ASSUME NEW ms, NEW a \in Nat, NEW n \in Nat, Wide(ms, a, n), NEW L \in SUBSET (1..a),
         NEW vs, NEW K, NEW v, TargetSpanned(ms, a, L, vs, 0, K, v, FALSE, n)
  PROVE  Spanned(ms, a, L, n)
<1>1. PICK w \in [1..a -> Zr], y \in [1..0 -> Zr], e \in Zr :
        /\ \A i \in 1..a : i \notin L => w[i] = 0
        /\ \A i \in 1..0 : i \notin K => y[i] = 0
        /\ \A c \in 1..n : Same((Weighed(w, ms, a, c) + Weighed(y, vs, 0, c)) + 0, Target(c))
  BY DEF TargetSpanned
<1> DEFINE z == [r \in L |-> w[r]]
           x == [r \in 1..a |-> IF r \in L THEN z[r] ELSE 0]
<1>2. z \in [L -> Zr] /\ \A r \in L : z[r] = w[r]
  BY <1>1
<1>3. x = w
  <2>1. \A r \in 1..a : (IF r \in L THEN z[r] ELSE 0) = w[r]
    BY <1>1, <1>2
  <2> HIDE DEF z
  <2> QED
    BY <1>1, <2>1
<1>4. ASSUME NEW c \in 1..n PROVE Product(x, [r \in 1..a |-> ms[r][c]], a) = (IF c = 1 THEN 1 ELSE 0)
  <2> DEFINE W == Weighed(w, ms, a, c)
  <2>1. c \in Nat \ {0} /\ Vectors(ms, a, n)
    <3>1. c \in Nat \ {0}
      OBVIOUS
    <3>2. Vectors(ms, a, n)
      BY WideColumns
    <3> QED
      BY <3>1, <3>2
  <2>2. W \in Zr /\ W \in Int
    BY <1>1, <2>1, WeighedType
  <2>3. Weighed(y, vs, 0, c) = 0
    BY ProductOfNone DEF Weighed
  <2>4. Target(c) \in Zr /\ Target(c) = (IF c = 1 THEN 1 ELSE 0)
    BY OrderAssumption DEF Target, Zr
  <2>5. Same((W + 0) + 0, Target(c))
    BY <1>1, <2>3
  <2>6. (W + 0) + 0 = W
    BY <2>2
  <2> HIDE DEF W
  <2>7. W = Target(c)
    BY <2>2, <2>4, <2>5, <2>6, SameElements
  <2>8. W = Product(w, [r \in 1..a |-> ms[r][c]], a)
    <3>1. Column(ms, a, c) = EntriesOf(ms, a, c)
      BY WideColumns
    <3> QED
      BY <3>1 DEF W, Weighed, Column
  <2> QED
    BY <1>3, <2>4, <2>7, <2>8
<1> HIDE DEF z
<1> QED
  BY <1>2, <1>4 DEF Spanned

\* No combination of rows that are sent to zero is sent to one.
LEMMA NotSpannedIf ==
  ASSUME NEW ms, NEW a \in Nat, NEW n \in Nat \ {0}, Wide(ms, a, n), NEW L \in SUBSET (1..a),
         NEW vs, NEW K, NEW v, TargetMissed(ms, a, L, vs, 0, K, v, FALSE, n)
  PROVE  ~ Spanned(ms, a, L, n)
<1> SUFFICES ASSUME Spanned(ms, a, L, n) PROVE FALSE
  OBVIOUS
<1>1. PICK u \in [1..n -> Zr] : u[1] = 1 /\ \A k \in 1..a : k \in L => Dot(ms[k], u, n) = 0
  BY DEF TargetMissed
<1>2. PICK z \in [L -> Zr] :
        \A c \in 1..n :
          Product([r \in 1..a |-> IF r \in L THEN z[r] ELSE 0], [r \in 1..a |-> ms[r][c]], a)
            = (IF c = 1 THEN 1 ELSE 0)
  BY DEF Spanned
<1> DEFINE w == [r \in 1..a |-> IF r \in L THEN z[r] ELSE 0]
           x == [r \in 1..a |-> Product(ms[r], u, n)]
           s == RowSum(w, ms, a, a, n)
<1>3. w \in [1..a -> Zr] /\ \A r \in 1..a : r \notin L => w[r] = 0
  BY <1>2, OrderAssumption DEF Zr
<1>4. \A c \in 1..n : s[c] = (IF c = 1 THEN 1 ELSE 0)
  BY <1>2 DEF RowSum, Column
<1> HIDE DEF w, s
<1>5. Numbers(w, a) /\ Numbers(u, n) /\ n \in Nat /\ 1 \in 1..n
  <2>1. n \in Nat /\ 1 \in 1..n
    OBVIOUS
  <2> QED
    BY <1>1, <1>3, <2>1, WeightNumbers
<1>6. Matrix(ms, a, n)
  <2> SUFFICES ASSUME NEW r \in 1..a, NEW c \in 1..n PROVE ms[r][c] \in Int
    BY DEF Matrix, Numbers
  <2>1. ms[r] \in Seq(Int) /\ Len(ms[r]) = n
    BY DEF Wide
  <2> QED
    BY <2>1
<1>7. ASSUME NEW r \in 1..a PROVE x[r] \in Int /\ (r \in L => x[r] = 0)
  <2>1. Numbers(ms[r], n)
    BY <1>6 DEF Matrix
  <2>2. Product(ms[r], u, n) \in Zr
    BY <1>5, <2>1, ProductType
  <2>3. Product(ms[r], u, n) = Dot(ms[r], u, n)
    <3>1. Numbers(RowOf(ms[r], n), n) /\ \A c \in 1..n : RowOf(ms[r], n)[c] = Entry(ms[r], c)
      <4>1. ms[r] \in Seq(Int)
        BY DEF Wide
      <4> QED
        BY <1>5, <4>1, RowNumbers
    <3>2. \A c \in 1..n : Entry(ms[r], c) = ms[r][c]
      BY DEF Wide, Entry
    <3>3. \A c \in 1..n : Same(ms[r][c] * u[c], RowOf(ms[r], n)[c] * u[c])
      <4> SUFFICES ASSUME NEW c \in 1..n PROVE Same(ms[r][c] * u[c], RowOf(ms[r], n)[c] * u[c])
        OBVIOUS
      <4>1. ms[r][c] = RowOf(ms[r], n)[c]
        BY <3>1, <3>2
      <4> QED
        BY <4>1 DEF Same
    <3>4. Termwise(ms[r], u, RowOf(ms[r], n), u, n)
      BY <1>5, <2>1, <3>1, <3>3 DEF Termwise
    <3> QED
      BY <1>5, <3>4, TermwiseSame DEF Dot
  <2>4. x[r] = Product(ms[r], u, n)
    OBVIOUS
  <2> HIDE DEF x
  <2> QED
    BY <1>1, <2>2, <2>3, <2>4, Elements
<1>8. \A r \in 1..a : x[r] = Product(ms[r], u, n)
  OBVIOUS
<1> HIDE DEF x
<1>9. Product(w, x, a) = Product(s, u, n)
  BY <1>5, <1>6, <1>8, ProductOfRowSum DEF s
<1>10. Product(s, u, n) = u[1] % Order
  BY <1>4, <1>5, UnitProduct
<1>11. 1 % Order = 1 /\ 0 % Order = 0 /\ 0 \in Zr
  <2>1. 1 \in Zr /\ 0 \in Zr
    BY OrderAssumption DEF Zr
  <2> QED
    BY <2>1, Elements
<1>12. Product(w, x, a) = 0
  <2> DEFINE o == [r \in 1..a |-> 0]
  <2>1. Numbers(o, a) /\ \A r \in 1..a : o[r] = 0
    BY DEF Numbers
  <2> HIDE DEF o
  <2>2. Numbers(x, a)
    BY <1>7 DEF Numbers
  <2>3. \A r \in 1..a : Same(w[r] * x[r], o[r] * x[r])
    <3> SUFFICES ASSUME NEW r \in 1..a PROVE Same(w[r] * x[r], o[r] * x[r])
      OBVIOUS
    <3>1. w[r] \in Int /\ x[r] \in Int /\ o[r] = 0
      BY <1>5, <1>7, <2>1 DEF Numbers
    <3>2. w[r] = 0 \/ x[r] = 0
      BY <1>3, <1>7
    <3>3. w[r] * x[r] = o[r] * x[r]
      <4>1. o[r] * x[r] = 0
        BY <3>1
      <4>2. CASE w[r] = 0
        BY <3>1, <4>1, <4>2
      <4>3. CASE x[r] = 0
        BY <3>1, <4>1, <4>3
      <4> QED
        BY <3>2, <4>1, <4>2, <4>3
    <3> QED
      BY <3>3 DEF Same
  <2>4. Termwise(w, x, o, x, a)
    BY <1>5, <2>1, <2>2, <2>3 DEF Termwise
  <2>5. Product(w, x, a) = Product(o, x, a)
    BY <2>4, TermwiseSame
  <2> QED
    BY <2>1, <2>2, <2>5, ProductOfZeros
<1> QED
  BY <1>1, <1>9, <1>10, <1>11, <1>12

-----------------------------------------------------------------------------
(* One or the other, as the policy says.                                   *)

\* The one or the other, as the policy admits the set or not.
Decides(acc, ms, a, L, vs, b, K, v, live, n) ==
  /\ acc => TargetSpanned(ms, a, L, vs, b, K, v, live, n)
  /\ ~ acc => TargetMissed(ms, a, L, vs, b, K, v, live, n)

\* Each step of initialize leaves it at that.
LEMMA LeafDecides ==
  ASSUME NEW a \in Nat, NEW b \in Nat, NEW n \in Nat, NEW ms, NEW vs, NEW L, NEW K, NEW v,
         Vectors(ms, a, n), Vectors(vs, b + 1, n),
         NEW ms2, NEW vs2, NEW L2, NEW K2, Moved(ms, a, L, vs, b, K, ms2, L2, vs2, K2),
         NEW acc, Decides(acc, ms, a, L, vs, b + 1, K, v, FALSE, n)
  PROVE  Decides(acc, ms2, a + 1, L2, vs2, b, K2, v, FALSE, n)
<1>1. TargetSpanned(ms, a, L, vs, b + 1, K, v, FALSE, n)
        => TargetSpanned(ms2, a + 1, L2, vs2, b, K2, v, FALSE, n)
  <2> SUFFICES ASSUME TargetSpanned(ms, a, L, vs, b + 1, K, v, FALSE, n)
               PROVE  TargetSpanned(ms2, a + 1, L2, vs2, b, K2, v, FALSE, n)
    OBVIOUS
  <2> QED
    BY LeafSpans
<1>2. TargetMissed(ms, a, L, vs, b + 1, K, v, FALSE, n)
        => TargetMissed(ms2, a + 1, L2, vs2, b, K2, v, FALSE, n)
  BY LeafMisses
<1> QED
  BY <1>1, <1>2 DEF Decides

LEMMA GateDecides ==
  ASSUME NEW a \in Nat, NEW b \in Nat, NEW n \in Nat, NEW ms, NEW vs, NEW L, NEW K, NEW v,
         Vectors(ms, a, n), Vectors(vs, b + 1, n),
         NEW vs2, NEW K2, NEW live \in BOOLEAN, Opens(vs, b, K, vs2, K2, live),
         NEW acc, Decides(acc, ms, a, L, vs, b + 1, K, v, FALSE, n)
  PROVE  Decides(acc, ms, a, L, vs2, b, K2, vs[b + 1], live, n)
<1>1. TargetSpanned(ms, a, L, vs, b + 1, K, v, FALSE, n)
        => TargetSpanned(ms, a, L, vs2, b, K2, vs[b + 1], live, n)
  <2> SUFFICES ASSUME TargetSpanned(ms, a, L, vs, b + 1, K, v, FALSE, n)
               PROVE  TargetSpanned(ms, a, L, vs2, b, K2, vs[b + 1], live, n)
    OBVIOUS
  <2> QED
    BY GateSpans
<1>2. TargetMissed(ms, a, L, vs, b + 1, K, v, FALSE, n)
        => TargetMissed(ms, a, L, vs2, b, K2, vs[b + 1], live, n)
  BY GateMisses
<1> QED
  BY <1>1, <1>2 DEF Decides

LEMMA PushDecides ==
  ASSUME NEW a, NEW b, NEW n, NEW ms, NEW vs, NEW L, NEW K, NEW v, NEW t, NEW k, NEW pt,
         NEW us, NEW A, NEW ts, NEW J, PushStep(a, b, n, ms, vs, K, v, t, k, pt, us, A, ts, J),
         NEW live \in BOOLEAN, Enough(live, A, t), Short(live, A, t),
         NEW acc, Decides(acc, ms, a, L, vs, b, K, v, live, n)
  PROVE  Decides(acc, ms, a, L, ts, b + k, J, v, FALSE, n + (t - 1))
<1>1. TargetSpanned(ms, a, L, vs, b, K, v, live, n)
        => TargetSpanned(ms, a, L, ts, b + k, J, v, FALSE, n + (t - 1))
  <2> SUFFICES ASSUME TargetSpanned(ms, a, L, vs, b, K, v, live, n)
               PROVE  TargetSpanned(ms, a, L, ts, b + k, J, v, FALSE, n + (t - 1))
    OBVIOUS
  <2> QED
    BY PushSpans
<1>2. TargetMissed(ms, a, L, vs, b, K, v, live, n)
        => TargetMissed(ms, a, L, ts, b + k, J, v, FALSE, n + (t - 1))
  <2> SUFFICES ASSUME TargetMissed(ms, a, L, vs, b, K, v, live, n)
               PROVE  TargetMissed(ms, a, L, ts, b + k, J, v, FALSE, n + (t - 1))
    OBVIOUS
  <2> QED
    BY PushMisses
<1> QED
  BY <1>1, <1>2 DEF Decides

\* Reshape leaves the entries as they are.
LEMMA AlikeDecides ==
  ASSUME NEW a \in Nat, NEW n \in Nat, NEW ms, NEW os, NEW L, NEW vs, NEW K, NEW v,
         Vectors(ms, a, n), Vectors(os, a, n),
         \A i \in 1..a : \A c \in 1..n : Entry(ms[i], c) = Entry(os[i], c),
         NEW acc, Decides(acc, ms, a, L, vs, 0, K, v, FALSE, n)
  PROVE  Decides(acc, os, a, L, vs, 0, K, v, FALSE, n)
<1>1. TargetSpanned(ms, a, L, vs, 0, K, v, FALSE, n) => TargetSpanned(os, a, L, vs, 0, K, v, FALSE, n)
  BY SpansAlike
<1>2. TargetMissed(ms, a, L, vs, 0, K, v, FALSE, n) => TargetMissed(os, a, L, vs, 0, K, v, FALSE, n)
  BY MissesAlike
<1> QED
  BY <1>1, <1>2 DEF Decides

LEMMA FirstDecides ==
  ASSUME NEW ms, NEW L, NEW vs, vs[1] = << 1 >>, NEW K, NEW acc, acc <=> 1 \in K, NEW v
  PROVE  Decides(acc, ms, 0, L, vs, 1, K, v, FALSE, 1)
<1>1. CASE acc
  BY <1>1, FirstSpans DEF Decides
<1>2. CASE ~ acc
  BY <1>2, FirstMisses DEF Decides
<1> QED
  BY <1>1, <1>2

\* At the end the matrix spans the target exactly if the policy admits the set.
SpannedAs(acc, ms, a, L, n) == Spanned(ms, a, L, n) <=> acc

LEMMA LastDecides ==
  ASSUME NEW ms, NEW a \in Nat, NEW n \in Nat \ {0}, Wide(ms, a, n), NEW L \in SUBSET (1..a),
         NEW vs, NEW K, NEW v, NEW acc, Decides(acc, ms, a, L, vs, 0, K, v, FALSE, n)
  PROVE  SpannedAs(acc, ms, a, L, n)
<1>0. n \in Nat
  OBVIOUS
<1>1. CASE acc
  <2>1. TargetSpanned(ms, a, L, vs, 0, K, v, FALSE, n)
    BY <1>1 DEF Decides
  <2>2. Spanned(ms, a, L, n)
    BY <1>0, <2>1, SpannedIf
  <2> QED
    BY <1>1, <2>2 DEF SpannedAs
<1>2. CASE ~ acc
  <2>1. TargetMissed(ms, a, L, vs, 0, K, v, FALSE, n)
    BY <1>2 DEF Decides
  <2>2. ~ Spanned(ms, a, L, n)
    BY <2>1, NotSpannedIf
  <2> QED
    BY <1>2, <2>2 DEF SpannedAs
<1> QED
  BY <1>1, <1>2

-----------------------------------------------------------------------------
(* What names and gates admit.                                             *)

\* A name admits those who have it.
LEMMA NameAccepts ==
  ASSUME NEW s \in Texts, s[1] # "(", NEW S \in SUBSET Attribute
  PROVE  Accepts(s, S) <=> s[1] \in S
<1>1. Len(s) = 1
  BY NameFacts
<1> QED
  BY <1>1, AcceptsAssumption

\* The text inside a gate and its threshold are all there is.
LEMMA GateUnique ==
  ASSUME NEW g, NEW h, NEW t, NEW e, IsGate(g, t, e), IsGate(h, t, e)
  PROVE  g = h
<1> DEFINE n == Len(g)
<1>1. /\ Len(t) = Len(g) - 4 /\ Len(g) \in Nat /\ Len(g) >= 5 /\ g \in Seq(Token)
      /\ \A k \in 1..Len(t) : t[k] = g[k + 1]
  BY GateInner
<1>2. /\ Len(t) = Len(h) - 4 /\ Len(h) \in Nat /\ Len(h) >= 5 /\ h \in Seq(Token)
      /\ \A k \in 1..Len(t) : t[k] = h[k + 1]
  BY GateInner
<1>3. g[Len(g) - 2] = Comma /\ g[Len(g)] = ")" /\ g[1] = "(" /\ g[Len(g) - 1] = e
  BY GateShape DEF IsGate
<1>4. h[Len(h) - 2] = Comma /\ h[Len(h)] = ")" /\ h[1] = "(" /\ h[Len(h) - 1] = e
  BY GateShape DEF IsGate
<1>5. n = Len(h) /\ n \in Nat /\ Len(t) = n - 4 /\ n >= 5
  BY <1>1, <1>2
<1> HIDE DEF n
<1>6. ASSUME NEW k \in 1..n PROVE g[k] = h[k]
  <2>1. k = 1 \/ k = n \/ k = n - 1 \/ k = n - 2 \/ (k - 1 \in 1..Len(t) /\ (k - 1) + 1 = k)
    BY <1>5
  <2>2. CASE k - 1 \in 1..Len(t) /\ (k - 1) + 1 = k
    <3>1. t[k - 1] = g[(k - 1) + 1] /\ t[k - 1] = h[(k - 1) + 1]
      BY <1>1, <1>2, <2>2
    <3> QED
      BY <2>2, <3>1
  <2>3. CASE k = 1 \/ k = n \/ k = n - 1 \/ k = n - 2
    BY <1>3, <1>4, <1>5, <2>3 DEF n
  <2> QED
    BY <2>1, <2>2, <2>3
<1> QED
  BY <1>1, <1>2, <1>5, <1>6 DEF n

\* A gate admits those whom as many of its parts admit as its threshold says.
AcceptingParts(g, S) == {p \in PartsOf(g) : Accepts(SubSeq(g, p[1], p[2]), S)}

LEMMA GateAccepts ==
  ASSUME NEW g, NEW t, NEW m \in 1..9, IsGate(g, t, Digit[m]), NEW S \in SUBSET Attribute
  PROVE  Accepts(g, S) <=> Cardinality(AcceptingParts(g, S)) >= m
<1>1. g \in Texts /\ g[Len(g) - 1] = Digit[m]
  BY DEF IsGate
<1>2. Len(g) # 1
  BY GateInner
<1>3. m \in DOMAIN Digit
  BY DEF Digit
<1> QED
  BY <1>1, <1>2, <1>3, AcceptsAssumption DEF AcceptingParts

\* The parts that admit the set, counted from the last.
AcceptingLast(vec, S) == {i \in 1..Len(vec) : Accepts(vec[(Len(vec) + 1) - i], S)}

\* There are fewer parts than points, and as many of them admit the set as of the
\* parts of the gate.
LEMMA PartsCount ==
  ASSUME NEW g, NEW t, NEW e, IsGate(g, t, e), NEW vec \in Seq(Seq(Token)),
         Pieces(g, Len(t) + 3, vec), NEW S
  PROVE  /\ Len(vec) < Order
         /\ Cardinality(AcceptingLast(vec, S)) = Cardinality(AcceptingParts(g, S))
<1> DEFINE n == Len(vec)
           A == AcceptingLast(vec, S)
           P == AcceptingParts(g, S)
<1>1. PICK ps : Numbered(ps, g, Len(t) + 3, vec)
  BY DEF Pieces
<1>2. n \in Nat /\ DOMAIN vec = 1..n
  OBVIOUS
<1>3. Begun(g, Len(t) + 3) = PartsOf(g) /\ g \in Texts
  BY PiecesAll DEF IsGate
<1>4. ps \in Bijection(1..n, PartsOf(g)) /\ \A x \in 1..n : vec[x] = SubSeq(g, ps[x][1], ps[x][2])
  BY <1>1, <1>2, <1>3 DEF Numbered
<1> HIDE DEF n
<1>5. IsFiniteSet(1..n) /\ Cardinality(1..n) = n
  <2>1. 1 \in Int /\ n \in Int /\ (IF 1 > n THEN 0 ELSE (n - 1) + 1) = n
    BY <1>2
  <2>2. IsFiniteSet(1..n) /\ Cardinality(1..n) = IF 1 > n THEN 0 ELSE (n - 1) + 1
    BY <2>1, FS_Interval
  <2> QED
    BY <2>1, <2>2
<1>6. Cardinality(PartsOf(g)) = n
  <2>1. ExistsBijection(1..n, PartsOf(g))
    BY <1>4 DEF ExistsBijection
  <2> QED
    BY <1>5, <2>1, FS_Bijection
<1>7. n < Order
  BY <1>3, <1>6, FieldAssumption
<1>8. A = {i \in 1..n : Accepts(vec[(n + 1) - i], S)}
  BY DEF AcceptingLast, n
<1>9. P = {p \in PartsOf(g) : Accepts(SubSeq(g, p[1], p[2]), S)}
  BY DEF AcceptingParts
<1>10. IsFiniteSet(A)
  <2>1. A \subseteq 1..n
    BY <1>8
  <2> QED
    BY <1>5, <2>1, FS_Subset
<1> HIDE DEF A, P
<1> DEFINE f == [i \in A |-> ps[(n + 1) - i]]
<1>11. \A i \in 1..n : (n + 1) - i \in 1..n /\ (n + 1) - ((n + 1) - i) = i
  BY <1>2
<1>12. /\ \A x \in 1..n : ps[x] \in PartsOf(g)
       /\ \A x, y \in 1..n : ps[x] = ps[y] => x = y
       /\ \A p \in PartsOf(g) : \E x \in 1..n : ps[x] = p
  BY <1>4 DEF Bijection, Injection, Surjection, IsInjective
<1>13. ASSUME NEW i \in A PROVE f[i] \in P
  <2>1. i \in 1..n /\ Accepts(vec[(n + 1) - i], S) /\ (n + 1) - i \in 1..n
    BY <1>8, <1>11
  <2>2. vec[(n + 1) - i] = SubSeq(g, ps[(n + 1) - i][1], ps[(n + 1) - i][2])
    BY <1>4, <2>1
  <2>3. ps[(n + 1) - i] \in PartsOf(g)
    BY <1>12, <2>1
  <2>4. Accepts(SubSeq(g, ps[(n + 1) - i][1], ps[(n + 1) - i][2]), S)
    BY <2>1, <2>2
  <2> QED
    BY <1>9, <2>3, <2>4
<1>14. ASSUME NEW i \in A, NEW j \in A, f[i] = f[j] PROVE i = j
  <2>1. i \in 1..n /\ j \in 1..n
    BY <1>8
  <2>2. (n + 1) - i = (n + 1) - j
    BY <1>11, <1>12, <1>14, <2>1
  <2> QED
    BY <1>2, <2>1, <2>2
<1>15. ASSUME NEW p \in P PROVE \E i \in A : f[i] = p
  <2>1. p \in PartsOf(g) /\ Accepts(SubSeq(g, p[1], p[2]), S)
    BY <1>9
  <2>2. PICK x \in 1..n : ps[x] = p
    BY <1>12, <2>1
  <2> DEFINE i == (n + 1) - x
  <2>3. i \in 1..n /\ (n + 1) - i = x
    BY <1>11
  <2> HIDE DEF i
  <2>4. vec[x] = SubSeq(g, p[1], p[2])
    BY <1>4, <2>2
  <2>5. i \in A
    BY <1>8, <2>1, <2>3, <2>4
  <2>6. f[i] = p
    BY <2>2, <2>3, <2>5
  <2> QED
    BY <2>5, <2>6
<1>16. ExistsBijection(A, P)
  <2>1. f \in [A -> P]
    BY <1>13
  <2> HIDE DEF f
  <2>2. f \in Bijection(A, P)
    BY <1>14, <1>15, <2>1 DEF Bijection, Injection, Surjection, IsInjective
  <2> QED
    BY <2>2 DEF ExistsBijection
<1>17. Cardinality(P) = Cardinality(A)
  BY <1>10, <1>16, FS_Bijection
<1> QED
  BY <1>7, <1>17 DEF A, P, n

-----------------------------------------------------------------------------
(* The matrix means the policy.                                            *)

IntVectors ==
  /\ \A r \in DOMAIN M : M[r] \in Seq(Int)
  /\ \A k \in DOMAIN stk : stk[k].vec \in Seq(Int)
  /\ pc = "split" => top.vec \in Seq(Int)

\* The vectors on the stack, and which of their texts admit a set.
Vecs == [k \in DOMAIN stk |-> stk[k].vec]
Admitted(S) == {k \in DOMAIN stk : Accepts(stk[k].text, S)}

\* The gate that is being split admits a set.
Live(S) == pc = "split" /\ \E g : IsGate(g, text, Digit[d]) /\ Accepts(g, S)

\* The rows of a set's names and the vectors of the texts that admit it combine to
\* (1, 0, ..., 0) if the policy admits the set, and something separates them from it
\* if not.
Meaning(S) ==
  Decides(Accepts(policy, S), M, Len(M), Rows(S), Vecs, Len(stk), Admitted(S), top.vec, Live(S),
          counter)

Meanings == pc # "abort" => \A S \in SUBSET Attribute : Meaning(S)
Emptied == pc = "done" => stk = <<>>
MInv == IntVectors /\ Emptied /\ Meanings

LEMMA LiveIs ==
  ASSUME NEW g, IsGate(g, text, Digit[d]), pc = "split", NEW S
  PROVE  (Live(S) <=> Accepts(g, S)) /\ Live(S) \in BOOLEAN
<1>1. \A h : IsGate(h, text, Digit[d]) => h = g
  BY GateUnique
<1> QED
  BY <1>1 DEF Live

LEMMA NotLive ==
  ASSUME NEW S, pc # "split"
  PROVE  Live(S) = FALSE
BY DEF Live

\* The domains and lengths of the variables.
LEMMA Shapes ==
  ASSUME TypeOK, Rectangular, IntVectors
  PROVE  /\ Len(stk) \in Nat /\ DOMAIN stk = 1..Len(stk) /\ IsSequence(stk)
         /\ Len(M) \in Nat /\ DOMAIN M = 1..Len(M) /\ IsSequence(M)
         /\ DOMAIN rho = 1..Len(M) /\ Len(rho) = Len(M) /\ IsSequence(rho)
         /\ counter \in Nat \ {0} /\ counter \in Nat
         /\ Vectors(M, Len(M), counter) /\ Vectors(Vecs, Len(stk), counter)
         /\ \A k \in 1..Len(stk) : Vecs[k] = stk[k].vec
<1>1. IsSequence(stk) /\ IsSequence(M) /\ rho \in Seq(Seq(Token)) /\ counter \in Nat \ {0}
  BY DEF TypeOK
<1>2. Len(stk) \in Nat /\ DOMAIN stk = 1..Len(stk) /\ Len(M) \in Nat /\ DOMAIN M = 1..Len(M)
  BY <1>1 DEF IsSequence
<1> DEFINE T == Seq(Token)
<1>3. rho \in Seq(T)
  BY <1>1
<1> HIDE DEF T
<1>4. DOMAIN rho = 1..Len(rho) /\ IsSequence(rho)
  BY <1>3, SeqIsSequence
<1>5. Len(rho) = Len(M)
  BY DEF Rectangular
<1>6. Vectors(M, Len(M), counter)
  BY <1>2 DEF Vectors, IntVectors, Rectangular
<1>7. \A k \in 1..Len(stk) : Vecs[k] = stk[k].vec
  BY <1>2 DEF Vecs
<1>8. Vectors(Vecs, Len(stk), counter)
  BY <1>2, <1>7 DEF Vectors, IntVectors, Rectangular
<1> QED
  BY <1>1, <1>2, <1>4, <1>5, <1>6, <1>7, <1>8

\* The inductive invariant holds at first, ...
LEMMA InitMInv == Init => MInv
<1> SUFFICES ASSUME Init PROVE MInv
  OBVIOUS
<1>1. /\ M = <<>> /\ rho = <<>> /\ stk = <<Pair(<<1>>, policy)>> /\ counter = 1 /\ pc = "loop"
      /\ policy \in Policies
  BY DEF Init
<1>2. /\ DOMAIN stk = {1} /\ stk[1].vec = <<1>> /\ stk[1].text = policy /\ Len(stk) = 1
      /\ Len(M) = 0 /\ DOMAIN M = {}
  BY <1>1 DEF Pair
<1>3. <<1>> \in Seq(Int)
  OBVIOUS
<1>4. IntVectors
  BY <1>1, <1>2, <1>3 DEF IntVectors
<1>5. ASSUME NEW S \in SUBSET Attribute PROVE Meaning(S)
  <2>1. Live(S) = FALSE
    BY <1>1, NotLive
  <2>2. Vecs[1] = <<1>>
    BY <1>2 DEF Vecs
  <2>3. Accepts(policy, S) <=> 1 \in Admitted(S)
    BY <1>2 DEF Admitted
  <2>4. Decides(Accepts(policy, S), M, 0, Rows(S), Vecs, 1, Admitted(S), top.vec, FALSE, 1)
    BY <2>2, <2>3, FirstDecides
  <2> QED
    BY <1>1, <1>2, <2>1, <2>4 DEF Meaning
<1> QED
  BY <1>1, <1>4, <1>5 DEF MInv, Emptied, Meanings

\* What Leaf and Gate take from the stack.
LEMMA Popped ==
  ASSUME TypeOK, Rectangular, IntVectors, SplitsTexts, stk # <<>>, stk' = Front(stk)
  PROVE  \E b \in Nat :
           /\ Len(stk) = b + 1 /\ Len(stk') = b /\ DOMAIN stk' = 1..b
           /\ \A k \in 1..b : stk'[k] = stk[k] /\ k \in 1..(b + 1)
           /\ Last(stk) = stk[b + 1] /\ b + 1 \in 1..(b + 1)
           /\ Last(stk).text \in Texts /\ Last(stk).vec \in Seq(Int)
<1> DEFINE b == Len(stk) - 1
<1>1. IsSequence(stk) /\ Len(stk) \in Nat /\ DOMAIN stk = 1..Len(stk)
  BY Shapes
<1>2. /\ Len(Front(stk)) = Len(stk) - 1
      /\ \A i \in 1..(Len(stk) - 1) : Front(stk)[i] = stk[i]
      /\ Len(stk) \in DOMAIN stk /\ Last(stk) = stk[Len(stk)]
      /\ DOMAIN Front(stk) = 1..(Len(stk) - 1)
  BY <1>1, FrontLast
<1>3. b \in Nat /\ Len(stk) = b + 1 /\ b + 1 \in 1..(b + 1) /\ \A k \in 1..b : k \in 1..(b + 1)
  BY <1>1, <1>2
<1>4. Last(stk).text \in Texts /\ Last(stk).vec \in Seq(Int)
  BY <1>2 DEF SplitsTexts, IntVectors
<1>5. Len(stk') = b /\ DOMAIN stk' = 1..b /\ (\A k \in 1..b : stk'[k] = stk[k]) /\ Last(stk) = stk[b + 1]
  BY <1>2, <1>3
<1> QED
  BY <1>3, <1>4, <1>5

\* ... and each action preserves it.
LEMMA LeafMInv == IInv /\ SplitsTexts /\ MInv /\ Leaf => MInv'
<1> SUFFICES ASSUME IInv, SplitsTexts, MInv, Leaf PROVE MInv'
  OBVIOUS
<1>1. TypeOK /\ Rectangular /\ IntVectors
  BY DEF IInv, MInv
<1>2. /\ pc = "loop" /\ pc' = "loop" /\ stk # <<>> /\ stk' = Front(stk) /\ Last(stk).text[1] # "("
      /\ M' = Append(M, Last(stk).vec) /\ rho' = Append(rho, Last(stk).text)
      /\ counter' = counter /\ top' = top /\ policy' = policy
  BY DEF Leaf
<1>3. PICK b \in Nat :
        /\ Len(stk) = b + 1 /\ Len(stk') = b /\ DOMAIN stk' = 1..b
        /\ \A k \in 1..b : stk'[k] = stk[k] /\ k \in 1..(b + 1)
        /\ Last(stk) = stk[b + 1] /\ b + 1 \in 1..(b + 1)
        /\ Last(stk).text \in Texts /\ Last(stk).vec \in Seq(Int)
  BY <1>1, <1>2, Popped
<1> DEFINE a == Len(M)
           p == Last(stk)
<1>4. /\ a \in Nat /\ DOMAIN M = 1..a /\ IsSequence(M) /\ DOMAIN rho = 1..a /\ Len(rho) = a
      /\ IsSequence(rho) /\ counter \in Nat /\ DOMAIN stk = 1..(b + 1)
      /\ Vectors(M, a, counter) /\ Vectors(Vecs, b + 1, counter)
      /\ \A k \in 1..(b + 1) : Vecs[k] = stk[k].vec
  BY <1>1, <1>3, Shapes
<1>5. /\ Len(M') = a + 1 /\ DOMAIN M' = 1..(a + 1)
      /\ \A r \in 1..(a + 1) : M'[r] = IF r <= a THEN M[r] ELSE p.vec
  BY <1>2, <1>4, AppendSequence
<1>6. /\ DOMAIN rho' = 1..(a + 1)
      /\ \A r \in 1..(a + 1) : rho'[r] = IF r <= a THEN rho[r] ELSE p.text
  BY <1>2, <1>4, AppendSequence
<1> HIDE DEF a, p
<1>7. (\A r \in 1..a : r \in 1..(a + 1) /\ r <= a) /\ a + 1 \in 1..(a + 1) /\ ~ (a + 1 <= a)
      /\ \A r \in 1..(a + 1) : r \in 1..a \/ r = a + 1
  BY <1>4
<1>8. p.text \in Texts /\ p.text[1] # "(" /\ p.vec \in Seq(Int) /\ p = stk[b + 1]
  BY <1>2, <1>3 DEF p
<1>9. IntVectors'
  <2>1. ASSUME NEW r \in 1..(a + 1) PROVE M'[r] \in Seq(Int)
    <3>1. CASE r \in 1..a
      BY <1>1, <1>4, <1>5, <1>7, <3>1 DEF IntVectors
    <3>2. CASE r = a + 1
      BY <1>5, <1>7, <1>8, <3>2
    <3> QED
      BY <1>7, <3>1, <3>2
  <2>2. \A k \in 1..b : stk'[k].vec \in Seq(Int)
    BY <1>1, <1>3, <1>4 DEF IntVectors
  <2> QED
    BY <1>2, <1>3, <1>5, <2>1, <2>2 DEF IntVectors
<1>10. ASSUME NEW S \in SUBSET Attribute PROVE Meaning(S)'
  <2> DEFINE acc == Accepts(policy, S)
             L == Rows(S)
             K == Admitted(S)
             L2 == {r \in DOMAIN rho' : rho'[r][1] \in S}
             K2 == {k \in DOMAIN stk' : Accepts(stk'[k].text, S)}
             vs2 == [k \in DOMAIN stk' |-> stk'[k].vec]
  <2>1. Live(S) = FALSE /\ Live(S)' = FALSE
    BY <1>2 DEF Live
  <2>2. Decides(acc, M, a, L, Vecs, b + 1, K, top.vec, FALSE, counter)
    BY <1>2, <1>3, <2>1 DEF MInv, Meanings, Meaning, a
  <2>3. \A k \in 1..a : k \in L2 <=> k \in L
    BY <1>4, <1>6, <1>7 DEF Rows
  <2>4. a + 1 \in L2 <=> b + 1 \in K
    <3>1. Accepts(p.text, S) <=> p.text[1] \in S
      BY <1>8, NameAccepts
    <3>2. a + 1 \in L2 <=> p.text[1] \in S
      BY <1>6, <1>7
    <3>3. b + 1 \in K <=> Accepts(p.text, S)
      BY <1>3, <1>4, <1>8 DEF Admitted
    <3> QED
      BY <3>1, <3>2, <3>3
  <2>5. \A k \in 1..b : vs2[k] = Vecs[k] /\ (k \in K2 <=> k \in K)
    BY <1>3, <1>4 DEF Admitted
  <2>6. M'[a + 1] = Vecs[b + 1] /\ \A k \in 1..a : M'[k] = M[k]
    BY <1>3, <1>4, <1>5, <1>7, <1>8
  <2> HIDE DEF L, K, L2, K2, vs2, acc
  <2>7. Moved(M, a, L, Vecs, b, K, M', L2, vs2, K2)
    BY <2>3, <2>4, <2>5, <2>6 DEF Moved
  <2>8. Decides(acc, M', a + 1, L2, vs2, b, K2, top.vec, FALSE, counter)
    BY <1>3, <1>4, <2>2, <2>7, LeafDecides
  <2>9. acc = Accepts(policy', S) /\ L2 = Rows(S)' /\ vs2 = Vecs' /\ K2 = Admitted(S)'
    BY <1>2 DEF acc, L2, vs2, K2, Rows, Vecs, Admitted
  <2>10. Decides(Accepts(policy', S), M', Len(M'), Rows(S)', Vecs', Len(stk'), Admitted(S)', top'.vec,
                 Live(S)', counter')
    BY <1>2, <1>3, <1>5, <2>1, <2>8, <2>9
  <2> QED
    BY <2>10 DEF Meaning
<1> QED
  BY <1>2, <1>9, <1>10 DEF MInv, Emptied, Meanings

LEMMA GateMInv == IInv /\ SplitsTexts /\ MInv /\ Gate => MInv'
<1> SUFFICES ASSUME IInv, SplitsTexts, MInv, Gate PROVE MInv'
  OBVIOUS
<1>1. TypeOK /\ Rectangular /\ IntVectors
  BY DEF IInv, MInv
<1> DEFINE p == Last(stk)
<1>2. /\ pc = "loop" /\ pc' = "split" /\ stk # <<>> /\ stk' = Front(stk) /\ p.text[1] = "("
      /\ M' = M /\ rho' = rho /\ counter' = counter /\ policy' = policy
      /\ top'.vec = p.vec /\ top'.text = SubSeq(p.text, 2, Len(p.text) - 3)
      /\ Digit[d'] = p.text[Len(p.text) - 1]
  BY DEF Gate, Pair
<1>3. PICK b \in Nat :
        /\ Len(stk) = b + 1 /\ Len(stk') = b /\ DOMAIN stk' = 1..b
        /\ \A k \in 1..b : stk'[k] = stk[k] /\ k \in 1..(b + 1)
        /\ Last(stk) = stk[b + 1] /\ b + 1 \in 1..(b + 1)
        /\ Last(stk).text \in Texts /\ Last(stk).vec \in Seq(Int)
  BY <1>1, <1>2, Popped
<1> DEFINE a == Len(M)
<1>4. /\ a \in Nat /\ counter \in Nat /\ DOMAIN stk = 1..(b + 1)
      /\ Vectors(M, a, counter) /\ Vectors(Vecs, b + 1, counter)
      /\ \A k \in 1..(b + 1) : Vecs[k] = stk[k].vec
  BY <1>1, <1>3, Shapes
<1>5. p.text \in Texts /\ p.vec \in Seq(Int) /\ p = stk[b + 1]
  BY <1>3
<1> HIDE DEF a, p
<1>6. IsGate(p.text, text', Digit[d'])
  BY <1>2, <1>5, GateSplits DEF text
<1>7. IntVectors'
  <2>1. \A k \in 1..b : stk'[k].vec \in Seq(Int)
    BY <1>1, <1>3, <1>4 DEF IntVectors
  <2> QED
    BY <1>1, <1>2, <1>3, <1>5, <2>1 DEF IntVectors
<1>8. ASSUME NEW S \in SUBSET Attribute PROVE Meaning(S)'
  <2> DEFINE acc == Accepts(policy, S)
             L == Rows(S)
             K == Admitted(S)
             K2 == {k \in DOMAIN stk' : Accepts(stk'[k].text, S)}
             vs2 == [k \in DOMAIN stk' |-> stk'[k].vec]
             live == Live(S)'
  <2>1. Live(S) = FALSE
    BY <1>2 DEF Live
  <2>2. Decides(acc, M, a, L, Vecs, b + 1, K, top.vec, FALSE, counter)
    BY <1>2, <1>3, <2>1 DEF MInv, Meanings, Meaning, a
  <2>3. live \in BOOLEAN /\ (live <=> Accepts(p.text, S))
    <3>1. \A h : IsGate(h, text', Digit[d']) => h = p.text
      BY <1>6, GateUnique
    <3> QED
      BY <1>2, <1>6, <3>1 DEF Live
  <2>4. b + 1 \in K <=> Accepts(p.text, S)
    BY <1>3, <1>4, <1>5 DEF Admitted
  <2>5. \A k \in 1..b : vs2[k] = Vecs[k] /\ (k \in K2 <=> k \in K)
    BY <1>3, <1>4 DEF Admitted
  <2>6. Vecs[b + 1] = p.vec
    BY <1>3, <1>4, <1>5
  <2>7. L = Rows(S)' /\ vs2 = Vecs' /\ K2 = Admitted(S)' /\ acc = Accepts(policy', S)
    BY <1>2 DEF Rows, Vecs, Admitted
  <2> HIDE DEF L, K, K2, vs2, acc, live
  <2>8. Opens(Vecs, b, K, vs2, K2, live)
    BY <2>3, <2>4, <2>5 DEF Opens
  <2>9. Decides(acc, M, a, L, vs2, b, K2, Vecs[b + 1], live, counter)
    <3>1. a \in Nat /\ b \in Nat /\ counter \in Nat /\ live \in BOOLEAN
          /\ Vectors(M, a, counter) /\ Vectors(Vecs, b + 1, counter)
      BY <1>3, <1>4, <2>3
    <3> QED
      BY <2>2, <2>8, <3>1, GateDecides
  <2>10. Decides(Accepts(policy', S), M', Len(M'), Rows(S)', Vecs', Len(stk'), Admitted(S)', top'.vec,
                 Live(S)', counter')
    BY <1>2, <1>3, <2>6, <2>7, <2>9 DEF a, live
  <2> QED
    BY <2>10 DEF Meaning
<1> QED
  BY <1>2, <1>7, <1>8 DEF MInv, Emptied, Meanings

\* Where nothing changes that the meaning depends on.
LEMMA SameMInv ==
  ASSUME MInv, M' = M, rho' = rho, stk' = stk, counter' = counter, policy' = policy,
         top' = top, d' = d, pc' = pc \/ pc' = "abort"
  PROVE  MInv'
<1>1. IntVectors'
  BY DEF MInv, IntVectors
<1>2. Emptied'
  BY DEF MInv, Emptied
<1>3. CASE pc' = "abort"
  BY <1>1, <1>2, <1>3 DEF MInv, Meanings
<1>4. CASE pc' = pc
  <2>1. ASSUME NEW S PROVE Meaning(S)' = Meaning(S)
    <3>1. Rows(S)' = Rows(S) /\ Vecs' = Vecs /\ Admitted(S)' = Admitted(S)
      BY DEF Rows, Vecs, Admitted
    <3>2. Live(S)' = Live(S)
      BY <1>4 DEF Live, text
    <3> QED
      BY <3>1, <3>2 DEF Meaning
  <2>2. Meanings'
    BY <1>4, <2>1 DEF MInv, Meanings
  <2> QED
    BY <1>1, <1>2, <2>2 DEF MInv
<1> QED
  BY <1>3, <1>4

\* reshape adds zeros.
LEMMA PaddedFacts ==
  ASSUME NEW n \in Nat, NEW v \in Seq(Int), Len(v) <= n
  PROVE  /\ Padded(v, n) \in Seq(Int) /\ Len(Padded(v, n)) = n
         /\ \A c \in 1..n : Entry(Padded(v, n), c) = Entry(v, c)
<1> DEFINE p == Padded(v, n)
<1>1. Len(v) \in Nat
  OBVIOUS
<1>2. p = [c \in 1..n |-> Entry(v, c)]
  BY <1>1 DEF Padded, Entry
<1>3. \A c \in 1..n : Entry(v, c) \in Int
  <2> SUFFICES ASSUME NEW c \in 1..n PROVE Entry(v, c) \in Int
    OBVIOUS
  <2>1. c \in Nat \ {0}
    OBVIOUS
  <2> QED
    BY <2>1, EntryType
<1> HIDE DEF p
<1>4. p \in Seq(Int) /\ Len(p) = n /\ \A c \in 1..n : p[c] = Entry(v, c)
  BY <1>2, <1>3
<1>5. ASSUME NEW c \in 1..n PROVE Entry(p, c) = Entry(v, c)
  <2>1. c <= Len(p) /\ p[c] = Entry(v, c)
    BY <1>4
  <2>2. Entry(p, c) = p[c]
    BY <2>1 DEF Entry
  <2> QED
    BY <2>1, <2>2
<1> QED
  BY <1>4, <1>5 DEF p

LEMMA ReshapeMInv == IInv /\ SplitsTexts /\ MInv /\ Reshape => MInv'
<1> SUFFICES ASSUME IInv, MInv, Reshape PROVE MInv'
  OBVIOUS
<1>1. TypeOK /\ Rectangular /\ IntVectors
  BY DEF IInv, MInv
<1> DEFINE a == Len(M)
           os == [r \in DOMAIN M |-> Padded(M[r], counter)]
<1>2. /\ pc = "loop" /\ pc' = "done" /\ stk = <<>> /\ M' = os
      /\ stk' = stk /\ rho' = rho /\ counter' = counter /\ policy' = policy /\ top' = top
  BY DEF Reshape
<1>3. /\ a \in Nat /\ counter \in Nat /\ DOMAIN M = 1..a /\ Vectors(M, a, counter)
  BY <1>1, Shapes
<1>4. ASSUME NEW r \in 1..a
      PROVE  /\ os[r] \in Seq(Int) /\ Len(os[r]) = counter /\ Len(os[r]) <= counter
             /\ \A c \in 1..counter : Entry(os[r], c) = Entry(M[r], c)
  <2>1. M[r] \in Seq(Int) /\ Len(M[r]) <= counter
    BY <1>3 DEF Vectors
  <2>2. os[r] = Padded(M[r], counter)
    BY <1>3
  <2> HIDE DEF os
  <2>3. /\ os[r] \in Seq(Int) /\ Len(os[r]) = counter
        /\ \A c \in 1..counter : Entry(os[r], c) = Entry(M[r], c)
    BY <1>3, <2>1, <2>2, PaddedFacts
  <2> QED
    BY <1>3, <2>3
<1>5. DOMAIN os = 1..a /\ Len(os) = a
  BY <1>3
<1> HIDE DEF os
<1>6. Vectors(os, a, counter)
  BY <1>4 DEF Vectors
<1>7. IntVectors'
  BY <1>1, <1>2, <1>4, <1>5 DEF IntVectors
<1>8. ASSUME NEW S \in SUBSET Attribute PROVE Meaning(S)'
  <2> DEFINE acc == Accepts(policy, S)
             L == Rows(S)
             K == Admitted(S)
  <2>1. Live(S) = FALSE /\ Live(S)' = FALSE
    BY <1>2 DEF Live
  <2>2. Len(stk) = 0
    BY <1>2
  <2>3. Decides(acc, M, a, L, Vecs, 0, K, top.vec, FALSE, counter)
    BY <1>2, <2>1, <2>2 DEF MInv, Meanings, Meaning
  <2>4. L = Rows(S)' /\ Vecs = Vecs' /\ K = Admitted(S)' /\ acc = Accepts(policy', S)
    BY <1>2 DEF Rows, Vecs, Admitted
  <2> HIDE DEF L, K, acc
  <2>5. \A i \in 1..a : \A c \in 1..counter : Entry(M[i], c) = Entry(os[i], c)
    BY <1>4
  <2> HIDE DEF a
  <2>6. Decides(acc, os, a, L, Vecs, 0, K, top.vec, FALSE, counter)
    BY <1>3, <1>6, <2>3, <2>5, AlikeDecides
  <2>7. Decides(Accepts(policy', S), M', Len(M'), Rows(S)', Vecs', Len(stk'), Admitted(S)', top'.vec,
                 Live(S)', counter')
    BY <1>2, <1>5, <2>1, <2>2, <2>4, <2>6 DEF a
  <2> QED
    BY <2>7 DEF Meaning
<1> QED
  BY <1>2, <1>7, <1>8 DEF MInv, Emptied, Meanings

\* The stack after PushParts: what was there, then the parts, the last part first.
LEMMA PushedStack ==
  ASSUME TypeOK, Rectangular, IntVectors, PushParts
  PROVE  LET n == Len(Parts) IN
         /\ n \in Nat /\ Parts \in Seq(Seq(Token)) /\ DOMAIN stk' = 1..(Len(stk) + n)
         /\ Len(stk') = Len(stk) + n
         /\ \A i \in 1..Len(stk) : stk'[i] = stk[i]
         /\ \A i \in 1..n : /\ stk'[Len(stk) + i].text = Parts[(n + 1) - i]
                            /\ stk'[Len(stk) + i].vec = PartVector(top.vec, counter, (n + 1) - i, d)
<1> DEFINE vec == Padded(top.vec, counter)
           n == Len(Parts)
           new == [x \in DOMAIN Parts |-> Pair(WithPowers(vec, x, d), Parts[x])]
           rev == Reverse(new)
           b == Len(stk)
<1>1. stk' = stk \o rev
  BY DEF PushParts
<1>2. Parts \in Seq(Seq(Token)) /\ DOMAIN Parts = 1..n /\ n \in Nat
  BY DEF TypeOK, Parts
<1>3. \A x \in 1..n : new[x].text = Parts[x] /\ new[x].vec = PartVector(top.vec, counter, x, d)
  BY <1>2 DEF Pair, PartVector
<1>4. new = [x \in 1..n |-> new[x]]
  BY <1>2
<1>5. b \in Nat /\ IsSequence(stk)
  BY Shapes
<1> HIDE DEF new, n, b
<1>6. IsSequence(new) /\ Len(new) = n
  BY <1>2, <1>4, FunctionIsSequence
<1>7. IsSequence(rev) /\ Len(rev) = n
  BY <1>6, ReverseSequence
<1>8. \A i \in 1..n : rev[i] = new[(n + 1) - i]
  <2> SUFFICES ASSUME NEW i \in 1..n PROVE rev[i] = new[(n + 1) - i]
    OBVIOUS
  <2>1. rev[i] = new[(n - i) + 1]
    BY <1>6 DEF Reverse
  <2>2. (n - i) + 1 = (n + 1) - i
    BY <1>2
  <2> QED
    BY <2>1, <2>2
<1> HIDE DEF rev
<1>9. /\ DOMAIN stk' = 1..(b + n) /\ IsSequence(stk')
      /\ \A i \in 1..(b + n) : stk'[i] = IF i <= b THEN stk[i] ELSE rev[i - b]
  BY <1>1, <1>5, <1>7, ConcatSequence DEF b
<1>10. Len(stk') = b + n
  BY <1>2, <1>5, <1>9 DEF IsSequence
<1>11. \A i \in 1..b : stk'[i] = stk[i]
  BY <1>2, <1>5, <1>9
<1>12. ASSUME NEW i \in 1..n
       PROVE  /\ stk'[b + i].text = Parts[(n + 1) - i]
              /\ stk'[b + i].vec = PartVector(top.vec, counter, (n + 1) - i, d)
  <2>1. b + i \in 1..(b + n) /\ ~ (b + i <= b) /\ (b + i) - b = i /\ (n + 1) - i \in 1..n
    BY <1>2, <1>5
  <2>2. stk'[b + i] = rev[i]
    BY <1>9, <2>1
  <2>3. stk'[b + i] = new[(n + 1) - i]
    BY <1>8, <2>2
  <2> QED
    BY <1>3, <2>1, <2>3
<1> QED
  BY <1>2, <1>9, <1>10, <1>11, <1>12 DEF n, b

\* The points of the parts.
Countdown(n) == [i \in 1..n |-> (n + 1) - i]

\* They are different elements of Zr other than zero.
LEMMA CountdownPoints ==
  ASSUME NEW n \in Nat, n < Order
  PROVE  Points(Countdown(n), n) /\ \A i \in 1..n : Countdown(n)[i] = (n + 1) - i
<1>1. \A i \in 1..n : (n + 1) - i \in 1..(Order - 1)
  BY OrderAssumption
<1>2. \A i, j \in 1..n : (n + 1) - i = (n + 1) - j => i = j
  OBVIOUS
<1> QED
  BY <1>1, <1>2 DEF Points, Countdown

LEMMA PushPartsMInv == IInv /\ SplitsTexts /\ MInv /\ PushParts => MInv'
<1> SUFFICES ASSUME IInv, SplitsTexts, MInv, PushParts PROVE MInv'
  OBVIOUS
<1>1. TypeOK /\ Rectangular /\ IntVectors /\ Threshold
  BY DEF IInv, MInv
<1> DEFINE n == Len(Parts)
           a == Len(M)
           b == Len(stk)
           v == top.vec
           t == d
           w == counter
           ts == [k \in DOMAIN stk' |-> stk'[k].vec]
           us == [i \in 1..n |-> PartVector(v, w, (n + 1) - i, t)]
           pt == Countdown(n)
<1>2. /\ pc = "split" /\ pc' = "loop" /\ ~ (at <= Len(text)) /\ M' = M /\ rho' = rho
      /\ policy' = policy /\ top' = top /\ counter' = counter + d - 1
  <2>1. at \in Int /\ Len(text) \in Int
    BY <1>1 DEF TypeOK, IsPair, text
  <2> QED
    BY <2>1 DEF PushParts
<1>3. PICK g : SplitAt(g, text, Digit[d], at, ct, substr, substrvec)
  BY <1>2 DEF SplitsTexts
<1>4. IsGate(g, text, Digit[d]) /\ Pieces(g, Len(text) + 3, Parts)
  BY <1>2, <1>3, PartsIs, SplitEnd DEF SplitAt
<1>5. /\ n \in Nat /\ Parts \in Seq(Seq(Token)) /\ DOMAIN stk' = 1..(b + n) /\ Len(stk') = b + n
      /\ \A i \in 1..b : stk'[i] = stk[i]
      /\ \A i \in 1..n : /\ stk'[b + i].text = Parts[(n + 1) - i]
                         /\ stk'[b + i].vec = PartVector(v, w, (n + 1) - i, t)
  BY <1>1, PushedStack
<1>6. /\ a \in Nat /\ b \in Nat /\ DOMAIN stk = 1..b /\ w \in Nat /\ w \in Nat \ {0}
      /\ Vectors(M, a, w) /\ Vectors(Vecs, b, w)
      /\ \A k \in 1..b : Vecs[k] = stk[k].vec
  BY <1>1, Shapes
<1>7. v \in Seq(Int) /\ Len(v) <= w /\ t \in 1..9
  BY <1>1, <1>2 DEF IntVectors, Rectangular, Threshold
<1>8. n < Order
  BY <1>4, <1>5, PartsCount
<1> HIDE DEF n, a, b, v, t, w
<1>9. Points(pt, n) /\ \A i \in 1..n : pt[i] = (n + 1) - i
  BY <1>5, <1>8, CountdownPoints
<1>10. t \in Nat \ {0} /\ t \in Nat /\ t - 1 \in Nat
  BY <1>7
<1> HIDE DEF pt
<1>11. PartVectors(us, n, pt, v, w, t)
  BY <1>9 DEF PartVectors
<1>12. Vectors(us, n, w + (t - 1)) /\ \A i \in 1..n : us[i] = stk'[b + i].vec
  <2>1. Vectors(us, n, w + (t - 1))
    <3> HIDE DEF us
    <3> QED
      BY <1>5, <1>6, <1>7, <1>9, <1>10, <1>11, PartVectorsFacts
  <2> QED
    BY <1>5, <2>1
<1> HIDE DEF us
<1>13. (\A k \in 1..b : k \in 1..(b + n)) /\ (\A i \in 1..n : b + i \in 1..(b + n))
       /\ \A k \in 1..(b + n) : k \in 1..b \/ (k - b \in 1..n /\ b + (k - b) = k)
  BY <1>5, <1>6
<1>14. (\A k \in 1..b : ts[k] = Vecs[k]) /\ \A i \in 1..n : ts[b + i] = us[i]
  BY <1>5, <1>6, <1>12, <1>13
<1>15. IntVectors'
  <2>1. ASSUME NEW k \in 1..(b + n) PROVE stk'[k].vec \in Seq(Int)
    <3>1. CASE k \in 1..b
      BY <1>1, <1>5, <1>6, <3>1 DEF IntVectors
    <3>2. CASE k - b \in 1..n /\ b + (k - b) = k
      BY <1>12, <3>2 DEF Vectors
    <3> QED
      BY <1>13, <3>1, <3>2
  <2> QED
    BY <1>1, <1>2, <1>5, <2>1 DEF IntVectors
<1>16. ASSUME NEW S \in SUBSET Attribute PROVE Meaning(S)'
  <2> DEFINE acc == Accepts(policy, S)
             L == Rows(S)
             K == Admitted(S)
             J == {k \in DOMAIN stk' : Accepts(stk'[k].text, S)}
             A == AcceptingLast(Parts, S)
             live == Live(S)
  <2>1. Decides(acc, M, a, L, Vecs, b, K, v, live, w)
    BY <1>2 DEF MInv, Meanings, Meaning, a, b, v, w
  <2>2. live \in BOOLEAN /\ (live <=> Cardinality(A) >= t)
    <3>1. live \in BOOLEAN /\ (live <=> Accepts(g, S))
      BY <1>2, <1>4, LiveIs
    <3>2. Accepts(g, S) <=> Cardinality(AcceptingParts(g, S)) >= t
      BY <1>4, <1>7, GateAccepts DEF t
    <3>3. Cardinality(A) = Cardinality(AcceptingParts(g, S))
      BY <1>4, <1>5, PartsCount
    <3> HIDE DEF live, A
    <3> QED
      BY <3>1, <3>2, <3>3
  <2>3. A \in SUBSET (1..n) /\ \A i \in 1..n : i \in A <=> Accepts(Parts[(n + 1) - i], S)
    BY DEF AcceptingLast, n
  <2> HIDE DEF A
  <2>4. \A i \in 1..b : i \in J <=> i \in K
    BY <1>5, <1>6, <1>13 DEF Admitted
  <2>5. \A i \in 1..n : b + i \in J <=> i \in A
    BY <1>5, <1>13, <2>3
  <2>6. L = Rows(S)' /\ ts = Vecs' /\ J = Admitted(S)' /\ acc = Accepts(policy', S)
    BY <1>2 DEF Rows, Vecs, Admitted
  <2> HIDE DEF L, K, J, acc, live, ts
  <2>7. Pushed(ts, J, Vecs, b, K, us, n, A)
    BY <1>14, <2>4, <2>5 DEF Pushed
  <2>8. PushStep(a, b, w, M, Vecs, K, v, t, n, pt, us, A, ts, J)
    BY <1>5, <1>6, <1>7, <1>9, <1>10, <1>11, <2>3, <2>7 DEF PushStep
  <2>9. Enough(live, A, t) /\ Short(live, A, t)
    BY <2>2 DEF Enough, Short
  <2>10. Decides(acc, M, a, L, ts, b + n, J, v, FALSE, w + (t - 1))
    BY <2>1, <2>2, <2>8, <2>9, PushDecides
  <2>11. counter' = w + (t - 1)
    BY <1>2, <1>6, <1>7 DEF w, t
  <2>12. Live(S)' = FALSE
    BY <1>2 DEF Live
  <2>13. Decides(Accepts(policy', S), M', Len(M'), Rows(S)', Vecs', Len(stk'), Admitted(S)', top'.vec,
                 Live(S)', counter')
    BY <1>2, <1>5, <2>6, <2>10, <2>11, <2>12 DEF a, v
  <2> QED
    BY <2>13 DEF Meaning
<1> QED
  BY <1>2, <1>15, <1>16 DEF MInv, Emptied, Meanings

\* The invariant is inductive, given that the stack holds texts.
LEMMA StepMInv == IInv /\ SplitsTexts /\ MInv /\ [Next]_vars => MInv'
<1> SUFFICES ASSUME IInv, SplitsTexts, MInv, [Next]_vars PROVE MInv'
  OBVIOUS
<1>1. CASE Leaf
  BY <1>1, LeafMInv
<1>2. CASE Gate
  BY <1>2, GateMInv
<1>3. CASE EndGroup
  BY <1>3, SameMInv DEF EndGroup, splitRest
<1>4. CASE EndName
  BY <1>4, SameMInv DEF EndName, splitRest
<1>5. CASE Take
  BY <1>5, SameMInv DEF Take, splitRest
<1>6. CASE Abort
  BY <1>6, SameMInv DEF Abort
<1>7. CASE PushParts
  BY <1>7, PushPartsMInv
<1>8. CASE Reshape
  BY <1>8, ReshapeMInv
<1>9. CASE UNCHANGED vars
  BY <1>9, SameMInv DEF vars
<1> QED
  BY <1>1, <1>2, <1>3, <1>4, <1>5, <1>6, <1>7, <1>8, <1>9 DEF Next, Step, Finished

\* The matrix combines the rows of a set of attributes to (1, 0, ..., 0) exactly if
\* the policy admits the set: for every policy of the grammar and every field Zr with
\* a point for each part of a gate.
THEOREM LSSSMatrixMeansPolicy == Spec => []MatrixMeansPolicy
<1>1. IInv /\ MInv => MatrixMeansPolicy
  <2> SUFFICES ASSUME IInv, MInv, pc = "done", NEW S \in SUBSET Attribute
               PROVE  Spans(S) <=> Accepts(policy, S)
    BY DEF MatrixMeansPolicy
  <2>1. TypeOK /\ Rectangular /\ IntVectors /\ stk = <<>>
    BY DEF IInv, MInv, Emptied
  <2> DEFINE a == Len(M)
             L == Rows(S)
  <2>2. /\ a \in Nat /\ DOMAIN M = 1..a /\ DOMAIN rho = 1..a /\ counter \in Nat \ {0}
    BY <2>1, Shapes
  <2>3. Wide(M, a, counter)
    BY <2>1, <2>2 DEF Wide, IntVectors, Rectangular
  <2>4. L \in SUBSET (1..a)
    BY <2>2 DEF Rows
  <2>5. Spans(S) <=> Spanned(M, a, L, counter)
    BY <2>2 DEF Spans, Spanned
  <2>6. Decides(Accepts(policy, S), M, a, L, Vecs, 0, Admitted(S), top.vec, FALSE, counter)
    <3>1. Live(S) = FALSE /\ Len(stk) = 0
      BY <2>1, NotLive
    <3>2. Meaning(S)
      BY DEF MInv, Meanings
    <3> QED
      BY <3>1, <3>2 DEF Meaning
  <2> DEFINE acc == Accepts(policy, S)
  <2>7. SpannedAs(acc, M, a, L, counter)
    <3>1. Decides(acc, M, a, L, Vecs, 0, Admitted(S), top.vec, FALSE, counter)
      BY <2>6
    <3>2. a \in Nat /\ counter \in Nat \ {0}
      BY <2>2
    <3> HIDE DEF a, L, acc
    <3> QED
      BY <2>3, <2>4, <3>1, <3>2, LastDecides
  <2> HIDE DEF a, L, acc
  <2> QED
    BY <2>5, <2>7 DEF SpannedAs, acc
<1>2. Spec => []MInv
  BY InitMInv, StepMInv, SpecIInv, SpecSplitsTexts, PTL DEF Spec
<1> QED
  BY <1>1, <1>2, SpecIInv, PTL
=============================================================================
