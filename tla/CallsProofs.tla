---------------------------- MODULE CallsProofs ----------------------------
(***************************************************************************)
(* The CP-ABE scheme is correct for all policies, groups and random        *)
(* numbers, in every order of calls and of changes to the LSSS objects.    *)
(*                                                                         *)
(* The invariant says of every object which call made it, of what that     *)
(* call drew and, if there was no Setup since, of which parameters: an     *)
(* object is never half of one call and half of another, but for the       *)
(* components of a used key tuple.                                         *)
(***************************************************************************)
EXTENDS Calls, FieldProofs

\* The parameters p of a Setup belong together: e(g, g)^a is e(g, g^a).
Parameters(p) ==
  /\ {p.g, p.gb, p.egga, p.ga} \subseteq Zr
  /\ Same(p.egga, p.g * p.ga)

\* What KeyGen makes of the parameters p and of two numbers.
KeyOf(k, p, r_1, inv_r_2) ==
  /\ k.tk_1 = (Times(p.ga, inv_r_2) + Times(Times(p.gb, r_1), inv_r_2)) % Order
  /\ k.tk_2 = Times(Times(p.g, r_1), inv_r_2)

\* At the n-th call, with the parameters p: a key is what one call of KeyGen
\* made of the numbers it drew and, if there was no Setup since, of p.
Key(k, p, n) ==
  /\ k.made \in 1..n /\ k.setup \in 1..p.made
  /\ k.attributes \in (SUBSET Attribute) \ {{}}
  /\ k.attributes \subseteq DOMAIN k.tk_att
  /\ \A x \in DOMAIN k.tk_att : k.tk_att[x] \in Zr
  /\ k.r_2 = Random(k.made, 2)
  /\ k.tk_1 \in Zr /\ k.tk_2 \in Zr
  /\ k.setup = p.made => KeyOf(k, p, Random(k.made, 1), Invert(Random(k.made, 2)))

\* A vector has an element for each row of the matrix.
Fits(v, policy) == v \in Seq(Zr) /\ Len(v) = Len(policy.M)

\* What Encrypt draws for GT, hashes from it, and shares.
Mask(c) == Random(c.made, 0)
Secret(c) == HashToZr(elementToHash(Mask(c)), c.ek)
SharedRow(policy, made, s) == <<s>> \o [j \in 1..(Len(policy.M[1]) - 1) |-> Random(made, j)]
Shared(c) == SharedRow(c.sealed, c.made, Secret(c))

\* What Encrypt makes of the parameters p.
CipherOf(c, p) ==
  /\ c.c_1 = (Times(p.egga, Secret(c)) + Mask(c)) % Order
  /\ c.c_3 = Times(p.g, Secret(c))
  /\ \A r \in DOMAIN c.sealed.M :
       /\ c.dot_c[r] = Times(p.g, Random(c.made, 10 + r))
       /\ c.ddot_c[r] = (p.gb * c.lambda[r]
                           - Times(H(c.sealed.rho[r]), Random(c.made, 10 + r))) % Order

\* A ciphertext is what one call of Encrypt made of the numbers it drew and, if
\* there was no Setup since, of p.
Sealed(c, p, n) ==
  /\ c.made \in 1..n /\ c.setup \in 1..p.made
  /\ c.ek \in Ek /\ c.sealed \in Policies /\ c.policy \in Lsss
  /\ c.c_1 \in Zr /\ c.c_3 \in Zr
  /\ Fits(c.lambda, c.sealed) /\ Fits(c.dot_c, c.sealed) /\ Fits(c.ddot_c, c.sealed)
  /\ c.lambda = Shares(c.sealed, Shared(c))
  /\ c.c_2 = xorHashes(elementToHash(Mask(c)), c.ek)
  /\ c.setup = p.made => CipherOf(c, p)

\* What Transform makes of a key and a ciphertext, if it read the policy that the
\* ciphertext was sealed under.
Transformed(x, p, n) ==
  /\ Key(x.tk, p, n) /\ Sealed(x.from, p, n)
  /\ x.ct_1 = x.from.c_1 /\ x.ct_2 = x.from.c_2
  /\ x.ct_3 \in Zr
  /\ x.under = x.from.sealed =>
       x.ct_3 =
         (Times(x.from.c_3, x.tk.tk_1)
            - Denominator(x.tk, x.from, x.from.sealed, findVector(x.from.sealed, x.tk.attributes)))
           % Order

ParametersInv == gwabe.made \in 0..now /\ (IsSet(gwabe) => Parameters(gwabe))

KeyInv ==
  /\ DOMAIN key = KeyTuple
  /\ \A t \in KeyTuple : IsSet(key[t]) => Key(key[t], gwabe, now)

LsssInv == lsss \in [Lsss -> Policies \cup {Gone}]

CipherInv ==
  /\ DOMAIN cipher = Cipher
  /\ \A c \in Cipher : IsSet(cipher[c]) => Sealed(cipher[c], gwabe, now)

CtInv ==
  /\ DOMAIN ct = CT
  /\ \A t \in CT : IsSet(ct[t]) => Transformed(ct[t], gwabe, now)

OutInv == out.kind \in {"none", "ek", "exit", "abort", "exception", "undefined"}

ObjectsInv ==
  /\ now \in 0..MaxTotal
  /\ ParametersInv /\ KeyInv /\ LsssInv /\ CipherInv /\ CtInv

IInv == ObjectsInv /\ OutInv /\ HonestDecrypts

-----------------------------------------------------------------------------
(* The calculations of the scheme.                                         *)

\* A product of elements is an element with the rest of the product of numbers.
LEMMA TimesSame ==
  ASSUME NEW x, NEW y, NEW u, NEW v, x \in Int, y \in Int, u \in Int, v \in Int,
         Same(x, u), Same(y, v)
  PROVE  Times(x, y) \in Zr /\ Times(x, y) \in Int /\ Same(Times(x, y), u * v)
<1>1. x * y \in Int /\ Same(x * y, u * v)
  BY SameProduct
<1>2. Times(x, y) \in Zr /\ Times(x, y) \in Int /\ Same(Times(x, y), x * y)
  BY <1>1, SameRest, Mod DEF Times
<1> QED
  BY <1>1, <1>2 DEF Same

LEMMA TimesType ==
  ASSUME NEW x, NEW y, x \in Int, y \in Int
  PROVE  Times(x, y) \in Zr /\ Times(x, y) \in Int /\ Same(Times(x, y), x * y)
<1>1. Same(x, x) /\ Same(y, y)
  BY DEF Same
<1> QED
  BY <1>1, TimesSame

\* What Encrypt makes of the share of a row, and what the row contributes to the
\* denominator: two pairings, of dot_c with tk_att and of ddot_c with tk_2.
Blinded(b, share, h, phi) == (b * share - Times(h, phi)) % Order
Contribution(ddot_c, dot_c, tk_2, tk_att) == (ddot_c * tk_2 + dot_c * tk_att) % Order

\* What a row contributes to the denominator is its share, times what is the same
\* for all rows: the two pairings cancel what was drawn for the row.
LEMMA Cancels ==
  ASSUME NEW b, NEW share, NEW h, NEW phi, NEW g, NEW t, NEW a,
         b \in Int, share \in Int, h \in Int, phi \in Int, g \in Int, t \in Int, a \in Int,
         Same(g * a, h * t)
  PROVE  Contribution(Blinded(b, share, h, phi), Times(g, phi), t, a)
           = Combine(b * t, share, 0, share)
<1> DEFINE d == b * share - Times(h, phi)
           e == b * share - h * phi
<1>1. Times(h, phi) \in Int /\ Same(Times(h, phi), h * phi)
  BY TimesType
<1>2. b * share \in Int /\ h * phi \in Int /\ Same(b * share, b * share)
  BY DEF Same
<1>3. d \in Int /\ e \in Int
  BY <1>1, <1>2
<1>4. Same(d, e)
  BY <1>1, <1>2, SameDifference
<1>5. d % Order \in Int /\ Same(d % Order, d)
  BY <1>3, SameRest
<1> HIDE DEF d
<1>6. Same(d % Order, e)
  BY <1>4, <1>5 DEF Same
<1>7. Same((d % Order) * t, e * t)
  <2>1. Same(t, t)
    BY DEF Same
  <2> HIDE DEF e
  <2> QED
    BY <1>3, <1>5, <1>6, <2>1, SameProduct
<1>8. Times(g, phi) \in Int /\ Same(Times(g, phi) * a, (g * a) * phi)
  <2>1. Times(g, phi) \in Int /\ Same(Times(g, phi), g * phi)
    BY TimesType
  <2>2. g * phi \in Int /\ Same(a, a)
    BY DEF Same
  <2>3. Same(Times(g, phi) * a, (g * phi) * a)
    BY <2>1, <2>2, SameProduct
  <2>4. (g * phi) * a = (g * a) * phi
    OBVIOUS
  <2> QED
    BY <2>1, <2>3, <2>4
<1>9. Same((g * a) * phi, (h * t) * phi)
  <2>1. g * a \in Int /\ h * t \in Int /\ Same(phi, phi)
    BY DEF Same
  <2> QED
    BY <2>1, SameProduct
<1>10. Same(Times(g, phi) * a, (h * t) * phi)
  BY <1>8, <1>9 DEF Same
<1>11. Same((d % Order) * t + Times(g, phi) * a, e * t + (h * t) * phi)
  <2>1. /\ (d % Order) * t \in Int /\ Times(g, phi) * a \in Int
        /\ e * t \in Int /\ (h * t) * phi \in Int
    BY <1>3, <1>5, <1>8
  <2> HIDE DEF e
  <2> QED
    BY <1>7, <1>10, <2>1, SameSum
<1>12. e * t + (h * t) * phi = (b * t) * share + 0 * share
  <2>1. e * t = (b * share) * t - (h * phi) * t
    OBVIOUS
  <2>2. (b * share) * t = (b * t) * share /\ (h * phi) * t = (h * t) * phi
    OBVIOUS
  <2>3. (b * t) * share \in Int /\ (h * t) * phi \in Int /\ 0 * share = 0
    OBVIOUS
  <2> HIDE DEF e
  <2> QED
    BY <2>1, <2>2, <2>3
<1> QED
  BY <1>11, <1>12 DEF Same, d, Contribution, Blinded, Combine

\* What Transform leaves over, to the power of r_2, is e(g, g)^(a s): the part of
\* the key with b cancels against the denominator.
LEMMA Opens ==
  ASSUME NEW g, NEW ga, NEW gb, NEW egga, NEW r, NEW i, NEW u, NEW s, NEW t1, NEW t2,
         NEW denominator,
         g \in Int, ga \in Int, gb \in Int, egga \in Int,
         r \in Int, i \in Int, u \in Int, s \in Int,
         Same(egga, g * ga), Same(r * i, 1),
         t1 = (Times(ga, i) + Times(Times(gb, u), i)) % Order,
         t2 = Times(Times(g, u), i),
         denominator = ((gb * t2) * s) % Order
  PROVE  Times((Times(Times(g, s), t1) - denominator) % Order, r) = Times(egga, s)
<1> DEFINE k == (ga + gb * u) * i
           l == (g * u) * i
<1>1. k \in Int /\ l \in Int
  OBVIOUS
<1>2. t1 \in Int /\ Same(t1, k)
  <2>1. Times(ga, i) \in Int /\ Same(Times(ga, i), ga * i)
    BY TimesType
  <2>2. Times(gb, u) \in Int /\ Same(Times(gb, u), gb * u) /\ gb * u \in Int /\ Same(i, i)
    BY TimesType DEF Same
  <2>3. Times(Times(gb, u), i) \in Int /\ Same(Times(Times(gb, u), i), (gb * u) * i)
    BY <2>2, TimesSame
  <2>4. ga * i \in Int /\ (gb * u) * i \in Int /\ Times(ga, i) + Times(Times(gb, u), i) \in Int
    BY <2>1, <2>3
  <2>5. Same(Times(ga, i) + Times(Times(gb, u), i), ga * i + (gb * u) * i)
    BY <2>1, <2>3, <2>4, SameSum
  <2>6. ga * i + (gb * u) * i = k
    OBVIOUS
  <2>7. t1 \in Int /\ Same(t1, Times(ga, i) + Times(Times(gb, u), i))
    BY <2>4, SameRest
  <2> QED
    BY <2>5, <2>6, <2>7 DEF Same
<1>3. t2 \in Int /\ Same(t2, l)
  <2>1. Times(g, u) \in Int /\ Same(Times(g, u), g * u) /\ g * u \in Int /\ Same(i, i)
    BY TimesType DEF Same
  <2> QED
    BY <2>1, TimesSame
<1> DEFINE x == Times(Times(g, s), t1)
           v == gb * t2
           y == (v * s) % Order
<1>4. x \in Int /\ Same(x, (g * s) * k)
  <2>1. Times(g, s) \in Int /\ Same(Times(g, s), g * s) /\ g * s \in Int
    BY TimesType
  <2> HIDE DEF k
  <2> QED
    BY <1>1, <1>2, <2>1, TimesSame
<1>5. y \in Int /\ Same(y, (gb * l) * s)
  <2>1. Same(gb, gb) /\ Same(s, s)
    BY DEF Same
  <2> HIDE DEF l
  <2>2. Same(v, gb * l)
    BY <1>1, <1>3, <2>1, SameProduct
  <2>3. v \in Int /\ gb * l \in Int
    BY <1>1, <1>3
  <2> HIDE DEF v
  <2>4. Same(v * s, (gb * l) * s)
    BY <2>1, <2>2, <2>3, SameProduct
  <2>5. v * s \in Int
    BY <2>3
  <2>6. y \in Int /\ Same(y, v * s)
    BY <2>5, SameRest
  <2> QED
    BY <2>4, <2>6 DEF Same
<1> HIDE DEF x, y, v
<1>6. (g * s) * k - (gb * l) * s = ((g * ga) * s) * i
  <2>1. (g * s) * k = ((g * ga) * s) * i + ((g * (gb * u)) * s) * i
    OBVIOUS
  <2>2. (gb * l) * s = ((g * (gb * u)) * s) * i
    OBVIOUS
  <2>3. ((g * ga) * s) * i \in Int /\ ((g * (gb * u)) * s) * i \in Int
    OBVIOUS
  <2> HIDE DEF k, l
  <2> QED
    BY <2>1, <2>2, <2>3
<1> DEFINE z == x - y
<1>7. z \in Int /\ Same(z, ((g * ga) * s) * i)
  <2>1. (g * s) * k \in Int /\ (gb * l) * s \in Int
    BY <1>1
  <2> HIDE DEF k, l
  <2>2. z \in Int
    BY <1>4, <1>5
  <2>3. Same(z, (g * s) * k - (gb * l) * s)
    BY <1>4, <1>5, <2>1, SameDifference
  <2> QED
    BY <1>6, <2>2, <2>3
<1> HIDE DEF z, k, l
<1>8. z % Order \in Int /\ Same(z % Order, ((g * ga) * s) * i)
  BY <1>7, SameRest DEF Same
<1>9. Same(Times(z % Order, r), (((g * ga) * s) * i) * r)
  <2>1. ((g * ga) * s) * i \in Int /\ Same(r, r)
    BY DEF Same
  <2> QED
    BY <1>8, <2>1, TimesSame
<1>10. Same((((g * ga) * s) * i) * r, (g * ga) * s)
  <2> DEFINE m == (g * ga) * s
  <2>1. m \in Int /\ r * i \in Int /\ Same(m, m)
    BY DEF Same
  <2> HIDE DEF m
  <2>2. Same(m * (r * i), m * 1)
    BY <2>1, SameProduct
  <2>3. m * (r * i) = (m * i) * r /\ m * 1 = m
    BY <2>1
  <2>4. Same((m * i) * r, m)
    BY <2>2, <2>3
  <2> QED
    BY <2>4 DEF m
<1>11. Times(egga, s) \in Zr /\ Same(Times(egga, s), (g * ga) * s)
  <2>1. g * ga \in Int /\ Same(s, s)
    BY DEF Same
  <2> QED
    BY <2>1, TimesSame
<1>12. Times(z % Order, r) \in Zr
  BY <1>8, TimesType
<1>13. Times(z % Order, r) = Times(egga, s)
  <2>1. Times(z % Order, r) % Order = Times(egga, s) % Order
    BY <1>9, <1>10, <1>11 DEF Same
  <2> QED
    BY <1>11, <1>12, <2>1, Elements
<1> QED
  BY <1>13 DEF v, x, y, z

-----------------------------------------------------------------------------
(* Policies and random numbers.                                            *)

\* A share matrix has rows of the same width and one name for each.
LEMMA PolicyFacts ==
  ASSUME NEW p \in Policies
  PROVE  /\ Len(p.M) \in Nat \ {0} /\ DOMAIN p.M = 1..Len(p.M)
         /\ Len(p.rho) = Len(p.M) /\ DOMAIN p.rho = 1..Len(p.M)
         /\ \A r \in 1..Len(p.M) : p.rho[r] \in Attribute
         /\ Len(p.M[1]) \in Nat \ {0} /\ DOMAIN p.M[1] = 1..Len(p.M[1])
         /\ \A r \in 1..Len(p.M) : Numbers(p.M[r], Len(p.M[1]))
<1>1. p.M \in Seq(Seq(Int)) /\ p.M # <<>> /\ p.rho \in Seq(Attribute)
  BY PoliciesAssumption
<1>2. Len(p.M) \in Nat \ {0} /\ DOMAIN p.M = 1..Len(p.M)
  BY <1>1
<1>3. \A r \in 1..Len(p.M) : p.M[r] \in Seq(Int)
  BY <1>1
<1>4. \A r \in 1..Len(p.M) : Len(p.M[r]) = Len(p.M[1])
  BY <1>2, PoliciesAssumption
<1>5. Len(p.M[1]) \in Nat \ {0} /\ DOMAIN p.M[1] = 1..Len(p.M[1])
  BY <1>2, <1>3, PoliciesAssumption
<1>6. \A r \in 1..Len(p.M) : Numbers(p.M[r], Len(p.M[1]))
  <2>1. ASSUME NEW r \in 1..Len(p.M), NEW j \in 1..Len(p.M[1]) PROVE p.M[r][j] \in Int
    BY <1>3, <1>4
  <2> QED
    BY <2>1 DEF Numbers
<1>7. Len(p.rho) = Len(p.M)
  BY PoliciesAssumption
<1>8. DOMAIN p.rho = 1..Len(p.M) /\ \A r \in 1..Len(p.M) : p.rho[r] \in Attribute
  BY <1>1, <1>7
<1> QED
  BY <1>2, <1>5, <1>6, <1>7, <1>8

\* Fetchrows after m rows, of which it keeps those in T.
Fetched(f, m, T) ==
  /\ f \in [0..m -> Seq(T)] /\ f[0] = <<>>
  /\ \A r \in 1..m : f[r] = IF r \in T THEN Append(f[r - 1], r) ELSE f[r - 1]

LEMMA FetchedExists ==
  ASSUME NEW T, NEW n \in Nat
  PROVE  \E f : Fetched(f, n, T)
<1> DEFINE Q == {m \in Nat : \E f : Fetched(f, m, T)}
<1>1. 0 \in Q
  <2>1. Fetched([r \in 0..0 |-> <<>>], 0, T)
    BY DEF Fetched
  <2> QED
    BY <2>1
<1>2. ASSUME NEW m \in Nat, m \in Q PROVE m + 1 \in Q
  <2>1. PICK f : Fetched(f, m, T)
    BY <1>2
  <2> DEFINE last == IF m + 1 \in T THEN Append(f[m], m + 1) ELSE f[m]
             h == [r \in 0..(m + 1) |-> IF r <= m THEN f[r] ELSE last]
  <2>2. last \in Seq(T)
    BY <2>1 DEF Fetched
  <2>3. h \in [0..(m + 1) -> Seq(T)] /\ h[0] = <<>>
    <3> HIDE DEF last
    <3> QED
      BY <2>1, <2>2 DEF Fetched
  <2>4. ASSUME NEW r \in 1..(m + 1)
        PROVE h[r] = IF r \in T THEN Append(h[r - 1], r) ELSE h[r - 1]
    <3>1. CASE r <= m
      BY <2>1, <3>1 DEF Fetched
    <3>2. CASE r = m + 1
      BY <3>2
    <3> QED
      BY <3>1, <3>2
  <2> HIDE DEF h
  <2>5. Fetched(h, m + 1, T)
    BY <2>3, <2>4 DEF Fetched
  <2> QED
    BY <2>5
<1> HIDE DEF Q
<1>3. Nat \subseteq Q
  BY <1>1, <1>2, Induction
<1>4. n \in Q
  BY <1>3
<1> QED
  BY <1>4 DEF Q

\* What Fetchrows returns are rows of the names it is asked about.
LEMMA RowsFacts ==
  ASSUME NEW p \in Policies, NEW S
  PROVE  Rows(p, S) \in Seq({r \in 1..Len(p.M) : p.rho[r] \in S})
<1> DEFINE N == Len(p.rho)
           T == {r \in 1..N : p.rho[r] \in S}
           Is(f) == f = [r \in 0..N |->
                           IF r = 0 THEN <<>>
                           ELSE IF p.rho[r] \in S THEN Append(f[r - 1], r) ELSE f[r - 1]]
           g == CHOOSE f : Is(f)
<1>1. N \in Nat /\ N = Len(p.M)
  BY PolicyFacts
<1>2. \A r \in 1..N : r \in T <=> p.rho[r] \in S
  OBVIOUS
<1>3. PICK f : Fetched(f, N, T)
  BY <1>1, FetchedExists
<1> HIDE DEF T
<1>4. Is(f)
  <2>1. f = [r \in 0..N |-> f[r]]
    BY <1>3 DEF Fetched
  <2>2. ASSUME NEW r \in 0..N
        PROVE f[r] = IF r = 0 THEN <<>>
                     ELSE IF p.rho[r] \in S THEN Append(f[r - 1], r) ELSE f[r - 1]
    <3>1. r = 0 \/ r \in 1..N
      BY <1>1
    <3> QED
      BY <1>2, <1>3, <3>1 DEF Fetched
  <2> QED
    BY <2>1, <2>2, Zenon
<1>5. Is(g)
  BY <1>4
<1>6. Rows(p, S) = g[N]
  BY DEF Rows
<1> HIDE DEF g
<1> DEFINE Z == {m \in Nat : m <= N => g[m] = f[m]}
<1>7. 0 \in Z
  BY <1>3, <1>5 DEF Fetched
<1>8. ASSUME NEW m \in Nat, m \in Z PROVE m + 1 \in Z
  <2> SUFFICES ASSUME m + 1 <= N PROVE g[m + 1] = f[m + 1]
    OBVIOUS
  <2>1. m + 1 \in 0..N /\ m + 1 # 0 /\ (m + 1) - 1 = m /\ g[m] = f[m]
    BY <1>1, <1>8
  <2>2. g[m + 1] = IF p.rho[m + 1] \in S THEN Append(g[m], m + 1) ELSE g[m]
    BY <1>5, <2>1
  <2>3. f[m + 1] = IF p.rho[m + 1] \in S THEN Append(f[m], m + 1) ELSE f[m]
    BY <1>4, <2>1
  <2> QED
    BY <2>1, <2>2, <2>3
<1> HIDE DEF Z
<1>9. Nat \subseteq Z
  BY <1>7, <1>8, Induction
<1>10. g[N] = f[N]
  BY <1>1, <1>9 DEF Z
<1>11. g[N] \in Seq(T)
  BY <1>1, <1>3, <1>10 DEF Fetched
<1> QED
  BY <1>1, <1>6, <1>11 DEF T

\* What the calls draw and hash are elements of Zr.
LEMMA DrawnFacts ==
  ASSUME NEW c \in 1..MaxTotal
  PROVE  /\ \A n \in 0..3 : Random(c, n) \in Zr
         /\ \A p \in Policies : /\ \A j \in 1..(Len(p.M[1]) - 1) : Random(c, j) \in Zr
                                /\ \A r \in DOMAIN p.M : Random(c, 10 + r) \in Zr
<1>1. \A n \in Draws : Random(c, n) \in Zr
  BY ElementsAssumption
<1>2. 0..3 \subseteq Draws
  BY DEF Draws
<1>3. ASSUME NEW p \in Policies, NEW j \in 1..(Len(p.M[1]) - 1) PROVE j \in Draws
  BY DEF Draws
<1>4. ASSUME NEW p \in Policies, NEW r \in DOMAIN p.M PROVE 10 + r \in Draws
  BY DEF Draws
<1> QED
  BY <1>1, <1>2, <1>3, <1>4

\* r_2 has an inverse.
LEMMA DrawnInverse ==
  ASSUME NEW c \in 1..MaxTotal
  PROVE  Invert(Random(c, 2)) \in Int /\ Same(Random(c, 2) * Invert(Random(c, 2)), 1)
<1> DEFINE r == Random(c, 2)
<1>1. \E y \in 1..(Order - 1) : (r * y) % Order = 1
  BY ElementsAssumption DEF Times
<1> HIDE DEF r
<1>2. Invert(r) \in 1..(Order - 1) /\ (r * Invert(r)) % Order = 1
  BY <1>1, Zenon DEF Invert
<1>3. 1 % Order = 1 /\ Invert(r) \in Int
  BY <1>2, OrderAssumption
<1> QED
  BY <1>2, <1>3 DEF Same, r

-----------------------------------------------------------------------------
(* The denominator of Transform.                                           *)

\* What the chosen row i contributes before its weight.
Paired(k, c, I) ==
  [i \in DOMAIN I |->
     (c.ddot_c[I[i]] * k.tk_2 + c.dot_c[I[i]] * k.tk_att[c.sealed.rho[I[i]]]) % Order]

\* Everything that is indexed is there and a number.
LEMMA ChosenFacts ==
  ASSUME NEW k, NEW c, NEW p, NEW n, Key(k, p, n), Sealed(c, p, n),
         NEW I, I = Rows(c.sealed, k.attributes), NEW w, w = findVector(c.sealed, k.attributes)
  PROVE  /\ Len(I) \in Nat /\ DOMAIN I = 1..Len(I)
         /\ Len(w) = Len(I) /\ Numbers(w, Len(I))
         /\ \A i \in 1..Len(I) :
              /\ I[i] \in 1..Len(c.sealed.M)
              /\ c.sealed.rho[I[i]] \in k.attributes
              /\ c.lambda[I[i]] \in Int /\ c.ddot_c[I[i]] \in Int /\ c.dot_c[I[i]] \in Int
              /\ k.tk_att[c.sealed.rho[I[i]]] \in Int
         /\ k.tk_2 \in Int
         /\ Numbers(Paired(k, c, I), Len(I))
         /\ Denominator(k, c, c.sealed, w) = Product(w, Paired(k, c, I), Len(I))
<1>1. c.sealed \in Policies /\ k.attributes \in (SUBSET Attribute) \ {{}}
  BY DEF Key, Sealed
<1>2. I \in Seq({r \in 1..Len(c.sealed.M) : c.sealed.rho[r] \in k.attributes})
  BY <1>1, RowsFacts
<1>3. Len(I) \in Nat /\ DOMAIN I = 1..Len(I)
  BY <1>2
<1>4. w \in Seq(Zr) /\ Len(w) = Len(I)
  BY <1>1, FindVectorAssumption
<1>5. Numbers(w, Len(I))
  BY <1>4, Elements DEF Numbers
<1>6. ASSUME NEW i \in 1..Len(I)
      PROVE  /\ I[i] \in 1..Len(c.sealed.M)
             /\ c.sealed.rho[I[i]] \in k.attributes
             /\ c.lambda[I[i]] \in Int /\ c.ddot_c[I[i]] \in Int /\ c.dot_c[I[i]] \in Int
             /\ k.tk_att[c.sealed.rho[I[i]]] \in Int
  <2>1. I[i] \in 1..Len(c.sealed.M) /\ c.sealed.rho[I[i]] \in k.attributes
    BY <1>2
  <2>2. c.lambda[I[i]] \in Zr /\ c.ddot_c[I[i]] \in Zr /\ c.dot_c[I[i]] \in Zr
    BY <2>1 DEF Sealed, Fits
  <2>3. k.tk_att[c.sealed.rho[I[i]]] \in Zr
    BY <2>1 DEF Key
  <2> QED
    BY <2>1, <2>2, <2>3, Elements
<1>7. k.tk_2 \in Int
  BY Elements DEF Key
<1>8. Numbers(Paired(k, c, I), Len(I))
  <2>1. ASSUME NEW i \in 1..Len(I) PROVE Paired(k, c, I)[i] \in Int
    <3> DEFINE y == c.ddot_c[I[i]] * k.tk_2 + c.dot_c[I[i]] * k.tk_att[c.sealed.rho[I[i]]]
    <3>1. y \in Int
      BY <1>6, <1>7
    <3>2. Paired(k, c, I)[i] = y % Order
      BY <1>3 DEF Paired
    <3> HIDE DEF y
    <3> QED
      BY <3>1, <3>2, SameRest
  <2> QED
    BY <2>1 DEF Numbers
<1>9. Denominator(k, c, c.sealed, w) = Product(w, Paired(k, c, I), Len(I))
  BY <1>4 DEF Denominator, Paired
<1> QED
  BY <1>3, <1>4, <1>5, <1>6, <1>7, <1>8, <1>9

\* Whatever policy is read, its weighted rows make an element, if the vectors
\* have the rows that are read.
LEMMA DenominatorType ==
  ASSUME NEW k, NEW c, NEW p, NEW n, Key(k, p, n), Sealed(c, p, n),
         NEW q \in Policies, ~Outside(k, c, q)
  PROVE  Denominator(k, c, q, findVector(q, k.attributes)) \in Zr
<1> DEFINE I == Rows(q, k.attributes)
           w == findVector(q, k.attributes)
           paired == [i \in DOMAIN I |->
             (c.ddot_c[I[i]] * k.tk_2 + c.dot_c[I[i]] * k.tk_att[q.rho[I[i]]]) % Order]
<1>1. k.attributes \in (SUBSET Attribute) \ {{}} /\ k.attributes \subseteq DOMAIN k.tk_att
  BY DEF Key
<1>2. I \in Seq({r \in 1..Len(q.M) : q.rho[r] \in k.attributes})
  BY RowsFacts
<1>3. Len(I) \in Nat /\ DOMAIN I = 1..Len(I)
  BY <1>2
<1>4. w \in Seq(Zr) /\ Len(w) = Len(I)
  BY <1>1, FindVectorAssumption
<1>5. Numbers(w, Len(I))
  BY <1>4, Elements DEF Numbers
<1>6. Denominator(k, c, q, w) = Product(w, paired, Len(I))
  BY <1>4 DEF Denominator
<1>7. DOMAIN q.rho = 1..Len(q.M) /\ k.tk_2 \in Int
  BY PolicyFacts, Elements DEF Key
<1>8. ASSUME NEW i \in 1..Len(I) PROVE paired[i] \in Int
  <2> DEFINE r == I[i]
             y == c.ddot_c[r] * k.tk_2 + c.dot_c[r] * k.tk_att[q.rho[r]]
  <2>1. r \in 1..Len(q.M) /\ q.rho[r] \in k.attributes
    BY <1>2
  <2>2. paired[i] = y % Order
    BY <1>3
  <2> HIDE DEF r, paired
  <2>3. ~(r > Len(c.dot_c)) /\ ~(r > Len(c.ddot_c))
    BY <1>7, <2>1 DEF Outside
  <2>4. c.dot_c \in Seq(Zr) /\ c.ddot_c \in Seq(Zr)
    BY DEF Sealed, Fits
  <2>5. r \in 1..Len(c.dot_c) /\ r \in 1..Len(c.ddot_c)
    BY <2>1, <2>3, <2>4
  <2>6. c.dot_c[r] \in Int /\ c.ddot_c[r] \in Int
    BY <2>4, <2>5, Elements
  <2>7. k.tk_att[q.rho[r]] \in Int
    BY <1>1, <2>1, Elements DEF Key
  <2>8. y \in Int
    BY <1>7, <2>6, <2>7
  <2> HIDE DEF y
  <2> QED
    BY <2>2, <2>8, SameRest
<1>9. Numbers(paired, Len(I))
  BY <1>8 DEF Numbers
<1> HIDE DEF I, w, paired
<1>10. Product(w, paired, Len(I)) \in Zr
  BY <1>3, <1>5, <1>9, ProductType
<1> QED
  BY <1>6, <1>10 DEF w

\* The vector that is shared is as long as the rows and begins with the secret.
LEMMA SharedRowFacts ==
  ASSUME NEW p \in Policies, NEW made \in 1..MaxTotal, NEW s \in Zr
  PROVE  /\ SharedRow(p, made, s) \in Seq(Zr)
         /\ Len(SharedRow(p, made, s)) = Len(p.M[1])
         /\ SharedRow(p, made, s)[1] = s
         /\ Numbers(SharedRow(p, made, s), Len(p.M[1]))
<1> DEFINE width == Len(p.M[1])
           rest == [j \in 1..(width - 1) |-> Random(made, j)]
           v == SharedRow(p, made, s)
<1>1. width \in Nat \ {0}
  BY PolicyFacts
<1>2. \A j \in 1..(width - 1) : Random(made, j) \in Zr
  BY DrawnFacts
<1>3. v = <<s>> \o rest
  BY DEF SharedRow
<1> HIDE DEF width, v
<1>4. rest \in Seq(Zr) /\ Len(rest) = width - 1
  BY <1>1, <1>2
<1> HIDE DEF rest
<1>5. v \in Seq(Zr) /\ Len(v) = width /\ v[1] = s
  BY <1>1, <1>3, <1>4
<1>6. Numbers(v, width)
  BY <1>5, Elements DEF Numbers
<1> QED
  BY <1>5, <1>6 DEF width, v

LEMMA SharedFacts ==
  ASSUME NEW c, NEW p, NEW n, Sealed(c, p, n), n \in 0..MaxTotal
  PROVE  /\ Mask(c) \in Zr /\ Secret(c) \in Zr
         /\ Len(Shared(c)) = Len(c.sealed.M[1])
         /\ Numbers(Shared(c), Len(c.sealed.M[1]))
         /\ Shared(c)[1] = Secret(c)
<1>1. c.made \in 1..MaxTotal /\ c.sealed \in Policies /\ c.ek \in Ek
  BY CallsAssumption DEF Sealed
<1>2. Mask(c) \in Zr
  BY <1>1, DrawnFacts DEF Mask
<1>3. Secret(c) \in Zr
  BY <1>1, <1>2, ElementsAssumption DEF Secret
<1> QED
  BY <1>1, <1>2, <1>3, SharedRowFacts DEF Shared

\* The weights findVector returns for attributes that are admitted put the shares
\* of their rows together to the secret.
LEMMA SharesRecombine ==
  ASSUME NEW k, NEW c, NEW p, NEW n, Key(k, p, n), Sealed(c, p, n), n \in 0..MaxTotal,
         Accepts(c.sealed, k.attributes),
         NEW I, I = Rows(c.sealed, k.attributes), NEW w, w = findVector(c.sealed, k.attributes),
         NEW x, \A i \in 1..Len(I) : x[i] = c.lambda[I[i]]
  PROVE  Product(w, x, Len(I)) = Secret(c)
<1> DEFINE M == c.sealed.M
           m == [i \in 1..Len(I) |-> M[I[i]]]
           v == Shared(c)
           width == Len(M[1])
           u == RowSum(w, m, Len(I), Len(I), width)
<1>1. /\ Len(I) \in Nat /\ DOMAIN I = 1..Len(I) /\ Numbers(w, Len(I))
      /\ \A i \in 1..Len(I) : I[i] \in 1..Len(M)
  BY ChosenFacts
<1>2. /\ c.sealed \in Policies /\ k.attributes \in (SUBSET Attribute) \ {{}}
      /\ c.lambda = Shares(c.sealed, v)
  BY DEF Key, Sealed
<1>3. /\ DOMAIN M = 1..Len(M) /\ width \in Nat \ {0} /\ DOMAIN M[1] = 1..width
      /\ \A r \in 1..Len(M) : Numbers(M[r], width)
  BY <1>2, PolicyFacts
<1>4. Secret(c) \in Zr /\ Len(v) = width /\ Numbers(v, width) /\ v[1] = Secret(c)
  BY SharedFacts
<1>5. Matrix(m, Len(I), width)
  BY <1>1, <1>3 DEF Matrix
<1>6. ASSUME NEW i \in 1..Len(I) PROVE x[i] = Product(m[i], v, width)
  <2>1. x[i] = Product(v, M[I[i]], width)
    BY <1>1, <1>2, <1>3, <1>4 DEF Shares
  <2>2. Numbers(M[I[i]], width) /\ m[i] = M[I[i]]
    BY <1>1, <1>3
  <2> HIDE DEF m, M, v, width
  <2>3. Product(v, M[I[i]], width) = Product(M[I[i]], v, width)
    BY <1>3, <1>4, <2>2, ProductCommutes
  <2> QED
    BY <2>1, <2>2, <2>3
<1>7. ASSUME NEW j \in 1..width PROVE u[j] = (IF j = 1 THEN 1 ELSE 0)
  <2>1. Product(w, [i \in DOMAIN I |-> M[I[i]][j]], Len(I)) = (IF j = 1 THEN 1 ELSE 0)
    <3>1. Recombine(c.sealed, I, w)
      BY <1>2, FindVectorAssumption
    <3> QED
      BY <1>3, <3>1 DEF Recombine
  <2>2. [i \in DOMAIN I |-> M[I[i]][j]] = Column(m, Len(I), j)
    BY <1>1 DEF Column
  <2>3. u[j] = Product(w, Column(m, Len(I), j), Len(I))
    BY DEF RowSum
  <2> QED
    BY <2>1, <2>2, <2>3
<1> HIDE DEF M, m, v, width
<1>8. Product(w, x, Len(I)) = Product(u, v, width)
  BY <1>1, <1>3, <1>4, <1>5, <1>6, ProductOfRowSum
<1> HIDE DEF u
<1>9. Product(u, v, width) = v[1] % Order
  BY <1>3, <1>4, <1>7, UnitProduct
<1> QED
  BY <1>4, <1>8, <1>9, Elements

\* The names of the policy that the attributes k has were made with the rest of k.
Fit(k, policy, p) ==
  \A x \in Range(policy.rho) \cap k.attributes : Times(p.g, k.tk_att[x]) = Times(H(x), k.tk_2)

\* For attributes that are admitted the denominator is e(g, g)^(b tk_2 s).
LEMMA DenominatorOpens ==
  ASSUME NEW k, NEW c, NEW p, NEW n, Key(k, p, n), Sealed(c, p, n), n \in 0..MaxTotal,
         Parameters(p), c.setup = p.made, Accepts(c.sealed, k.attributes), Fit(k, c.sealed, p)
  PROVE  Denominator(k, c, c.sealed, findVector(c.sealed, k.attributes))
           = ((p.gb * k.tk_2) * Secret(c)) % Order
<1> DEFINE I == Rows(c.sealed, k.attributes)
           w == findVector(c.sealed, k.attributes)
           x == [i \in 1..Len(I) |-> c.lambda[I[i]]]
           y == Paired(k, c, I)
           f == p.gb * k.tk_2
<1>1. /\ Len(I) \in Nat /\ DOMAIN I = 1..Len(I) /\ Len(w) = Len(I) /\ Numbers(w, Len(I))
      /\ \A i \in 1..Len(I) :
           /\ I[i] \in 1..Len(c.sealed.M)
           /\ c.sealed.rho[I[i]] \in k.attributes
           /\ c.lambda[I[i]] \in Int /\ c.ddot_c[I[i]] \in Int /\ c.dot_c[I[i]] \in Int
           /\ k.tk_att[c.sealed.rho[I[i]]] \in Int
      /\ k.tk_2 \in Int
      /\ Numbers(y, Len(I))
      /\ Denominator(k, c, c.sealed, w) = Product(w, y, Len(I))
  BY ChosenFacts
<1>2. c.sealed \in Policies /\ c.made \in 1..MaxTotal
  BY CallsAssumption DEF Sealed
<1>3. p.g \in Int /\ p.gb \in Int /\ f \in Int
  <2>1. p.g \in Int /\ p.gb \in Int
    BY Elements DEF Parameters
  <2> QED
    BY <1>1, <2>1
<1>4. CipherOf(c, p)
  BY DEF Sealed
<1> HIDE DEF I, w
<1>5. ASSUME NEW i \in 1..Len(I) PROVE y[i] = (f * x[i] + 0 * x[i]) % Order
  <2> DEFINE r == I[i]
             name == c.sealed.rho[r]
             phi == Random(c.made, 10 + r)
  <2>1. /\ r \in 1..Len(c.sealed.M) /\ r \in DOMAIN c.sealed.M
        /\ name \in Attribute /\ name \in Range(c.sealed.rho) /\ name \in k.attributes
    <3>1. r \in 1..Len(c.sealed.M) /\ name \in k.attributes
      BY <1>1
    <3> QED
      BY <1>2, <3>1, PolicyFacts DEF Range
  <2>2. phi \in Int /\ H(name) \in Int
    BY <1>2, <2>1, DrawnFacts, ElementsAssumption, Elements
  <2>3. k.tk_att[name] \in Int /\ c.lambda[r] \in Int
    BY <1>1
  <2>4. /\ c.dot_c[r] = Times(p.g, phi)
        /\ c.ddot_c[r] = (p.gb * c.lambda[r] - Times(H(name), phi)) % Order
    BY <1>4, <2>1 DEF CipherOf
  <2>5. Same(p.g * k.tk_att[name], H(name) * k.tk_2)
    BY <2>1 DEF Fit, Times, Same
  <2>6. y[i] = (c.ddot_c[r] * k.tk_2 + c.dot_c[r] * k.tk_att[name]) % Order
    BY <1>1 DEF Paired
  <2>7. x[i] = c.lambda[r]
    OBVIOUS
  <2>8. p.g \in Int /\ p.gb \in Int /\ k.tk_2 \in Int
    BY <1>1, <1>3
  <2> HIDE DEF r, name, phi, x, y
  <2>9. Contribution(Blinded(p.gb, c.lambda[r], H(name), phi), Times(p.g, phi), k.tk_2,
                     k.tk_att[name])
          = Combine(p.gb * k.tk_2, c.lambda[r], 0, c.lambda[r])
    BY <2>2, <2>3, <2>5, <2>8, Cancels, SMTT(30)
  <2>10. y[i] = Contribution(c.ddot_c[r], c.dot_c[r], k.tk_2, k.tk_att[name])
    BY <2>6 DEF Contribution
  <2>11. c.ddot_c[r] = Blinded(p.gb, c.lambda[r], H(name), phi)
    BY <2>4 DEF Blinded
  <2>12. y[i] = Combine(f, x[i], 0, x[i])
    BY <2>4, <2>7, <2>9, <2>10, <2>11
  <2> HIDE DEF f
  <2> QED
    BY <2>12 DEF Combine
<1>6. Numbers(x, Len(I))
  BY <1>1 DEF Numbers
<1>7. Product(w, x, Len(I)) = Secret(c)
  <2>1. \A i \in 1..Len(I) : x[i] = c.lambda[I[i]]
    OBVIOUS
  <2> HIDE DEF x
  <2> QED
    BY <2>1, SharesRecombine DEF I, w
<1> HIDE DEF x, y, f
<1>8. Combined(y, f, x, 0, x, Len(I))
  BY <1>5 DEF Combined
<1>9. Product(y, w, Len(I)) = (f * Product(x, w, Len(I)) + 0 * Product(x, w, Len(I))) % Order
  <2>1. 0 \in Int
    OBVIOUS
  <2> QED
    BY <1>1, <1>3, <1>6, <1>8, <2>1, CombineRows
<1>10. Product(y, w, Len(I)) = Product(w, y, Len(I)) /\ Product(x, w, Len(I)) = Secret(c)
  BY <1>1, <1>6, <1>7, ProductCommutes
<1>11. f * Secret(c) + 0 * Secret(c) = f * Secret(c)
  <2>1. Secret(c) \in Int
    BY SharedFacts, Elements
  <2> QED
    BY <1>3, <2>1
<1> QED
  BY <1>1, <1>9, <1>10, <1>11 DEF f, w

-----------------------------------------------------------------------------
(* What Decrypt compares.                                                  *)

\* With the half of the key KeyGen gave its owner, what Transform left over is
\* e(g, g)^(a s).
LEMMA HonestDenominator ==
  ASSUME NEW x, NEW k, NEW p, NEW n, Transformed(x, p, n), Key(k, p, n), n \in 0..MaxTotal,
         Parameters(p), k.made = x.tk.made, x.tk.setup = p.made, x.from.setup = p.made,
         x.under = x.from.sealed,
         Accepts(x.from.sealed, x.tk.attributes), Fit(x.tk, x.from.sealed, p)
  PROVE  Times(x.ct_3, k.r_2) = Times(p.egga, Secret(x.from))
<1> DEFINE s == Secret(x.from)
           r_1 == Random(x.tk.made, 1)
           r_2 == Random(x.tk.made, 2)
           i == Invert(r_2)
           d == Denominator(x.tk, x.from, x.from.sealed,
                            findVector(x.from.sealed, x.tk.attributes))
<1>1. Key(x.tk, p, n) /\ Sealed(x.from, p, n)
  BY DEF Transformed
<1>2. d = ((p.gb * x.tk.tk_2) * s) % Order
  BY <1>1, DenominatorOpens
<1>3. KeyOf(x.tk, p, r_1, i)
  BY <1>1 DEF Key
<1>4. x.from.c_3 = Times(p.g, s)
  BY <1>1 DEF Sealed, CipherOf
<1>5. x.ct_3 = (Times(x.from.c_3, x.tk.tk_1) - d) % Order
  BY DEF Transformed
<1>6. k.r_2 = r_2
  BY DEF Key
<1>7. x.tk.made \in 1..MaxTotal
  BY <1>1, CallsAssumption DEF Key
<1>8. i \in Int /\ Same(r_2 * i, 1) /\ r_1 \in Int /\ r_2 \in Int
  BY <1>7, DrawnFacts, DrawnInverse, Elements
<1>9. s \in Int
  BY <1>1, SharedFacts, Elements
<1>10. p.g \in Int /\ p.ga \in Int /\ p.gb \in Int /\ p.egga \in Int /\ Same(p.egga, p.g * p.ga)
  BY Elements DEF Parameters
<1>11. /\ x.tk.tk_1 = (Times(p.ga, i) + Times(Times(p.gb, r_1), i)) % Order
       /\ x.tk.tk_2 = Times(Times(p.g, r_1), i)
  BY <1>3 DEF KeyOf
<1> HIDE DEF s, r_1, r_2, i, d
<1>12. Times((Times(Times(p.g, s), x.tk.tk_1) - d) % Order, r_2) = Times(p.egga, s)
  BY <1>2, <1>8, <1>9, <1>10, <1>11, Opens
<1> QED
  BY <1>4, <1>5, <1>6, <1>12 DEF s

\* Two strings put together twice are the first again.
LEMMA XorTwice ==
  ASSUME NEW R, NEW e, e \in Ek, e.full
  PROVE  xorHashes(elementToHash(R), xorHashes(elementToHash(R), e)) = e
<1>1. e = [full |-> TRUE, ones |-> e.ones]
  BY ElementsAssumption
<1>2. ({R} \ (({R} \ e.ones) \cup (e.ones \ {R})))
        \cup ((({R} \ e.ones) \cup (e.ones \ {R})) \ {R}) = e.ones
  OBVIOUS
<1>3. xorHashes(elementToHash(R), xorHashes(elementToHash(R), e)) = [full |-> TRUE, ones |-> e.ones]
  BY <1>2 DEF xorHashes, elementToHash
<1> QED
  BY <1>1, <1>3

\* What was added can be taken away again.
LEMMA TakenAway ==
  ASSUME NEW m, NEW R, m \in Int, R \in Zr
  PROVE  (((m + R) % Order) - m) % Order = R
<1> DEFINE a == (m + R) % Order
<1>1. R \in Int /\ R % Order = R /\ m + R \in Int /\ Same(m, m)
  BY Elements DEF Same
<1>2. a \in Int /\ Same(a, m + R)
  BY <1>1, SameRest
<1> HIDE DEF a
<1>3. Same(a - m, (m + R) - m)
  BY <1>1, <1>2, SameDifference
<1>4. (m + R) - m = R
  BY <1>1
<1> QED
  BY <1>1, <1>3, <1>4 DEF Same, a

\* The two comparisons of Decrypt hold.
LEMMA HonestMatches ==
  ASSUME NEW x, NEW k, NEW n, Transformed(x, gwabe, n), Key(k, gwabe, n), n \in 0..MaxTotal,
         Parameters(gwabe), k.made = x.tk.made, x.tk.setup = x.from.setup,
         x.from.setup = gwabe.made, x.from.ek.full, x.under = x.from.sealed,
         Accepts(x.from.sealed, x.tk.attributes), MadeTogether(x.tk, x.from.sealed),
         NEW denominator, denominator = Times(x.ct_3, k.r_2),
         NEW R, R = (x.ct_1 - denominator) % Order,
         NEW ek, ek = xorHashes(elementToHash(R), x.ct_2)
  PROVE  Matches(HashToZr(elementToHash(R), ek), R, denominator, x)
<1> DEFINE c == x.from
           m == Times(gwabe.egga, Secret(c))
<1>1. Sealed(c, gwabe, n) /\ x.ct_1 = c.c_1 /\ x.ct_2 = c.c_2
  BY DEF Transformed
<1>2. c.ek \in Ek /\ c.ek.full /\ c.c_2 = xorHashes(elementToHash(Mask(c)), c.ek)
      /\ c.c_1 = (m + Mask(c)) % Order
  BY <1>1 DEF Sealed, CipherOf
<1>3. Mask(c) \in Zr /\ Secret(c) \in Int
  BY <1>1, SharedFacts, Elements
<1>4. m \in Int
  <2>1. gwabe.egga \in Int
    BY Elements DEF Parameters
  <2> QED
    BY <1>3, <2>1, TimesType
<1>5. denominator = m
  <2>1. Fit(x.tk, c.sealed, gwabe)
    BY DEF Fit, MadeTogether
  <2> QED
    BY <2>1, HonestDenominator
<1>6. R = Mask(c)
  <2> HIDE DEF m
  <2>1. R = (((m + Mask(c)) % Order) - m) % Order
    BY <1>1, <1>2, <1>5
  <2> QED
    BY <1>3, <1>4, <2>1, TakenAway
<1>7. ek = c.ek
  BY <1>1, <1>2, <1>6, XorTwice
<1>8. HashToZr(elementToHash(R), ek) = Secret(c)
  BY <1>6, <1>7 DEF Secret
<1> QED
  BY <1>1, <1>2, <1>5, <1>6, <1>8 DEF Matches

-----------------------------------------------------------------------------
(* Every call keeps the invariant.                                         *)

\* What was made stays as it was made, when a call is made and when a Setup
\* replaces the parameters.
LEMMA Later ==
  ASSUME NEW p, NEW q, NEW n \in Nat, NEW m \in Nat, n <= m, p.made \in Nat,
         q = p \/ (q.made \in Nat /\ p.made < q.made)
  PROVE  /\ \A k : Key(k, p, n) => Key(k, q, m)
         /\ \A c : Sealed(c, p, n) => Sealed(c, q, m)
         /\ \A x : Transformed(x, p, n) => Transformed(x, q, m)
<1>1. 1..n \subseteq 1..m
  OBVIOUS
<1>2. \A s \in 1..p.made : s \in 1..q.made /\ (s = q.made => q = p /\ s = p.made)
  OBVIOUS
<1>3. ASSUME NEW k, Key(k, p, n) PROVE Key(k, q, m)
  <2>1. k.made \in 1..m /\ k.setup \in 1..q.made /\ (k.setup = q.made => q = p /\ k.setup = p.made)
    BY <1>1, <1>2, <1>3 DEF Key
  <2> QED
    BY <1>3, <2>1 DEF Key
<1>4. ASSUME NEW c, Sealed(c, p, n) PROVE Sealed(c, q, m)
  <2>1. c.made \in 1..m /\ c.setup \in 1..q.made /\ (c.setup = q.made => q = p /\ c.setup = p.made)
    BY <1>1, <1>2, <1>4 DEF Sealed
  <2> QED
    BY <1>4, <2>1 DEF Sealed
<1>5. ASSUME NEW x, Transformed(x, p, n) PROVE Transformed(x, q, m)
  BY <1>3, <1>4, <1>5 DEF Transformed
<1> QED
  BY <1>3, <1>4, <1>5

\* The part of the invariant about the last result is trivial while the program
\* goes on.
LEMMA StillGoes ==
  ASSUME NEW Out, Out = out', Out.kind \in {"none", "ek"}
  PROVE  OutInv' /\ HonestDecrypts'
BY DEF OutInv, HonestDecrypts

\* Only the objects a call writes have to be looked at again.
LEMMA ObjectsLater ==
  ASSUME ObjectsInv, now' \in now..MaxTotal, UNCHANGED lsss,
         gwabe' = gwabe \/ (gwabe'.made = now' /\ now' = now + 1 /\ Parameters(gwabe)'),
         DOMAIN key' = KeyTuple, DOMAIN cipher' = Cipher, DOMAIN ct' = CT,
         \A t \in KeyTuple : key'[t] = key[t] \/ Key(key'[t], gwabe', now'),
         \A c \in Cipher : cipher'[c] = cipher[c] \/ Sealed(cipher'[c], gwabe', now'),
         \A t \in CT : ct'[t] = ct[t] \/ Transformed(ct'[t], gwabe', now')
  PROVE  ObjectsInv'
<1>1. now \in Nat /\ now' \in Nat /\ now <= now' /\ now' \in 0..MaxTotal
  BY CallsAssumption DEF ObjectsInv
<1>2. gwabe.made \in Nat /\ gwabe.made <= now
  BY <1>1 DEF ObjectsInv, ParametersInv
<1>3. gwabe' = gwabe \/ (gwabe'.made \in Nat /\ gwabe.made < gwabe'.made)
  BY <1>1, <1>2
<1>4. /\ \A k : Key(k, gwabe, now) => Key(k, gwabe', now')
      /\ \A c : Sealed(c, gwabe, now) => Sealed(c, gwabe', now')
      /\ \A x : Transformed(x, gwabe, now) => Transformed(x, gwabe', now')
  BY <1>1, <1>2, <1>3, Later
<1>5. ParametersInv'
  BY <1>1, <1>2 DEF ObjectsInv, ParametersInv, Parameters, IsSet
<1>6. KeyInv'
  BY <1>4 DEF ObjectsInv, KeyInv, IsSet
<1>7. CipherInv'
  BY <1>4 DEF ObjectsInv, CipherInv, IsSet
<1>8. CtInv'
  BY <1>4 DEF ObjectsInv, CtInv, IsSet
<1>9. LsssInv'
  BY DEF ObjectsInv, LsssInv
<1> QED
  BY <1>1, <1>5, <1>6, <1>7, <1>8, <1>9 DEF ObjectsInv

LEMMA InitInv == Init => IInv
<1> SUFFICES ASSUME Init PROVE IInv
  OBVIOUS
<1>1. out.kind = "none"
  BY DEF Init, Empty, None
<1>2. KeyInv /\ CipherInv /\ CtInv
  BY DEF Init, Empty, KeyInv, CipherInv, CtInv, IsSet, Unset
<1>3. LsssInv
  BY DEF Init, LsssInv
<1>4. now \in 0..MaxTotal /\ ParametersInv
  BY CallsAssumption DEF Init, Empty, ParametersInv, IsSet, Unset
<1> QED
  BY <1>1, <1>2, <1>3, <1>4
    DEF IInv, ObjectsInv, OutInv, HonestDecrypts

LEMMA SetupInv == ASSUME IInv, now < MaxTotal, Setup PROVE IInv'
<1> DEFINE a == Random(call, 1)
           b == Random(call, 2)
           g == Random(call, 3)
           p == [made |-> call, g |-> g, gb |-> Times(g, b), egga |-> Times(Times(g, g), a),
                 ga |-> Times(g, a)]
<1>1. /\ now' = call /\ gwabe' = p /\ out' = None /\ UNCHANGED <<lsss, key, cipher, ct>>
  BY DEF Setup, Call
<1>2. call \in 1..MaxTotal /\ call = now + 1 /\ call \in now..MaxTotal
  BY CallsAssumption DEF IInv, ObjectsInv, call
<1>3. a \in Int /\ b \in Int /\ g \in Int /\ g \in Zr
  BY <1>2, DrawnFacts, Elements
<1> HIDE DEF a, b, g
<1>4. Times(g, b) \in Zr /\ Times(g, a) \in Zr /\ Times(g, a) \in Int
      /\ Same(Times(g, a), g * a)
  BY <1>3, TimesType
<1>5. Times(Times(g, g), a) \in Zr /\ Same(Times(Times(g, g), a), (g * g) * a)
  <2>1. Times(g, g) \in Int /\ Same(Times(g, g), g * g) /\ g * g \in Int /\ Same(a, a)
    BY <1>3, TimesType DEF Same
  <2> QED
    BY <1>3, <2>1, TimesSame
<1>6. Same(Times(Times(g, g), a), g * Times(g, a))
  <2>1. Same(g, g) /\ g * a \in Int
    BY <1>3 DEF Same
  <2>2. Same(g * Times(g, a), g * (g * a))
    BY <1>3, <1>4, <2>1, SameProduct
  <2>3. g * (g * a) = (g * g) * a
    BY <1>3
  <2> QED
    BY <1>5, <2>2, <2>3 DEF Same
<1>7. Parameters(p) /\ p.made = call
  BY <1>3, <1>4, <1>5, <1>6 DEF Parameters
<1> HIDE DEF p
<1>8. Parameters(gwabe)'
  BY <1>1, <1>7 DEF Parameters
<1>9. ObjectsInv'
  BY <1>1, <1>2, <1>7, <1>8, ObjectsLater DEF IInv, ObjectsInv, KeyInv, CipherInv, CtInv
<1>10. None.kind = "none"
  BY DEF None
<1> QED
  BY <1>1, <1>9, <1>10, StillGoes DEF IInv

\* What the other calls take from the parameters.
LEMMA SetFacts ==
  ASSUME IInv, IsSet(gwabe)
  PROVE  /\ gwabe.g \in Int /\ gwabe.gb \in Int /\ gwabe.egga \in Int /\ gwabe.ga \in Int
         /\ gwabe.made \in 1..gwabe.made
<1>1. Parameters(gwabe) /\ gwabe.made \in Nat /\ gwabe.made # 0
  BY DEF IInv, ObjectsInv, ParametersInv, IsSet
<1> QED
  BY <1>1, Elements DEF Parameters

LEMMA KeyGenInv ==
  ASSUME IInv, now < MaxTotal, NEW t \in KeyTuple, NEW S \in (SUBSET Attribute) \ {{}},
         KeyGen(t, S)
  PROVE  IInv'
<1> DEFINE r_1 == Random(call, 1)
           r_2 == Random(call, 2)
           inv_r_2 == Invert(r_2)
           old == IF IsSet(key[t]) THEN key[t].tk_att ELSE <<>>
           new == [x \in S |-> Times(Times(H(x), r_1), inv_r_2)]
           k == [made |-> call, setup |-> gwabe.made, attributes |-> S, r_2 |-> r_2,
                 tk_1 |-> (Times(gwabe.ga, inv_r_2) + Times(Times(gwabe.gb, r_1), inv_r_2)) % Order,
                 tk_2 |-> Times(Times(gwabe.g, r_1), inv_r_2),
                 tk_att |-> Kept(old, new)]
<1>1. /\ now' = call /\ IsSet(gwabe) /\ key' = [key EXCEPT ![t] = k]
      /\ out' = None /\ UNCHANGED <<gwabe, lsss, cipher, ct>>
  BY DEF KeyGen, Call
<1>2. call \in 1..MaxTotal /\ call = now + 1 /\ call \in now..MaxTotal /\ call \in 1..call
  BY CallsAssumption DEF IInv, ObjectsInv, call
<1>3. r_1 \in Int /\ r_2 \in Zr /\ inv_r_2 \in Int
  BY <1>2, DrawnFacts, DrawnInverse, Elements
<1>4. gwabe.ga \in Int /\ gwabe.gb \in Int /\ gwabe.g \in Int /\ gwabe.made \in 1..gwabe.made
  BY <1>1, SetFacts
<1>5. \A x \in DOMAIN old : old[x] \in Zr
  <2>1. CASE IsSet(key[t])
    BY <2>1 DEF IInv, ObjectsInv, KeyInv, Key
  <2>2. CASE ~IsSet(key[t])
    <3>1. DOMAIN old = {}
      BY <2>2
    <3> QED
      BY <3>1
  <2> QED
    BY <2>1, <2>2
<1>6. DOMAIN new = S /\ \A x \in S : new[x] \in Zr
  <2>1. ASSUME NEW x \in S PROVE Times(Times(H(x), r_1), inv_r_2) \in Zr
    <3>1. H(x) \in Int
      BY ElementsAssumption, Elements
    <3>2. Times(H(x), r_1) \in Int
      BY <1>3, <3>1, TimesType
    <3> QED
      BY <1>3, <3>2, TimesType
  <2> QED
    BY <2>1
<1>7. S \subseteq DOMAIN Kept(old, new) /\ \A x \in DOMAIN Kept(old, new) : Kept(old, new)[x] \in Zr
  <2> HIDE DEF old, new
  <2> QED
    BY <1>5, <1>6 DEF Kept
<1>8. k.tk_1 \in Zr /\ k.tk_2 \in Zr
  <2>1. Times(gwabe.gb, r_1) \in Int /\ Times(gwabe.g, r_1) \in Int
    BY <1>3, <1>4, TimesType
  <2>2. /\ Times(gwabe.ga, inv_r_2) \in Int /\ Times(Times(gwabe.gb, r_1), inv_r_2) \in Int
        /\ Times(Times(gwabe.g, r_1), inv_r_2) \in Zr
    BY <1>3, <1>4, <2>1, TimesType
  <2> QED
    BY <2>2, Mod
<1>9. KeyOf(k, gwabe, r_1, inv_r_2)
  BY DEF KeyOf
<1>10. /\ k.made = call /\ k.setup = gwabe.made /\ k.attributes = S /\ k.r_2 = r_2
       /\ k.tk_att = Kept(old, new)
  OBVIOUS
<1> HIDE DEF k, old, new
<1>11. Key(k, gwabe, call)
  BY <1>2, <1>3, <1>4, <1>7, <1>8, <1>9, <1>10 DEF Key
<1>12. DOMAIN key' = KeyTuple /\ \A u \in KeyTuple : key'[u] = key[u] \/ key'[u] = k
  BY <1>1 DEF IInv, ObjectsInv, KeyInv
<1>13. ObjectsInv'
  BY <1>1, <1>2, <1>11, <1>12, ObjectsLater DEF IInv, ObjectsInv, CipherInv, CtInv
<1>14. None.kind = "none"
  BY DEF None
<1> QED
  BY <1>1, <1>13, <1>14, StillGoes DEF IInv

\* The shares of a row of numbers are elements, one for each row of the matrix.
LEMMA SharesType ==
  ASSUME NEW p \in Policies, NEW v, Len(v) = Len(p.M[1]), Numbers(v, Len(p.M[1]))
  PROVE  Shares(p, v) \in [1..Len(p.M) -> Zr]
<1>1. /\ Len(p.M[1]) \in Nat /\ DOMAIN p.M = 1..Len(p.M)
      /\ \A r \in 1..Len(p.M) : Numbers(p.M[r], Len(p.M[1]))
  BY PolicyFacts
<1>2. \A r \in 1..Len(p.M) : Product(v, p.M[r], Len(v)) \in Zr
  BY <1>1, ProductType
<1> QED
  BY <1>1, <1>2 DEF Shares

\* Sequences of elements, by their length.
LEMMA RowsMake ==
  ASSUME NEW p \in Policies, NEW f \in [1..Len(p.M) -> Zr]
  PROVE  Fits(f, p) /\ <<>> \o f = f /\ Len(f) = Len(p.M)
<1>1. Len(p.M) \in Nat
  BY PolicyFacts
<1>2. f \in Seq(Zr) /\ Len(f) = Len(p.M)
  BY <1>1
<1>3. <<>> \o f = f
  BY <1>2
<1> QED
  BY <1>2, <1>3 DEF Fits

LEMMA EncryptInv ==
  ASSUME IInv, now < MaxTotal, NEW c \in Cipher, NEW ek \in Ek, NEW o \in Lsss,
         Encrypt(c, ek, o)
  PROVE  IInv' /\ (IsSet(cipher[c]) => cipher' = cipher)
<1> DEFINE policy == lsss[o]
           R == Random(call, 0)
           s == HashToZr(elementToHash(R), ek)
           v == <<s>> \o [j \in 1..(Len(policy.M[1]) - 1) |-> Random(call, j)]
           phi == [r \in DOMAIN policy.M |-> Random(call, 10 + r)]
           old == IF IsSet(cipher[c]) THEN cipher[c] ELSE Vectors
           shares == Shares(policy, v)
           joint == old.lambda \o shares
           dots == [r \in DOMAIN phi |-> Times(gwabe.g, phi[r])]
           ddots == [r \in DOMAIN phi |->
                      (gwabe.gb * joint[r] - Times(H(policy.rho[r]), phi[r])) % Order]
           new == [made |-> call, setup |-> gwabe.made, ek |-> ek, sealed |-> policy,
                   policy |-> o, lambda |-> joint,
                   c_1 |-> (Times(gwabe.egga, s) + R) % Order,
                   c_2 |-> xorHashes(elementToHash(R), ek),
                   c_3 |-> Times(gwabe.g, s),
                   dot_c |-> old.dot_c \o dots,
                   ddot_c |-> old.ddot_c \o ddots]
           width == Len(policy.M)
<1>1. /\ lsss[o] # Gone /\ IsSet(gwabe) /\ now' = call /\ UNCHANGED <<gwabe, lsss, key, ct>>
      /\ IF ~ Aligned(joint, policy)
         THEN out' = [kind |-> "abort"] /\ UNCHANGED cipher
         ELSE cipher' = [cipher EXCEPT ![c] = new] /\ out' = None
  BY DEF Encrypt, Call
<1>2. policy \in Policies /\ lsss[o] = policy
  BY <1>1 DEF IInv, ObjectsInv, LsssInv
<1>3. width \in Nat \ {0} /\ DOMAIN policy.M = 1..width
  BY <1>2, PolicyFacts
<1>4. call \in 1..MaxTotal /\ call = now + 1 /\ call \in now..MaxTotal /\ call \in 1..call
  BY CallsAssumption DEF IInv, ObjectsInv, call
<1>5. R \in Zr /\ s \in Zr /\ R \in Int /\ s \in Int
  <2>1. R \in Zr
    BY <1>4, DrawnFacts
  <2>2. s \in Zr
    BY <2>1, ElementsAssumption
  <2> QED
    BY <2>1, <2>2, Elements
<1>6. v = SharedRow(policy, call, s)
  BY DEF SharedRow
<1>7. /\ DOMAIN phi = 1..width /\ DOMAIN dots = 1..width /\ DOMAIN ddots = 1..width
      /\ \A r \in 1..width :
           /\ phi[r] = Random(call, 10 + r) /\ dots[r] = Times(gwabe.g, phi[r])
           /\ ddots[r] = (gwabe.gb * joint[r] - Times(H(policy.rho[r]), phi[r])) % Order
      /\ dots = [r \in 1..width |-> dots[r]] /\ ddots = [r \in 1..width |-> ddots[r]]
  BY <1>3
<1>8. /\ new.made = call /\ new.setup = gwabe.made /\ new.ek = ek
      /\ new.policy = o /\ new.sealed = policy /\ new.lambda = joint
      /\ new.c_1 = (Times(gwabe.egga, s) + R) % Order /\ new.c_3 = Times(gwabe.g, s)
      /\ new.c_2 = xorHashes(elementToHash(R), ek)
      /\ new.dot_c = old.dot_c \o dots /\ new.ddot_c = old.ddot_c \o ddots
      /\ joint = old.lambda \o shares
  OBVIOUS
<1>9. ~IsSet(cipher[c]) => old.lambda = <<>> /\ old.dot_c = <<>> /\ old.ddot_c = <<>>
  BY DEF Vectors
<1>10. IsSet(cipher[c]) => old = cipher[c]
  OBVIOUS
<1>11. gwabe.g \in Int /\ gwabe.gb \in Int /\ gwabe.egga \in Int /\ gwabe.made \in 1..gwabe.made
  BY <1>1, SetFacts
<1>12. R = Random(call, 0) /\ s = HashToZr(elementToHash(R), ek) /\ shares = Shares(policy, v)
  OBVIOUS
<1> HIDE DEF policy, R, s, v, phi, old, shares, dots, ddots, joint, new, width
<1>13. shares \in [1..width -> Zr]
  <2>1. Len(v) = Len(policy.M[1]) /\ Numbers(v, Len(policy.M[1]))
    BY <1>2, <1>4, <1>5, <1>6, SharedRowFacts
  <2> QED
    BY <1>2, <1>12, <2>1, SharesType DEF width
<1>14. ASSUME IsSet(cipher[c]) PROVE ~Aligned(joint, policy)
  <2>1. /\ old.lambda \in Seq(Zr) /\ Len(old.lambda) = Len(old.sealed.M)
        /\ old.sealed \in Policies
    BY <1>10, <1>14 DEF IInv, ObjectsInv, CipherInv, Sealed, Fits
  <2>2. Len(old.lambda) \in Nat \ {0}
    BY <2>1, PolicyFacts
  <2>3. shares \in Seq(Zr) /\ Len(shares) = width
    BY <1>3, <1>13
  <2>4. Len(old.lambda \o shares) = Len(old.lambda) + Len(shares)
    BY <2>1, <2>3, SMTT(30)
  <2>5. Len(joint) = Len(old.lambda) + Len(policy.M)
    BY <1>8, <2>3, <2>4 DEF width
  <2> DEFINE a == Len(old.lambda)
             b == Len(joint)
  <2>6. a \in Nat \ {0} /\ b = a + width /\ width \in Nat
    BY <1>3, <2>2, <2>5 DEF width
  <2> HIDE DEF a, b
  <2>7. b # width
    BY <2>6
  <2> QED
    BY <2>7 DEF Aligned, b, width
<1>15. CASE ~Aligned(joint, policy)
  <2>1. /\ out'.kind = "abort" /\ UNCHANGED <<gwabe, lsss, key, cipher, ct>>
    BY <1>1, <1>15
  <2>2. ObjectsInv'
    BY <1>1, <1>4, <2>1, ObjectsLater DEF IInv, ObjectsInv, KeyInv, CipherInv, CtInv
  <2> QED
    BY <2>1, <2>2 DEF IInv, OutInv, HonestDecrypts
<1>16. CASE Aligned(joint, policy)
  <2>1. cipher' = [cipher EXCEPT ![c] = new] /\ out' = None
    BY <1>1, <1>16
  <2>2. ~IsSet(cipher[c])
    BY <1>14, <1>16
  <2>3. joint = shares
    BY <1>2, <1>8, <1>9, <1>13, <2>2, RowsMake DEF width
  <2>4. ASSUME NEW r \in 1..width
        PROVE  /\ Times(gwabe.g, phi[r]) \in Zr
               /\ (gwabe.gb * joint[r] - Times(H(policy.rho[r]), phi[r])) % Order \in Zr
    <3>1. phi[r] \in Int /\ joint[r] \in Int /\ H(policy.rho[r]) \in Int
      <4>1. phi[r] \in Zr
        BY <1>2, <1>3, <1>4, <1>7, DrawnFacts
      <4>2. policy.rho[r] \in Attribute
        BY <1>2, PolicyFacts DEF width
      <4>3. H(policy.rho[r]) \in Zr /\ joint[r] \in Zr
        BY <1>13, <2>3, <4>2, ElementsAssumption
      <4> QED
        BY <4>1, <4>3, Elements
    <3>2. Times(gwabe.g, phi[r]) \in Zr /\ Times(H(policy.rho[r]), phi[r]) \in Int
      BY <1>11, <3>1, TimesType
    <3>3. gwabe.gb * joint[r] - Times(H(policy.rho[r]), phi[r]) \in Int
      BY <1>11, <3>1, <3>2
    <3> QED
      BY <3>2, <3>3, Mod
  <2>5. dots \in [1..width -> Zr] /\ ddots \in [1..width -> Zr]
    <3>1. \A r \in 1..width : dots[r] \in Zr /\ ddots[r] \in Zr
      BY <1>7, <2>4
    <3> QED
      BY <1>7, <3>1
  <2>6. new.lambda = shares /\ new.dot_c = dots /\ new.ddot_c = ddots
    BY <1>2, <1>8, <1>9, <2>2, <2>3, <2>5, RowsMake DEF width
  <2>7. Fits(shares, policy) /\ Fits(dots, policy) /\ Fits(ddots, policy)
    BY <1>2, <1>13, <2>5, RowsMake DEF width
  <2>8. new.c_1 \in Zr /\ new.c_3 \in Zr
    <3>1. Times(gwabe.egga, s) \in Int /\ Times(gwabe.g, s) \in Zr
      BY <1>5, <1>11, TimesType
    <3> QED
      BY <1>5, <1>8, <3>1, Mod
  <2>9. Mask(new) = R /\ Secret(new) = s /\ Shared(new) = v
    <3>1. Mask(new) = R
      BY <1>8, <1>12 DEF Mask
    <3>2. Secret(new) = s
      BY <1>8, <1>12, <3>1 DEF Secret
    <3> QED
      BY <1>6, <1>8, <3>1, <3>2 DEF Shared
  <2>10. CipherOf(new, gwabe)
    <3>1. DOMAIN new.sealed.M = 1..width
      BY <1>3, <1>8
    <3>2. \A r \in 1..width :
            /\ dots[r] = Times(gwabe.g, Random(call, 10 + r))
            /\ ddots[r] = (gwabe.gb * shares[r]
                              - Times(H(policy.rho[r]), Random(call, 10 + r))) % Order
      BY <1>7, <2>3
    <3> QED
      BY <1>8, <2>6, <2>9, <3>1, <3>2 DEF CipherOf
  <2>11. new.policy \in Lsss /\ new.ek \in Ek /\ new.sealed \in Policies
    BY <1>2, <1>8
  <2>12. new.lambda = Shares(new.sealed, Shared(new))
    BY <1>8, <1>12, <2>6, <2>9
  <2>13. new.c_2 = xorHashes(elementToHash(Mask(new)), new.ek)
    BY <1>8, <2>9
  <2>14. new.made \in 1..call /\ new.setup \in 1..gwabe.made
    BY <1>4, <1>8, <1>11
  <2>15. Sealed(new, gwabe, call)
    BY <1>8, <2>6, <2>7, <2>8, <2>10, <2>11, <2>12, <2>13, <2>14 DEF Sealed
  <2>16. DOMAIN cipher' = Cipher /\ \A b \in Cipher : cipher'[b] = cipher[b] \/ cipher'[b] = new
    BY <2>1 DEF IInv, ObjectsInv, CipherInv
  <2>17. ObjectsInv'
    BY <1>1, <1>4, <2>15, <2>16, ObjectsLater DEF IInv, ObjectsInv, KeyInv, CtInv
  <2>18. None.kind = "none"
    BY DEF None
  <2> QED
    BY <2>1, <2>2, <2>17, <2>18, StillGoes DEF IInv
<1> QED
  BY <1>1, <1>14, <1>15, <1>16

LEMMA TransformInv ==
  ASSUME IInv, now < MaxTotal, NEW t \in CT, NEW k \in KeyTuple, NEW c \in Cipher,
         Transform(t, k, c, Weights(k, c))
  PROVE  IInv'
<1> DEFINE tk == key[k]
           policy == lsss[cipher[c].policy]
           readable == policy # Gone /\ ~Outside(tk, cipher[c], policy)
           denominator == Denominator(tk, cipher[c], policy, Weights(k, c))
           new == [made |-> call,
                   ct_1 |-> cipher[c].c_1,
                   ct_2 |-> cipher[c].c_2,
                   ct_3 |-> (Times(cipher[c].c_3, tk.tk_1) - denominator) % Order,
                   tk |-> tk, from |-> cipher[c], under |-> policy]
<1>1. /\ IsSet(tk) /\ IsSet(cipher[c]) /\ now' = call /\ UNCHANGED <<gwabe, lsss, key, cipher>>
      /\ \/ out' = [kind |-> "undefined"] /\ UNCHANGED ct
         \/ Missing(tk, policy) /\ out' = [kind |-> "exception"] /\ UNCHANGED ct
         \/ readable /\ ct' = [ct EXCEPT ![t] = new] /\ out' = None
  BY DEF Transform, Call
<1>2. call \in now..MaxTotal /\ call = now + 1
  BY CallsAssumption DEF IInv, ObjectsInv, call
<1>3. Key(tk, gwabe, now) /\ Sealed(cipher[c], gwabe, now)
  BY <1>1 DEF IInv, ObjectsInv, KeyInv, CipherInv
<1>4. ~Missing(tk, policy)
  BY <1>3 DEF Key, Missing
<1>5. policy \in Policies \cup {Gone}
  BY <1>3 DEF Sealed, IInv, ObjectsInv, LsssInv
<1>6. CASE UNCHANGED ct /\ out' = [kind |-> "undefined"]
  <2>1. OutInv' /\ HonestDecrypts'
    BY <1>6 DEF OutInv, HonestDecrypts
  <2> HIDE DEF readable, policy, tk, denominator, new
  <2>2. ObjectsInv'
    BY <1>1, <1>2, <1>6, ObjectsLater DEF IInv, ObjectsInv, KeyInv, CipherInv, CtInv
  <2> QED
    BY <2>1, <2>2 DEF IInv
<1>7. CASE readable /\ ct' = [ct EXCEPT ![t] = new] /\ out' = None
  <2>1. policy \in Policies /\ ~Outside(tk, cipher[c], policy)
    BY <1>5, <1>7
  <2>2. Weights(k, c) = findVector(policy, tk.attributes)
    BY <1>1, <1>7 DEF Weights
  <2>3. denominator = Denominator(tk, cipher[c], policy, findVector(policy, tk.attributes))
    BY <2>2
  <2>4. /\ new.made = call /\ new.tk = tk /\ new.from = cipher[c] /\ new.ct_1 = cipher[c].c_1
        /\ new.ct_2 = cipher[c].c_2 /\ new.under = policy
        /\ new.ct_3 = (Times(cipher[c].c_3, tk.tk_1) - denominator) % Order
    OBVIOUS
  <2> HIDE DEF readable, policy, tk, denominator, new
  <2>5. denominator \in Int
    BY <1>3, <2>1, <2>3, DenominatorType, Elements
  <2>6. new.ct_3 \in Zr
    <3>1. cipher[c].c_3 \in Int /\ tk.tk_1 \in Int
      BY <1>3, Elements DEF Key, Sealed
    <3>2. Times(cipher[c].c_3, tk.tk_1) \in Int
      BY <3>1, TimesType
    <3> QED
      BY <2>4, <2>5, <3>2, Mod
  <2>7. new.under = new.from.sealed =>
          new.ct_3 =
            (Times(new.from.c_3, new.tk.tk_1)
               - Denominator(new.tk, new.from, new.from.sealed,
                             findVector(new.from.sealed, new.tk.attributes))) % Order
    BY <2>3, <2>4
  <2>8. Transformed(new, gwabe, now)
    BY <1>3, <2>4, <2>6, <2>7 DEF Transformed
  <2>9. Transformed(new, gwabe, call)
    <3>1. now \in Nat /\ call \in Nat /\ now <= call /\ gwabe.made \in Nat
      BY <1>2, CallsAssumption DEF IInv, ObjectsInv, ParametersInv
    <3> QED
      BY <2>8, <3>1, Later
  <2>10. DOMAIN ct' = CT /\ \A u \in CT : ct'[u] = ct[u] \/ ct'[u] = new
    BY <1>7 DEF IInv, ObjectsInv, CtInv
  <2>11. ObjectsInv'
    BY <1>1, <1>2, <2>9, <2>10, ObjectsLater DEF IInv, ObjectsInv, KeyInv, CipherInv
  <2>12. None.kind = "none"
    BY DEF None
  <2> QED
    BY <1>7, <2>11, <2>12, StillGoes DEF IInv
<1> QED
  BY <1>1, <1>4, <1>6, <1>7

LEMMA DecryptInv ==
  ASSUME IInv, NEW k \in KeyTuple, NEW t \in CT, Decrypt(k, t) PROVE IInv'
<1> DEFINE denominator == Times(ct[t].ct_3, key[k].r_2)
           R == (ct[t].ct_1 - denominator) % Order
           ek == xorHashes(elementToHash(R), ct[t].ct_2)
           s == HashToZr(elementToHash(R), ek)
<1>1. /\ IsSet(key[k]) /\ IsSet(ct[t]) /\ UNCHANGED <<gwabe, lsss, key, cipher, ct, now>>
      /\ out' = [kind |-> IF Matches(s, R, denominator, ct[t]) THEN "ek" ELSE "exit",
                 ek |-> ek, key |-> k, ct |-> t]
  BY DEF Decrypt
<1>2. Key(key[k], gwabe, now) /\ Transformed(ct[t], gwabe, now)
  BY <1>1 DEF IInv, ObjectsInv, KeyInv, CtInv
<1>3. ASSUME ~Matches(s, R, denominator, ct[t]),
             Accepts(ct[t].from.sealed, ct[t].tk.attributes), ct[t].from.ek.full,
             key[k].made = ct[t].tk.made, ct[t].tk.setup = ct[t].from.setup,
             ct[t].from.setup = gwabe.made, MadeTogether(ct[t].tk, ct[t].from.sealed),
             ct[t].under = ct[t].from.sealed
      PROVE  FALSE
  <2>1. gwabe.made # 0
    BY <1>2, <1>3 DEF Transformed, Sealed, IInv, ObjectsInv, ParametersInv
  <2>2. Parameters(gwabe) /\ now \in 0..MaxTotal
    BY <2>1 DEF IInv, ObjectsInv, ParametersInv, IsSet
  <2> QED
    BY <1>2, <1>3, <2>2, HonestMatches
<1>4. /\ out'.kind = IF Matches(s, R, denominator, ct[t]) THEN "ek" ELSE "exit"
      /\ out'.key = k /\ out'.ct = t
  BY <1>1
<1> HIDE DEF denominator, R, ek, s
<1>5. HonestDecrypts'
  <2>1. (sealed = ct[t].from)' /\ (tkUsed = ct[t].tk)' /\ (skUsed = key[k])'
    BY <1>4 DEF sealed, tkUsed, skUsed
  <2>2. UNCHANGED <<gwabe, key, ct>>
    BY <1>1
  <2>3. MadeTogether(ct[t].tk, ct[t].from.sealed)' = MadeTogether(ct[t].tk, ct[t].from.sealed)
    BY <2>2 DEF MadeTogether
  <2> QED
    BY <1>3, <1>4, <2>1, <2>2, <2>3 DEF HonestDecrypts
<1>6. OutInv'
  BY <1>4 DEF OutInv
<1>7. ObjectsInv'
  BY <1>1, ObjectsLater DEF IInv, ObjectsInv, KeyInv, CipherInv, CtInv
<1> QED
  BY <1>5, <1>6, <1>7 DEF IInv

\* What becomes of an LSSS object changes nothing that was made with it.
LEMMA ChangeInv ==
  ASSUME IInv, NEW o \in Lsss,
         (\E p \in Policies : Initialize(o, p) \/ Assign(o, p)) \/ Destroy(o)
  PROVE  IInv'
<1>1. /\ out.kind \in {"none", "ek"}
      /\ \E q \in Policies \cup {Gone} : lsss' = [lsss EXCEPT ![o] = q]
      /\ UNCHANGED <<gwabe, key, cipher, ct, now, out>>
  BY DEF Initialize, Assign, Destroy, Goes
<1>2. LsssInv'
  BY <1>1 DEF IInv, ObjectsInv, LsssInv
<1>3. ParametersInv' /\ KeyInv' /\ CipherInv' /\ CtInv' /\ now' \in 0..MaxTotal
  BY <1>1 DEF IInv, ObjectsInv, ParametersInv, Parameters, KeyInv, CipherInv, CtInv
<1> QED
  BY <1>1, <1>2, <1>3, StillGoes DEF IInv, ObjectsInv

LEMMA NextInv == IInv /\ [Next]_allVars => IInv'
<1> SUFFICES ASSUME IInv, [Next]_allVars PROVE IInv'
  OBVIOUS
<1>1. CASE UNCHANGED allVars
  <2>1. UNCHANGED <<gwabe, lsss, key, cipher, ct, now, out>>
    BY <1>1 DEF allVars, vars
  <2>2. ObjectsInv'
    BY <2>1 DEF IInv, ObjectsInv, ParametersInv, Parameters, KeyInv, LsssInv, CipherInv, CtInv
  <2>3. OutInv'
    BY <2>1 DEF IInv, OutInv
  <2>4. HonestDecrypts'
    BY <2>1 DEF IInv, HonestDecrypts, sealed, tkUsed, skUsed, MadeTogether
  <2> QED
    BY <2>2, <2>3, <2>4 DEF IInv
<1>2. CASE \E o \in Lsss, p \in Policies : Initialize(o, p) \/ Assign(o, p)
  BY <1>2, ChangeInv
<1>3. CASE \E o \in Lsss : Destroy(o)
  BY <1>3, ChangeInv
<1>4. CASE Next
  BY <1>2, <1>3, <1>4, SetupInv, KeyGenInv, EncryptInv, TransformInv, DecryptInv
    DEF Next, Counted
<1> QED
  BY <1>1, <1>4

-----------------------------------------------------------------------------
(* Theorems.                                                               *)

\* The strings of bits that Encrypt makes.
LEMMA BitsType ==
  ASSUME NEW R \in Zr, NEW e \in Ek
  PROVE  IsBits(xorHashes(elementToHash(R), e))
BY DEF IsBits, xorHashes, elementToHash

\* The objects of the invariant are of the types they should have.
LEMMA ObjectsType == IInv => TypeOK
<1> SUFFICES ASSUME IInv PROVE TypeOK
  OBVIOUS
<1>1. ASSUME IsSet(gwabe) PROVE {gwabe.g, gwabe.gb, gwabe.egga, gwabe.ga} \subseteq Zr
  BY <1>1 DEF IInv, ObjectsInv, ParametersInv, Parameters
<1>2. now \in 0..MaxTotal
  BY DEF IInv, ObjectsInv
<1>3. ASSUME NEW k, Key(k, gwabe, now)
      PROVE  /\ k.attributes \subseteq DOMAIN k.tk_att
             /\ {k.r_2, k.tk_1, k.tk_2} \cup Range(k.tk_att) \subseteq Zr
  <2>1. k.made \in 1..MaxTotal
    BY <1>2, <1>3, CallsAssumption DEF Key
  <2>2. k.r_2 \in Zr
    BY <1>3, <2>1, DrawnFacts DEF Key
  <2>3. Range(k.tk_att) \subseteq Zr
    BY <1>3 DEF Key, Range
  <2> QED
    BY <1>3, <2>2, <2>3 DEF Key
<1>4. ASSUME NEW c, Sealed(c, gwabe, now)
      PROVE  /\ Range(c.lambda) \cup {c.c_1, c.c_3} \subseteq Zr
             /\ Range(c.dot_c) \cup Range(c.ddot_c) \subseteq Zr
             /\ IsBits(c.c_2)
  <2>1. /\ c.c_1 \in Zr /\ c.c_3 \in Zr /\ c.ek \in Ek
        /\ c.lambda \in Seq(Zr) /\ c.dot_c \in Seq(Zr) /\ c.ddot_c \in Seq(Zr)
        /\ c.c_2 = xorHashes(elementToHash(Mask(c)), c.ek)
    BY <1>4 DEF Sealed, Fits
  <2>2. \A v \in Seq(Zr) : Range(v) \subseteq Zr
    BY DEF Range
  <2>3. Mask(c) \in Zr
    BY <1>2, <1>4, SharedFacts
  <2> QED
    BY <2>1, <2>2, <2>3, BitsType
<1>5. ASSUME NEW x, Transformed(x, gwabe, now)
      PROVE  {x.ct_1, x.ct_3} \subseteq Zr /\ IsBits(x.ct_2)
  <2>1. Sealed(x.from, gwabe, now) /\ x.ct_1 = x.from.c_1 /\ x.ct_2 = x.from.c_2 /\ x.ct_3 \in Zr
    BY <1>5 DEF Transformed
  <2> QED
    BY <1>4, <2>1
<1>6. \A t \in KeyTuple : IsSet(key[t]) => Key(key[t], gwabe, now)
  BY DEF IInv, ObjectsInv, KeyInv
<1>7. \A c \in Cipher : IsSet(cipher[c]) => Sealed(cipher[c], gwabe, now)
  BY DEF IInv, ObjectsInv, CipherInv
<1>8. \A t \in CT : IsSet(ct[t]) => Transformed(ct[t], gwabe, now)
  BY DEF IInv, ObjectsInv, CtInv
<1>9. out.kind \in {"none", "ek", "exit", "abort", "exception", "undefined"}
  BY DEF IInv, OutInv
<1> QED
  BY <1>1, <1>3, <1>4, <1>5, <1>6, <1>7, <1>8, <1>9, Zenon DEF TypeOK

\* Every element the program keeps is one of the group, and every string of bits
\* is what is hashed from one and a string that was encrypted: for all policies,
\* attributes, objects and numbers of calls (GWABE.cpp:30-380).
THEOREM CallsTypeOK == Spec => []TypeOK
<1>1. Init => IInv
  BY InitInv
<1>2. IInv /\ [Next]_allVars => IInv'
  BY NextInv
<1>3. IInv => TypeOK
  BY ObjectsType
<1> QED
  BY <1>1, <1>2, <1>3, PTL DEF Spec

\* The scheme is correct: for every order of Zr, every pairing, every policy whose
\* rows findVector can put together and everything that is drawn, a key of the same
\* Setup as the ciphertext and with attributes its policy admits opens it, whatever
\* was called before, if Transform found that policy behind the ciphertext's pointer
\* (GWABE.cpp:30-380).
THEOREM CallsHonestDecrypts == Spec => []HonestDecrypts
<1>1. Init => IInv
  BY InitInv
<1>2. IInv /\ [Next]_allVars => IInv'
  BY NextInv
<1>3. IInv => HonestDecrypts
  BY DEF IInv
<1> QED
  BY <1>1, <1>2, <1>3, PTL DEF Spec

\* A ciphertext is written once: Encrypt into a used object is stopped by the
\* assertion on its shares (GWABE.cpp:215), whatever the two policies are.
THEOREM CallsWriteOnce ==
  Spec => [][\A c \in Cipher : IsSet(cipher[c]) => cipher'[c] = cipher[c]]_allVars
<1> DEFINE Once == \A c \in Cipher : IsSet(cipher[c]) => cipher'[c] = cipher[c]
<1>1. IInv /\ [Next]_allVars => [Once]_allVars
  <2> SUFFICES ASSUME IInv, Next PROVE Once
    OBVIOUS
  <2>1. CASE now < MaxTotal /\ \E c \in Cipher, ek \in Ek, o \in Lsss : Encrypt(c, ek, o)
    <3>1. PICK c \in Cipher, ek \in Ek, o \in Lsss : now < MaxTotal /\ Encrypt(c, ek, o)
      BY <2>1
    <3>2. IsSet(cipher[c]) => cipher' = cipher
      BY <3>1, EncryptInv
    <3>3. \A b \in Cipher \ {c} : cipher'[b] = cipher[b]
      BY <3>1 DEF Encrypt, IInv, ObjectsInv, CipherInv
    <3> QED
      BY <3>2, <3>3
  <2>2. CASE UNCHANGED cipher
    BY <2>2
  <2> QED
    BY <2>1, <2>2 DEF Next, Counted, Setup, KeyGen, Transform, Decrypt,
                          Initialize, Assign, Destroy
<1>2. Init => IInv
  BY InitInv
<1>3. IInv /\ [Next]_allVars => IInv'
  BY NextInv
<1> QED
  BY <1>1, <1>2, <1>3, PTL DEF Spec
=============================================================================
