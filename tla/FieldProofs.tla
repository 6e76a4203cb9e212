---------------------------- MODULE FieldProofs ----------------------------
(***************************************************************************)
(* Arithmetic in Zr and the sums of products that loops over it make.      *)
(*                                                                         *)
(* The prover has no induction over data as such, but the natural numbers  *)
(* are well founded (NatLessThanWellFounded) and that gives induction for  *)
(* a set of numbers: enough for such a sum.                                *)
(***************************************************************************)
EXTENDS Field, WellFoundedInduction, TLAPS

-----------------------------------------------------------------------------
(* Arithmetic in Zr.                                                       *)

\* A rest is an element of Zr, and a number its rest and a multiple of Order.
LEMMA Mod ==
  ASSUME NEW a \in Int
  PROVE  a % Order \in Zr /\ \E q \in Int : a = q * Order + (a % Order)
<1>1. Order \in Nat /\ Order > 0
  BY OrderAssumption
<1>2. a % Order \in 0..(Order - 1)
  BY <1>1
<1>3. a = (a \div Order) * Order + (a % Order) /\ a \div Order \in Int
  BY <1>1
<1> QED
  BY <1>2, <1>3 DEF Zr

\* Only one element of Zr is the rest of a number.
LEMMA ModUnique ==
  ASSUME NEW q \in Int, NEW r \in Zr
  PROVE  (q * Order + r) % Order = r
<1>1. Order \in Nat /\ Order > 0 /\ r \in Nat /\ r < Order
  BY OrderAssumption DEF Zr
<1> DEFINE a == q * Order + r
           s == a % Order
<1>2. a \in Int
  BY <1>1
<1>3. PICK p \in Int : a = p * Order + s
  BY <1>2, Mod
<1>4. s \in Nat /\ s < Order
  BY <1>2, Mod, <1>1 DEF Zr
<1> HIDE DEF s
<1>5. (q - p) * Order = s - r
  BY <1>1, <1>3, <1>4
<1>6. q = p
  <2>1. CASE q - p >= 1
    BY <1>1, <1>4, <1>5, <2>1
  <2>2. CASE q - p <= -1
    BY <1>1, <1>4, <1>5, <2>2
  <2> QED
    BY <2>1, <2>2
<1>7. s = r
  BY <1>1, <1>3, <1>4, <1>6
<1> QED
  BY <1>7 DEF s

\* Numbers that differ by a multiple of Order have the same rest.
LEMMA ModPeriod ==
  ASSUME NEW a \in Int, NEW b \in Int, NEW q \in Int, b = a + q * Order
  PROVE  b % Order = a % Order
<1>1. a % Order \in Zr
  BY Mod
<1> DEFINE r == a % Order
<1>2. PICK p \in Int : a = p * Order + r
  BY Mod
<1> HIDE DEF r
<1>3. Order \in Nat /\ r \in Int /\ r \in Zr
  BY <1>1, OrderAssumption DEF Zr, r
<1>4. (p + q) * Order = p * Order + q * Order
  BY <1>3
<1>5. b = (p + q) * Order + r
  BY <1>2, <1>3, <1>4
<1>6. b % Order = r
  <2>1. p + q \in Int
    OBVIOUS
  <2>2. ((p + q) * Order + r) % Order = r
    BY <1>3, <2>1, ModUnique
  <2> QED
    BY <1>5, <2>2
<1> QED
  BY <1>6 DEF r

\* The rests of the summands and factors may be taken first.
LEMMA Rests ==
  ASSUME NEW a \in Int, NEW y \in Int, NEW b \in Int, NEW z \in Int
  PROVE  (a * (y % Order) + b * (z % Order)) % Order = (a * y + b * z) % Order
<1> DEFINE r == y % Order
           s == z % Order
<1>1. Order \in Int /\ r \in Int /\ s \in Int
  BY OrderAssumption, Mod DEF Zr
<1>2. PICK p \in Int : y = p * Order + r
  BY Mod
<1>3. PICK q \in Int : z = q * Order + s
  BY Mod
<1> HIDE DEF r, s
<1>4. a * y = (a * p) * Order + a * r /\ b * z = (b * q) * Order + b * s
  BY <1>1, <1>2, <1>3
<1>5. a * p \in Int /\ b * q \in Int /\ a * r \in Int /\ b * s \in Int
  BY <1>1
<1>6. a * y + b * z = (a * r + b * s) + (a * p + b * q) * Order
  BY <1>1, <1>4, <1>5
<1>7. (a * y + b * z) % Order = (a * r + b * s) % Order
  <2>1. a * y + b * z \in Int /\ a * r + b * s \in Int /\ a * p + b * q \in Int
    BY <1>1, <1>5
  <2> QED
    BY <1>6, <2>1, ModPeriod
<1> QED
  BY <1>7 DEF r, s

\* Elements of Zr are numbers and their own rests.
LEMMA Elements == \A z \in Zr : z \in Int /\ z >= 0 /\ z < Order /\ z % Order = z
BY OrderAssumption DEF Zr

\* Numbers with the same rest.
Same(a, b) == a % Order = b % Order

\* They differ by a multiple of Order.
LEMMA SameDiffer ==
  ASSUME NEW a \in Int, NEW b \in Int, Same(a, b)
  PROVE  \E q \in Int : a = b + q * Order
<1> DEFINE r == a % Order
<1>1. PICK p \in Int : a = p * Order + r
  BY Mod
<1>2. PICK q \in Int : b = q * Order + r
  BY Mod DEF Same
<1>3. Order \in Int /\ r \in Int
  BY OrderAssumption, Mod DEF Zr
<1> HIDE DEF r
<1>4. a = b + (p - q) * Order /\ p - q \in Int
  BY <1>1, <1>2, <1>3
<1> QED
  BY <1>4

\* A number and its rest.
LEMMA SameRest == \A a \in Int : a % Order \in Int /\ Same(a % Order, a)
BY Mod, Elements DEF Same

\* The same calculation with numbers of the same rests has the same rest.
LEMMA SameSum ==
  ASSUME NEW a \in Int, NEW b \in Int, NEW c \in Int, NEW d \in Int, Same(a, c), Same(b, d)
  PROVE  Same(a + b, c + d)
<1>1. PICK p \in Int : a = c + p * Order
  BY SameDiffer
<1>2. PICK q \in Int : b = d + q * Order
  BY SameDiffer
<1>3. a + b = (c + d) + (p + q) * Order
  BY <1>1, <1>2, OrderAssumption
<1>4. a + b \in Int /\ c + d \in Int /\ p + q \in Int
  OBVIOUS
<1> QED
  BY <1>3, <1>4, ModPeriod DEF Same

LEMMA SameDifference ==
  ASSUME NEW a \in Int, NEW b \in Int, NEW c \in Int, NEW d \in Int, Same(a, c), Same(b, d)
  PROVE  Same(a - b, c - d)
<1>1. PICK p \in Int : a = c + p * Order
  BY SameDiffer
<1>2. PICK q \in Int : b = d + q * Order
  BY SameDiffer
<1>3. a - b = (c - d) + (p - q) * Order
  BY <1>1, <1>2, OrderAssumption
<1>4. a - b \in Int /\ c - d \in Int /\ p - q \in Int
  OBVIOUS
<1> QED
  BY <1>3, <1>4, ModPeriod DEF Same

LEMMA SameProduct ==
  ASSUME NEW a \in Int, NEW b \in Int, NEW c \in Int, NEW d \in Int, Same(a, c), Same(b, d)
  PROVE  Same(a * b, c * d)
<1>1. PICK p \in Int : a = c + p * Order
  BY SameDiffer
<1>2. PICK q \in Int : b = d + q * Order
  BY SameDiffer
<1>3. a * b = c * d + (c * q + p * b) * Order
  <2>1. a * b = c * b + (p * Order) * b
    BY <1>1, OrderAssumption
  <2>2. c * b = c * d + c * (q * Order)
    BY <1>2, OrderAssumption
  <2>3. (c * q + p * b) * Order = c * (q * Order) + (p * Order) * b
    BY OrderAssumption
  <2> QED
    BY <2>1, <2>2, <2>3, OrderAssumption
<1>4. a * b \in Int /\ c * d \in Int /\ c * q + p * b \in Int
  OBVIOUS
<1> QED
  BY <1>3, <1>4, ModPeriod DEF Same

-----------------------------------------------------------------------------
(* Induction over the natural numbers.                                     *)

\* A set of natural numbers that is not empty has a least one.
LEMMA LeastNumber ==
  ASSUME NEW T, T \subseteq Nat, T # {}
  PROVE  \E x \in T : \A y \in T : x <= y
<1> DEFINE R == {p \in Nat \X Nat : p[1] < p[2]}
<1>1. IsWellFoundedOn(R, Nat)
  BY NatLessThanWellFounded DEF OpToRel
<1>2. \A x, y \in Nat : y < x => <<y, x>> \in R
  OBVIOUS
<1> HIDE DEF R
<1>3. PICK x \in T : \A y \in T : ~(<<y, x>> \in R)
  BY <1>1, WFMin
<1>4. \A y \in T : y \in Nat /\ x \in Nat /\ ~(y < x)
  BY <1>2, <1>3
<1>5. \A y \in T : x <= y
  BY <1>4
<1> QED
  BY <1>5

\* A set that holds zero and with every number the next one holds them all.
LEMMA Induction ==
  ASSUME NEW S, 0 \in S, \A n \in Nat : n \in S => n + 1 \in S
  PROVE  Nat \subseteq S
<1> SUFFICES ASSUME Nat \ S # {} PROVE FALSE
  OBVIOUS
<1>1. PICK x \in Nat \ S : \A y \in Nat \ S : x <= y
  BY LeastNumber
<1>2. x # 0 /\ x - 1 \in Nat /\ x - 1 \in S
  BY <1>1
<1> QED
  BY <1>1, <1>2

-----------------------------------------------------------------------------
(* Scalar products.                                                        *)

\* The sums of the first products of v and x.
Sums(v, x, n, s) ==
  /\ s \in [0..n -> Zr]
  /\ s[0] = 0
  /\ \A c \in 1..n : s[c] = (s[c - 1] + v[c] * x[c]) % Order

\* Every two rows of numbers have partial sums: by induction on their length.
LEMMA SumsExist ==
  ASSUME NEW v, NEW x, NEW n \in Nat, \A c \in 1..n : v[c] \in Int /\ x[c] \in Int
  PROVE  \E s : Sums(v, x, n, s)
<1>1. Order \in Nat /\ Order > 1 /\ 0 \in Zr /\ Zr \subseteq Nat
  BY OrderAssumption DEF Zr
<1> DEFINE S == {m \in Nat : m <= n => \E s : Sums(v, x, m, s)}
<1>2. 0 \in S
  <2>1. Sums(v, x, 0, [c \in 0..0 |-> 0])
    BY <1>1 DEF Sums
  <2> QED
    BY <2>1
<1>3. ASSUME NEW m \in Nat, m \in S PROVE m + 1 \in S
  <2> SUFFICES ASSUME m + 1 <= n PROVE \E s : Sums(v, x, m + 1, s)
    OBVIOUS
  <2>1. PICK s : Sums(v, x, m, s)
    BY <1>3
  <2> DEFINE w == (s[m] + v[m + 1] * x[m + 1]) % Order
             t == [c \in 0..(m + 1) |-> IF c <= m THEN s[c] ELSE w]
  <2>2. w \in Zr
    <3>1. m + 1 \in 1..n /\ s[m] \in Zr
      BY <2>1 DEF Sums
    <3>2. v[m + 1] \in Int /\ x[m + 1] \in Int /\ s[m] \in Nat
      BY <1>1, <3>1
    <3>3. s[m] + v[m + 1] * x[m + 1] \in Int
      BY <3>2
    <3> QED
      BY <1>1, <3>3 DEF Zr
  <2> HIDE DEF w
  <2>3. t \in [0..(m + 1) -> Zr] /\ t[0] = 0
    BY <2>1, <2>2 DEF Sums
  <2>4. ASSUME NEW c \in 1..(m + 1) PROVE t[c] = (t[c - 1] + v[c] * x[c]) % Order
    <3>1. CASE c <= m
      BY <2>1, <3>1 DEF Sums
    <3>2. CASE c = m + 1
      BY <2>1, <3>2 DEF Sums, w
    <3> QED
      BY <3>1, <3>2
  <2> HIDE DEF t
  <2>5. Sums(v, x, m + 1, t)
    BY <2>3, <2>4 DEF Sums
  <2> QED
    BY <2>5
<1> HIDE DEF S
<1>4. Nat \subseteq S
  BY <1>2, <1>3, Induction
<1>5. n \in S
  BY <1>4
<1> QED
  BY <1>5 DEF S

\* One more summand; a sum of multiples.
Add(s, v, x) == (s + v * x) % Order
Combine(a, v, b, u) == (a * v + b * u) % Order

\* Adding a product to two sums and then combining them, or the other way round.
LEMMA CombineSums ==
  ASSUME NEW a, NEW b, NEW s, NEW t, NEW v, NEW u, NEW x,
         a \in Int, b \in Int, s \in Int, t \in Int, v \in Int, u \in Int, x \in Int
  PROVE  Combine(a, Add(s, v, x), b, Add(t, u, x))
           = Add(Combine(a, s, b, t), Combine(a, v, b, u), x)
<1> DEFINE y == s + v * x
           z == t + u * x
           e == a * s + b * t
           f == a * v + b * u
<1>1. y \in Int /\ z \in Int /\ e \in Int /\ f \in Int
  OBVIOUS
<1>2. a * y + b * z = e + x * f
  <2>1. a * y = a * s + (a * v) * x /\ b * z = b * t + (b * u) * x
    OBVIOUS
  <2>2. x * f = (a * v) * x + (b * u) * x
    OBVIOUS
  <2> QED
    BY <2>1, <2>2
<1> HIDE DEF y, z, e, f
<1>3. (a * (y % Order) + b * (z % Order)) % Order = (e + x * f) % Order
  <2>1. (a * (y % Order) + b * (z % Order)) % Order = (a * y + b * z) % Order
    BY <1>1, Rests
  <2> QED
    BY <1>2, <2>1
<1>4. (1 * (e % Order) + x * (f % Order)) % Order = (1 * e + x * f) % Order
  BY <1>1, Rests
<1>5. e % Order \in Int /\ f % Order \in Int
  BY <1>1, Mod, OrderAssumption DEF Zr
<1>6. 1 * (e % Order) + x * (f % Order) = (e % Order) + (f % Order) * x /\ 1 * e = e
  BY <1>1, <1>5
<1>7. (a * (y % Order) + b * (z % Order)) % Order = ((e % Order) + (f % Order) * x) % Order
  BY <1>3, <1>4, <1>6
<1> QED
  BY <1>7 DEF y, z, e, f, Add, Combine

\* The last of the partial sums is the scalar product.
LEMMA ProductIsLastSum ==
  ASSUME NEW v, NEW x, NEW n \in Nat, NEW s, Sums(v, x, n, s)
  PROVE  Product(v, x, n) = s[n]
<1> DEFINE Is(g) == g = [c \in 0..n |-> IF c = 0 THEN 0 ELSE (g[c - 1] + v[c] * x[c]) % Order]
           f == CHOOSE g : Is(g)
<1>1. Is(s)
  BY DEF Sums
<1>2. Is(f)
  BY <1>1
<1>3. Product(v, x, n) = f[n]
  BY DEF Product
<1> HIDE DEF f
<1> DEFINE S == {m \in Nat : m <= n => f[m] = s[m]}
<1>4. 0 \in S
  BY <1>1, <1>2
<1>5. ASSUME NEW m \in Nat, m \in S PROVE m + 1 \in S
  BY <1>1, <1>2, <1>5
<1> HIDE DEF S
<1>6. Nat \subseteq S
  BY <1>4, <1>5, Induction
<1>7. n \in S
  BY <1>6
<1> QED
  BY <1>3, <1>7 DEF S


\* The first n entries of v are numbers.
Numbers(v, n) == \A c \in 1..n : v[c] \in Int

\* w is a times v and b times u.
Combined(w, a, v, b, u, n) == \A c \in 1..n : w[c] = (a * v[c] + b * u[c]) % Order

\* SumsExist in terms of Numbers.
LEMMA SumsOfRow ==
  ASSUME NEW v, NEW x, NEW n \in Nat, Numbers(v, n), Numbers(x, n)
  PROVE  \E s : Sums(v, x, n, s)
BY SumsExist DEF Numbers

\* The product is linear in its first row.
LEMMA CombineRows ==
  ASSUME NEW v, NEW u, NEW w, NEW x, NEW n \in Nat, NEW a \in Int, NEW b \in Int,
         Numbers(v, n), Numbers(u, n), Numbers(x, n), Combined(w, a, v, b, u, n)
  PROVE  Product(w, x, n) = (a * Product(v, x, n) + b * Product(u, x, n)) % Order
<1>1. 0 % Order = 0
  BY OrderAssumption
<1>2. PICK s : Sums(v, x, n, s)
  BY SumsOfRow
<1>3. PICK t : Sums(u, x, n, t)
  BY SumsOfRow
<1> DEFINE z == [c \in 0..n |-> (a * s[c] + b * t[c]) % Order]
<1>4. \A c \in 0..n : s[c] \in Int /\ t[c] \in Int
  BY <1>2, <1>3, Elements DEF Sums
<1>5. z \in [0..n -> Zr]
  <2>1. ASSUME NEW c \in 0..n PROVE (a * s[c] + b * t[c]) % Order \in Zr
    <3>1. a * s[c] + b * t[c] \in Int
      BY <1>4
    <3> QED
      BY <3>1, Mod
  <2> QED
    BY <2>1
<1>6. z[0] = 0
  BY <1>1, <1>2, <1>3 DEF Sums
<1>7. ASSUME NEW c \in 1..n PROVE z[c] = (z[c - 1] + w[c] * x[c]) % Order
  <2>1. c \in 0..n /\ c - 1 \in 0..n
    OBVIOUS
  <2>2. s[c] = (s[c - 1] + v[c] * x[c]) % Order /\ t[c] = (t[c - 1] + u[c] * x[c]) % Order
    BY <1>2, <1>3 DEF Sums
  <2>3. s[c - 1] \in Int /\ t[c - 1] \in Int /\ v[c] \in Int /\ u[c] \in Int /\ x[c] \in Int
    BY <1>4, <2>1, Elements DEF Numbers
  <2>4. Combine(a, Add(s[c - 1], v[c], x[c]), b, Add(t[c - 1], u[c], x[c]))
          = Add(Combine(a, s[c - 1], b, t[c - 1]), Combine(a, v[c], b, u[c]), x[c])
    BY <2>3, CombineSums
  <2>5. z[c] = (a * s[c] + b * t[c]) % Order /\ z[c - 1] = (a * s[c - 1] + b * t[c - 1]) % Order
    BY <2>1
  <2>6. w[c] = (a * v[c] + b * u[c]) % Order
    BY DEF Combined
  <2> HIDE DEF z
  <2> QED
    BY <2>2, <2>4, <2>5, <2>6 DEF Add, Combine
<1>8. z[n] = (a * s[n] + b * t[n]) % Order
  OBVIOUS
<1> HIDE DEF z
<1>9. Sums(w, x, n, z)
  BY <1>5, <1>6, <1>7 DEF Sums
<1>10. Product(w, x, n) = z[n] /\ Product(v, x, n) = s[n] /\ Product(u, x, n) = t[n]
  BY <1>2, <1>3, <1>9, ProductIsLastSum
<1> QED
  BY <1>8, <1>10

\* The scalar product does not depend on the order of the two rows.
LEMMA ProductCommutes ==
  ASSUME NEW v, NEW x, NEW n \in Nat, Numbers(v, n), Numbers(x, n)
  PROVE  Product(v, x, n) = Product(x, v, n)
<1>1. PICK s : Sums(v, x, n, s)
  BY SumsOfRow
<1>2. ASSUME NEW c \in 1..n PROVE v[c] * x[c] = x[c] * v[c]
  BY Elements DEF Numbers
<1>3. Sums(x, v, n, s)
  BY <1>1, <1>2 DEF Sums
<1> QED
  BY <1>1, <1>3, ProductIsLastSum

\* The product with a row of the unit matrix is the entry of that row.
LEMMA UnitProduct ==
  ASSUME NEW n \in Nat, NEW v, NEW x, Numbers(x, n), NEW j \in 1..n,
         \A c \in 1..n : v[c] = (IF c = j THEN 1 ELSE 0)
  PROVE  Product(v, x, n) = x[j] % Order
<1> DEFINE y == x[j] % Order
           s == [c \in 0..n |-> IF c < j THEN 0 ELSE y]
<1>1. 0 \in Zr /\ x[j] \in Int /\ y \in Zr
  <2>1. x[j] \in Int
    BY DEF Numbers
  <2>2. 0 \in Zr
    BY OrderAssumption DEF Zr
  <2> QED
    BY <2>1, <2>2, Mod
<1>2. y % Order = y /\ 0 % Order = 0 /\ y \in Int
  BY <1>1, Elements
<1> HIDE DEF y
<1>3. ASSUME NEW c \in 1..n PROVE s[c] = (s[c - 1] + v[c] * x[c]) % Order
  <2>1. x[c] \in Int
    BY DEF Numbers
  <2>2. CASE c < j
    <3>1. s[c] = 0 /\ s[c - 1] = 0 /\ v[c] = 0
      BY <2>2
    <3>2. 0 + 0 * x[c] = 0
      BY <2>1
    <3> QED
      BY <1>2, <3>1, <3>2
  <2>3. CASE c = j
    <3>1. s[c] = y /\ s[c - 1] = 0 /\ v[c] = 1
      BY <2>3
    <3>2. 0 + 1 * x[j] = x[j]
      BY <1>1
    <3> QED
      BY <2>3, <3>1, <3>2 DEF y
  <2>4. CASE c > j
    <3>1. s[c] = y /\ s[c - 1] = y /\ v[c] = 0
      BY <2>4
    <3>2. y + 0 * x[c] = y
      BY <1>2, <2>1
    <3> QED
      BY <1>2, <3>1, <3>2
  <2> QED
    BY <2>2, <2>3, <2>4
<1>4. s \in [0..n -> Zr] /\ s[0] = 0
  BY <1>1
<1>5. s[n] = y
  OBVIOUS
<1> HIDE DEF s
<1>6. Sums(v, x, n, s)
  BY <1>3, <1>4 DEF Sums
<1> QED
  BY <1>5, <1>6, ProductIsLastSum DEF y

\* A product is taken up one by one and is an element of Zr.
LEMMA ProductSteps ==
  ASSUME NEW v, NEW x, NEW n \in Nat, Numbers(v, n + 1), Numbers(x, n + 1)
  PROVE  /\ Product(v, x, n) \in Zr
         /\ Product(v, x, n + 1) = (Product(v, x, n) + v[n + 1] * x[n + 1]) % Order
<1>1. PICK s : Sums(v, x, n + 1, s)
  BY SumsOfRow
<1> DEFINE t == [c \in 0..n |-> s[c]]
<1>2. Sums(v, x, n, t)
  BY <1>1 DEF Sums
<1>3. Product(v, x, n + 1) = s[n + 1]
  BY <1>1, ProductIsLastSum
<1>4. Product(v, x, n) = s[n]
  <2>1. t[n] = s[n]
    OBVIOUS
  <2> HIDE DEF t
  <2> QED
    BY <1>2, <2>1, ProductIsLastSum
<1> QED
  BY <1>1, <1>3, <1>4 DEF Sums

LEMMA ProductType ==
  ASSUME NEW v, NEW x, NEW n \in Nat, Numbers(v, n), Numbers(x, n)
  PROVE  Product(v, x, n) \in Zr
<1>1. PICK s : Sums(v, x, n, s)
  BY SumsOfRow
<1>2. s[n] \in Zr
  BY <1>1 DEF Sums
<1> QED
  BY <1>1, <1>2, ProductIsLastSum

\* Nothing to add up, or nothing but zeros.
LEMMA ProductOfNone == \A v, x : Product(v, x, 0) = 0
<1> TAKE v, x
<1>1. Numbers(v, 0) /\ Numbers(x, 0)
  BY DEF Numbers
<1>2. PICK s : Sums(v, x, 0, s)
  BY <1>1, SumsOfRow
<1>3. s[0] = 0
  BY <1>2 DEF Sums
<1>4. Product(v, x, 0) = s[0]
  BY <1>2, ProductIsLastSum
<1> QED
  BY <1>3, <1>4

LEMMA ProductOfZeros ==
  ASSUME NEW v, NEW x, NEW n \in Nat, Numbers(x, n), \A c \in 1..n : v[c] = 0
  PROVE  Product(v, x, n) = 0
<1> DEFINE s == [c \in 0..n |-> 0]
<1>1. 0 % Order = 0 /\ 0 \in Zr
  BY OrderAssumption DEF Zr
<1>2. \A c \in 1..n : v[c] * x[c] = 0
  BY DEF Numbers
<1>3. s \in [0..n -> Zr] /\ s[0] = 0 /\ s[n] = 0
  BY <1>1
<1>4. \A c \in 1..n : s[c] = (s[c - 1] + v[c] * x[c]) % Order
  BY <1>1, <1>2
<1> HIDE DEF s
<1>5. Sums(v, x, n, s)
  BY <1>3, <1>4 DEF Sums
<1> QED
  BY <1>3, <1>5, ProductIsLastSum

\* m has n rows of as many numbers.
Matrix(m, n, width) == \A i \in 1..n : Numbers(m[i], width)

Column(m, n, j) == [i \in 1..n |-> m[i][j]]

\* The sum of the first k of these rows, row i taken w[i] times.
RowSum(w, m, n, k, width) == [j \in 1..width |-> Product(w, Column(m, n, j), k)]

\* One more row.
LEMMA RowSumSteps ==
  ASSUME NEW w, NEW m, NEW n \in Nat, NEW width \in Nat, Numbers(w, n), Matrix(m, n, width),
         NEW k \in 0..(n - 1)
  PROVE  /\ Numbers(RowSum(w, m, n, k, width), width)
         /\ Combined(RowSum(w, m, n, k + 1, width), 1, RowSum(w, m, n, k, width),
                     w[k + 1], m[k + 1], width)
<1> SUFFICES ASSUME NEW j \in 1..width
             PROVE  /\ RowSum(w, m, n, k, width)[j] \in Int
                    /\ RowSum(w, m, n, k + 1, width)[j]
                         = (1 * RowSum(w, m, n, k, width)[j] + w[k + 1] * m[k + 1][j]) % Order
  BY DEF Numbers, Combined
<1> DEFINE x == Column(m, n, j)
<1>1. k \in Nat /\ k + 1 \in 1..n /\ x[k + 1] = m[k + 1][j]
  BY DEF Column
<1>2. Numbers(w, k + 1)
  BY DEF Numbers
<1>3. Numbers(x, k + 1)
  <2>1. ASSUME NEW i \in 1..(k + 1) PROVE x[i] \in Int
    <3>1. i \in 1..n /\ x[i] = m[i][j]
      BY DEF Column
    <3> QED
      BY <3>1 DEF Matrix, Numbers
  <2> QED
    BY <2>1 DEF Numbers
<1>4. /\ RowSum(w, m, n, k, width)[j] = Product(w, x, k)
      /\ RowSum(w, m, n, k + 1, width)[j] = Product(w, x, k + 1)
  BY DEF RowSum
<1> HIDE DEF x
<1>5. /\ Product(w, x, k) \in Zr
      /\ Product(w, x, k + 1) = (Product(w, x, k) + w[k + 1] * x[k + 1]) % Order
  BY <1>1, <1>2, <1>3, ProductSteps
<1>6. Product(w, x, k) \in Int
  BY <1>5, Elements
<1>7. 1 * Product(w, x, k) = Product(w, x, k)
  BY <1>6
<1> QED
  BY <1>1, <1>4, <1>5, <1>6, <1>7

\* The products of the rows with v, summed up with the weights w, are the product
\* of the weighted sum of the rows with v: by induction on the number of rows.
LEMMA ProductOfRowSum ==
  ASSUME NEW w, NEW m, NEW n \in Nat, NEW width \in Nat, Numbers(w, n), Matrix(m, n, width),
         NEW v, Numbers(v, width),
         NEW x, \A i \in 1..n : x[i] = Product(m[i], v, width)
  PROVE  Product(w, x, n) = Product(RowSum(w, m, n, n, width), v, width)
<1> DEFINE S == {k \in Nat : k <= n =>
                   Product(w, x, k) = Product(RowSum(w, m, n, k, width), v, width)}
<1>1. Numbers(x, n)
  <2>1. ASSUME NEW i \in 1..n PROVE x[i] \in Int
    <3>1. Numbers(m[i], width)
      BY DEF Matrix
    <3>2. Product(m[i], v, width) \in Zr
      BY <3>1, ProductType
    <3> QED
      BY <3>2, Elements
  <2> QED
    BY <2>1 DEF Numbers
<1>2. 0 \in S
  <2>1. \A j \in 1..width : RowSum(w, m, n, 0, width)[j] = 0
    BY ProductOfNone DEF RowSum
  <2>2. Product(RowSum(w, m, n, 0, width), v, width) = 0
    BY <2>1, ProductOfZeros
  <2> QED
    BY <2>2, ProductOfNone
<1>3. ASSUME NEW k \in Nat, k \in S PROVE k + 1 \in S
  <2> SUFFICES ASSUME k + 1 <= n
               PROVE  Product(w, x, k + 1) = Product(RowSum(w, m, n, k + 1, width), v, width)
    OBVIOUS
  <2> DEFINE u == RowSum(w, m, n, k, width)
             z == RowSum(w, m, n, k + 1, width)
  <2>1. k \in 0..(n - 1) /\ k + 1 \in 1..n
    OBVIOUS
  <2>2. Product(w, x, k) = Product(u, v, width)
    BY <1>3
  <2>3. Numbers(u, width) /\ Combined(z, 1, u, w[k + 1], m[k + 1], width)
    BY <2>1, RowSumSteps
  <2>4. Numbers(m[k + 1], width) /\ w[k + 1] \in Int /\ 1 \in Int
    BY <2>1 DEF Matrix, Numbers
  <2> HIDE DEF u, z
  <2>5. Product(z, v, width)
          = (1 * Product(u, v, width) + w[k + 1] * Product(m[k + 1], v, width)) % Order
    BY <2>3, <2>4, CombineRows
  <2>6. Numbers(w, k + 1) /\ Numbers(x, k + 1)
    BY <1>1, <2>1 DEF Numbers
  <2>7. /\ Product(w, x, k) \in Zr
        /\ Product(w, x, k + 1) = (Product(w, x, k) + w[k + 1] * x[k + 1]) % Order
    BY <2>6, ProductSteps
  <2>8. x[k + 1] = Product(m[k + 1], v, width)
    BY <2>1
  <2>9. 1 * Product(w, x, k) = Product(w, x, k)
    BY <2>7, Elements
  <2>10. Product(w, x, k + 1) = Product(z, v, width)
    BY <2>2, <2>5, <2>7, <2>8, <2>9
  <2> QED
    BY <2>10 DEF z
<1> HIDE DEF S
<1>4. Nat \subseteq S
  BY <1>2, <1>3, Induction
<1>5. n \in S
  BY <1>4
<1> QED
  BY <1>5 DEF S
=============================================================================
