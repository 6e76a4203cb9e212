------------------------------- MODULE GWABE -------------------------------
(***************************************************************************)
(* The class GWABE of CP-ABE/other/GWABE.cpp: Setup, KeyGen, Encrypt,      *)
(* Transform and Decrypt on objects of the caller.  Calls and Driver are   *)
(* two callers.                                                            *)
(*                                                                         *)
(* A group element is its exponent to a fixed base: x stands for h^x in G1 *)
(* and for e(h,h)^x in GT, so that a product of elements is a sum, a power *)
(* is a product, and pairing_apply multiplies.  The generator mpk.g is an  *)
(* element like the others.  A string of bits is the set of its ones, and  *)
(* whether it has all 256 bits.                                            *)
(***************************************************************************)
EXTENDS Field, Sequences, FiniteSets, SequencesExt

CONSTANTS
  H(_),            \* element_from_hash of a name, in G1
  HashToZr(_, _),  \* element_from_hash of two strings put together, in Zr
  Random(_, _),    \* Random(c, n): the n-th element_random of call c
  Lsss, KeyTuple, Cipher, CT  \* the objects of the caller

VARIABLES
  gwabe,   \* the mpk and msk of the GWABE object, and the call that made them
  lsss,    \* the LSSS objects: a share matrix M with its names rho
  key,     \* the key tuples
  cipher,  \* the ciphertexts
  ct,      \* the transformed ciphertexts
  now,     \* how many calls have been made
  out      \* the last Decrypt, or how the program ended

vars == <<gwabe, lsss, key, cipher, ct, now, out>>

Unset == [made |-> 0]
IsSet(object) == object.made # 0
Gone == [M |-> <<>>, rho |-> <<>>]   \* the object was destroyed

Times(x, y) == (x * y) % Order

None == [kind |-> "none"]
Goes == out.kind \in {"none", "ek"}
call == now + 1   \* the number of the next call
Call == Goes /\ now' = call

Empty ==
  /\ gwabe = Unset
  /\ key = [t \in KeyTuple |-> Unset]
  /\ cipher = [c \in Cipher |-> Unset]
  /\ ct = [c \in CT |-> Unset]
  /\ now = 0
  /\ out = None

\* a and b are drawn and g is; g^b, e(g,g)^a and g^a are kept with g.
Setup ==
  /\ Call
  /\ LET a == Random(call, 1)
         b == Random(call, 2)
         g == Random(call, 3)
     IN gwabe' = [made |-> call, g |-> g, gb |-> Times(g, b), egga |-> Times(Times(g, g), a),
                  ga |-> Times(g, a)]
  /\ out' = None
  /\ UNCHANGED <<lsss, key, cipher, ct>>

\* Mutant: the components of a used tuple are left as they are.
KeptWhole(old, new) == IF old = <<>> THEN new ELSE old

\* emplace leaves the components of attributes the tuple already has.
Kept(old, new) == [x \in DOMAIN old \cup DOMAIN new |-> IF x \in DOMAIN old THEN old[x] ELSE new[x]]

KeyGen(t, attributes) ==
  /\ Call
  /\ IsSet(gwabe)
  /\ LET r_1 == Random(call, 1)
         r_2 == Random(call, 2)
         inv_r_2 == Invert(r_2)
         old == IF IsSet(key[t]) THEN key[t].tk_att ELSE <<>>
     IN key' = [key EXCEPT ![t] =
          [made |-> call, setup |-> gwabe.made,
           attributes |-> attributes,
           r_2 |-> r_2,
           tk_1 |-> (Times(gwabe.ga, inv_r_2) + Times(Times(gwabe.gb, r_1), inv_r_2)) % Order,
           tk_2 |-> Times(Times(gwabe.g, r_1), inv_r_2),
           tk_att |-> Kept(old, [x \in attributes |-> Times(Times(H(x), r_1), inv_r_2)])]]
  /\ out' = None
  /\ UNCHANGED <<gwabe, lsss, cipher, ct>>

\* elementToHash and xorHashes, which fills a short string with zeros.
elementToHash(R) == [full |-> TRUE, ones |-> {R}]
xorHashes(x, y) == [full |-> TRUE, ones |-> (x.ones \ y.ones) \cup (y.ones \ x.ones)]

\* LSSS::generateShares.
Shares(policy, v) ==
  [r \in DOMAIN policy.M |-> Product(v, policy.M[r], Len(v))]

Vectors == [lambda |-> <<>>, dot_c |-> <<>>, ddot_c |-> <<>>]

\* The assertion after generateShares; mutant: there is none.
AlignedAlways(lambda, policy) == TRUE
Aligned(lambda, policy) == Len(lambda) = Len(policy.M)

\* The vectors of a used object are appended to, and the assertion ends the
\* program.  The ciphertext points to the caller's LSSS object.
Encrypt(c, ek, o) ==
  /\ Call
  /\ IsSet(gwabe) /\ lsss[o] # Gone
  /\ LET policy == lsss[o]
         R == Random(call, 0)
         s == HashToZr(elementToHash(R), ek)
         v == <<s>> \o [j \in 1..(Len(policy.M[1]) - 1) |-> Random(call, j)]
         phi == [r \in DOMAIN policy.M |-> Random(call, 10 + r)]
         old == IF IsSet(cipher[c]) THEN cipher[c] ELSE Vectors
         lambda == old.lambda \o Shares(policy, v)
     IN IF ~ Aligned(lambda, policy)
        THEN out' = [kind |-> "abort"] /\ UNCHANGED cipher
        ELSE /\ cipher' = [cipher EXCEPT ![c] =
                  [made |-> call, setup |-> gwabe.made, ek |-> ek, sealed |-> policy,
                   policy |-> o,
                   lambda |-> lambda,
                   c_1 |-> (Times(gwabe.egga, s) + R) % Order,
                   c_2 |-> xorHashes(elementToHash(R), ek),
                   c_3 |-> Times(gwabe.g, s),
                   dot_c |-> old.dot_c \o [r \in DOMAIN phi |-> Times(gwabe.g, phi[r])],
                   ddot_c |-> old.ddot_c \o [r \in DOMAIN phi |->
                     (gwabe.gb * lambda[r] - Times(H(policy.rho[r]), phi[r])) % Order]]]
             /\ out' = None
  /\ UNCHANGED <<gwabe, lsss, key, ct>>

\* Fetchrows: the rows of the names in S, in ascending order.
Rows(policy, S) ==
  LET I[r \in 0..Len(policy.rho)] ==
        IF r = 0 THEN <<>> ELSE IF policy.rho[r] \in S THEN Append(I[r - 1], r) ELSE I[r - 1]
  IN  I[Len(policy.rho)]

\* What the rows of the key's attributes contribute, each by its weight.
Denominator(tk, c, policy, w) ==
  LET I == Rows(policy, tk.attributes)
      paired == [i \in DOMAIN I |->
        (c.ddot_c[I[i]] * tk.tk_2 + c.dot_c[I[i]] * tk.tk_att[policy.rho[I[i]]]) % Order]
  IN  Product(w, paired, Len(w))

\* getValidSharesExt, on the rows of Fetchrows: a component the key does not have
\* is an exception, a row the vectors do not have is read all the same.
Missing(tk, policy) ==
  \E r \in DOMAIN policy.rho : policy.rho[r] \in tk.attributes \ DOMAIN tk.tk_att
Outside(tk, c, policy) ==
  \E r \in DOMAIN policy.rho :
    policy.rho[r] \in tk.attributes /\ \E v \in {c.lambda, c.dot_c, c.ddot_c} : r > Len(v)

\* The weights w are those findVector returns for the policy and the attributes.
Transform(t, k, c, w) ==
  /\ Call
  /\ IsSet(key[k]) /\ IsSet(cipher[c])
  /\ LET tk == key[k]
         policy == lsss[cipher[c].policy]
         readable == policy # Gone /\ ~Outside(tk, cipher[c], policy)
     IN \/ ~readable /\ out' = [kind |-> "undefined"] /\ UNCHANGED ct
        \/ readable /\ Missing(tk, policy) /\ out' = [kind |-> "exception"] /\ UNCHANGED ct
        \/ /\ readable /\ ~Missing(tk, policy)
           /\ ct' = [ct EXCEPT ![t] =
                [made |-> call,
                 ct_1 |-> cipher[c].c_1,
                 ct_2 |-> cipher[c].c_2,
                 ct_3 |-> (Times(cipher[c].c_3, tk.tk_1)
                             - Denominator(tk, cipher[c], policy, w)) % Order,
                 tk |-> tk, from |-> cipher[c], under |-> policy]]
           /\ out' = None
  /\ UNCHANGED <<gwabe, lsss, key, cipher>>

\* The comparisons that end in "error!"; mutant: none are made.
MatchesAlways(s, R, denominator, c) == TRUE
Matches(s, R, denominator, c) ==
  /\ (Times(gwabe.egga, s) + R) % Order = c.ct_1
  /\ Times(gwabe.egga, s) = denominator

Decrypt(k, t) ==
  /\ Goes
  /\ IsSet(key[k]) /\ IsSet(ct[t])
  /\ LET denominator == Times(ct[t].ct_3, key[k].r_2)
         R == (ct[t].ct_1 - denominator) % Order
         ek == xorHashes(elementToHash(R), ct[t].ct_2)
         s == HashToZr(elementToHash(R), ek)
     IN out' = [kind |-> IF Matches(s, R, denominator, ct[t]) THEN "ek" ELSE "exit",
                ek |-> ek, key |-> k, ct |-> t]
  /\ UNCHANGED <<gwabe, lsss, key, cipher, ct, now>>
=============================================================================
