------------------------------- MODULE Calls -------------------------------
(***************************************************************************)
(* A program that calls the operations of GWABE in any order and on any of *)
(* its objects, used or not, and that may change an LSSS object a          *)
(* ciphertext points to: initialize it again, assign to it or destroy it.  *)
(***************************************************************************)
EXTENDS GWABE

CONSTANTS
  Attribute,       \* names of attributes
  Policies,        \* share matrices, [M |-> rows, rho |-> names]
  Accepts(_, _),   \* Accepts(p, S): policy p admits the attributes S
  findVector(_, _),\* findVector(p, S): what LSSS::findVector returns
  Ek,              \* the strings to be encrypted
  MaxCalls,        \* a bound for each operation
  MaxTotal         \* a bound for all of them together

Op == {"Setup", "KeyGen", "Encrypt", "Transform", "Change"}

\* As LSSS makes them: a matrix with rows of the same width, and one name for each.
ASSUME PoliciesAssumption ==
  \A p \in Policies :
    /\ p.M \in Seq(Seq(Int)) \ {<<>>}
    /\ p.rho \in Seq(Attribute) /\ Len(p.rho) = Len(p.M)
    /\ Len(p.M[1]) # 0 /\ \A r \in DOMAIN p.M : Len(p.M[r]) = Len(p.M[1])
ASSUME CallsAssumption == MaxCalls \in [Op -> Nat] /\ MaxTotal \in Nat

\* The numbers of the elements a call draws.
Draws ==
  0..3 \cup UNION {1..(Len(p.M[1]) - 1) \cup {10 + r : r \in DOMAIN p.M} : p \in Policies}

\* What is drawn and hashed are elements of Zr; r_2 of KeyGen has an inverse.
ASSUME ElementsAssumption ==
  /\ \A x \in Attribute : H(x) \in Zr
  /\ \A c \in 1..MaxTotal :
       /\ \A n \in Draws : Random(c, n) \in Zr
       /\ \E y \in 1..(Order - 1) : Times(Random(c, 2), y) = 1
  /\ \A e \in Ek : e \in [full : BOOLEAN, ones : {e.ones}]
  /\ \A e \in Ek, R \in Zr : HashToZr(elementToHash(R), e) \in Zr

\* The rows I of a policy, taken by the weights w, make (1, 0, ..., 0): what
\* isSatisfy tests.
Recombine(p, I, w) ==
  \A j \in DOMAIN p.M[1] :
    Product(w, [i \in DOMAIN I |-> p.M[I[i]][j]], Len(I)) = (IF j = 1 THEN 1 ELSE 0)

\* findVector has a weight for every row of the attributes, and the right ones for
\* attributes that the policy admits.
ASSUME FindVectorAssumption ==
  \A p \in Policies, S \in (SUBSET Attribute) \ {{}} :
    /\ findVector(p, S) \in Seq(Zr)
    /\ Len(findVector(p, S)) = Len(Rows(p, S))
    /\ Accepts(p, S) => Recombine(p, Rows(p, S), findVector(p, S))

VARIABLE calls   \* how often each operation was called

allVars == <<vars, calls>>

Init ==
  /\ Empty
  /\ lsss \in [Lsss -> Policies]
  /\ calls = [op \in Op |-> 0]

Counted(op) ==
  /\ now < MaxTotal
  /\ calls[op] < MaxCalls[op]
  /\ calls' = [calls EXCEPT ![op] = @ + 1]

\* The rows q with zeros up to the width of p, and the rows of p behind them.
Appended(q, p) ==
  [M |-> [r \in DOMAIN q.M |->
            [j \in DOMAIN p.M[1] |-> IF j \in DOMAIN q.M[r] THEN q.M[r][j] ELSE 0]] \o p.M,
   rho |-> q.rho \o p.rho]

\* LSSS::initialize for a policy that gives p: nothing is cleared first.  Rows that
\* come out of different widths are left out, as is what is not in Policies.
Initialize(o, p) ==
  /\ Goes
  /\ lsss[o] # Gone /\ Len(lsss[o].M[1]) <= Len(p.M[1])
  /\ Appended(lsss[o], p) \in Policies
  /\ lsss' = [lsss EXCEPT ![o] = Appended(lsss[o], p)]
  /\ UNCHANGED <<gwabe, key, cipher, ct, now, out>>

\* Another object is assigned to this one, or made in its place.
Assign(o, p) ==
  /\ Goes
  /\ lsss' = [lsss EXCEPT ![o] = p]
  /\ UNCHANGED <<gwabe, key, cipher, ct, now, out>>

\* The destructor of LSSS.
Destroy(o) ==
  /\ Goes
  /\ lsss[o] # Gone
  /\ lsss' = [lsss EXCEPT ![o] = Gone]
  /\ UNCHANGED <<gwabe, key, cipher, ct, now, out>>

Weights(k, c) ==
  IF IsSet(key[k]) /\ IsSet(cipher[c]) /\ lsss[cipher[c].policy] # Gone
  THEN findVector(lsss[cipher[c].policy], key[k].attributes) ELSE <<>>

Next ==
  \/ Counted("Setup") /\ Setup
  \/ Counted("KeyGen") /\ \E t \in KeyTuple, S \in (SUBSET Attribute) \ {{}} : KeyGen(t, S)
  \/ Counted("Encrypt") /\ \E c \in Cipher, ek \in Ek, o \in Lsss : Encrypt(c, ek, o)
  \/ Counted("Transform") /\ \E t \in CT, k \in KeyTuple, c \in Cipher :
       Transform(t, k, c, Weights(k, c))
  \/ UNCHANGED calls /\ \E k \in KeyTuple, t \in CT : Decrypt(k, t)
  \/ Counted("Change") /\ \E o \in Lsss, p \in Policies : Initialize(o, p) \/ Assign(o, p)
  \/ Counted("Change") /\ \E o \in Lsss : Destroy(o)

Spec == Init /\ [][Next]_allVars

-----------------------------------------------------------------------------
(* Properties.                                                             *)

IsBits(x) ==
  x.full \in BOOLEAN /\ \A bit \in x.ones : bit \in Zr \/ \E e \in Ek : bit \in e.ones

TypeOK ==
  /\ IsSet(gwabe) => {gwabe.g, gwabe.gb, gwabe.egga, gwabe.ga} \subseteq Zr
  /\ \A t \in KeyTuple : IsSet(key[t]) =>
       /\ key[t].attributes \subseteq DOMAIN key[t].tk_att
       /\ {key[t].r_2, key[t].tk_1, key[t].tk_2} \cup Range(key[t].tk_att) \subseteq Zr
  /\ \A c \in Cipher : IsSet(cipher[c]) =>
       /\ Range(cipher[c].lambda) \cup {cipher[c].c_1, cipher[c].c_3} \subseteq Zr
       /\ Range(cipher[c].dot_c) \cup Range(cipher[c].ddot_c) \subseteq Zr
       /\ IsBits(cipher[c].c_2)
  /\ \A t \in CT : IsSet(ct[t]) => {ct[t].ct_1, ct[t].ct_3} \subseteq Zr /\ IsBits(ct[t].ct_2)
  /\ out.kind \in {"none", "ek", "exit", "abort", "exception", "undefined"}

\* The ciphertext and the two halves of the key the last Decrypt worked on.
sealed == ct[out.ct].from
tkUsed == ct[out.ct].tk
skUsed == key[out.key]

\* Decrypt returns the string that was encrypted or ends the program: no order
\* of calls, no reuse of a key tuple, no second Setup, no string of a wrong length
\* and no other policy behind the ciphertext's pointer makes it return another
\* (GWABE.cpp:339-380).
ReturnsWhatWasSealed ==
  out.kind = "ek" => out.ek = sealed.ek

\* Only a key whose attributes the policy admits opens a ciphertext, and only
\* with the half of that key that KeyGen gave its owner.  The policy is the one it
\* was encrypted under, whatever became of the LSSS object that Transform reads it
\* from (GWABE.cpp:163, 277-283).
OnlyAdmitted ==
  out.kind = "ek" => Accepts(sealed.sealed, tkUsed.attributes) /\ skUsed.made = tkUsed.made

\* Every component the policy asks for was made with the rest of the key.
MadeTogether(tk, p) ==
  \A x \in Range(p.rho) \cap tk.attributes :
    Times(gwabe.g, tk.tk_att[x]) = Times(H(x), tk.tk_2)

\* What the scheme is for: a key of the same Setup as the ciphertext and with
\* attributes its policy admits opens it, if Transform read that policy.  A tuple
\* that was used before still does if the policy needs none of the names it had
\* then, whose components KeyGen leaves as they were (GWABE.cpp:145).
HonestDecrypts ==
  out.kind = "exit" =>
    ~ /\ Accepts(sealed.sealed, tkUsed.attributes)
      /\ sealed.ek.full
      /\ ct[out.ct].under = sealed.sealed
      /\ skUsed.made = tkUsed.made
      /\ tkUsed.setup = sealed.setup /\ sealed.setup = gwabe.made
      /\ MadeTogether(tkUsed, sealed.sealed)
=============================================================================
