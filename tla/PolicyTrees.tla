---------------------------- MODULE PolicyTrees ----------------------------
(***************************************************************************)
(* What the access policies of the CP-ABE program are meant to say: a tree *)
(* of threshold gates over names, its text, and the sets of attributes it  *)
(* admits.  MCPolicies are the texts of all small trees.                   *)
(***************************************************************************)
EXTENDS Naturals, Sequences, FiniteSets, SequencesExt

CONSTANTS
  A, B, C, D,  \* names
  MaxNames     \* how many names a policy has, at most

Name(name) == [name |-> name, threshold |-> 0, parts |-> <<>>]
Threshold(threshold, parts) == [name |-> A, threshold |-> threshold, parts |-> parts]

\* The trees with the given names as leaves, and sequences of such trees.
RECURSIVE Trees(_), Forests(_)
Trees(names) ==
  IF Len(names) = 1 THEN {Name(names[1])}
  ELSE UNION {{Threshold(n, <<t>> \o f) : t \in Trees(SubSeq(names, 1, cut)),
                                     f \in Forests(SubSeq(names, cut + 1, Len(names))),
                                     n \in 1..MaxNames} : cut \in 1..(Len(names) - 1)}
Forests(names) ==
  IF names = <<>> THEN {<<>>}
  ELSE UNION {{<<t>> \o f : t \in Trees(SubSeq(names, 1, cut)),
                            f \in Forests(SubSeq(names, cut + 1, Len(names)))} :
                cut \in 1..Len(names)}

RECURSIVE Fulfillable(_)
Fulfillable(t) ==
  t.threshold <= Len(t.parts) /\ \A p \in DOMAIN t.parts : Fulfillable(t.parts[p])

Numeral == <<"1", "2", "3", "4", "5", "6", "7", "8", "9">>

RECURSIVE Text(_)
Text(t) ==
  IF t.parts = <<>> THEN <<t.name>>
  ELSE <<"(">> \o FlattenSeq([p \in DOMAIN t.parts |-> Text(t.parts[p]) \o <<",">>])
         \o <<Numeral[t.threshold], ")">>

RECURSIVE Admits(_, _)
Admits(t, S) ==
  IF t.parts = <<>> THEN t.name \in S
  ELSE Cardinality({p \in DOMAIN t.parts : Admits(t.parts[p], S)}) >= t.threshold

\* All names different, or two names several times over.
NameLists ==
  {SubSeq(<<A, B, C, D>>, 1, n) : n \in 1..MaxNames} \cup
    UNION {[1..n -> {A, B}] : n \in 1..(MaxNames - 1)}

\* Gates of a single part, some of which ask for more than they have.
SinglePart == {Threshold(n, <<t>>) : n \in 1..2, t \in Trees(<<A>>) \cup Trees(<<A, B>>)}

MCTrees ==
  {t \in SinglePart \cup UNION {Trees(names) : names \in NameLists} :
     \A p \in DOMAIN t.parts : Fulfillable(t.parts[p])}

MCPolicies == {Text(t) : t \in MCTrees}

RECURSIVE Below(_)
Below(t) == {t} \cup UNION {Below(t.parts[p]) : p \in DOMAIN t.parts}

AllTrees == UNION {Below(t) : t \in MCTrees}
TextOf == [t \in AllTrees |-> Text(t)]
TreeOf == [s \in Range(TextOf) |-> CHOOSE t \in AllTrees : TextOf[t] = s]
MCAccepts(p, S) == Admits(TreeOf[p], S)
=============================================================================
