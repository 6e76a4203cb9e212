------------------------------- MODULE Driver -------------------------------
(***************************************************************************)
(* Two programs over the library: main of CP-ABE/test.cpp, whose rounds    *)
(* take fresh objects through Setup, KeyGen, the parsing of a policy,      *)
(* Encrypt, Transform (whose weights are those findVector has solve work   *)
(* out) and Decrypt and compare the result; and one that asks isSatisfy    *)
(* about the same attributes, which main does not call.                    *)
(***************************************************************************)
EXTENDS Access

CONSTANTS H(_), HashToZr(_, _), Random(_, _), Ek, Epochs

ASSUME EpochAssumption == Epochs \in Nat \ {0}

VARIABLES
  gwabe, lsss, key, cipher, transformed, now, out,   \* the objects of a round
  program,    \* "main" or "isSatisfy"
  step,       \* the call of main that comes next
  ek,         \* the string of this round
  i,          \* the rounds that are over
  status      \* "running", or how the program ended

abeVars == <<gwabe, lsss, key, cipher, transformed, now, out>>
mainVars == <<program, step, ek, i, status>>
vars == <<accessVars, abeVars, mainVars>>

\* main has one object of each kind.
Abe ==
  INSTANCE GWABE WITH
    ct <- transformed, Lsss <- {"lsss"}, KeyTuple <- {"keytuple"}, Cipher <- {"cipher"}, CT <- {"ct"}

\* The attributes of a key are written "(A,B,2)"; string2attribute_Set takes the
\* number for one more attribute.
Written == attributes_set \cup {"2"}

Init ==
  /\ AccessInit
  /\ Abe!Empty
  /\ lsss = [o \in {"lsss"} |-> Abe!Gone]
  /\ program \in {"main", "isSatisfy"}
  /\ step = "Setup"
  /\ ek \in Ek
  /\ i = 0
  /\ status = "running"

-----------------------------------------------------------------------------
(* isSatisfy.                                                              *)

IsSatisfy ==
  /\ program = "isSatisfy" /\ status = "running"
  /\ Step
  /\ status' = IF pc' = "abort" THEN "aborted" ELSE IF ret' # "none" THEN "returned" ELSE "running"
  /\ UNCHANGED <<abeVars, program, step, ek, i>>

-----------------------------------------------------------------------------
(* main.                                                                   *)

At(call) == program = "main" /\ status = "running" /\ step = call
Then(call) == step' = call /\ UNCHANGED <<program, ek, i, status>>

Setup == At("Setup") /\ Abe!Setup /\ Then("KeyGen") /\ UNCHANGED accessVars

KeyGen ==
  /\ At("KeyGen")
  /\ Abe!KeyGen("keytuple", Written)
  /\ Then("LSSS")
  /\ UNCHANGED accessVars

\* LSSS lsss(access_policy), whose assertion may end the program.
Construct ==
  /\ At("LSSS")
  /\ Initialize
  /\ lsss' = [lsss EXCEPT !["lsss"] =
                IF pc' = "done" THEN [M |-> M', rho |-> [r \in DOMAIN rho |-> rho[r][1]]] ELSE @]
  /\ step' = IF pc' = "done" THEN "Encrypt" ELSE "LSSS"
  /\ status' = IF pc' = "abort" THEN "aborted" ELSE "running"
  /\ UNCHANGED <<gwabe, key, cipher, transformed, now, out, program, ek, i>>

\* A call that ends in an assertion, an exception or exit(-1) ends the program.
Ending ==
  status' = CASE out'.kind = "abort" -> "aborted"
              [] out'.kind = "exception" -> "terminated"
              [] out'.kind = "undefined" -> "undefined"
              [] out'.kind = "exit" -> "refused"
              [] OTHER -> "running"

Encrypt ==
  /\ At("Encrypt")
  /\ Abe!Encrypt("cipher", ek, "lsss")
  /\ Ending /\ step' = "Transform"
  /\ UNCHANGED <<accessVars, program, ek, i>>

\* findVector on the attributes of the key, whose number names no row; without a
\* row it returns no weights.
FindVector ==
  /\ At("Transform") /\ Ask
  /\ UNCHANGED <<abeVars, mainVars>>

FindVectorStep ==
  /\ At("Transform") /\ SolveStep
  /\ UNCHANGED <<abeVars, mainVars>>

Transform ==
  /\ At("Transform")
  /\ \/ phase = "solved" /\ Abe!Transform("ct", "keytuple", "cipher", Gauss!res)
     \/ I = <<>> /\ Abe!Transform("ct", "keytuple", "cipher", <<>>)
  /\ Ending /\ step' = "Decrypt"
  /\ UNCHANGED <<accessVars, program, ek, i>>

Decrypt ==
  /\ At("Decrypt")
  /\ Abe!Decrypt("keytuple", "ct")
  /\ Ending /\ step' = "compare"
  /\ UNCHANGED <<accessVars, program, ek, i>>

\* Mutant: the objects live on from round to round.
FreshNot == UNCHANGED <<gwabe, key, cipher, transformed>>

\* The objects of a round are those of its block.
Fresh ==
  /\ gwabe' = Abe!Unset
  /\ key' = [t \in {"keytuple"} |-> Abe!Unset]
  /\ cipher' = [c \in {"cipher"} |-> Abe!Unset]
  /\ transformed' = [c \in {"ct"} |-> Abe!Unset]

\* The next round, with the policy to be parsed anew, or the end.
Compare ==
  /\ At("compare")
  /\ i' = i + 1
  /\ status' = IF out.ek # ek THEN "differs" ELSE IF i' = Epochs THEN "returned" ELSE "running"
  /\ IF status' # "running"
     THEN UNCHANGED <<accessVars, abeVars, step, ek>>
     ELSE /\ Fresh
          /\ lsss' = [lsss EXCEPT !["lsss"] = Abe!Gone]
          /\ out' = Abe!None
          /\ step' = "Setup"
          /\ ek' \in Ek
          /\ Renew
          /\ UNCHANGED now
  /\ UNCHANGED program

Main ==
  \/ Setup \/ KeyGen \/ Construct \/ Encrypt
  \/ FindVector \/ FindVectorStep \/ Transform
  \/ Decrypt \/ Compare

Finished == status # "running" /\ UNCHANGED vars

Next == IsSatisfy \/ Main \/ Finished

Spec == Init /\ [][Next]_vars /\ WF_vars(IsSatisfy \/ Main)

-----------------------------------------------------------------------------
(* Properties.                                                             *)

\* The composition keeps its promise: main returns 0 exactly if the policy, as
\* it is meant, admits the attributes of the key.  Otherwise the parser's
\* assertion or the comparisons of Decrypt end it; its own comparison of the two
\* strings (test.cpp:121) never fails.
MainOpensIffAdmitted ==
  program = "main" /\ status # "running" =>
    /\ (status = "returned") = Accepts(policy, attributes_set)
    /\ status # "differs"

\* Both programs end, whatever the policy is.
Ends == <>(status # "running")
=============================================================================
