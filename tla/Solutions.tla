----------------------------- MODULE Solutions -----------------------------
(***************************************************************************)
(* What solve is for: the solutions of the system it is called with.       *)
(* Solve with the system of the call remembered.                           *)
(***************************************************************************)
EXTENDS Solve

CONSTANT Given  \* the systems solve is called with

ASSUME GivenAssumption ==
  \A system \in Given :
    /\ Len(system) \in Nat \ {0}
    /\ system \in [1..Len(system) -> [1..(Len(system) + 1) -> Zr]]

VARIABLE given  \* the system of this call

callVars == <<vars, given>>

CallInit == Init /\ given = matrix

Call(system) == Start(system) /\ given' = system

CallStep == Step /\ UNCHANGED given

\* The caller has the answer.
Returned == phase = "solved" /\ UNCHANGED callVars

CallNext == (\E system \in Given : Call(system)) \/ CallStep \/ Returned

CallSpec == CallInit /\ [][CallNext]_callVars

-----------------------------------------------------------------------------
(* Properties.                                                             *)

Solutions(system) ==
  {x \in [1..Len(system) -> Zr] :
     \A r \in 1..Len(system) :
       Product(system[r], x, Len(system)) = system[r][Len(system) + 1]}

\* Elimination loses no solution and adds none, in whatever order the cells of
\* a row are overwritten with values computed from cells of that row
\* (utilities.cpp:97-114): between two columns the system has the solutions of
\* the one given.
SameSolutions ==
  phase \in {"column", "solved"} => Solutions(matrix) = Solutions(given)

\* What solve returns for a system with exactly one solution is that solution.
\* For the others it is whatever the last column holds: the callers try it.
SolvesRegular ==
  \A x \in Solutions(given) :
    phase = "solved" /\ Solutions(given) = {x} => res = x
=============================================================================
