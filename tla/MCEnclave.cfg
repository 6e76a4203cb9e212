CONSTANTS
  Word <- MCWord
  Near <- MCNear
  Hits <- MCHits
  TableSize = 3
  MaxList = 2
  Heaps <- MCHeaps
  Cost <- MCCost
  MaxRequests = 5
SPECIFICATION Spec
INVARIANTS
  TypeOK
  WholeTableSearched
  ServesWithinBudget
