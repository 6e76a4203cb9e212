CONSTANTS
  A = A
  B = B
  C = C
  D = D
  MaxNames = 4
  Attribute = {A, B, C, D}
  Policies <- MCPolicies
  Accepts <- MCAccepts
  Order = 5
SPECIFICATION Spec
INVARIANTS
  TypeOK
  SplitIsTopLevel
  NamesInOrder
  Rectangular
  MatrixMeansPolicy
