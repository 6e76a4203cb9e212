CONSTANTS
  A = A
  B = B
  C = C
  D = D
  Bit = Bit
  MaxNames = 4
  Attribute = {A, B, C, D}
  Policies <- MCPolicies
  Accepts <- MCAccepts
  Order = 4001
  H <- MCH
  HashToZr <- MCHashToZr
  Random <- MCRandom
  Ek <- MCEk
  Epochs = 2
SPECIFICATION Spec
INVARIANTS
  IsSatisfyIsPolicy
  FreeRowsVanish
  MainOpensIffAdmitted
PROPERTIES
  Ends
