CONSTANTS
  A = A
  B = B
  Short = Short
  Long = Long
  Attribute = {A, B}
  Policies <- MCPolicies
  Accepts <- MCAccepts
  findVector <- MCfindVector
  Ek <- MCEk
  Order = 30011
  H <- MCH
  HashToZr <- MCHashToZr
  Random <- MCRandom
  KeyTuple = {k1, k2}
  Cipher = {c1, c2}
  CT = {t1}
  Lsss = {p1}
  MaxCalls <- MCMaxCalls
  MaxTotal = 6
SPECIFICATION Spec
SYMMETRY MCSymmetry
INVARIANTS
  TypeOK
  ReturnsWhatWasSealed
  OnlyAdmitted
  HonestDecrypts
CHECK_DEADLOCK FALSE
