CONSTANTS
  Order = 3
  MaxHeight = 2
  Given <- MCSystems
SPECIFICATION CallSpec
INVARIANTS
  TypeOK
  UnitColumns
  SameSolutions
  SolvesRegular
