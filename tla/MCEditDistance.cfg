CONSTANTS
  Char <- MCChar
  Word <- MCWord
SPECIFICATION Spec
INVARIANTS
  TypeOK
  ReturnsLevenshtein
  ShortcutIsOptimal
