CONSTANTS
  Text <- MCText
  Bad = Bad
  Length <- MCLength
  AnswerTo <- MCAnswerTo
  N = 2
  Base = 4
  IntSize = 2
  CountSize = 4
  ContentSize = 3
  TagSize = 2
  NumberSize = 3
  MaxCuts = 1
SPECIFICATION FramingSpec
INVARIANTS
  BytesOK
  AlignedUnlessCut
  PrintedIsPrefix
PROPERTIES
  BothEnd
