CONSTANTS
  Name = {a, b}
  Digits = {0, 1, 2}
  NoText = NoText
  num_keywords = 3
  num_files = 2
  MaxAssigned = 3
  MaxLines = 5
  Files <- MCFiles
SPECIFICATION DatasetSpec
INVARIANTS
  TypeOK
  PostingsAsWritten
  ServiceMayStart
  ReadsWhatWasWritten
