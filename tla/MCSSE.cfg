CONSTANTS
  Client = {c1}
  NoClient = NoClient
  Keyword <- MCKeyword
  Word <- MCWord
  DocId <- MCDocId
  Docs <- MCDocs
  Dist <- MCDist
  Wide = {}
  N = 2
  Backlog = 1
  CanCrash = {}
  ServerMayStop = FALSE
SPECIFICATION Spec
INVARIANTS
  TypeOK
  InSync
  HalfDuplex
  MatchesBelongTogether
PROPERTIES
  PromiseKept
