CONSTANTS
  Client = {c1, c2}
  NoClient = NoClient
  Keyword <- OneKeyword
  Word <- ThreeWords
  DocId <- MCDocId
  Docs <- OneList
  Dist <- ThreeDist
  Wide = {}
  N = 2
  Backlog = 0
  CanCrash = {c1}
  ServerMayStop = TRUE
SPECIFICATION FairSpec
PROPERTIES
  PromiseKept
  EveryClientEnds
  SessionEnds
