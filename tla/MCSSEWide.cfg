CONSTANTS
  Client = {c1}
  NoClient = NoClient
  Keyword <- MCKeyword
  Word <- MCWord
  DocId <- MCDocId
  Docs <- MCWideDocs
  Dist <- MCDist
  Wide <- MCWide
  N = 1
  Backlog = 1
  CanCrash = {}
  ServerMayStop = FALSE
SPECIFICATION Spec
INVARIANTS
  AnnouncedIsSent
