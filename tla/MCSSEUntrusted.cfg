CONSTANTS
  Client = {c1}
  NoClient = NoClient
  Keyword <- MCKeyword
  Word <- MCWord
  DocId <- MCDocId
  Docs <- MCDocs
  Dist <- MCDist
  Wide = {}
  N = 1
  Backlog = 1
  CanCrash = {c1}
  ServerMayStop = FALSE
SPECIFICATION Spec
INVARIANTS
  UntrustedPlaintextUnused
