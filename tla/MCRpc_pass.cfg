CONSTANTS
  Messages <- MessageTable
  Methods <- MethodTable
  LastField = 6
  Undefined = Undefined
  Strings = {"", "x", ","}
  PageNumbers <- MCPageNumbers
  PeerNumbers <- MCPeerNumbers
  Int32Max = 5
  MaxSafe = 7
  Catalogue <- MCCatalogue
  Spelling <- MCSpelling
  IdLists <- MCIdLists
SPECIFICATION Spec
INVARIANTS
  TypeOK
  RequestKept
  AnswerKept
  FailsForItsNumbers
  JsonRestores
  RecommendsOthers
