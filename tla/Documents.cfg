SPECIFICATION Spec
CONSTANTS
  Texts <- TheTexts
  Keys <- TheKeys
  Bits <- TheBits
  Visitors <- TheVisitors
  MaxCalls = 20
  Clients = {"navigator", "visitor", "formatter"}
INVARIANTS
  TypeOK
  LookupsAreLogarithmic
  KeysAreFound
  VisitsInOrder
  PrintsDocument
PROPERTIES
  ImplementsJsonTree
  ImplementsTreeWalk
  VisitsEnd
CHECK_DEADLOCK FALSE
