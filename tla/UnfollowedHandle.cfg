SPECIFICATION Spec
CONSTANTS
  Texts <- TheTexts
  Keys <- TheKeys
  Bits <- TheBits
  Visitors <- TheVisitors
  MaxCalls = 20
  Clients = {"navigator"}
INVARIANT FoundValuesHaveTypes
CHECK_DEADLOCK FALSE
