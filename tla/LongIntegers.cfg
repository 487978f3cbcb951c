SPECIFICATION Spec
CONSTANTS
  Texts <- LongIntegers
  Keys <- TheKeys
  Bits <- TheBits
  Visitors <- TheVisitors
  MaxCalls = 20
  Clients = {"formatter"}
INVARIANT IntegersAreKept
CHECK_DEADLOCK FALSE
