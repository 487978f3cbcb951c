SPECIFICATION Spec
CONSTANTS
  Byte = {"a", "b"}
  Unset = Unset
  Null = Null
  PtrdiffMax = 5
  MaxData = 2
INVARIANTS TypeOK SpaceIsThere HoldsWhatWasPushed PoppedStaysReadable
