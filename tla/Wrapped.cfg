SPECIFICATION Spec
CONSTANTS
  JsonSize = 8
  ThreadsCount = 4
  MinThreadSliceSize = 2
  Uint8Values = 4
  PreparseOutcomes = {"preparsed", "no_table"}
INVARIANTS NoUseAfterFree

