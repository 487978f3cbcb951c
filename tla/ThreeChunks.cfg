SPECIFICATION Spec
CONSTANTS
  JsonSize = 7
  ThreadsCount = 5
  MinThreadSliceSize = 2
  Uint8Values = 4
  PreparseOutcomes = {"preparsed", "no_table"}
INVARIANTS TypeOK ChunksTileInput NoUseAfterFree NoDoubleFree NoLeak
PROPERTIES PublishedIsFrozen ImplementsParseCall Returns
