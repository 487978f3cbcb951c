SPECIFICATION Spec
CONSTANTS
  JsonSize = 5
  ThreadsCount = 2
  MinThreadSliceSize = 2
  Uint8Values = 4
  PreparseOutcomes = {"preparsed", "no_table", "no_stack", "no_segment", "table_grow", "segment_grow", "stack_grow"}
INVARIANTS NoLeak

