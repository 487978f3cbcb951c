SPECIFICATION Spec
CONSTANTS
  JsonSize = 10
  ThreadsCount = 2
  MinThreadSliceSize = 2
  Uint8Values = 4
  PreparseOutcomes = {"preparsed", "no_table"}
INVARIANTS HandlesResolve CursorKeepsRest
PROPERTIES ImplementsParseCall ScenarioSettled FindsListedValue
