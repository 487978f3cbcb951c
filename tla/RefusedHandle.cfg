SPECIFICATION Spec
CONSTANTS
  TextSize = 6
  ThreadsCount = 3
  TextStarts <- PlainArrays
INVARIANTS AcceptsSameDocuments
CHECK_DEADLOCK FALSE
