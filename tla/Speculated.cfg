SPECIFICATION Spec
CONSTANTS
  TextSize = 9
  ThreadsCount = 3
  TextStarts <- ArraysAndObjects
INVARIANTS TypeOK SameDocument RejectsOnlyHandles
CHECK_DEADLOCK FALSE
