SPECIFICATION Spec
CONSTANTS
  TextSize = 5
  Alphabet = {"quote", "backslash", "0", "-", ".", "e", "n", "u", "space"}
INVARIANTS TypeOK StringsEndForwards JsonNumbersAreRead
CHECK_DEADLOCK FALSE
