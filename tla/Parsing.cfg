SPECIFICATION Spec
CONSTANTS
  MaxTokens = 11
  Inputs = {"word", "string", "unclosed_string", "bad_float", "eof", "[", "]", "{", "}", ",", ":"}
INVARIANTS TypeOK StackFits FinishedIsReadable AcceptsDocuments SegmentSaysWhatWasRead
CHECK_DEADLOCK FALSE
