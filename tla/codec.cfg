SPECIFICATION Spec
CONSTANTS
  Alphabet = {0, 93, 94, 125, 126}
  MaxLen = 3
INVARIANTS OneByteErrorsDetected DecodesOrRejects
CHECK_DEADLOCK FALSE
