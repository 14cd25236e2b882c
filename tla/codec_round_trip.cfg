SPECIFICATION Spec
CONSTANTS
  Alphabet = {0, 93, 94, 125, 126}
  MaxLen = 3
INVARIANT RoundTrip
CHECK_DEADLOCK FALSE
