SPECIFICATION Spec
CONSTANTS
  Half = 4
  Lengths = {1, 4}
  MaxSent = 1
  Messages <- MCMessages
CHECK_DEADLOCK FALSE
INVARIANT EnoughMeansFrame
