SPECIFICATION FairSpec
CONSTANTS
  Half = 4
  Lengths = {0, 3, 4, 10}
  MaxSent = 3
  Messages <- MCMessages
CHECK_DEADLOCK FALSE
INVARIANT TypeOK
INVARIANT FramesAreMessages
INVARIANT NothingStuck
PROPERTY StreamImplemented
PROPERTY MessagesArrive
