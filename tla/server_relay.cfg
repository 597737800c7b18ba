SPECIFICATION Spec
CONSTANTS
  Channels = {c1, c2}
  Requests = {r1, r2}
  Actions = {"sendCommandApdu", "getPcscClients"}
  Bodies = {"complete", "badByte"}
  MaxFrames = 1
  Capacity = 1
  Null = Null
SYMMETRY Symmetry
CHECK_DEADLOCK FALSE
INVARIANT StatusTruthful
INVARIANT RelayedOnce
INVARIANT RecordedBeforeSent
INVARIANT FailureMeansGone
INVARIANT EmptyListMeansGone
PROPERTY RelayImplemented
