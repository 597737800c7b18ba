SPECIFICATION Spec
CONSTANTS
  Channels = {c1}
  Requests = {r1, r2, r3}
  Actions = {"sendCommandApdu", "getPcscClient"}
  Bodies = {"complete", "nullCommand"}
  MaxFrames = 1
  Capacity = 1
  Null = Null
SYMMETRY Symmetry
CHECK_DEADLOCK FALSE
INVARIANT TypeOK
INVARIANT TranscriptExact
INVARIANT ReadsArePrefixes
PROPERTY FailedReadsAreExplained
