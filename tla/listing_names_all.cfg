SPECIFICATION Spec
CONSTANTS
  Channels = {c1, c2}
  Requests = {r1}
  Actions = {"getPcscClients"}
  Bodies = {"complete"}
  MaxFrames = 0
  Capacity = 1
  Null = Null
CHECK_DEADLOCK FALSE
INVARIANT EveryOpenChannelListed
