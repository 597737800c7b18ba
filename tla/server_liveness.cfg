SPECIFICATION FairSpec
CONSTANTS
  Channels = {c1}
  Requests = {r1, r2}
  Actions = {"sendCommandApdu", "getPcscClient", "getPcscClients"}
  Bodies = {"complete", "missingKey", "badId", "noList", "nullCommand", "badByte"}
  MaxFrames = 1
  Capacity = 1
  Null = Null
CHECK_DEADLOCK FALSE
PROPERTY EveryRequestAnswered
PROPERTY ClosedChannelForgotten
