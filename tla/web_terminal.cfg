SPECIFICATION FairSystem
CONSTANTS
  Channels = {1}
  Requests = {r1, r2}
  Actions = {"sendCommandApdu"}
  Bodies = {"complete", "badByte"}
  MaxFrames = 2
  Capacity = 2
  Null = Null
  Readers = {reader}
  None = None
  MaxCards = 1
  MaxClients = 1
  MaxCommands = 2
CHECK_DEADLOCK FALSE
INVARIANT RepliesFollowCommands
INVARIANT PatienceAvoidsRaces
INVARIANT TranscriptPairsUp
PROPERTY SentIsAnswered
