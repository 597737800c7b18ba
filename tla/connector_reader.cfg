SPECIFICATION Spec
CONSTANTS
  Readers = {r1, r2}
  None = None
  MaxCards = 1
  MaxClients = 2
  MaxCommands = 1
CHECK_DEADLOCK FALSE
INVARIANT ServedByChosenReader
