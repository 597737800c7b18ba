SPECIFICATION FairSpec
CONSTANTS
  Readers = {r1, r2}
  None = None
  MaxCards = 1
  MaxClients = 2
  MaxCommands = 2
CHECK_DEADLOCK FALSE
PROPERTY GuiComesBack
PROPERTY CommandsAnswered
