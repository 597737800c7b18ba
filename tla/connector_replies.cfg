SPECIFICATION Spec
CONSTANTS
  Readers = {r1, r2}
  None = None
  MaxCards = 2
  MaxClients = 2
  MaxCommands = 2
SYMMETRY Symmetry
CHECK_DEADLOCK FALSE
INVARIANT TypeOK
INVARIANT OnlyOneAlive
INVARIANT RepliesInOrder
INVARIANT ServedByOneCard
PROPERTY CardServiceImplemented
