SPECIFICATION PartsSpec
CONSTANTS
  MaxSent = 3
  Middle = 2
  MaxInputs = 2
  MaxNum = 2
  MaxScreens = 0
  UpCap = 2
  DownCap = 1
  Places = 3
  MaxPieces = 4
  MaxIds = 3
  MaxCommands = 4
INVARIANTS Agreed AckedCloseLosesNothing WholeOrNothing RunGetsThrough InputInOrder
PROPERTY PrefixGrows
CHECK_DEADLOCK FALSE
