CONSTANTS
  Shell = "zsh"
  MaxOutput = 2
  MarkerLength = 3
  MaxCommands = 2
  MaxPrint = 3
  MaxNames = 1
SPECIFICATION Spec
INVARIANTS TypeOK RelayMatchesStream ReadsOwnOutput AvailableOutputIsRead
CHECK_DEADLOCK FALSE
