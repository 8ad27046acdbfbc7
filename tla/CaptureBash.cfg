CONSTANTS
  Shell = "bash"
  MaxOutput = 2
  MarkerLength = 3
  MaxCommands = 2
  MaxPrint = 3
  MaxNames = 1
SPECIFICATION Spec
INVARIANT AvailableOutputIsRead
CHECK_DEADLOCK FALSE
