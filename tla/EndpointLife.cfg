CONSTANTS
  Daemon = {d1, d2}
  Client = {c1, c2}
  NoFile = NoFile
  DeadFile = DeadFile
  MaxDisk = 1
  MaxCrash = 1
SPECIFICATION Spec
INVARIANTS LoneStartsAreSafe StaleOnlyIfStopLost
PROPERTIES StaleEndpointReplaced
