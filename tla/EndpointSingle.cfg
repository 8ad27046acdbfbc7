CONSTANTS
  Daemon = {d1, d2}
  Client = {c1}
  NoFile = NoFile
  DeadFile = DeadFile
  MaxDisk = 0
  MaxCrash = 1
SPECIFICATION Spec
INVARIANT SingleDaemon
