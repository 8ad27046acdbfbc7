CONSTANTS
  Pair = {p1, p2}
  Recorder = {h1, h2}
  Idle = Idle
  Threshold = 3
  Retention = 0
  MaxId = 2
  MaxSeen = 3
  MaxTime = 1
SYMMETRY Symmetric
SPECIFICATION Spec
INVARIANTS RulesAreEarned KeysAreUnique StoreIsBacked
