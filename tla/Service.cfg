SPECIFICATION Spec
CONSTANTS
  Session = {s1, s2}
  NoSession = NoSession
  Command = {"risky", "repair"}
  Normal <- MCNormal
  Handler = {h1, h2}
  FailureToken = {"t1"}
  Operations = {"pre-send", "undo"}
  Callers = {s1, s2, NoSession}
  Cfg <- MCCfg
  Lines <- MCLines
  ConfirmTTL = 1
  UndoTTL = 1
  PairWindow = 1
  MaxTime = 1
  MaxToken = 2
  MaxFailure = 0
SYMMETRY Sessions
INVARIANTS TokensTakeEffectOnce SubmitIsBacked UndoIsBacked OneUndoPerSession RetiredUndosAreGone
PROPERTY ImplementsLedger
