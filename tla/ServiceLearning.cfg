SPECIFICATION Spec
CONSTANTS
  Session = {s1}
  NoSession = NoSession
  Command = {"plain", "plain2", "risky"}
  Normal <- MCNormal
  Handler = {h1, h2}
  FailureToken = {"t1", "t2"}
  Operations = {"status", "pre-send", "confirm", "post-failure", "post-success"}
  Callers = {s1}
  Cfg <- MCCfg
  Lines <- MCLines
  ConfirmTTL = 1
  UndoTTL = 1
  PairWindow = 0
  MaxTime = 1
  MaxToken = 1
  MaxFailure = 1
SYMMETRY Sessions
INVARIANTS TypeOK SubmitIsBacked OnePairPerFailure PairsMatchTheirFailure
PROPERTY StaleFailuresAreDropped
