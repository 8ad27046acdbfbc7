CONSTANTS
  Shells = {"zsh", "fish", "bash", "powershell"}
  Line = {"fine", "wrong", "almost", "FINE", "risky"}
  Verdict <- MCVerdict
  Fix <- MCFix
  Fold <- MCFold
  DiagnosticLimit = 2
  MaxCommands = 3
SPECIFICATION Spec
INVARIANTS TypeOK CorrectionsAreTheUsers UndoFitsRewrite UndoKeyIsLent NothingPendingWhileRunning SecondEnterRuns AtMostOneUnasked
CHECK_DEADLOCK FALSE
