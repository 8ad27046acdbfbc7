CONSTANTS
  Configs <- MCConfigs
  CommandLines <- MCCommandLines
SPECIFICATION Spec
INVARIANTS EditsAreOptedIn LearnedWithinCeiling OnlyPreSendActs
