CONSTANTS
  Command = {x, y}
  RuleId = {a, b}
  Editor = {e1}
  Loader = {l1}
  GlobalFiles <- MCGlobalFiles
  ProjectFiles <- MCProjectFiles
  Overrides <- MCOverrides
  Settings <- MCSettings
  NoFile = NoFile
  Invalid = Invalid
  Nothing = Nothing
SYMMETRY Symmetric
SPECIFICATION Spec
INVARIANT WrittenFileLoads
