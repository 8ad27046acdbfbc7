CONSTANTS
  Command = {x, y}
  RuleId = {a}
  Editor = {e1, e2}
  Loader = {l1}
  GlobalFiles <- MCGlobalFiles
  ProjectFiles <- MCProjectFiles
  Overrides <- MCOverrides
  Settings <- MCSettings
  NoFile = NoFile
  Invalid = Invalid
  Nothing = Nothing
SYMMETRY Symmetric
SPECIFICATION Spec
INVARIANTS AuthorityIsConsented ExceptionIdsAreUnique SerialUpdatesPersist
