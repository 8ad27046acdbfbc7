CONSTANTS
  k1 = k1
  k2 = k2
  c1 = c1
  c2 = c2
  NoFile = NoFile
  NoKey = NoKey
  Nothing = Nothing
  Packs <- MCPacks
  Signatures <- MCSignatures
  Bundled <- MCBundled
  Publishers = {"acme"}
  Keys = {k1, k2}
  Keyrings <- MCKeyrings
  Command = {c1, c2}
  Loader = {"serve"}
SPECIFICATION Spec
INVARIANTS LoadedWereSigned QuietLoadsAreVerified PairsIntact LoadFailuresExplained
SYMMETRY Symmetry
CHECK_DEADLOCK FALSE
