SPECIFICATION Spec
CONSTANTS
  Names <- MCNames
  RefersTo <- MCRefersTo
  FoldersIn <- MCFoldersIn
  Cases <- MCCases
INVARIANTS
  PathsFollowSettings
  FirstWins
  SecretsStay
  LoadersCompose
  ImportsAreProcessed
  AppIsCompiled
  NodeModulesWin
  BundleIsPrecached
