SPECIFICATION Spec
CONSTANTS
  Types = {matched}
  MatchedTypes = {matched}
  AppThreads = {a1, a2}
  Dispatchers = {d1}
  Callbacks = {cb}
  NoCallback = NoCallback
  MaxTotal = 2
  SerialInit = FALSE
  Reinit = FALSE
  ReadOutcomes = {TRUE}
  InstallOutcomes = {TRUE}
SYMMETRY ThreadSymmetry
INVARIANTS
  EveryChangeCounted
