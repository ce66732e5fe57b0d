SPECIFICATION FairSpec
CONSTANTS
  Types = {matched, deadline}
  MatchedTypes = {matched}
  AppThreads = {a1, a2}
  Dispatchers = {d1, d2}
  Callbacks = {cb}
  NoCallback = NoCallback
  MaxTotal = 1
  SerialInit = TRUE
  Reinit = FALSE
  ReadOutcomes = {TRUE}
  InstallOutcomes = {TRUE, FALSE}
INVARIANTS
  CountersOrdered
  TakesAddUp
  GuardMirrorsCount
  EveryChangeCounted
  ListenerStaysInstalled
  ReportedIsTold
PROPERTIES
  TriggerClearedByTake
  ImplementsLedger
  EventuallyTold
