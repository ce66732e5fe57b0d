SPECIFICATION FairSpec
CONSTANTS
  AppThreads = {a1}
  Dispatchers = {d1, d2}
  MaxWriters = 2
  MaxChanges = 2
  MaxOwed = 2
  Reinit = FALSE
  Failing = {"listener", "install"}
INVARIANTS
  ChangesAreSignalled
  SurplusIsExplained
PROPERTIES
  ChangeIsTold
