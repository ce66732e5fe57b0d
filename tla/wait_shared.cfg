SPECIFICATION FairSpec
CONSTANTS
  w1 = w1
  w2 = w2
  g1 = g1
  g2 = g2
  c1 = c1
  Waiters = {w1, w2}
  Guards = {g1, g2}
  Levels = {c1}
  WaitsFor <- Shared
  Capacity = 3
  MaxItems = 2
  Failing = {"attach", "wait", "timeout"}
INVARIANTS
  NothingStaysAttached
  WorkIsSignalled
  OneShot
PROPERTIES
  WorkIsDone
  LevelsAreReported
