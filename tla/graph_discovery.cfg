SPECIFICATION FairSpec
CONSTANTS
  Writers = {w1, h}
  Readers = {r1}
  Hidden = {h}
  Unreadable = {}
  Threads = {watcher, t1}
  Watcher = watcher
  Failing = {"take", "return"}
  MaxChanges = 3
INVARIANTS
  GraphIsCurrent
  AnswersAreCurrent
PROPERTIES
  WatcherLearns
