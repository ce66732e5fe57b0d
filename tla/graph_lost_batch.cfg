SPECIFICATION Spec
CONSTANTS
  Writers = {w1, u}
  Readers = {r1}
  Hidden = {}
  Unreadable = {u}
  Threads = {watcher, t1}
  Watcher = watcher
  Failing = {}
  MaxChanges = 2
INVARIANTS
  GraphIsCurrent
