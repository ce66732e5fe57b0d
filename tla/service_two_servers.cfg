SPECIFICATION Spec
CONSTANTS
  Clients = {c1}
  Askers = {c1}
  Servers = {s1, s2}
  Threads = {t1}
  Takers = {t2}
  MaxRequests = 1
  MaxStrays = 0
  Failing = {}
  Departing = FALSE
SYMMETRY ServiceSymmetry
INVARIANTS
  AssuredIsAnswerable
