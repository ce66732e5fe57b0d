SPECIFICATION FairSpec
CONSTANTS
  Clients = {c1, c2}
  Askers = {c1}
  Servers = {s1}
  Threads = {t1}
  Takers = {t3}
  MaxRequests = 1
  MaxStrays = 1
  Failing = {"request", "response", "take"}
  Departing = TRUE
INVARIANTS
  AnswersAreOwn
  ReadyCountIsExact
  AssuredIsAnswerable
  AssuredIsNotLost
PROPERTIES
  AssuredIsAnswered
