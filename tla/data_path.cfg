SPECIFICATION FairSpec
CONSTANTS
  Threads = {t1, t2}
  Own = {p}
  Remotes = {r}
  Sub = sub
  Messages = {m1, m2}
  Takes = {"take", "serialized_with_info", "loan", "loan_with_info", "sequence"}
  Ignoring = TRUE
  BatchSize = 2
  MaxWritten = 2
  Failing = {"take", "malformed", "return", "content", "alloc", "record", "write"}
  None = None
CHECK_DEADLOCK FALSE
PROPERTIES
  DeliversStream
  SamplesAreTaken
INVARIANTS
  LoansAccounted
