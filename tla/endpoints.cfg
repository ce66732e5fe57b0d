SPECIFICATION FairSpec
CONSTANTS
  pub = pub
  sub = sub
  other = other
  client = client
  service = service
  Pubs = {pub}
  Subs = {sub, other}
  Pairs = {client, service}
  First <- PairFirst
  Second <- PairSecond
  Nodes = {n1}
  Threads = {t1, t2}
  None = None
  Failing = {"topic", "filter", "impl", "entity", "condition", "memory", "announce", "register", "finalize", "guid"}
  EarlyFini = TRUE
CHECK_DEADLOCK FALSE
INVARIANTS
  ListenerFindsImpl
  GraphIsExact
  OwnersOutliveUse
  NothingLeaks
PROPERTIES
  CallsReturn
