SPECIFICATION FairSpec
CONSTANTS
  Main = main
  Workers = {w1, w2}
  Nodes = {n1, n2}
  Others = {e1}
  Self = self
  Remotes = {r1}
  MaxVersion = 1
  Failing = {"node", "pub", "sub", "gc", "thread", "wait_set", "dds", "wait", "destroy", "publish"}
  EarlyFini = TRUE
INVARIANTS
  UsesLiveChannel
  ActiveCountsEntities
  ContextOutlivesEntities
  ChannelIsWhole
  NodesAnnounced
PROPERTIES
  LifecycleCallsReturn
  AnnouncementTakenIn
