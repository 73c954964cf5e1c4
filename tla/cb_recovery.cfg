SPECIFICATION FairSpec
CONSTANTS
  n1 = n1
  n2 = n2
  s1 = s1
  s2 = s2
  Nodes = {n1, n2}
  Shards = {s1, s2}
  Primary <- OneOnEach
  Replicas <- NoReplica
  Clients = {c1}
  Requests = {"write", "batch", "poll"}
  Threshold = 2
  CallsOutliveReset = FALSE
PROPERTIES OpensAfterThreshold NodeRecovers
