SPECIFICATION Spec
CONSTANTS
  n1 = n1
  n2 = n2
  s1 = s1
  s2 = s2
  Nodes = {n1, n2}
  Shards = {s1, s2}
  Primary <- BothOnOne
  Replicas <- BackedUp
  Clients = {c1, c2}
  Requests = {"write", "batch", "search", "poll"}
  Threshold = 2
  CallsOutliveReset = FALSE
SYMMETRY ClientSymmetry
INVARIANTS BreakerConsistent OneProbe
