-------------------------- MODULE MCClusterClient --------------------------
(* Instances of ClusterClient for TLC: at most two nodes and two shards.  *)
EXTENDS ClusterClient, TLC

CONSTANTS n1, n2, s1, s2

\* One shard on each node, alone; both on the first, backed up by the second.
NoReplica    == [s \in Shards |-> <<>>]
OneOnEach    == [s \in {s1, s2} |-> IF s = s1 THEN n1 ELSE n2]
BothOnOne    == [s \in {s1, s2} |-> n1]
BackedUp     == [s \in {s1, s2} |-> <<n2>>]

ClientSymmetry == Permutations(Clients)
=============================================================================
