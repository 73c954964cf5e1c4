----------------------------- MODULE Membership -----------------------------
(***************************************************************************)
(* How a coordinator learns which node serves which shard (ring.go,        *)
(* staticmember.go, k8smember.go): it probes the nodes of a fixed list     *)
(* from time to time, or those of a Kubernetes Endpoints object whenever   *)
(* the watch delivers a new version of it, and rebuilds the ring from the  *)
(* shards the nodes report.  Nodes start, stop and change their shards at  *)
(* any moment, also between the probes of one round; a watch breaks off    *)
(* and loses what it had not delivered.  A node that does not answer, or   *)
(* answers without shards, reports <<>>.                                   *)
(***************************************************************************)
EXTENDS Integers, Sequences, SequencesExt, FiniteSetsExt

CONSTANTS
    Addrs,          \* the configured nodes, in order
    Shards,
    Reports,        \* what a node may report: sequences of shards
    MaxChanges      \* bound on changes of nodes and of the Endpoints object

VARIABLES
    mode,       \* "static" or "k8s"; "off" in a deployment without a ring
    report,     \* what each node would answer now
    ready,      \* the addresses of the Endpoints object
    watching,   \* a watch is open
    stream,     \* its events that were not taken yet
    todo,       \* the nodes the round has still to probe, or Idle
    found,      \* nodes of the round of a k8s watcher
    known,      \* static: the last shards of each node, <<>> when it has none
    changed,    \* static: a probe of the round differed
    ring,       \* shard -> its primary, if any, and its replicas
    changes

memberVars == <<mode, report, ready, watching, stream, todo, found, known, changed, ring, changes>>

Idle == <<"idle">>

\* The nodes of a sequence that have reported shards.
Nodes(addrs, shards) ==
    LET with == SelectSeq(addrs, LAMBDA a : shards[a] # <<>>)
    IN  [i \in DOMAIN with |-> [node |-> with[i], shards |-> shards[with[i]]]]

nodeOwnsShard(n, s) == s \in ToSet(n.shards)

\* Fault: a node that does not declare the shard is its replica like any other.
RebuildAnyone(nodes) ==
    LET first(s) == SelectInSeq(nodes, LAMBDA n : nodeOwnsShard(n, s))
        others(s) == SelectSeq(nodes, LAMBDA n : n # nodes[first(s)])
    IN  [s \in Shards |->
            [primary  |-> IF first(s) = 0 THEN <<>> ELSE <<nodes[first(s)].node>>,
             replicas |-> IF first(s) = 0 THEN <<>> ELSE [i \in DOMAIN others(s) |-> others(s)[i].node]]]

\* The first node that declares a shard is its primary, the others its replicas.
Rebuild(nodes) ==
    LET first(s) == SelectInSeq(nodes, LAMBDA n : nodeOwnsShard(n, s))
        Replica(n, s) == nodeOwnsShard(n, s) /\ n # nodes[first(s)]
        Names(seq) == [i \in DOMAIN seq |-> seq[i].node]
    IN  [s \in Shards |->
            [primary  |-> IF first(s) = 0 THEN <<>> ELSE <<nodes[first(s)].node>>,
             replicas |-> Names(SelectSeq(nodes, LAMBDA n : Replica(n, s)))]]

\* Where the cluster client looks for a shard, in this order.
Primary(s)          == ring[s].primary
ReplicasForShard(s) == ring[s].replicas

MemberInit ==
    /\ mode \in {"static", "k8s", "off"}
    /\ report \in [ToSet(Addrs) -> Reports]
    /\ mode = "off" => report = [a \in ToSet(Addrs) |-> <<>>]
    /\ ready = Addrs
    /\ watching = FALSE /\ stream = <<>> /\ todo = Idle /\ found = <<>>
    /\ known = [a \in ToSet(Addrs) |-> <<>>] /\ changed = FALSE
    /\ ring = Rebuild(<<>>)
    /\ changes = 0

-----------------------------------------------------------------------------
(* The nodes and the API server. *)

NodeChanges ==
    \E a \in ToSet(Addrs), r \in Reports :
        /\ mode # "off" /\ changes < MaxChanges /\ r # report[a]
        /\ report' = [report EXCEPT ![a] = r]
        /\ changes' = changes + 1
        /\ UNCHANGED <<mode, ready, watching, stream, todo, found, known, changed, ring>>

Event(type) == [type |-> type, addrs |-> ready']

\* An open watch gets the new version of the object.
EndpointsChange ==
    \E keep \in SUBSET ToSet(Addrs), type \in {"MODIFIED", "DELETED"} :
        /\ mode = "k8s" /\ changes < MaxChanges
        /\ type = "DELETED" => keep = {}
        /\ ready' = SelectSeq(Addrs, LAMBDA a : a \in keep)
        /\ ready' # ready
        /\ stream' = IF watching THEN Append(stream, Event(type)) ELSE stream
        /\ changes' = changes + 1
        /\ UNCHANGED <<mode, report, watching, todo, found, known, changed, ring>>

-----------------------------------------------------------------------------
(* StaticMemberWatcher: Refresh, from discoverStaticMembers or the ticker. *)

BeginRefresh ==
    /\ mode = "static" /\ todo = Idle
    /\ todo' = Addrs /\ changed' = FALSE
    /\ UNCHANGED <<mode, report, ready, watching, stream, found, known, ring, changes>>

\* Fault: only a node that was unknown counts as a change.
DiffersWhenNew(a) == report[a] # <<>> /\ known[a] = <<>>

Differs(a) == report[a] # <<>> /\ report[a] # known[a]

ProbeStatic ==
    /\ mode = "static" /\ todo \notin {Idle, <<>>}
    /\ todo' = Tail(todo)
    /\ known' = IF Differs(Head(todo)) THEN [known EXCEPT ![Head(todo)] = report[Head(todo)]]
                ELSE known
    /\ changed' = (changed \/ Differs(Head(todo)))
    /\ UNCHANGED <<mode, report, ready, watching, stream, found, ring, changes>>

EndRefresh ==
    /\ mode = "static" /\ todo = <<>>
    /\ todo' = Idle
    /\ ring' = IF changed THEN Rebuild(Nodes(Addrs, known)) ELSE ring
    /\ UNCHANGED <<mode, report, ready, watching, stream, found, known, changed, changes>>

-----------------------------------------------------------------------------
(* K8sMemberWatcher. *)

\* A new watch begins with the object as it is.
Watch ==
    /\ mode = "k8s" /\ ~watching
    /\ watching' = TRUE /\ stream' = <<[type |-> "ADDED", addrs |-> ready]>>
    /\ UNCHANGED <<mode, report, ready, todo, found, known, changed, ring, changes>>

\* An error, or the end of the ten seconds the client gives a whole response.
WatchEnds ==
    /\ mode = "k8s" /\ watching /\ todo = Idle
    /\ watching' = FALSE /\ stream' = <<>>
    /\ UNCHANGED <<mode, report, ready, todo, found, known, changed, ring, changes>>

\* The deletion of the object changes nothing.
TakeEvent ==
    /\ mode = "k8s" /\ stream # <<>> /\ todo = Idle
    /\ stream' = Tail(stream)
    /\ todo' = IF Head(stream).type = "DELETED" THEN Idle ELSE Head(stream).addrs
    /\ found' = <<>>
    /\ UNCHANGED <<mode, report, ready, watching, known, changed, ring, changes>>

Probe ==
    /\ mode = "k8s" /\ todo \notin {Idle, <<>>}
    /\ todo' = Tail(todo)
    /\ found' = found \o Nodes(<<Head(todo)>>, report)
    /\ UNCHANGED <<mode, report, ready, watching, stream, known, changed, ring, changes>>

\* A round that found nobody leaves the ring alone.
EndRebuild ==
    /\ mode = "k8s" /\ todo = <<>>
    /\ todo' = Idle /\ found' = <<>>
    /\ ring' = IF found = <<>> THEN ring ELSE Rebuild(found)
    /\ UNCHANGED <<mode, report, ready, watching, stream, known, changed, changes>>

MemberStep ==
    \/ NodeChanges \/ EndpointsChange
    \/ BeginRefresh \/ ProbeStatic \/ EndRefresh
    \/ Watch \/ WatchEnds \/ TakeEvent \/ Probe \/ EndRebuild

\* The watchers run on, and a watch that opens delivers its first event long
\* before its ten seconds are over.
MemberFairness ==
    /\ WF_memberVars(BeginRefresh) /\ WF_memberVars(ProbeStatic) /\ WF_memberVars(EndRefresh)
    /\ WF_memberVars(Watch) /\ WF_memberVars(WatchEnds) /\ SF_memberVars(TakeEvent)
    /\ WF_memberVars(Probe) /\ WF_memberVars(EndRebuild)

-----------------------------------------------------------------------------

\* The nodes that answer now, with shards of their own.
Members    == IF mode = "k8s" THEN ToSet(ready) ELSE ToSet(Addrs)
Answering  == {a \in Members : report[a] # <<>>}
Targets(s) == Primary(s) \o ReplicasForShard(s)

\* A shard is routed to all the nodes that answer and have it, the first in order
\* being the primary, and to no answering node that lacks it.  A silent node stays
\* a target only where the list of nodes is fixed, or if nobody answers at all.
RingIsCurrent ==
    \A s \in Shards :
        /\ mode = "static" \/ Answering # {} =>
              \A a \in Answering : a \in ToSet(Targets(s)) <=> s \in ToSet(report[a])
        /\ mode = "k8s" /\ Answering # {} => ToSet(Targets(s)) \subseteq Answering
        /\ Targets(s) = SelectSeq(Addrs, LAMBDA a : a \in ToSet(Targets(s)))

\* Once the nodes stop changing the coordinator's routes become and stay current,
\* whatever changed between the probes of a round and whatever events were lost
\* with a watch that broke off (staticmember.go, k8smember.go, ring.go).
RingFollowsMembers == mode # "off" => <>[]RingIsCurrent
=============================================================================
