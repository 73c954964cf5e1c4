---------------------------- MODULE ClusterClient ----------------------------
(***************************************************************************)
(* The coordinator's client (internal/cluster): one circuit breaker per    *)
(* shard node, and the four users that share it.  IndexDoc and DeleteDoc   *)
(* route one shard's write to the first candidate whose breaker allows it; *)
(* IndexBatch routes one shard after another and may collect several done  *)
(* callbacks of one breaker; a search asks the breaker twice, once in      *)
(* searchNode and again in doDecodeWithBreaker; the health poller asks it  *)
(* before each /health call.                                               *)
(*                                                                         *)
(* Every Allow and every record is one step (CircuitBreaker.mu).  Time is  *)
(* reduced to one bit per open breaker: its reset timeout has elapsed.     *)
(***************************************************************************)
EXTENDS Integers, Sequences, FiniteSets

CONSTANTS
    Nodes,              \* shard nodes
    Shards,             \* shard ids
    Primary,            \* Ring.primary
    Replicas,           \* Ring.replicas, in order
    Clients,            \* goroutines that serve requests of the coordinator
    Requests,           \* which requests are made
    Threshold,          \* failureThreshold (3)
    CallsOutliveReset   \* calls may last longer than resetTimeout: not with a
                        \* 30s reset and 10s (client) or 5s (poller) timeouts

ASSUME ClusterAssumption ==
    /\ Clients \cap Nodes = {}
    /\ Primary \in [Shards -> Nodes]
    /\ Replicas \in [Shards -> Seq(Nodes)]
    /\ Threshold \in Nat \ {0}
    /\ CallsOutliveReset \in BOOLEAN

VARIABLES
    breaker,    \* node -> its CircuitBreaker
    rest,       \* caller -> shards of its batch that nodeFor has not routed
    trying,     \* caller -> candidates nodeFor has still to ask for this shard
    holds,      \* caller -> node -> done callbacks it must still call
    call,       \* caller -> node -> where its call to the node stands
    healthy,    \* node -> it answers its requests (external)
    streak      \* history: node -> calls that failed since the last success

vars == <<breaker, rest, trying, holds, call, healthy, streak>>

\* The poller is modelled as one caller per node, named after the node.
Callers == Clients \cup Nodes

CircuitBreaker == [state : {"closed", "open", "half-open"}, failures : 0 .. Threshold,
                   probing : BOOLEAN, cooled : BOOLEAN]

\* A count above the threshold is not told apart from the threshold.
Saturated(n) == IF n <= Threshold THEN n ELSE Threshold

Candidates(s) == <<Primary[s]>> \o Replicas[s]

-----------------------------------------------------------------------------
(* CircuitBreaker.Allow and CircuitBreaker.record.                         *)

Allowed(b) ==
    \/ b.state = "closed"
    \/ b.state = "open" /\ b.cooled /\ ~b.probing
    \/ b.state = "half-open" /\ ~b.probing

\* Fault: the compare-and-swap on probing is forgotten.
AfterAllowUnmarked(b) ==
    IF b.state = "open" /\ b.cooled THEN [b EXCEPT !.state = "half-open"] ELSE b

AfterAllow(b) ==
    IF b.state = "half-open" \/ (b.state = "open" /\ b.cooled)
    THEN [b EXCEPT !.state = "half-open", !.probing = TRUE]
    ELSE b

Trip(b) == [b EXCEPT !.state = "open", !.cooled = FALSE]

\* Faults: the threshold is off by one; a success leaves the count; a failed
\* probe stays marked as in flight.
RecordOffByOne(b, success) ==
    IF success
    THEN [b EXCEPT !.failures = 0, !.state = "closed", !.probing = FALSE]
    ELSE LET f == [b EXCEPT !.failures = Saturated(@ + 1), !.probing = FALSE]
         IN  IF b.state = "half-open" \/ (b.state = "closed" /\ b.failures >= Threshold)
             THEN Trip(f) ELSE f

RecordKeepsCount(b, success) ==
    IF success
    THEN [b EXCEPT !.state = "closed", !.probing = FALSE]
    ELSE LET f == [b EXCEPT !.failures = Saturated(@ + 1), !.probing = FALSE]
         IN  IF b.state = "half-open" \/ (b.state = "closed" /\ f.failures >= Threshold)
             THEN Trip(f) ELSE f

RecordKeepsProbing(b, success) ==
    IF success
    THEN [b EXCEPT !.failures = 0, !.state = "closed", !.probing = FALSE]
    ELSE LET f == [b EXCEPT !.failures = Saturated(@ + 1)]
         IN  IF b.state = "half-open" \/ (b.state = "closed" /\ f.failures >= Threshold)
             THEN Trip(f) ELSE f

Record(b, success) ==
    IF success
    THEN [b EXCEPT !.failures = 0, !.state = "closed", !.probing = FALSE]
    ELSE LET f == [b EXCEPT !.failures = Saturated(@ + 1), !.probing = FALSE]
         IN  IF b.state = "half-open" \/ (b.state = "closed" /\ f.failures >= Threshold)
             THEN Trip(f) ELSE f

-----------------------------------------------------------------------------
Init ==
    /\ breaker = [n \in Nodes |-> [state |-> "closed", failures |-> 0,
                                   probing |-> FALSE, cooled |-> FALSE]]
    /\ rest = [c \in Callers |-> {}]
    /\ trying = [c \in Callers |-> <<>>]
    /\ holds = [c \in Callers |-> [n \in Nodes |-> 0]]
    /\ call = [c \in Callers |-> [n \in Nodes |-> "none"]]
    /\ healthy \in [Nodes -> BOOLEAN]
    /\ streak = [n \in Nodes |-> 0]

Routed(c) == rest[c] = {} /\ trying[c] = <<>>
Idle(c)   == Routed(c) /\ \A n \in Nodes : holds[c][n] = 0

\* c asks n's breaker; when allowed, c owes it a done and its call goes to stage.
Ask(c, n, stage) ==
    /\ breaker' = [breaker EXCEPT ![n] = AfterAllow(@)]
    /\ IF Allowed(breaker[n])
       THEN /\ holds' = [holds EXCEPT ![c][n] = @ + 1]
            /\ call' = [call EXCEPT ![c][n] = stage]
       ELSE UNCHANGED <<holds, call>>

\* c pays one done.
Pay(c, n, success) ==
    /\ breaker' = [breaker EXCEPT ![n] = Record(@, success)]
    /\ holds' = [holds EXCEPT ![c][n] = @ - 1]

-----------------------------------------------------------------------------
(* Writes: IndexDoc, DeleteDoc, IndexBatch.                                *)

StartWrite(c) ==
    /\ "write" \in Requests /\ Idle(c)
    /\ \E s \in Shards : trying' = [trying EXCEPT ![c] = Candidates(s)]
    /\ UNCHANGED <<breaker, rest, holds, call, healthy, streak>>

StartBatch(c) ==
    /\ "batch" \in Requests /\ Idle(c)
    /\ \E S \in SUBSET Shards \ {{}} : rest' = [rest EXCEPT ![c] = S]
    /\ UNCHANGED <<breaker, trying, holds, call, healthy, streak>>

\* The next shard in the iteration over byShard, in any order.
NextShard(c) ==
    /\ trying[c] = <<>>
    /\ \E s \in rest[c] : /\ rest' = [rest EXCEPT ![c] = @ \ {s}]
                          /\ trying' = [trying EXCEPT ![c] = Candidates(s)]
    /\ UNCHANGED <<breaker, holds, call, healthy, streak>>

\* nodeFor asks the primary, then each replica, and stops at the first that allows.
TryNode(c) ==
    /\ trying[c] # <<>>
    /\ LET n == Head(trying[c])
       IN  /\ Ask(c, n, "sent")
           /\ trying' = [trying EXCEPT ![c] = IF Allowed(breaker[n]) THEN <<>> ELSE Tail(@)]
    /\ UNCHANGED <<rest, healthy, streak>>

-----------------------------------------------------------------------------
(* Searches and polls.                                                     *)

\* searchNode.
StartSearch(c) ==
    /\ "search" \in Requests /\ Idle(c)
    /\ \E n \in Nodes : Ask(c, n, "asking")
    /\ UNCHANGED <<rest, trying, healthy, streak>>

\* doDecodeWithBreaker, for the same search; denied, it sends nothing.
AskAgain(c, n) ==
    /\ call[c][n] = "asking"
    /\ breaker' = [breaker EXCEPT ![n] = AfterAllow(@)]
    /\ IF Allowed(breaker[n])
       THEN /\ holds' = [holds EXCEPT ![c][n] = @ + 1]
            /\ call' = [call EXCEPT ![c][n] = "sent"]
       ELSE /\ call' = [call EXCEPT ![c][n] = "failed"]
            /\ UNCHANGED holds
    /\ UNCHANGED <<rest, trying, healthy, streak>>

\* checkNode.
Poll(n) ==
    /\ "poll" \in Requests /\ Idle(n)
    /\ Ask(n, n, "sent")
    /\ UNCHANGED <<rest, trying, healthy, streak>>

-----------------------------------------------------------------------------
(* Answers.  IndexBatch sends nothing before all its shards are routed.    *)

\* The answer, or the HTTP client's timeout, and the first done.
Answer(c, n) ==
    /\ call[c][n] = "sent" /\ Routed(c)
    /\ Pay(c, n, healthy[n])
    /\ streak' = [streak EXCEPT ![n] = IF healthy[n] THEN 0 ELSE Saturated(@ + 1)]
    /\ call' = [call EXCEPT ![c][n] = IF holds[c][n] = 1 THEN "none"
                                      ELSE IF healthy[n] THEN "succeeded" ELSE "failed"]
    /\ UNCHANGED <<rest, trying, healthy>>

\* The dones that are left: the other shards of a batch, searchNode's own.
Done(c, n) ==
    /\ call[c][n] \in {"succeeded", "failed"}
    /\ Pay(c, n, call[c][n] = "succeeded")
    /\ call' = [call EXCEPT ![c][n] = IF holds[c][n] = 1 THEN "none" ELSE @]
    /\ UNCHANGED <<rest, trying, healthy, streak>>

-----------------------------------------------------------------------------
(* Time and the nodes.                                                     *)

\* resetTimeout has elapsed since the breaker opened.
Cooldown(n) ==
    /\ breaker[n].state = "open" /\ ~breaker[n].cooled
    /\ CallsOutliveReset \/ \A c \in Callers : holds[c][n] = 0
    /\ breaker' = [breaker EXCEPT ![n].cooled = TRUE]
    /\ UNCHANGED <<rest, trying, holds, call, healthy, streak>>

FailOrRecover(n) ==
    /\ healthy' = [healthy EXCEPT ![n] = ~@]
    /\ UNCHANGED <<breaker, rest, trying, holds, call, streak>>

-----------------------------------------------------------------------------
Step(c) == NextShard(c) \/ TryNode(c) \/ \E n \in Nodes : AskAgain(c, n) \/ Answer(c, n) \/ Done(c, n)

Next ==
    \/ \E c \in Clients : StartWrite(c) \/ StartBatch(c) \/ StartSearch(c)
    \/ \E c \in Callers : Step(c)
    \/ \E n \in Nodes : Poll(n) \/ Cooldown(n) \/ FailOrRecover(n)

Spec == Init /\ [][Next]_vars

\* Calls end (both HTTP clients have timeouts), time passes, the ticker ticks.
\* Clients of the coordinator need not send anything.
Fairness ==
    /\ \A c \in Callers : WF_vars(Step(c))
    /\ \A n \in Nodes : WF_vars(Poll(n)) /\ WF_vars(Cooldown(n))

FairSpec == Spec /\ Fairness

-----------------------------------------------------------------------------
(* Properties.                                                             *)

\* A half-open breaker has its probe marked and no other one has; a closed one
\* is below its threshold (so the next failure that reaches it must trip it).
BreakerConsistent ==
    /\ breaker \in [Nodes -> CircuitBreaker]
    /\ \A n \in Nodes : /\ breaker[n].probing <=> breaker[n].state = "half-open"
                        /\ breaker[n].state = "closed" => breaker[n].failures < Threshold

\* circuitbreaker.go: "In HalfOpen state exactly ONE goroutine probes".  No call
\* from before the trip is still out, and the probe's done has not been lost.
OneProbe ==
    \A n \in Nodes : breaker[n].state = "half-open" =>
        \E c \in Callers : /\ holds[c][n] = 1
                           /\ \A d \in Callers \ {c} : holds[d][n] = 0

\* circuitbreaker.go: "Closed -> Open after failureThreshold consecutive failures"
\* of calls to the node.
OpensAfterThreshold ==
    [][ \A n \in Nodes : breaker[n].state = "closed" /\ breaker'[n].state = "open"
                         => streak'[n] >= Threshold ]_vars

\* nodeFor's comment: no breaker may be "permanently quarantining a primary even
\* after it recovers".  A node that is healthy for good is routed to for good.
NodeRecovers ==
    \A n \in Nodes : <>[]healthy[n] => <>[](breaker[n].state = "closed")
=============================================================================
