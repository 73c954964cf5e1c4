------------------------- MODULE ClusterClientProofs -------------------------
(* BreakerConsistent, OneProbe and OpensAfterThreshold proved for all sets  *)
(* of nodes, shards and clients, every ring and every threshold.           *)
EXTENDS ClusterClient, TLAPS

-----------------------------------------------------------------------------
(* One breaker.                                                            *)

\* Probing and half-open go together; a closed breaker is below its threshold.
Sound(b) ==
    /\ b \in CircuitBreaker
    /\ b.probing <=> b.state = "half-open"
    /\ b.state = "closed" => b.failures < Threshold

\* Allow admits through a closed breaker, which it leaves alone, or one probe
\* through an open one whose timeout has elapsed; a denial changes nothing.
LEMMA AllowSound ==
    ASSUME NEW b, Sound(b)
    PROVE  /\ Sound(AfterAllow(b))
           /\ ~Allowed(b) => AfterAllow(b) = b
           /\ Allowed(b) => \/ b.state = "closed" /\ AfterAllow(b) = b
                            \/ b.state = "open" /\ b.cooled
           /\ AfterAllow(b).state = "half-open" =>
                b.state = "half-open" \/ (Allowed(b) /\ b.state = "open" /\ b.cooled)
           /\ b.state = "open" /\ b.cooled => AfterAllow(b).state = "half-open"
           /\ AfterAllow(b).state = "open" => AfterAllow(b) = b
BY DEF Sound, CircuitBreaker, AfterAllow, Allowed

\* record never leaves a breaker half-open, and an open one it leaves cooled was.
LEMMA RecordSound ==
    ASSUME NEW b, Sound(b), NEW success \in BOOLEAN
    PROVE  /\ Sound(Record(b, success))
           /\ Record(b, success).state # "half-open"
           /\ Record(b, success).state = "open" /\ Record(b, success).cooled =>
                b.state = "open" /\ b.cooled
<1>1. Threshold \in Nat \ {0}
  BY ClusterAssumption
<1>2. \A k \in 0 .. Threshold : Saturated(k + 1) \in 0 .. Threshold
                               /\ (Saturated(k + 1) < Threshold \/ Saturated(k + 1) >= Threshold)
  BY <1>1 DEF Saturated
<1>3. CASE success
  <2>1. Record(b, success) = [b EXCEPT !.failures = 0, !.state = "closed", !.probing = FALSE]
    BY <1>3 DEF Record
  <2>2. b \in CircuitBreaker /\ 0 \in 0 .. Threshold /\ 0 < Threshold
    BY <1>1 DEF Sound
  <2> DEFINE r == Record(b, success)
  <2>3. r \in CircuitBreaker /\ r.state = "closed" /\ r.failures = 0 /\ r.probing = FALSE
    BY <2>1, <2>2 DEF CircuitBreaker
  <2> HIDE DEF r
  <2>4. Sound(r) /\ r.state # "half-open" /\ r.state # "open"
    BY <2>2, <2>3 DEF Sound
  <2> QED
    BY <2>4 DEF r
<1>4. CASE ~success
  <2> DEFINE f == [b EXCEPT !.failures = Saturated(@ + 1), !.probing = FALSE]
  <2>1. /\ f \in CircuitBreaker /\ f.state = b.state /\ f.cooled = b.cooled /\ f.probing = FALSE
        /\ f.failures < Threshold \/ f.failures >= Threshold
    BY <1>1, <1>2 DEF Sound, CircuitBreaker
  <2>2. Record(b, success) =
          IF b.state = "half-open" \/ (b.state = "closed" /\ f.failures >= Threshold)
          THEN [f EXCEPT !.state = "open", !.cooled = FALSE] ELSE f
    BY <1>4 DEF Record, Trip
  <2> HIDE DEF f
  <2>3. CASE b.state = "half-open" \/ (b.state = "closed" /\ f.failures >= Threshold)
    <3>1. Record(b, success) = [f EXCEPT !.state = "open", !.cooled = FALSE]
      BY <2>2, <2>3
    <3> QED
      BY <2>1, <3>1 DEF Sound, CircuitBreaker
  <2>4. CASE ~ (b.state = "half-open" \/ (b.state = "closed" /\ f.failures >= Threshold))
    <3>1. Record(b, success) = f
      BY <2>2, <2>4
    <3>2. b.state \in {"closed", "open", "half-open"}
      BY DEF Sound, CircuitBreaker
    <3> QED
      BY <2>1, <2>4, <3>1, <3>2 DEF Sound
  <2> QED
    BY <2>3, <2>4
<1> QED
  BY <1>3, <1>4

-----------------------------------------------------------------------------
(* The inductive invariant.                                                *)

Stages == {"none", "asking", "sent", "succeeded", "failed"}

TypeOK ==
    /\ breaker \in [Nodes -> CircuitBreaker]
    /\ rest \in [Callers -> SUBSET Shards]
    /\ trying \in [Callers -> Seq(Nodes)]
    /\ holds \in [Callers -> [Nodes -> Nat]]
    /\ call \in [Callers -> [Nodes -> Stages]]
    /\ healthy \in [Nodes -> BOOLEAN]

\* Whoever has a call at a node owes its breaker a done.
Owed == \A c \in Callers, n \in Nodes : call[c][n] # "none" => holds[c][n] >= 1

\* A breaker that is due for a probe owes its state to nobody still out.
Quiet ==
    \A n \in Nodes : breaker[n].state = "open" /\ breaker[n].cooled =>
        \A c \in Callers : holds[c][n] = 0

IndInv ==
    /\ TypeOK /\ Owed
    /\ \A n \in Nodes : Sound(breaker[n])
    /\ ~CallsOutliveReset => Quiet /\ OneProbe

LEMMA InitIndInv == Init => IndInv
<1> SUFFICES ASSUME Init PROVE IndInv
  OBVIOUS
<1>1. Threshold \in Nat \ {0}
  BY ClusterAssumption
<1>2. \A n \in Nodes : Sound(breaker[n])
  BY <1>1 DEF Init, Sound, CircuitBreaker
<1>3. TypeOK
  BY <1>2 DEF Init, TypeOK, Sound, Stages
<1>4. Owed /\ Quiet /\ OneProbe
  BY DEF Init, Owed, Quiet, OneProbe
<1> QED
  BY <1>2, <1>3, <1>4 DEF IndInv

\* Candidate lists are lists of nodes.
LEMMA CandidatesTyped == \A s \in Shards : Candidates(s) \in Seq(Nodes)
BY ClusterAssumption DEF Candidates

\* A step that moves neither a breaker nor a done keeps the invariant.
LEMMA UntouchedKeeps ==
    ASSUME IndInv, UNCHANGED <<breaker, holds, call>>, rest' \in [Callers -> SUBSET Shards],
           trying' \in [Callers -> Seq(Nodes)], healthy' \in [Nodes -> BOOLEAN]
    PROVE  IndInv'
BY DEF IndInv, TypeOK, Owed, Quiet, OneProbe, Sound

\* A change of one caller's entry for one node.
LEMMA EntryUpdate ==
    ASSUME NEW T, NEW f \in [Callers -> [Nodes -> T]], NEW c \in Callers, NEW n \in Nodes,
           NEW v \in T, NEW g, g = [f EXCEPT ![c][n] = v]
    PROVE  /\ g \in [Callers -> [Nodes -> T]] /\ g[c][n] = v
           /\ \A d \in Callers, m \in Nodes : d # c \/ m # n => g[d][m] = f[d][m]
OBVIOUS

\* A denial changes nothing but the stage of a call already begun.
LEMMA DenyKeeps ==
    ASSUME IndInv, NEW c \in Callers, NEW n \in Nodes, NEW stage \in Stages,
           ~Allowed(breaker[n]), breaker' = [breaker EXCEPT ![n] = AfterAllow(@)],
           holds' = holds,
           call' = call \/ (call[c][n] # "none" /\ call' = [call EXCEPT ![c][n] = stage]),
           rest' \in [Callers -> SUBSET Shards], trying' \in [Callers -> Seq(Nodes)],
           healthy' \in [Nodes -> BOOLEAN]
    PROVE  IndInv'
<1> USE DEF IndInv
<1>1. breaker' = breaker
  BY AllowSound DEF TypeOK
<1>2. CASE call' = call
  BY <1>1, <1>2, UntouchedKeeps
<1>3. CASE call[c][n] # "none" /\ call' = [call EXCEPT ![c][n] = stage]
  <2>1. call' \in [Callers -> [Nodes -> Stages]]
    BY <1>3, EntryUpdate DEF TypeOK
  <2>2. \A d \in Callers, m \in Nodes : call'[d][m] # "none" => call[d][m] # "none"
    BY <1>3, EntryUpdate DEF TypeOK
  <2>3. TypeOK' /\ Owed'
    BY <1>1, <2>1, <2>2 DEF TypeOK, Owed
  <2> QED
    BY <1>1, <2>3 DEF Quiet, OneProbe
<1> QED
  BY <1>2, <1>3

\* A caller admitted through a closed breaker joins the others; one admitted
\* through an open breaker is alone.
LEMMA AdmitKeeps ==
    ASSUME IndInv, NEW c \in Callers, NEW n \in Nodes, NEW stage \in Stages,
           Allowed(breaker[n]), breaker' = [breaker EXCEPT ![n] = AfterAllow(@)],
           holds' = [holds EXCEPT ![c][n] = @ + 1], call' = [call EXCEPT ![c][n] = stage],
           rest' \in [Callers -> SUBSET Shards], trying' \in [Callers -> Seq(Nodes)],
           healthy' \in [Nodes -> BOOLEAN]
    PROVE  IndInv'
<1> USE DEF IndInv
<1>1. Sound(breaker[n])
  OBVIOUS
<1>2. /\ breaker'[n] = AfterAllow(breaker[n]) /\ Sound(breaker'[n])
      /\ \A m \in Nodes \ {n} : breaker'[m] = breaker[m]
  BY <1>1, AllowSound DEF TypeOK
<1>3. \A m \in Nodes : Sound(breaker'[m])
  BY <1>2
<1>4. /\ holds' \in [Callers -> [Nodes -> Nat]] /\ holds'[c][n] = holds[c][n] + 1
      /\ \A d \in Callers, m \in Nodes : d # c \/ m # n => holds'[d][m] = holds[d][m]
  <2>1. holds[c][n] + 1 \in Nat /\ holds' = [holds EXCEPT ![c][n] = holds[c][n] + 1]
    BY DEF TypeOK
  <2> QED
    BY <2>1, EntryUpdate DEF TypeOK
<1>5. /\ call' \in [Callers -> [Nodes -> Stages]]
      /\ \A d \in Callers, m \in Nodes : d # c \/ m # n => call'[d][m] = call[d][m]
  BY EntryUpdate DEF TypeOK
<1>6. TypeOK'
  <2>1. breaker' \in [Nodes -> CircuitBreaker]
    BY <1>3 DEF TypeOK, Sound
  <2> QED
    BY <1>4, <1>5, <2>1 DEF TypeOK
<1>7. Owed'
  <2>1. holds[c][n] \in Nat
    BY DEF TypeOK
  <2> QED
    BY <1>4, <1>5, <2>1 DEF Owed
<1>8. ASSUME ~CallsOutliveReset PROVE Quiet' /\ OneProbe'
  <2>1. CASE breaker[n].state = "closed" /\ breaker'[n] = breaker[n]
    BY <1>2, <1>4, <1>8, <2>1 DEF Quiet, OneProbe
  <2>2. CASE breaker[n].state = "open" /\ breaker[n].cooled
    <3>1. \A d \in Callers : holds[d][n] = 0
      BY <1>8, <2>2 DEF Quiet
    <3>2. breaker'[n].state = "half-open"
      BY <1>1, <1>2, <2>2, AllowSound
    <3>3. holds'[c][n] = 1 /\ \A d \in Callers \ {c} : holds'[d][n] = 0
      BY <1>4, <3>1
    <3>4. ASSUME NEW m \in Nodes, m # n
          PROVE  breaker'[m] = breaker[m] /\ \A d \in Callers : holds'[d][m] = holds[d][m]
      BY <1>2, <1>4, <3>4
    <3>5. Quiet'
      BY <1>8, <3>2, <3>4 DEF Quiet
    <3>6. OneProbe'
      <4>1. ASSUME NEW m \in Nodes, breaker'[m].state = "half-open"
            PROVE  \E d \in Callers : /\ holds'[d][m] = 1
                                      /\ \A u \in Callers \ {d} : holds'[u][m] = 0
        <5>1. CASE m = n
          BY <3>3, <5>1
        <5>2. CASE m # n
          BY <1>8, <3>4, <4>1, <5>2 DEF OneProbe
        <5> QED
          BY <5>1, <5>2
      <4> QED
        BY <4>1 DEF OneProbe
    <3> QED
      BY <3>5, <3>6
  <2> QED
    BY <1>1, <1>2, <2>1, <2>2, AllowSound
<1> QED
  BY <1>3, <1>6, <1>7, <1>8

\* Asking a breaker.
LEMMA AskKeeps ==
    ASSUME IndInv, NEW c \in Callers, NEW n \in Nodes, NEW stage \in Stages, Ask(c, n, stage),
           rest' \in [Callers -> SUBSET Shards], trying' \in [Callers -> Seq(Nodes)],
           healthy' \in [Nodes -> BOOLEAN]
    PROVE  IndInv'
<1>1. CASE Allowed(breaker[n])
  BY <1>1, AdmitKeeps DEF Ask
<1>2. CASE ~Allowed(breaker[n])
  BY <1>2, DenyKeeps DEF Ask
<1> QED
  BY <1>1, <1>2

\* Paying a done: the breaker is not half-open afterwards, and it was not due for
\* a probe before, since this caller was still out.
LEMMA PayKeeps ==
    ASSUME IndInv, NEW c \in Callers, NEW n \in Nodes, NEW success \in BOOLEAN,
           Pay(c, n, success), call[c][n] # "none", NEW stage \in Stages \ {"none"},
           call' = [call EXCEPT ![c][n] = IF holds[c][n] = 1 THEN "none" ELSE stage],
           UNCHANGED <<rest, trying, healthy>>
    PROVE  IndInv'
<1> USE DEF IndInv
<1>1. holds[c][n] >= 1 /\ holds[c][n] \in Nat /\ Sound(breaker[n])
  BY DEF Owed, TypeOK
<1>2. /\ breaker'[n] = Record(breaker[n], success)
      /\ \A m \in Nodes \ {n} : breaker'[m] = breaker[m]
  BY DEF Pay, TypeOK
<1>3. /\ Sound(breaker'[n]) /\ breaker'[n].state # "half-open"
      /\ breaker'[n].state = "open" /\ breaker'[n].cooled =>
           breaker[n].state = "open" /\ breaker[n].cooled
  BY <1>1, <1>2, RecordSound
<1>4. \A m \in Nodes : Sound(breaker'[m])
  BY <1>2, <1>3
<1>5. /\ holds' \in [Callers -> [Nodes -> Nat]] /\ holds'[c][n] = holds[c][n] - 1
      /\ \A d \in Callers, m \in Nodes : d # c \/ m # n => holds'[d][m] = holds[d][m]
  <2>1. holds[c][n] - 1 \in Nat /\ holds' = [holds EXCEPT ![c][n] = holds[c][n] - 1]
    BY <1>1 DEF Pay
  <2> QED
    BY <2>1, EntryUpdate DEF TypeOK
<1>9. /\ call' \in [Callers -> [Nodes -> Stages]]
      /\ holds[c][n] = 1 => call'[c][n] = "none"
      /\ \A d \in Callers, m \in Nodes : d # c \/ m # n => call'[d][m] = call[d][m]
  <2>1. (IF holds[c][n] = 1 THEN "none" ELSE stage) \in Stages
    BY DEF Stages
  <2> QED
    BY <2>1, EntryUpdate DEF TypeOK
<1>6. TypeOK'
  <2>1. breaker' \in [Nodes -> CircuitBreaker]
    BY <1>4 DEF Pay, TypeOK, Sound
  <2> QED
    BY <1>5, <1>9, <2>1 DEF TypeOK
<1>7. Owed'
  BY <1>1, <1>5, <1>9 DEF Owed
<1>8. ASSUME ~CallsOutliveReset PROVE Quiet' /\ OneProbe'
  <2>1. ~ (breaker[n].state = "open" /\ breaker[n].cooled)
    BY <1>1, <1>8 DEF Quiet
  <2> QED
    BY <1>2, <1>3, <1>5, <1>8, <2>1 DEF Quiet, OneProbe
<1> QED
  BY <1>4, <1>6, <1>7, <1>8

-----------------------------------------------------------------------------
(* The steps.                                                              *)

\* Every step keeps the invariant.
LEMMA NextIndInv == IndInv /\ [Next]_vars => IndInv'
<1> SUFFICES ASSUME IndInv, [Next]_vars PROVE IndInv'
  OBVIOUS
<1>1. TypeOK /\ \A c \in Callers : Tail(trying[c]) \in Seq(Nodes) \/ trying[c] = <<>>
  BY DEF IndInv, TypeOK
<1>2. ASSUME NEW c \in Clients, StartWrite(c) \/ StartBatch(c) \/ StartSearch(c) PROVE IndInv'
  <2>1. c \in Callers
    BY DEF Callers
  <2>2. CASE StartWrite(c)
    BY <1>1, <2>1, <2>2, CandidatesTyped, UntouchedKeeps DEF StartWrite, TypeOK
  <2>3. CASE StartBatch(c)
    BY <1>1, <2>1, <2>3, UntouchedKeeps DEF StartBatch, TypeOK
  <2>4. CASE StartSearch(c)
    <3>1. PICK n \in Nodes : Ask(c, n, "asking")
      BY <2>4 DEF StartSearch
    <3> QED
      BY <1>1, <2>1, <2>4, <3>1, AskKeeps DEF StartSearch, Stages, TypeOK
  <2> QED
    BY <1>2, <2>2, <2>3, <2>4
<1>3. ASSUME NEW c \in Callers, Step(c) PROVE IndInv'
  <2>1. CASE NextShard(c)
    BY <1>1, <2>1, CandidatesTyped, UntouchedKeeps DEF NextShard, TypeOK
  <2>2. CASE TryNode(c)
    <3>1. Head(trying[c]) \in Nodes /\ trying' \in [Callers -> Seq(Nodes)]
      BY <1>1, <2>2 DEF TryNode, TypeOK
    <3> QED
      BY <1>1, <2>2, <3>1, AskKeeps DEF TryNode, Stages, TypeOK
  <2>3. ASSUME NEW n \in Nodes, AskAgain(c, n) PROVE IndInv'
    <3>1. CASE Allowed(breaker[n])
      BY <1>1, <2>3, <3>1, AdmitKeeps DEF AskAgain, Stages, TypeOK
    <3>2. CASE ~Allowed(breaker[n])
      BY <1>1, <2>3, <3>2, DenyKeeps DEF AskAgain, Stages, TypeOK
    <3> QED
      BY <3>1, <3>2
  <2>4. ASSUME NEW n \in Nodes, Answer(c, n) PROVE IndInv'
    <3>1. healthy[n] \in BOOLEAN
      BY <1>1 DEF TypeOK
    <3>2. PICK stage \in Stages \ {"none"} :
            call' = [call EXCEPT ![c][n] = IF holds[c][n] = 1 THEN "none" ELSE stage]
      <4>1. CASE healthy[n]
        BY <2>4, <4>1 DEF Answer, Stages
      <4>2. CASE ~healthy[n]
        BY <2>4, <4>2 DEF Answer, Stages
      <4> QED
        BY <4>1, <4>2
    <3>3. Pay(c, n, healthy[n]) /\ call[c][n] # "none" /\ UNCHANGED <<rest, trying, healthy>>
      BY <2>4 DEF Answer
    <3> QED
      BY <3>1, <3>2, <3>3, PayKeeps
  <2>5. ASSUME NEW n \in Nodes, Done(c, n) PROVE IndInv'
    <3>1. /\ call[c][n] \in Stages \ {"none"}
          /\ call' = [call EXCEPT ![c][n] = IF holds[c][n] = 1 THEN "none" ELSE call[c][n]]
      BY <1>1, <2>5 DEF Done, Stages, TypeOK
    <3> QED
      BY <2>5, <3>1, PayKeeps DEF Done
  <2> QED
    BY <1>3, <2>1, <2>2, <2>3, <2>4, <2>5 DEF Step
<1>4. ASSUME NEW n \in Nodes, Poll(n) PROVE IndInv'
  <2>1. n \in Callers
    BY DEF Callers
  <2> QED
    BY <1>1, <1>4, <2>1, AskKeeps DEF Poll, Stages, TypeOK
<1>5. ASSUME NEW n \in Nodes, Cooldown(n) PROVE IndInv'
  <2>1. breaker' = [breaker EXCEPT ![n].cooled = TRUE] /\ breaker[n].state = "open"
    BY <1>5 DEF Cooldown
  <2>2. \A m \in Nodes : Sound(breaker[m])
    BY DEF IndInv
  <2>3. \A m \in Nodes : Sound(breaker'[m]) /\ breaker'[m].state = breaker[m].state
                         /\ (m # n => breaker'[m] = breaker[m])
    BY <1>1, <2>1, <2>2 DEF Sound, CircuitBreaker, TypeOK
  <2>4. TypeOK' /\ Owed'
    BY <1>5, <2>1, <2>3 DEF Cooldown, IndInv, TypeOK, Owed, Sound
  <2>5. ~CallsOutliveReset => Quiet' /\ OneProbe'
    BY <1>5, <2>3 DEF Cooldown, IndInv, Quiet, OneProbe
  <2> QED
    BY <2>3, <2>4, <2>5 DEF IndInv
<1>6. ASSUME NEW n \in Nodes, FailOrRecover(n) PROVE IndInv'
  BY <1>1, <1>6, UntouchedKeeps DEF FailOrRecover, TypeOK
<1>7. CASE UNCHANGED vars
  BY <1>1, <1>7, UntouchedKeeps DEF vars, TypeOK
<1> QED
  BY <1>2, <1>3, <1>4, <1>5, <1>6, <1>7 DEF Next

-----------------------------------------------------------------------------
(* The theorems.                                                           *)

\* A breaker is half-open exactly while its probe is marked, and a closed one is
\* below its threshold: however long the calls last, whatever the ring.
THEOREM BreakersAreConsistent == Spec => []BreakerConsistent
<1>1. IndInv => BreakerConsistent
  BY DEF IndInv, TypeOK, Sound, BreakerConsistent
<1> QED
  BY InitIndInv, NextIndInv, <1>1, PTL DEF Spec

\* When no call outlives the reset timeout (circuitbreaker.go: "In HalfOpen state
\* exactly ONE goroutine probes"), a half-open breaker has exactly one call out.
THEOREM ProbesAreExclusive ==
    ASSUME ~CallsOutliveReset
    PROVE  Spec => []OneProbe
<1>1. IndInv => OneProbe
  BY DEF IndInv
<1> QED
  BY InitIndInv, NextIndInv, <1>1, PTL DEF Spec

-----------------------------------------------------------------------------
(* Opening.  A search pays its breaker twice for one call, and so does a   *)
(* batch for two shards that it sends to one node: one failed call then    *)
(* counts as two.  Without either, a caller owes a node one done.          *)

Among(n, list) == \E i \in 1 .. Len(list) : list[i] = n

\* No batch sends two of its shards to one node.
ShardsApart ==
    \A s, t \in Shards, n \in Nodes :
        s # t => ~ (Among(n, Candidates(s)) /\ Among(n, Candidates(t)))

\* A breaker counts no more failures than its node had in a row.
Counted ==
    /\ streak \in [Nodes -> 0 .. Threshold]
    /\ \A n \in Nodes : breaker[n].failures <= streak[n]

\* Each call is paid once, and a node that is owed a done is not asked again.
PaidOnce ==
    /\ \A c \in Callers, n \in Nodes :
         /\ holds[c][n] <= 1 /\ call[c][n] \in {"none", "sent"}
         /\ holds[c][n] = 1 => /\ ~Among(n, trying[c])
                               /\ \A s \in rest[c] : ~Among(n, Candidates(s))
         /\ Among(n, trying[c]) => \A s \in rest[c] : ~Among(n, Candidates(s))
    /\ \A c \in Callers : rest[c] # {} => "batch" \in Requests

LEMMA InitCounted == Init => Counted /\ PaidOnce
<1>1. Threshold \in Nat \ {0}
  BY ClusterAssumption
<1>2. \A n : ~Among(n, <<>>)
  BY DEF Among
<1> QED
  BY <1>1, <1>2 DEF Init, Counted, PaidOnce

\* Asking a breaker opens none and counts nothing.
LEMMA AskOpensNone ==
    ASSUME TypeOK, NEW c \in Callers, NEW n \in Nodes, NEW stage, Ask(c, n, stage)
    PROVE  \A m \in Nodes : /\ breaker'[m].failures = breaker[m].failures
                            /\ breaker'[m].state = "open" => breaker[m].state = "open"
BY DEF Ask, AfterAllow, TypeOK, CircuitBreaker

\* An asked breaker that admits is owed one done; nothing else changes.
LEMMA AskOwesOne ==
    ASSUME TypeOK, NEW c \in Callers, NEW n \in Nodes, NEW stage \in Stages, Ask(c, n, stage)
    PROVE  /\ \A d \in Callers, m \in Nodes : d # c \/ m # n =>
                 holds'[d][m] = holds[d][m] /\ call'[d][m] = call[d][m]
           /\ Allowed(breaker[n]) => holds'[c][n] = holds[c][n] + 1 /\ call'[c][n] = stage
           /\ ~Allowed(breaker[n]) => holds'[c][n] = holds[c][n] /\ call'[c][n] = call[c][n]
BY DEF Ask, TypeOK

\* A record opens a closed breaker only when the failures reach the threshold,
\* and counts one call.
LEMMA RecordCounts ==
    ASSUME NEW b \in CircuitBreaker, NEW k \in 0 .. Threshold, b.failures <= k,
           NEW success \in BOOLEAN
    PROVE  LET l == IF success THEN 0 ELSE Saturated(k + 1)
           IN  /\ l \in 0 .. Threshold /\ Record(b, success).failures <= l
               /\ b.state = "closed" /\ Record(b, success).state = "open" => l >= Threshold
<1>1. Threshold \in Nat \ {0} /\ b.failures \in 0 .. Threshold
  BY ClusterAssumption DEF CircuitBreaker
<1>2. CASE success
  BY <1>1, <1>2 DEF Record, CircuitBreaker
<1>3. CASE ~success
  <2>1. /\ Saturated(k + 1) \in 0 .. Threshold
        /\ Saturated(b.failures + 1) \in 0 .. Threshold
        /\ Saturated(b.failures + 1) <= Saturated(k + 1)
    BY <1>1 DEF Saturated
  <2>2. Record(b, success).failures = Saturated(b.failures + 1)
    BY <1>3 DEF Record, Trip, CircuitBreaker
  <2>3. ASSUME b.state = "closed", Record(b, success).state = "open"
        PROVE  Saturated(b.failures + 1) >= Threshold
    BY <1>3, <2>3 DEF Record, Trip, CircuitBreaker
  <2> QED
    BY <1>1, <1>3, <2>1, <2>2, <2>3
<1> QED
  BY <1>2, <1>3

OpensRightly ==
    \A n \in Nodes : breaker[n].state = "closed" /\ breaker'[n].state = "open"
                     => streak'[n] >= Threshold

\* A step that leaves the breakers and the history alone.
LEMMA CountedUntouched ==
    ASSUME Counted, streak' = streak,
           \A m \in Nodes : /\ breaker'[m].failures = breaker[m].failures
                            /\ breaker'[m].state = "open" => breaker[m].state = "open"
    PROVE  Counted' /\ OpensRightly
BY DEF Counted, OpensRightly

\* The tail of a list has no other nodes than the list.
LEMMA TailAmong ==
    ASSUME NEW list \in Seq(Nodes), list # <<>>
    PROVE  /\ Tail(list) \in Seq(Nodes) /\ Among(Head(list), list)
           /\ \A n : Among(n, Tail(list)) => Among(n, list)
<1>1. Len(list) \in Nat /\ Len(list) # 0 /\ Len(Tail(list)) = Len(list) - 1
      /\ \A i \in 1 .. Len(list) - 1 : Tail(list)[i] = list[i + 1]
  OBVIOUS
<1>2. Among(Head(list), list)
  BY <1>1 DEF Among
<1>3. ASSUME NEW n, Among(n, Tail(list)) PROVE Among(n, list)
  <2>1. PICK i \in 1 .. Len(Tail(list)) : Tail(list)[i] = n
    BY <1>3 DEF Among
  <2>2. i + 1 \in 1 .. Len(list) /\ list[i + 1] = n
    BY <1>1, <2>1
  <2> QED
    BY <2>2 DEF Among
<1> QED
  BY <1>2, <1>3

\* An idle caller has no call.
LEMMA IdleHasNone ==
    ASSUME NEW c \in Callers, Idle(c)
    PROVE  rest[c] = {} /\ trying[c] = <<>> /\ \A n \in Nodes : holds[c][n] = 0
BY DEF Idle, Routed

\* Every step keeps the count, and opens a breaker only at the threshold.
LEMMA NextCounted ==
    ASSUME IndInv, Counted, PaidOnce, [Next]_vars,
           "search" \notin Requests, "batch" \in Requests => ShardsApart
    PROVE  Counted' /\ PaidOnce' /\ OpensRightly
<1>1. TypeOK /\ Owed
  BY DEF IndInv
<1>2. \A n : ~Among(n, <<>>)
  BY DEF Among
<1>3. ASSUME NEW c \in Clients, StartWrite(c) \/ StartBatch(c) \/ StartSearch(c)
      PROVE  Counted' /\ PaidOnce' /\ OpensRightly
  <2>1. c \in Callers
    BY DEF Callers
  <2>2. UNCHANGED <<breaker, holds, call, streak>> /\ Idle(c)
    BY <1>3 DEF StartWrite, StartBatch, StartSearch
  <2>3. Counted' /\ OpensRightly
    BY <2>2, CountedUntouched
  <2>4. /\ \A d \in Callers \ {c} : rest'[d] = rest[d] /\ trying'[d] = trying[d]
        /\ rest'[c] = {} \/ (trying'[c] = <<>> /\ "batch" \in Requests)
    BY <1>1, <1>3, <2>1, <2>2, IdleHasNone DEF StartWrite, StartBatch, StartSearch, TypeOK
  <2>5. ASSUME NEW d \in Callers
        PROVE  /\ rest'[d] # {} => "batch" \in Requests
               /\ \A n \in Nodes :
                    /\ holds'[d][n] <= 1 /\ call'[d][n] \in {"none", "sent"}
                    /\ holds'[d][n] = 1 => /\ ~Among(n, trying'[d])
                                           /\ \A s \in rest'[d] : ~Among(n, Candidates(s))
                    /\ Among(n, trying'[d]) => \A s \in rest'[d] : ~Among(n, Candidates(s))
    <3>1. CASE d = c
      <4>1. \A n \in Nodes : holds'[c][n] = 0
        BY <2>1, <2>2, IdleHasNone
      <4> QED
        BY <1>2, <2>2, <2>4, <3>1, <4>1 DEF PaidOnce
    <3>2. CASE d # c
      BY <2>2, <2>4, <3>2 DEF PaidOnce
    <3> QED
      BY <3>1, <3>2
  <2> QED
    BY <2>3, <2>5 DEF PaidOnce
<1>4. ASSUME NEW c \in Callers, NextShard(c) PROVE Counted' /\ PaidOnce' /\ OpensRightly
  <2>1. Counted' /\ OpensRightly
    BY <1>4, CountedUntouched DEF NextShard
  <2>2. PICK s \in rest[c] : /\ rest' = [rest EXCEPT ![c] = @ \ {s}]
                             /\ trying' = [trying EXCEPT ![c] = Candidates(s)]
    BY <1>4 DEF NextShard
  <2>3. ShardsApart /\ rest[c] \subseteq Shards /\ s \in Shards
    BY <1>1, <2>2 DEF PaidOnce, TypeOK
  <2>4. \A n \in Nodes : Among(n, Candidates(s)) =>
          \A t \in rest[c] \ {s} : ~Among(n, Candidates(t))
    BY <2>3 DEF ShardsApart
  <2>5. /\ rest'[c] = rest[c] \ {s} /\ trying'[c] = Candidates(s)
        /\ \A d \in Callers \ {c} : rest'[d] = rest[d] /\ trying'[d] = trying[d]
        /\ UNCHANGED <<holds, call>>
    BY <1>1, <1>4, <2>2 DEF NextShard, TypeOK
  <2>6. PaidOnce'
    BY <2>4, <2>5 DEF PaidOnce
  <2> QED
    BY <2>1, <2>6
<1>5. ASSUME NEW c \in Callers, TryNode(c) PROVE Counted' /\ PaidOnce' /\ OpensRightly
  <2> DEFINE n == Head(trying[c])
  <2>1. /\ trying[c] \in Seq(Nodes) /\ trying[c] # <<>> /\ n \in Nodes
        /\ UNCHANGED <<rest, streak>> /\ Ask(c, n, "sent") /\ "sent" \in Stages
        /\ trying' = [trying EXCEPT ![c] = IF Allowed(breaker[n]) THEN <<>> ELSE Tail(trying[c])]
    BY <1>1, <1>5 DEF TryNode, TypeOK, Stages
  <2>2. /\ Among(n, trying[c]) /\ \A m : Among(m, Tail(trying[c])) => Among(m, trying[c])
    BY <2>1, TailAmong
  <2>3. /\ trying'[c] = IF Allowed(breaker[n]) THEN <<>> ELSE Tail(trying[c])
        /\ \A d \in Callers \ {c} : trying'[d] = trying[d]
    BY <1>1, <2>1 DEF TypeOK
  <2> HIDE DEF n
  <2>4. Counted' /\ OpensRightly
    BY <1>1, <2>1, AskOpensNone, CountedUntouched
  <2>5. holds[c][n] = 0 /\ \A s \in rest[c] : ~Among(n, Candidates(s))
    BY <1>1, <2>1, <2>2 DEF PaidOnce, TypeOK
  <2>6. /\ \A d \in Callers, m \in Nodes : d # c \/ m # n =>
              holds'[d][m] = holds[d][m] /\ call'[d][m] = call[d][m]
        /\ Allowed(breaker[n]) => holds'[c][n] = 1 /\ call'[c][n] = "sent"
        /\ ~Allowed(breaker[n]) => holds'[c][n] = 0 /\ call'[c][n] = call[c][n]
    BY <1>1, <2>1, <2>5, AskOwesOne
  <2>7. PaidOnce'
    <3>1. CASE Allowed(breaker[n])
      BY <1>2, <2>1, <2>3, <2>5, <2>6, <3>1 DEF PaidOnce
    <3>2. CASE ~Allowed(breaker[n])
      BY <2>1, <2>2, <2>3, <2>5, <2>6, <3>2 DEF PaidOnce
    <3> QED
      BY <3>1, <3>2
  <2> QED
    BY <2>4, <2>7
<1>6. ASSUME NEW c \in Callers, NEW n \in Nodes, AskAgain(c, n) \/ Done(c, n) PROVE FALSE
  BY <1>6 DEF AskAgain, Done, PaidOnce
<1>7. ASSUME NEW c \in Callers, NEW n \in Nodes, Answer(c, n)
      PROVE  Counted' /\ PaidOnce' /\ OpensRightly
  <2>1. holds[c][n] = 1
    <3>1. call[c][n] # "none" /\ holds[c][n] \in Nat
      BY <1>1, <1>7 DEF Answer, TypeOK
    <3>2. holds[c][n] >= 1
      BY <1>1, <3>1 DEF Owed
    <3>3. holds[c][n] <= 1
      BY DEF PaidOnce
    <3> QED
      BY <3>1, <3>2, <3>3
  <2>2. /\ healthy[n] \in BOOLEAN /\ breaker[n] \in CircuitBreaker
        /\ streak[n] \in 0 .. Threshold /\ breaker[n].failures <= streak[n]
        /\ breaker' = [breaker EXCEPT ![n] = Record(breaker[n], healthy[n])]
        /\ streak' = [streak EXCEPT ![n] = IF healthy[n] THEN 0 ELSE Saturated(streak[n] + 1)]
    BY <1>1, <1>7 DEF Answer, Pay, Counted, TypeOK
  <2>3. /\ breaker'[n] = Record(breaker[n], healthy[n])
        /\ \A m \in Nodes \ {n} : breaker'[m] = breaker[m]
    BY <1>1, <2>2 DEF TypeOK
  <2>4. /\ streak'[n] = IF healthy[n] THEN 0 ELSE Saturated(streak[n] + 1)
        /\ \A m \in Nodes \ {n} : streak'[m] = streak[m]
    BY <2>2 DEF Counted
  <2>5. /\ streak'[n] \in 0 .. Threshold /\ breaker'[n].failures <= streak'[n]
        /\ breaker[n].state = "closed" /\ breaker'[n].state = "open" => streak'[n] >= Threshold
    BY <2>2, <2>3, <2>4, RecordCounts
  <2>6. Counted'
    BY <2>2, <2>3, <2>4, <2>5 DEF Counted
  <2>7. OpensRightly
    BY <2>3, <2>5 DEF OpensRightly
  <2>8. /\ holds'[c][n] = 0 /\ call'[c][n] = "none" /\ UNCHANGED <<rest, trying>>
        /\ \A d \in Callers, m \in Nodes : d # c \/ m # n =>
              holds'[d][m] = holds[d][m] /\ call'[d][m] = call[d][m]
    BY <1>1, <1>7, <2>1 DEF Answer, Pay, TypeOK
  <2>9. PaidOnce'
    BY <2>8 DEF PaidOnce
  <2> QED
    BY <2>6, <2>7, <2>9
<1>8. ASSUME NEW n \in Nodes, Poll(n) PROVE Counted' /\ PaidOnce' /\ OpensRightly
  <2>1. n \in Callers /\ "sent" \in Stages /\ Ask(n, n, "sent") /\ Idle(n)
        /\ UNCHANGED <<rest, trying, streak>>
    BY <1>8 DEF Callers, Poll, Stages
  <2>2. Counted' /\ OpensRightly
    BY <1>1, <2>1, AskOpensNone, CountedUntouched
  <2>3. rest[n] = {} /\ trying[n] = <<>> /\ holds[n][n] = 0
    BY <2>1, IdleHasNone
  <2>4. /\ \A d \in Callers, m \in Nodes : d # n \/ m # n =>
              holds'[d][m] = holds[d][m] /\ call'[d][m] = call[d][m]
        /\ Allowed(breaker[n]) => holds'[n][n] = 1 /\ call'[n][n] = "sent"
        /\ ~Allowed(breaker[n]) => holds'[n][n] = 0 /\ call'[n][n] = call[n][n]
    BY <1>1, <2>1, <2>3, AskOwesOne
  <2>5. PaidOnce'
    BY <1>2, <2>1, <2>3, <2>4 DEF PaidOnce
  <2> QED
    BY <2>2, <2>5
<1>9. ASSUME NEW n \in Nodes, Cooldown(n) \/ FailOrRecover(n)
      PROVE  Counted' /\ PaidOnce' /\ OpensRightly
  <2>1. /\ UNCHANGED <<rest, trying, holds, call, streak>>
        /\ \A m \in Nodes : /\ breaker'[m].failures = breaker[m].failures
                            /\ breaker'[m].state = "open" => breaker[m].state = "open"
    <3>1. \A m \in Nodes : breaker[m] \in CircuitBreaker
      BY <1>1 DEF TypeOK
    <3>2. CASE Cooldown(n)
      <4>1. /\ UNCHANGED <<rest, trying, holds, call, streak>>
            /\ breaker' = [breaker EXCEPT ![n] = [breaker[n] EXCEPT !.cooled = TRUE]]
        BY <3>2 DEF Cooldown
      <4>2. \A m \in Nodes : \/ breaker'[m] = breaker[m]
                              \/ breaker'[m] = [breaker[m] EXCEPT !.cooled = TRUE]
        BY <1>1, <4>1 DEF TypeOK
      <4> QED
        BY <3>1, <4>1, <4>2 DEF CircuitBreaker
    <3>3. CASE FailOrRecover(n)
      BY <3>3 DEF FailOrRecover
    <3> QED
      BY <1>9, <3>2, <3>3
  <2> QED
    BY <2>1, CountedUntouched DEF PaidOnce
<1>10. CASE UNCHANGED vars
  BY <1>10, CountedUntouched DEF vars, PaidOnce
<1>11. ASSUME NEW c \in Callers, Step(c) PROVE Counted' /\ PaidOnce' /\ OpensRightly
  BY <1>4, <1>5, <1>6, <1>7, <1>11 DEF Step
<1> QED
  BY <1>3, <1>8, <1>9, <1>10, <1>11 DEF Next

\* A breaker opens only after the threshold of failed calls to its node in a row
\* (circuitbreaker.go: "consecutive failures"), when each call is paid once: with no
\* search, and with batches whose shards have no node in common.
THEOREM OpensOnlyAfterThreshold ==
    ASSUME "search" \notin Requests, "batch" \in Requests => ShardsApart
    PROVE  Spec => OpensAfterThreshold
<1> DEFINE I == IndInv /\ Counted /\ PaidOnce
<1>1. Init => I
  BY InitIndInv, InitCounted
<1>2. I /\ [Next]_vars => I'
  BY NextIndInv, NextCounted
<1>3. I /\ [Next]_vars => OpensRightly
  BY NextCounted
<1>4. OpensRightly => [OpensRightly]_vars
  OBVIOUS
<1> HIDE DEF I
<1>5. Spec => [][OpensRightly]_vars
  BY <1>1, <1>2, <1>3, PTL DEF Spec
<1> QED
  BY <1>5 DEF OpensAfterThreshold, OpensRightly
=============================================================================
