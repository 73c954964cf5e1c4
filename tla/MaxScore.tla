------------------------------ MODULE MaxScore ------------------------------
(***************************************************************************)
(* The evaluation of a query in one index (maxscore.go) and the fan-out of *)
(* a query over the shards (fanOutSearch of shardmanager.go).  MaxScore    *)
(* walks the lists of the query's terms document by document, drops terms  *)
(* that alone cannot reach the top K, skips ranges whose blocks cannot,    *)
(* and stops scoring a document when the rest of its terms cannot.         *)
(*                                                                         *)
(* An iterator is the cursor that Postings is shown to implement: a        *)
(* position in a list, past its end when exhausted.  The frequency of a    *)
(* posting stands for its score, so scores and bounds are exact: the       *)
(* margins for rounded floats are left out.  A query is a sequence of      *)
(* terms, an index a sequence of lists, empty for a term it lacks.         *)
(***************************************************************************)
EXTENDS Postings

TermUB(list) == Max({p.tf : p \in ToSet(list)})

\* The terms of the query the index has, weighted by how often the query has
\* them, the lowest upper bound first.
Entries(index, tokens) ==
    LET Entry(t) == [list |-> index[t], qtf |-> Len(SelectSeq(tokens, LAMBDA u : u = t)),
                     ub   |-> Len(SelectSeq(tokens, LAMBDA u : u = t)) * TermUB(index[t])]
        terms    == {t \in ToSet(tokens) : index[t] # <<>>}
        Lower(a, b) == Entry(a).ub < Entry(b).ub \/ (Entry(a).ub = Entry(b).ub /\ a < b)
        order    == SetToSortSeq(terms, Lower)
    IN  [i \in DOMAIN order |-> Entry(order[i])]

Total(f, S) == MapThenSumSet(LAMBDA i : f[i], S)

\* Fault: a head that reaches the threshold with its last entry is dropped too.
findPivotLate(es, theta) ==
    LET ubs == [i \in DOMAIN es |-> es[i].ub]
    IN  IF theta = 0 THEN 0
        ELSE Max({0} \cup {i \in DOMAIN es : Total(ubs, 1 .. i - 1) < theta})

\* The number of entries that together stay below the threshold.
findPivot(es, theta) ==
    LET ubs == [i \in DOMAIN es |-> es[i].ub]
    IN  IF theta = 0 THEN 0
        ELSE Max({0} \cup {i \in DOMAIN es : Total(ubs, 1 .. i) < theta})

\* The first position from `from` on at a document >= target, past the end if none.
Seek(list, from, target) ==
    Min({i \in from .. Len(list) : list[i].doc >= target} \cup {Len(list) + 1})

\* What one evaluation holds: the positions, the heap and its threshold.
Start(es) == [at |-> [i \in DOMAIN es |-> 1], heap |-> {}, theta |-> 0]

Alive(es, m, i) == m.at[i] <= Len(es[i].list)
Doc(es, m, i)   == es[i].list[m.at[i]].doc

\* The block an alive entry is in, or for one that lags behind the candidate the
\* block that would hold it; a bound without `end` is the entry's own.
BlockBound(es, m, i, candidate) ==
    LET l0 == L0(es[i].list)
        b  == IF Doc(es, m, i) >= candidate THEN (m.at[i] - 1) \div PerBlock + 1
              ELSE Min({k \in DOMAIN l0 : l0[k].doc >= candidate} \cup {Len(l0) + 1})
    IN  IF b \in DOMAIN l0 THEN [max |-> es[i].qtf * l0[b].impact, end |-> {l0[b].doc}]
        ELSE [max |-> es[i].ub, end |-> {}]

\* An essential entry that is exhausted stays so.
SkipRange(es, m, p, minEnd) ==
    [m EXCEPT !.at = [i \in DOMAIN es |->
        IF i > p /\ Alive(es, m, i) THEN Seek(es[i].list, m.at[i], minEnd + 1) ELSE m.at[i]]]

\* The entry at the candidate, and its score there.
At(es, i, k, candidate) == k <= Len(es[i].list) /\ es[i].list[k].doc = candidate
Part(es, i, k, candidate) == IF At(es, i, k, candidate) THEN es[i].qtf * es[i].list[k].tf ELSE 0

\* Essential entries score the candidate and pass it.
Essential(es, m, p, candidate) ==
    [score |-> MapThenSumSet(LAMBDA i : Part(es, i, m.at[i], candidate), p + 1 .. Len(es)),
     at    |-> [i \in DOMAIN es |->
                  IF i > p /\ At(es, i, m.at[i], candidate) THEN m.at[i] + 1 ELSE m.at[i]]]

\* The others follow from the highest bound down, until the rest cannot lift the
\* score above the threshold of a full heap.
NonEssential(es, m, s, p, candidate, bound, full) ==
    LET Add(a, i) ==
            LET k == Seek(es[i].list, a.at[i], candidate)
            IN  IF a.done \/ ~Alive(es, a, i) THEN a
                ELSE IF full /\ m.theta > 0 /\ a.score + a.rest <= m.theta
                     THEN [a EXCEPT !.done = TRUE]
                     ELSE [a EXCEPT !.rest = @ - bound[i], !.at[i] = k,
                                    !.score = @ + Part(es, i, k, candidate)]
    IN  FoldLeft(Add, [score |-> s.score, at |-> s.at, rest |-> Total(bound, 1 .. p), done |-> FALSE],
                 [j \in 1 .. p |-> p + 1 - j])

MinScore(heap) == Min({h.score : h \in heap})

\* The heap takes the candidate while it has room, later in place of its minimum.
Offer(m, scored, candidate, topK) ==
    LET e    == [doc |-> candidate, score |-> scored.score]
        min  == CHOOSE h \in m.heap : h.score = MinScore(m.heap)
        heap == IF Cardinality(m.heap) < topK THEN m.heap \cup {e}
                ELSE IF e.score > m.theta THEN (m.heap \ {min}) \cup {e} ELSE m.heap
    IN  [at    |-> scored.at, heap |-> heap,
         theta |-> IF Cardinality(heap) = topK THEN MinScore(heap) ELSE 0]

RECURSIVE Evaluate(_, _, _)
Evaluate(es, topK, m) ==
    LET p         == findPivot(es, m.theta)
        sources   == {i \in p + 1 .. Len(es) : Alive(es, m, i)}
        candidate == Min({Doc(es, m, i) : i \in sources})
        blockOf   == [i \in DOMAIN es |->
                        IF Alive(es, m, i) THEN BlockBound(es, m, i, candidate)
                        ELSE [max |-> 0, end |-> {}]]
        bound     == [i \in DOMAIN es |-> IF m.theta > 0 THEN blockOf[i].max ELSE 0]
        ends      == UNION {blockOf[i].end : i \in DOMAIN es}
        full      == Cardinality(m.heap) = topK
        scored    == NonEssential(es, m, Essential(es, m, p, candidate), p, candidate, bound, full)
    IN  IF sources = {} THEN m.heap
        ELSE IF m.theta > 0 /\ Total(bound, DOMAIN es) <= m.theta /\ ends # {}
             THEN Evaluate(es, topK, SkipRange(es, m, p, Min(ends)))
             ELSE Evaluate(es, topK, Offer(m, scored, candidate, topK))

Search(index, tokens, topK) ==
    LET es == Entries(index, tokens)
    IN  IF es = <<>> \/ topK = 0 THEN {} ELSE Evaluate(es, topK, Start(es))

-----------------------------------------------------------------------------
(* The fan-out.  Every document is in one shard, whose index has its lists. *)

mergeByScore(docs, topK) ==
    LET Before(a, b) == a.score > b.score \/ (a.score = b.score /\ a.doc < b.doc)
    IN  {d \in docs : Cardinality({o \in docs : Before(o, d)}) < topK}

fanOutSearch(shards, failed, tokens, topK) ==
    LET healthy == DOMAIN shards \ failed
        fetchK  == topK * Len(shards)
    IN  [error    |-> healthy = {},
         degraded |-> failed # {} /\ healthy # {},
         docs     |-> mergeByScore(UNION {Search(shards[s], tokens, fetchK) : s \in healthy}, topK)]
=============================================================================
