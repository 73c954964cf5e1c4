------------------------------ MODULE Postings ------------------------------
(***************************************************************************)
(* The posting iterator of package index (postings.go), the skip list it   *)
(* jumps with (skiplist.go) and the cache of decoded blocks all iterators  *)
(* of a segment share (blockcache.go).  The builder encodes a list as full *)
(* blocks and a tail of single entries, all as differences to the document *)
(* before.  A cell of the data is a full block or one entry of the tail;   *)
(* an offset counts cells.  Blocks are numbered from 0, as in the code,    *)
(* and the two iterators read two terms of one segment.                    *)
(***************************************************************************)
EXTENDS Integers, Sequences, SequencesExt, FiniteSetsExt

CONSTANTS
    Documents, Lists,
    PerBlock,       \* codec.BlockSize
    Stride,         \* l1Stride
    WalkSteps,      \* entries ShallowBlock walks before it searches: 8
    CacheSize       \* blockCacheDefaultSize

ASSUME PostingsAssumption ==
    /\ Documents \subseteq Nat
    /\ PerBlock \in Nat \ {0} /\ Stride \in Nat \ {0} /\ WalkSteps \in Nat /\ CacheSize \in Nat

VARIABLES
    lists,      \* per term
    iter,       \* per term: PostingIter; buf is what of the decoded block is unread
    blocks,     \* the block cache: entries [key, buf], the latest used first
    answer      \* the last call and what it found

postingVars == <<lists, iter, blocks, answer>>

None == <<>>

-----------------------------------------------------------------------------
(* The encoded list and its skip list. *)

Deltas(list) ==
    [i \in DOMAIN list |->
        [delta |-> list[i].doc - (IF i = 1 THEN 0 ELSE list[i - 1].doc), tf |-> list[i].tf]]

Full(list) == Len(list) \div PerBlock

InBlock(s, b) == SubSeq(s, b * PerBlock + 1, (b + 1) * PerBlock)

Data(list) ==
    LET deltas == Deltas(list)
        tail   == Full(list) * PerBlock
    IN  [b \in 1 .. Full(list) |-> InBlock(deltas, b - 1)]
            \o [i \in 1 .. Len(list) - tail |-> <<deltas[tail + i]>>]

L0(list) ==
    [b \in 1 .. Full(list) |->
        [doc    |-> list[b * PerBlock].doc,
         offset |-> b - 1,
         base   |-> IF b = 1 THEN 0 ELSE list[(b - 1) * PerBlock].doc,
         impact |-> Max({p.tf : p \in ToSet(InBlock(list, b - 1))})]]

BuildSkipList(l0) ==
    [l0 |-> l0,
     l1 |-> [j \in 1 .. (Len(l0) + Stride - 1) \div Stride |->
                [doc |-> l0[Min({j * Stride, Len(l0)})].doc, first |-> (j - 1) * Stride]]]

\* The first entry of l1[lo .. hi - 1] that reaches target.
RECURSIVE LowerBound(_, _, _, _)
LowerBound(l1, target, lo, hi) ==
    LET mid == (lo + hi) \div 2
    IN  IF lo >= hi THEN lo
        ELSE IF l1[mid + 1].doc < target
             THEN LowerBound(l1, target, mid + 1, hi)
             ELSE LowerBound(l1, target, lo, mid)

\* The block that would hold target, and Len(l0) if only the tail can.
BlockFor(skip, target) ==
    LET j      == LowerBound(skip.l1, target, 0, Len(skip.l1))
        start  == skip.l1[j + 1].first
        bucket == start .. Min({start + Stride, Len(skip.l0)}) - 1
    IN  IF j >= Len(skip.l1) THEN Len(skip.l0)
        ELSE Min({i \in bucket : skip.l0[i + 1].doc >= target})

\* Blocks from idx on are walked; after WalkSteps of them the rest is searched.
RECURSIVE Walk(_, _, _, _)
Walk(skip, target, idx, steps) ==
    IF idx >= Len(skip.l0) \/ skip.l0[idx + 1].doc >= target THEN idx
    ELSE IF steps = WalkSteps THEN BlockFor(skip, target)
         ELSE Walk(skip, target, idx + 1, steps + 1)

-----------------------------------------------------------------------------
(* The iterator. *)

NewPostingIter ==
    [pos |-> 0, base |-> 0, doc |-> 0, tf |-> 0, read |-> 0, blockIdx |-> -1, buf |-> <<>>,
     shallowIdx |-> 0]

Skip(t) == BuildSkipList(L0(lists[t]))

\* Fault: the blocks of all terms have one name space.
KeyOfBlock(t, b) == <<b>>

Key(t, b) == <<t, b>>

Hit(cache, key) == {e \in ToSet(cache) : e.key = key}

\* lru.Get and lru.Add: the entry becomes the latest used, the oldest one leaves.
Use(cache, e) ==
    LET others == SelectSeq(cache, LAMBDA o : o.key # e.key)
    IN  <<e>> \o SubSeq(others, 1, Min({Len(others), CacheSize - 1}))

\* One iterator and the cache after the next block is decoded.
LoadBlock(s, t) ==
    LET it   == s.it
        data == Data(lists[t])
        left == Len(lists[t]) - it.read
        key  == Key(t, it.blockIdx)
        hit  == Hit(s.cache, key)
        e    == IF hit # {} THEN CHOOSE h \in hit : TRUE
                ELSE [key |-> key, buf |-> data[it.pos + 1]]
    IN  IF left >= PerBlock
        THEN [it |-> [it EXCEPT !.buf = e.buf, !.pos = @ + 1], cache |-> Use(s.cache, e)]
        ELSE [s EXCEPT !.it.buf = FlattenSeq(SubSeq(data, it.pos + 1, it.pos + left)),
                       !.it.pos = @ + left]

NextEntry(s, t) ==
    LET loaded == IF s.it.buf # <<>> THEN s
                  ELSE LoadBlock([s EXCEPT !.it.blockIdx = @ + 1], t)
        it     == loaded.it
        doc    == it.base + Head(it.buf).delta
    IN  [loaded EXCEPT !.it = [it EXCEPT !.doc = doc, !.base = doc, !.tf = Head(it.buf).tf,
                                         !.buf = Tail(@), !.read = @ + 1]]

Exhausted(s, t) == s.it.read >= Len(lists[t])

RECURSIVE Scan(_, _, _)
Scan(s, t, target) ==
    IF Exhausted(s, t) THEN [s |-> s, found |-> FALSE]
    ELSE LET n == NextEntry(s, t)
         IN  IF n.it.doc >= target THEN [s |-> n, found |-> TRUE] ELSE Scan(n, t, target)

\* Fault: the base stays that of the block the iterator has left.
JumpKeepsBase(it, t, target) ==
    LET b     == BlockFor(Skip(t), target)
        entry == Skip(t).l0[b + 1]
    IN  IF b < Len(Skip(t).l0) /\ entry.offset > it.pos
        THEN [it EXCEPT !.pos = entry.offset, !.blockIdx = b - 1,
                        !.read = b * PerBlock, !.buf = <<>>]
        ELSE it

\* The iterator stands before the block the skip list names, if that is ahead of it.
Jump(it, t, target) ==
    LET b     == BlockFor(Skip(t), target)
        entry == Skip(t).l0[b + 1]
    IN  IF b < Len(Skip(t).l0) /\ entry.offset > it.pos
        THEN [it EXCEPT !.pos = entry.offset, !.base = entry.base, !.blockIdx = b - 1,
                        !.read = b * PerBlock, !.buf = <<>>]
        ELSE it

SkipEntries(s, t, target) ==
    IF s.it.doc >= target /\ s.it.read > 0 THEN [s |-> s, found |-> TRUE]
    ELSE Scan(IF Exhausted(s, t) THEN s ELSE [s EXCEPT !.it = Jump(@, t, target)], t, target)

-----------------------------------------------------------------------------
(* The calls of a query. *)

State(t) == [it |-> iter[t], cache |-> blocks]

Answers(call, found, doc, tf) ==
    answer' = [call |-> call, found |-> IF found THEN [doc |-> doc, tf |-> tf] ELSE None]

\* The state after a call and whether it found a posting.
Becomes(call, t, s, found) ==
    /\ iter' = [iter EXCEPT ![t] = s.it]
    /\ blocks' = s.cache
    /\ Answers(call, found, s.it.doc, s.it.tf)
    /\ UNCHANGED lists

Open(t) ==
    /\ iter' = [iter EXCEPT ![t] = NewPostingIter]
    /\ answer' = None
    /\ UNCHANGED <<lists, blocks>>

Next(t) ==
    IF Exhausted(State(t), t) THEN Becomes(<<"Next", t>>, t, State(t), FALSE)
    ELSE Becomes(<<"Next", t>>, t, NextEntry(State(t), t), TRUE)

SkipTo(t, target) ==
    LET r == SkipEntries(State(t), t, target) IN Becomes(<<"SkipTo", t, target>>, t, r.s, r.found)

\* The answer is the bound of block b, if the skip list has it.
Bounds(t, target, b) ==
    LET l0 == Skip(t).l0
    IN  IF b < Len(l0) THEN Answers(<<"Bound", t, target>>, TRUE, l0[b + 1].doc, l0[b + 1].impact)
        ELSE Answers(<<"Bound", t, target>>, FALSE, 0, 0)

\* MaxScore asks for a candidate the iterator lags behind.  Its candidates never
\* decrease: each is past the blocks an earlier one has moved shallowIdx over.
ShallowBlock(t, target) ==
    LET l0  == Skip(t).l0
        idx == Walk(Skip(t), target, Max({iter[t].shallowIdx, iter[t].blockIdx}), 0)
    IN  /\ iter[t].read > 0 /\ iter[t].doc < target
        /\ iter[t].shallowIdx > 0 => l0[iter[t].shallowIdx].doc < target
        /\ iter' = [iter EXCEPT ![t].shallowIdx = idx]
        /\ Bounds(t, target, idx)
        /\ UNCHANGED <<lists, blocks>>

\* BlockMaxImpact with SkipLastDocInBlock, for an iterator at or past the candidate.
CurrentBlock(t) ==
    /\ iter[t].read > 0
    /\ Bounds(t, iter[t].doc, iter[t].blockIdx)
    /\ UNCHANGED <<lists, iter, blocks>>

PostingInit ==
    /\ lists \in Lists
    /\ iter = [t \in DOMAIN lists |-> NewPostingIter]
    /\ blocks = <<>>
    /\ answer = None

PostingStep ==
    \E t \in DOMAIN lists :
        \/ Open(t) \/ Next(t) \/ CurrentBlock(t)
        \/ \E target \in Documents : SkipTo(t, target) \/ ShallowBlock(t, target)

-----------------------------------------------------------------------------
Cursor == INSTANCE PostingCursor WITH at <- [t \in DOMAIN lists |-> iter[t].read]

\* Iterators that jump over blocks, share decoded blocks and read ahead of
\* where they stand behave as cursors on the lists the builder was given.
CursorImplements == Cursor!Spec
=============================================================================
