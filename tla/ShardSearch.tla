----------------------------- MODULE ShardSearch -----------------------------
(***************************************************************************)
(* The read path of one shard and the query cache above it (search.go,     *)
(* querycache.go and the parts of shardmanager.go that use them).  A       *)
(* search looks into the cache, loads the segments that are not in memory, *)
(* takes references to the segment list and to the snapshot of the write   *)
(* buffer, rebuilds that snapshot when it is due, evaluates the query      *)
(* outside all locks and stores the result in the cache.  Writers purge    *)
(* the cache and then write; flushes, a merge and Reset change the lists   *)
(* under a running search.                                                 *)
(*                                                                         *)
(* All searches ask for one term.  A write makes a new version of a        *)
(* document, numbered by clock; scores[v] is what version v scores for the *)
(* term, 0 when it lacks it.  The log, the manifest and failed flushes are *)
(* left to SegmentManager, how a merge chooses its inputs to SegmentMerge. *)
(***************************************************************************)
EXTENDS Integers, Sequences, FiniteSets, FiniteSetsExt, SequencesExt

CONSTANTS
    Docs,           \* document ids, ordered as the strings are
    Searchers,      \* goroutines that serve searches
    Kinds,          \* of searches: [required, snippets]; required is the query +term
    Scores,         \* the scores a version may have
    TopK,
    MinFetch,       \* what a search with filters fetches at least: 30
    SpareBuffers,   \* spare builders for background flushes
    MaxWrites,      \* bound on writes, deletes and resets
    MaxMerges       \* bound on merges

ASSUME SearchAssumption ==
    /\ Docs \subseteq Nat /\ IsFiniteSet(Docs) /\ Scores \subseteq Nat
    /\ Kinds \subseteq [required : BOOLEAN, snippets : BOOLEAN]
    /\ TopK \in Nat \ {0} /\ MinFetch \in Nat
    /\ SpareBuffers \in Nat /\ MaxWrites \in Nat /\ MaxMerges \in Nat

VARIABLES
    clock,      \* number of writes applied
    scores,     \* what each of them scores
    latest,     \* history: the version each document has, 0 when it has none
    writing,    \* the write that has purged the cache and is not yet applied
    buffer,     \* bufferTexts: the versions in the active builder
    snapshot,   \* bufferIdx with bufferDocIDs
    dirty,      \* bufferDirty
    inflight,   \* builders in background flushes
    segments,   \* segRecords with segments: a slot is Nil or a loaded segment
    tombstones,
    merge,      \* executeMerge's candidates, output and tombstonesSnapshot
    merges,     \* number of merges started
    cache,      \* the entry for the term
    pc, view,   \* per search
    moved,      \* history: the list lost entries while a search was loading, or a
                \* reset met a merge
    stray       \* history: deleted documents whose tombstone a merge purged while
                \* they had a copy outside its inputs

written == <<clock, scores, latest>>
shard   == <<buffer, snapshot, dirty, inflight, segments, tombstones, merge, merges>>
vars    == <<written, writing, shard, cache, pc, view, moved, stray>>

Nil      == <<>>
NoCopies == [d \in Docs |-> 0]

NoView == [kind |-> Nil, work |-> Nil, segments |-> <<>>, snapshot |-> Nil, tombstones |-> Nil,
           due |-> FALSE, hidden |-> {}, settled |-> {}, result |-> {}, full |-> FALSE,
           raced |-> FALSE]

Copies(c)     == {d \in Docs : c[d] # 0}
Matches(v)    == v # 0 /\ scores[v] > 0
MatchingIn(c) == {d \in Docs : Matches(c[d])}

Init ==
    /\ clock = 0 /\ scores = <<>> /\ latest = NoCopies /\ writing = Nil
    /\ buffer = NoCopies /\ snapshot = Nil /\ dirty = FALSE
    /\ inflight = {} /\ segments = <<>> /\ tombstones = {}
    /\ merge = Nil /\ merges = 0
    /\ cache = Nil
    /\ pc = [s \in Searchers |-> "idle"]
    /\ view = [s \in Searchers |-> NoView]
    /\ moved = FALSE /\ stray = {}

-----------------------------------------------------------------------------
(* The shard, one step per critical section.  What a step means for the    *)
(* searches in progress is history: the documents they may miss, and the   *)
(* deleted ones they may show.                                             *)

Observe(miss, show) ==
    view' = [s \in Searchers |-> [view[s] EXCEPT !.settled = @ \ miss, !.hidden = @ \ show,
                                                 !.raced = pc[s] # "idle" /\ (@ \/ writing # Nil)]]

\* A search holds positions of the list.
Loading == \E s \in Searchers : pc[s] = "load"

\* Fault: a delete does not purge the cache.
InvalidateOnlyIndex ==
    /\ writing = Nil /\ clock < MaxWrites
    /\ writing' \in [op : {"index", "delete"}, doc : Docs] \cup {[op |-> "reset"]}
    /\ cache' = IF writing'.op = "delete" THEN cache ELSE Nil
    /\ UNCHANGED <<written, shard, pc, view, moved, stray>>

\* The cache is purged before the write, in a step of its own.
Invalidate ==
    /\ writing = Nil /\ clock < MaxWrites
    /\ writing' \in [op : {"index", "delete"}, doc : Docs] \cup {[op |-> "reset"]}
    /\ cache' = Nil
    /\ UNCHANGED <<written, shard, pc, view, moved, stray>>

Write(op, score) ==
    /\ writing # Nil /\ writing.op = op
    /\ writing' = Nil
    /\ clock' = clock + 1
    /\ scores' = Append(scores, score)
    /\ stray' = IF op = "reset" THEN {} ELSE stray \ {writing.doc}

\* Fault: the snapshot of the old buffer stays.
TakeBufferOnly ==
    /\ buffer' = NoCopies
    /\ dirty' = FALSE /\ UNCHANGED snapshot

\* The buffer becomes the contents of a segment to be.
TakeBuffer ==
    /\ buffer' = NoCopies
    /\ dirty' = FALSE /\ snapshot' = Nil

\* IndexDocument: the memory threshold, which the model leaves open, may swap the
\* builder for a spare one.
IndexDocument ==
    \E score \in Scores :
       LET d   == writing.doc
           new == [buffer EXCEPT ![d] = clock + 1]
       IN  /\ Write("index", score)
           /\ latest' = [latest EXCEPT ![d] = clock + 1]
           /\ tombstones' = tombstones \ {d}
           /\ \/ /\ buffer' = new /\ dirty' = TRUE
                 /\ Observe({d}, {d})
                 /\ UNCHANGED <<snapshot, inflight>>
              \/ /\ Cardinality(inflight) < SpareBuffers
                 /\ inflight' = inflight \cup {[seq |-> clock + 1, copies |-> new]}
                 /\ TakeBuffer
                 /\ Observe(Copies(new), {d})
           /\ UNCHANGED <<segments, merge, merges, cache, pc, moved>>

DeleteDocument ==
    /\ Write("delete", 0)
    /\ latest' = [latest EXCEPT ![writing.doc] = 0]
    /\ tombstones' = tombstones \cup {writing.doc}
    /\ Observe({writing.doc}, {})
    /\ UNCHANGED <<buffer, snapshot, dirty, inflight, segments, merge, merges, cache, pc, moved>>

\* A search that has started keeps the old map of tombstones.  Reset does not wait
\* for a merge, whose output then comes back: moved records that too.
Reset ==
    /\ Write("reset", 0)
    /\ inflight = {}
    /\ latest' = NoCopies
    /\ TakeBuffer
    /\ segments' = <<>> /\ tombstones' = {}
    /\ view' = [s \in Searchers |->
                  [view[s] EXCEPT !.settled = {}, !.raced = pc[s] # "idle",
                                  !.tombstones = IF pc[s] \in {"rebuild", "evaluate"} /\ @ = Nil
                                                 THEN <<tombstones>> ELSE @]]
    /\ moved' = (moved \/ merge # Nil \/ Loading)
    /\ UNCHANGED <<inflight, merge, merges, cache, pc>>

\* A new segment is not loaded.
Unloaded(seq, copies) == [seq |-> seq, level |-> 0, copies |-> copies, slot |-> Nil]

\* An explicit flush holds mu from the swap to the registration.
Flush ==
    /\ Copies(buffer) # {}
    /\ segments' = Append(segments, Unloaded(clock, buffer))
    /\ TakeBuffer
    /\ Observe(Copies(buffer), {})
    /\ UNCHANGED <<written, writing, inflight, tombstones, merge, merges, cache, pc, moved, stray>>

\* A background flush publishes its segment.
Publish ==
    \E b \in inflight :
       /\ segments' = Append(segments, Unloaded(b.seq, b.copies))
       /\ inflight' = inflight \ {b}
       /\ UNCHANGED <<written, writing, buffer, snapshot, dirty, tombstones, merge, merges,
                      cache, pc, view, moved, stray>>

-----------------------------------------------------------------------------
(* A merge: the output, then the purge of the tombstones it made           *)
(* unnecessary, then the exchange of the segments.                         *)

Having(S, d) == {i \in S : segments[i].copies[d] # 0}
Newest(S)    == CHOOSE i \in S : \A j \in S : segments[i].seq >= segments[j].seq
Ids(S)       == {[seq |-> segments[i].seq, level |-> segments[i].level] : i \in S}
Id(rec)      == [seq |-> rec.seq, level |-> rec.level]

\* Any two segments: which ones is the merge policy's choice.
StartMerge ==
    /\ merge = Nil /\ merges < MaxMerges
    /\ merges' = merges + 1
    /\ \E S \in kSubset(2, DOMAIN segments) :
          LET out == [d \in Docs |-> IF Having(S, d) = {} \/ d \in tombstones THEN 0
                                     ELSE segments[Newest(Having(S, d))].copies[d]]
          IN  merge' = [inputs |-> Ids(S), purged |-> FALSE,
                        docs |-> {d \in Docs : Having(S, d) # {}},
                        out |-> [seq |-> segments[Newest(S)].seq, copies |-> out, slot |-> out,
                                 level |-> 1 + Max({segments[i].level : i \in S})]]
    /\ UNCHANGED <<written, writing, buffer, snapshot, dirty, inflight, segments, tombstones,
                   cache, pc, view, moved, stray>>

\* The tombstones of documents that are in an input and not in the output.
Purgeable == {d \in tombstones \cap merge.docs : merge.out.copies[d] = 0}

\* The documents that have a copy which is not in an input.
Elsewhere == {d \in Docs : \/ buffer[d] # 0
                           \/ \E b \in inflight : b.copies[d] # 0
                           \/ \E i \in DOMAIN segments :
                                 segments[i].copies[d] # 0 /\ Id(segments[i]) \notin merge.inputs}

PurgeTombstones ==
    /\ merge # Nil /\ ~ merge.purged
    /\ merge' = [merge EXCEPT !.purged = TRUE]
    /\ tombstones' = tombstones \ Purgeable
    /\ view' = [s \in Searchers |->
                  [view[s] EXCEPT !.hidden = IF pc[s] = "idle" THEN @ ELSE @ \ Purgeable,
                                  !.raced  = pc[s] # "idle" /\ (@ \/ Purgeable # {})]]
    /\ stray' = stray \cup (Purgeable \cap Elsewhere)
    /\ UNCHANGED <<written, writing, buffer, snapshot, dirty, inflight, segments, merges,
                   cache, pc, moved>>

\* The output goes to the end of the list and is loaded; the inputs' files go.  The
\* other segments close up, in order.
CommitMerge ==
    /\ merge # Nil /\ merge.purged
    /\ LET kept == {i \in DOMAIN segments : Id(segments[i]) \notin merge.inputs}
       IN  \E place \in [1 .. Cardinality(kept) -> kept] :
              /\ \A k, l \in DOMAIN place : k < l => place[k] < place[l]
              /\ segments' = Append([k \in DOMAIN place |-> segments[place[k]]], merge.out)
    /\ merge' = Nil
    /\ Observe(Docs, {})
    /\ moved' = (moved \/ Loading)
    /\ UNCHANGED <<written, writing, buffer, snapshot, dirty, inflight, tombstones, merges,
                   cache, pc, stray>>

-----------------------------------------------------------------------------
(* A search.                                                               *)

Goto(s, label) == pc' = [pc EXCEPT ![s] = label]
See(s, v)      == view' = [view EXCEPT ![s] = v]
EndSearch(s)   == Goto(s, "idle") /\ See(s, NoView)

\* Fault: a snapshot is never refreshed.
NeedsFirstSnapshot(due) ==
    /\ Copies(buffer) # {}
    /\ snapshot = Nil

\* needsSnapshotLocked; due: the refresh interval has passed since snapshotAt.
NeedsSnapshot(due) ==
    /\ Copies(buffer) # {}
    /\ snapshot = Nil \/ (dirty /\ due)

\* History: the documents a search that starts now has to find, and those it
\* must not show.
MustFind(due) ==
    {d \in Docs : /\ Matches(latest[d])
                  /\ \/ \E i \in DOMAIN segments : segments[i].copies[d] = latest[d]
                     \/ /\ buffer[d] = latest[d]
                        /\ snapshot = Nil \/ due \/ snapshot[d] = latest[d]}
Purging  == merge # Nil /\ merge.purged
MustHide == IF Purging THEN {} ELSE {d \in tombstones : latest[d] = 0}

\* A miss in the cache, and the positions of the segments that are not loaded.
BeginSearch(s) ==
    /\ pc[s] = "idle"
    /\ \E kind \in Kinds, due \in BOOLEAN :
          /\ due => dirty
          /\ kind.snippets => cache = Nil
          /\ See(s, [NoView EXCEPT !.kind = kind,
                     !.work = [i \in {j \in DOMAIN segments : segments[j].slot = Nil} |-> segments[i]],
                     !.due = due, !.settled = MustFind(due), !.hidden = MustHide, !.raced = Purging])
    /\ Goto(s, "load")
    /\ UNCHANGED <<written, writing, shard, cache, moved, stray>>

\* A segment whose file a merge or a reset has removed is loaded only if that came
\* before.  Slots are filled by position, if they are still empty.
Loaded(rec) == {rec.copies} \cup
               (IF Id(rec) \in Ids(DOMAIN segments) THEN {} ELSE {Nil})

\* Fault: all goroutines load the path of the last position.
WriteBackLast(s) ==
    /\ pc[s] = "load"
    /\ segments' = [i \in DOMAIN segments |->
                      IF i \in DOMAIN view[s].work /\ segments[i].slot = Nil
                      THEN [segments[i] EXCEPT !.slot = view[s].work[Max(DOMAIN view[s].work)].copies]
                      ELSE segments[i]]
    /\ See(s, [view[s] EXCEPT !.work = Nil])
    /\ Goto(s, "snapshot")
    /\ UNCHANGED <<written, writing, buffer, snapshot, dirty, inflight, tombstones, merge,
                   merges, cache, moved, stray>>

WriteBack(s) ==
    /\ pc[s] = "load"
    /\ \E loaded \in [DOMAIN view[s].work -> UNION {Loaded(view[s].work[i]) : i \in DOMAIN view[s].work}] :
          /\ \A i \in DOMAIN loaded : loaded[i] \in Loaded(view[s].work[i])
          /\ segments' = [i \in DOMAIN segments |->
                            IF i \in DOMAIN loaded /\ segments[i].slot = Nil
                            THEN [segments[i] EXCEPT !.slot = loaded[i]] ELSE segments[i]]
    /\ See(s, [view[s] EXCEPT !.work = Nil])
    /\ Goto(s, "snapshot")
    /\ UNCHANGED <<written, writing, buffer, snapshot, dirty, inflight, tombstones, merge,
                   merges, cache, moved, stray>>

\* A segment cannot be read: the search fails and nothing is cached.
LoadFails(s) ==
    /\ pc[s] = "load" /\ view[s].work # Nil
    /\ EndSearch(s)
    /\ UNCHANGED <<written, writing, shard, cache, moved, stray>>

\* Under the read lock.
TakeView(s) ==
    /\ pc[s] = "snapshot"
    /\ See(s, [view[s] EXCEPT !.segments = segments, !.snapshot = snapshot,
                             !.due = NeedsSnapshot(view[s].due)])
    /\ Goto(s, IF NeedsSnapshot(view[s].due) THEN "rebuild" ELSE "evaluate")
    /\ UNCHANGED <<written, writing, shard, cache, moved, stray>>

\* Under the write lock, after another look.
Rebuild(s) ==
    /\ pc[s] = "rebuild"
    /\ IF NeedsSnapshot(view[s].due)
       THEN snapshot' = buffer /\ dirty' = FALSE
       ELSE UNCHANGED <<snapshot, dirty>>
    /\ See(s, [view[s] EXCEPT !.snapshot = snapshot', !.due = FALSE])
    /\ Goto(s, "evaluate")
    /\ UNCHANGED <<written, writing, buffer, inflight, segments, tombstones, merge, merges, cache, moved, stray>>

-----------------------------------------------------------------------------
(* searchAll.  Source 0 is the buffer, source i the i-th segment.          *)

Fetch(v) == IF v.kind.required THEN Max({3 * TopK, MinFetch}) ELSE TopK

Content(v, i)    == IF i = 0 THEN v.snapshot ELSE v.segments[i].slot
Recency(v, i)    == IF i = 0 THEN MaxWrites + 1 ELSE v.segments[i].seq
UpperBound(v, i) == IF i = 0 THEN 0
                    ELSE Max({0} \cup {scores[Content(v, i)[d]] : d \in MatchingIn(Content(v, i))})

Active(v) == {i \in DOMAIN v.segments : v.segments[i].slot # Nil /\ UpperBound(v, i) > 0}
             \cup (IF v.snapshot = Nil THEN {} ELSE {0})

Hits(v, i) == {[doc |-> d, version |-> Content(v, i)[d], recency |-> Recency(v, i)] :
                  d \in MatchingIn(Content(v, i))}

Before(g, h) == \/ scores[g.version] > scores[h.version]
                \/ scores[g.version] = scores[h.version] /\ g.doc < h.doc
Rank(h, H)   == 1 + Cardinality({g \in H : Before(g, h)})
Top(H, n)    == {h \in H : Rank(h, H) <= n}

\* The score of the n-th result of the seed, 0 when it has fewer.
Threshold(H, n) == Max({0} \cup {scores[h.version] : h \in {g \in H : Rank(g, H) = n}})

Searched(v, seed, n) ==
    LET t == Threshold(Hits(v, seed), n)
    IN  {seed} \cup {i \in Active(v) : t = 0 \/ UpperBound(v, i) > t}

\* A source has more hits than it is asked for.
Cut(v, n) == \E i \in Active(v) : Cardinality(Hits(v, i)) > n * Cardinality(Active(v))

InBuffer(v, d) == v.snapshot # Nil /\ v.snapshot[d] # 0

\* Fault: the first source that has a hit wins.
DedupOldest(v, sources, n) ==
    LET found == UNION {Top(Hits(v, i), n * Cardinality(Active(v))) : i \in sources}
        live  == {h \in found : h.recency <= MaxWrites => ~ InBuffer(v, h.doc)}
    IN  {h \in live : \A g \in live : g.doc = h.doc => g.recency >= h.recency}

\* One hit per document, of the most recent source that has one; a document that is
\* in the buffer is not taken from a segment.
Dedup(v, sources, n) ==
    LET found == UNION {Top(Hits(v, i), n * Cardinality(Active(v))) : i \in sources}
        live  == {h \in found : h.recency <= MaxWrites => ~ InBuffer(v, h.doc)}
    IN  {h \in live : \A g \in live : g.doc = h.doc => g.recency <= h.recency}

\* The map of tombstones is the shared one, whatever has been written to it since.
Dead(v) == IF v.tombstones = Nil THEN tombstones ELSE v.tombstones[1]

\* Fault: the tombstones are consulted for hits in segments only.
AliveOrBuffered(v, h) == h.doc \notin Dead(v) \/ InBuffer(v, h.doc)

Alive(v, h) == h.doc \notin Dead(v)

\* docHasTermAnywhere: the buffer if it has the document, else the most recent
\* segment that has it.
HasTerm(v, d) ==
    LET holders == {i \in DOMAIN v.segments : v.segments[i].slot # Nil /\ v.segments[i].slot[d] # 0}
        newest  == CHOOSE i \in holders : \A j \in holders : Recency(v, i) >= Recency(v, j)
    IN  IF InBuffer(v, d) THEN Matches(v.snapshot[d])
        ELSE holders # {} /\ Matches(v.segments[newest].slot[d])

\* Fault: a required term is looked up in any copy of the document.
FilterAnyCopy(v, H) == H

\* applyQueryFilters.
Filter(v, H) == IF v.kind.required THEN {h \in H : HasTerm(v, h.doc)} ELSE H

Evaluate(s) ==
    LET v == view[s]
        n == Fetch(v)
    IN  /\ pc[s] = "evaluate"
        /\ \/ Active(v) = {} /\ See(s, [v EXCEPT !.result = {}])
           \/ \E seed \in Active(v) :
                 /\ \A i \in Active(v) : UpperBound(v, i) <= UpperBound(v, seed)
                 /\ LET found == Dedup(v, Searched(v, seed, n), n)
                        kept  == Filter(v, {h \in Top(found, n) : Alive(v, h)})
                    IN  See(s, [v EXCEPT
                          !.result = Top(kept, TopK),
                          !.full   = \/ Searched(v, seed, n) # Active(v) \/ Cut(v, n)
                                     \/ Cardinality(found) > n \/ Cardinality(kept) > TopK])
        /\ Goto(s, "fill")
        /\ UNCHANGED <<written, writing, shard, cache, moved, stray>>

\* The result is stored under a key that does not tell required terms from others.
Fill(s) ==
    /\ pc[s] = "fill"
    /\ cache' = IF ~ view[s].kind.snippets THEN cache
                ELSE [hits  |-> {[doc |-> h.doc, version |-> h.version] : h \in view[s].result},
                      raced |-> view[s].raced \/ writing # Nil]
    /\ EndSearch(s)
    /\ UNCHANGED <<written, writing, shard, moved, stray>>

SearchStep(s) ==
    \/ BeginSearch(s) \/ WriteBack(s) \/ LoadFails(s) \/ TakeView(s) \/ Rebuild(s)
    \/ Evaluate(s) \/ Fill(s)

Next ==
    \/ Invalidate \/ IndexDocument \/ DeleteDocument \/ Reset
    \/ Flush \/ Publish
    \/ StartMerge \/ PurgeTombstones \/ CommitMerge
    \/ \E s \in Searchers : SearchStep(s)

Spec == Init /\ [][Next]_vars

-----------------------------------------------------------------------------
(* Properties.                                                             *)

\* A slot of the segment list holds the segment its record names, although slots
\* are filled by position outside the lock that gave it (search.go loadNilSegments)
\* -- as long as no merge or reset has cut the list under a load (moved).
SlotsHoldTheirSegments ==
    moved \/ \A i \in DOMAIN segments : segments[i].slot \in {Nil, segments[i].copies}

\* The snapshot of the buffer that searches share is the buffer unless it is marked
\* as behind, and never shows a document the buffer does not have (search.go Search,
\* needsSnapshotLocked, and every place that resets bufferIdx).
SnapshotFollowsBuffer ==
    snapshot # Nil => /\ ~ dirty => snapshot = buffer
                      /\ \A d \in Copies(snapshot) : buffer[d] >= snapshot[d]

\* A search that misses the cache does not return a document that was deleted when
\* it started and has not been written again, whatever flushes, swaps, loads and
\* resets happen meanwhile (search.go searchAll) -- unless a merge drops its
\* tombstone before it drops the copy.
DeletedStaysHidden ==
    \A s \in Searchers : pc[s] = "fill" /\ ~ moved =>
       {h.doc : h \in view[s].result} \cap view[s].hidden = {}

\* The segments a search saw are in the order of their copies.  A merge of segments
\* that are not neighbours gives its output the highest of their flush sequences,
\* and so puts old copies above newer ones.
InOrder(v) ==
    \A i, j \in DOMAIN v.segments : v.segments[i].seq < v.segments[j].seq =>
       \A d \in Copies(v.segments[i].copies) \cap Copies(v.segments[j].copies) :
          v.segments[i].copies[d] <= v.segments[j].copies[d]

\* A search that is neither pruned nor cut finds every matching document that was
\* in a registered segment or due in the buffer's snapshot when it started, and was
\* not moved or rewritten since.
ShortResultIsComplete ==
    \A s \in Searchers : pc[s] = "fill" /\ ~ moved /\ InOrder(view[s]) /\ ~ view[s].full =>
       view[s].settled \subseteq {h.doc : h \in view[s].result}

\* Of a document whose newest copy matches the term, that copy is the one returned;
\* and a copy in a segment is not returned for a document the buffer's snapshot has
\* (search.go searchAll).
NewestMatchWins ==
    \A s \in Searchers : pc[s] = "fill" /\ ~ moved /\ InOrder(view[s]) =>
       \A h \in view[s].result :
          /\ InBuffer(view[s], h.doc) => h.version = view[s].snapshot[h.doc]
          /\ h.doc \in view[s].settled /\ ~ view[s].full => h.version = latest[h.doc]

\* A required term is in the newest loaded copy of every document returned for it,
\* not only in an older one (search.go applyQueryFilters, docHasTermAnywhere).
RequiredTermIsCurrent ==
    \A s \in Searchers : pc[s] = "fill" /\ view[s].kind.required /\ ~ moved /\ InOrder(view[s]) =>
       \A h \in view[s].result :
          LET v       == view[s]
              visible == {Content(v, i) : i \in {j \in DOMAIN v.segments : v.segments[j].slot # Nil}}
                         \cup (IF v.snapshot = Nil THEN {} ELSE {v.snapshot})
          IN  Matches(Max({c[h.doc] : c \in visible}))

\* The cache does not serve a document that is deleted, unless a write was under way
\* while its entry was made, a merge had dropped the tombstone under the search, or
\* one has dropped it although another segment or the buffer had a copy
\* (shardmanager.go IndexDoc, DeleteDoc, ResetShard).
CachedIsLive ==
    cache # Nil /\ ~ cache.raced /\ ~ moved =>
       \A h \in cache.hits : latest[h.doc] # 0 \/ h.doc \in stray
=============================================================================
