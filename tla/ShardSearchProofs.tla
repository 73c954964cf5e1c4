-------------------------- MODULE ShardSearchProofs --------------------------
(***************************************************************************)
(* Theorems about ShardSearch, for all values of its constants: the shared *)
(* snapshot follows the buffer, slots hold their segments, deleted         *)
(* documents stay hidden, the cache is live; and what a search returns is  *)
(* complete and current.                                                   *)
(*                                                                         *)
(* The last three need to know where copies are and how old they are: all  *)
(* versions have a score, the buffer's copies are newer than the segments' *)
(* (AgeInv), flush sequences are distinct (SeqInv), and what a search has  *)
(* to find is in what it will look at (FindInv).                           *)
(***************************************************************************)
EXTENDS ShardSearch, FiniteSetTheorems, WellFoundedInduction, TLAPS

-----------------------------------------------------------------------------
(* The types of the state.                                                 *)

Copy    == [Docs -> Nat]
Slot    == {Nil} \cup Copy
Segment == [seq : Nat, level : Nat, copies : Copy, slot : Slot]
Work    == UNION {[D -> Segment] : D \in SUBSET Nat}
Hit     == [doc : Docs, version : Nat, recency : Nat]

View == [kind : {Nil} \cup Kinds, work : Work, segments : Seq(Segment), snapshot : Slot,
         tombstones : Seq(SUBSET Docs), due : BOOLEAN, hidden : SUBSET Docs,
         settled : SUBSET Docs, result : SUBSET Hit, full : BOOLEAN, raced : BOOLEAN]

Merge == [inputs : SUBSET [seq : Nat, level : Nat], purged : BOOLEAN, docs : SUBSET Docs,
          out : Segment]

Writing == [op : {"index", "delete"}, doc : Docs] \cup {[op |-> "reset"]}

Labels == {"idle", "load", "snapshot", "rebuild", "evaluate", "fill"}

WritesTyped ==
    /\ clock \in Nat /\ latest \in Copy /\ writing \in {Nil} \cup Writing
    /\ stray \in SUBSET Docs

BufferTyped ==
    /\ buffer \in Copy /\ snapshot \in Slot /\ dirty \in BOOLEAN
    /\ inflight \in SUBSET [seq : Nat, copies : Copy]

SegmentsTyped ==
    /\ segments \in Seq(Segment) /\ tombstones \in SUBSET Docs
    /\ merge \in {Nil} \cup Merge

SearchesTyped ==
    /\ pc \in [Searchers -> Labels] /\ view \in [Searchers -> View]
    /\ cache \in {Nil} \cup [hits : SUBSET [doc : Docs, version : Nat], raced : BOOLEAN]
    /\ moved \in BOOLEAN

Typed == WritesTyped /\ BufferTyped /\ SegmentsTyped /\ SearchesTyped

LEMMA NilTyped == Nil \in Seq(SUBSET Docs) /\ Nil \in Work
<1>1. Nil \in [{} -> Segment]
  BY DEF Nil
<1> QED
  BY <1>1 DEF Nil, Work

\* The empty sequence is not a map of versions unless there are no documents.
LEMMA NotNil == ASSUME Docs # {}, NEW c \in Copy PROVE c # Nil
<1>1. DOMAIN c = Docs /\ DOMAIN Nil = {}
  BY DEF Copy, Nil
<1> QED
  BY <1>1

LEMMA NoViewTyped == NoView \in View
BY NilTyped DEF NoView, View, Slot, Nil

\* What Observe does to each search.
LEMMA ObserveEffect ==
    ASSUME Typed, NEW miss \in SUBSET Docs, NEW show \in SUBSET Docs, Observe(miss, show)
    PROVE  /\ view' \in [Searchers -> View]
           /\ \A s \in Searchers :
                 /\ view'[s].segments = view[s].segments /\ view'[s].snapshot = view[s].snapshot
                 /\ view'[s].tombstones = view[s].tombstones /\ view'[s].work = view[s].work
                 /\ view'[s].result = view[s].result /\ view'[s].kind = view[s].kind
                 /\ view'[s].due = view[s].due
                 /\ view'[s].hidden = view[s].hidden \ show
                 /\ view'[s].raced = (pc[s] # "idle" /\ (view[s].raced \/ writing # Nil))
<1> SUFFICES ASSUME NEW s \in Searchers
             PROVE  /\ view'[s] \in View
                    /\ view'[s].segments = view[s].segments /\ view'[s].snapshot = view[s].snapshot
                    /\ view'[s].tombstones = view[s].tombstones /\ view'[s].work = view[s].work
                    /\ view'[s].result = view[s].result /\ view'[s].kind = view[s].kind
                    /\ view'[s].due = view[s].due
                    /\ view'[s].hidden = view[s].hidden \ show
                    /\ view'[s].raced = (pc[s] # "idle" /\ (view[s].raced \/ writing # Nil))
  BY DEF Observe
<1> DEFINE racing == pc[s] # "idle" /\ (view[s].raced \/ writing # Nil)
<1>1. view[s] \in View /\ racing \in BOOLEAN
  BY DEF SearchesTyped, Typed
<1>2. view'[s] = [view[s] EXCEPT !.settled = view[s].settled \ miss,
                                 !.hidden = view[s].hidden \ show, !.raced = racing]
  BY DEF Observe
<1> HIDE DEF racing
<1>3. /\ view'[s] \in View
      /\ view'[s].segments = view[s].segments /\ view'[s].snapshot = view[s].snapshot
      /\ view'[s].tombstones = view[s].tombstones /\ view'[s].work = view[s].work
      /\ view'[s].result = view[s].result /\ view'[s].kind = view[s].kind
      /\ view'[s].due = view[s].due
      /\ view'[s].hidden = view[s].hidden \ show
      /\ view'[s].raced = racing
  BY <1>1, <1>2 DEF View
<1> QED
  BY <1>3 DEF racing

LEMMA ObserveSettled ==
    ASSUME Typed, NEW miss \in SUBSET Docs, NEW show \in SUBSET Docs, Observe(miss, show),
           NEW s \in Searchers
    PROVE  view'[s].full = view[s].full /\ view'[s].settled = view[s].settled \ miss
<1> DEFINE racing == pc[s] # "idle" /\ (view[s].raced \/ writing # Nil)
<1>1. view[s] \in View
  BY DEF SearchesTyped, Typed
<1>2. view'[s] = [view[s] EXCEPT !.settled = view[s].settled \ miss,
                                 !.hidden = view[s].hidden \ show, !.raced = racing]
  BY DEF Observe
<1> HIDE DEF racing
<1> QED
  BY <1>1, <1>2 DEF View

LEMMA InitTyped == Init => Typed
<1> SUFFICES ASSUME Init PROVE Typed
  OBVIOUS
<1>1. NoCopies \in Copy
  BY DEF NoCopies, Copy
<1>2. WritesTyped
  BY <1>1 DEF Init, WritesTyped
<1>3. BufferTyped
  BY <1>1 DEF Init, BufferTyped, Slot
<1>4. SegmentsTyped
  BY DEF Init, SegmentsTyped
<1>5. SearchesTyped
  BY NoViewTyped DEF Init, SearchesTyped, Labels
<1> QED
  BY <1>2, <1>3, <1>4, <1>5 DEF Typed

-----------------------------------------------------------------------------
(* Steps of the shard.                                                     *)

\* What all writes have in common.
LEMMA WriteEffect ==
    ASSUME Typed, NEW op, NEW score, Write(op, score)
    PROVE  /\ writing \in Writing /\ writing.op = op
           /\ op # "reset" => writing.doc \in Docs
           /\ writing' = Nil /\ clock' = clock + 1 /\ clock' \in Nat
           /\ stray' \in SUBSET Docs
BY DEF Typed, WritesTyped, Writing, Write

LEMMA InvalidateTyped == ASSUME Typed, Invalidate PROVE Typed'
<1>1. WritesTyped'
  BY DEF Invalidate, Typed, WritesTyped, Writing, written
<1>2. BufferTyped' /\ SegmentsTyped'
  BY DEF Invalidate, Typed, BufferTyped, SegmentsTyped, shard
<1>3. SearchesTyped'
  BY DEF Invalidate, Typed, SearchesTyped
<1> QED
  BY <1>1, <1>2, <1>3 DEF Typed

LEMMA IndexTyped == ASSUME Typed, IndexDocument PROVE Typed'
<1>1. PICK score \in Scores :
       LET d   == writing.doc
           new == [buffer EXCEPT ![d] = clock + 1]
       IN  /\ Write("index", score)
           /\ latest' = [latest EXCEPT ![d] = clock + 1]
           /\ tombstones' = tombstones \ {d}
           /\ \/ /\ buffer' = new /\ dirty' = TRUE
                 /\ Observe({d}, {d})
                 /\ UNCHANGED <<snapshot, inflight>>
              \/ /\ Cardinality(inflight) < SpareBuffers
                 /\ inflight' = inflight \cup {[seq |-> clock + 1, copies |-> new]}
                 /\ TakeBuffer
                 /\ Observe(Copies(new), {d})
           /\ UNCHANGED <<segments, merge, merges, cache, pc, moved>>
  BY DEF IndexDocument
<1>2. writing.doc \in Docs /\ writing' = Nil /\ clock' = clock + 1 /\ clock' \in Nat /\ stray' \in SUBSET Docs
  BY <1>1, WriteEffect
<1>3. [buffer EXCEPT ![writing.doc] = clock + 1] \in Copy /\ latest' \in Copy
  BY <1>1, <1>2 DEF Copy, Typed, BufferTyped, WritesTyped
<1>4. WritesTyped'
  BY <1>2, <1>3 DEF WritesTyped
<1>5. BufferTyped'
  <2>1. NoCopies \in Copy
    BY DEF NoCopies, Copy
  <2>2. [seq |-> clock + 1, copies |-> [buffer EXCEPT ![writing.doc] = clock + 1]]
          \in [seq : Nat, copies : Copy]
    BY <1>2, <1>3
  <2> QED
    BY <1>1, <1>2, <1>3, <2>1, <2>2 DEF Slot, TakeBuffer, Typed, BufferTyped
<1>6. SegmentsTyped'
  BY <1>1 DEF Typed, SegmentsTyped
<1>7. view' \in [Searchers -> View]
  <2>1. PICK miss \in SUBSET Docs : Observe(miss, {writing.doc})
    BY <1>1, <1>2 DEF Copies
  <2>2. {writing.doc} \in SUBSET Docs
    BY <1>2
  <2> QED
    BY <2>1, <2>2, ObserveEffect
<1>8. SearchesTyped'
  BY <1>1, <1>7 DEF Typed, SearchesTyped
<1> QED
  BY <1>4, <1>5, <1>6, <1>8 DEF Typed

LEMMA DeleteTyped == ASSUME Typed, DeleteDocument PROVE Typed'
<1>1. writing.doc \in Docs /\ writing' = Nil /\ clock' = clock + 1 /\ clock' \in Nat /\ stray' \in SUBSET Docs
  BY WriteEffect DEF DeleteDocument
<1>2. WritesTyped'
  BY <1>1 DEF DeleteDocument, Typed, WritesTyped, Copy
<1>3. BufferTyped' /\ SegmentsTyped'
  BY <1>1 DEF DeleteDocument, Typed, BufferTyped, SegmentsTyped
<1>4. view' \in [Searchers -> View]
  <2>1. {writing.doc} \in SUBSET Docs /\ {} \in SUBSET Docs /\ Observe({writing.doc}, {})
    BY <1>1 DEF DeleteDocument
  <2> QED
    BY <2>1, ObserveEffect
<1>5. SearchesTyped'
  BY <1>4 DEF DeleteDocument, Typed, SearchesTyped
<1> QED
  BY <1>2, <1>3, <1>5 DEF Typed

\* What a reset does to each search.
LEMMA ResetView ==
    ASSUME Typed, Reset
    PROVE  /\ view' \in [Searchers -> View]
           /\ \A s \in Searchers :
                 /\ view'[s].segments = view[s].segments /\ view'[s].snapshot = view[s].snapshot
                 /\ view'[s].result = view[s].result /\ view'[s].work = view[s].work
                 /\ view'[s].hidden = view[s].hidden
                 /\ view'[s].kind = view[s].kind /\ view'[s].due = view[s].due
                 /\ view'[s].full = view[s].full /\ view'[s].settled = {}
                 /\ pc[s] # "idle" => view'[s].raced
                 /\ view'[s].tombstones = IF pc[s] \in {"rebuild", "evaluate"} /\ view[s].tombstones = Nil
                                          THEN <<tombstones>> ELSE view[s].tombstones
<1> SUFFICES ASSUME NEW s \in Searchers
             PROVE  /\ view'[s] \in View
                    /\ view'[s].segments = view[s].segments /\ view'[s].snapshot = view[s].snapshot
                    /\ view'[s].result = view[s].result /\ view'[s].work = view[s].work
                    /\ view'[s].hidden = view[s].hidden
                    /\ view'[s].kind = view[s].kind /\ view'[s].due = view[s].due
                    /\ view'[s].full = view[s].full /\ view'[s].settled = {}
                    /\ pc[s] # "idle" => view'[s].raced
                    /\ view'[s].tombstones =
                         IF pc[s] \in {"rebuild", "evaluate"} /\ view[s].tombstones = Nil
                         THEN <<tombstones>> ELSE view[s].tombstones
  BY DEF Reset
<1> DEFINE racing == pc[s] # "idle"
           kept   == IF pc[s] \in {"rebuild", "evaluate"} /\ view[s].tombstones = Nil
                     THEN <<tombstones>> ELSE view[s].tombstones
<1>1. view[s] \in View /\ racing \in BOOLEAN
  BY DEF Typed, SearchesTyped
<1>2. kept \in Seq(SUBSET Docs)
  <2>1. <<tombstones>> \in Seq(SUBSET Docs)
    BY DEF Typed, SegmentsTyped
  <2> QED
    BY <1>1, <2>1 DEF View
<1>3. view'[s] = [view[s] EXCEPT !.settled = {}, !.raced = racing, !.tombstones = kept]
  BY DEF Reset
<1> HIDE DEF kept, racing
<1>4. /\ view'[s] \in View
      /\ view'[s].segments = view[s].segments /\ view'[s].snapshot = view[s].snapshot
      /\ view'[s].result = view[s].result /\ view'[s].work = view[s].work
      /\ view'[s].hidden = view[s].hidden
      /\ view'[s].kind = view[s].kind /\ view'[s].due = view[s].due
      /\ view'[s].full = view[s].full /\ view'[s].settled = {}
      /\ view'[s].raced = racing /\ view'[s].tombstones = kept
  BY <1>1, <1>2, <1>3 DEF View
<1> QED
  BY <1>4 DEF racing, kept

LEMMA ResetTyped == ASSUME Typed, Reset PROVE Typed'
<1>1. writing' = Nil /\ clock' \in Nat /\ stray' \in SUBSET Docs
  BY WriteEffect DEF Reset
<1>2. NoCopies \in Copy
  BY DEF NoCopies, Copy
<1>3. WritesTyped'
  BY <1>1, <1>2 DEF Reset, WritesTyped
<1>4. BufferTyped'
  BY <1>2 DEF Reset, TakeBuffer, Typed, BufferTyped, Slot
<1>7. SegmentsTyped'
  <2>1. segments' = <<>> /\ tombstones' = {} /\ merge' = merge
    BY DEF Reset
  <2> QED
    BY <2>1 DEF Typed, SegmentsTyped
<1>5. moved' \in BOOLEAN
  BY DEF Reset, Typed, SearchesTyped, Loading
<1>6. SearchesTyped'
  BY <1>5, ResetView DEF Reset, Typed, SearchesTyped
<1> QED
  BY <1>3, <1>4, <1>6, <1>7 DEF Typed

LEMMA FlushTyped == ASSUME Typed, Flush PROVE Typed'
<1>1. Unloaded(clock, buffer) \in Segment
  BY DEF Unloaded, Segment, Slot, Typed, WritesTyped, BufferTyped
<1>2. WritesTyped'
  BY DEF Flush, Typed, WritesTyped, written
<1>3. BufferTyped'
  BY DEF Flush, TakeBuffer, Typed, BufferTyped, Slot, NoCopies, Copy
<1>4. SegmentsTyped'
  BY <1>1 DEF Flush, Typed, SegmentsTyped
<1>5. view' \in [Searchers -> View]
  <2>1. Copies(buffer) \in SUBSET Docs /\ {} \in SUBSET Docs /\ Observe(Copies(buffer), {})
    BY DEF Flush, Copies
  <2> QED
    BY <2>1, ObserveEffect
<1>6. SearchesTyped'
  BY <1>5 DEF Flush, Typed, SearchesTyped
<1> QED
  BY <1>2, <1>3, <1>4, <1>6 DEF Typed

LEMMA PublishTyped == ASSUME Typed, Publish PROVE Typed'
<1>1. PICK b \in inflight :
       /\ segments' = Append(segments, Unloaded(b.seq, b.copies))
       /\ inflight' = inflight \ {b}
       /\ UNCHANGED <<written, writing, buffer, snapshot, dirty, tombstones, merge, merges,
                      cache, pc, view, moved, stray>>
  BY DEF Publish
<1>2. Unloaded(b.seq, b.copies) \in Segment
  BY DEF Unloaded, Segment, Slot, Typed, BufferTyped
<1>3. WritesTyped'
  BY <1>1 DEF Typed, WritesTyped, written
<1>4. BufferTyped' /\ SegmentsTyped'
  BY <1>1, <1>2 DEF Typed, BufferTyped, SegmentsTyped
<1>5. SearchesTyped'
  BY <1>1 DEF Typed, SearchesTyped
<1> QED
  BY <1>3, <1>4, <1>5 DEF Typed

-----------------------------------------------------------------------------
(* Merges.                                                                 *)

LEMMA Positions ==
    ASSUME Typed
    PROVE  /\ Len(segments) \in Nat /\ DOMAIN segments = 1 .. Len(segments)
           /\ IsFiniteSet(DOMAIN segments)
           /\ \A i \in DOMAIN segments : segments[i] \in Segment
<1>1. /\ Len(segments) \in Nat /\ DOMAIN segments = 1 .. Len(segments)
      /\ \A i \in DOMAIN segments : segments[i] \in Segment
  BY DEF Typed, SegmentsTyped
<1> QED
  BY <1>1, FS_Interval

LEMMA TwoOf ==
    ASSUME NEW D, IsFiniteSet(D), NEW S \in kSubset(2, D)
    PROVE  \E a, b \in D : S = {a, b}
<1>1. S \in SUBSET D /\ Cardinality(S) = 2
  BY DEF kSubset
<1>2. IsFiniteSet(S)
  BY <1>1, FS_Subset
<1>3. PICK a \in S : TRUE
  BY <1>1, FS_EmptySet
<1>4. IsFiniteSet(S \ {a}) /\ Cardinality(S \ {a}) = 1
  BY <1>1, <1>2, <1>3, FS_RemoveElement
<1>5. PICK b : S \ {a} = {b}
  BY <1>4, FS_Singleton
<1>6. S = {a, b} /\ a \in D /\ b \in D
  BY <1>1, <1>3, <1>5
<1> QED
  BY <1>6

\* The newest of at most two segments is one of them.
LEMMA NewestOfTwo ==
    ASSUME Typed, NEW a \in DOMAIN segments, NEW b \in DOMAIN segments,
           NEW S \in SUBSET {a, b}, S # {}
    PROVE  Newest(S) \in S /\ \A j \in S : segments[Newest(S)].seq >= segments[j].seq
<1>1. segments[a].seq \in Nat /\ segments[b].seq \in Nat
  BY Positions DEF Segment
<1>2. \E i \in S : \A j \in S : segments[i].seq >= segments[j].seq
  BY <1>1
<1> QED
  BY <1>2 DEF Newest

LEMMA MaxOfTwo ==
    ASSUME NEW a \in Nat, NEW b \in Nat PROVE Max({a, b}) \in Nat
<1>1. \E x \in {a, b} : \A y \in {a, b} : x >= y
  OBVIOUS
<1> QED
  BY <1>1 DEF Max

\* What StartMerge puts into merge.
LEMMA StartMergeEffect ==
    ASSUME Typed, StartMerge
    PROVE  /\ merge = Nil /\ merge' \in Merge
           /\ merge'.out.slot = merge'.out.copies
           /\ merge'.inputs \subseteq Ids(DOMAIN segments)
           /\ \E x \in merge'.inputs : x.seq = merge'.out.seq
           /\ \A d \in Docs : merge'.out.copies[d] # 0 =>
                 /\ d \notin tombstones
                 /\ \E i \in DOMAIN segments : segments[i].copies[d] = merge'.out.copies[d]
<1>1. PICK S \in kSubset(2, DOMAIN segments) :
          LET out == [d \in Docs |-> IF Having(S, d) = {} \/ d \in tombstones THEN 0
                                     ELSE segments[Newest(Having(S, d))].copies[d]]
          IN  merge' = [inputs |-> Ids(S), purged |-> FALSE,
                        docs |-> {d \in Docs : Having(S, d) # {}},
                        out |-> [seq |-> segments[Newest(S)].seq, copies |-> out, slot |-> out,
                                 level |-> 1 + Max({segments[i].level : i \in S})]]
  BY DEF StartMerge
<1>2. PICK a \in DOMAIN segments, b \in DOMAIN segments : S = {a, b}
  <2>1. IsFiniteSet(DOMAIN segments)
    BY Positions
  <2> HIDE <1>1
  <2> QED
    BY <2>1, TwoOf
<1>3. \A i \in DOMAIN segments : segments[i] \in Segment
  BY Positions
<1> DEFINE out == [d \in Docs |-> IF Having(S, d) = {} \/ d \in tombstones THEN 0
                                  ELSE segments[Newest(Having(S, d))].copies[d]]
           seq == segments[Newest(S)].seq
           levels == {segments[i].level : i \in S}
           level == 1 + Max(levels)
<1>4. seq \in Nat
  BY <1>2, <1>3, NewestOfTwo DEF Segment
<1>5. level \in Nat
  <2>1. levels = {segments[a].level, segments[b].level}
    BY <1>2
  <2>2. segments[a].level \in Nat /\ segments[b].level \in Nat
    BY <1>3 DEF Segment
  <2>3. Max({segments[a].level, segments[b].level}) \in Nat
    BY <2>2, MaxOfTwo
  <2> HIDE DEF levels
  <2>4. Max(levels) \in Nat
    BY <2>1, <2>3
  <2> QED
    BY <2>4
<1>6. \A d \in Docs : Having(S, d) # {} =>
         Newest(Having(S, d)) \in DOMAIN segments /\ segments[Newest(Having(S, d))].copies[d] # 0
  <2> SUFFICES ASSUME NEW d \in Docs, Having(S, d) # {}
               PROVE  /\ Newest(Having(S, d)) \in DOMAIN segments
                      /\ segments[Newest(Having(S, d))].copies[d] # 0
    OBVIOUS
  <2>1. Having(S, d) \in SUBSET {a, b}
    BY <1>2 DEF Having
  <2>2. Newest(Having(S, d)) \in Having(S, d)
    BY <2>1, NewestOfTwo
  <2> QED
    BY <1>2, <2>2 DEF Having
<1>7. out \in Copy
  BY <1>3, <1>6 DEF Segment, Copy
<1>8. \A d \in Docs : out[d] # 0 =>
         d \notin tombstones /\ \E i \in DOMAIN segments : segments[i].copies[d] = out[d]
  BY <1>6
<1>9. /\ Ids(S) \in SUBSET [seq : Nat, level : Nat] /\ Ids(S) \subseteq Ids(DOMAIN segments)
      /\ \E x \in Ids(S) : x.seq = seq
  <2>1. Newest(S) \in S
    BY <1>2, NewestOfTwo
  <2>2. \A i \in S : i \in DOMAIN segments /\ segments[i].seq \in Nat /\ segments[i].level \in Nat
    BY <1>2, <1>3 DEF Segment
  <2>3. \A i \in S : [seq |-> segments[i].seq, level |-> segments[i].level] \in Ids(S)
    BY DEF Ids
  <2>4. \E x \in Ids(S) : x.seq = seq
    BY <2>1, <2>3
  <2>5. Ids(S) \subseteq Ids(DOMAIN segments)
    BY <2>2 DEF Ids
  <2>6. Ids(S) \subseteq [seq : Nat, level : Nat]
    BY <2>2 DEF Ids
  <2> QED
    BY <2>4, <2>5, <2>6
<1>10. merge' = [inputs |-> Ids(S), purged |-> FALSE,
                 docs |-> {d \in Docs : Having(S, d) # {}},
                 out |-> [seq |-> seq, copies |-> out, slot |-> out, level |-> level]]
  BY <1>1
<1> HIDE DEF out, seq, level
<1>11. [seq |-> seq, copies |-> out, slot |-> out, level |-> level] \in Segment
  BY <1>4, <1>5, <1>7 DEF Segment, Slot
<1> QED
  BY <1>8, <1>9, <1>10, <1>11 DEF Merge, StartMerge

LEMMA StartMergeTyped == ASSUME Typed, StartMerge PROVE Typed'
<1>1. merge' \in Merge
  BY StartMergeEffect
<1>2. UNCHANGED <<written, writing, buffer, snapshot, dirty, inflight, segments, tombstones,
                  cache, pc, view, moved, stray>>
  BY DEF StartMerge
<1> QED
  BY <1>1, <1>2 DEF Typed, WritesTyped, BufferTyped, SegmentsTyped, SearchesTyped, written

\* What a purge does to each search.
LEMMA PurgeView ==
    ASSUME Typed, PurgeTombstones
    PROVE  /\ view' \in [Searchers -> View]
           /\ \A s \in Searchers :
                 /\ view'[s].segments = view[s].segments /\ view'[s].snapshot = view[s].snapshot
                 /\ view'[s].result = view[s].result /\ view'[s].work = view[s].work
                 /\ view'[s].tombstones = view[s].tombstones
                 /\ view'[s].kind = view[s].kind /\ view'[s].due = view[s].due
                 /\ view'[s].full = view[s].full /\ view'[s].settled = view[s].settled
                 /\ view'[s].hidden = IF pc[s] = "idle" THEN view[s].hidden
                                      ELSE view[s].hidden \ Purgeable
                 /\ view'[s].raced = (pc[s] # "idle" /\ (view[s].raced \/ Purgeable # {}))
<1> SUFFICES ASSUME NEW s \in Searchers
             PROVE  /\ view'[s] \in View
                    /\ view'[s].segments = view[s].segments /\ view'[s].snapshot = view[s].snapshot
                    /\ view'[s].result = view[s].result /\ view'[s].work = view[s].work
                    /\ view'[s].tombstones = view[s].tombstones
                    /\ view'[s].kind = view[s].kind /\ view'[s].due = view[s].due
                    /\ view'[s].full = view[s].full /\ view'[s].settled = view[s].settled
                    /\ view'[s].hidden = IF pc[s] = "idle" THEN view[s].hidden
                                         ELSE view[s].hidden \ Purgeable
                    /\ view'[s].raced = (pc[s] # "idle" /\ (view[s].raced \/ Purgeable # {}))
  BY DEF PurgeTombstones
<1> DEFINE racing == pc[s] # "idle" /\ (view[s].raced \/ Purgeable # {})
           still  == IF pc[s] = "idle" THEN view[s].hidden ELSE view[s].hidden \ Purgeable
<1>1. view[s] \in View /\ racing \in BOOLEAN
  BY DEF Typed, SearchesTyped
<1>2. still \in SUBSET Docs
  BY <1>1 DEF View
<1>3. view'[s] = [view[s] EXCEPT !.hidden = still, !.raced = racing]
  BY DEF PurgeTombstones
<1> HIDE DEF still, racing
<1>4. /\ view'[s] \in View
      /\ view'[s].segments = view[s].segments /\ view'[s].snapshot = view[s].snapshot
      /\ view'[s].result = view[s].result /\ view'[s].work = view[s].work
      /\ view'[s].tombstones = view[s].tombstones
      /\ view'[s].kind = view[s].kind /\ view'[s].due = view[s].due
      /\ view'[s].full = view[s].full /\ view'[s].settled = view[s].settled
      /\ view'[s].hidden = still /\ view'[s].raced = racing
  BY <1>1, <1>2, <1>3 DEF View
<1> QED
  BY <1>4 DEF racing, still

LEMMA PurgeTyped == ASSUME Typed, PurgeTombstones PROVE Typed'
<1>1. merge' \in Merge
  BY DEF PurgeTombstones, Typed, SegmentsTyped, Merge
<1>2. tombstones' \in SUBSET Docs /\ stray' \in SUBSET Docs
  BY DEF PurgeTombstones, Typed, SegmentsTyped, WritesTyped, Purgeable
<1>3. UNCHANGED <<written, writing, buffer, snapshot, dirty, inflight, segments, cache, pc, moved>>
  BY DEF PurgeTombstones
<1> QED
  BY <1>1, <1>2, <1>3, PurgeView
     DEF Typed, WritesTyped, BufferTyped, SegmentsTyped, SearchesTyped, written

\* After the exchange the list has the merge's output and no segment but old ones
\* that were not inputs.
LEMMA CommitEffect ==
    ASSUME Typed, CommitMerge
    PROVE  /\ segments' \in Seq(Segment)
           /\ \A i \in DOMAIN segments' :
                 \/ segments'[i] = merge.out
                 \/ \E j \in DOMAIN segments : /\ segments'[i] = segments[j]
                                               /\ Id(segments[j]) \notin merge.inputs
           /\ \E n \in Nat : \E place \in [1 .. n -> DOMAIN segments] :
                 /\ DOMAIN segments' = 1 .. n + 1 /\ segments'[n + 1] = merge.out
                 /\ \A k \in 1 .. n : /\ segments'[k] = segments[place[k]]
                                      /\ Id(segments[place[k]]) \notin merge.inputs
                 /\ \A k, l \in 1 .. n : k < l => place[k] < place[l]
<1> DEFINE kept == {i \in DOMAIN segments : Id(segments[i]) \notin merge.inputs}
<1>1. PICK place \in [1 .. Cardinality(kept) -> kept] :
         /\ \A k, l \in DOMAIN place : k < l => place[k] < place[l]
         /\ segments' = Append([k \in DOMAIN place |-> segments[place[k]]], merge.out)
  BY DEF CommitMerge
<1>2. Cardinality(kept) \in Nat
  <2>1. kept \in SUBSET DOMAIN segments
    OBVIOUS
  <2> QED
    BY <2>1, Positions, FS_Subset, FS_CardinalityType
<1> DEFINE rest == [k \in 1 .. Cardinality(kept) |-> segments[place[k]]]
<1>3. \A i \in DOMAIN segments : segments[i] \in Segment
  BY Positions
<1>4. \A k \in 1 .. Cardinality(kept) : place[k] \in kept
  OBVIOUS
<1>5. rest \in Seq(Segment) /\ Len(rest) = Cardinality(kept)
  BY <1>2, <1>3, <1>4
<1>6. segments' = Append(rest, merge.out) /\ merge.out \in Segment
  BY <1>1 DEF CommitMerge, Typed, SegmentsTyped, Merge
<1> HIDE DEF rest
<1>7. segments' \in Seq(Segment) /\ DOMAIN segments' = 1 .. Cardinality(kept) + 1
  BY <1>2, <1>5, <1>6
<1>8. \A i \in 1 .. Cardinality(kept) : segments'[i] = segments[place[i]]
  BY <1>2, <1>5, <1>6 DEF rest
<1>9. segments'[Cardinality(kept) + 1] = merge.out
  BY <1>2, <1>5, <1>6
<1>10. ASSUME NEW i \in DOMAIN segments'
       PROVE  \/ segments'[i] = merge.out
              \/ \E j \in DOMAIN segments : /\ segments'[i] = segments[j]
                                            /\ Id(segments[j]) \notin merge.inputs
  BY <1>2, <1>4, <1>7, <1>8, <1>9
<1>11. place \in [1 .. Cardinality(kept) -> DOMAIN segments]
  OBVIOUS
<1>12. \A k, l \in 1 .. Cardinality(kept) : k < l => place[k] < place[l]
  BY <1>1
<1>13. \A k \in 1 .. Cardinality(kept) : Id(segments[place[k]]) \notin merge.inputs
  BY <1>4
<1> HIDE DEF kept
<1>14. \E n \in Nat : \E q \in [1 .. n -> DOMAIN segments] :
          /\ DOMAIN segments' = 1 .. n + 1 /\ segments'[n + 1] = merge.out
          /\ \A k \in 1 .. n : /\ segments'[k] = segments[q[k]]
                               /\ Id(segments[q[k]]) \notin merge.inputs
          /\ \A k, l \in 1 .. n : k < l => q[k] < q[l]
  BY <1>2, <1>7, <1>8, <1>9, <1>11, <1>12, <1>13
<1> QED
  BY <1>7, <1>10, <1>14

LEMMA CommitTyped == ASSUME Typed, CommitMerge PROVE Typed'
<1>1. view' \in [Searchers -> View]
  <2>1. Docs \in SUBSET Docs /\ {} \in SUBSET Docs /\ Observe(Docs, {})
    BY DEF CommitMerge
  <2> QED
    BY <2>1, ObserveEffect
<1>2. moved' \in BOOLEAN
  BY DEF CommitMerge, Loading, Typed, SearchesTyped
<1>3. merge' = Nil /\ UNCHANGED <<written, writing, buffer, snapshot, dirty, inflight, tombstones,
                                  cache, pc, stray>>
  BY DEF CommitMerge
<1> QED
  BY <1>1, <1>2, <1>3, CommitEffect
     DEF Typed, WritesTyped, BufferTyped, SegmentsTyped, SearchesTyped, written

-----------------------------------------------------------------------------
(* Steps of a search.                                                      *)

LEMMA SeeEffect ==
    ASSUME Typed, NEW s \in Searchers, NEW v \in View, See(s, v)
    PROVE  /\ view' \in [Searchers -> View] /\ view'[s] = v
           /\ \A t \in Searchers \ {s} : view'[t] = view[t]
BY DEF See, Typed, SearchesTyped

LEMMA GotoEffect ==
    ASSUME Typed, NEW s \in Searchers, NEW label \in Labels, Goto(s, label)
    PROVE  /\ pc' \in [Searchers -> Labels] /\ pc'[s] = label
           /\ \A t \in Searchers \ {s} : pc'[t] = pc[t]
BY DEF Goto, Typed, SearchesTyped

\* A search's step that only moves that search keeps the types.
LEMMA SearchStepTyped ==
    ASSUME Typed, NEW s \in Searchers, NEW v \in View, NEW label \in Labels,
           See(s, v), Goto(s, label),
           UNCHANGED <<written, writing, shard, cache, moved, stray>>
    PROVE  Typed'
<1>1. view' \in [Searchers -> View] /\ pc' \in [Searchers -> Labels]
  BY SeeEffect, GotoEffect
<1> QED
  BY <1>1 DEF Typed, WritesTyped, BufferTyped, SegmentsTyped, SearchesTyped, written, shard

\* What a search holds when it has begun.
LEMMA BeginEffect ==
    ASSUME Typed, NEW s \in Searchers, BeginSearch(s)
    PROVE  \E v \in View :
              /\ See(s, v)
              /\ v.work = [i \in {j \in DOMAIN segments : segments[j].slot = Nil} |-> segments[i]]
              /\ v.hidden = MustHide /\ v.raced = Purging
              /\ v.tombstones = Nil /\ v.result = {} /\ v.settled = MustFind(v.due)
<1>1. PICK kind \in Kinds, due \in BOOLEAN :
          See(s, [NoView EXCEPT !.kind = kind,
                     !.work = [i \in {j \in DOMAIN segments : segments[j].slot = Nil} |-> segments[i]],
                     !.due = due, !.settled = MustFind(due), !.hidden = MustHide, !.raced = Purging])
  BY DEF BeginSearch
<1> DEFINE empty == {j \in DOMAIN segments : segments[j].slot = Nil}
           work  == [i \in empty |-> segments[i]]
           v     == [NoView EXCEPT !.kind = kind, !.work = work, !.due = due,
                                   !.settled = MustFind(due), !.hidden = MustHide, !.raced = Purging]
<1>2. work \in Work
  <2>1. empty \in SUBSET Nat /\ work \in [empty -> Segment]
    BY Positions
  <2> QED
    BY <2>1 DEF Work
<1>3. MustFind(due) \in SUBSET Docs
  BY DEF MustFind
<1>4. MustHide \in SUBSET Docs
  BY DEF MustHide, Typed, SegmentsTyped
<1>5. Purging \in BOOLEAN
  <2>1. merge # Nil => merge.purged \in BOOLEAN
    BY DEF Typed, SegmentsTyped, Merge
  <2> QED
    BY <2>1 DEF Purging
<1>6. See(s, v)
  BY <1>1
<1> HIDE DEF work
<1>7. /\ v \in View /\ v.work = work /\ v.hidden = MustHide /\ v.raced = Purging
      /\ v.tombstones = Nil /\ v.result = {} /\ v.settled = MustFind(due) /\ v.due = due
  <2>1. NoView \in View /\ NoView.tombstones = Nil /\ NoView.result = {}
    BY NoViewTyped DEF NoView
  <2>2. v = [NoView EXCEPT !.kind = kind, !.work = work, !.due = due,
                           !.settled = MustFind(due), !.hidden = MustHide, !.raced = Purging]
    OBVIOUS
  <2> HIDE DEF v
  <2> QED
    BY <1>2, <1>3, <1>4, <1>5, <2>1, <2>2 DEF View
<1> QED
  BY <1>6, <1>7 DEF work

LEMMA BeginTyped == ASSUME Typed, NEW s \in Searchers, BeginSearch(s) PROVE Typed'
<1>1. "load" \in Labels /\ Goto(s, "load")
  BY DEF Labels, BeginSearch
<1>2. UNCHANGED <<written, writing, shard, cache, moved, stray>>
  BY DEF BeginSearch
<1>3. PICK v \in View : See(s, v)
  BY BeginEffect
<1> QED
  BY <1>1, <1>2, <1>3, SearchStepTyped

\* Slots that were empty are filled with what was loaded for their position.
LEMMA WriteBackEffect ==
    ASSUME Typed, NEW s \in Searchers, WriteBack(s)
    PROVE  /\ segments' \in Seq(Segment) /\ DOMAIN segments' = DOMAIN segments
           /\ \A i \in DOMAIN segments :
                 /\ Id(segments'[i]) = Id(segments[i])
                 /\ segments'[i].copies = segments[i].copies
                 /\ \/ segments'[i].slot = segments[i].slot
                    \/ /\ i \in DOMAIN view[s].work
                       /\ segments'[i].slot \in {Nil, view[s].work[i].copies}
                 /\ segments[i].slot # Nil => segments'[i].slot = segments[i].slot
                 /\ Docs # {} /\ i \in DOMAIN view[s].work
                       /\ Id(view[s].work[i]) \in Ids(DOMAIN segments) => segments'[i].slot # Nil
           /\ \E v \in View :
                 /\ See(s, v) /\ v.hidden = view[s].hidden /\ v.raced = view[s].raced
                 /\ v.tombstones = view[s].tombstones
                 /\ v.due = view[s].due /\ v.settled = view[s].settled
<1>1. PICK loaded \in [DOMAIN view[s].work -> UNION {Loaded(view[s].work[i]) : i \in DOMAIN view[s].work}] :
          /\ \A i \in DOMAIN loaded : loaded[i] \in Loaded(view[s].work[i])
          /\ segments' = [i \in DOMAIN segments |->
                            IF i \in DOMAIN loaded /\ segments[i].slot = Nil
                            THEN [segments[i] EXCEPT !.slot = loaded[i]] ELSE segments[i]]
  BY DEF WriteBack
<1>2. view[s] \in View
  BY DEF Typed, SearchesTyped
<1>3. PICK D \in SUBSET Nat : view[s].work \in [D -> Segment]
  BY <1>2 DEF View, Work
<1>4. \A i \in DOMAIN loaded :
         /\ loaded[i] \in {Nil, view[s].work[i].copies} /\ loaded[i] \in Slot
         /\ Docs # {} /\ Id(view[s].work[i]) \in Ids(DOMAIN segments) => loaded[i] # Nil
  <2>1. ASSUME NEW i \in DOMAIN loaded
        PROVE  /\ loaded[i] \in {Nil, view[s].work[i].copies} /\ view[s].work[i].copies \in Copy
               /\ Id(view[s].work[i]) \in Ids(DOMAIN segments) => loaded[i] = view[s].work[i].copies
    BY <1>1, <1>3 DEF Loaded, Segment
  <2> QED
    BY <2>1, NotNil DEF Slot
<1>5. DOMAIN loaded = DOMAIN view[s].work
  BY <1>1
<1>6. ASSUME NEW i \in DOMAIN segments
      PROVE  /\ segments'[i] \in Segment
             /\ segments'[i].seq = segments[i].seq /\ segments'[i].level = segments[i].level
             /\ segments'[i].copies = segments[i].copies
             /\ \/ segments'[i].slot = segments[i].slot
                \/ i \in DOMAIN loaded /\ segments'[i].slot = loaded[i]
             /\ segments[i].slot # Nil => segments'[i].slot = segments[i].slot
             /\ i \in DOMAIN loaded /\ segments[i].slot = Nil => segments'[i].slot = loaded[i]
  <2>1. segments[i] \in Segment
    BY Positions
  <2>2. CASE i \in DOMAIN loaded /\ segments[i].slot = Nil
    <3>1. segments'[i] = [segments[i] EXCEPT !.slot = loaded[i]] /\ loaded[i] \in Slot
      BY <1>1, <1>4, <2>2
    <3> QED
      BY <2>1, <2>2, <3>1 DEF Segment
  <2>3. CASE ~ (i \in DOMAIN loaded /\ segments[i].slot = Nil)
    <3>1. segments'[i] = segments[i]
      BY <1>1, <2>3
    <3> QED
      BY <2>1, <2>3, <3>1
  <2> QED
    BY <2>2, <2>3
<1>7. segments' \in Seq(Segment) /\ DOMAIN segments' = DOMAIN segments
  <2>1. Len(segments) \in Nat /\ DOMAIN segments = 1 .. Len(segments)
    BY Positions
  <2>2. DOMAIN segments' = 1 .. Len(segments) /\ segments' = [i \in 1 .. Len(segments) |-> segments'[i]]
    BY <1>1, <2>1
  <2> QED
    BY <1>6, <2>1, <2>2
<1>8. \A i \in DOMAIN segments :
         /\ Id(segments'[i]) = Id(segments[i])
         /\ segments'[i].copies = segments[i].copies
         /\ \/ segments'[i].slot = segments[i].slot
            \/ /\ i \in DOMAIN view[s].work
               /\ segments'[i].slot \in {Nil, view[s].work[i].copies}
         /\ segments[i].slot # Nil => segments'[i].slot = segments[i].slot
         /\ Docs # {} /\ i \in DOMAIN view[s].work
               /\ Id(view[s].work[i]) \in Ids(DOMAIN segments) => segments'[i].slot # Nil
  BY <1>4, <1>5, <1>6 DEF Id
<1>9. \E v \in View :
         /\ See(s, v) /\ v.hidden = view[s].hidden /\ v.raced = view[s].raced
         /\ v.tombstones = view[s].tombstones
         /\ v.due = view[s].due /\ v.settled = view[s].settled
  <2> DEFINE v == [view[s] EXCEPT !.work = Nil]
  <2>1. /\ v \in View /\ v.hidden = view[s].hidden /\ v.raced = view[s].raced
        /\ v.tombstones = view[s].tombstones
        /\ v.due = view[s].due /\ v.settled = view[s].settled
    BY <1>2, NilTyped DEF View
  <2>2. See(s, v)
    BY DEF WriteBack
  <2> QED
    BY <2>1, <2>2
<1> QED
  BY <1>7, <1>8, <1>9

LEMMA WriteBackTyped == ASSUME Typed, NEW s \in Searchers, WriteBack(s) PROVE Typed'
<1>1. view' \in [Searchers -> View]
  <2>1. PICK v \in View : See(s, v)
    BY WriteBackEffect
  <2> QED
    BY <2>1, SeeEffect
<1>2. pc' \in [Searchers -> Labels]
  <2>1. "snapshot" \in Labels /\ Goto(s, "snapshot")
    BY DEF Labels, WriteBack
  <2> QED
    BY <2>1, GotoEffect
<1>3. segments' \in Seq(Segment)
  BY WriteBackEffect
<1>4. UNCHANGED <<written, writing, buffer, snapshot, dirty, inflight, tombstones, merge, cache,
                  moved, stray>>
  BY DEF WriteBack
<1> QED
  BY <1>1, <1>2, <1>3, <1>4
     DEF Typed, WritesTyped, BufferTyped, SegmentsTyped, SearchesTyped, written

LEMMA LoadFailsTyped == ASSUME Typed, NEW s \in Searchers, LoadFails(s) PROVE Typed'
<1>1. "idle" \in Labels /\ Goto(s, "idle") /\ See(s, NoView)
  BY DEF Labels, LoadFails, EndSearch
<1>2. UNCHANGED <<written, writing, shard, cache, moved, stray>>
  BY DEF LoadFails
<1> QED
  BY <1>1, <1>2, NoViewTyped, SearchStepTyped

\* A search takes the list and the snapshot as they are.
LEMMA TakeViewEffect ==
    ASSUME Typed, NEW s \in Searchers, TakeView(s)
    PROVE  /\ \E v \in View :
                 /\ See(s, v) /\ v.hidden = view[s].hidden /\ v.raced = view[s].raced
                 /\ v.tombstones = view[s].tombstones
                 /\ v.segments = segments /\ v.snapshot = snapshot
                 /\ v.settled = view[s].settled /\ v.due = NeedsSnapshot(view[s].due)
           /\ \E label \in {"rebuild", "evaluate"} :
                 Goto(s, label) /\ (label = "rebuild" <=> NeedsSnapshot(view[s].due))
<1>1. view[s] \in View
  BY DEF Typed, SearchesTyped
<1> DEFINE due == NeedsSnapshot(view[s].due)
           v == [view[s] EXCEPT !.segments = segments, !.snapshot = snapshot, !.due = due]
<1>2. due \in BOOLEAN
  BY <1>1 DEF NeedsSnapshot, Typed, BufferTyped, View
<1>3. See(s, v)
  BY DEF TakeView
<1> HIDE DEF due
<1>4. /\ v \in View /\ v.hidden = view[s].hidden /\ v.raced = view[s].raced
      /\ v.tombstones = view[s].tombstones
      /\ v.segments = segments /\ v.snapshot = snapshot
      /\ v.settled = view[s].settled /\ v.due = due
  BY <1>1, <1>2 DEF View, Typed, BufferTyped, SegmentsTyped
<1>5. \E label \in {"rebuild", "evaluate"} : Goto(s, label) /\ (label = "rebuild" <=> due)
  BY DEF TakeView, due
<1> QED
  BY <1>3, <1>4, <1>5 DEF due

LEMMA TakeViewTyped == ASSUME Typed, NEW s \in Searchers, TakeView(s) PROVE Typed'
<1>1. PICK v \in View : See(s, v)
  BY TakeViewEffect
<1>2. PICK label \in Labels : Goto(s, label)
  BY TakeViewEffect DEF Labels
<1>3. UNCHANGED <<written, writing, shard, cache, moved, stray>>
  BY DEF TakeView
<1> QED
  BY <1>1, <1>2, <1>3, SearchStepTyped

\* A rebuild makes the snapshot the buffer, or leaves it; the search takes it.
LEMMA RebuildEffect ==
    ASSUME Typed, NEW s \in Searchers, Rebuild(s)
    PROVE  /\ \/ snapshot' = buffer /\ dirty' = FALSE
              \/ UNCHANGED <<snapshot, dirty>> /\ ~ NeedsSnapshot(view[s].due)
           /\ \E v \in View :
                 /\ See(s, v) /\ v.hidden = view[s].hidden /\ v.raced = view[s].raced
                 /\ v.tombstones = view[s].tombstones /\ v.settled = view[s].settled
                 /\ v.segments = view[s].segments /\ v.snapshot = snapshot'
<1>1. view[s] \in View
  BY DEF Typed, SearchesTyped
<1>2. \/ snapshot' = buffer /\ dirty' = FALSE
      \/ UNCHANGED <<snapshot, dirty>> /\ ~ NeedsSnapshot(view[s].due)
  BY DEF Rebuild
<1>3. snapshot' \in Slot
  BY <1>2 DEF Typed, BufferTyped, Slot
<1> DEFINE v == [view[s] EXCEPT !.snapshot = snapshot', !.due = FALSE]
<1>4. See(s, v)
  BY DEF Rebuild
<1>5. /\ v \in View /\ v.hidden = view[s].hidden /\ v.raced = view[s].raced
      /\ v.tombstones = view[s].tombstones /\ v.settled = view[s].settled
      /\ v.segments = view[s].segments /\ v.snapshot = snapshot'
  BY <1>1, <1>3 DEF View
<1> QED
  BY <1>2, <1>4, <1>5

LEMMA RebuildTyped == ASSUME Typed, NEW s \in Searchers, Rebuild(s) PROVE Typed'
<1>1. view' \in [Searchers -> View]
  <2>1. PICK v \in View : See(s, v)
    BY RebuildEffect
  <2> QED
    BY <2>1, SeeEffect
<1>2. pc' \in [Searchers -> Labels]
  <2>1. "evaluate" \in Labels /\ Goto(s, "evaluate")
    BY DEF Labels, Rebuild
  <2> QED
    BY <2>1, GotoEffect
<1>3. snapshot' \in Slot /\ dirty' \in BOOLEAN
  BY RebuildEffect DEF Typed, BufferTyped, Slot
<1>4. UNCHANGED <<written, writing, buffer, inflight, segments, tombstones, merge, cache, moved, stray>>
  BY DEF Rebuild
<1> QED
  BY <1>1, <1>2, <1>3, <1>4
     DEF Typed, WritesTyped, BufferTyped, SegmentsTyped, SearchesTyped, written

\* Whatever is pruned and cut, a result is a hit of a source the search sees, in a
\* document that is not dead to it.
LEMMA EvaluateEffect ==
    ASSUME Typed, NEW s \in Searchers, Evaluate(s)
    PROVE  \E v \in View :
              /\ See(s, v) /\ v.hidden = view[s].hidden /\ v.raced = view[s].raced
              /\ v.tombstones = view[s].tombstones /\ v.segments = view[s].segments
              /\ \A h \in v.result :
                    /\ h.doc \notin Dead(view[s])
                    /\ \E i \in Active(view[s]) : Content(view[s], i)[h.doc] # 0
<1> DEFINE w == view[s]
           n == Fetch(w)
<1>1. w \in View
  BY DEF Typed, SearchesTyped
<1>2. ASSUME NEW i \in Active(w)
      PROVE  Content(w, i) \in Copy /\ Recency(w, i) \in Nat
  <2>1. CASE i = 0
    <3>1. 0 \notin DOMAIN w.segments
      BY <1>1 DEF View
    <3>2. w.snapshot # Nil
      BY <2>1, <3>1 DEF Active
    <3> QED
      BY <1>1, <2>1, <3>2, SearchAssumption DEF View, Slot, Content, Recency
  <2>2. CASE i # 0
    <3>1. i \in DOMAIN w.segments /\ w.segments[i].slot # Nil
      BY <2>2 DEF Active
    <3>2. w.segments[i] \in Segment
      BY <1>1, <3>1 DEF View
    <3> QED
      BY <2>2, <3>1, <3>2 DEF Segment, Slot, Content, Recency
  <2> QED
    BY <2>1, <2>2
<1>3. ASSUME NEW i \in Active(w), NEW h \in Hits(w, i)
      PROVE  h \in Hit /\ Content(w, i)[h.doc] # 0
  BY <1>2 DEF Hits, Hit, MatchingIn, Matches, Copy
<1>4. CASE Active(w) = {} /\ See(s, [w EXCEPT !.result = {}])
  <2>1. [w EXCEPT !.result = {}] \in View
    BY <1>1 DEF View
  <2>2. /\ [w EXCEPT !.result = {}].hidden = w.hidden
        /\ [w EXCEPT !.result = {}].raced = w.raced
        /\ [w EXCEPT !.result = {}].tombstones = w.tombstones
        /\ [w EXCEPT !.result = {}].segments = w.segments
        /\ [w EXCEPT !.result = {}].result = {}
    BY <1>1 DEF View
  <2> QED
    BY <1>4, <2>1, <2>2
<1>5. ASSUME NEW seed \in Active(w),
             LET found == Dedup(w, Searched(w, seed, n), n)
                 kept  == Filter(w, {h \in Top(found, n) : Alive(w, h)})
             IN  See(s, [w EXCEPT
                   !.result = Top(kept, TopK),
                   !.full   = \/ Searched(w, seed, n) # Active(w) \/ Cut(w, n)
                              \/ Cardinality(found) > n \/ Cardinality(kept) > TopK])
      PROVE  \E v \in View :
                /\ See(s, v) /\ v.hidden = w.hidden /\ v.raced = w.raced
                /\ v.tombstones = w.tombstones /\ v.segments = w.segments
                /\ \A h \in v.result : /\ h.doc \notin Dead(w)
                                       /\ \E i \in Active(w) : Content(w, i)[h.doc] # 0
  <2> DEFINE found == Dedup(w, Searched(w, seed, n), n)
             kept  == Filter(w, {h \in Top(found, n) : Alive(w, h)})
             best  == Top(kept, TopK)
             full  == \/ Searched(w, seed, n) # Active(w) \/ Cut(w, n)
                      \/ Cardinality(found) > n \/ Cardinality(kept) > TopK
             v     == [w EXCEPT !.result = best, !.full = full]
  <2>1. Searched(w, seed, n) \subseteq Active(w)
    BY DEF Searched
  <2>2. \A h \in found : \E i \in Active(w) : h \in Hits(w, i)
    BY <2>1 DEF Dedup, Top
  <2>3. \A h \in best : h \in found /\ h.doc \notin Dead(w)
    BY DEF Top, Filter, Alive
  <2>4. \A h \in best : /\ h \in Hit /\ h.doc \notin Dead(w)
                        /\ \E i \in Active(w) : Content(w, i)[h.doc] # 0
    <3> HIDE DEF found, best
    <3> QED
      BY <1>3, <2>2, <2>3
  <2>5. full \in BOOLEAN
    OBVIOUS
  <2>6. See(s, v)
    BY <1>5
  <2> HIDE DEF best, full
  <2>7. /\ v \in View /\ v.hidden = w.hidden /\ v.raced = w.raced
        /\ v.tombstones = w.tombstones /\ v.segments = w.segments /\ v.result = best
    BY <1>1, <2>4, <2>5 DEF View
  <2> QED
    BY <2>4, <2>6, <2>7
<1> QED
  BY <1>4, <1>5 DEF Evaluate

LEMMA EvaluateTyped == ASSUME Typed, NEW s \in Searchers, Evaluate(s) PROVE Typed'
<1>1. PICK v \in View : See(s, v)
  BY EvaluateEffect
<1>2. "fill" \in Labels /\ Goto(s, "fill")
  BY DEF Labels, Evaluate
<1>3. UNCHANGED <<written, writing, shard, cache, moved, stray>>
  BY DEF Evaluate
<1> QED
  BY <1>1, <1>2, <1>3, SearchStepTyped

LEMMA FillTyped == ASSUME Typed, NEW s \in Searchers, Fill(s) PROVE Typed'
<1>1. view' \in [Searchers -> View] /\ pc' \in [Searchers -> Labels]
  <2>1. "idle" \in Labels /\ Goto(s, "idle") /\ See(s, NoView)
    BY DEF Labels, Fill, EndSearch
  <2> QED
    BY <2>1, NoViewTyped, SeeEffect, GotoEffect
<1>2. cache' \in {Nil} \cup [hits : SUBSET [doc : Docs, version : Nat], raced : BOOLEAN]
  <2> DEFINE hits  == {[doc |-> h.doc, version |-> h.version] : h \in view[s].result}
             racing == view[s].raced \/ writing # Nil
  <2>1. hits \in SUBSET [doc : Docs, version : Nat]
    BY DEF Typed, SearchesTyped, View, Hit
  <2>2. racing \in BOOLEAN
    BY DEF Typed, SearchesTyped, View
  <2>3. cache' = cache \/ cache' = [hits |-> hits, raced |-> racing]
    BY DEF Fill
  <2> HIDE DEF hits, racing
  <2> QED
    BY <2>1, <2>2, <2>3 DEF Typed, SearchesTyped
<1>3. UNCHANGED <<written, writing, shard, moved, stray>>
  BY DEF Fill
<1> QED
  BY <1>1, <1>2, <1>3
     DEF Typed, WritesTyped, BufferTyped, SegmentsTyped, SearchesTyped, written, shard

LEMMA NextTyped == Typed /\ [Next]_vars => Typed'
<1> SUFFICES ASSUME Typed, [Next]_vars PROVE Typed'
  OBVIOUS
<1>1. ASSUME NEW s \in Searchers, SearchStep(s) PROVE Typed'
  BY <1>1, BeginTyped, WriteBackTyped, LoadFailsTyped, TakeViewTyped, RebuildTyped,
     EvaluateTyped, FillTyped DEF SearchStep
<1>2. CASE UNCHANGED vars
  BY <1>2 DEF vars, written, shard, Typed, WritesTyped, BufferTyped, SegmentsTyped, SearchesTyped
<1> QED
  BY <1>1, <1>2, InvalidateTyped, IndexTyped, DeleteTyped, ResetTyped, FlushTyped, PublishTyped,
     StartMergeTyped, PurgeTyped, CommitTyped DEF Next

-----------------------------------------------------------------------------
(* The inductive invariants.                                               *)

\* A snapshot that is not marked as behind is the buffer, and no snapshot is ahead.
SnapshotInv ==
    /\ \A d \in Docs : buffer[d] <= clock
    /\ snapshot # Nil => /\ ~ dirty => snapshot = buffer
                         /\ \A d \in Docs : snapshot[d] <= buffer[d]

SlotsFit == \A i \in DOMAIN segments : segments[i].slot \in {Nil, segments[i].copies}

\* A search that loads has the segments of the list at the positions it knows.
WorkFits ==
    \A s \in Searchers : pc[s] = "load" =>
       \A i \in DOMAIN view[s].work :
          /\ i \in DOMAIN segments /\ view[s].work[i].copies = segments[i].copies
          /\ Id(view[s].work[i]) = Id(segments[i])

OutputFits == merge # Nil => merge.out.slot = merge.out.copies

SlotInv == moved \/ (SlotsFit /\ WorkFits /\ OutputFits)

\* Nothing the shard holds, or is about to, has a copy of d.
Emptied(d) ==
    /\ buffer[d] = 0
    /\ \A b \in inflight : b.copies[d] = 0
    /\ \A i \in DOMAIN segments : segments[i].copies[d] = 0
    /\ merge # Nil => merge.out.copies[d] = 0

\* Nothing the search looks at has a copy of d.
Unseen(s, d) ==
    /\ \A i \in DOMAIN view[s].segments :
          view[s].segments[i].slot # Nil => view[s].segments[i].slot[d] = 0
    /\ pc[s] = "evaluate" /\ view[s].snapshot # Nil => view[s].snapshot[d] = 0

\* A document a search must not show has a tombstone for that search, or no copy.
Hides(s) ==
    /\ pc[s] \in {"load", "snapshot"} =>
          /\ view[s].tombstones = Nil
          /\ \A d \in view[s].hidden : d \in tombstones \/ Emptied(d)
    /\ pc[s] \in {"rebuild", "evaluate"} =>
          \A d \in view[s].hidden : d \in Dead(view[s]) \/ (Emptied(d) /\ Unseen(s, d))
    /\ pc[s] = "fill" => \A h \in view[s].result : h.doc \notin view[s].hidden

HiddenInv == moved \/ \A s \in Searchers : Hides(s)

\* Deleted, without a tombstone, and not because a merge overlooked a copy.
Gone(d) == latest[d] = 0 /\ d \notin tombstones /\ d \notin stray

\* Such a document has copies in the inputs of a merge that has purged, if at all.
GoneInv ==
    \A d \in Docs : Gone(d) =>
       /\ buffer[d] = 0
       /\ \A b \in inflight : b.copies[d] = 0
       /\ merge # Nil => merge.out.copies[d] = 0
       /\ \A i \in DOMAIN segments : segments[i].copies[d] # 0 =>
             Purging /\ Id(segments[i]) \in merge.inputs

\* A search that met no write and no purge does not see it.
Sound(s) ==
    pc[s] # "idle" /\ ~ view[s].raced =>
       /\ view[s].tombstones = Nil
       /\ \A d \in Docs : Gone(d) =>
             /\ \A i \in DOMAIN segments : segments[i].copies[d] = 0
             /\ pc[s] \in {"rebuild", "evaluate"} => Unseen(s, d)
       /\ pc[s] = "fill" => \A h \in view[s].result : latest[h.doc] # 0 \/ h.doc \in stray

UnracedInv == \A s \in Searchers : Sound(s)

\* Nothing has been written since an entry that met no write was made.
CacheInv ==
    cache # Nil /\ ~ cache.raced =>
       /\ writing = Nil
       /\ \A h \in cache.hits : latest[h.doc] # 0 \/ h.doc \in stray

LiveInv == moved \/ (GoneInv /\ UnracedInv /\ CacheInv)

-----------------------------------------------------------------------------
(* The snapshot of the buffer.                                             *)

LEMMA SnapshotKept ==
    ASSUME SnapshotInv, UNCHANGED <<clock, buffer, snapshot, dirty>> PROVE SnapshotInv'
BY DEF SnapshotInv

\* A buffer that was taken leaves none of its contents in a snapshot.
LEMMA TakeBufferSnapshot ==
    ASSUME TakeBuffer, clock' \in Nat PROVE SnapshotInv'
BY DEF TakeBuffer, SnapshotInv, NoCopies

LEMMA IndexSnapshot == ASSUME Typed, SnapshotInv, IndexDocument PROVE SnapshotInv'
<1>1. PICK score \in Scores :
         /\ Write("index", score)
         /\ \/ /\ buffer' = [buffer EXCEPT ![writing.doc] = clock + 1] /\ dirty' = TRUE
               /\ snapshot' = snapshot
            \/ TakeBuffer
  BY DEF IndexDocument
<1>2. writing.doc \in Docs /\ clock' = clock + 1 /\ clock' \in Nat
  BY <1>1, WriteEffect
<1>3. CASE TakeBuffer
  BY <1>2, <1>3, TakeBufferSnapshot
<1>4. CASE /\ buffer' = [buffer EXCEPT ![writing.doc] = clock + 1] /\ dirty' = TRUE
           /\ snapshot' = snapshot
  <2>1. clock \in Nat /\ buffer \in Copy /\ snapshot \in Slot
    BY DEF Typed, WritesTyped, BufferTyped
  <2>2. \A d \in Docs : buffer[d] \in Nat /\ buffer[d] <= clock
    BY <2>1 DEF SnapshotInv, Copy
  <2>3. \A d \in Docs : buffer'[d] = IF d = writing.doc THEN clock + 1 ELSE buffer[d]
    BY <1>4, <2>1 DEF Copy
  <2>4. \A d \in Docs : buffer'[d] <= clock' /\ buffer'[d] >= buffer[d]
    BY <1>2, <2>1, <2>2, <2>3
  <2>5. ASSUME snapshot' # Nil PROVE \A d \in Docs : snapshot'[d] <= buffer'[d]
    <3>1. \A d \in Docs : snapshot'[d] \in Nat /\ snapshot'[d] <= buffer[d]
      BY <1>4, <2>1, <2>5 DEF SnapshotInv, Slot, Copy
    <3> QED
      BY <2>2, <2>3, <2>4, <3>1, <2>1
  <2> QED
    BY <1>4, <2>4, <2>5 DEF SnapshotInv
<1> QED
  BY <1>1, <1>3, <1>4

LEMMA NextSnapshot == Typed /\ SnapshotInv /\ [Next]_vars => SnapshotInv'
<1> SUFFICES ASSUME Typed, SnapshotInv, [Next]_vars PROVE SnapshotInv'
  OBVIOUS
<1>1. clock \in Nat
  BY DEF Typed, WritesTyped
<1>2. CASE Reset
  <2>1. clock' \in Nat /\ TakeBuffer
    BY <1>2, WriteEffect DEF Reset
  <2> QED
    BY <2>1, TakeBufferSnapshot
<1>3. CASE Flush
  <2>1. clock' \in Nat /\ TakeBuffer
    BY <1>1, <1>3 DEF Flush, written
  <2> QED
    BY <2>1, TakeBufferSnapshot
<1>4. CASE DeleteDocument
  <2>1. clock' = clock + 1 /\ UNCHANGED <<buffer, snapshot, dirty>>
    BY <1>4, WriteEffect DEF DeleteDocument
  <2>2. \A d \in Docs : buffer[d] \in Nat
    BY DEF Typed, BufferTyped, Copy
  <2> QED
    BY <1>1, <2>1, <2>2 DEF SnapshotInv
<1>5. ASSUME NEW s \in Searchers, Rebuild(s) PROVE SnapshotInv'
  <2>1. \/ snapshot' = buffer /\ dirty' = FALSE
        \/ UNCHANGED <<snapshot, dirty>>
    BY <1>5, RebuildEffect
  <2>2. UNCHANGED <<clock, buffer>> /\ \A d \in Docs : buffer[d] \in Nat
    BY <1>5 DEF Rebuild, written, Typed, BufferTyped, Copy
  <2> QED
    BY <2>1, <2>2 DEF SnapshotInv
<1>6. Invalidate \/ Publish \/ StartMerge \/ PurgeTombstones \/ CommitMerge
        => UNCHANGED <<clock, buffer, snapshot, dirty>>
  BY DEF Invalidate, Publish, StartMerge, PurgeTombstones, CommitMerge, written, shard
<1>7. ASSUME NEW s \in Searchers, SearchStep(s), ~ Rebuild(s)
      PROVE  UNCHANGED <<clock, buffer, snapshot, dirty>>
  BY <1>7 DEF SearchStep, BeginSearch, WriteBack, LoadFails, TakeView, Evaluate, Fill, written, shard
<1>8. CASE UNCHANGED vars
  BY <1>8, SnapshotKept DEF vars, written, shard
<1> QED
  BY <1>2, <1>3, <1>4, <1>5, <1>6, <1>7, <1>8, IndexSnapshot, SnapshotKept DEF Next

\* The snapshot that all searches share shows the buffer, or is due to be rebuilt,
\* and never shows more than the buffer has (search.go Search, needsSnapshotLocked):
\* no flush, swap or reset leaves the contents of an old buffer in it.
THEOREM SnapshotIsCurrent == Spec => []SnapshotFollowsBuffer
<1>1. Init => SnapshotInv
  BY DEF Init, SnapshotInv, NoCopies, Nil
<1>2. Typed /\ SnapshotInv => SnapshotFollowsBuffer
  BY DEF SnapshotInv, SnapshotFollowsBuffer, Copies, Typed, BufferTyped, Slot, Copy
<1> QED
  BY <1>1, <1>2, InitTyped, NextTyped, NextSnapshot, PTL DEF Spec

-----------------------------------------------------------------------------
(* The slots of the list.                                                  *)

LEMMA MovedStays == [Next]_vars /\ moved => moved'
BY DEF Next, vars, Invalidate, IndexDocument, DeleteDocument, Reset, Flush, Publish, StartMerge,
       PurgeTombstones, CommitMerge, SearchStep, BeginSearch, WriteBack, LoadFails, TakeView,
       Rebuild, Evaluate, Fill

\* A flush appends a segment.
LEMMA AppendEffect ==
    ASSUME Typed, NEW e \in Segment, segments' = Append(segments, e)
    PROVE  /\ \A i \in DOMAIN segments : i \in DOMAIN segments' /\ segments'[i] = segments[i]
           /\ \A i \in DOMAIN segments' : i \in DOMAIN segments \/ segments'[i] = e
BY DEF Typed, SegmentsTyped

\* The segment a flush appends, and what it was made of.
LEMMA FlushEffect ==
    ASSUME Typed, Flush \/ Publish
    PROVE  \E e \in Segment :
              /\ segments' = Append(segments, e) /\ e.slot = Nil
              /\ \/ e.copies = buffer
                 \/ \E b \in inflight : e.copies = b.copies
<1>1. CASE Flush
  <2>1. Unloaded(clock, buffer) \in Segment
    BY DEF Unloaded, Segment, Slot, Typed, WritesTyped, BufferTyped
  <2>2. Unloaded(clock, buffer).slot = Nil /\ Unloaded(clock, buffer).copies = buffer
    BY DEF Unloaded
  <2> QED
    BY <1>1, <2>1, <2>2 DEF Flush
<1>2. CASE Publish
  <2>1. PICK b \in inflight : segments' = Append(segments, Unloaded(b.seq, b.copies))
    BY <1>2 DEF Publish
  <2>2. Unloaded(b.seq, b.copies) \in Segment
    BY DEF Unloaded, Segment, Slot, Typed, BufferTyped
  <2>3. Unloaded(b.seq, b.copies).slot = Nil /\ Unloaded(b.seq, b.copies).copies = b.copies
    BY DEF Unloaded
  <2> QED
    BY <2>1, <2>2, <2>3
<1> QED
  BY <1>1, <1>2

\* Searches that load keep what they know, and the list keeps its segments.
LEMMA WorkKept ==
    ASSUME WorkFits,
           \A s \in Searchers : pc'[s] = "load" => pc[s] = "load" /\ view'[s].work = view[s].work,
           \A i \in DOMAIN segments :
              /\ i \in DOMAIN segments' /\ segments'[i].copies = segments[i].copies
              /\ Id(segments'[i]) = Id(segments[i])
    PROVE  WorkFits'
BY DEF WorkFits, Id

\* The step of one search leaves the work of the others.
LEMMA OthersKeepWork ==
    ASSUME Typed, NEW s \in Searchers, NEW v \in View, See(s, v),
           NEW label \in Labels \ {"load"}, Goto(s, label)
    PROVE  \A t \in Searchers : pc'[t] = "load" => pc[t] = "load" /\ view'[t].work = view[t].work
BY SeeEffect, GotoEffect

LEMMA WriteSlot ==
    ASSUME Typed, SlotInv, ~ moved, IndexDocument \/ DeleteDocument PROVE SlotInv'
<1>1. UNCHANGED <<segments, merge, pc>>
  BY DEF IndexDocument, DeleteDocument
<1>2. \E miss \in SUBSET Docs, show \in SUBSET Docs : Observe(miss, show)
  <2>1. CASE IndexDocument
    <3>1. PICK score \in Scores, miss \in SUBSET Docs :
             Write("index", score) /\ Observe(miss, {writing.doc})
      <4>1. ASSUME NEW score \in Scores, Write("index", score) PROVE {writing.doc} \in SUBSET Docs
        BY <4>1, WriteEffect
      <4> QED
        BY <2>1, <4>1 DEF IndexDocument, Copies
    <3>2. {writing.doc} \in SUBSET Docs
      BY <3>1, WriteEffect
    <3> QED
      BY <3>1, <3>2
  <2>2. CASE DeleteDocument
    <3>1. writing.doc \in Docs /\ Observe({writing.doc}, {})
      BY <2>2, WriteEffect DEF DeleteDocument
    <3> QED
      BY <3>1
  <2> QED
    BY <2>1, <2>2
<1>3. \A s \in Searchers : view'[s].work = view[s].work
  BY <1>2, ObserveEffect
<1> QED
  BY <1>1, <1>3, WorkKept DEF SlotInv, SlotsFit, OutputFits

LEMMA FlushSlot ==
    ASSUME Typed, SlotInv, ~ moved, Flush \/ Publish PROVE SlotInv'
<1>1. PICK e \in Segment : segments' = Append(segments, e) /\ e.slot = Nil
  BY FlushEffect
<1>2. UNCHANGED <<merge, pc>>
  BY DEF Flush, Publish
<1>3. \A s \in Searchers : view'[s].work = view[s].work
  <2>1. CASE Flush
    <3>1. Copies(buffer) \in SUBSET Docs /\ {} \in SUBSET Docs /\ Observe(Copies(buffer), {})
      BY <2>1 DEF Flush, Copies
    <3> QED
      BY <3>1, ObserveEffect
  <2>2. CASE Publish
    BY <2>2 DEF Publish
  <2> QED
    BY <2>1, <2>2
<1>4. /\ \A i \in DOMAIN segments : i \in DOMAIN segments' /\ segments'[i] = segments[i]
      /\ \A i \in DOMAIN segments' : i \in DOMAIN segments \/ segments'[i] = e
  BY <1>1, AppendEffect
<1>5. SlotsFit'
  BY <1>1, <1>4 DEF SlotInv, SlotsFit
<1>6. WorkFits'
  BY <1>2, <1>3, <1>4, WorkKept DEF SlotInv
<1>7. OutputFits'
  BY <1>2 DEF SlotInv, OutputFits
<1> QED
  BY <1>5, <1>6, <1>7 DEF SlotInv

\* A reset or a merge's exchange finds no search that loads, or the list counts as cut.
LEMMA CutSlot ==
    ASSUME Typed, SlotInv, ~ moved, Reset \/ CommitMerge PROVE SlotInv'
<1>1. CASE Loading
  BY <1>1 DEF Reset, CommitMerge, SlotInv
<1>2. CASE ~ Loading
  <2>1. WorkFits'
    BY <1>2 DEF Reset, CommitMerge, Loading, WorkFits
  <2>2. CASE Reset
    <3>1. segments' = <<>> /\ merge' = merge
      BY <2>2 DEF Reset
    <3> QED
      BY <2>1, <3>1 DEF SlotInv, SlotsFit, OutputFits
  <2>3. CASE CommitMerge
    <3>1. merge # Nil /\ merge' = Nil
      BY <2>3 DEF CommitMerge
    <3>2. SlotsFit'
      BY <2>3, <3>1, CommitEffect DEF SlotInv, SlotsFit, OutputFits
    <3> QED
      BY <2>1, <3>1, <3>2 DEF SlotInv, OutputFits
  <2> QED
    BY <2>2, <2>3
<1> QED
  BY <1>1, <1>2

LEMMA MergeSlot ==
    ASSUME Typed, SlotInv, ~ moved, StartMerge \/ PurgeTombstones PROVE SlotInv'
<1>1. UNCHANGED <<segments, pc>>
  BY DEF StartMerge, PurgeTombstones
<1>2. \A s \in Searchers : view'[s].work = view[s].work
  BY PurgeView DEF StartMerge
<1>3. OutputFits'
  <2>1. CASE StartMerge
    BY <2>1, StartMergeEffect DEF OutputFits
  <2>2. CASE PurgeTombstones
    <3>1. merge \in Merge /\ merge' = [merge EXCEPT !.purged = TRUE] /\ merge # Nil
      BY <2>2 DEF PurgeTombstones, Typed, SegmentsTyped
    <3> QED
      BY <3>1 DEF Merge, OutputFits, SlotInv
  <2> QED
    BY <2>1, <2>2
<1> QED
  BY <1>1, <1>2, <1>3, WorkKept DEF SlotInv, SlotsFit

LEMMA SearchSlot ==
    ASSUME Typed, SlotInv, ~ moved, NEW s \in Searchers, SearchStep(s) PROVE SlotInv'
<1>1. CASE BeginSearch(s)
  <2>1. PICK v \in View :
           /\ See(s, v)
           /\ v.work = [i \in {j \in DOMAIN segments : segments[j].slot = Nil} |-> segments[i]]
    BY <1>1, BeginEffect
  <2>2. UNCHANGED <<segments, merge>> /\ Goto(s, "load") /\ "load" \in Labels
    BY <1>1 DEF BeginSearch, shard, Labels
  <2>3. \A i \in DOMAIN view'[s].work :
           /\ i \in DOMAIN segments' /\ view'[s].work[i].copies = segments'[i].copies
           /\ Id(view'[s].work[i]) = Id(segments'[i])
    BY <2>1, <2>2, SeeEffect DEF Id
  <2>4. \A t \in Searchers \ {s} : pc'[t] = pc[t] /\ view'[t] = view[t]
    BY <2>1, <2>2, SeeEffect, GotoEffect
  <2> QED
    BY <2>2, <2>3, <2>4 DEF SlotInv, SlotsFit, OutputFits, WorkFits, Id
<1>2. CASE WriteBack(s)
  <2>1. /\ DOMAIN segments' = DOMAIN segments
        /\ \A i \in DOMAIN segments :
              /\ segments'[i].copies = segments[i].copies /\ Id(segments'[i]) = Id(segments[i])
              /\ \/ segments'[i].slot = segments[i].slot
                 \/ i \in DOMAIN view[s].work /\ segments'[i].slot \in {Nil, view[s].work[i].copies}
    BY <1>2, WriteBackEffect
  <2>2. pc[s] = "load" /\ merge' = merge /\ Goto(s, "snapshot") /\ "snapshot" \in Labels \ {"load"}
    BY <1>2 DEF WriteBack, Labels
  <2>3. SlotsFit'
    BY <2>1, <2>2 DEF SlotInv, SlotsFit, WorkFits
  <2>4. PICK v \in View : See(s, v)
    BY <1>2, WriteBackEffect
  <2>5. WorkFits'
    BY <2>1, <2>2, <2>4, OthersKeepWork, WorkKept DEF SlotInv
  <2> QED
    BY <2>2, <2>3, <2>5 DEF SlotInv, OutputFits
<1>3. CASE LoadFails(s) \/ TakeView(s) \/ Rebuild(s) \/ Evaluate(s) \/ Fill(s)
  <2>1. UNCHANGED <<segments, merge>>
    BY <1>3 DEF LoadFails, TakeView, Rebuild, Evaluate, Fill, shard
  <2>2. PICK v \in View : See(s, v)
    BY <1>3, TakeViewEffect, RebuildEffect, EvaluateEffect, NoViewTyped
       DEF LoadFails, Fill, EndSearch
  <2>3. PICK label \in Labels \ {"load"} : Goto(s, label)
    BY <1>3 DEF LoadFails, TakeView, Rebuild, Evaluate, Fill, EndSearch, Labels
  <2> QED
    BY <2>1, <2>2, <2>3, OthersKeepWork, WorkKept DEF SlotInv, SlotsFit, OutputFits
<1> QED
  BY <1>1, <1>2, <1>3 DEF SearchStep

LEMMA NextSlot == Typed /\ SlotInv /\ [Next]_vars => SlotInv'
<1> SUFFICES ASSUME Typed, SlotInv, [Next]_vars, ~ moved PROVE SlotInv'
  BY MovedStays DEF SlotInv
<1>1. CASE Invalidate \/ UNCHANGED vars
  <2>1. UNCHANGED <<segments, merge, pc, view>>
    BY <1>1 DEF Invalidate, vars, shard
  <2> QED
    BY <2>1 DEF SlotInv, SlotsFit, WorkFits, OutputFits
<1> QED
  BY <1>1, WriteSlot, FlushSlot, CutSlot, MergeSlot, SearchSlot DEF Next

\* Every slot of the segment list is empty or holds the segment its record names,
\* although slots are filled by positions that were read before the load
\* (search.go loadNilSegments) -- as long as no reset and no merge cuts the list
\* while a search loads.
THEOREM SlotsAreFilledRight == Spec => []SlotsHoldTheirSegments
<1>1. Init => SlotInv
  BY DEF Init, SlotInv, SlotsFit, WorkFits, OutputFits
<1>2. SlotInv => SlotsHoldTheirSegments
  BY DEF SlotInv, SlotsFit, SlotsHoldTheirSegments
<1> QED
  BY <1>1, <1>2, InitTyped, NextTyped, NextSlot, PTL DEF Spec
-----------------------------------------------------------------------------
(* Deleted documents stay hidden.                                          *)

\* What a document that is nowhere needs to stay so: only a write brings copies.
LEMMA EmptiedByAppend ==
    ASSUME Typed, NEW d \in Docs, Emptied(d), Flush \/ Publish PROVE Emptied(d)'
<1>1. PICK e \in Segment :
         /\ segments' = Append(segments, e)
         /\ e.copies = buffer \/ \E b \in inflight : e.copies = b.copies
  BY FlushEffect
<1>2. \A i \in DOMAIN segments' : \/ i \in DOMAIN segments /\ segments'[i] = segments[i]
                                  \/ segments'[i] = e
  BY <1>1, AppendEffect
<1>3. e.copies[d] = 0
  BY <1>1 DEF Emptied
<1>4. \A i \in DOMAIN segments' : segments'[i].copies[d] = 0
  BY <1>2, <1>3 DEF Emptied
<1>5. buffer'[d] = 0 /\ inflight' \subseteq inflight /\ merge' = merge
  BY DEF Flush, Publish, TakeBuffer, NoCopies, Emptied
<1> QED
  BY <1>4, <1>5 DEF Emptied

LEMMA EmptiedByMerge ==
    ASSUME Typed, NEW d \in Docs, Emptied(d), StartMerge \/ PurgeTombstones \/ CommitMerge
    PROVE  Emptied(d)'
<1>1. UNCHANGED <<buffer, inflight>>
  BY DEF StartMerge, PurgeTombstones, CommitMerge
<1>2. CASE StartMerge
  <2>1. merge'.out.copies[d] = 0
    BY <1>2, StartMergeEffect DEF Emptied
  <2>2. UNCHANGED segments
    BY <1>2 DEF StartMerge
  <2> QED
    BY <1>1, <2>1, <2>2 DEF Emptied
<1>3. CASE PurgeTombstones
  <2>1. merge # Nil /\ merge \in Merge /\ merge' = [merge EXCEPT !.purged = TRUE] /\ UNCHANGED segments
    BY <1>3 DEF PurgeTombstones, Typed, SegmentsTyped
  <2>2. merge'.out = merge.out
    BY <2>1 DEF Merge
  <2> QED
    BY <1>1, <2>1, <2>2 DEF Emptied
<1>4. CASE CommitMerge
  <2>1. merge # Nil /\ merge' = Nil
    BY <1>4 DEF CommitMerge
  <2>2. \A i \in DOMAIN segments' : segments'[i].copies[d] = 0
    BY <1>4, <2>1, CommitEffect DEF Emptied
  <2> QED
    BY <1>1, <2>1, <2>2 DEF Emptied
<1> QED
  BY <1>2, <1>3, <1>4

LEMMA EmptiedBySearch ==
    ASSUME Typed, NEW d \in Docs, Emptied(d), NEW s \in Searchers, SearchStep(s)
    PROVE  Emptied(d)'
<1>1. UNCHANGED <<buffer, inflight, merge>>
  BY DEF SearchStep, BeginSearch, WriteBack, LoadFails, TakeView, Rebuild, Evaluate, Fill, shard
<1>2. CASE WriteBack(s)
  BY <1>1, <1>2, WriteBackEffect DEF Emptied
<1>3. CASE ~ WriteBack(s)
  <2>1. UNCHANGED segments
    BY <1>3 DEF SearchStep, BeginSearch, LoadFails, TakeView, Rebuild, Evaluate, Fill, shard
  <2> QED
    BY <1>1, <2>1 DEF Emptied
<1> QED
  BY <1>2, <1>3

LEMMA EmptiedByReset ==
    ASSUME Typed, Reset, merge = Nil, NEW d \in Docs PROVE Emptied(d)'
<1>1. buffer' = NoCopies /\ inflight = {} /\ segments' = <<>> /\ UNCHANGED <<inflight, merge>>
  BY DEF Reset, TakeBuffer
<1> QED
  BY <1>1 DEF NoCopies, Emptied

\* A step of the shard keeps what a search hides, if the document keeps its
\* tombstone or goes.
LEMMA HidesKept ==
    ASSUME NEW s \in Searchers, Hides(s), pc'[s] = pc[s],
           view'[s].segments = view[s].segments, view'[s].snapshot = view[s].snapshot,
           view'[s].result = view[s].result,
           pc[s] \in {"load", "snapshot"} => view'[s].tombstones = view[s].tombstones,
           view'[s].hidden \subseteq view[s].hidden,
           \A d \in view'[s].hidden : Emptied(d) => Emptied(d)',
           pc[s] \in {"load", "snapshot"} =>
              \A d \in view'[s].hidden : d \in tombstones => d \in tombstones' \/ Emptied(d)',
           pc[s] \in {"rebuild", "evaluate"} =>
              \A d \in view'[s].hidden : d \in Dead(view[s]) => d \in Dead(view[s])'
    PROVE  Hides(s)'
<1>1. \A d \in view'[s].hidden : Unseen(s, d) => Unseen(s, d)'
  BY DEF Unseen
<1>2. pc'[s] \in {"load", "snapshot"} =>
         /\ view'[s].tombstones = Nil
         /\ \A d \in view'[s].hidden : d \in tombstones' \/ Emptied(d)'
  BY DEF Hides
<1>3. pc'[s] \in {"rebuild", "evaluate"} =>
         \A d \in view'[s].hidden : d \in Dead(view[s])' \/ (Emptied(d)' /\ Unseen(s, d)')
  BY <1>1 DEF Hides
<1>4. pc'[s] = "fill" => \A h \in view'[s].result : h.doc \notin view'[s].hidden
  BY DEF Hides
<1> QED
  BY <1>2, <1>3, <1>4 DEF Hides

LEMMA WriteHides ==
    ASSUME Typed, HiddenInv, ~ moved, IndexDocument \/ DeleteDocument, NEW s \in Searchers
    PROVE  Hides(s)'
<1>1. UNCHANGED <<segments, merge, pc>> /\ writing.doc \in Docs
  BY WriteEffect DEF IndexDocument, DeleteDocument
<1>2. PICK show \in SUBSET Docs :
         /\ \E miss \in SUBSET Docs : Observe(miss, show)
         /\ \/ IndexDocument /\ show = {writing.doc}
            \/ DeleteDocument /\ show = {}
  BY <1>1 DEF IndexDocument, DeleteDocument, Copies
<1>3. /\ view'[s].segments = view[s].segments /\ view'[s].snapshot = view[s].snapshot
      /\ view'[s].tombstones = view[s].tombstones /\ view'[s].result = view[s].result
      /\ view'[s].hidden = view[s].hidden \ show /\ view'[s] \in View
  BY <1>2, ObserveEffect
<1>4. \A d \in view'[s].hidden : d \in tombstones => d \in tombstones'
  BY <1>2, <1>3 DEF IndexDocument, DeleteDocument
<1>5. \A d \in view'[s].hidden : d \in Docs /\ d \notin show
  BY <1>3 DEF View
<1>6. ASSUME NEW d \in view'[s].hidden, Emptied(d) PROVE Emptied(d)'
  <2>1. CASE DeleteDocument
    BY <1>1, <1>6, <2>1 DEF DeleteDocument, Emptied
  <2>2. CASE IndexDocument /\ show = {writing.doc}
    <3>1. d \in Docs /\ d # writing.doc
      BY <1>5, <2>2
    <3>2. \/ /\ buffer' = [buffer EXCEPT ![writing.doc] = clock + 1]
             /\ inflight' = inflight
          \/ /\ buffer' = NoCopies
             /\ inflight' = inflight \cup
                    {[seq |-> clock + 1, copies |-> [buffer EXCEPT ![writing.doc] = clock + 1]]}
      BY <2>2 DEF IndexDocument, TakeBuffer
    <3> DEFINE new == [buffer EXCEPT ![writing.doc] = clock + 1]
    <3>3. new[d] = 0
      BY <1>6, <3>1 DEF Emptied, Typed, BufferTyped, Copy
    <3>4. NoCopies[d] = 0
      BY <3>1 DEF NoCopies
    <3>5. buffer'[d] = 0
      BY <3>2, <3>3, <3>4
    <3>6. ASSUME NEW b \in inflight' PROVE b.copies[d] = 0
      <4>1. \/ b \in inflight
            \/ b = [seq |-> clock + 1, copies |-> new]
        BY <3>2
      <4>2. \A c \in inflight : c.copies[d] = 0
        BY <1>6 DEF Emptied
      <4> HIDE DEF new
      <4>3. b \notin inflight => b.copies = new
        BY <4>1
      <4> QED
        BY <3>3, <4>2, <4>3
    <3> QED
      BY <1>1, <1>6, <3>5, <3>6 DEF Emptied
  <2> QED
    BY <1>2, <2>1, <2>2
<1> QED
  BY <1>1, <1>3, <1>4, <1>6, HidesKept DEF HiddenInv, Dead

LEMMA FlushHides ==
    ASSUME Typed, HiddenInv, ~ moved, Flush \/ Publish, NEW s \in Searchers
    PROVE  Hides(s)'
<1>1. UNCHANGED <<tombstones, pc>>
  BY DEF Flush, Publish
<1>2. /\ view'[s].segments = view[s].segments /\ view'[s].snapshot = view[s].snapshot
      /\ view'[s].tombstones = view[s].tombstones /\ view'[s].result = view[s].result
      /\ view'[s].hidden \subseteq view[s].hidden
  <2>1. CASE Flush
    <3>1. Copies(buffer) \in SUBSET Docs /\ {} \in SUBSET Docs /\ Observe(Copies(buffer), {})
      BY <2>1 DEF Flush, Copies
    <3> QED
      BY <3>1, ObserveEffect
  <2>2. CASE Publish
    BY <2>2 DEF Publish
  <2> QED
    BY <2>1, <2>2
<1>3. \A d \in view'[s].hidden : d \in Docs
  BY <1>2 DEF Typed, SearchesTyped, View
<1>4. \A d \in view'[s].hidden : Emptied(d) => Emptied(d)'
  BY <1>3, EmptiedByAppend
<1> QED
  BY <1>1, <1>2, <1>4, HidesKept DEF HiddenInv, Dead

\* A reset drops the tombstones with everything they were for.
LEMMA ResetHides ==
    ASSUME Typed, HiddenInv, ~ moved', Reset, NEW s \in Searchers
    PROVE  Hides(s)'
<1>1. merge = Nil /\ ~ moved /\ UNCHANGED pc
  BY DEF Reset
<1>2. /\ view'[s].segments = view[s].segments /\ view'[s].snapshot = view[s].snapshot
      /\ view'[s].result = view[s].result /\ view'[s].hidden = view[s].hidden
      /\ view'[s].tombstones = IF pc[s] \in {"rebuild", "evaluate"} /\ view[s].tombstones = Nil
                               THEN <<tombstones>> ELSE view[s].tombstones
  BY ResetView
<1>3. \A d \in view'[s].hidden : Emptied(d)'
  BY <1>1, <1>2, EmptiedByReset DEF Typed, SearchesTyped, View
<1>4. pc[s] \in {"rebuild", "evaluate"} => Dead(view[s]) = Dead(view[s])'
  <2>1. <<tombstones>> # Nil /\ <<tombstones>>[1] = tombstones
    BY DEF Nil
  <2> QED
    BY <1>2, <2>1 DEF Dead
<1> QED
  BY <1>1, <1>2, <1>3, <1>4, HidesKept DEF HiddenInv

\* A purge takes from a search what it takes from the tombstones.
LEMMA MergeHides ==
    ASSUME Typed, HiddenInv, ~ moved', StartMerge \/ PurgeTombstones \/ CommitMerge,
           NEW s \in Searchers, pc[s] # "idle"
    PROVE  Hides(s)'
<1>1. ~ moved /\ UNCHANGED pc
  <2>1. UNCHANGED pc
    BY DEF StartMerge, PurgeTombstones, CommitMerge
  <2>2. moved => moved'
    BY MovedStays DEF Next
  <2> QED
    BY <2>1, <2>2
<1>2. /\ view'[s].segments = view[s].segments /\ view'[s].snapshot = view[s].snapshot
      /\ view'[s].tombstones = view[s].tombstones /\ view'[s].result = view[s].result
      /\ view'[s].hidden \subseteq view[s].hidden
      /\ \A d \in view'[s].hidden : d \in tombstones => d \in tombstones'
  <2>1. CASE StartMerge
    BY <2>1 DEF StartMerge
  <2>2. CASE PurgeTombstones
    <3>1. tombstones' = tombstones \ Purgeable
      BY <2>2 DEF PurgeTombstones
    <3>2. view'[s].hidden = view[s].hidden \ Purgeable
      BY <2>2, PurgeView
    <3> QED
      BY <2>2, <3>1, <3>2, PurgeView
  <2>3. CASE CommitMerge
    <3>1. Docs \in SUBSET Docs /\ {} \in SUBSET Docs /\ Observe(Docs, {}) /\ UNCHANGED tombstones
      BY <2>3 DEF CommitMerge
    <3> QED
      BY <3>1, ObserveEffect
  <2> QED
    BY <2>1, <2>2, <2>3
<1>3. \A d \in view'[s].hidden : Emptied(d) => Emptied(d)'
  BY <1>2, EmptiedByMerge DEF Typed, SearchesTyped, View
<1> QED
  BY <1>1, <1>2, <1>3, HidesKept DEF HiddenInv, Dead

LEMMA OtherHides ==
    ASSUME Typed, HiddenInv, ~ moved, NEW s \in Searchers, SearchStep(s),
           NEW t \in Searchers \ {s}, view'[t] = view[t], pc'[t] = pc[t]
    PROVE  Hides(t)'
<1>1. UNCHANGED tombstones
  BY DEF SearchStep, BeginSearch, WriteBack, LoadFails, TakeView, Rebuild, Evaluate, Fill, shard
<1>2. \A d \in view'[t].hidden : Emptied(d) => Emptied(d)'
  BY EmptiedBySearch DEF Typed, SearchesTyped, View
<1> QED
  BY <1>1, <1>2, HidesKept DEF HiddenInv, Dead

\* A step of one search leaves the others where they are.
LEMMA OthersStay ==
    ASSUME Typed, NEW s \in Searchers, SearchStep(s)
    PROVE  \A t \in Searchers \ {s} : view'[t] = view[t] /\ pc'[t] = pc[t]
<1>1. PICK v \in View : See(s, v)
  BY BeginEffect, WriteBackEffect, TakeViewEffect, RebuildEffect, EvaluateEffect, NoViewTyped
     DEF SearchStep, LoadFails, Fill, EndSearch
<1>2. PICK label \in Labels : Goto(s, label)
  BY DEF SearchStep, BeginSearch, WriteBack, LoadFails, TakeView, Rebuild, Evaluate, Fill, EndSearch,
         Labels
<1> QED
  BY <1>1, <1>2, SeeEffect, GotoEffect

LEMMA SearchHides ==
    ASSUME Typed, SnapshotInv, SlotInv, HiddenInv, ~ moved, NEW s \in Searchers, SearchStep(s)
    PROVE  HiddenInv'
<1>1. \A d \in view[s].hidden : Emptied(d) => Emptied(d)'
  BY EmptiedBySearch DEF Typed, SearchesTyped, View
<1>2. Hides(s) /\ view[s].hidden \in SUBSET Docs
  BY DEF HiddenInv, Typed, SearchesTyped, View
<1>3. ASSUME BeginSearch(s) PROVE Hides(s)'
  <2>1. PICK v \in View : See(s, v) /\ v.hidden = MustHide /\ v.tombstones = Nil
    BY <1>3, BeginEffect
  <2>2. Goto(s, "load") /\ "load" \in Labels /\ UNCHANGED tombstones
    BY <1>3 DEF BeginSearch, Labels, shard
  <2>3. \A d \in MustHide : d \in tombstones
    BY DEF MustHide
  <2>4. view'[s] = v /\ pc'[s] = "load"
    BY <2>1, <2>2, SeeEffect, GotoEffect
  <2> QED
    BY <2>1, <2>2, <2>3, <2>4 DEF Hides
<1>4. ASSUME WriteBack(s) PROVE Hides(s)'
  <2>1. PICK v \in View : See(s, v) /\ v.hidden = view[s].hidden /\ v.tombstones = view[s].tombstones
    BY <1>4, WriteBackEffect
  <2>2. /\ Goto(s, "snapshot") /\ "snapshot" \in Labels
        /\ pc[s] = "load" /\ UNCHANGED tombstones
    BY <1>4 DEF WriteBack, Labels
  <2>3. view'[s] = v /\ pc'[s] = "snapshot"
    BY <2>1, <2>2, SeeEffect, GotoEffect
  <2> QED
    BY <1>1, <1>2, <2>1, <2>2, <2>3 DEF Hides
<1>5. ASSUME LoadFails(s) \/ Fill(s) PROVE Hides(s)'
  <2>1. Goto(s, "idle") /\ "idle" \in Labels /\ See(s, NoView)
    BY <1>5 DEF LoadFails, Fill, EndSearch, Labels
  <2>2. pc'[s] = "idle"
    BY <2>1, GotoEffect
  <2> QED
    BY <2>2 DEF Hides
<1>6. ASSUME TakeView(s) PROVE Hides(s)'
  <2>1. PICK v \in View :
           /\ See(s, v) /\ v.hidden = view[s].hidden /\ v.tombstones = view[s].tombstones
           /\ v.segments = segments /\ v.snapshot = snapshot
    BY <1>6, TakeViewEffect
  <2>2. PICK label \in {"rebuild", "evaluate"} : Goto(s, label)
    BY <1>6, TakeViewEffect
  <2>3. pc[s] = "snapshot" /\ UNCHANGED <<tombstones, segments, snapshot>> /\ label \in Labels
    BY <1>6 DEF TakeView, shard, Labels
  <2>4. view'[s] = v /\ pc'[s] = label
    BY <2>1, <2>2, <2>3, SeeEffect, GotoEffect
  <2>5. ASSUME NEW d \in v.hidden, d \notin tombstones PROVE Emptied(d)' /\ Unseen(s, d)'
    <3>1. Emptied(d) /\ Emptied(d)' /\ d \in Docs
      BY <1>1, <1>2, <2>1, <2>3, <2>5 DEF Hides
    <3>2. \A i \in DOMAIN segments : segments[i].slot # Nil => segments[i].slot[d] = 0
      BY <3>1 DEF Emptied, SlotInv, SlotsFit
    <3>3. snapshot # Nil => snapshot[d] = 0
      BY <3>1 DEF Emptied, SnapshotInv, Typed, BufferTyped, Slot, Copy
    <3> QED
      BY <2>1, <2>4, <3>1, <3>2, <3>3 DEF Unseen
  <2>6. v.tombstones = Nil
    BY <1>2, <2>1, <2>3 DEF Hides
  <2> QED
    BY <2>1, <2>2, <2>3, <2>4, <2>5, <2>6 DEF Hides, Dead
<1>7. ASSUME Rebuild(s) PROVE Hides(s)'
  <2>1. PICK v \in View :
           /\ See(s, v) /\ v.hidden = view[s].hidden /\ v.tombstones = view[s].tombstones
           /\ v.segments = view[s].segments /\ v.snapshot = snapshot'
    BY <1>7, RebuildEffect
  <2>2. snapshot' = buffer \/ snapshot' = snapshot
    BY <1>7, RebuildEffect
  <2>3. /\ Goto(s, "evaluate") /\ "evaluate" \in Labels
        /\ pc[s] = "rebuild" /\ UNCHANGED tombstones
    BY <1>7 DEF Rebuild, Labels
  <2>4. view'[s] = v /\ pc'[s] = "evaluate"
    BY <2>1, <2>3, SeeEffect, GotoEffect
  <2>5. Dead(view[s])' = Dead(view[s])
    BY <2>1, <2>3, <2>4 DEF Dead
  <2>6. ASSUME NEW d \in v.hidden, d \notin Dead(view[s]) PROVE Emptied(d)' /\ Unseen(s, d)'
    <3>1. Emptied(d) /\ Emptied(d)' /\ d \in Docs /\ Unseen(s, d)
      BY <1>1, <1>2, <2>1, <2>3, <2>6 DEF Hides
    <3>2. snapshot # Nil => snapshot[d] = 0
      BY <3>1 DEF Emptied, SnapshotInv, Typed, BufferTyped, Slot, Copy
    <3>3. snapshot' # Nil => snapshot'[d] = 0
      BY <2>2, <3>1, <3>2 DEF Emptied
    <3> QED
      BY <2>1, <2>4, <3>1, <3>3 DEF Unseen
  <2> QED
    BY <2>1, <2>3, <2>4, <2>5, <2>6 DEF Hides
<1>8. ASSUME Evaluate(s) PROVE Hides(s)'
  <2>1. PICK v \in View :
           /\ See(s, v) /\ v.hidden = view[s].hidden
           /\ \A h \in v.result :
                 /\ h.doc \notin Dead(view[s])
                 /\ \E i \in Active(view[s]) : Content(view[s], i)[h.doc] # 0
    BY <1>8, EvaluateEffect
  <2>2. Goto(s, "fill") /\ "fill" \in Labels /\ pc[s] = "evaluate"
    BY <1>8 DEF Evaluate, Labels
  <2>3. ASSUME NEW h \in v.result, h.doc \in v.hidden PROVE FALSE
    <3>1. h.doc \notin Dead(view[s])
      BY <2>1, <2>3
    <3>2. Unseen(s, h.doc)
      BY <1>2, <2>1, <2>2, <2>3, <3>1 DEF Hides
    <3>3. PICK i \in Active(view[s]) : Content(view[s], i)[h.doc] # 0
      BY <2>1, <2>3
    <3>4. 0 \notin DOMAIN view[s].segments
      BY DEF Typed, SearchesTyped, View
    <3> QED
      BY <2>2, <3>2, <3>3, <3>4 DEF Unseen, Active, Content
  <2>4. view'[s] = v /\ pc'[s] = "fill"
    BY <2>1, <2>2, SeeEffect, GotoEffect
  <2> QED
    BY <2>1, <2>3, <2>4 DEF Hides
<1>9. Hides(s)'
  BY <1>3, <1>4, <1>5, <1>6, <1>7, <1>8 DEF SearchStep
<1> QED
  BY <1>9, OthersStay, OtherHides DEF HiddenInv

LEMMA NextHidden == Typed /\ SnapshotInv /\ SlotInv /\ HiddenInv /\ [Next]_vars => HiddenInv'
<1> SUFFICES ASSUME Typed, SnapshotInv, SlotInv, HiddenInv, [Next]_vars, ~ moved'
             PROVE  HiddenInv'
  BY DEF HiddenInv
<1>1. ~ moved
  BY MovedStays
<1>2. CASE Invalidate \/ UNCHANGED vars
  <2>1. UNCHANGED <<buffer, inflight, segments, tombstones, merge, pc, view>>
    BY <1>2 DEF Invalidate, vars, shard
  <2>2. ASSUME NEW s \in Searchers PROVE Hides(s)'
    BY <1>1, <2>1, HidesKept DEF HiddenInv, Dead, Emptied
  <2> QED
    BY <2>2 DEF HiddenInv
<1>3. CASE StartMerge \/ PurgeTombstones \/ CommitMerge
  <2>1. UNCHANGED pc
    BY <1>3 DEF StartMerge, PurgeTombstones, CommitMerge
  <2>2. ASSUME NEW s \in Searchers PROVE Hides(s)'
    BY <1>3, <2>1, MergeHides DEF Hides
  <2> QED
    BY <2>2 DEF HiddenInv
<1>4. CASE IndexDocument \/ DeleteDocument
  BY <1>1, <1>4, WriteHides DEF HiddenInv
<1>5. CASE Flush \/ Publish
  BY <1>1, <1>5, FlushHides DEF HiddenInv
<1>6. CASE Reset
  BY <1>6, ResetHides DEF HiddenInv
<1> QED
  BY <1>1, <1>2, <1>3, <1>4, <1>5, <1>6, SearchHides DEF Next

\* A search that misses the cache does not return a document that had been deleted
\* when it started (search.go searchAll, with the map of tombstones it shares),
\* whatever flushes, loads, rebuilds and resets happen under it, unless it was
\* written again or a merge dropped its tombstone.
THEOREM DeletedIsHidden == Spec => []DeletedStaysHidden
<1>1. Init => HiddenInv
  BY DEF Init, HiddenInv, Hides
<1>2. HiddenInv => DeletedStaysHidden
  BY DEF HiddenInv, Hides, DeletedStaysHidden
<1>3. Init => SnapshotInv
  BY DEF Init, SnapshotInv, NoCopies, Nil
<1>4. Init => SlotInv
  BY DEF Init, SlotInv, SlotsFit, WorkFits, OutputFits
<1> QED
  BY <1>1, <1>2, <1>3, <1>4, InitTyped, NextTyped, NextSnapshot, NextSlot, NextHidden, PTL DEF Spec

-----------------------------------------------------------------------------
(* The cache shows no deleted document.                                    *)

\* A step that changes no document's fate.
LEMMA GoneKept ==
    ASSUME GoneInv, UNCHANGED <<latest, tombstones, stray>>,
           \A d \in Docs : Gone(d) =>
              /\ buffer[d] = 0 => buffer'[d] = 0
              /\ inflight' \subseteq inflight
              /\ merge' # Nil => merge'.out.copies[d] = 0
              /\ \A i \in DOMAIN segments' : segments'[i].copies[d] # 0 =>
                    Purging' /\ Id(segments[i])' \in merge'.inputs
    PROVE  GoneInv'
<1>1. \A d \in Docs : Gone(d)' <=> Gone(d)
  BY DEF Gone
<1> QED
  BY <1>1 DEF GoneInv

\* What keeps a search that does not move sound.
LEMMA SoundKept ==
    ASSUME NEW s \in Searchers, Sound(s), pc'[s] = pc[s],
           view'[s].segments = view[s].segments, view'[s].snapshot = view[s].snapshot,
           view'[s].result = view[s].result,
           pc[s] # "idle" /\ ~ view'[s].raced =>
              /\ ~ view[s].raced
              /\ view'[s].tombstones = view[s].tombstones
              /\ UNCHANGED <<latest, tombstones, stray>>
              /\ \A d \in Docs :
                    (Gone(d) /\ \A i \in DOMAIN segments : segments[i].copies[d] = 0) =>
                    \A i \in DOMAIN segments' : segments'[i].copies[d] = 0
    PROVE  Sound(s)'
<1> SUFFICES ASSUME pc[s] # "idle", ~ view'[s].raced
             PROVE  /\ view'[s].tombstones = Nil
                    /\ \A d \in Docs : Gone(d)' =>
                          /\ \A i \in DOMAIN segments' : segments'[i].copies[d] = 0
                          /\ pc'[s] \in {"rebuild", "evaluate"} => Unseen(s, d)'
                    /\ pc'[s] = "fill" =>
                          \A h \in view'[s].result : latest'[h.doc] # 0 \/ h.doc \in stray'
  BY DEF Sound
<1>1. \A d \in Docs : Gone(d)' <=> Gone(d)
  BY DEF Gone
<1>2. \A d \in Docs : Unseen(s, d) => Unseen(s, d)'
  BY DEF Unseen
<1> QED
  BY <1>1, <1>2 DEF Sound

\* A write: the cache was purged for it, and every search has met it.
LEMMA WriteLive ==
    ASSUME Typed, LiveInv, ~ moved', IndexDocument \/ DeleteDocument PROVE LiveInv'
<1>1. /\ UNCHANGED <<segments, merge, pc, cache, moved>>
      /\ writing # Nil /\ writing.doc \in Docs /\ clock' = clock + 1
  BY WriteEffect DEF IndexDocument, DeleteDocument, Write
<1>2. GoneInv /\ UnracedInv /\ CacheInv
  BY <1>1 DEF LiveInv
<1>3. ASSUME NEW s \in Searchers, pc'[s] # "idle" PROVE view'[s].raced
  <2>1. PICK miss \in SUBSET Docs, show \in SUBSET Docs : Observe(miss, show)
    BY <1>1 DEF IndexDocument, DeleteDocument, Copies
  <2> QED
    BY <1>1, <1>3, <2>1, ObserveEffect
<1>4. UnracedInv'
  BY <1>3 DEF UnracedInv, Sound
<1>5. CacheInv'
  BY <1>1, <1>2 DEF CacheInv
<1>6. GoneInv'
  <2> SUFFICES ASSUME NEW d \in Docs, Gone(d)'
               PROVE  /\ buffer'[d] = 0
                      /\ \A b \in inflight' : b.copies[d] = 0
                      /\ merge' # Nil => merge'.out.copies[d] = 0
                      /\ \A i \in DOMAIN segments' : segments'[i].copies[d] # 0 =>
                            Purging' /\ Id(segments[i])' \in merge'.inputs
    BY DEF GoneInv
  <2>1. latest \in Copy /\ buffer \in Copy /\ clock \in Nat
    BY DEF Typed, WritesTyped, BufferTyped
  <2>2. CASE IndexDocument
    <3>1. PICK score \in Scores : Write("index", score)
      BY <2>2 DEF IndexDocument
    <3>2. stray' = stray \ {writing.doc}
      BY <3>1 DEF Write
    <3>3. latest' = [latest EXCEPT ![writing.doc] = clock + 1] /\ tombstones' = tombstones \ {writing.doc}
      BY <2>2 DEF IndexDocument
    <3>4. d # writing.doc
      BY <1>1, <2>1, <3>3 DEF Gone, Copy
    <3>5. Gone(d)
      BY <2>1, <3>2, <3>3, <3>4 DEF Gone, Copy
    <3> DEFINE new == [buffer EXCEPT ![writing.doc] = clock + 1]
    <3>6. new[d] = 0
      BY <1>2, <2>1, <3>4, <3>5 DEF GoneInv, Copy
    <3>7. \/ buffer' = new /\ inflight' = inflight
          \/ buffer' = NoCopies /\ inflight' = inflight \cup {[seq |-> clock + 1, copies |-> new]}
      BY <2>2 DEF IndexDocument, TakeBuffer
    <3> HIDE DEF new
    <3>8. buffer'[d] = 0
      BY <3>6, <3>7 DEF NoCopies
    <3>9. \A b \in inflight' : b \in inflight \/ b.copies = new
      BY <3>7
    <3>10. \A b \in inflight' : b.copies[d] = 0
      BY <1>2, <3>5, <3>6, <3>9 DEF GoneInv
    <3> QED
      BY <1>1, <1>2, <3>5, <3>8, <3>10 DEF GoneInv, Purging, Id
  <2>3. CASE DeleteDocument
    <3>1. stray' = stray \ {writing.doc} /\ UNCHANGED <<buffer, inflight>>
      BY <2>3 DEF DeleteDocument, Write
    <3>2. latest' = [latest EXCEPT ![writing.doc] = 0] /\ tombstones' = tombstones \cup {writing.doc}
      BY <2>3 DEF DeleteDocument
    <3>3. d # writing.doc
      BY <3>2 DEF Gone
    <3>4. Gone(d)
      BY <2>1, <3>1, <3>2, <3>3 DEF Gone, Copy
    <3> QED
      BY <1>1, <1>2, <3>1, <3>4 DEF GoneInv, Purging, Id
  <2> QED
    BY <2>2, <2>3
<1> QED
  BY <1>4, <1>5, <1>6 DEF LiveInv

\* A reset leaves nothing to be found.
LEMMA ResetLive == ASSUME Typed, LiveInv, ~ moved', Reset PROVE LiveInv'
<1>1. UNCHANGED <<pc, cache, merge>> /\ merge = Nil /\ ~ moved /\ writing # Nil
  BY DEF Reset, Write
<1>2. UnracedInv'
  BY <1>1, ResetView DEF UnracedInv, Sound
<1>3. CacheInv'
  BY <1>1 DEF LiveInv, CacheInv
<1>4. buffer' = NoCopies /\ inflight' = {} /\ segments' = <<>>
  BY DEF Reset, TakeBuffer
<1>5. GoneInv'
  BY <1>1, <1>4 DEF GoneInv, NoCopies
<1> QED
  BY <1>2, <1>3, <1>5 DEF LiveInv

LEMMA FlushLive == ASSUME Typed, LiveInv, ~ moved', Flush \/ Publish PROVE LiveInv'
<1>1. UNCHANGED <<latest, stray, writing, tombstones, merge, pc, cache, moved>>
  BY DEF Flush, Publish, written
<1>2. GoneInv /\ UnracedInv /\ CacheInv
  BY <1>1 DEF LiveInv
<1>3. PICK e \in Segment :
         /\ segments' = Append(segments, e)
         /\ e.copies = buffer \/ \E b \in inflight : e.copies = b.copies
  BY FlushEffect
<1>4. \A i \in DOMAIN segments' : (i \in DOMAIN segments /\ segments'[i] = segments[i])
                                  \/ segments'[i] = e
  BY <1>3, AppendEffect
<1>5. \A d \in Docs : Gone(d) => e.copies[d] = 0
  BY <1>2, <1>3 DEF GoneInv
<1>6. inflight' \subseteq inflight /\ \A d \in Docs : buffer[d] = 0 => buffer'[d] = 0
  BY DEF Flush, Publish, TakeBuffer, NoCopies
<1>7. GoneInv'
  <2>1. \A d \in Docs : Gone(d) => \A i \in DOMAIN segments' : segments'[i].copies[d] # 0 =>
           Purging' /\ Id(segments[i])' \in merge'.inputs
    BY <1>1, <1>2, <1>4, <1>5 DEF GoneInv, Purging, Id
  <2> QED
    BY <1>1, <1>2, <1>6, <2>1, GoneKept DEF GoneInv
<1>8. ASSUME NEW s \in Searchers PROVE Sound(s)'
  <2>1. /\ view'[s].segments = view[s].segments /\ view'[s].snapshot = view[s].snapshot
        /\ view'[s].result = view[s].result /\ view'[s].tombstones = view[s].tombstones
        /\ pc[s] # "idle" /\ ~ view'[s].raced => ~ view[s].raced
    <3>1. CASE Flush
      <4>1. Copies(buffer) \in SUBSET Docs /\ {} \in SUBSET Docs /\ Observe(Copies(buffer), {})
        BY <3>1 DEF Flush, Copies
      <4> QED
        BY <4>1, ObserveEffect
    <3>2. CASE Publish
      BY <3>2 DEF Publish
    <3> QED
      BY <3>1, <3>2
  <2>2. \A d \in Docs :
           (Gone(d) /\ \A i \in DOMAIN segments : segments[i].copies[d] = 0) =>
           \A i \in DOMAIN segments' : segments'[i].copies[d] = 0
    BY <1>4, <1>5
  <2> QED
    BY <1>1, <1>2, <2>1, <2>2, SoundKept DEF UnracedInv
<1>9. CacheInv'
  BY <1>1, <1>2 DEF CacheInv
<1> QED
  BY <1>7, <1>8, <1>9 DEF LiveInv, UnracedInv

LEMMA StartLive == ASSUME Typed, LiveInv, ~ moved', StartMerge PROVE LiveInv'
<1>1. UNCHANGED <<latest, stray, writing, buffer, inflight, segments, tombstones, pc, view, cache, moved>>
  BY DEF StartMerge, written
<1>2. GoneInv /\ UnracedInv /\ CacheInv
  BY <1>1 DEF LiveInv
<1>3. merge = Nil
  BY StartMergeEffect
<1>4. \A d \in Docs : Gone(d) => \A i \in DOMAIN segments : segments[i].copies[d] = 0
  BY <1>2, <1>3 DEF GoneInv, Purging
<1>5. \A d \in Docs : Gone(d) => merge'.out.copies[d] = 0
  BY <1>4, StartMergeEffect
<1>6. GoneInv'
  BY <1>1, <1>2, <1>4, <1>5, GoneKept
<1>7. \A s \in Searchers : Sound(s)'
  BY <1>1, <1>2, SoundKept DEF UnracedInv
<1>8. CacheInv'
  BY <1>1, <1>2 DEF CacheInv
<1> QED
  BY <1>6, <1>7, <1>8 DEF LiveInv, UnracedInv

\* A purge: the documents that lose their tombstone have copies in the inputs only, or
\* are stray; and every search that runs has met it, unless there are none.
LEMMA PurgeLive == ASSUME Typed, LiveInv, ~ moved', PurgeTombstones PROVE LiveInv'
<1>1. /\ UNCHANGED <<latest, writing, buffer, inflight, segments, pc, cache, moved>>
      /\ merge # Nil /\ ~ merge.purged /\ merge' = [merge EXCEPT !.purged = TRUE]
      /\ tombstones' = tombstones \ Purgeable /\ stray' = stray \cup (Purgeable \cap Elsewhere)
  BY DEF PurgeTombstones, written
<1>2. GoneInv /\ UnracedInv /\ CacheInv
  BY <1>1 DEF LiveInv
<1>3. merge' # Nil /\ merge'.out = merge.out /\ merge'.inputs = merge.inputs /\ merge'.purged
  <2>1. merge \in Merge /\ merge' \in Merge
    BY <1>1 DEF Typed, SegmentsTyped, Merge
  <2>2. merge' # Nil
    <3>1. "purged" \in DOMAIN merge'
      BY <2>1 DEF Merge
    <3> QED
      BY <3>1 DEF Nil
  <2> QED
    BY <1>1, <2>1, <2>2 DEF Merge
<1>4. Purging' /\ ~ Purging
  BY <1>1, <1>3 DEF Purging
<1>5. ASSUME NEW d \in Docs, Gone(d)'
      PROVE  /\ buffer'[d] = 0
             /\ \A b \in inflight' : b.copies[d] = 0
             /\ merge' # Nil => merge'.out.copies[d] = 0
             /\ \A i \in DOMAIN segments' : segments'[i].copies[d] # 0 =>
                   Purging' /\ Id(segments[i])' \in merge'.inputs
  <2>1. CASE d \in Purgeable
    <3>1. d \notin Elsewhere
      BY <1>1, <1>5, <2>1 DEF Gone
    <3>2. /\ buffer[d] = 0
          /\ \A b \in inflight : b.copies[d] = 0
          /\ \A i \in DOMAIN segments : segments[i].copies[d] # 0 => Id(segments[i]) \in merge.inputs
      BY <3>1 DEF Elsewhere
    <3>3. merge.out.copies[d] = 0
      BY <2>1 DEF Purgeable
    <3> QED
      BY <1>1, <1>3, <1>4, <3>2, <3>3 DEF Id
  <2>2. CASE d \notin Purgeable
    <3>1. Gone(d)
      BY <1>1, <1>5, <2>2 DEF Gone
    <3> QED
      BY <1>1, <1>2, <1>3, <1>4, <3>1 DEF GoneInv, Id
  <2> QED
    BY <2>1, <2>2
<1>6. GoneInv'
  BY <1>5 DEF GoneInv
<1>7. ASSUME NEW s \in Searchers PROVE Sound(s)'
  <2>1. pc[s] # "idle" /\ ~ view'[s].raced => ~ view[s].raced /\ Purgeable = {}
    BY PurgeView
  <2>2. Purgeable = {} => UNCHANGED <<tombstones, stray>>
    BY <1>1
  <2> QED
    BY <1>1, <1>2, <2>1, <2>2, PurgeView, SoundKept DEF UnracedInv
<1>8. CacheInv'
  BY <1>1, <1>2 DEF CacheInv
<1> QED
  BY <1>6, <1>7, <1>8 DEF LiveInv, UnracedInv

LEMMA CommitLive == ASSUME Typed, LiveInv, ~ moved', CommitMerge PROVE LiveInv'
<1>1. /\ UNCHANGED <<latest, stray, writing, buffer, inflight, tombstones, pc, cache>>
      /\ merge # Nil /\ merge' = Nil
  BY DEF CommitMerge, written
<1>2. ~ moved
  BY MovedStays DEF Next
<1>3. GoneInv /\ UnracedInv /\ CacheInv
  BY <1>2 DEF LiveInv
<1>4. \A d \in Docs : Gone(d) => \A i \in DOMAIN segments' : segments'[i].copies[d] = 0
  BY <1>1, <1>3, CommitEffect DEF GoneInv
<1>5. GoneInv'
  BY <1>1, <1>3, <1>4, GoneKept
<1>6. ASSUME NEW s \in Searchers PROVE Sound(s)'
  <2>1. Docs \in SUBSET Docs /\ {} \in SUBSET Docs /\ Observe(Docs, {})
    BY DEF CommitMerge
  <2>2. /\ view'[s].segments = view[s].segments /\ view'[s].snapshot = view[s].snapshot
        /\ view'[s].result = view[s].result /\ view'[s].tombstones = view[s].tombstones
        /\ pc[s] # "idle" /\ ~ view'[s].raced => ~ view[s].raced
    BY <2>1, ObserveEffect
  <2> QED
    BY <1>1, <1>3, <1>4, <2>2, SoundKept DEF UnracedInv
<1>7. CacheInv'
  BY <1>1, <1>3 DEF CacheInv
<1> QED
  BY <1>5, <1>6, <1>7 DEF LiveInv, UnracedInv

\* The searches that do not move see what they saw.
LEMMA OtherSound ==
    ASSUME Typed, UnracedInv, NEW s \in Searchers, SearchStep(s),
           NEW t \in Searchers \ {s}, view'[t] = view[t], pc'[t] = pc[t]
    PROVE  Sound(t)'
<1>1. UNCHANGED <<latest, tombstones, stray>>
  BY DEF SearchStep, BeginSearch, WriteBack, LoadFails, TakeView, Rebuild, Evaluate, Fill, shard, written
<1>2. \A d \in Docs :
         (Gone(d) /\ \A i \in DOMAIN segments : segments[i].copies[d] = 0) =>
         \A i \in DOMAIN segments' : segments'[i].copies[d] = 0
  <2>1. CASE WriteBack(s)
    BY <2>1, WriteBackEffect
  <2>2. CASE ~ WriteBack(s)
    BY <2>2 DEF SearchStep, BeginSearch, LoadFails, TakeView, Rebuild, Evaluate, Fill, shard
  <2> QED
    BY <2>1, <2>2
<1> QED
  BY <1>1, <1>2, SoundKept DEF UnracedInv

LEMMA SearchSound ==
    ASSUME Typed, SnapshotInv, SlotInv, LiveInv, ~ moved, NEW s \in Searchers, SearchStep(s)
    PROVE  Sound(s)'
<1>1. GoneInv /\ Sound(s)
  BY DEF LiveInv, UnracedInv
<1>2. UNCHANGED <<latest, tombstones, stray>> /\ \A d \in Docs : Gone(d)' <=> Gone(d)
  <2>1. UNCHANGED <<latest, tombstones, stray>>
    BY DEF SearchStep, BeginSearch, WriteBack, LoadFails, TakeView, Rebuild, Evaluate, Fill, shard, written
  <2> QED
    BY <2>1 DEF Gone
<1>3. \A d \in Docs : Gone(d) => buffer[d] = 0 /\ (snapshot # Nil => snapshot[d] = 0)
  BY <1>1 DEF GoneInv, SnapshotInv, Typed, BufferTyped, Slot, Copy
<1>4. ASSUME BeginSearch(s) PROVE Sound(s)'
  <2>1. PICK v \in View : See(s, v) /\ v.raced = Purging /\ v.tombstones = Nil
    BY <1>4, BeginEffect
  <2>2. Goto(s, "load") /\ "load" \in Labels /\ UNCHANGED segments
    BY <1>4 DEF BeginSearch, Labels, shard
  <2>3. view'[s] = v /\ pc'[s] = "load"
    BY <2>1, <2>2, SeeEffect, GotoEffect
  <2>4. ~ Purging => \A d \in Docs : Gone(d) => \A i \in DOMAIN segments : segments[i].copies[d] = 0
    BY <1>1 DEF GoneInv
  <2> QED
    BY <1>2, <2>1, <2>2, <2>3, <2>4 DEF Sound
<1>5. ASSUME WriteBack(s) PROVE Sound(s)'
  <2>1. PICK v \in View : See(s, v) /\ v.raced = view[s].raced /\ v.tombstones = view[s].tombstones
    BY <1>5, WriteBackEffect
  <2>2. Goto(s, "snapshot") /\ "snapshot" \in Labels /\ pc[s] = "load"
    BY <1>5 DEF WriteBack, Labels
  <2>3. view'[s] = v /\ pc'[s] = "snapshot"
    BY <2>1, <2>2, SeeEffect, GotoEffect
  <2>4. DOMAIN segments' = DOMAIN segments
        /\ \A i \in DOMAIN segments : segments'[i].copies = segments[i].copies
    BY <1>5, WriteBackEffect
  <2> QED
    BY <1>1, <1>2, <2>1, <2>2, <2>3, <2>4 DEF Sound
<1>6. ASSUME LoadFails(s) \/ Fill(s) PROVE Sound(s)'
  <2>1. Goto(s, "idle") /\ "idle" \in Labels
    BY <1>6 DEF LoadFails, Fill, EndSearch, Labels
  <2>2. pc'[s] = "idle"
    BY <2>1, GotoEffect
  <2> QED
    BY <2>2 DEF Sound
<1>7. ASSUME TakeView(s) PROVE Sound(s)'
  <2>1. PICK v \in View :
           /\ See(s, v) /\ v.raced = view[s].raced /\ v.tombstones = view[s].tombstones
           /\ v.segments = segments /\ v.snapshot = snapshot
    BY <1>7, TakeViewEffect
  <2>2. PICK label \in {"rebuild", "evaluate"} : Goto(s, label)
    BY <1>7, TakeViewEffect
  <2>3. pc[s] = "snapshot" /\ UNCHANGED segments /\ label \in Labels
    BY <1>7 DEF TakeView, shard, Labels
  <2>4. view'[s] = v /\ pc'[s] = label
    BY <2>1, <2>2, <2>3, SeeEffect, GotoEffect
  <2>5. \A d \in Docs : (\A i \in DOMAIN segments : segments[i].copies[d] = 0) =>
           \A i \in DOMAIN segments : segments[i].slot # Nil => segments[i].slot[d] = 0
    BY DEF SlotInv, SlotsFit
  <2>6. ASSUME NEW d \in Docs, Gone(d), \A i \in DOMAIN segments : segments[i].copies[d] = 0
        PROVE  Unseen(s, d)'
    BY <1>3, <2>1, <2>4, <2>5, <2>6 DEF Unseen
  <2> QED
    BY <1>1, <1>2, <2>1, <2>2, <2>3, <2>4, <2>6 DEF Sound
<1>8. ASSUME Rebuild(s) PROVE Sound(s)'
  <2>1. PICK v \in View :
           /\ See(s, v) /\ v.raced = view[s].raced /\ v.tombstones = view[s].tombstones
           /\ v.segments = view[s].segments /\ v.snapshot = snapshot'
    BY <1>8, RebuildEffect
  <2>2. snapshot' = buffer \/ snapshot' = snapshot
    BY <1>8, RebuildEffect
  <2>3. Goto(s, "evaluate") /\ "evaluate" \in Labels /\ pc[s] = "rebuild" /\ UNCHANGED segments
    BY <1>8 DEF Rebuild, Labels
  <2>4. view'[s] = v /\ pc'[s] = "evaluate"
    BY <2>1, <2>3, SeeEffect, GotoEffect
  <2>5. ASSUME NEW d \in Docs, Gone(d), Unseen(s, d) PROVE Unseen(s, d)'
    BY <1>3, <2>1, <2>2, <2>4, <2>5 DEF Unseen
  <2> QED
    BY <1>1, <1>2, <2>1, <2>3, <2>4, <2>5 DEF Sound
<1>9. ASSUME Evaluate(s) PROVE Sound(s)'
  <2>1. PICK v \in View :
           /\ See(s, v) /\ v.raced = view[s].raced /\ v.tombstones = view[s].tombstones
           /\ \A h \in v.result :
                 /\ h.doc \notin Dead(view[s])
                 /\ \E i \in Active(view[s]) : Content(view[s], i)[h.doc] # 0
    BY <1>9, EvaluateEffect
  <2>2. Goto(s, "fill") /\ "fill" \in Labels /\ pc[s] = "evaluate" /\ UNCHANGED segments
    BY <1>9 DEF Evaluate, Labels, shard
  <2>3. view'[s] = v /\ pc'[s] = "fill"
    BY <2>1, <2>2, SeeEffect, GotoEffect
  <2>4. ASSUME NEW h \in v.result, ~ view[s].raced, latest[h.doc] = 0, h.doc \notin stray PROVE FALSE
    <3>1. h.doc \in Docs
      BY DEF View, Hit
    <3>2. Gone(h.doc)
      BY <1>1, <2>1, <2>2, <2>4 DEF Sound, Dead, Gone
    <3>3. Unseen(s, h.doc)
      BY <1>1, <2>2, <2>4, <3>1, <3>2 DEF Sound
    <3>4. PICK i \in Active(view[s]) : Content(view[s], i)[h.doc] # 0
      BY <2>1
    <3>5. 0 \notin DOMAIN view[s].segments
      BY DEF Typed, SearchesTyped, View
    <3> QED
      BY <2>2, <3>3, <3>4, <3>5 DEF Unseen, Active, Content
  <2> QED
    BY <1>1, <1>2, <2>1, <2>2, <2>3, <2>4 DEF Sound
<1> QED
  BY <1>4, <1>5, <1>6, <1>7, <1>8, <1>9 DEF SearchStep

\* An entry is marked when a write was under way, or had been while it was made.
LEMMA FillLive ==
    ASSUME Typed, LiveInv, ~ moved, NEW s \in Searchers, Fill(s) PROVE CacheInv'
<1> DEFINE hits  == {[doc |-> h.doc, version |-> h.version] : h \in view[s].result}
           racing == view[s].raced \/ writing # Nil
<1>1. UNCHANGED <<latest, stray, writing>> /\ pc[s] = "fill"
  BY DEF Fill, written
<1>2. cache' = cache \/ cache' = [hits |-> hits, raced |-> racing]
  BY DEF Fill
<1>3. Sound(s) /\ CacheInv
  BY DEF LiveInv, UnracedInv
<1>4. CASE cache' = cache
  BY <1>1, <1>3, <1>4 DEF CacheInv
<1>5. CASE cache' = [hits |-> hits, raced |-> racing]
  <2>1. ~ racing => writing = Nil /\ \A h \in hits : latest[h.doc] # 0 \/ h.doc \in stray
    <3> SUFFICES ASSUME ~ racing, NEW g \in hits PROVE latest[g.doc] # 0 \/ g.doc \in stray
      OBVIOUS
    <3>1. PICK h \in view[s].result : g.doc = h.doc
      OBVIOUS
    <3> QED
      BY <1>1, <1>3, <3>1 DEF Sound
  <2> HIDE DEF hits, racing
  <2> QED
    BY <1>1, <1>5, <2>1 DEF CacheInv
<1> QED
  BY <1>2, <1>4, <1>5

LEMMA SearchLive ==
    ASSUME Typed, SnapshotInv, SlotInv, LiveInv, ~ moved, NEW s \in Searchers, SearchStep(s)
    PROVE  LiveInv'
<1>1. GoneInv /\ UnracedInv /\ CacheInv
  BY DEF LiveInv
<1>2. UNCHANGED <<latest, tombstones, stray, writing, buffer, inflight, merge>>
  BY DEF SearchStep, BeginSearch, WriteBack, LoadFails, TakeView, Rebuild, Evaluate, Fill, shard, written
<1>3. \A i \in DOMAIN segments' : /\ i \in DOMAIN segments
                                  /\ segments'[i].copies = segments[i].copies
                                  /\ Id(segments[i])' = Id(segments[i])
  <2>1. CASE WriteBack(s)
    BY <2>1, WriteBackEffect DEF Id
  <2>2. CASE ~ WriteBack(s)
    <3>1. UNCHANGED segments
      BY <2>2 DEF SearchStep, BeginSearch, LoadFails, TakeView, Rebuild, Evaluate, Fill, shard
    <3> QED
      BY <3>1 DEF Id
  <2> QED
    BY <2>1, <2>2
<1>4. GoneInv'
  BY <1>1, <1>2, <1>3, GoneKept DEF GoneInv, Purging
<1>5. UnracedInv'
  BY <1>1, OthersStay, OtherSound, SearchSound DEF UnracedInv
<1>6. CacheInv'
  <2>1. CASE ~ Fill(s)
    <3>1. UNCHANGED cache
      BY <2>1 DEF SearchStep, BeginSearch, WriteBack, LoadFails, TakeView, Rebuild, Evaluate
    <3> QED
      BY <1>1, <1>2, <3>1 DEF CacheInv
  <2> QED
    BY <2>1, FillLive
<1> QED
  BY <1>4, <1>5, <1>6 DEF LiveInv

LEMMA NextLive == Typed /\ SnapshotInv /\ SlotInv /\ LiveInv /\ [Next]_vars => LiveInv'
<1> SUFFICES ASSUME Typed, SnapshotInv, SlotInv, LiveInv, [Next]_vars, ~ moved'
             PROVE  LiveInv'
  BY DEF LiveInv
<1>1. ~ moved
  BY MovedStays
<1>2. CASE Invalidate \/ UNCHANGED vars
  <2>1. /\ UNCHANGED <<latest, stray, buffer, inflight, segments, tombstones, merge, pc, view>>
        /\ cache' = Nil \/ UNCHANGED <<writing, cache>>
    BY <1>2 DEF Invalidate, vars, shard, written
  <2>2. GoneInv /\ UnracedInv /\ CacheInv
    BY <1>1 DEF LiveInv
  <2>3. GoneInv'
    BY <2>1, <2>2, GoneKept DEF GoneInv, Purging, Id
  <2>4. \A s \in Searchers : Sound(s)'
    BY <2>1, <2>2, SoundKept DEF UnracedInv
  <2>5. CacheInv'
    BY <2>1, <2>2 DEF CacheInv
  <2> QED
    BY <2>3, <2>4, <2>5 DEF LiveInv, UnracedInv
<1> QED
  BY <1>1, <1>2, WriteLive, ResetLive, FlushLive, StartLive, PurgeLive, CommitLive, SearchLive
     DEF Next

\* A cached result shows no deleted document, unless a write was under way while the
\* result was made, or a merge purged a tombstone under the search or of a document
\* that it did not merge entirely (shardmanager.go IndexDoc, DeleteDoc, ResetShard
\* and Search): the purge of the cache before a write and the mark on the entry are
\* enough for every number of searches and writes.
THEOREM CacheIsLive == Spec => []CachedIsLive
<1>1. Init => LiveInv
  BY DEF Init, LiveInv, GoneInv, UnracedInv, Sound, CacheInv, NoCopies
<1>2. LiveInv => CachedIsLive
  BY DEF LiveInv, CacheInv, CachedIsLive
<1>3. Init => SnapshotInv
  BY DEF Init, SnapshotInv, NoCopies, Nil
<1>4. Init => SlotInv
  BY DEF Init, SlotInv, SlotsFit, WorkFits, OutputFits
<1> QED
  BY <1>1, <1>2, <1>3, <1>4, InitTyped, NextTyped, NextSnapshot, NextSlot, NextLive, PTL DEF Spec

-----------------------------------------------------------------------------
(* What searches find: the invariants.                                     *)

\* Every write has a score, and there are no more than MaxWrites.
ScoresInv ==
    /\ scores \in Seq(Nat) /\ Len(scores) = clock
    /\ \E top \in Nat : \A i \in 1 .. clock : scores[i] <= top
    /\ clock <= MaxWrites /\ (writing # Nil => clock < MaxWrites)

\* The segments a search that has taken its view looks at.
Held(s) == IF pc[s] \in {"rebuild", "evaluate"} THEN view[s].segments ELSE <<>>

\* The versions of d outside the write buffer: in segments, present, to come, or seen.
Stored(d) ==
    {b.copies[d] : b \in inflight} \cup {segments[i].copies[d] : i \in DOMAIN segments}
    \cup (IF merge = Nil THEN {} ELSE {merge.out.copies[d]})
    \cup UNION {{Held(s)[i].copies[d] : i \in DOMAIN Held(s)} : s \in Searchers}

\* No copy of a document is newer than its last write.
Known(d, v) == v <= clock /\ (latest[d] # 0 => v <= latest[d])

\* A copy in the write buffer, or in a snapshot of it, is newer than all others.
Ordered(d) ==
    /\ latest[d] # 0 => d \notin tombstones
    /\ Known(d, latest[d]) /\ Known(d, buffer[d])
    /\ \A v \in Stored(d) : /\ Known(d, v) /\ (buffer[d] # 0 => v < buffer[d])
                            /\ snapshot # Nil /\ snapshot[d] # 0 => v < snapshot[d]
    /\ \A s \in Searchers : pc[s] = "evaluate" /\ view[s].snapshot # Nil =>
          /\ Known(d, view[s].snapshot[d])
          /\ view[s].snapshot[d] # 0 =>
                \A i \in DOMAIN view[s].segments : view[s].segments[i].copies[d] < view[s].snapshot[d]

AgeInv == \A d \in Docs : Ordered(d)

-----------------------------------------------------------------------------
(* Versions and their scores.                                              *)

LEMMA ScoresKept ==
    ASSUME ScoresInv, UNCHANGED <<clock, scores>>, writing' # Nil => clock < MaxWrites
    PROVE  ScoresInv'
BY DEF ScoresInv

LEMMA WriteScores ==
    ASSUME Typed, ScoresInv, NEW op, NEW score \in Nat, Write(op, score)
    PROVE  ScoresInv' /\ \A i \in 1 .. clock : scores'[i] = scores[i]
<1>1. /\ writing # Nil /\ writing' = Nil /\ clock' = clock + 1 /\ clock \in Nat
      /\ scores' = Append(scores, score) /\ scores \in Seq(Nat) /\ Len(scores) = clock
      /\ clock < MaxWrites
  BY DEF Write, ScoresInv, Typed, WritesTyped
<1>2. /\ scores' \in Seq(Nat) /\ Len(scores') = clock'
      /\ \A i \in 1 .. clock : scores'[i] = scores[i] /\ scores[i] \in Nat
      /\ scores'[clock + 1] = score
  BY <1>1
<1>3. PICK top \in Nat : \A i \in 1 .. clock : scores[i] <= top
  BY DEF ScoresInv
<1>4. \E t \in Nat : t >= top /\ t >= score
  <2>1. top + score \in Nat /\ top + score >= top /\ top + score >= score
    OBVIOUS
  <2> QED
    BY <2>1
<1>5. PICK t \in Nat : t >= top /\ t >= score
  BY <1>4
<1>6. \A i \in 1 .. clock' : scores'[i] <= t
  BY <1>1, <1>2, <1>3, <1>5
<1>7. clock' <= MaxWrites
  BY <1>1, SearchAssumption
<1> QED
  BY <1>1, <1>2, <1>5, <1>6, <1>7 DEF ScoresInv

LEMMA ScoreStep ==
    ASSUME Typed, IndexDocument \/ DeleteDocument \/ Reset
    PROVE  \E op \in {"index", "delete", "reset"}, score \in Nat : Write(op, score)
<1>1. CASE IndexDocument
  BY <1>1, SearchAssumption DEF IndexDocument
<1> QED
  BY <1>1 DEF DeleteDocument, Reset

\* All steps keep the scores, and old versions keep theirs.
LEMMA NextScores ==
    ASSUME Typed, ScoresInv, [Next]_vars
    PROVE  ScoresInv' /\ \A i \in 1 .. clock : scores'[i] = scores[i]
<1>1. CASE IndexDocument \/ DeleteDocument \/ Reset
  BY <1>1, ScoreStep, WriteScores
<1>2. CASE Invalidate
  <2>1. UNCHANGED <<clock, scores>> /\ clock < MaxWrites
    BY <1>2 DEF Invalidate, written
  <2> QED
    BY <2>1, ScoresKept
<1>3. CASE ~ (IndexDocument \/ DeleteDocument \/ Reset \/ Invalidate)
  <2>1. UNCHANGED <<clock, scores, writing>>
    BY <1>3 DEF Next, vars, Flush, Publish, StartMerge, PurgeTombstones, CommitMerge, SearchStep,
                BeginSearch, WriteBack, LoadFails, TakeView, Rebuild, Evaluate, Fill, written
  <2>2. writing' # Nil => clock < MaxWrites
    BY <2>1 DEF ScoresInv
  <2> QED
    BY <2>1, <2>2, ScoresKept
<1> QED
  BY <1>1, <1>2, <1>3

\* A version that matches goes on to match.
LEMMA MatchesStay ==
    ASSUME Typed, ScoresInv, [Next]_vars, NEW v \in Nat, v <= clock, Matches(v)
    PROVE  Matches(v)'
<1>1. v \in 1 .. clock
  BY DEF Matches, Typed, WritesTyped
<1> QED
  BY <1>1, NextScores DEF Matches

-----------------------------------------------------------------------------
(* What the steps of the shard leave to the searches.                      *)

ShardStep == \/ Invalidate \/ IndexDocument \/ DeleteDocument \/ Reset \/ Flush \/ Publish
             \/ StartMerge \/ PurgeTombstones \/ CommitMerge \/ UNCHANGED vars

\* The new document's version, in the buffer or on its way to a segment.
LEMMA IndexEffect ==
    ASSUME Typed, IndexDocument
    PROVE  \E new \in Copy, show \in SUBSET Docs :
              /\ writing.doc \in Docs /\ clock' = clock + 1 /\ writing # Nil
              /\ new = [buffer EXCEPT ![writing.doc] = clock + 1]
              /\ latest' = [latest EXCEPT ![writing.doc] = clock + 1]
              /\ tombstones' = tombstones \ {writing.doc}
              /\ UNCHANGED <<segments, merge, pc, moved>>
              /\ \/ /\ buffer' = new /\ dirty' = TRUE
                    /\ Observe({writing.doc}, show)
                    /\ UNCHANGED <<snapshot, inflight>>
                 \/ /\ inflight' = inflight \cup {[seq |-> clock + 1, copies |-> new]}
                    /\ buffer' = NoCopies /\ snapshot' = Nil
                    /\ Observe(Copies(new), show)
<1> DEFINE new == [buffer EXCEPT ![writing.doc] = clock + 1]
<1>1. PICK score \in Scores :
       /\ Write("index", score)
       /\ latest' = [latest EXCEPT ![writing.doc] = clock + 1]
       /\ tombstones' = tombstones \ {writing.doc}
       /\ \/ /\ buffer' = new /\ dirty' = TRUE
             /\ Observe({writing.doc}, {writing.doc})
             /\ UNCHANGED <<snapshot, inflight>>
          \/ /\ inflight' = inflight \cup {[seq |-> clock + 1, copies |-> new]}
             /\ TakeBuffer
             /\ Observe(Copies(new), {writing.doc})
       /\ UNCHANGED <<segments, merge, merges, cache, pc, moved>>
  BY DEF IndexDocument
<1>2. writing.doc \in Docs /\ clock' = clock + 1 /\ writing # Nil /\ clock + 1 \in Nat
  BY <1>1, WriteEffect DEF Write
<1>3. new \in Copy
  BY <1>2 DEF Typed, BufferTyped, Copy
<1>4. {writing.doc} \in SUBSET Docs
  BY <1>2
<1> HIDE DEF new
<1>5. \/ /\ buffer' = new /\ dirty' = TRUE
         /\ Observe({writing.doc}, {writing.doc})
         /\ UNCHANGED <<snapshot, inflight>>
      \/ /\ inflight' = inflight \cup {[seq |-> clock + 1, copies |-> new]}
         /\ buffer' = NoCopies /\ snapshot' = Nil
         /\ Observe(Copies(new), {writing.doc})
  BY <1>1 DEF TakeBuffer
<1> QED
  BY <1>1, <1>2, <1>3, <1>4, <1>5 DEF new

\* Steps of the shard leave the searches where they are, with what they hold.
LEMMA ViewsKept ==
    ASSUME Typed, ShardStep, NEW s \in Searchers
    PROVE  /\ pc' = pc
           /\ view'[s].segments = view[s].segments /\ view'[s].snapshot = view[s].snapshot
           /\ view'[s].result = view[s].result /\ view'[s].kind = view[s].kind
           /\ view'[s].work = view[s].work /\ view'[s].due = view[s].due
           /\ view'[s].full = view[s].full
           /\ view'[s].settled \subseteq view[s].settled
           /\ view'[s].settled # {} => view'[s].tombstones = view[s].tombstones
<1>0. pc' = pc
  BY DEF ShardStep, Invalidate, IndexDocument, DeleteDocument, Reset, Flush, Publish, StartMerge,
         PurgeTombstones, CommitMerge, vars
<1> DEFINE same == /\ view'[s].segments = view[s].segments /\ view'[s].snapshot = view[s].snapshot
                   /\ view'[s].result = view[s].result
                   /\ view'[s].work = view[s].work
                   /\ view'[s].due = view[s].due /\ view'[s].kind = view[s].kind
                   /\ view'[s].full = view[s].full
                   /\ view'[s].settled \subseteq view[s].settled
                   /\ view'[s].settled # {} => view'[s].tombstones = view[s].tombstones
<1>1. ASSUME NEW miss \in SUBSET Docs, NEW show \in SUBSET Docs, Observe(miss, show) PROVE same
  <2>1. view'[s].full = view[s].full /\ view'[s].settled = view[s].settled \ miss
    BY <1>1, ObserveSettled
  <2> QED
    BY <1>1, <2>1, ObserveEffect
<1>2. ASSUME IndexDocument PROVE same
  <2>1. PICK new \in Copy, show \in SUBSET Docs :
           /\ writing.doc \in Docs
           /\ Observe({writing.doc}, show) \/ Observe(Copies(new), show)
    BY <1>2, IndexEffect
  <2>2. {writing.doc} \in SUBSET Docs /\ Copies(new) \in SUBSET Docs
    BY <2>1 DEF Copies
  <2> HIDE DEF same
  <2> QED
    BY <1>1, <2>1, <2>2
<1>3. ASSUME DeleteDocument PROVE same
  <2>1. {writing.doc} \in SUBSET Docs /\ {} \in SUBSET Docs /\ Observe({writing.doc}, {})
    BY <1>3, WriteEffect DEF DeleteDocument
  <2> HIDE DEF same
  <2> QED
    BY <1>1, <2>1
<1>4. ASSUME Flush PROVE same
  <2>1. Copies(buffer) \in SUBSET Docs /\ {} \in SUBSET Docs /\ Observe(Copies(buffer), {})
    BY <1>4 DEF Flush, Copies
  <2> HIDE DEF same
  <2> QED
    BY <1>1, <2>1
<1>5. ASSUME CommitMerge PROVE same
  <2>1. Docs \in SUBSET Docs /\ {} \in SUBSET Docs /\ Observe(Docs, {})
    BY <1>5 DEF CommitMerge
  <2> HIDE DEF same
  <2> QED
    BY <1>1, <2>1
<1>6. ASSUME Reset PROVE same
  BY <1>6, ResetView
<1>7. ASSUME PurgeTombstones PROVE same
  BY <1>7, PurgeView
<1>8. ASSUME Invalidate \/ Publish \/ StartMerge \/ UNCHANGED vars PROVE same
  <2>1. view' = view
    BY <1>8 DEF Invalidate, Publish, StartMerge, vars
  <2> QED
    BY <2>1
<1>9. same
  BY <1>2, <1>3, <1>4, <1>5, <1>6, <1>7, <1>8 DEF ShardStep
<1> QED
  BY <1>0, <1>9

\* What a search is still bound to find, a step of the shard has left alone.
LEMMA SettledKept ==
    ASSUME Typed, ShardStep, NEW s \in Searchers, NEW d \in Docs, d \in view'[s].settled
    PROVE  /\ latest'[d] = latest[d]
           /\ buffer[d] # 0 => buffer'[d] = buffer[d] /\ snapshot' = snapshot
           /\ \A i \in DOMAIN segments : i \in DOMAIN segments' /\ segments'[i] = segments[i]
<1> DEFINE kept == /\ latest'[d] = latest[d]
                   /\ buffer[d] # 0 => buffer'[d] = buffer[d] /\ snapshot' = snapshot
                   /\ \A i \in DOMAIN segments : i \in DOMAIN segments' /\ segments'[i] = segments[i]
<1>1. CASE IndexDocument
  <2>1. PICK new \in Copy, show \in SUBSET Docs :
              /\ writing.doc \in Docs
              /\ new = [buffer EXCEPT ![writing.doc] = clock + 1]
              /\ latest' = [latest EXCEPT ![writing.doc] = clock + 1]
              /\ UNCHANGED segments
              /\ \/ /\ buffer' = new /\ Observe({writing.doc}, show) /\ UNCHANGED snapshot
                 \/ Observe(Copies(new), show)
    BY <1>1, IndexEffect
  <2>2. latest \in Copy /\ buffer \in Copy /\ clock \in Nat
    BY DEF Typed, WritesTyped, BufferTyped
  <2>3. new[writing.doc] = clock + 1 /\ \A e \in Docs \ {writing.doc} : new[e] = buffer[e]
    BY <2>1, <2>2 DEF Copy
  <2>4. CASE buffer' = new /\ Observe({writing.doc}, show) /\ UNCHANGED snapshot
    <3>1. {writing.doc} \in SUBSET Docs
      BY <2>1
    <3>2. view'[s].settled = view[s].settled \ {writing.doc}
      BY <2>4, <3>1, ObserveSettled
    <3>3. d # writing.doc
      BY <3>2
    <3> QED
      BY <2>1, <2>2, <2>3, <2>4, <3>3 DEF Copy
  <2>5. CASE Observe(Copies(new), show)
    <3>1. Copies(new) \in SUBSET Docs
      BY DEF Copies
    <3>2. d \notin Copies(new)
      BY <2>5, <3>1, ObserveSettled
    <3>3. d # writing.doc /\ new[d] = 0
      BY <2>2, <2>3, <3>2 DEF Copies
    <3> QED
      BY <2>1, <2>2, <2>3, <3>3 DEF Copy
  <2> QED
    BY <2>1, <2>4, <2>5
<1>2. CASE DeleteDocument
  <2>1. writing.doc \in Docs /\ Observe({writing.doc}, {})
    BY <1>2, WriteEffect DEF DeleteDocument
  <2>2. {writing.doc} \in SUBSET Docs /\ {} \in SUBSET Docs
    BY <2>1
  <2>3. view'[s].settled = view[s].settled \ {writing.doc}
    BY <2>1, <2>2, ObserveSettled
  <2>4. d # writing.doc
    BY <2>3
  <2> QED
    BY <1>2, <2>1, <2>4 DEF DeleteDocument, Typed, WritesTyped, Copy
<1>3. CASE Flush
  <2>1. Copies(buffer) \in SUBSET Docs /\ {} \in SUBSET Docs /\ Observe(Copies(buffer), {})
    BY <1>3 DEF Flush, Copies
  <2>2. d \notin Copies(buffer)
    BY <2>1, ObserveSettled
  <2>3. PICK e \in Segment : segments' = Append(segments, e)
    BY <1>3, FlushEffect
  <2> QED
    BY <1>3, <2>2, <2>3, AppendEffect DEF Flush, Copies, written
<1>4. CASE CommitMerge
  <2>1. Docs \in SUBSET Docs /\ {} \in SUBSET Docs /\ Observe(Docs, {})
    BY <1>4 DEF CommitMerge
  <2>2. view'[s].settled = view[s].settled \ Docs
    BY <2>1, ObserveSettled
  <2> QED
    BY <2>2
<1>5. CASE Reset
  <2>1. view'[s].settled = {}
    BY <1>5, ResetView
  <2> QED
    BY <2>1
<1>6. CASE Publish
  <2>1. PICK e \in Segment : segments' = Append(segments, e)
    BY <1>6, FlushEffect
  <2> QED
    BY <1>6, <2>1, AppendEffect DEF Publish, written
<1>7. CASE PurgeTombstones \/ Invalidate \/ StartMerge \/ UNCHANGED vars
  BY <1>7 DEF PurgeTombstones, Invalidate, StartMerge, vars, written, shard
<1> QED
  BY <1>1, <1>2, <1>3, <1>4, <1>5, <1>6, <1>7 DEF ShardStep

-----------------------------------------------------------------------------
(* What the steps of a search leave to the shard.                          *)

LEMMA ShardKept ==
    ASSUME Typed, NEW s \in Searchers, SearchStep(s)
    PROVE  /\ UNCHANGED <<clock, latest, writing, buffer, inflight, tombstones, merge, moved>>
           /\ DOMAIN segments' = DOMAIN segments
           /\ \A i \in DOMAIN segments :
                 /\ segments'[i].copies = segments[i].copies /\ Id(segments'[i]) = Id(segments[i])
                 /\ segments[i].slot # Nil => segments'[i].slot = segments[i].slot
           /\ \/ UNCHANGED snapshot
              \/ snapshot' = buffer
<1>1. UNCHANGED <<clock, latest, writing, buffer, inflight, tombstones, merge, moved>>
  BY DEF SearchStep, BeginSearch, WriteBack, LoadFails, TakeView, Rebuild, Evaluate, Fill, shard, written
<1>2. /\ DOMAIN segments' = DOMAIN segments
      /\ \A i \in DOMAIN segments :
            /\ segments'[i].copies = segments[i].copies /\ Id(segments'[i]) = Id(segments[i])
            /\ segments[i].slot # Nil => segments'[i].slot = segments[i].slot
  <2>1. CASE WriteBack(s)
    BY <2>1, WriteBackEffect
  <2>2. CASE ~ WriteBack(s)
    <3>1. UNCHANGED segments
      BY <2>2 DEF SearchStep, BeginSearch, LoadFails, TakeView, Rebuild, Evaluate, Fill, shard
    <3> QED
      BY <3>1
  <2> QED
    BY <2>1, <2>2
<1>3. snapshot' = snapshot \/ snapshot' = buffer
  <2>1. CASE Rebuild(s)
    BY <2>1, RebuildEffect
  <2>2. CASE ~ Rebuild(s)
    BY <2>2 DEF SearchStep, BeginSearch, WriteBack, LoadFails, TakeView, Evaluate, Fill, shard
  <2> QED
    BY <2>1, <2>2
<1> QED
  BY <1>1, <1>2, <1>3

\* A search comes to hold the list when it takes its view.
LEMMA HeldStep ==
    ASSUME Typed, [Next]_vars, NEW t \in Searchers, NEW i \in DOMAIN Held(t)'
    PROVE  \/ i \in DOMAIN Held(t) /\ Held(t)'[i] = Held(t)[i]
           \/ i \in DOMAIN segments /\ Held(t)'[i] = segments[i]
<1>1. CASE ShardStep
  BY <1>1, ViewsKept DEF Held
<1>2. ASSUME NEW s \in Searchers, SearchStep(s), s # t
      PROVE  Held(t)' = Held(t)
  BY <1>2, OthersStay DEF Held
<1>3. CASE SearchStep(t)
  <2>1. CASE TakeView(t)
    <3>1. PICK v \in View : See(t, v) /\ v.segments = segments
      BY <2>1, TakeViewEffect
    <3>2. view'[t].segments = segments
      BY <3>1, SeeEffect
    <3> QED
      BY <3>2 DEF Held
  <2>2. CASE Rebuild(t)
    <3>1. PICK v \in View : See(t, v) /\ v.segments = view[t].segments
      BY <2>2, RebuildEffect
    <3>2. view'[t].segments = view[t].segments /\ pc[t] = "rebuild"
      BY <2>2, <3>1, SeeEffect DEF Rebuild
    <3> QED
      BY <3>2 DEF Held
  <2>3. CASE BeginSearch(t) \/ WriteBack(t) \/ LoadFails(t) \/ Evaluate(t) \/ Fill(t)
    <3>1. \E label \in {"load", "snapshot", "idle", "fill"} : Goto(t, label)
      BY <2>3 DEF BeginSearch, WriteBack, LoadFails, Evaluate, Fill, EndSearch
    <3>2. pc'[t] \in {"load", "snapshot", "idle", "fill"}
      BY <3>1, GotoEffect DEF Labels
    <3>3. Held(t)' = <<>>
      BY <3>2 DEF Held
    <3> QED
      BY <3>3
  <2> QED
    BY <1>3, <2>1, <2>2, <2>3 DEF SearchStep
<1> QED
  BY <1>1, <1>2, <1>3 DEF Next, ShardStep

\* The versions outside the buffer are the old ones, and those of a buffer that is taken.
LEMMA StoredStep ==
    ASSUME Typed, [Next]_vars, NEW d \in Docs, NEW v \in Stored(d)'
    PROVE  \/ v = 0 \/ v \in Stored(d)
           \/ /\ buffer'[d] = 0 /\ snapshot' = Nil
              /\ v = buffer[d] \/ (v = clock + 1 /\ clock' = v /\ latest'[d] = v)
<1> DEFINE old == v = 0 \/ v \in Stored(d)
           taken == /\ buffer'[d] = 0 /\ snapshot' = Nil
                    /\ v = buffer[d] \/ (v = clock + 1 /\ clock' = v /\ latest'[d] = v)
<1>1. /\ \A b \in inflight : b.copies[d] \in Stored(d)
      /\ \A i \in DOMAIN segments : segments[i].copies[d] \in Stored(d)
      /\ merge # Nil => merge.out.copies[d] \in Stored(d)
      /\ \A t \in Searchers : \A i \in DOMAIN Held(t) : Held(t)[i].copies[d] \in Stored(d)
  BY DEF Stored
<1>2. \/ \E b \in inflight' : v = b.copies[d]
      \/ \E i \in DOMAIN segments' : v = segments'[i].copies[d]
      \/ merge' # Nil /\ v = merge'.out.copies[d]
      \/ \E t \in Searchers : \E i \in DOMAIN Held(t)' : v = Held(t)'[i].copies[d]
  BY DEF Stored
<1>3. ASSUME NEW t \in Searchers, NEW i \in DOMAIN Held(t)', v = Held(t)'[i].copies[d] PROVE old
  BY <1>1, <1>3, HeldStep
<1>4. ASSUME NEW b \in inflight', v = b.copies[d] PROVE old \/ taken
  <2>1. CASE IndexDocument
    <3>1. PICK new \in Copy :
              /\ clock' = clock + 1 /\ writing.doc \in Docs
              /\ new = [buffer EXCEPT ![writing.doc] = clock + 1]
              /\ latest' = [latest EXCEPT ![writing.doc] = clock + 1]
              /\ \/ UNCHANGED inflight
                 \/ /\ inflight' = inflight \cup {[seq |-> clock + 1, copies |-> new]}
                    /\ buffer' = NoCopies /\ snapshot' = Nil
      BY <2>1, IndexEffect
    <3>2. new[d] = buffer[d] \/ (new[d] = clock + 1 /\ latest'[d] = clock + 1)
      BY <3>1 DEF Typed, BufferTyped, WritesTyped, Copy
    <3>3. NoCopies[d] = 0
      BY DEF NoCopies
    <3>4. b \in inflight \/ (b = [seq |-> clock + 1, copies |-> new] /\ buffer' = NoCopies /\ snapshot' = Nil)
      BY <1>4, <3>1
    <3>5. CASE b \in inflight
      BY <1>1, <1>4, <3>5
    <3>6. CASE b = [seq |-> clock + 1, copies |-> new] /\ buffer' = NoCopies /\ snapshot' = Nil
      <4>1. b.copies = new
        BY <3>6
      <4> QED
        BY <1>4, <3>1, <3>2, <3>3, <3>6, <4>1
    <3> QED
      BY <3>4, <3>5, <3>6
  <2>2. CASE ~ IndexDocument
    <3>1. inflight' \subseteq inflight
      BY <2>2, ShardKept DEF Next, vars, shard, Invalidate, DeleteDocument, Reset, Flush, Publish,
                  StartMerge, PurgeTombstones, CommitMerge
    <3> QED
      BY <1>1, <1>4, <3>1
  <2> QED
    BY <2>1, <2>2
<1>5. ASSUME NEW i \in DOMAIN segments', v = segments'[i].copies[d] PROVE old \/ taken
  <2>1. CASE Flush \/ Publish
    <3>1. PICK e \in Segment :
              /\ segments' = Append(segments, e)
              /\ e.copies = buffer \/ \E b \in inflight : e.copies = b.copies
      BY <2>1, FlushEffect
    <3>2. CASE i \in DOMAIN segments
      BY <1>1, <1>5, <3>1, <3>2, AppendEffect
    <3>3. CASE i \notin DOMAIN segments /\ \E b \in inflight : e.copies = b.copies
      BY <1>1, <1>5, <3>1, <3>3, AppendEffect
    <3>4. CASE i \notin DOMAIN segments /\ e.copies = buffer /\ Flush
      <4>1. v = buffer[d]
        BY <1>5, <3>1, <3>4, AppendEffect
      <4>2. buffer'[d] = 0 /\ snapshot' = Nil
        BY <3>4 DEF Flush, TakeBuffer, NoCopies
      <4> QED
        BY <4>1, <4>2
    <3>5. CASE i \notin DOMAIN segments /\ Publish
      <4>1. PICK b \in inflight : segments' = Append(segments, Unloaded(b.seq, b.copies))
        BY <3>5 DEF Publish
      <4>2. Unloaded(b.seq, b.copies) \in Segment /\ Unloaded(b.seq, b.copies).copies = b.copies
        BY DEF Unloaded, Segment, Slot, Typed, BufferTyped
      <4>3. segments'[i] = Unloaded(b.seq, b.copies)
        BY <3>5, <4>1, <4>2, AppendEffect
      <4> QED
        BY <1>1, <1>5, <4>2, <4>3
    <3> QED
      BY <2>1, <3>1, <3>2, <3>3, <3>4, <3>5
  <2>2. CASE CommitMerge
    <3>1. merge # Nil
      BY <2>2 DEF CommitMerge
    <3> QED
      BY <1>1, <1>5, <2>2, <3>1, CommitEffect
  <2>3. CASE Reset
    <3>1. segments' = <<>>
      BY <2>3 DEF Reset
    <3>2. DOMAIN segments' = {}
      BY <3>1
    <3> QED
      BY <3>2
  <2>4. CASE Invalidate \/ IndexDocument \/ DeleteDocument \/ StartMerge \/ PurgeTombstones
             \/ UNCHANGED vars
    <3>1. UNCHANGED segments
      BY <2>4 DEF Invalidate, IndexDocument, DeleteDocument, StartMerge, PurgeTombstones, vars, shard
    <3> QED
      BY <1>1, <1>5, <3>1
  <2>5. ASSUME NEW s \in Searchers, SearchStep(s) PROVE old
    BY <1>1, <1>5, <2>5, ShardKept
  <2> QED
    BY <2>1, <2>2, <2>3, <2>4, <2>5 DEF Next
<1>6. ASSUME merge' # Nil, v = merge'.out.copies[d] PROVE old
  <2>1. CASE StartMerge
    <3>1. v # 0 => \E i \in DOMAIN segments : segments[i].copies[d] = v
      BY <1>6, <2>1, StartMergeEffect
    <3> QED
      BY <1>1, <3>1
  <2>2. CASE PurgeTombstones
    <3>1. merge # Nil /\ merge \in Merge /\ merge' = [merge EXCEPT !.purged = TRUE]
      BY <2>2 DEF PurgeTombstones, Typed, SegmentsTyped
    <3>2. merge'.out = merge.out
      BY <3>1 DEF Merge
    <3> QED
      BY <1>1, <1>6, <3>1, <3>2
  <2>3. CASE ~ (StartMerge \/ PurgeTombstones \/ CommitMerge)
    <3>1. UNCHANGED merge
      BY <2>3, ShardKept DEF Next, vars, shard, Invalidate, IndexDocument, DeleteDocument, Reset, Flush,
                  Publish
    <3> QED
      BY <1>1, <1>6, <3>1
  <2>4. CASE CommitMerge
    BY <1>6, <2>4 DEF CommitMerge
  <2> QED
    BY <2>1, <2>2, <2>3, <2>4
<1> QED
  BY <1>2, <1>3, <1>4, <1>5, <1>6

-----------------------------------------------------------------------------
(* Copies in the buffer are the newest.                                    *)

LEMMA StoredTyped == ASSUME Typed, NEW d \in Docs, NEW v \in Stored(d) PROVE v \in Nat
<1>1. ASSUME NEW t \in Searchers, NEW i \in DOMAIN Held(t) PROVE Held(t)[i].copies[d] \in Nat
  <2>1. view[t].segments \in Seq(Segment)
    BY DEF Typed, SearchesTyped, View
  <2>2. Held(t) \in Seq(Segment)
    BY <2>1 DEF Held
  <2>3. Held(t)[i] \in Segment
    BY <2>2
  <2> QED
    BY <2>3 DEF Segment, Copy
<1>2. \A b \in inflight : b.copies[d] \in Nat
  BY DEF Typed, BufferTyped, Copy
<1>3. \A i \in DOMAIN segments : segments[i].copies[d] \in Nat
  BY Positions DEF Segment, Copy
<1>4. merge # Nil => merge.out.copies[d] \in Nat
  BY DEF Typed, SegmentsTyped, Merge, Segment, Copy
<1> QED
  BY <1>1, <1>2, <1>3, <1>4 DEF Stored

LEMMA BufferStep ==
    ASSUME Typed, [Next]_vars, NEW d \in Docs
    PROVE  /\ clock' = clock \/ clock' = clock + 1
           /\ \/ latest'[d] = latest[d] /\ (d \in tombstones' => d \in tombstones)
              \/ latest'[d] = latest[d] /\ latest[d] = 0
              \/ latest'[d] = 0
              \/ latest'[d] = clock' /\ d \notin tombstones' /\ clock' = clock + 1
           /\ \/ buffer'[d] = buffer[d] /\ (snapshot' = snapshot \/ snapshot' = buffer)
              \/ buffer'[d] = 0 /\ snapshot' = Nil
              \/ /\ buffer'[d] = clock + 1 /\ clock' = clock + 1 /\ latest'[d] = clock'
                 /\ snapshot' = snapshot
<1>0. NoCopies[d] = 0 /\ latest \in Copy /\ buffer \in Copy
  BY DEF NoCopies, Typed, WritesTyped, BufferTyped
<1>1. CASE IndexDocument
  <2>1. PICK new \in Copy :
           /\ writing.doc \in Docs /\ clock' = clock + 1
           /\ new = [buffer EXCEPT ![writing.doc] = clock + 1]
           /\ latest' = [latest EXCEPT ![writing.doc] = clock + 1]
           /\ tombstones' = tombstones \ {writing.doc}
           /\ \/ buffer' = new /\ snapshot' = snapshot
              \/ buffer' = NoCopies /\ snapshot' = Nil
    BY <1>1, IndexEffect
  <2>2. CASE d = writing.doc
    BY <1>0, <2>1, <2>2 DEF Copy
  <2>3. CASE d # writing.doc
    BY <1>0, <2>1, <2>3 DEF Copy
  <2> QED
    BY <2>2, <2>3
<1>2. CASE DeleteDocument
  <2>1. /\ clock' = clock + 1 /\ writing.doc \in Docs
        /\ latest' = [latest EXCEPT ![writing.doc] = 0]
        /\ tombstones' = tombstones \cup {writing.doc} /\ UNCHANGED <<buffer, snapshot>>
    BY <1>2, WriteEffect DEF DeleteDocument
  <2>2. CASE d = writing.doc
    BY <1>0, <2>1, <2>2 DEF Copy
  <2>3. CASE d # writing.doc
    BY <1>0, <2>1, <2>3 DEF Copy
  <2> QED
    BY <2>2, <2>3
<1>3. CASE Reset
  <2>1. /\ clock' = clock + 1 /\ latest' = NoCopies /\ buffer' = NoCopies /\ snapshot' = Nil
    BY <1>3, WriteEffect DEF Reset, TakeBuffer
  <2> QED
    BY <1>0, <2>1
<1>4. CASE Flush
  <2>1. /\ UNCHANGED <<clock, latest, tombstones>> /\ buffer' = NoCopies /\ snapshot' = Nil
    BY <1>4 DEF Flush, TakeBuffer, written
  <2> QED
    BY <1>0, <2>1
<1>5. CASE Invalidate \/ Publish \/ StartMerge \/ PurgeTombstones \/ CommitMerge \/ UNCHANGED vars
  <2>1. UNCHANGED <<clock, latest, buffer, snapshot>> /\ tombstones' \subseteq tombstones
    BY <1>5 DEF Invalidate, Publish, StartMerge, PurgeTombstones, CommitMerge, vars, written, shard
  <2> QED
    BY <2>1
<1>6. ASSUME NEW s \in Searchers, SearchStep(s)
      PROVE  /\ UNCHANGED <<clock, latest, buffer, tombstones>>
             /\ snapshot' = snapshot \/ snapshot' = buffer
  BY <1>6, ShardKept
<1>7. CASE \E s \in Searchers : SearchStep(s)
  BY <1>6, <1>7
<1> QED
  BY <1>1, <1>2, <1>3, <1>4, <1>5, <1>7 DEF Next

\* What is known stays known.
LEMMA KnownKept ==
    ASSUME Typed, [Next]_vars, NEW d \in Docs, NEW v \in Nat, Known(d, v) PROVE Known(d, v)'
<1>1. clock \in Nat /\ latest[d] \in Nat /\ clock' \in Nat
  BY NextTyped DEF Typed, WritesTyped, Copy
<1> QED
  BY <1>1, BufferStep DEF Known

\* The part of Ordered that is about one search.
OrderedIn(s, d) ==
    pc[s] = "evaluate" /\ view[s].snapshot # Nil =>
       /\ Known(d, view[s].snapshot[d])
       /\ view[s].snapshot[d] # 0 =>
             \A i \in DOMAIN view[s].segments : view[s].segments[i].copies[d] < view[s].snapshot[d]

LEMMA SearchOrdered ==
    ASSUME Typed, SnapshotInv, [Next]_vars, NEW d \in Docs, Ordered(d), NEW s \in Searchers
    PROVE  OrderedIn(s, d)'
<1>0. OrderedIn(s, d) /\ Typed'
  BY NextTyped DEF Ordered, OrderedIn
<1>1. ASSUME pc'[s] = pc[s], view'[s].segments = view[s].segments, view'[s].snapshot = view[s].snapshot
      PROVE  OrderedIn(s, d)'
  <2> SUFFICES ASSUME pc[s] = "evaluate", view[s].snapshot # Nil PROVE OrderedIn(s, d)'
    BY <1>1 DEF OrderedIn
  <2>1. Known(d, view[s].snapshot[d]) /\ view[s].snapshot[d] \in Nat
    BY <1>0 DEF OrderedIn, Typed, SearchesTyped, View, Slot, Copy
  <2>2. Known(d, view[s].snapshot[d])'
    BY <1>1, <2>1, KnownKept DEF Known
  <2> QED
    BY <1>0, <1>1, <2>2 DEF OrderedIn
<1>2. CASE ShardStep
  <2>1. pc'[s] = pc[s] /\ view'[s].segments = view[s].segments /\ view'[s].snapshot = view[s].snapshot
    BY <1>2, ViewsKept
  <2> QED
    BY <1>1, <2>1
<1>3. ASSUME NEW t \in Searchers, SearchStep(t), t # s PROVE OrderedIn(s, d)'
  <2>1. pc'[s] = pc[s] /\ view'[s] = view[s]
    BY <1>3, OthersStay
  <2> QED
    BY <1>1, <2>1
\* A snapshot that becomes the search's, over the segments it holds.
<1>4. ASSUME view'[s].snapshot = snapshot \/ view'[s].snapshot = buffer, UNCHANGED <<clock, latest>>,
             \A i \in DOMAIN view'[s].segments : view'[s].segments[i].copies[d] \in Stored(d)
      PROVE  OrderedIn(s, d)'
  <2>1. /\ buffer[d] \in Nat /\ latest[d] \in Nat /\ clock \in Nat
        /\ snapshot # Nil => snapshot[d] \in Nat
    BY DEF Typed, WritesTyped, BufferTyped, Slot, Copy
  <2>2. snapshot # Nil => snapshot[d] <= buffer[d]
    BY DEF SnapshotInv
  <2>3. Known(d, buffer[d]) /\ (snapshot # Nil => Known(d, snapshot[d]))
    BY <2>1, <2>2 DEF Ordered, Known
  <2>4. \A v \in Stored(d) : /\ buffer[d] # 0 => v < buffer[d]
                             /\ snapshot # Nil /\ snapshot[d] # 0 => v < snapshot[d]
    BY DEF Ordered
  <2> QED
    BY <1>4, <2>3, <2>4 DEF OrderedIn, Known
<1>5. CASE TakeView(s)
  <2>1. PICK v \in View : See(s, v) /\ v.segments = segments /\ v.snapshot = snapshot
    BY <1>5, TakeViewEffect
  <2>2. view'[s] = v
    BY <2>1, SeeEffect
  <2>3. UNCHANGED <<clock, latest>>
    BY <1>5 DEF TakeView, written
  <2>4. \A i \in DOMAIN segments : segments[i].copies[d] \in Stored(d)
    BY DEF Stored
  <2> QED
    BY <1>4, <2>1, <2>2, <2>3, <2>4
<1>6. CASE Rebuild(s)
  <2>1. PICK v \in View : See(s, v) /\ v.segments = view[s].segments /\ v.snapshot = snapshot'
    BY <1>6, RebuildEffect
  <2>2. view'[s] = v /\ (snapshot' = buffer \/ snapshot' = snapshot)
    BY <1>6, <2>1, SeeEffect, RebuildEffect
  <2>3. UNCHANGED <<clock, latest>> /\ pc[s] = "rebuild"
    BY <1>6 DEF Rebuild, written
  <2>4. \A i \in DOMAIN view[s].segments : view[s].segments[i].copies[d] \in Stored(d)
    <3>1. Held(s) = view[s].segments
      BY <2>3 DEF Held
    <3> QED
      BY <3>1 DEF Stored
  <2> QED
    BY <1>4, <2>1, <2>2, <2>3, <2>4
<1>7. CASE BeginSearch(s) \/ WriteBack(s) \/ LoadFails(s) \/ Evaluate(s) \/ Fill(s)
  <2>1. PICK label \in Labels \ {"evaluate"} : Goto(s, label)
    BY <1>7 DEF BeginSearch, WriteBack, LoadFails, Evaluate, Fill, EndSearch, Labels
  <2>2. pc'[s] # "evaluate"
    BY <2>1, GotoEffect
  <2> QED
    BY <2>2 DEF OrderedIn
<1> QED
  BY <1>2, <1>3, <1>5, <1>6, <1>7 DEF Next, ShardStep, SearchStep

LEMMA NextAge == Typed /\ SnapshotInv /\ AgeInv /\ [Next]_vars => AgeInv'
<1> SUFFICES ASSUME Typed, SnapshotInv, AgeInv, [Next]_vars, NEW d \in Docs PROVE Ordered(d)'
  BY DEF AgeInv
<1>1. Ordered(d)
  BY DEF AgeInv
<1>2. \A s \in Searchers : OrderedIn(s, d)'
  BY <1>1, SearchOrdered
<1>3. /\ clock \in Nat /\ latest[d] \in Nat /\ buffer[d] \in Nat
      /\ snapshot # Nil => snapshot[d] \in Nat
  BY DEF Typed, WritesTyped, BufferTyped, Slot, Copy
<1>4. latest'[d] # 0 => d \notin tombstones'
  BY <1>1, BufferStep DEF Ordered
<1>5. Known(d, latest[d])'
  BY <1>1, <1>3, BufferStep DEF Ordered, Known
<1>6. Known(d, buffer[d])'
  <2>1. Known(d, buffer[d]) => (buffer[d] <= clock' /\ (latest'[d] # 0 => buffer[d] <= latest'[d]))
    BY <1>3, BufferStep DEF Known
  <2>2. Known(d, buffer[d])
    BY <1>1 DEF Ordered
  <2>3. clock' \in Nat /\ latest'[d] \in Nat
    BY NextTyped DEF Typed, WritesTyped, Copy
  <2> QED
    BY <1>3, <2>1, <2>2, <2>3, BufferStep DEF Known
<1>7. ASSUME NEW v \in Stored(d)'
      PROVE  /\ Known(d, v)' /\ (buffer'[d] # 0 => v < buffer'[d])
             /\ snapshot' # Nil /\ snapshot'[d] # 0 => v < snapshot'[d]
  <2>1. CASE v = 0 \/ v \in Stored(d)
    <3>1. v \in Nat
      BY <2>1, StoredTyped
    <3>2. /\ Known(d, v) /\ (buffer[d] # 0 => v < buffer[d])
          /\ snapshot # Nil /\ snapshot[d] # 0 => v < snapshot[d]
      BY <1>1, <1>3, <2>1 DEF Ordered, Known
    <3>3. Known(d, v)'
      BY <3>1, <3>2, KnownKept
    <3>4. buffer'[d] # 0 => v < buffer'[d]
      BY <1>3, <3>1, <3>2, BufferStep DEF Known
    <3>5. snapshot' # Nil /\ snapshot'[d] # 0 => v < snapshot'[d]
      BY <1>3, <3>1, <3>2, BufferStep
    <3> QED
      BY <3>3, <3>4, <3>5
  <2>2. CASE /\ buffer'[d] = 0 /\ snapshot' = Nil
             /\ v = buffer[d] \/ (v = clock + 1 /\ clock' = v /\ latest'[d] = v)
    <3>1. Known(d, v)'
      <4>1. CASE v = buffer[d]
        BY <1>1, <1>3, <4>1, KnownKept DEF Ordered
      <4>2. CASE v = clock + 1 /\ clock' = v /\ latest'[d] = v
        BY <1>3, <4>2 DEF Known
      <4> QED
        BY <2>2, <4>1, <4>2
    <3> QED
      BY <2>2, <3>1
  <2> QED
    BY <2>1, <2>2, StoredStep
<1> QED
  BY <1>2, <1>4, <1>5, <1>6, <1>7 DEF Ordered, OrderedIn

-----------------------------------------------------------------------------
(* Flush sequences.                                                        *)

Distinct(l) == \A i, j \in DOMAIN l : i # j => l[i].seq # l[j].seq

\* A flush of the buffer would have a higher sequence.
Early(n) == n <= clock /\ (Copies(buffer) # {} => n < clock)

\* Segments, present and to come, have flush sequences of their own, and a merge's
\* output takes one of its inputs'.
ListInv ==
    /\ Distinct(segments)
    /\ \A i \in DOMAIN segments : Early(segments[i].seq)
    /\ \A b \in inflight : /\ Early(b.seq)
                           /\ \A i \in DOMAIN segments : segments[i].seq # b.seq
                           /\ \A c \in inflight : b # c => b.seq # c.seq
    /\ merge # Nil => /\ merge.inputs \subseteq Ids(DOMAIN segments)
                      /\ \E x \in merge.inputs : x.seq = merge.out.seq

\* What a search has taken.
ViewFits(s) ==
    pc[s] \in {"rebuild", "evaluate", "fill"} =>
       /\ Distinct(view[s].segments)
       /\ \A i \in DOMAIN view[s].segments :
             /\ view[s].segments[i].seq <= clock
             /\ view[s].segments[i].slot \in {Nil, view[s].segments[i].copies}

SeqInv == moved \/ (ListInv /\ \A s \in Searchers : ViewFits(s))

LEMMA IdsOf == Ids(DOMAIN segments) = {Id(segments[i]) : i \in DOMAIN segments}
BY DEF Ids, Id

LEMMA SeqTyped ==
    ASSUME Typed
    PROVE  /\ clock \in Nat
           /\ \A i \in DOMAIN segments : segments[i].seq \in Nat
           /\ \A b \in inflight : b.seq \in Nat
BY Positions DEF Typed, WritesTyped, BufferTyped, Segment

LEMMA EarlyKept ==
    ASSUME Typed, NEW n \in Nat, Early(n),
           clock' = clock + 1 \/ (clock' = clock /\ buffer' \in {buffer, NoCopies})
    PROVE  Early(n)'
<1>1. Copies(NoCopies) = {}
  BY DEF Copies, NoCopies
<1>2. Copies(buffer)' = Copies(buffer')
  BY DEF Copies
<1> QED
  BY <1>1, <1>2, SeqTyped DEF Early

\* The list grows by a segment with a sequence of its own.
LEMMA AppendList ==
    ASSUME Typed, ListInv, NEW e \in Segment, segments' = Append(segments, e),
           \A i \in DOMAIN segments : segments[i].seq # e.seq,
           Early(e.seq)', clock' = clock, buffer' \in {buffer, NoCopies},
           inflight' \subseteq inflight, \A b \in inflight' : b.seq # e.seq,
           UNCHANGED merge
    PROVE  ListInv'
<1>1. /\ \A i \in DOMAIN segments : i \in DOMAIN segments' /\ segments'[i] = segments[i]
      /\ \A i \in DOMAIN segments' : i \in DOMAIN segments \/ segments'[i] = e
  BY AppendEffect
<1>2. DOMAIN segments' = 1 .. Len(segments) + 1 /\ DOMAIN segments = 1 .. Len(segments)
      /\ Len(segments) \in Nat
  BY DEF Typed, SegmentsTyped
<1>3. Distinct(segments)'
  <2> SUFFICES ASSUME NEW i \in DOMAIN segments', NEW j \in DOMAIN segments', i # j
               PROVE  segments'[i].seq # segments'[j].seq
    BY DEF Distinct
  <2>1. i \in DOMAIN segments \/ j \in DOMAIN segments
    BY <1>2
  <2> QED
    BY <1>1, <2>1 DEF ListInv, Distinct
<1>4. ASSUME NEW i \in DOMAIN segments' PROVE Early(segments[i].seq)'
  <2>1. CASE i \in DOMAIN segments
    <3>1. Early(segments[i].seq) /\ segments[i].seq \in Nat /\ segments'[i] = segments[i]
      BY <1>1, <2>1, SeqTyped DEF ListInv
    <3> DEFINE n == segments[i].seq
    <3>2. n \in Nat /\ Early(n) /\ n <= clock
      BY <3>1 DEF Early
    <3>3. Copies(buffer)' \in {Copies(buffer), {}}
      BY DEF Copies, NoCopies
    <3>4. segments'[i].seq <= clock' /\ (Copies(buffer)' # {} => segments'[i].seq < clock')
      BY <3>1, <3>2, <3>3 DEF Early
    <3> QED
      BY <3>4 DEF Early
  <2>2. CASE i \notin DOMAIN segments
    <3>1. segments'[i] = e
      BY <1>1, <2>2
    <3> QED
      BY <3>1 DEF Early
  <2> QED
    BY <2>1, <2>2
<1>5. ASSUME NEW b \in inflight'
      PROVE  /\ Early(b.seq)'
             /\ \A i \in DOMAIN segments' : segments'[i].seq # b.seq
             /\ \A c \in inflight' : b # c => b.seq # c.seq
  <2>1. b \in inflight /\ Early(b.seq) /\ b.seq \in Nat
    BY SeqTyped DEF ListInv
  <2>2. Early(b.seq)'
    BY <2>1, EarlyKept
  <2> QED
    BY <1>1, <2>1, <2>2 DEF ListInv
<1>6. Ids(DOMAIN segments) \subseteq Ids(DOMAIN segments)'
  <2>1. Ids(DOMAIN segments)' = {Id(segments'[i]) : i \in DOMAIN segments'}
    BY DEF Ids, Id
  <2> QED
    BY <1>1, <2>1, IdsOf
<1> QED
  BY <1>3, <1>4, <1>5, <1>6 DEF ListInv

LEMMA FlushList ==
    ASSUME Typed, ListInv, Flush \/ Publish PROVE ListInv'
<1>1. CASE Flush
  <2>1. PICK e \in Segment : e = Unloaded(clock, buffer) /\ e.seq = clock
    <3>1. Unloaded(clock, buffer) \in Segment /\ Unloaded(clock, buffer).seq = clock
      BY DEF Unloaded, Segment, Slot, Typed, WritesTyped, BufferTyped
    <3> QED
      BY <3>1
  <2>2. /\ segments' = Append(segments, e) /\ clock' = clock /\ buffer' = NoCopies
        /\ UNCHANGED <<inflight, merge>> /\ Copies(buffer) # {}
    BY <1>1, <2>1 DEF Flush, TakeBuffer, written
  <2>3. Copies(buffer)' = {}
    BY <2>2 DEF Copies, NoCopies
  <2>4. Early(e.seq)'
    BY <2>1, <2>2, <2>3, SeqTyped DEF Early
  <2>5. \A i \in DOMAIN segments : segments[i].seq # e.seq
    BY <2>1, <2>2, SeqTyped DEF ListInv, Early
  <2>6. \A b \in inflight' : b.seq # e.seq
    BY <2>1, <2>2, SeqTyped DEF ListInv, Early
  <2> QED
    BY <2>1, <2>2, <2>4, <2>5, <2>6, AppendList
<1>2. CASE Publish
  <2>1. PICK b \in inflight :
          /\ segments' = Append(segments, Unloaded(b.seq, b.copies))
          /\ inflight' = inflight \ {b} /\ UNCHANGED <<clock, buffer, merge>>
    BY <1>2 DEF Publish, written
  <2>2. PICK e \in Segment : e = Unloaded(b.seq, b.copies) /\ e.seq = b.seq
    <3>1. Unloaded(b.seq, b.copies) \in Segment /\ Unloaded(b.seq, b.copies).seq = b.seq
      BY DEF Unloaded, Segment, Slot, Typed, BufferTyped
    <3> QED
      BY <3>1
  <2>3. Early(e.seq)'
    BY <2>1, <2>2 DEF ListInv, Early, Copies
  <2>4. \A i \in DOMAIN segments : segments[i].seq # e.seq
    BY <2>2 DEF ListInv
  <2>5. \A c \in inflight' : c.seq # e.seq
    BY <2>1, <2>2 DEF ListInv
  <2> QED
    BY <2>1, <2>2, <2>3, <2>4, <2>5, AppendList
<1> QED
  BY <1>1, <1>2

\* A document is written: the clock moves past every sequence.
LEMMA WriteList ==
    ASSUME Typed, ListInv, IndexDocument \/ DeleteDocument PROVE ListInv'
<1>1. clock' = clock + 1 /\ UNCHANGED <<segments, merge>> /\ clock \in Nat
  BY WriteEffect, SeqTyped DEF IndexDocument, DeleteDocument
<1>2. \/ inflight' = inflight
      \/ \E e : /\ inflight' = inflight \cup {e} /\ e.seq = clock + 1 /\ buffer' = NoCopies
  <2>1. CASE IndexDocument
    BY <2>1, IndexEffect
  <2>2. CASE DeleteDocument
    BY <2>2 DEF DeleteDocument
  <2> QED
    BY <2>1, <2>2
<1>3. /\ \A i \in DOMAIN segments : Early(segments[i].seq)'
      /\ \A b \in inflight : Early(b.seq)'
  <2>1. ASSUME NEW i \in DOMAIN segments PROVE Early(segments[i].seq)'
    <3>1. Early(segments[i].seq) /\ segments[i].seq \in Nat
      BY SeqTyped DEF ListInv
    <3>2. segments[i].seq < clock + 1
      BY <1>1, <3>1 DEF Early
    <3> QED
      BY <1>1, <3>1, <3>2 DEF Early
  <2>2. ASSUME NEW b \in inflight PROVE Early(b.seq)'
    <3>1. Early(b.seq) /\ b.seq \in Nat
      BY SeqTyped DEF ListInv
    <3> QED
      BY <1>1, <3>1 DEF Early
  <2> QED
    BY <2>1, <2>2
<1>5. Distinct(segments)' /\ Ids(DOMAIN segments)' = Ids(DOMAIN segments)
  BY <1>1 DEF ListInv, Distinct, Ids
<1>6. CASE inflight' = inflight
  BY <1>1, <1>3, <1>5, <1>6 DEF ListInv
<1>7. ASSUME NEW e, inflight' = inflight \cup {e}, e.seq = clock + 1, buffer' = NoCopies
      PROVE  ListInv'
  <2>1. Copies(buffer)' = {}
    BY <1>7 DEF Copies, NoCopies
  <2>2. Early(e.seq)'
    BY <1>1, <1>7, <2>1 DEF Early
  <2>3. /\ \A i \in DOMAIN segments : segments[i].seq # e.seq
        /\ \A b \in inflight : b.seq # e.seq
    BY <1>1, <1>7, SeqTyped DEF ListInv, Early
  <2>4. \A b \in inflight' : /\ Early(b.seq)'
                             /\ \A i \in DOMAIN segments' : segments'[i].seq # b.seq
                             /\ \A c \in inflight' : b # c => b.seq # c.seq
    BY <1>1, <1>3, <1>7, <2>2, <2>3 DEF ListInv
  <2> QED
    BY <1>1, <1>3, <1>5, <2>4 DEF ListInv
<1> QED
  BY <1>2, <1>6, <1>7

\* The exchange keeps segments apart: the output's sequence is that of an input.
LEMMA CommitList ==
    ASSUME Typed, ListInv, CommitMerge PROVE ListInv'
<1>1. PICK n \in Nat : \E place \in [1 .. n -> DOMAIN segments] :
         /\ DOMAIN segments' = 1 .. n + 1 /\ segments'[n + 1] = merge.out
         /\ \A k \in 1 .. n : /\ segments'[k] = segments[place[k]]
                              /\ Id(segments[place[k]]) \notin merge.inputs
         /\ \A k, l \in 1 .. n : k < l => place[k] < place[l]
  BY CommitEffect
<1>0. PICK place \in [1 .. n -> DOMAIN segments] :
         /\ DOMAIN segments' = 1 .. n + 1 /\ segments'[n + 1] = merge.out
         /\ \A k \in 1 .. n : /\ segments'[k] = segments[place[k]]
                              /\ Id(segments[place[k]]) \notin merge.inputs
         /\ \A k, l \in 1 .. n : k < l => place[k] < place[l]
  BY <1>1
<1>2. /\ merge # Nil /\ merge' = Nil /\ UNCHANGED <<clock, buffer, inflight>>
  BY DEF CommitMerge, written
<1>3. PICK o \in DOMAIN segments : /\ Id(segments[o]) \in merge.inputs
                                   /\ segments[o].seq = merge.out.seq
  <2>1. PICK x \in merge.inputs : x.seq = merge.out.seq
    BY <1>2 DEF ListInv
  <2>2. PICK i \in DOMAIN segments : x = Id(segments[i])
    BY <1>2, <2>1, IdsOf DEF ListInv
  <2>3. x.seq = segments[i].seq
    BY <2>2 DEF Id
  <2> QED
    BY <2>1, <2>2, <2>3
<1>4. \A k \in 1 .. n : place[k] \in DOMAIN segments /\ place[k] # o /\ place[k] \in Nat
  BY <1>0, <1>3, Positions
<1>5. \A k \in 1 .. n : segments'[k].seq # merge.out.seq
  BY <1>0, <1>3, <1>4 DEF ListInv, Distinct
<1>6. \A k, l \in 1 .. n : k # l => place[k] # place[l]
  <2> SUFFICES ASSUME NEW k \in 1 .. n, NEW l \in 1 .. n, k # l PROVE place[k] # place[l]
    OBVIOUS
  <2>1. k < l \/ l < k
    OBVIOUS
  <2> QED
    BY <1>0, <1>4, <2>1
<1>7. \A k, l \in 1 .. n : k # l => segments'[k].seq # segments'[l].seq
  BY <1>0, <1>4, <1>6 DEF ListInv, Distinct
<1>8. Distinct(segments)'
  <2> SUFFICES ASSUME NEW k \in DOMAIN segments', NEW l \in DOMAIN segments', k # l
               PROVE  segments'[k].seq # segments'[l].seq
    BY DEF Distinct
  <2>1. (k \in 1 .. n \/ k = n + 1) /\ (l \in 1 .. n \/ l = n + 1)
    BY <1>0
  <2> QED
    BY <1>0, <1>5, <1>7, <2>1
<1>9. ASSUME NEW k \in DOMAIN segments'
      PROVE  \E i \in DOMAIN segments : segments'[k].seq = segments[i].seq
  <2>1. k \in 1 .. n \/ k = n + 1
    BY <1>0
  <2> QED
    BY <1>0, <1>3, <1>4, <2>1
<1>10. Copies(buffer)' = Copies(buffer)
  BY <1>2 DEF Copies
<1>11. ASSUME NEW k \in DOMAIN segments' PROVE Early(segments[k].seq)'
  <2>1. PICK i \in DOMAIN segments : segments'[k].seq = segments[i].seq
    BY <1>9
  <2>2. Early(segments[i].seq)
    BY DEF ListInv
  <2> QED
    BY <1>2, <1>10, <2>1, <2>2 DEF Early
<1>12. ASSUME NEW b \in inflight'
       PROVE  /\ Early(b.seq)'
              /\ \A k \in DOMAIN segments' : segments'[k].seq # b.seq
              /\ \A c \in inflight' : b # c => b.seq # c.seq
  BY <1>2, <1>9, <1>10 DEF ListInv, Early
<1> QED
  BY <1>2, <1>8, <1>11, <1>12 DEF ListInv

LEMMA OtherList ==
    ASSUME Typed, ListInv, UNCHANGED <<clock, buffer, inflight>>,
           DOMAIN segments' = DOMAIN segments,
           \A i \in DOMAIN segments : Id(segments'[i]) = Id(segments[i]),
           merge' # Nil => /\ merge'.inputs \subseteq Ids(DOMAIN segments)
                           /\ \E x \in merge'.inputs : x.seq = merge'.out.seq
    PROVE  ListInv'
<1>1. \A i \in DOMAIN segments : segments'[i].seq = segments[i].seq
  BY DEF Id
<1>2. Ids(DOMAIN segments)' = Ids(DOMAIN segments)
  <2>1. Ids(DOMAIN segments)' = {Id(segments'[i]) : i \in DOMAIN segments'}
    BY DEF Ids, Id
  <2> QED
    BY <2>1, IdsOf
<1>3. Distinct(segments)'
  BY <1>1 DEF ListInv, Distinct
<1>4. \A n : Early(n) => Early(n)'
  BY DEF Early, Copies
<1>5. \A i \in DOMAIN segments' : Early(segments[i].seq)'
  BY <1>1 DEF ListInv, Early, Copies
<1>6. \A b \in inflight' : /\ Early(b.seq)'
                           /\ \A i \in DOMAIN segments' : segments'[i].seq # b.seq
                           /\ \A c \in inflight' : b # c => b.seq # c.seq
  BY <1>1, <1>4 DEF ListInv
<1> QED
  BY <1>2, <1>3, <1>5, <1>6 DEF ListInv

LEMMA NextList ==
    ASSUME Typed, ListInv, [Next]_vars, ~ moved' PROVE ListInv'
<1>1. CASE Reset
  <2>1. merge = Nil /\ UNCHANGED merge /\ inflight' = {} /\ segments' = <<>>
    BY <1>1 DEF Reset
  <2> QED
    BY <2>1 DEF ListInv, Distinct
<1>2. CASE StartMerge
  <2>1. UNCHANGED <<clock, buffer, inflight, segments>>
    BY <1>2 DEF StartMerge, written
  <2> QED
    BY <1>2, <2>1, StartMergeEffect, OtherList
<1>3. CASE PurgeTombstones
  <2>1. merge # Nil /\ merge \in Merge /\ merge' = [merge EXCEPT !.purged = TRUE]
    BY <1>3 DEF PurgeTombstones, Typed, SegmentsTyped
  <2>2. merge'.out = merge.out /\ merge'.inputs = merge.inputs
    BY <2>1 DEF Merge
  <2>3. UNCHANGED <<clock, buffer, inflight, segments>>
    BY <1>3 DEF PurgeTombstones, written
  <2>4. /\ merge'.inputs \subseteq Ids(DOMAIN segments)
        /\ \E x \in merge'.inputs : x.seq = merge'.out.seq
    BY <2>1, <2>2 DEF ListInv
  <2> QED
    BY <2>3, <2>4, OtherList
<1>4. CASE Invalidate \/ UNCHANGED vars
  <2>1. UNCHANGED <<clock, buffer, inflight, segments, merge>>
    BY <1>4 DEF Invalidate, vars, written, shard
  <2> QED
    BY <2>1, OtherList DEF ListInv
<1>5. ASSUME NEW s \in Searchers, SearchStep(s) PROVE ListInv'
  <2>1. UNCHANGED <<clock, buffer, inflight, merge>> /\ DOMAIN segments' = DOMAIN segments
        /\ \A i \in DOMAIN segments : Id(segments'[i]) = Id(segments[i])
    BY <1>5, ShardKept
  <2> QED
    BY <2>1, OtherList DEF ListInv
<1> QED
  BY <1>1, <1>2, <1>3, <1>4, <1>5, WriteList, FlushList, CommitList DEF Next

LEMMA ClockStep == ASSUME Typed, [Next]_vars PROVE clock' = clock \/ clock' = clock + 1
<1>1. CASE IndexDocument \/ DeleteDocument \/ Reset
  BY <1>1, ScoreStep, WriteEffect
<1>2. CASE ~ (IndexDocument \/ DeleteDocument \/ Reset)
  BY <1>2, ShardKept DEF Next, vars, written, Invalidate, Flush, Publish, StartMerge, PurgeTombstones,
                         CommitMerge
<1> QED
  BY <1>1, <1>2

\* A search that takes its view takes a list whose segments are apart.
LEMMA NextSeq == Typed /\ SlotInv /\ SeqInv /\ [Next]_vars => SeqInv'
<1> SUFFICES ASSUME Typed, SlotInv, SeqInv, [Next]_vars, ~ moved' PROVE SeqInv'
  BY DEF SeqInv
<1>1. ~ moved /\ ListInv /\ ListInv' /\ \A s \in Searchers : ViewFits(s)
  BY MovedStays, NextList DEF SeqInv
<1>2. clock \in Nat /\ clock' \in Nat /\ clock <= clock'
  BY NextTyped, ClockStep DEF Typed, WritesTyped
<1> SUFFICES ASSUME NEW s \in Searchers PROVE ViewFits(s)'
  BY <1>1 DEF SeqInv
<1>3. \A i \in DOMAIN view[s].segments : view[s].segments[i].seq \in Nat
  <2>1. view[s].segments \in Seq(Segment)
    BY DEF Typed, SearchesTyped, View
  <2>2. \A i \in DOMAIN view[s].segments : view[s].segments[i] \in Segment
    BY <2>1
  <2> QED
    BY <2>2 DEF Segment
<1>4. ASSUME pc'[s] \in {"rebuild", "evaluate", "fill"} => pc[s] \in {"rebuild", "evaluate", "fill"},
             view'[s].segments = view[s].segments
      PROVE  ViewFits(s)'
  BY <1>1, <1>2, <1>3, <1>4 DEF ViewFits, Distinct
<1>5. CASE ShardStep
  <2>1. pc' = pc /\ view'[s].segments = view[s].segments
    BY <1>5, ViewsKept
  <2> QED
    BY <1>4, <2>1
<1>6. ASSUME NEW t \in Searchers, SearchStep(t), t # s PROVE ViewFits(s)'
  <2>1. pc'[s] = pc[s] /\ view'[s] = view[s]
    BY <1>6, OthersStay
  <2> QED
    BY <1>4, <2>1
<1>7. CASE TakeView(s)
  <2>1. PICK v \in View : See(s, v) /\ v.segments = segments
    BY <1>7, TakeViewEffect
  <2>2. view'[s].segments = segments
    BY <2>1, SeeEffect
  <2>3. \A i \in DOMAIN segments : segments[i].seq <= clock /\ segments[i].slot \in {Nil, segments[i].copies}
    BY <1>1 DEF ListInv, Early, SlotInv, SlotsFit
  <2>4. Distinct(segments) /\ \A i \in DOMAIN segments : segments[i].seq \in Nat
    BY <1>1, SeqTyped DEF ListInv
  <2> QED
    BY <1>2, <2>2, <2>3, <2>4 DEF ViewFits, Distinct
<1>8. CASE Rebuild(s)
  <2>1. PICK v \in View : See(s, v) /\ v.segments = view[s].segments
    BY <1>8, RebuildEffect
  <2>2. view'[s].segments = view[s].segments /\ pc[s] = "rebuild"
    BY <1>8, <2>1, SeeEffect DEF Rebuild
  <2> QED
    BY <1>4, <2>2
<1>9. CASE Evaluate(s)
  <2>1. PICK v \in View : See(s, v) /\ v.segments = view[s].segments
    BY <1>9, EvaluateEffect
  <2>2. view'[s].segments = view[s].segments /\ pc[s] = "evaluate"
    BY <1>9, <2>1, SeeEffect DEF Evaluate
  <2> QED
    BY <1>4, <2>2
<1>10. CASE BeginSearch(s) \/ WriteBack(s) \/ LoadFails(s) \/ Fill(s)
  <2>1. PICK label \in {"load", "snapshot", "idle"} : Goto(s, label)
    BY <1>10 DEF BeginSearch, WriteBack, LoadFails, Fill, EndSearch
  <2>2. pc'[s] \in {"load", "snapshot", "idle"}
    BY <2>1, GotoEffect DEF Labels
  <2> QED
    BY <2>2 DEF ViewFits
<1> QED
  BY <1>5, <1>6, <1>7, <1>8, <1>9, <1>10 DEF Next, ShardStep, SearchStep

-----------------------------------------------------------------------------
(* What a search has to find is in its way.                                *)

\* The last version of d is in a loaded segment of a list, or in one to be loaded.
Listed(l, coming, d) ==
    \E i \in DOMAIN l : l[i].copies[d] = latest[d] /\ (l[i].slot # Nil \/ i \in coming)

\* It is in the buffer, and in the snapshot that the search will use.
Due(s, d) == buffer[d] = latest[d] /\ (snapshot = Nil \/ view[s].due \/ snapshot[d] = latest[d])

Bound(s, d) ==
    /\ Matches(latest[d]) /\ view[s].tombstones = Nil
    /\ pc[s] = "load"     => Listed(segments, DOMAIN view[s].work, d) \/ Due(s, d)
    /\ pc[s] = "snapshot" => Listed(segments, {}, d) \/ Due(s, d)
    /\ pc[s] = "rebuild"  => Listed(view[s].segments, {}, d) \/ buffer[d] = latest[d]
    /\ pc[s] = "evaluate" => \/ Listed(view[s].segments, {}, d)
                             \/ view[s].snapshot # Nil /\ view[s].snapshot[d] = latest[d]

Finds(s) ==
    /\ pc[s] = "rebuild" => view[s].due
    /\ pc[s] \in {"load", "snapshot", "rebuild", "evaluate"} =>
          \A d \in view[s].settled : Bound(s, d)

FindInv == moved \/ \A s \in Searchers : Finds(s)

LEMMA SettledTyped == ASSUME Typed, NEW s \in Searchers PROVE view[s].settled \subseteq Docs
BY DEF Typed, SearchesTyped, View

LEMMA LatestStays ==
    ASSUME Typed, ScoresInv, AgeInv, [Next]_vars, NEW d \in Docs, latest'[d] = latest[d],
           Matches(latest[d])
    PROVE  Matches(latest[d])'
<1> DEFINE v == latest[d]
<1>1. v \in Nat /\ v <= clock
  BY DEF Typed, WritesTyped, Copy, AgeInv, Ordered, Known
<1>2. PICK n \in Nat : n = latest[d] /\ n <= clock
  BY <1>1
<1>3. Matches(n)'
  BY <1>2, MatchesStay
<1> QED
  BY <1>2, <1>3 DEF Matches

\* A step that leaves the search, the last version and what holds it.
LEMMA BoundKept ==
    ASSUME NEW s \in Searchers, NEW d \in Docs, Bound(s, d), pc'[s] = pc[s],
           view'[s].segments = view[s].segments, view'[s].snapshot = view[s].snapshot,
           view'[s].work = view[s].work, view'[s].due = view[s].due,
           view'[s].tombstones = view[s].tombstones,
           latest'[d] = latest[d], Matches(latest[d])',
           buffer[d] = latest[d] =>
              buffer'[d] = buffer[d] /\ (snapshot' = snapshot \/ snapshot' = buffer),
           \A i \in DOMAIN segments : /\ i \in DOMAIN segments'
                                      /\ segments'[i].copies = segments[i].copies
                                      /\ segments[i].slot # Nil => segments'[i].slot # Nil
    PROVE  Bound(s, d)'
<1>1. Due(s, d) => Due(s, d)'
  BY DEF Due
<1>2. /\ Listed(segments, DOMAIN view[s].work, d) => Listed(segments, DOMAIN view[s].work, d)'
      /\ Listed(segments, {}, d) => Listed(segments, {}, d)'
      /\ Listed(view[s].segments, {}, d) => Listed(view[s].segments, {}, d)'
  BY DEF Listed
<1> QED
  BY <1>1, <1>2 DEF Bound

LEMMA ShardFinds ==
    ASSUME Typed, ScoresInv, AgeInv, ShardStep, [Next]_vars, NEW s \in Searchers, Finds(s)
    PROVE  Finds(s)'
<1>1. /\ pc' = pc /\ view'[s].due = view[s].due /\ view'[s].settled \subseteq view[s].settled
      /\ view'[s].segments = view[s].segments /\ view'[s].snapshot = view[s].snapshot
      /\ view'[s].work = view[s].work
      /\ view'[s].settled # {} => view'[s].tombstones = view[s].tombstones
  BY ViewsKept
<1>2. ASSUME NEW d \in view'[s].settled, pc[s] \in {"load", "snapshot", "rebuild", "evaluate"}
      PROVE  Bound(s, d)'
  <2>1. Bound(s, d) /\ d \in Docs /\ view'[s].tombstones = view[s].tombstones
    BY <1>1, <1>2, SettledTyped DEF Finds
  <2>2. /\ latest'[d] = latest[d]
        /\ buffer[d] # 0 => buffer'[d] = buffer[d] /\ snapshot' = snapshot
        /\ \A i \in DOMAIN segments : i \in DOMAIN segments' /\ segments'[i] = segments[i]
    BY <2>1, SettledKept
  <2>3. Matches(latest[d]) /\ latest[d] # 0
    BY <2>1 DEF Bound, Matches
  <2>4. Matches(latest[d])'
    BY <2>1, <2>2, <2>3, LatestStays
  <2> QED
    BY <1>1, <2>1, <2>2, <2>3, <2>4, BoundKept
<1> QED
  BY <1>1, <1>2 DEF Finds

\* The step of another search may load a segment or refresh the snapshot.
LEMMA OtherFinds ==
    ASSUME Typed, ScoresInv, AgeInv, [Next]_vars, NEW t \in Searchers, SearchStep(t),
           NEW s \in Searchers \ {t}, Finds(s)
    PROVE  Finds(s)'
<1>1. view'[s] = view[s] /\ pc'[s] = pc[s]
  BY OthersStay
<1>2. ASSUME NEW d \in view[s].settled, pc[s] \in {"load", "snapshot", "rebuild", "evaluate"}
      PROVE  Bound(s, d)'
  <2>1. Bound(s, d) /\ d \in Docs
    BY <1>2, SettledTyped DEF Finds
  <2>2. Matches(latest[d])'
    BY <2>1, LatestStays, ShardKept DEF Bound
  <2>3. /\ latest' = latest /\ buffer' = buffer /\ (snapshot' = snapshot \/ snapshot' = buffer)
        /\ DOMAIN segments' = DOMAIN segments
        /\ \A i \in DOMAIN segments : /\ segments'[i].copies = segments[i].copies
                                      /\ segments[i].slot # Nil => segments'[i].slot = segments[i].slot
    BY ShardKept
  <2> QED
    BY <1>1, <2>1, <2>2, <2>3, BoundKept
<1> QED
  BY <1>1, <1>2 DEF Finds

LEMMA BeginFinds ==
    ASSUME Typed, NEW s \in Searchers, BeginSearch(s) PROVE Finds(s)'
<1>1. PICK v \in View :
         /\ See(s, v) /\ v.tombstones = Nil /\ v.settled = MustFind(v.due)
         /\ v.work = [i \in {j \in DOMAIN segments : segments[j].slot = Nil} |-> segments[i]]
  BY BeginEffect
<1>2. Goto(s, "load") /\ "load" \in Labels /\ UNCHANGED <<segments, latest, scores, buffer, snapshot>>
  BY DEF BeginSearch, Labels, shard, written
<1>3. view'[s] = v /\ pc'[s] = "load"
  BY <1>1, <1>2, SeeEffect, GotoEffect
<1>4. DOMAIN v.work = {j \in DOMAIN segments : segments[j].slot = Nil}
  BY <1>1
<1>5. ASSUME NEW d \in v.settled PROVE Bound(s, d)'
  <2>1. /\ d \in Docs /\ Matches(latest[d])
        /\ \/ \E i \in DOMAIN segments : segments[i].copies[d] = latest[d]
           \/ /\ buffer[d] = latest[d]
              /\ snapshot = Nil \/ v.due \/ snapshot[d] = latest[d]
    BY <1>1 DEF MustFind
  <2>2. Listed(segments, DOMAIN view[s].work, d)' \/ Due(s, d)'
    BY <1>2, <1>3, <1>4, <2>1 DEF Listed, Due
  <2>3. Matches(latest[d])'
    BY <1>2, <2>1 DEF Matches
  <2> QED
    BY <1>1, <1>3, <2>2, <2>3 DEF Bound
<1> QED
  BY <1>3, <1>5 DEF Finds

LEMMA WriteBackFinds ==
    ASSUME Typed, SlotInv, ~ moved, NEW s \in Searchers, WriteBack(s), Finds(s) PROVE Finds(s)'
<1>1. PICK v \in View :
         /\ See(s, v) /\ v.tombstones = view[s].tombstones
         /\ v.due = view[s].due /\ v.settled = view[s].settled
  BY WriteBackEffect
<1>2. /\ Goto(s, "snapshot") /\ "snapshot" \in Labels /\ pc[s] = "load"
      /\ UNCHANGED <<latest, scores, buffer, snapshot>>
  BY DEF WriteBack, Labels, written
<1>3. view'[s] = v /\ pc'[s] = "snapshot"
  BY <1>1, <1>2, SeeEffect, GotoEffect
<1>4. ASSUME NEW d \in v.settled PROVE Bound(s, d)'
  <2>1. Bound(s, d) /\ d \in Docs
    BY <1>1, <1>2, <1>4, SettledTyped DEF Finds
  <2>2. Due(s, d) => Due(s, d)'
    BY <1>1, <1>2, <1>3 DEF Due
  <2>3. ASSUME Listed(segments, DOMAIN view[s].work, d) PROVE Listed(segments, {}, d)'
    <3>1. PICK i \in DOMAIN segments :
             /\ segments[i].copies[d] = latest[d]
             /\ segments[i].slot # Nil \/ i \in DOMAIN view[s].work
      BY <2>3 DEF Listed
    <3>2. segments'[i].slot # Nil
      <4>1. CASE segments[i].slot # Nil
        BY <4>1, WriteBackEffect
      <4>2. CASE i \in DOMAIN view[s].work
        <5>1. Id(view[s].work[i]) = Id(segments[i])
          BY <1>2, <4>2 DEF SlotInv, WorkFits
        <5>2. Id(view[s].work[i]) \in Ids(DOMAIN segments)
          BY <5>1, IdsOf
        <5>3. Docs # {}
          BY <2>1
        <5> QED
          BY <4>2, <5>2, <5>3, WriteBackEffect
      <4> QED
        BY <3>1, <4>1, <4>2
    <3>3. i \in DOMAIN segments' /\ segments'[i].copies[d] = latest'[d]
      BY <1>2, <3>1, WriteBackEffect
    <3> QED
      BY <3>2, <3>3 DEF Listed
  <2>4. Matches(latest[d])'
    BY <1>2, <2>1 DEF Bound, Matches
  <2> QED
    BY <1>1, <1>2, <1>3, <2>1, <2>2, <2>3, <2>4 DEF Bound
<1> QED
  BY <1>3, <1>4 DEF Finds

LEMMA TakeViewFinds ==
    ASSUME Typed, SnapshotInv, NEW s \in Searchers, TakeView(s), Finds(s) PROVE Finds(s)'
<1>1. PICK v \in View :
         /\ See(s, v) /\ v.tombstones = view[s].tombstones /\ v.settled = view[s].settled
         /\ v.segments = segments /\ v.snapshot = snapshot /\ v.due = NeedsSnapshot(view[s].due)
  BY TakeViewEffect
<1>2. PICK label \in {"rebuild", "evaluate"} :
         Goto(s, label) /\ (label = "rebuild" <=> NeedsSnapshot(view[s].due))
  BY TakeViewEffect
<1>3. pc[s] = "snapshot" /\ UNCHANGED <<latest, scores, buffer, segments, snapshot>> /\ label \in Labels
  BY DEF TakeView, written, shard, Labels
<1>4. view'[s] = v /\ pc'[s] = label
  BY <1>1, <1>2, <1>3, SeeEffect, GotoEffect
<1>5. ASSUME NEW d \in v.settled PROVE Bound(s, d)'
  <2>1. Bound(s, d) /\ d \in Docs
    BY <1>1, <1>3, <1>5, SettledTyped DEF Finds
  <2>2. Matches(latest[d])' /\ latest[d] # 0
    BY <1>3, <2>1 DEF Bound, Matches
  <2>3. Listed(segments, {}, d) => Listed(view[s].segments, {}, d)'
    BY <1>1, <1>3, <1>4 DEF Listed
  <2>4. ASSUME Due(s, d), label = "evaluate"
        PROVE  snapshot # Nil /\ snapshot[d] = latest[d]
    <3>1. Copies(buffer) # {}
      BY <2>1, <2>2, <2>4 DEF Due, Copies
    <3>2. snapshot # Nil /\ ~ (dirty /\ view[s].due)
      BY <1>2, <2>4, <3>1 DEF NeedsSnapshot
    <3> QED
      BY <2>4, <3>2 DEF Due, SnapshotInv
  <2> QED
    BY <1>1, <1>3, <1>4, <2>1, <2>2, <2>3, <2>4 DEF Bound, Due
<1> QED
  BY <1>1, <1>2, <1>4, <1>5 DEF Finds

LEMMA RebuildFinds ==
    ASSUME Typed, SnapshotInv, NEW s \in Searchers, Rebuild(s), Finds(s) PROVE Finds(s)'
<1>1. PICK v \in View :
         /\ See(s, v) /\ v.tombstones = view[s].tombstones /\ v.settled = view[s].settled
         /\ v.segments = view[s].segments /\ v.snapshot = snapshot'
  BY RebuildEffect
<1>2. /\ pc[s] = "rebuild" /\ UNCHANGED <<latest, scores, buffer>>
      /\ Goto(s, "evaluate") /\ "evaluate" \in Labels
  BY DEF Rebuild, written, Labels
<1>3. view'[s] = v /\ pc'[s] = "evaluate"
  BY <1>1, <1>2, SeeEffect, GotoEffect
<1>4. ASSUME NEW d \in v.settled PROVE Bound(s, d)'
  <2>1. Bound(s, d) /\ d \in Docs /\ view[s].due
    BY <1>1, <1>2, <1>4, SettledTyped DEF Finds
  <2>2. Matches(latest[d])' /\ latest[d] # 0
    BY <1>2, <2>1 DEF Bound, Matches
  <2>3. Listed(view[s].segments, {}, d) => Listed(view[s].segments, {}, d)'
    BY <1>1, <1>2, <1>3 DEF Listed
  <2>4. ASSUME buffer[d] = latest[d] PROVE snapshot' # Nil /\ snapshot'[d] = latest[d]
    <3>1. Copies(buffer) # {}
      BY <2>1, <2>2, <2>4 DEF Copies
    <3>2. CASE snapshot' = buffer
      <4>1. buffer # Nil
        BY <2>1, NotNil DEF Typed, BufferTyped
      <4> QED
        BY <2>4, <3>2, <4>1
    <3>3. CASE UNCHANGED <<snapshot, dirty>> /\ ~ NeedsSnapshot(view[s].due)
      <4>1. snapshot # Nil /\ ~ dirty
        BY <2>1, <3>1, <3>3 DEF NeedsSnapshot
      <4> QED
        BY <2>4, <3>3, <4>1 DEF SnapshotInv
    <3> QED
      BY <3>2, <3>3, RebuildEffect
  <2> QED
    BY <1>1, <1>2, <1>3, <2>1, <2>2, <2>3, <2>4 DEF Bound
<1> QED
  BY <1>3, <1>4 DEF Finds

LEMMA NextFind ==
    Typed /\ ScoresInv /\ SnapshotInv /\ SlotInv /\ AgeInv /\ FindInv /\ [Next]_vars => FindInv'
<1> SUFFICES ASSUME Typed, ScoresInv, SnapshotInv, SlotInv, AgeInv, FindInv, [Next]_vars, ~ moved',
                    NEW s \in Searchers
             PROVE  Finds(s)'
  BY DEF FindInv
<1>1. ~ moved /\ Finds(s)
  BY MovedStays DEF FindInv
<1>2. CASE ShardStep
  BY <1>1, <1>2, ShardFinds
<1>3. ASSUME NEW t \in Searchers, SearchStep(t), t # s PROVE Finds(s)'
  BY <1>1, <1>3, OtherFinds
<1>4. CASE LoadFails(s) \/ Evaluate(s) \/ Fill(s)
  <2>1. PICK label \in {"idle", "fill"} : Goto(s, label)
    BY <1>4 DEF LoadFails, Evaluate, Fill, EndSearch
  <2>2. pc'[s] \in {"idle", "fill"}
    BY <2>1, GotoEffect DEF Labels
  <2> QED
    BY <2>2 DEF Finds
<1> QED
  BY <1>1, <1>2, <1>3, <1>4, BeginFinds, WriteBackFinds, TakeViewFinds, RebuildFinds
     DEF Next, ShardStep, SearchStep

-----------------------------------------------------------------------------
(* Numbers and finite sets.                                                *)

LEMMA GreatestOf ==
    ASSUME NEW S \in SUBSET Nat, S # {}, NEW n \in Nat, \A k \in S : k <= n
    PROVE  \E m \in S : \A k \in S : m >= k
<1> DEFINE T == {n - k : k \in S}
<1>1. T \subseteq Nat /\ T # {}
  <2>1. PICK k \in S : TRUE
    OBVIOUS
  <2>2. n - k \in T
    BY <2>1
  <2> QED
    BY <2>2
<1> HIDE DEF T
<1>2. PICK x \in T : \A y \in T : ~ (<<y, x>> \in OpToRel(<, Nat))
  BY <1>1, NatLessThanWellFounded, WFMin
<1>3. \A y \in T : ~ (y < x)
  BY <1>1, <1>2 DEF OpToRel
<1>4. PICK m \in S : x = n - m
  BY <1>2 DEF T
<1>5. ASSUME NEW k \in S PROVE m >= k
  <2>1. n - k \in T /\ k \in Nat /\ m \in Nat
    BY DEF T
  <2> QED
    BY <1>3, <1>4, <2>1
<1> QED
  BY <1>5

\* The best n of at most n hits are all of them.
LEMMA TopOfFew ==
    ASSUME Typed, ScoresInv, NEW H, IsFiniteSet(H), NEW n \in Nat, Cardinality(H) <= n,
           \A h \in H : h.version \in 1 .. clock /\ h.doc \in Docs
    PROVE  Top(H, n) = H
<1> SUFFICES ASSUME NEW h \in H PROVE Rank(h, H) <= n
  BY DEF Top
<1> DEFINE G == {g \in H : Before(g, h)}
<1>1. ~ Before(h, h)
  <2>1. scores[h.version] \in Nat
    BY DEF ScoresInv
  <2>2. h.doc \in Nat
    BY SearchAssumption
  <2> QED
    BY <2>1, <2>2 DEF Before
<1>2. G \subseteq H \ {h}
  BY <1>1
<1>3. /\ IsFiniteSet(H \ {h}) /\ Cardinality(H \ {h}) = Cardinality(H) - 1
      /\ Cardinality(H) \in Nat
  BY FS_RemoveElement, FS_CardinalityType
<1>4. Cardinality(G) <= Cardinality(H \ {h}) /\ Cardinality(G) \in Nat
  <2> HIDE DEF G
  <2> QED
    BY <1>2, <1>3, FS_Subset, FS_CardinalityType
<1>5. 1 + Cardinality(G) <= n
  BY <1>3, <1>4
<1> QED
  BY <1>5 DEF Rank

-----------------------------------------------------------------------------
(* The sources of a search and their hits.                                 *)

\* What the invariants say of the view v of a search that evaluates.
Fit(v) ==
    /\ v \in View /\ Distinct(v.segments)
    /\ \A i \in DOMAIN v.segments :
          /\ v.segments[i] \in Segment /\ i \in Nat \ {0}
          /\ v.segments[i].seq <= clock
          /\ v.segments[i].slot \in {Nil, v.segments[i].copies}
          /\ \A d \in Docs : Known(d, v.segments[i].copies[d])
    /\ v.snapshot # Nil =>
          \A d \in Docs : /\ Known(d, v.snapshot[d])
                          /\ v.snapshot[d] # 0 =>
                                \A i \in DOMAIN v.segments : v.segments[i].copies[d] < v.snapshot[d]

LEMMA EvaluatedFits ==
    ASSUME Typed, SeqInv, AgeInv, ~ moved, NEW s \in Searchers, pc[s] = "evaluate"
    PROVE  Fit(view[s])
<1>1. view[s] \in View /\ ViewFits(s)
  BY DEF Typed, SearchesTyped, SeqInv
<1>2. view[s].segments \in Seq(Segment) /\ Held(s) = view[s].segments
  BY <1>1 DEF View, Held
<1>3. \A i \in DOMAIN view[s].segments : view[s].segments[i] \in Segment /\ i \in Nat \ {0}
  BY <1>2
<1>4. \A d \in Docs, i \in DOMAIN view[s].segments : view[s].segments[i].copies[d] \in Stored(d)
  BY <1>2 DEF Stored
<1>5. \A d \in Docs, i \in DOMAIN view[s].segments : Known(d, view[s].segments[i].copies[d])
  BY <1>4 DEF AgeInv, Ordered
<1>6. view[s].snapshot # Nil =>
         \A d \in Docs :
            /\ Known(d, view[s].snapshot[d])
            /\ view[s].snapshot[d] # 0 =>
                  \A i \in DOMAIN view[s].segments :
                     view[s].segments[i].copies[d] < view[s].snapshot[d]
  BY DEF AgeInv, Ordered
<1> QED
  BY <1>1, <1>3, <1>5, <1>6 DEF Fit, ViewFits

LEMMA SourceEffect ==
    ASSUME Typed, ScoresInv, NEW v, Fit(v), NEW i \in Active(v)
    PROVE  /\ Content(v, i) \in Copy /\ Recency(v, i) \in Nat /\ Recency(v, i) <= MaxWrites + 1
           /\ \A d \in Docs : Known(d, Content(v, i)[d])
           /\ \/ i = 0 /\ v.snapshot # Nil /\ Content(v, i) = v.snapshot /\ Recency(v, i) = MaxWrites + 1
              \/ /\ i # 0 /\ i \in DOMAIN v.segments /\ v.segments[i].slot # Nil
                 /\ Content(v, i) = v.segments[i].slot /\ Content(v, i) = v.segments[i].copies
                 /\ Recency(v, i) = v.segments[i].seq /\ Recency(v, i) <= MaxWrites
<1>1. clock \in Nat /\ clock <= MaxWrites /\ MaxWrites \in Nat
  BY SearchAssumption DEF Typed, WritesTyped, ScoresInv
<1>2. CASE i = 0
  <2>1. v.snapshot # Nil /\ v.snapshot \in Copy
    BY <1>2 DEF Fit, Active, View, Slot
  <2> QED
    BY <1>1, <1>2, <2>1 DEF Content, Recency, Fit
<1>3. CASE i # 0
  <2>1. i \in DOMAIN v.segments /\ v.segments[i].slot # Nil
    BY <1>3 DEF Active
  <2>2. /\ v.segments[i] \in Segment /\ v.segments[i].slot = v.segments[i].copies
        /\ v.segments[i].seq <= clock
    BY <2>1 DEF Fit
  <2>3. v.segments[i].copies \in Copy /\ v.segments[i].seq \in Nat
    BY <2>2 DEF Segment
  <2> QED
    BY <1>1, <1>3, <2>1, <2>2, <2>3 DEF Content, Recency, Fit
<1> QED
  BY <1>2, <1>3

\* A source's hits are the matching documents of its contents.
LEMMA HitEffect ==
    ASSUME Typed, ScoresInv, NEW v, Fit(v), NEW i \in Active(v)
    PROVE  /\ \A h \in Hits(v, i) :
                 /\ h.doc \in Docs /\ h.version = Content(v, i)[h.doc] /\ h.version \in 1 .. clock
                 /\ h.recency = Recency(v, i) /\ Matches(h.version)
           /\ \A d \in Docs : Matches(Content(v, i)[d]) =>
                 \E h \in Hits(v, i) : h.doc = d
           /\ IsFiniteSet(Hits(v, i))
<1>1. /\ Content(v, i) \in Copy
      /\ \A d \in Docs : Content(v, i)[d] \in Nat /\ Content(v, i)[d] <= clock
  BY SourceEffect DEF Known, Copy
<1> DEFINE M == MatchingIn(Content(v, i))
           hit(d) == [doc |-> d, version |-> Content(v, i)[d], recency |-> Recency(v, i)]
           f == [d \in M |-> hit(d)]
<1>2. /\ Hits(v, i) = {hit(d) : d \in M} /\ M \subseteq Docs
      /\ \A d \in M : Matches(Content(v, i)[d])
      /\ \A d \in Docs : Matches(Content(v, i)[d]) => d \in M
  BY DEF Hits, MatchingIn
<1>3. IsFiniteSet(Hits(v, i))
  <2>1. IsFiniteSet(M)
    BY <1>2, SearchAssumption, FS_Subset
  <2>2. f \in Surjection(M, Hits(v, i))
    BY <1>2 DEF Surjection
  <2> HIDE DEF f, M
  <2> QED
    BY <2>1, <2>2, FS_Surjection
<1>4. ASSUME NEW h \in Hits(v, i)
      PROVE  /\ h.doc \in Docs /\ h.version = Content(v, i)[h.doc] /\ h.version \in 1 .. clock
             /\ h.recency = Recency(v, i) /\ Matches(h.version)
  <2>1. PICK d \in M : h = hit(d)
    BY <1>2
  <2>2. h.doc = d /\ h.version = Content(v, i)[d] /\ h.recency = Recency(v, i)
    BY <2>1
  <2>3. d \in Docs /\ Matches(Content(v, i)[d])
    BY <1>2
  <2>4. Content(v, i)[d] \in 1 .. clock
    BY <1>1, <2>3 DEF Matches, Typed, WritesTyped
  <2> QED
    BY <2>2, <2>3, <2>4
<1>5. ASSUME NEW d \in Docs, Matches(Content(v, i)[d]) PROVE \E h \in Hits(v, i) : h.doc = d
  <2>1. hit(d) \in Hits(v, i) /\ hit(d).doc = d
    BY <1>2, <1>5
  <2> QED
    BY <2>1
<1> QED
  BY <1>3, <1>4, <1>5

\* A segment with a matching document is searched.
LEMMA MatchingIsActive ==
    ASSUME Typed, ScoresInv, NEW v, Fit(v), NEW i \in DOMAIN v.segments, v.segments[i].slot # Nil,
           NEW d \in Docs, Matches(v.segments[i].slot[d])
    PROVE  i \in Active(v)
<1> DEFINE c == v.segments[i].slot
           S == {0} \cup {scores[c[e]] : e \in MatchingIn(c)}
<1>1. c = Content(v, i) /\ i # 0 /\ c = v.segments[i].copies /\ c \in Copy
  BY DEF Fit, Content, Segment
<1>2. \A e \in MatchingIn(c) : c[e] \in 1 .. clock
  BY <1>1 DEF MatchingIn, Matches, Fit, Known, Copy, Typed, WritesTyped
<1>3. PICK top \in Nat : \A k \in 1 .. clock : scores[k] <= top
  BY DEF ScoresInv
<1>4. S \subseteq Nat /\ \A k \in S : k <= top
  BY <1>2, <1>3 DEF ScoresInv
<1>5. scores[c[d]] \in S /\ scores[c[d]] > 0
  BY DEF MatchingIn, Matches
<1>6. PICK m \in S : \A k \in S : m >= k
  <2> HIDE DEF S
  <2> QED
    BY <1>3, <1>4, <1>5, GreatestOf
<1>7. Max(S) > 0
  <2>1. Max(S) \in S /\ \A k \in S : Max(S) >= k
    <3> HIDE DEF S
    <3> QED
      BY <1>6 DEF Max
  <2>2. Max(S) \in Nat /\ Max(S) >= scores[c[d]] /\ scores[c[d]] \in Nat
    <3> HIDE DEF S
    <3> QED
      BY <1>4, <1>5, <2>1
  <2> HIDE DEF S
  <2> QED
    BY <1>5, <2>2
<1>8. UpperBound(v, i) = Max(S)
  BY <1>1 DEF UpperBound
<1> QED
  BY <1>7, <1>8 DEF Active

LEMMA SourcesFinite ==
    ASSUME NEW v, Fit(v)
    PROVE  IsFiniteSet(Active(v)) /\ Cardinality(Active(v)) \in Nat
<1>1. v.segments \in Seq(Segment)
  BY DEF Fit, View
<1>2. DOMAIN v.segments = 1 .. Len(v.segments) /\ Len(v.segments) \in Nat
  BY <1>1
<1>3. Active(v) \subseteq 0 .. Len(v.segments)
  BY <1>2 DEF Active
<1>4. IsFiniteSet(0 .. Len(v.segments))
  BY <1>2, FS_Interval
<1> QED
  BY <1>3, <1>4, FS_Subset, FS_CardinalityType

LEMMA FetchTyped == ASSUME NEW v PROVE Fetch(v) \in Nat
<1>1. 3 * TopK \in Nat /\ MinFetch \in Nat /\ TopK \in Nat
  BY SearchAssumption
<1>2. Max({3 * TopK, MinFetch}) \in Nat
  BY <1>1, MaxOfTwo
<1> QED
  BY <1>1, <1>2 DEF Fetch

\* Sources that are not cut give all their hits.
LEMMA AllHits ==
    ASSUME Typed, ScoresInv, NEW v, Fit(v), NEW n \in Nat, ~ Cut(v, n), NEW i \in Active(v)
    PROVE  Top(Hits(v, i), n * Cardinality(Active(v))) = Hits(v, i)
<1> DEFINE m == n * Cardinality(Active(v))
<1>1. Cardinality(Active(v)) \in Nat
  BY SourcesFinite
<1>2. m \in Nat
  BY <1>1
<1>3. ~ (Cardinality(Hits(v, i)) > m)
  BY DEF Cut
<1>4. IsFiniteSet(Hits(v, i)) /\ Cardinality(Hits(v, i)) \in Nat
  BY HitEffect, FS_CardinalityType
<1>5. \A h \in Hits(v, i) : h.version \in 1 .. clock /\ h.doc \in Docs
  BY HitEffect
<1> HIDE DEF m
<1>6. Cardinality(Hits(v, i)) <= m
  BY <1>2, <1>3, <1>4
<1>7. Top(Hits(v, i), m) = Hits(v, i)
  BY <1>2, <1>4, <1>5, <1>6, TopOfFew
<1> QED
  BY <1>7 DEF m

-----------------------------------------------------------------------------
(* What an evaluation returns.                                             *)

\* The newest copy a search sees of a document it has to find is its last version.
LEMMA LatestIsSeen ==
    ASSUME Typed, NEW v, Fit(v), InOrder(v), NEW d \in Docs, Matches(latest[d]),
           \/ Listed(v.segments, {}, d)
           \/ v.snapshot # Nil /\ v.snapshot[d] = latest[d]
    PROVE  \/ InBuffer(v, d) /\ v.snapshot[d] = latest[d]
           \/ /\ ~ InBuffer(v, d)
              /\ \E k \in DOMAIN v.segments :
                    /\ v.segments[k].slot # Nil /\ v.segments[k].slot[d] = latest[d]
                    /\ \A j \in DOMAIN v.segments :
                          (/\ v.segments[j].slot # Nil /\ v.segments[j].slot[d] # 0
                           /\ v.segments[j].seq >= v.segments[k].seq)
                          => v.segments[j].slot[d] = latest[d]
<1>1. latest[d] # 0 /\ latest[d] \in Nat
  BY DEF Matches, Typed, WritesTyped, Copy
<1>2. CASE v.snapshot # Nil /\ v.snapshot[d] = latest[d]
  BY <1>1, <1>2 DEF InBuffer
<1>3. CASE Listed(v.segments, {}, d)
  <2>1. PICK k \in DOMAIN v.segments :
           v.segments[k].copies[d] = latest[d] /\ v.segments[k].slot # Nil
    BY <1>3 DEF Listed
  <2>2. v.segments[k].slot = v.segments[k].copies
    BY <2>1 DEF Fit
  <2>3. CASE InBuffer(v, d)
    <3>1. v.snapshot # Nil /\ v.snapshot[d] # 0 /\ v.snapshot[d] \in Nat
      BY <2>3 DEF InBuffer, Fit, View, Slot, Copy
    <3>2. latest[d] < v.snapshot[d] /\ v.snapshot[d] <= latest[d]
      BY <1>1, <2>1, <3>1 DEF Fit, Known
    <3> QED
      BY <1>1, <3>1, <3>2
  <2>4. CASE ~ InBuffer(v, d)
    <3>1. ASSUME NEW j \in DOMAIN v.segments,
                 v.segments[j].slot # Nil, v.segments[j].slot[d] # 0,
                 v.segments[j].seq >= v.segments[k].seq
          PROVE  v.segments[j].slot[d] = latest[d]
      <4>1. v.segments[j].slot = v.segments[j].copies /\ v.segments[j].copies[d] \in Nat
            /\ v.segments[j].seq \in Nat /\ v.segments[k].seq \in Nat
        BY <3>1 DEF Fit, Segment, Copy
      <4>2. CASE j = k
        BY <2>1, <2>2, <4>2
      <4>3. CASE j # k
        <5>1. v.segments[k].seq < v.segments[j].seq
          BY <3>1, <4>1, <4>3 DEF Fit, Distinct
        <5>2. d \in Copies(v.segments[k].copies) \cap Copies(v.segments[j].copies)
          BY <1>1, <2>1, <3>1, <4>1 DEF Copies
        <5>3. v.segments[k].copies[d] <= v.segments[j].copies[d]
          BY <5>1, <5>2 DEF InOrder
        <5>4. v.segments[j].copies[d] <= latest[d]
          BY <1>1 DEF Fit, Known
        <5> QED
          BY <1>1, <2>1, <4>1, <5>3, <5>4
      <4> QED
        BY <4>2, <4>3
    <3> QED
      BY <2>1, <2>2, <2>4, <3>1
  <2> QED
    BY <2>3, <2>4
<1> QED
  BY <1>2, <1>3

\* A hit that survives is one of a source; of the buffer, if that has the document.
LEMMA DedupEffect ==
    ASSUME Typed, ScoresInv, NEW v, Fit(v), NEW S \in SUBSET Active(v), NEW n \in Nat
    PROVE  /\ \A h \in Dedup(v, S, n) :
                 \E i \in Active(v) : h \in Hits(v, i) /\ (i # 0 => ~ InBuffer(v, h.doc))
           /\ IsFiniteSet(Dedup(v, S, n))
<1>1. ASSUME NEW h \in Dedup(v, S, n)
      PROVE  \E i \in Active(v) : h \in Hits(v, i) /\ (i # 0 => ~ InBuffer(v, h.doc))
  <2>1. PICK i \in S : h \in Top(Hits(v, i), n * Cardinality(Active(v)))
    BY DEF Dedup
  <2>2. h \in Hits(v, i) /\ (h.recency <= MaxWrites => ~ InBuffer(v, h.doc))
    BY <2>1 DEF Dedup, Top
  <2>3. i # 0 => h.recency <= MaxWrites
    BY <2>2, HitEffect, SourceEffect
  <2> QED
    BY <2>2, <2>3
<1> DEFINE f == [i \in Active(v) |-> Hits(v, i)]
           all == {Hits(v, i) : i \in Active(v)}
<1>2. f \in Surjection(Active(v), all)
  BY DEF Surjection
<1>3. IsFiniteSet(all)
  <2> HIDE DEF f, all
  <2> QED
    BY <1>2, SourcesFinite, FS_Surjection
<1>4. \A H \in all : IsFiniteSet(H)
  BY HitEffect
<1>5. Dedup(v, S, n) \subseteq UNION all
  BY <1>1
<1>6. IsFiniteSet(UNION all)
  <2> HIDE DEF all
  <2> QED
    BY <1>3, <1>4, FS_UNION
<1>7. IsFiniteSet(Dedup(v, S, n))
  BY <1>5, <1>6, FS_Subset
<1> QED
  BY <1>1, <1>7

\* Without pruning and cuts, a document that a source has is found, in a source that
\* is no older.
LEMMA DedupFinds ==
    ASSUME Typed, ScoresInv, NEW v, Fit(v), NEW n \in Nat, ~ Cut(v, n),
           NEW d \in Docs, NEW i \in Active(v), Matches(Content(v, i)[d]),
           i # 0 => ~ InBuffer(v, d)
    PROVE  \E h \in Dedup(v, Active(v), n) : h.doc = d
<1> DEFINE found == UNION {Top(Hits(v, j), n * Cardinality(Active(v))) : j \in Active(v)}
           live  == {h \in found : h.recency <= MaxWrites => ~ InBuffer(v, h.doc)}
           R     == {h.recency : h \in {g \in live : g.doc = d}}
<1>1. \A j \in Active(v) : Hits(v, j) \subseteq found
  BY AllHits
<1>2. \A h \in found : h.recency \in Nat /\ h.recency <= MaxWrites + 1
  <2> SUFFICES ASSUME NEW h \in found PROVE h.recency \in Nat /\ h.recency <= MaxWrites + 1
    OBVIOUS
  <2>1. PICK j \in Active(v) : h \in Hits(v, j)
    BY DEF Top
  <2> QED
    BY <2>1, HitEffect, SourceEffect
<1>3. PICK h0 \in Hits(v, i) : h0.doc = d
  BY HitEffect
<1>4. h0.recency <= MaxWrites => ~ InBuffer(v, d)
  <2>1. h0.recency = Recency(v, i)
    BY HitEffect
  <2>2. i = 0 => Recency(v, i) = MaxWrites + 1
    BY SourceEffect
  <2> QED
    BY <2>1, <2>2, SearchAssumption
<1>5. h0 \in live
  BY <1>1, <1>3, <1>4
<1>6. R \in SUBSET Nat /\ R # {} /\ MaxWrites + 1 \in Nat /\ \A k \in R : k <= MaxWrites + 1
  BY <1>2, <1>3, <1>5, SearchAssumption
<1>7. PICK m \in R : \A k \in R : m >= k
  <2> HIDE DEF R
  <2> QED
    BY <1>6, GreatestOf
<1>8. PICK h \in live : h.doc = d /\ h.recency = m
  BY <1>7
<1>9. \A g \in live : g.doc = h.doc => g.recency <= h.recency
  <2> SUFFICES ASSUME NEW g \in live, g.doc = h.doc PROVE g.recency <= h.recency
    OBVIOUS
  <2>1. g.recency \in R
    BY <1>8
  <2>2. m >= g.recency /\ m \in Nat /\ g.recency \in Nat
    BY <1>2, <1>7, <1>8, <2>1
  <2> QED
    BY <1>8, <2>2
<1>10. h \in Dedup(v, Active(v), n)
  BY <1>8, <1>9 DEF Dedup
<1> QED
  BY <1>8, <1>10

-----------------------------------------------------------------------------
(* Required terms.                                                         *)

\* The copies of a document that a search can see.
Visible(v) == {Content(v, i) : i \in {j \in DOMAIN v.segments : v.segments[j].slot # Nil}}
              \cup (IF v.snapshot = Nil THEN {} ELSE {v.snapshot})

\* The newest of them matches the term.
Shown(v, d) ==
    \E c \in Visible(v) : /\ c[d] \in 1 .. clock /\ Matches(c[d])
                          /\ \A e \in Visible(v) : e[d] \in Nat /\ e[d] <= c[d]

Holds(v, i, d) == i \in DOMAIN v.segments /\ v.segments[i].slot # Nil /\ v.segments[i].slot[d] # 0

\* The segment with d's most recent copy.
NewestHolder(v, i, d) == /\ Holds(v, i, d)
                 /\ \A j \in DOMAIN v.segments :
                       Holds(v, j, d) => v.segments[i].seq >= v.segments[j].seq

LEMMA HasNewest ==
    ASSUME Typed, NEW v, Fit(v), NEW d \in Docs, NEW k, Holds(v, k, d)
    PROVE  \E i \in DOMAIN v.segments : NewestHolder(v, i, d)
<1> DEFINE S == {v.segments[i].seq : i \in {j \in DOMAIN v.segments : Holds(v, j, d)}}
<1>1. S \in SUBSET Nat /\ S # {} /\ clock \in Nat /\ \A n \in S : n <= clock
  BY DEF Fit, Segment, Holds, Typed, WritesTyped
<1>2. PICK m \in S : \A n \in S : m >= n
  <2> HIDE DEF S
  <2> QED
    BY <1>1, GreatestOf
<1>3. PICK i \in DOMAIN v.segments : Holds(v, i, d) /\ v.segments[i].seq = m
  BY <1>2
<1> QED
  BY <1>2, <1>3 DEF NewestHolder

\* docHasTermAnywhere looks into the buffer, or else into the segment with the most
\* recent copy.
LEMMA HasTermEffect ==
    ASSUME Typed, NEW v, Fit(v), NEW d \in Docs
    PROVE  /\ HasTerm(v, d) =>
                 \/ InBuffer(v, d) /\ Matches(v.snapshot[d])
                 \/ /\ ~ InBuffer(v, d)
                    /\ \E i \in DOMAIN v.segments :
                          NewestHolder(v, i, d) /\ Matches(v.segments[i].slot[d])
           /\ InBuffer(v, d) /\ Matches(v.snapshot[d]) => HasTerm(v, d)
           /\ ~ InBuffer(v, d) =>
                 \A i \in DOMAIN v.segments :
                    NewestHolder(v, i, d) /\ Matches(v.segments[i].slot[d]) => HasTerm(v, d)
<1> DEFINE holders == {i \in DOMAIN v.segments : v.segments[i].slot # Nil /\ v.segments[i].slot[d] # 0}
           newest  == CHOOSE i \in holders : \A j \in holders : Recency(v, i) >= Recency(v, j)
<1>1. \A i \in holders : Holds(v, i, d) /\ Recency(v, i) = v.segments[i].seq
  BY DEF Holds, Recency, Fit
<1>2. \A i \in DOMAIN v.segments : Holds(v, i, d) => i \in holders
  BY DEF Holds
<1>3. \A i : NewestHolder(v, i, d) <=> i \in holders /\ \A j \in holders : Recency(v, i) >= Recency(v, j)
  <2> HIDE DEF holders
  <2> QED
    BY <1>1, <1>2 DEF NewestHolder, Holds
<1>4. holders # {} => newest \in holders /\ NewestHolder(v, newest, d)
  <2> SUFFICES ASSUME NEW k \in holders PROVE newest \in holders /\ NewestHolder(v, newest, d)
    OBVIOUS
  <2>1. PICK i \in DOMAIN v.segments : NewestHolder(v, i, d)
    BY <1>1, HasNewest
  <2> HIDE DEF holders
  <2>2. i \in holders /\ \A j \in holders : Recency(v, i) >= Recency(v, j)
    BY <1>3, <2>1
  <2>3. newest \in holders /\ \A j \in holders : Recency(v, newest) >= Recency(v, j)
    BY <2>2
  <2> HIDE DEF newest
  <2> QED
    BY <1>3, <2>3
<1>5. HasTerm(v, d) = IF InBuffer(v, d) THEN Matches(v.snapshot[d])
                      ELSE holders # {} /\ Matches(v.segments[newest].slot[d])
  BY DEF HasTerm
<1>6. ASSUME NEW i \in DOMAIN v.segments, NewestHolder(v, i, d) PROVE holders # {} /\ newest = i
  <2>1. i \in holders /\ NewestHolder(v, newest, d)
    BY <1>2, <1>4, <1>6 DEF NewestHolder
  <2> HIDE DEF holders, newest
  <2>2. /\ newest \in DOMAIN v.segments
        /\ v.segments[newest].seq >= v.segments[i].seq /\ v.segments[i].seq >= v.segments[newest].seq
        /\ v.segments[newest].seq \in Nat /\ v.segments[i].seq \in Nat
    BY <1>6, <2>1 DEF NewestHolder, Holds, Fit, Segment
  <2>3. v.segments[newest].seq = v.segments[i].seq
    BY <2>2
  <2> QED
    BY <2>1, <2>2, <2>3 DEF Fit, Distinct
<1>7. holders # {} => newest \in DOMAIN v.segments /\ NewestHolder(v, newest, d)
  BY <1>4
<1> HIDE DEF holders, newest
<1>8. CASE InBuffer(v, d)
  BY <1>5, <1>8
<1>9. CASE ~ InBuffer(v, d)
  BY <1>5, <1>6, <1>7, <1>9
<1> QED
  BY <1>8, <1>9

LEMMA TermShown ==
    ASSUME Typed, NEW v, Fit(v), InOrder(v), NEW d \in Docs, HasTerm(v, d)
    PROVE  Shown(v, d)
<1>1. clock \in Nat
  BY DEF Typed, WritesTyped
<1>2. \A e \in Visible(v) :
         \/ e = v.snapshot /\ v.snapshot # Nil /\ v.snapshot \in Copy
         \/ \E j \in DOMAIN v.segments :
               /\ v.segments[j].slot # Nil /\ e = v.segments[j].slot
               /\ e = v.segments[j].copies /\ e \in Copy
  BY DEF Visible, Content, Fit, Segment, View, Slot
<1>3. \A j \in DOMAIN v.segments : v.segments[j].slot # Nil => v.segments[j].slot \in Visible(v)
  BY DEF Visible, Content, Fit
<1>4. CASE InBuffer(v, d)
  <2>1. Matches(v.snapshot[d]) /\ v.snapshot # Nil /\ v.snapshot \in Copy /\ v.snapshot[d] # 0
    BY <1>4, HasTermEffect DEF InBuffer, Fit, View, Slot
  <2>2. v.snapshot \in Visible(v) /\ v.snapshot[d] \in 1 .. clock
    BY <1>1, <2>1 DEF Visible, Fit, Known, Copy
  <2>3. ASSUME NEW e \in Visible(v) PROVE e[d] \in Nat /\ e[d] <= v.snapshot[d]
    <3>1. CASE e = v.snapshot
      BY <2>2, <3>1
    <3>2. CASE e # v.snapshot
      <4>1. PICK j \in DOMAIN v.segments : e = v.segments[j].copies /\ e \in Copy
        BY <1>2, <3>2
      <4> QED
        BY <2>1, <2>2, <4>1 DEF Fit, Copy
    <3> QED
      BY <3>1, <3>2
  <2> QED
    BY <2>1, <2>2, <2>3 DEF Shown
<1>5. CASE ~ InBuffer(v, d)
  <2>1. PICK i \in DOMAIN v.segments : NewestHolder(v, i, d) /\ Matches(v.segments[i].slot[d])
    BY <1>5, HasTermEffect
  <2>2. /\ v.segments[i].slot # Nil /\ v.segments[i].slot = v.segments[i].copies
        /\ v.segments[i].copies \in Copy /\ v.segments[i].copies[d] # 0
        /\ v.segments[i].slot \in Visible(v)
    BY <1>3, <2>1 DEF NewestHolder, Holds, Fit, Segment
  <2>3. v.segments[i].slot[d] \in 1 .. clock
    BY <1>1, <2>2 DEF Fit, Known, Copy
  <2>4. ASSUME NEW e \in Visible(v) PROVE e[d] \in Nat /\ e[d] <= v.segments[i].slot[d]
    <3>1. CASE e = v.snapshot /\ v.snapshot # Nil /\ v.snapshot \in Copy
      BY <1>5, <2>3, <3>1 DEF InBuffer
    <3>2. ASSUME NEW j \in DOMAIN v.segments, v.segments[j].slot # Nil, e = v.segments[j].slot,
                 e = v.segments[j].copies, e \in Copy
          PROVE  e[d] \in Nat /\ e[d] <= v.segments[i].slot[d]
      <4>1. e[d] \in Nat
        BY <3>2 DEF Copy
      <4>2. CASE e[d] = 0 \/ j = i
        <5>1. v.segments[i].slot[d] \in Nat
          BY <1>1, <2>3
        <5>2. j = i => e[d] = v.segments[i].slot[d]
          BY <3>2
        <5> QED
          BY <4>1, <4>2, <5>1, <5>2
      <4>3. CASE e[d] # 0 /\ j # i
        <5>1. v.segments[i].seq >= v.segments[j].seq
          BY <2>1, <3>2, <4>3 DEF NewestHolder, Holds
        <5>2. v.segments[j].seq < v.segments[i].seq
          BY <4>3, <5>1 DEF Fit, Distinct, Segment
        <5>3. d \in Copies(v.segments[j].copies) \cap Copies(v.segments[i].copies)
          BY <2>2, <3>2, <4>3 DEF Copies
        <5>4. v.segments[j].copies[d] <= v.segments[i].copies[d]
          BY <5>2, <5>3 DEF InOrder
        <5> QED
          BY <2>2, <3>2, <4>1, <5>4
      <4> QED
        BY <4>2, <4>3
    <3> QED
      BY <1>2, <3>1, <3>2
  <2> QED
    BY <2>1, <2>2, <2>3, <2>4 DEF Shown
<1> QED
  BY <1>4, <1>5

\* A document a search has to find has the term.
LEMMA LatestHasTerm ==
    ASSUME Typed, NEW v, Fit(v), InOrder(v), NEW d \in Docs, Matches(latest[d]),
           \/ Listed(v.segments, {}, d)
           \/ v.snapshot # Nil /\ v.snapshot[d] = latest[d]
    PROVE  HasTerm(v, d)
<1>1. CASE InBuffer(v, d)
  BY <1>1, LatestIsSeen, HasTermEffect
<1>2. CASE ~ InBuffer(v, d)
  <2>1. PICK k \in DOMAIN v.segments :
           /\ v.segments[k].slot # Nil /\ v.segments[k].slot[d] = latest[d]
           /\ \A j \in DOMAIN v.segments :
                 (/\ v.segments[j].slot # Nil /\ v.segments[j].slot[d] # 0
                  /\ v.segments[j].seq >= v.segments[k].seq)
                 => v.segments[j].slot[d] = latest[d]
    BY <1>2, LatestIsSeen
  <2>2. Holds(v, k, d)
    BY <2>1 DEF Holds, Matches
  <2>3. PICK i \in DOMAIN v.segments : NewestHolder(v, i, d)
    BY <2>2, HasNewest
  <2>4. v.segments[i].slot[d] = latest[d]
    BY <2>1, <2>2, <2>3 DEF NewestHolder, Holds
  <2> QED
    BY <1>2, <2>3, <2>4, HasTermEffect
<1> QED
  BY <1>1, <1>2

-----------------------------------------------------------------------------
(* The result of an evaluation.                                            *)

\* What searchAll keeps, of the hits of the sources in S, when it asks for n.
Kept(v, S, n) == Filter(v, {h \in Top(Dedup(v, S, n), n) : Alive(v, h)})

LEMMA KeptEffect ==
    ASSUME Typed, ScoresInv, NEW v, Fit(v), InOrder(v), NEW S \in SUBSET Active(v), NEW n \in Nat,
           NEW h \in Kept(v, S, n)
    PROVE  /\ h \in Dedup(v, S, n) /\ h.doc \in Docs /\ h.version \in 1 .. clock
           /\ InBuffer(v, h.doc) => h.version = v.snapshot[h.doc]
           /\ v.kind.required => Shown(v, h.doc)
<1>1. h \in Dedup(v, S, n) /\ (v.kind.required => HasTerm(v, h.doc))
  BY DEF Kept, Filter, Top
<1>2. PICK i \in Active(v) : h \in Hits(v, i) /\ (i # 0 => ~ InBuffer(v, h.doc))
  BY <1>1, DedupEffect
<1>3. h.doc \in Docs /\ h.version = Content(v, i)[h.doc] /\ h.version \in 1 .. clock
  BY <1>2, HitEffect
<1>4. InBuffer(v, h.doc) => h.version = v.snapshot[h.doc]
  BY <1>2, <1>3, SourceEffect
<1> QED
  BY <1>1, <1>3, <1>4, TermShown

\* Of the hits for a document outside the buffer, the one from the most recent source
\* survives.
LEMMA DedupNewest ==
    ASSUME Typed, ScoresInv, NEW v, Fit(v), NEW n \in Nat, ~ Cut(v, n),
           NEW h \in Dedup(v, Active(v), n), ~ InBuffer(v, h.doc), h.doc \in Docs,
           NEW k \in Active(v), Matches(Content(v, k)[h.doc])
    PROVE  Recency(v, k) <= h.recency
<1> DEFINE found == UNION {Top(Hits(v, i), n * Cardinality(Active(v))) : i \in Active(v)}
           live  == {g \in found : g.recency <= MaxWrites => ~ InBuffer(v, g.doc)}
<1>1. PICK g \in Hits(v, k) : g.doc = h.doc
  BY HitEffect
<1>2. g \in found
  BY AllHits
<1>3. g \in live
  BY <1>1, <1>2
<1>4. g.recency <= h.recency
  BY <1>1, <1>3 DEF Dedup
<1> QED
  BY <1>4, HitEffect

\* A document that a search has to find is kept, in its last version.
LEMMA KeptFinds ==
    ASSUME Typed, ScoresInv, AgeInv, NEW v, Fit(v), InOrder(v), NEW n \in Nat, ~ Cut(v, n),
           Cardinality(Dedup(v, Active(v), n)) <= n, v.tombstones = Nil,
           NEW d \in Docs, Matches(latest[d]),
           \/ Listed(v.segments, {}, d)
           \/ v.snapshot # Nil /\ v.snapshot[d] = latest[d]
    PROVE  /\ \E h \in Kept(v, Active(v), n) : h.doc = d
           /\ \A h \in Kept(v, Active(v), n) : h.doc = d => h.version = latest[d]
<1> DEFINE found == Dedup(v, Active(v), n)
           newer(k) == \A j \in DOMAIN v.segments :
                          (/\ v.segments[j].slot # Nil /\ v.segments[j].slot[d] # 0
                           /\ v.segments[j].seq >= v.segments[k].seq)
                          => v.segments[j].slot[d] = latest[d]
<1>1. \/ InBuffer(v, d) /\ v.snapshot[d] = latest[d]
      \/ /\ ~ InBuffer(v, d)
         /\ \E k \in DOMAIN v.segments :
               v.segments[k].slot # Nil /\ v.segments[k].slot[d] = latest[d] /\ newer(k)
  BY LatestIsSeen
<1>2. PICK i \in Active(v) :
         /\ Content(v, i)[d] = latest[d]
         /\ i # 0 => ~ InBuffer(v, d) /\ newer(i)
         /\ ~ InBuffer(v, d) => i # 0
  <2>1. CASE InBuffer(v, d)
    <3>1. v.snapshot # Nil /\ v.snapshot[d] = latest[d]
      BY <1>1, <2>1 DEF InBuffer
    <3>2. 0 \in Active(v) /\ Content(v, 0) = v.snapshot
      BY <3>1 DEF Active, Content
    <3> QED
      BY <2>1, <3>1, <3>2
  <2>2. CASE ~ InBuffer(v, d)
    <3>1. PICK k \in DOMAIN v.segments :
             v.segments[k].slot # Nil /\ v.segments[k].slot[d] = latest[d] /\ newer(k)
      BY <1>1, <2>2
    <3>2. k \in Active(v) /\ k # 0
      BY <3>1, MatchingIsActive DEF Fit
    <3> QED
      BY <2>2, <3>1, <3>2 DEF Content
  <2> QED
    BY <2>1, <2>2
<1>3. \A h \in found : h.version \in 1 .. clock /\ h.doc \in Docs
  BY DedupEffect, HitEffect
<1>4. Top(found, n) = found
  <2>1. IsFiniteSet(found)
    BY DedupEffect
  <2> HIDE DEF found
  <2> QED
    BY <1>3, <2>1, TopOfFew DEF found
<1>5. d \notin Dead(v) /\ HasTerm(v, d)
  BY LatestHasTerm DEF Dead, AgeInv, Ordered, Matches
<1>6. \A h \in found : h.doc = d => h \in Kept(v, Active(v), n)
  BY <1>4, <1>5 DEF Kept, Filter, Alive
<1>7. \E h \in found : h.doc = d
  BY <1>2, DedupFinds
<1>8. ASSUME NEW h \in Kept(v, Active(v), n), h.doc = d PROVE h.version = latest[d]
  <2>1. h \in found /\ (InBuffer(v, d) => h.version = v.snapshot[d])
    BY <1>8, KeptEffect
  <2>2. CASE InBuffer(v, d)
    BY <1>1, <2>1, <2>2
  <2>3. CASE ~ InBuffer(v, d)
    <3>1. PICK j \in Active(v) : h \in Hits(v, j)
      BY <2>1, DedupEffect
    <3>2. /\ h.version = Content(v, j)[d] /\ h.version \in 1 .. clock /\ h.recency = Recency(v, j)
      BY <1>8, <3>1, HitEffect
    <3>3. j # 0
      <4>1. ASSUME j = 0 PROVE FALSE
        <5>1. v.snapshot # Nil /\ h.version = v.snapshot[d]
          BY <3>2, <4>1, SourceEffect
        <5> QED
          BY <2>3, <3>2, <5>1 DEF InBuffer
      <4> QED
        BY <4>1
    <3>4. Recency(v, i) <= Recency(v, j)
      BY <1>2, <1>8, <2>1, <2>3, <3>2, DedupNewest
    <3>5. /\ j \in DOMAIN v.segments /\ v.segments[j].slot # Nil
          /\ Content(v, j) = v.segments[j].slot /\ Recency(v, j) = v.segments[j].seq
      BY <3>3, SourceEffect
    <3>6. i # 0 /\ Recency(v, i) = v.segments[i].seq /\ newer(i)
      BY <1>2, <2>3, SourceEffect
    <3>7. v.segments[j].slot[d] # 0 /\ v.segments[j].seq >= v.segments[i].seq
      <4>1. Recency(v, i) \in Nat /\ Recency(v, j) \in Nat
        BY SourceEffect
      <4> QED
        BY <3>2, <3>4, <3>5, <3>6, <4>1
    <3> QED
      BY <3>2, <3>5, <3>6, <3>7
  <2> QED
    BY <2>2, <2>3
<1> QED
  BY <1>6, <1>7, <1>8

-----------------------------------------------------------------------------
(* What a search is about to return.                                       *)

\* The result r, cut or not, for a view v and the documents it had to find.
Outcome(v) ==
    /\ \A h \in v.result : /\ h.doc \in Docs
                           /\ InBuffer(v, h.doc) => h.version = v.snapshot[h.doc]
                           /\ v.kind.required => Shown(v, h.doc)
    /\ ~ v.full => \A d \in v.settled : /\ \E h \in v.result : h.doc = d
                                        /\ \A h \in v.result : h.doc = d => h.version = latest[d]

OutcomeInv == moved \/ \A s \in Searchers : pc[s] = "fill" /\ InOrder(view[s]) => Outcome(view[s])

LEMMA EvaluateOutcome ==
    ASSUME Typed, ScoresInv, SeqInv, AgeInv, FindInv, ~ moved, NEW s \in Searchers,
           Evaluate(s), InOrder(view'[s])
    PROVE  Outcome(view[s])'
<1> DEFINE v == view[s]
           n == Fetch(v)
<1>1. /\ pc[s] = "evaluate" /\ v \in View /\ Fit(v) /\ n \in Nat
      /\ UNCHANGED <<latest, scores, clock, tombstones>>
  BY EvaluatedFits, FetchTyped DEF Evaluate, Typed, SearchesTyped, written, shard
<1>2. \A d \in v.settled :
         /\ d \in Docs /\ Matches(latest[d]) /\ v.tombstones = Nil
         /\ \/ Listed(v.segments, {}, d)
            \/ v.snapshot # Nil /\ v.snapshot[d] = latest[d]
  BY <1>1, SettledTyped DEF FindInv, Finds, Bound
<1>3. ASSUME NEW result, NEW full, See(s, [v EXCEPT !.result = result, !.full = full]), InOrder(v) =>
                /\ \A h \in result : /\ h.doc \in Docs
                                     /\ InBuffer(v, h.doc) => h.version = v.snapshot[h.doc]
                                     /\ v.kind.required => Shown(v, h.doc)
                /\ ~ full => \A d \in v.settled : /\ \E h \in result : h.doc = d
                                                  /\ \A h \in result : h.doc = d => h.version = latest[d]
      PROVE  Outcome(view[s])'
  <2> DEFINE w == [v EXCEPT !.result = result, !.full = full]
  <2>1. view'[s] = w
    BY <1>3 DEF See, Typed, SearchesTyped
  <2>2. /\ w.segments = v.segments /\ w.snapshot = v.snapshot /\ w.settled = v.settled
        /\ w.kind = v.kind /\ w.result = result /\ w.full = full
    BY <1>1 DEF View
  <2> QED
    BY <1>1, <1>3, <2>1, <2>2 DEF Outcome, InOrder, InBuffer, Shown, Visible, Content, Matches
<1>4. CASE Active(v) = {} /\ See(s, [v EXCEPT !.result = {}])
  <2>1. v.settled = {}
    <3> SUFFICES ASSUME NEW d \in v.settled PROVE FALSE
      OBVIOUS
    <3>1. CASE v.snapshot # Nil
      BY <1>4, <3>1 DEF Active
    <3>2. CASE Listed(v.segments, {}, d)
      <4>1. PICK i \in DOMAIN v.segments : v.segments[i].copies[d] = latest[d] /\ v.segments[i].slot # Nil
        BY <3>2 DEF Listed
      <4>2. v.segments[i].slot = v.segments[i].copies
        BY <1>1, <4>1 DEF Fit
      <4> QED
        BY <1>1, <1>2, <1>4, <4>1, <4>2, MatchingIsActive
    <3> QED
      BY <1>2, <3>1, <3>2
  <2>2. See(s, [v EXCEPT !.result = {}, !.full = v.full])
    BY <1>1, <1>4 DEF View
  <2> QED
    BY <1>3, <2>1, <2>2
<1>5. ASSUME NEW seed \in Active(v),
             See(s, [v EXCEPT !.result = Top(Kept(v, Searched(v, seed, n), n), TopK),
                              !.full   = \/ Searched(v, seed, n) # Active(v) \/ Cut(v, n)
                                         \/ Cardinality(Dedup(v, Searched(v, seed, n), n)) > n
                                         \/ Cardinality(Kept(v, Searched(v, seed, n), n)) > TopK])
      PROVE  Outcome(view[s])'
  <2> DEFINE S     == Searched(v, seed, n)
             found == Dedup(v, S, n)
             kept  == Kept(v, S, n)
             full  == S # Active(v) \/ Cut(v, n) \/ Cardinality(found) > n \/ Cardinality(kept) > TopK
  <2>1. S \in SUBSET Active(v)
    BY DEF Searched
  <2>2. kept \subseteq found /\ IsFiniteSet(found)
    BY <1>1, <2>1, DedupEffect DEF Kept, Filter, Top
  <2>3. IsFiniteSet(kept) /\ Cardinality(kept) \in Nat /\ Cardinality(found) \in Nat
    <3> HIDE DEF kept, found
    <3> QED
      BY <2>2, FS_Subset, FS_CardinalityType
  <2>4. Top(kept, TopK) \subseteq kept
    BY DEF Top
  <2>5. ASSUME InOrder(v), NEW h \in Top(kept, TopK)
        PROVE  /\ h.doc \in Docs
               /\ InBuffer(v, h.doc) => h.version = v.snapshot[h.doc]
               /\ v.kind.required => Shown(v, h.doc)
    BY <1>1, <2>1, <2>4, <2>5, KeptEffect
  <2>6. ASSUME InOrder(v), ~ full, NEW d \in v.settled
        PROVE  /\ \E h \in Top(kept, TopK) : h.doc = d
               /\ \A h \in Top(kept, TopK) : h.doc = d => h.version = latest[d]
    <3>1. S = Active(v) /\ ~ Cut(v, n)
      BY <2>6
    <3>2. Cardinality(Dedup(v, Active(v), n)) <= n
      BY <1>1, <2>3, <2>6, <3>1
    <3>3. Cardinality(kept) <= TopK /\ TopK \in Nat
      BY <2>3, <2>6, SearchAssumption
    <3>4. \A h \in kept : h.version \in 1 .. clock /\ h.doc \in Docs
      BY <1>1, <2>1, <2>6, KeptEffect
    <3>5. Top(kept, TopK) = kept
      <4> HIDE DEF kept
      <4> QED
        BY <2>3, <3>3, <3>4, TopOfFew
    <3>6. /\ \E h \in Kept(v, Active(v), n) : h.doc = d
          /\ \A h \in Kept(v, Active(v), n) : h.doc = d => h.version = latest[d]
      BY <1>1, <1>2, <2>6, <3>1, <3>2, KeptFinds
    <3> QED
      BY <3>1, <3>5, <3>6
  <2>7. See(s, [v EXCEPT !.result = Top(kept, TopK), !.full = full])
    BY <1>5
  <2> HIDE DEF kept, full, found, S
  <2> QED
    BY <1>3, <2>5, <2>6, <2>7
<1> QED
  BY <1>4, <1>5 DEF Evaluate, Kept

\* What was true of a result stays so, for the documents still to be found.
LEMMA OutcomeKept ==
    ASSUME Typed, ScoresInv, [Next]_vars, NEW s \in Searchers, Outcome(view[s]),
           view'[s].segments = view[s].segments, view'[s].snapshot = view[s].snapshot,
           view'[s].result = view[s].result, view'[s].kind = view[s].kind,
           view'[s].full = view[s].full, view'[s].settled \subseteq view[s].settled,
           \A d \in view'[s].settled : latest'[d] = latest[d]
    PROVE  Outcome(view[s])'
<1> DEFINE v == view[s]
<1>1. clock \in Nat /\ clock' \in Nat /\ clock <= clock'
  BY NextTyped, ClockStep DEF Typed, WritesTyped
<1>2. ASSUME NEW d \in Docs, Shown(v, d) PROVE Shown(v, d)'
  <2>1. Visible(v)' = Visible(v)
    BY DEF Visible, Content
  <2>2. PICK c \in Visible(v) : /\ c[d] \in 1 .. clock /\ Matches(c[d])
                                /\ \A e \in Visible(v) : e[d] \in Nat /\ e[d] <= c[d]
    BY <1>2 DEF Shown
  <2>3. PICK m \in Nat : m = c[d] /\ m <= clock
    BY <1>1, <2>2
  <2>4. Matches(m)'
    BY <2>2, <2>3, MatchesStay
  <2>5. PICK b \in Visible(v)' : b = c
    BY <2>1
  <2>6. b[d] \in 1 .. clock' /\ Matches(b[d])'
    BY <1>1, <2>2, <2>3, <2>4, <2>5 DEF Matches
  <2>7. \A e \in Visible(v)' : e[d] \in Nat /\ e[d] <= b[d]
    BY <2>1, <2>2, <2>5
  <2> QED
    BY <2>6, <2>7 DEF Shown
<1> QED
  BY <1>2 DEF Outcome, InBuffer

LEMMA NextOutcome ==
    /\ Typed /\ ScoresInv /\ SeqInv /\ AgeInv /\ FindInv /\ OutcomeInv /\ [Next]_vars
    => OutcomeInv'
<1> SUFFICES ASSUME Typed, ScoresInv, SeqInv, AgeInv, FindInv, OutcomeInv, [Next]_vars, ~ moved',
                    NEW s \in Searchers, pc'[s] = "fill", InOrder(view'[s])
             PROVE  Outcome(view[s])'
  BY DEF OutcomeInv, InOrder
<1>1. ~ moved
  BY MovedStays
<1>2. ASSUME pc[s] = "fill", view'[s].segments = view[s].segments PROVE Outcome(view[s])
  BY <1>1, <1>2 DEF OutcomeInv, InOrder
<1>3. CASE ShardStep
  <2>1. /\ pc' = pc /\ view'[s].segments = view[s].segments /\ view'[s].snapshot = view[s].snapshot
        /\ view'[s].result = view[s].result /\ view'[s].kind = view[s].kind
        /\ view'[s].full = view[s].full /\ view'[s].settled \subseteq view[s].settled
    BY <1>3, ViewsKept
  <2>2. \A d \in view'[s].settled : latest'[d] = latest[d]
    BY <1>3, <2>1, SettledTyped, SettledKept
  <2> QED
    BY <1>2, <2>1, <2>2, OutcomeKept
<1>4. ASSUME NEW t \in Searchers, SearchStep(t), t # s PROVE Outcome(view[s])'
  <2>1. view'[s] = view[s] /\ pc'[s] = pc[s]
    BY <1>4, OthersStay
  <2>2. latest' = latest
    BY <1>4, ShardKept
  <2> QED
    BY <1>2, <2>1, <2>2, OutcomeKept
<1>5. CASE SearchStep(s) /\ ~ Evaluate(s)
  <2>1. PICK label \in {"idle", "load", "snapshot", "rebuild", "evaluate"} : Goto(s, label)
    BY <1>5, TakeViewEffect
       DEF SearchStep, BeginSearch, WriteBack, LoadFails, Rebuild, Fill, EndSearch
  <2> QED
    BY <2>1, GotoEffect DEF Labels
<1> QED
  BY <1>1, <1>3, <1>4, <1>5, EvaluateOutcome DEF Next, ShardStep, SearchStep

-----------------------------------------------------------------------------
(* The results.                                                            *)

\* The invariants that the results follow from, but for those proved above.
ResultInv == ScoresInv /\ AgeInv /\ SeqInv /\ FindInv /\ OutcomeInv

LEMMA InitResult == Init => ResultInv
<1> SUFFICES ASSUME Init PROVE ResultInv
  OBVIOUS
<1>1. ScoresInv
  BY SearchAssumption DEF Init, ScoresInv, Nil
<1>2. AgeInv
  <2> SUFFICES ASSUME NEW d \in Docs PROVE Ordered(d)
    BY DEF AgeInv
  <2>1. clock = 0 /\ latest[d] = 0 /\ buffer[d] = 0 /\ snapshot = Nil
    BY DEF Init, NoCopies
  <2>2. Stored(d) = {}
    BY DEF Init, Stored, Held
  <2> QED
    BY <2>1, <2>2 DEF Ordered, Known, Init
<1>3. SeqInv
  BY DEF Init, SeqInv, ListInv, ViewFits, Distinct
<1>4. FindInv /\ OutcomeInv
  BY DEF Init, FindInv, Finds, OutcomeInv
<1> QED
  BY <1>1, <1>2, <1>3, <1>4 DEF ResultInv

LEMMA NextResult ==
    Typed /\ SnapshotInv /\ SlotInv /\ ResultInv /\ [Next]_vars => ResultInv'
BY NextScores, NextAge, NextSeq, NextFind, NextOutcome DEF ResultInv

LEMMA SpecResult == Spec => [](Typed /\ ResultInv)
<1>1. Init => SnapshotInv
  BY DEF Init, SnapshotInv, NoCopies, Nil
<1>2. Init => SlotInv
  BY DEF Init, SlotInv, SlotsFit, WorkFits, OutputFits
<1> QED
  BY <1>1, <1>2, InitTyped, NextTyped, NextSnapshot, NextSlot, InitResult, NextResult, PTL DEF Spec

\* A search that neither prunes a source nor cuts a list of hits returns every
\* matching document that was in a registered segment, or due in the snapshot of the
\* buffer, when it started and that no write, flush or merge has touched since
\* (search.go Search and searchAll): the lists it takes after loading, under locks of
\* their own, still hold it, however many flushes, loads and refreshes came between.
THEOREM ShortResultsAreComplete == Spec => []ShortResultIsComplete
<1>1. ResultInv => ShortResultIsComplete
  BY DEF ResultInv, OutcomeInv, Outcome, ShortResultIsComplete
<1> QED
  BY <1>1, SpecResult, PTL

\* A copy in a segment is never returned for a document that the search's snapshot of
\* the buffer has; and of a document the search has to find the last version is
\* returned, which is the work of the deduplication by flush sequence (search.go
\* searchAll): sequences are distinct, and the copies follow them, unless a merge has
\* put an old copy above a newer one.
THEOREM NewestMatchIsReturned == Spec => []NewestMatchWins
<1>1. ResultInv => NewestMatchWins
  BY DEF ResultInv, OutcomeInv, Outcome, NewestMatchWins
<1> QED
  BY <1>1, SpecResult, PTL

\* Every document returned for a required term has the term in the newest copy that
\* the search could see (search.go applyQueryFilters, docHasTermAnywhere), in the
\* buffer or in a segment.
THEOREM RequiredTermsAreCurrent == Spec => []RequiredTermIsCurrent
<1>1. Typed /\ ResultInv => RequiredTermIsCurrent
  <2> SUFFICES ASSUME Typed, ResultInv, NEW s \in Searchers, pc[s] = "fill",
                      view[s].kind.required, ~ moved, InOrder(view[s]),
                      NEW h \in view[s].result
               PROVE  Matches(Max({c[h.doc] : c \in Visible(view[s])}))
    BY DEF RequiredTermIsCurrent, Visible
  <2> DEFINE S == {c[h.doc] : c \in Visible(view[s])}
  <2>1. Shown(view[s], h.doc)
    BY DEF ResultInv, OutcomeInv, Outcome
  <2>2. PICK m \in S : m \in Nat /\ Matches(m) /\ \A n \in S : n \in Nat /\ n <= m
    BY <2>1 DEF Shown
  <2>3. Max(S) = m
    <3> HIDE DEF S
    <3>1. \A n \in S : m >= n
      BY <2>2
    <3>2. Max(S) \in S /\ \A n \in S : Max(S) >= n
      BY <3>1 DEF Max
    <3> DEFINE x == Max(S)
    <3>3. x \in S /\ x >= m
      BY <2>2, <3>2
    <3> HIDE DEF x
    <3>4. x \in Nat /\ x <= m
      BY <2>2, <3>3
    <3>5. x = m
      BY <2>2, <3>3, <3>4
    <3> QED
      BY <3>5 DEF x
  <2> QED
    BY <2>2, <2>3
<1> QED
  BY <1>1, SpecResult, PTL

=============================================================================
