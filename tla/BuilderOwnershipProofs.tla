----------------------- MODULE BuilderOwnershipProofs -----------------------
(* BuilderOwnership proved for all values of the constants: the pool and    *)
(* the background flushes never let one builder serve two roles.            *)
EXTENDS SegmentManagerProofs

-----------------------------------------------------------------------------
(* The inductive invariant.                                                *)

\* A thread holds one builder between the pool and the swap, any number while GC
\* refills the pool, and none elsewhere.
HeldByPc ==
    \A t \in Threads :
        /\ pc[t] = "recheck" => \E b \in Builders : held[t] = {b}
        /\ pc[t] \notin {"recheck", "refill"} => held[t] = {}

\* BuilderOwnership, one builder at a time.
Owned ==
    /\ flushing[buffer].stage = "none"
    /\ \A b \in freeBuffers : b # buffer /\ flushing[b].stage = "none" /\ content[b] = {}
    /\ \A t \in Threads : \A b \in held[t] :
          /\ b # buffer /\ b \notin freeBuffers
          /\ flushing[b].stage = "none" /\ content[b] = {}
    /\ \A t, u \in Threads : \A b \in held[t] : b \in held[u] => t = u
    /\ \A b \in Builders : \/ b = buffer \/ b \in freeBuffers \/ flushing[b].stage # "none"
                           \/ \E t \in Threads : b \in held[t]

OwnInv == IndInv /\ HeldByPc /\ Owned

\* It holds initially.
LEMMA InitOwned == Init => HeldByPc /\ Owned
BY DEF Init, HeldByPc, Owned, NotFlushed

\* It implies the property.
LEMMA OwnedIsOwnership == OwnInv => BuilderOwnership
<1> SUFFICES ASSUME OwnInv PROVE BuilderOwnership
  OBVIOUS
<1> DEFINE inFlight == {b \in Builders : flushing[b].stage # "none"}
           taken    == UNION {held[t] : t \in Threads}
<1>1. \A b \in taken : \E t \in Threads : b \in held[t]
  OBVIOUS
<1>2. \A t \in Threads : held[t] \subseteq taken /\ held[t] \subseteq Builders
  BY DEF OwnInv, IndInv, TypeOK
<1>3. taken \subseteq Builders /\ freeBuffers \subseteq Builders /\ buffer \in Builders
  BY <1>1, <1>2 DEF OwnInv, IndInv, TypeOK
<1> HIDE DEF taken
<1>4. buffer \notin freeBuffers \cup inFlight \cup taken
  BY <1>1 DEF OwnInv, Owned
<1>5. freeBuffers \cap (inFlight \cup taken) = {} /\ inFlight \cap taken = {}
  BY <1>1 DEF OwnInv, Owned
<1>6. \A t, u \in Threads : t # u => held[t] \cap held[u] = {}
  BY DEF OwnInv, Owned
<1>7. Builders = {buffer} \cup freeBuffers \cup inFlight \cup taken
  BY <1>2, <1>3 DEF OwnInv, Owned
<1>8. \A b \in freeBuffers \cup taken : content[b] = {}
  BY <1>1 DEF OwnInv, Owned
<1> QED
  BY <1>4, <1>5, <1>6, <1>7, <1>8 DEF BuilderOwnership, taken

-----------------------------------------------------------------------------
(* Steps that leave the pool alone.                                        *)

\* Such a step changes no builder but the active one, and no thread enters or
\* leaves the two places that hold builders.
PoolUntouched ==
    /\ UNCHANGED <<buffer, freeBuffers, flushing, held>>
    /\ \A b \in Builders \ {buffer} : content'[b] = content[b]
    /\ \A t \in Threads : \/ pc'[t] = pc[t]
                          \/ pc[t] \notin {"recheck", "refill"} /\ pc'[t] \notin {"recheck", "refill"}

LEMMA UntouchedKeeps == ASSUME OwnInv, PoolUntouched PROVE HeldByPc' /\ Owned'
<1> USE DEF OwnInv, PoolUntouched
<1>1. HeldByPc'
  BY DEF HeldByPc
<1>2. Owned'
  <2>1. freeBuffers \subseteq Builders /\ \A t \in Threads : held[t] \subseteq Builders
    BY DEF IndInv, TypeOK
  <2> QED
    BY <2>1 DEF Owned
<1> QED
  BY <1>1, <1>2

\* The start of every request but GC is such a step ...
LEMMA NewRequestUntouched ==
    ASSUME OwnInv, NEW t \in Threads, NewRequest(t), ~ DrainPool(t)
    PROVE  PoolUntouched
<1> USE DEF OwnInv, IndInv, TypeOK, PoolUntouched, Begin, Goto, pipeline
<1>1. ASSUME NEW kind, NEW es, NEW n, LogRequest(t, kind, es, n) PROVE PoolUntouched
  BY <1>1 DEF LogRequest
<1>2. CASE IndexDocs(t) \/ DeleteDocument(t)
  BY <1>1, <1>2 DEF IndexDocs, DeleteDocument
<1>3. CASE IndexDocsNoWAL(t)
  BY <1>3 DEF IndexDocsNoWAL
<1>4. CASE Flush(t) \/ CloseFlush(t)
  BY <1>4 DEF Flush, CloseFlush, FlushPutFile
<1>5. CASE ResetWait(t)
  BY <1>5 DEF ResetWait
<1> QED
  BY <1>2, <1>3, <1>4, <1>5 DEF NewRequest

\* ... and so are the other steps of a delete, an explicit flush and a Reset.
LEMMA ThreadStepUntouched ==
    ASSUME OwnInv, NEW t \in Threads,
           \/ AddTombstone(t) \/ FlushAddSegment(t) \/ RotateWAL(t)
           \/ ResetFiles(t) \/ ResetWAL(t) \/ ResetMeta(t) \/ ResetFloor(t)
    PROVE  PoolUntouched
<1> USE DEF OwnInv, IndInv, TypeOK, PoolUntouched, Return, Begin, Goto, pipeline
<1>1. CASE AddTombstone(t)
  BY <1>1 DEF AddTombstone
<1>2. CASE FlushAddSegment(t)
  BY <1>2 DEF FlushAddSegment
<1>3. CASE RotateWAL(t)
  BY <1>3 DEF RotateWAL
<1>4. CASE ResetFiles(t)
  BY <1>4 DEF ResetFiles
<1>5. CASE ResetWAL(t)
  BY <1>5 DEF ResetWAL
<1>6. CASE ResetMeta(t)
  BY <1>6 DEF ResetMeta
<1>7. CASE ResetFloor(t)
  BY <1>7 DEF ResetFloor
<1> QED
  BY <1>1, <1>2, <1>3, <1>4, <1>5, <1>6, <1>7

-----------------------------------------------------------------------------
(* Steps that move a builder.                                              *)

\* The documents of a request enter the active builder; at the threshold a free
\* builder replaces it and its own flush starts.
LEMMA AddDocsToBufferOwned ==
    ASSUME OwnInv, NEW t \in Threads, AddDocsToBuffer(t) PROVE HeldByPc' /\ Owned'
<1> USE DEF OwnInv, IndInv, TypeOK
<1>1. CASE UNCHANGED <<buffer, freeBuffers, flushing>>
  <2>1. \E l \in {"idle", "await"} : pc' = [pc EXCEPT ![t] = l]
    BY DEF AddDocsToBuffer, Swap, Return, Begin, Goto
  <2>2. PoolUntouched
    BY <1>1, <2>1 DEF AddDocsToBuffer, PoolUntouched
  <2> QED
    BY <2>2, UntouchedKeeps
<1>2. CASE \E b \in freeBuffers : Swap(t, b) /\ freeBuffers' = freeBuffers \ {b}
  <2>1. PICK b \in freeBuffers : Swap(t, b) /\ freeBuffers' = freeBuffers \ {b}
    BY <1>2
  <2>2. /\ buffer' = b /\ pc' = [pc EXCEPT ![t] = "idle"] /\ pc[t] = "apply"
        /\ flushing' = [flushing EXCEPT ![buffer] = [stage |-> "write", seq |-> FlushSeq]]
        /\ held' = held /\ \A c \in Builders \ {buffer} : content'[c] = content[c]
    BY <2>1 DEF Swap, Return, Begin, Goto, AddDocsToBuffer
  <2>3. HeldByPc'
    BY <2>2 DEF HeldByPc
  <2>4. b # buffer /\ b \in Builders /\ freeBuffers \subseteq Builders
    BY DEF Owned
  <2>5. Owned'
    <3>1. flushing'[buffer].stage = "write" /\ \A c \in Builders \ {buffer} : flushing'[c] = flushing[c]
      BY <2>2
    <3> QED
      BY <2>1, <2>2, <2>4, <3>1 DEF Owned
  <2> QED
    BY <2>3, <2>5
<1> QED
  BY <1>1, <1>2 DEF AddDocsToBuffer

\* A blocked thread takes a builder.
LEMMA TakeBuilderOwned ==
    ASSUME OwnInv, NEW t \in Threads, TakeBuilder(t) PROVE HeldByPc' /\ Owned'
<1> USE DEF OwnInv, IndInv, TypeOK
<1>1. PICK b \in freeBuffers : freeBuffers' = freeBuffers \ {b} /\ held' = [held EXCEPT ![t] = {b}]
  BY DEF TakeBuilder
<1>2. /\ pc[t] = "await" /\ pc' = [pc EXCEPT ![t] = "recheck"]
      /\ UNCHANGED <<buffer, flushing, content>> /\ held[t] = {} /\ b \in Builders
  BY DEF TakeBuilder, Goto, HeldByPc
<1>3. HeldByPc'
  BY <1>1, <1>2 DEF HeldByPc
<1>4. Owned'
  BY <1>1, <1>2 DEF Owned
<1> QED
  BY <1>3, <1>4

\* A thread with a builder returns it, or swaps it in.
LEMMA RecheckOwned ==
    ASSUME OwnInv, NEW t \in Threads, Recheck(t) PROVE HeldByPc' /\ Owned'
<1> USE DEF OwnInv, IndInv, TypeOK
<1>1. /\ pc[t] = "recheck" /\ pc' = [pc EXCEPT ![t] = "idle"] /\ content' = content
      /\ held' = [held EXCEPT ![t] = {}]
  BY DEF Recheck, Swap, Return, Begin, Goto
<1>2. PICK b \in Builders : held[t] = {b}
  BY <1>1 DEF HeldByPc
<1>3. HeldByPc'
  BY <1>1 DEF HeldByPc
<1>4. CASE UNCHANGED <<buffer, flushing>> /\ freeBuffers' = freeBuffers \cup held[t]
  BY <1>1, <1>2, <1>3, <1>4 DEF Owned
<1>5. CASE freeBuffers' = freeBuffers /\ \E c \in held[t] : Swap(t, c)
  <2>1. buffer' = b /\ flushing' = [flushing EXCEPT ![buffer] = [stage |-> "write", seq |-> FlushSeq]]
    BY <1>2, <1>5 DEF Swap
  <2>2. flushing'[buffer].stage = "write" /\ \A c \in Builders \ {buffer} : flushing'[c] = flushing[c]
    BY <2>1
  <2>3. b # buffer /\ b \notin freeBuffers
    BY <1>2 DEF Owned
  <2> QED
    BY <1>1, <1>2, <1>3, <1>5, <2>1, <2>2, <2>3 DEF Owned
<1> QED
  BY <1>4, <1>5 DEF Recheck

\* GC empties the pool ...
LEMMA DrainPoolOwned ==
    ASSUME OwnInv, NEW t \in Threads, DrainPool(t) PROVE HeldByPc' /\ Owned'
<1> USE DEF OwnInv, IndInv, TypeOK
<1>1. /\ pc[t] = "idle" /\ pc' = [pc EXCEPT ![t] = "refill"]
      /\ held' = [held EXCEPT ![t] = freeBuffers] /\ freeBuffers' = {}
      /\ UNCHANGED <<buffer, flushing, content>> /\ held[t] = {}
  BY DEF DrainPool, Begin, Goto, HeldByPc
<1>2. HeldByPc'
  BY <1>1 DEF HeldByPc
<1>3. Owned'
  BY <1>1 DEF Owned
<1> QED
  BY <1>2, <1>3

\* ... and fills it again.
LEMMA RefillPoolOwned ==
    ASSUME OwnInv, NEW t \in Threads, RefillPool(t) PROVE HeldByPc' /\ Owned'
<1> USE DEF OwnInv, IndInv, TypeOK
<1>1. /\ pc[t] = "refill" /\ pc' = [pc EXCEPT ![t] = "idle"]
      /\ held' = [held EXCEPT ![t] = {}] /\ freeBuffers' = freeBuffers \cup held[t]
      /\ UNCHANGED <<buffer, flushing, content>>
  BY DEF RefillPool, Return, Begin, Goto
<1>2. HeldByPc'
  BY <1>1 DEF HeldByPc
<1>3. Owned'
  BY <1>1 DEF Owned
<1> QED
  BY <1>2, <1>3

\* A background flush moves on; when it ends its builder joins the pool, empty.
LEMMA BackgroundStepOwned ==
    ASSUME OwnInv, NEW b \in Builders, BackgroundStep(b) PROVE HeldByPc' /\ Owned'
<1> USE DEF OwnInv, IndInv, TypeOK
<1>1. CASE BackgroundPutFile(b) \/ BackgroundAddSegment(b)
  <2>1. /\ UNCHANGED <<buffer, freeBuffers, content, pc, held>>
        /\ flushing[b].stage # "none" /\ flushing'[b].stage # "none"
        /\ \A c \in Builders \ {b} : flushing'[c] = flushing[c]
    BY <1>1 DEF BackgroundPutFile, BackgroundAddSegment, Flushing
  <2>2. b # buffer /\ b \notin freeBuffers /\ \A t \in Threads : b \notin held[t]
    BY <2>1 DEF Owned
  <2> QED
    BY <2>1, <2>2 DEF Owned, HeldByPc
<1>2. CASE BackgroundFlushError(b) \/ BackgroundPublish(b)
  <2>1. /\ UNCHANGED <<buffer, pc, held>> /\ freeBuffers' = freeBuffers \cup {b}
        /\ flushing[b].stage # "none" /\ flushing'[b].stage = "none" /\ content'[b] = {}
        /\ \A c \in Builders \ {b} : flushing'[c] = flushing[c] /\ content'[c] = content[c]
    BY <1>2 DEF BackgroundFlushError, BackgroundPublish, NotFlushed
  <2>2. b # buffer /\ b \notin freeBuffers /\ \A t \in Threads : b \notin held[t]
    BY <2>1 DEF Owned
  <2> QED
    BY <2>1, <2>2 DEF Owned, HeldByPc
<1> QED
  BY <1>1, <1>2 DEF BackgroundStep

-----------------------------------------------------------------------------
(* Shutdown, crash, recovery, and the theorem.                             *)

\* A stopped process has its active builder and a full pool.
LEMMA StopOwned == ASSUME OwnInv, Stop PROVE HeldByPc' /\ Owned'
BY DEF OwnInv, IndInv, TypeOK, Stop, HeldByPc, Owned, NotFlushed

\* Replay fills the active builder only.
LEMMA LoadFromMetaOwned == ASSUME OwnInv, LoadFromMeta PROVE HeldByPc' /\ Owned'
<1>1. PoolUntouched
  BY DEF OwnInv, IndInv, TypeOK, LoadFromMeta, PoolUntouched
<1> QED
  BY <1>1, UntouchedKeeps

\* Every step keeps the invariant.
LEMMA NextOwned == OwnInv /\ [Next]_vars => OwnInv'
<1> SUFFICES ASSUME OwnInv, [Next]_vars PROVE HeldByPc' /\ Owned'
  BY NextIndInv DEF OwnInv
<1>1. ASSUME NEW t \in Threads, NewRequest(t) PROVE HeldByPc' /\ Owned'
  BY <1>1, DrainPoolOwned, NewRequestUntouched, UntouchedKeeps
<1>2. ASSUME NEW t \in Threads, ThreadStep(t) PROVE HeldByPc' /\ Owned'
  <2>1. CASE CloseWAL(t)
    BY <2>1, StopOwned DEF CloseWAL
  <2>2. CASE \/ AddTombstone(t) \/ FlushAddSegment(t) \/ RotateWAL(t)
             \/ ResetFiles(t) \/ ResetWAL(t) \/ ResetMeta(t) \/ ResetFloor(t)
    BY <2>2, ThreadStepUntouched, UntouchedKeeps
  <2>3. CASE AddDocsToBuffer(t) \/ TakeBuilder(t) \/ Recheck(t) \/ RefillPool(t)
    BY <2>3, AddDocsToBufferOwned, TakeBuilderOwned, RecheckOwned, RefillPoolOwned
  <2> QED
    BY <1>2, <2>1, <2>2, <2>3 DEF ThreadStep
<1>3. CASE FlushWALBuffer
  <2>1. PoolUntouched
    BY <1>3 DEF FlushWALBuffer, PoolUntouched, pipeline
  <2> QED
    BY <2>1, UntouchedKeeps
<1>4. CASE UNCHANGED vars
  <2>1. PoolUntouched
    BY <1>4 DEF vars, PoolUntouched, pipeline
  <2> QED
    BY <2>1, UntouchedKeeps
<1>5. Crash => Stop
  BY DEF Crash
<1>6. Rest => UNCHANGED vars
  BY DEF Rest
<1> QED
  BY <1>1, <1>2, <1>3, <1>4, <1>5, <1>6, BackgroundStepOwned, StopOwned, LoadFromMetaOwned
     DEF Next

\* No builder ever serves two roles or is lost, and whatever may become the active
\* builder is empty (flushOrSwap, runBackgroundFlush, GC, Reset, Close): whatever
\* the sizes of the pool and of the thread set, with and without I/O errors.
THEOREM BuildersHaveOneOwner == Spec => []BuilderOwnership
<1>1. Init => OwnInv
  BY InitIndInv, InitOwned DEF OwnInv
<1> QED
  BY <1>1, NextOwned, OwnedIsOwnership, PTL DEF Spec
=============================================================================
