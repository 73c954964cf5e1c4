---------------------------- MODULE DurableStore ----------------------------
(***************************************************************************)
(* What a shard with a synced log promises: a map from documents to their  *)
(* last written version.  A request takes the next numbers in one step; no *)
(* other step (a flush, a rotation, a crash, a restart) changes the map,   *)
(* and a number is never used twice.                                       *)
(***************************************************************************)
EXTENDS Integers, Sequences

CONSTANTS Docs, Batches, Absent

VARIABLES store, clock

Init ==
    /\ store = [d \in Docs |-> Absent]
    /\ clock = 0

\* Document i of the batch gets number clock + i; a repeated id keeps its last.
Put(docs) ==
    LET places(d) == {i \in DOMAIN docs : docs[i] = d}
    IN  /\ clock' = clock + Len(docs)
        /\ store' = [d \in Docs |->
                       IF places(d) = {} THEN store[d]
                       ELSE clock + (CHOOSE i \in places(d) : \A j \in places(d) : j <= i)]

Remove(d) ==
    /\ clock' = clock + 1
    /\ store' = [store EXCEPT ![d] = Absent]

Next == (\E docs \in Batches : Put(docs)) \/ (\E d \in Docs : Remove(d))

Spec == Init /\ [][Next]_<<store, clock>>
=============================================================================
