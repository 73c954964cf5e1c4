-------------------------- MODULE MCSegmentManager --------------------------
(* Instances of SegmentManager for TLC: batches and symmetry.               *)
EXTENDS SegmentManagerProperties, TLC

\* Requests of one document; requests of any number of distinct documents.
SingleBatches == {<<d>> : d \in Docs}
AllBatches    == {b \in UNION {[1 .. n -> Docs] : n \in 1 .. Cardinality(Docs)} :
                    \A i, j \in DOMAIN b : b[i] = b[j] => i = j}

DataSymmetry == Permutations(Docs) \cup Permutations(Builders)
=============================================================================
