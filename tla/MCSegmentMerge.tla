--------------------------- MODULE MCSegmentMerge ---------------------------
(* Instances of SegmentMerge for TLC.  Documents and mergers are symmetric.   *)
EXTENDS SegmentMerge, TLC

Symmetry == Permutations(Docs) \cup Permutations(Mergers)
=============================================================================
