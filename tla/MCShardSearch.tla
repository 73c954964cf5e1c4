---------------------------- MODULE MCShardSearch ----------------------------
(* An instance of ShardSearch for TLC. *)
EXTENDS ShardSearch

\* A plain search with snippets, which uses the cache, and an evaluation query with
\* a required term, which does not.
TwoKinds == {[required |-> FALSE, snippets |-> TRUE], [required |-> TRUE, snippets |-> FALSE]}
=============================================================================
