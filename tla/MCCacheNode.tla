---------------------------- MODULE MCCacheNode ----------------------------
(* CacheNode with readers and keys that may be permuted. *)
EXTENDS CacheNode, TLC

Symmetry == Permutations(Procs) \cup Permutations(Keys)
=============================================================================
