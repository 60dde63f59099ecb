----------------------------- MODULE MCRegistry -----------------------------
(* Registry for model checking; the constants are given in the cfg files. *)
EXTENDS Registry, TLC

\* Listeners, goroutines and values are interchangeable.
Symmetric == Permutations(Listeners) \cup Permutations(Watches) \cup Permutations(Vals)
=============================================================================
