---------------------------- MODULE MCThreadStore ----------------------------
(* Small instances of ThreadStore.                                          *)
EXTENDS ThreadStore

Symmetries == Permutations(Threads) \cup Permutations(RunIds) \cup Permutations(Workers)
=============================================================================
