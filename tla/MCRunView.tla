------------------------------- MODULE MCRunView -------------------------------
(* Small instances of the chat panel.                                       *)
EXTENDS RunView, TLC

Symmetry == Permutations(Sessions)
===============================================================================
