------------------------------ MODULE MCEditor -------------------------------
(* Editor for TLC: tabs are interchangeable. *)
EXTENDS Editor, TLC

Interchangeable == Permutations(Tab)
=============================================================================
