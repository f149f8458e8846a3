---------------------------- MODULE MCWriterLock -----------------------------
(* WriterLock for TLC: processes and pages are interchangeable. *)
EXTENDS WriterLock, TLC

Interchangeable == Permutations(Process) \cup Permutations(Page)
=============================================================================
