----------------------------- MODULE MCTaskQueue -----------------------------
(* TaskQueue for TLC: tasks and processes are interchangeable model values.    *)
EXTENDS TaskQueue, TLC

Symmetry == Permutations(Tasks) \cup Permutations(Procs)
=============================================================================
