---------------------------- MODULE MCTaskQueue ----------------------------
(* TaskQueue for TLC: tasks and paths are interchangeable model values.     *)
EXTENDS TaskQueue, TLC

Symmetry == Permutations(Tasks) \cup Permutations(Paths)
=============================================================================
