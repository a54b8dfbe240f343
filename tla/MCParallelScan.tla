---------------------------- MODULE MCParallelScan ----------------------------
(* Small instances of ParallelScan for model checking.                       *)
EXTENDS ParallelScan, TLC

CONSTANTS f1, f2, w1, w2, l1, l2

TwoFiles == {f1, f2}
FirstFileIrrelevant == {f1}
NoElements == {}
TwoWorkers == {w1, w2}
TwoLeaves == {l1, l2}

Symmetric == Permutations(TwoWorkers) \cup Permutations(TwoLeaves)
=============================================================================
