-------------------------- MODULE MCLogMaintenance --------------------------
(* Small instances of LogMaintenance for model checking.                    *)
EXTENDS LogMaintenance, TLC, FiniteSets

CONSTANTS f1, f2, a1, d1, m1, m2

OneFile == {f1}
TwoFiles == {f1, f2}
OneMaintainer == {m1}
TwoMaintainers == {m1, m2}
OneApp == {a1}
OneDomain == {d1}
NoElements == {}
AllRanges == {<<lo, hi>> \in (0..MaxVersion) \X (0..MaxVersion) : lo < hi}

(* Bound: two checkpoints or compacted files, and a third before it stops.  *)
FewFiles == Cardinality(DOMAIN checkpoints) + Cardinality(DOMAIN compacted) <= 2

FirstFileIrrelevant == {f1}
Symmetric == Permutations(Maintainers)

=============================================================================
