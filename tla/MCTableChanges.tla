-------------------------- MODULE MCTableChanges ---------------------------
(* Instances of TableChanges for TLC.                                       *)
EXTENDS TableChanges

CONSTANTS f1, f2

MCFiles == {f1, f2}

(* A file of two rows in one batch or in two.                               *)
TwoRowLayouts == {<<2>>, <<1, 1>>}

TwoPrefixes == {<<>>, <<"a">>}

Symmetric == Permutations(MCFiles)
=============================================================================
