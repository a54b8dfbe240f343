----------------------------- MODULE MCCatalog -----------------------------
(* Instances of Catalog for TLC.                                            *)
EXTENDS Catalog, TLC

CONSTANTS c1, c2

MCClients == {c1, c2}

Symmetric == Permutations(MCClients)

(* Bound: a third commit, with which the limit on unpublished commits is    *)
(* met, is tried in tables without checkpoints, with two requests at most.  *)
ThirdCommitAlone ==
    Len(outcome) = 3 => /\ storage.single = {} /\ storage.parts = {}
                        /\ Cardinality(requests) <= 2
=============================================================================
