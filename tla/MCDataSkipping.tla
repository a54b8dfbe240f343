-------------------------- MODULE MCDataSkipping ---------------------------
(* DataSkipping for TLC: predicates of at most one AND or OR.               *)
EXTENDS DataSkipping
=============================================================================
