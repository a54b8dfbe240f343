-------------------------- MODULE MCCommitProtocol --------------------------
(* Small instances of CommitProtocol for model checking.                    *)
EXTENDS CommitProtocol, TLC

CONSTANTS t1, t2, t3, a1, a2

TwoTxns == {t1, t2}
ThreeTxns == {t1, t2, t3}
OneApp == {a1}
TwoApps == {a1, a2}

(* Transaction objects are interchangeable. *)
TxnSymmetry == Permutations(Txns)

=============================================================================
