--------------------------- MODULE MCSnapshotCrc ---------------------------
(* Instances of SnapshotCrc: which commits happen, and how many files there *)
(* are besides them.                                                        *)
EXTENDS SnapshotCrc, FiniteSets

Plain == [alters |-> {}, dm |-> "none", op |-> "WRITE", adds |-> 1]
Analyze == [Plain EXCEPT !.op = "ANALYZE STATS"]

(* Commits that alter the protocol, the metadata or neither.                *)
Alterations == {[Plain EXCEPT !.alters = slots] : slots \in {{}, {"protocol"}, {"metaData"}}}

Always == {TRUE}
Sometimes == BOOLEAN

(* Commits that set or remove the domain, one that alters the metadata, and *)
(* one whose adds do not count.                                             *)
Contents ==
    {[Plain EXCEPT !.alters = {"metaData"}], Analyze}
        \cup {[Plain EXCEPT !.dm = dm] : dm \in {"none", "set", "removed"}}

(* At most three checksums and checkpoints at a time.  A third commit after *)
(* the table was created, with which an update can first take a checksum    *)
(* from before the snapshot it updates, only where no checkpoint and no     *)
(* more than two checksums are there and only the metadata is altered.      *)
FewFiles ==
    /\ Cardinality(DOMAIN crcs) + Cardinality(checkpoints) <= 3
    /\ Latest = MaxVersion =>
        /\ checkpoints = {}
        /\ Cardinality(DOMAIN crcs) <= 2
        /\ \A i \in DOMAIN commits : commits[i].op = "WRITE" /\ commits[i].dm = "none"

=============================================================================
