---------------------------- MODULE ScanContract ----------------------------
(***************************************************************************)
(* What a scan of a snapshot promises to an engine that reads its files:   *)
(* every live file that can hold a matching row is delivered with its      *)
(* newest add action, no file is delivered twice, and no file is           *)
(* delivered that is not live, whatever parts of the log the deliveries    *)
(* come from.  A scan may fail; it then promises nothing more.             *)
(***************************************************************************)
VARIABLES
    live,        \* the add actions of the snapshot
    relevant,    \* the files that can hold a row the predicate selects
    delivered,   \* pairs of a source (a batch of the log) and an add action
    status       \* "idle", "running", "done" or "failed"

Once(pairs) == \A p, q \in pairs : p[2].slot = q[2].slot => p = q

Deliverable(row) ==
    \E l \in live : l.slot = row.slot /\ (row.slot \in relevant => row = l)

Init ==
    /\ live = {} /\ relevant = {} /\ delivered = {}
    /\ status = "idle"

(* The scan is given its snapshot and its predicate.                        *)
Begin ==
    /\ status = "idle"
    /\ \A l, m \in live' : l.slot = m.slot => l = m
    /\ status' = "running"
    /\ UNCHANGED delivered

Deliver ==
    /\ status = "running"
    /\ delivered \subseteq delivered'
    /\ Once(delivered')
    /\ \A p \in delivered' : Deliverable(p[2])
    /\ UNCHANGED <<live, relevant, status>>

Complete ==
    /\ status = "running"
    /\ \A l \in live : l.slot \in relevant => \E p \in delivered : p[2] = l
    /\ status' = "done"
    /\ UNCHANGED <<live, relevant, delivered>>

Fail ==
    /\ status = "running"
    /\ status' = "failed"
    /\ UNCHANGED <<live, relevant, delivered>>

Next == Begin \/ Deliver \/ Complete \/ Fail

Spec == Init /\ [][Next]_<<live, relevant, delivered, status>>
=============================================================================
