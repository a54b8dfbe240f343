---------------------------- MODULE SerialTable ----------------------------
(***************************************************************************)
(* What a Delta table promises to its writers: the table is one sequence   *)
(* of versions, and every version was produced by one transaction that ran *)
(* alone on the version just before it.  The commit protocol (module       *)
(* CommitProtocol) implements this specification.                          *)
(***************************************************************************)
EXTENDS TableLog

VARIABLES
    log,           \* version -> commit file
    state          \* version -> the table state log replay reconstructs there

(* Commit c is what its transaction would have written had it run on s.     *)
RanOn(s, c) ==
    /\ c.appVersion = s.apps[c.app] + 1
    /\ c.baseRowId = s.highWaterMark + 1
    /\ c.highWaterMark = s.highWaterMark + c.rows
    /\ c.ict > s.ict

Append(v) ==
    /\ log[v] = NoCommit
    /\ v # 0 => log[v - 1] # NoCommit
    /\ log'[v] \in Commit
    /\ RanOn(StateBefore(state, v), log'[v])
    /\ \A u \in Versions : log[u] # NoCommit => log[u].id # log'[v].id
    /\ log' = [log EXCEPT ![v] = log'[v]]
    /\ state' = [state EXCEPT ![v] = ReplayCommit(StateBefore(state, v), log'[v])]

Init ==
    /\ log = [v \in Versions |-> NoCommit]
    /\ state = [v \in Versions |-> EmptyState]

Next == \E v \in Versions : Append(v)

Spec == Init /\ [][Next]_<<log, state>>
=============================================================================
