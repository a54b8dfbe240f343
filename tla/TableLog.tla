------------------------------ MODULE TableLog ------------------------------
(***************************************************************************)
(* The commit files of a Delta table and the table state that log replay   *)
(* reconstructs from them, reduced to the three facts a writer reads from  *)
(* its snapshot before it commits: the newest `txn` version of each        *)
(* application (the idempotence watermark), the row id high water mark,    *)
(* and the in-commit timestamp.                                            *)
(***************************************************************************)
EXTENDS Integers

CONSTANTS
    Txns,          \* Transaction objects, each used once
    Apps,          \* application ids of SetTransaction actions
    NoCommit,      \* a version of the log that does not exist
    MaxVersion     \* bound: the newest version a behaviour may create

Versions == 0..MaxVersion

(* The actions of one commit file that the three facts depend on. *)
Commit == [id : Txns, app : Apps, appVersion : Nat, rows : Nat,
           baseRowId : Nat, highWaterMark : Nat \cup {-1}, ict : Nat]

ASSUME TableLogAssumption ==
    MaxVersion \in Nat /\ Apps # {} /\ NoCommit \notin Commit

(* The table state at a version, and the state before version 0.  An       *)
(* absent high water mark reads as DEFAULT_HIGH_WATER_MARK = -1.           *)
TableState == [apps : [Apps -> Nat], highWaterMark : Nat \cup {-1},
               ict : Nat \cup {-1}]

EmptyState == [apps |-> [a \in Apps |-> 0], highWaterMark |-> -1, ict |-> -1]

(* Replaying one more commit file on top of a table state: the newest txn   *)
(* action of an application, the newest row tracking domain metadata and    *)
(* the newest commitInfo win.                                               *)
ReplayCommit(s, c) ==
    [apps          |-> [s.apps EXCEPT ![c.app] = c.appVersion],
     highWaterMark |-> c.highWaterMark,
     ict           |-> c.ict]

(* The state a transaction that writes version v starts from, in a log     *)
(* whose versions have the states st.                                      *)
StateBefore(st, v) == IF v = 0 THEN EmptyState ELSE st[v - 1]

=============================================================================
