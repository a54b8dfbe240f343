--------------------------- MODULE CommitProtocol ---------------------------
(***************************************************************************)
(* Optimistic commits to a filesystem table: Transaction::commit through   *)
(* the FileSystemCommitter and the put-if-absent write of the engine's     *)
(* JsonHandler.  The table has in-commit timestamps and row tracking       *)
(* enabled, and its writers are idempotent: they read the newest `txn`     *)
(* version of their application from the snapshot and commit the next.     *)
(*                                                                         *)
(* A transaction holds an immutable read snapshot, which may be as old as  *)
(* any version that exists, so a transaction, not a client, is the unit of *)
(* concurrency here.  The write request travels: it can be lost, also with *)
(* the process that made it; it can be delayed past the timeout of its     *)
(* transaction, past a retry and past the crash of its process; and its    *)
(* answer can be lost.  A request that is never carried out stays in puts. *)
(***************************************************************************)
EXTENDS TableLog

CONSTANTS
    Timestamps,      \* readings of the wall clock (clocks of writers are not in step)
    RowCounts,       \* total numRecords a transaction may stage
    Operations,      \* operation names engines pass to with_operation
    VersionModulus,  \* 2^64: versions are u64 and version arithmetic wraps
    MaxAttempts      \* bound: commit calls per transaction

ASSUME CommitProtocolAssumption ==
    /\ Timestamps \subseteq Nat /\ RowCounts \subseteq Nat
    /\ VersionModulus \in Nat /\ MaxVersion + 1 < VersionModulus
    /\ MaxAttempts \in Nat

VARIABLES
    log,      \* version -> commit file in _delta_log, or NoCommit
    state,    \* version -> table state that log replay reconstructs there
    txn,      \* Transaction object -> its fields and where its commit call stands
    puts      \* write_json_file requests the storage has not handled yet

vars == <<log, state, txn, puts>>

Statuses == {"unused", "open", "committing", "committed", "conflicted",
             "retryable", "dropped"}

(* Version before the first commit of a table that is being created.        *)
PRE_COMMIT_VERSION == VersionModulus - 1

wrapping_add(v, n) == (v + n) % VersionModulus

Max2(a, b) == IF a >= b THEN a ELSE b

UnusedTxn == [status |-> "unused", read |-> 0, operation |-> "none", timestamp |-> 0,
              app |-> CHOOSE a \in Apps : TRUE, appVersion |-> 0, rows |-> 0,
              attempt |-> 0, reply |-> "none"]

Transaction == [status : Statuses,
                read : Versions \cup {PRE_COMMIT_VERSION},
                operation : Operations \cup {"none", "CREATE TABLE"},
                timestamp : Nat, app : Apps, appVersion : Nat, rows : Nat,
                attempt : Nat, reply : {"none", "ok", "exists"}]

is_create_table(t) == txn[t].operation = "CREATE TABLE"

(* The table state a read snapshot shows to its transaction.                *)
ReadState(t) ==
    IF txn[t].read = PRE_COMMIT_VERSION THEN EmptyState ELSE state[txn[t].read]

(* Seeded faults: commit at the first free version without looking at what  *)
(* was committed meanwhile; count the version up with every attempt.        *)
CommitVersion_BlindRebase(t) ==
    CHOOSE v \in Versions : log[v] = NoCommit /\ \A u \in 0..(v - 1) : log[u] # NoCommit
CommitVersion_PerAttempt(t) == wrapping_add(txn[t].read, 1 + txn[t].attempt)

get_commit_version(t) == wrapping_add(txn[t].read, 1)

(* Seeded fault: stamp every commit with the wall clock.                    *)
Ict_WallClock(t) == txn[t].timestamp

(* A create-table transaction takes the wall clock; any other one never     *)
(* goes back behind the snapshot it read.                                   *)
get_in_commit_timestamp(t) ==
    IF is_create_table(t)
    THEN txn[t].timestamp
    ELSE Max2(txn[t].timestamp, ReadState(t).ict + 1)

(* Seeded fault: forget to move the high water mark.                        *)
CommitOf_StaleWaterMark(t) ==
    [id |-> t, app |-> txn[t].app, appVersion |-> txn[t].appVersion,
     rows |-> txn[t].rows, baseRowId |-> ReadState(t).highWaterMark + 1,
     highWaterMark |-> ReadState(t).highWaterMark,
     ict |-> get_in_commit_timestamp(t)]

(* Staged rows get the ids after the high water mark of the read snapshot.  *)
CommitOf(t) ==
    [id            |-> t,
     app           |-> txn[t].app,
     appVersion    |-> txn[t].appVersion,
     rows          |-> txn[t].rows,
     baseRowId     |-> ReadState(t).highWaterMark + 1,
     highWaterMark |-> ReadState(t).highWaterMark + txn[t].rows,
     ict           |-> get_in_commit_timestamp(t)]

(* A request to write a commit file, with the CommitMetadata that is handed *)
(* to the committer next to the actions.                                    *)
PutRequest == [id : Txns, attempt : Nat, version : Versions, commit : Commit,
               in_commit_timestamp : Nat]

----------------------------------------------------------------------------

Init ==
    /\ log = [v \in Versions |-> NoCommit]
    /\ state = [v \in Versions |-> EmptyState]
    /\ txn = [t \in Txns |-> UnusedTxn]
    /\ puts = {}

(* A transaction object is built and its actions staged: with_operation,    *)
(* with_transaction_id and add_files touch only the object itself.          *)
Open(t, read, operation, app, appVersion, rows) ==
    /\ txn[t].status = "unused"
    /\ \E now \in Timestamps :
         txn' = [txn EXCEPT ![t] = [UnusedTxn EXCEPT
                   !.status = "open", !.read = read, !.operation = operation,
                   !.timestamp = now, !.app = app, !.appVersion = appVersion,
                   !.rows = rows]]
    /\ UNCHANGED <<log, state, puts>>

(* CreateTableTransactionBuilder::build looks for an existing table first.  *)
CreateTable(t) ==
    /\ \A v \in Versions : log[v] = NoCommit
    /\ \E app \in Apps, rows \in RowCounts :
         Open(t, PRE_COMMIT_VERSION, "CREATE TABLE", app, 1, rows)

(* Snapshot::transaction on a snapshot of any version that exists.          *)
StartTransaction(t) ==
    \E read \in Versions \ {MaxVersion} :
        /\ log[read] # NoCommit
        /\ \E operation \in Operations, app \in Apps, rows \in RowCounts :
             Open(t, read, operation, app, state[read].apps[app] + 1, rows)

(* Transaction::commit up to the engine's write request; the first call, or *)
(* another one on the transaction a RetryableTransaction returned.          *)
CommitStart(t) ==
    /\ txn[t].status \in {"open", "retryable"}
    /\ txn[t].attempt < MaxAttempts
    /\ IF is_create_table(t) /\ txn[t].rows > 0
       THEN /\ txn' = [txn EXCEPT ![t].status = "dropped"]
            /\ UNCHANGED puts
       ELSE /\ txn' = [txn EXCEPT ![t].status = "committing",
                                  ![t].attempt = txn[t].attempt + 1,
                                  ![t].reply = "none"]
            /\ puts' = puts \cup
                 {[id                  |-> t,
                   attempt             |-> txn[t].attempt + 1,
                   version             |-> get_commit_version(t),
                   commit              |-> CommitOf(t),
                   in_commit_timestamp |-> txn[t].timestamp]}
    /\ UNCHANGED <<log, state>>

(* Seeded fault: overwrite an existing commit.                              *)
StoragePut_Overwrite(r) ==
    /\ puts' = puts \ {r}
    /\ log' = [log EXCEPT ![r.version] = r.commit]
    /\ state' = [state EXCEPT ![r.version] =
                   ReplayCommit(StateBefore(state, r.version), r.commit)]
    /\ txn' = [txn EXCEPT ![r.id].reply = "ok"]

(* The file is put in place if there is none.  The handler of the sync      *)
(* engine does so in the process of the writer, the object store of the     *)
(* default engine at any later time.  The answer reaches the transaction    *)
(* only if it still waits for this attempt.                                 *)
StoragePut(r) ==
    LET absent  == log[r.version] = NoCommit
        awaited == /\ txn[r.id].status = "committing"
                   /\ txn[r.id].attempt = r.attempt
    IN  /\ puts' = puts \ {r}
        /\ IF absent
           THEN /\ log' = [log EXCEPT ![r.version] = r.commit]
                /\ state' = [state EXCEPT ![r.version] =
                               ReplayCommit(StateBefore(state, r.version), r.commit)]
           ELSE UNCHANGED <<log, state>>
        /\ IF awaited
           THEN txn' = [txn EXCEPT ![r.id].reply = IF absent THEN "ok" ELSE "exists"]
           ELSE UNCHANGED txn

(* Seeded fault: take a file that exists for the one this call wrote.       *)
CommitReply_ExistsIsOk(t) ==
    /\ txn[t].status = "committing" /\ txn[t].reply # "none"
    /\ txn' = [txn EXCEPT ![t].status = "committed"]
    /\ UNCHANGED <<log, state, puts>>

(* The rest of FileSystemCommitter::commit and of Transaction::commit.      *)
CommitReply(t) ==
    /\ txn[t].status = "committing"
    /\ \/ /\ txn[t].reply = "ok"
          /\ txn' = [txn EXCEPT ![t].status = "committed"]
       \/ /\ txn[t].reply = "exists"
          /\ txn' = [txn EXCEPT ![t].status = "conflicted"]
    /\ UNCHANGED <<log, state, puts>>

(* write_json_file returns an IOError whether or not the request was, or    *)
(* will be, carried out: the caller gets the transaction back.              *)
CommitIoError(t) ==
    /\ txn[t].status = "committing"
    /\ txn' = [txn EXCEPT ![t].status = "retryable", ![t].reply = "none"]
    /\ UNCHANGED <<log, state, puts>>

(* Any other error, also one met after the durable write while the CRC      *)
(* delta or the post-commit snapshot is built: commit returns Err and the   *)
(* transaction is gone.                                                     *)
CommitError(t) ==
    /\ txn[t].status = "committing"
    /\ txn' = [txn EXCEPT ![t].status = "dropped", ![t].reply = "none"]
    /\ UNCHANGED <<log, state, puts>>

(* The process of the writer stops.  Requests it has made may still be      *)
(* carried out, or not.                                                     *)
Crash(t) ==
    /\ txn[t].status \in {"open", "committing", "retryable"}
    /\ txn' = [txn EXCEPT ![t].status = "dropped", ![t].reply = "none"]
    /\ UNCHANGED <<log, state, puts>>

Next ==
    \/ \E t \in Txns : \/ CreateTable(t) \/ StartTransaction(t)
                       \/ CommitStart(t) \/ CommitReply(t)
                       \/ CommitIoError(t) \/ CommitError(t) \/ Crash(t)
    \/ \E r \in puts : StoragePut(r)

Spec == Init /\ [][Next]_vars

----------------------------------------------------------------------------
(* Properties *)

(* Type correctness of the log, the transactions and the requests.          *)
TypeOK ==
    /\ log \in [Versions -> Commit \cup {NoCommit}]
    /\ state \in [Versions -> TableState]
    /\ txn \in [Txns -> Transaction]
    /\ puts \subseteq PutRequest

(* Idempotent writers: along the log the txn versions of one application    *)
(* strictly increase, so no batch is ever applied twice.  Transaction ids   *)
(* are checked on the snapshot only, while requests of crashed, timed out   *)
(* and retried writers may land at any later time.                          *)
ExactlyOnce ==
    \A u, v \in Versions :
        (u < v /\ log[u] # NoCommit /\ log[v] # NoCommit /\ log[u].app = log[v].app)
        => log[u].appVersion < log[v].appVersion

(* A Transaction object produces at most one version, however often its     *)
(* commit is retried after an IOError.                                      *)
AtMostOneVersionPerTxn ==
    \A u, v \in Versions :
        (u # v /\ log[u] # NoCommit /\ log[v] # NoCommit) => log[u].id # log[v].id

(* In-commit timestamps strictly increase with the version although writers *)
(* stamp their commits with clocks that are not in step                     *)
(* (Transaction::get_in_commit_timestamp).                                  *)
IctIncreasing ==
    \A u, v \in Versions :
        (u < v /\ log[u] # NoCommit /\ log[v] # NoCommit) => log[u].ict < log[v].ict

(* Rows added by different commits never share a row id: each writer counts *)
(* from the high water mark of its own snapshot (RowTrackingVisitor).       *)
RowIdsDisjoint ==
    \A u, v \in Versions :
        (u < v /\ log[u] # NoCommit /\ log[v] # NoCommit)
        => log[u].baseRowId + log[u].rows <= log[v].baseRowId

(* What commit reports is what the log holds.  CommittedTransaction names   *)
(* the version that holds exactly this transaction.  ConflictedTransaction  *)
(* means that the version is taken, by this transaction if an earlier       *)
(* attempt of it was carried out after all; if it is taken by another one,  *)
(* nothing of this transaction is or can get into the log, so that the      *)
(* caller may redo the work.  After a single attempt it always is.          *)
ReportsAreTrue ==
    \A t \in Txns :
        /\ txn[t].status = "committed" =>
             /\ log[get_commit_version(t)] # NoCommit
             /\ log[get_commit_version(t)].id = t
        /\ txn[t].status = "conflicted" =>
             /\ log[get_commit_version(t)] # NoCommit
             /\ log[get_commit_version(t)].id # t =>
                  /\ \A v \in Versions : log[v] # NoCommit => log[v].id # t
                  /\ \A r \in puts : r.id = t => log[r.version] # NoCommit
             /\ txn[t].attempt = 1 => log[get_commit_version(t)].id # t

(* The protocol implements serial execution: each commit that lands is one  *)
(* step of a table on which transactions run one after the other.           *)
Serial == INSTANCE SerialTable
ImplementsSerialTable == Serial!Spec

=============================================================================
