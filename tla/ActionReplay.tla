---------------------------- MODULE ActionReplay ----------------------------
(***************************************************************************)
(* The row visitors of log replay.  Every reader of the log walks the same *)
(* stream: the rows of the commit files, newest first, then the rows of    *)
(* the checkpoint.  The visitors differ in what they keep and in what they *)
(* remember of the rows they have passed.                                  *)
(*                                                                         *)
(* A row is one action.  What it is about is its slot: a file (path and    *)
(* deletion vector id), an application, a domain, or the protocol or the   *)
(* metadata of the table.  Its payload is the version that wrote it, which *)
(* tells any two actions on one slot apart.                                *)
(***************************************************************************)
EXTENDS RowVisitors

CONSTANTS
    Files,           \* FileActionKey: data file path and deletion vector id
    Apps,            \* txn.appId
    Domains,         \* domainMetadata.domain
    Irrelevant,      \* files without a row that satisfies the predicate of the scan
    NoTimestamp,     \* a timestamp that is absent
    FileRetention,   \* delta.deletedFileRetentionDuration
    TxnRetention     \* delta.setTransactionRetentionDuration, may be absent

ASSUME ActionReplayAssumption ==
    /\ Irrelevant \subseteq Files
    /\ FileRetention \in Nat
    /\ TxnRetention \in Nat \cup {NoTimestamp}
    /\ NoTimestamp \notin Nat
    /\ Files \cap Apps = {} /\ Files \cap Domains = {} /\ Apps \cap Domains = {}
    /\ {"protocol", "metaData"} \cap (Files \cup Apps \cup Domains) = {}

ActionRow(type, slot, version, stamp, flag) ==
    [type |-> type, slot |-> slot, version |-> version, stamp |-> stamp, flag |-> flag]

(* flag: the add has statistics (or partition values) to prune it by.       *)
AddFile(f, version, stats) == ActionRow("add", f, version, NoTimestamp, stats)
RemoveFile(f, version, deletionTimestamp) ==
    ActionRow("remove", f, version, deletionTimestamp, FALSE)
Txn(a, version, lastUpdated) == ActionRow("txn", a, version, lastUpdated, FALSE)
(* flag: the action is a tombstone, removed = true.                         *)
DomainMetadata(d, version, removed) ==
    ActionRow("domainMetadata", d, version, NoTimestamp, removed)
Protocol(version) == ActionRow("protocol", "protocol", version, NoTimestamp, FALSE)
Metadata(version) == ActionRow("metaData", "metaData", version, NoTimestamp, FALSE)

IsFileAction(row) == row.type \in {"add", "remove"}

(* A batch row: a row and whether it was read from a commit file.           *)
FromLog(rows) == [i \in DOMAIN rows |-> [row |-> rows[i], is_log_batch |-> TRUE]]
FromCheckpoint(rows) == [i \in DOMAIN rows |-> [row |-> rows[i], is_log_batch |-> FALSE]]

----------------------------------------------------------------------------
(* ActionReconciliationProcessor: what a checkpoint or a compacted commit   *)
(* file keeps of the stream.                                                *)

is_expired_tombstone(row, now) ==
    (IF row.stamp = NoTimestamp THEN 0 ELSE row.stamp) <= now - FileRetention

(* A txn without lastUpdated never expires, nor does any without a retention. *)
IsExpiredTxn(row, now) ==
    /\ TxnRetention # NoTimestamp
    /\ row.stamp # NoTimestamp
    /\ row.stamp <= now - TxnRetention

(* Seeded fault: keep no tombstone at all.                                  *)
Suppressed_EveryRemove(row, now) ==
    \/ row.type = "remove"
    \/ row.type = "txn" /\ IsExpiredTxn(row, now)
    \/ row.type = "domainMetadata" /\ row.flag

(* The row is not written whatever came before it.                          *)
Suppressed(row, now) ==
    \/ row.type = "remove" /\ is_expired_tombstone(row, now)
    \/ row.type = "txn" /\ IsExpiredTxn(row, now)
    \/ row.type = "domainMetadata" /\ row.flag

(* Seeded fault: forget a file action that is not written.                  *)
Remembered_OnlyWritten(entry, now) ==
    /\ IsFileAction(entry.row) => entry.is_log_batch
    /\ ~Suppressed(entry.row, now)

(* The slot goes into seen_file_keys, seen_txns, seen_domains or sets       *)
(* seen_protocol or seen_metadata.  File actions do, expired or not, if     *)
(* they come from a commit file; an expired txn and a removed domain return *)
(* before they are recorded.                                                *)
Remembered(entry, now) ==
    IF IsFileAction(entry.row) THEN entry.is_log_batch ELSE ~Suppressed(entry.row, now)

is_valid_action(seen, row, now) == row.slot \notin seen /\ ~Suppressed(row, now)

ReconcileRow(acc, entry, now) ==
    [seen |-> acc.seen \cup {s \in {entry.row.slot} : Remembered(entry, now)},
     rows |-> IF is_valid_action(acc.seen, entry.row, now)
              THEN Append(acc.rows, entry.row) ELSE acc.rows]

(* The retention timestamps are computed once, when the processor is made.  *)
Reconcile(stream, now) ==
    Visit(LAMBDA acc, entry : ReconcileRow(acc, entry, now),
             [seen |-> {}, rows |-> <<>>], stream).rows

----------------------------------------------------------------------------
(* ScanLogReplayProcessor: the add actions a scan returns.                  *)

(* Seeded fault: prune removes as well.                                     *)
Pruned_RemovesToo(row) == row.slot \in Irrelevant /\ (row.type = "add" => row.flag)

(* Partition pruning and data skipping apply to adds only, before they are  *)
(* deduplicated.                                                            *)
Pruned(row) == row.type = "add" /\ row.slot \in Irrelevant /\ row.flag

(* Checkpoint batches are read without their removes.                       *)
ScanIgnores(entry) ==
    \/ ~IsFileAction(entry.row)
    \/ entry.row.type = "remove" /\ ~entry.is_log_batch
    \/ Pruned(entry.row)

ScanFiles(stream) == Deduplicated(stream, {e \in Range(stream) : ScanIgnores(e)})

----------------------------------------------------------------------------
(* SetTransactionVisitor, DomainMetadataVisitor and the protocol and        *)
(* metadata replay: the first row of a slot that passes the filter wins.    *)

(* Seeded fault: the last row wins.                                         *)
FirstOfSlot_Last(acc, row) == {r \in acc : r.slot # row.slot} \cup {row}

FirstOfSlot(acc, row) ==
    IF \E r \in acc : r.slot = row.slot THEN acc ELSE acc \cup {row}

RowsOf(stream) == {stream[i].row : i \in DOMAIN stream}

FirstRows(stream, passing) ==
    Visit(LAMBDA acc, entry : IF entry.row \in passing THEN FirstOfSlot(acc, entry.row) ELSE acc,
          {}, stream)

(* Expired rows are passed over as if they were not there.                  *)
ScanTransactions(stream, now) ==
    FirstRows(stream, {r \in RowsOf(stream) : r.type = "txn" /\ ~IsExpiredTxn(r, now)})

(* Tombstones take part and are dropped at the end.                         *)
ScanDomains(stream) ==
    {d \in FirstRows(stream, {r \in RowsOf(stream) : r.type = "domainMetadata"}) : ~d.flag}

ScanProtocolMetadata(stream) ==
    FirstRows(stream, {r \in RowsOf(stream) : r.type \in {"protocol", "metaData"}})

=============================================================================
