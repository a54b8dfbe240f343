--------------------------- MODULE LogMaintenance ---------------------------
(***************************************************************************)
(* The files of _delta_log other than commits, and what they do to         *)
(* readers: checkpoints written from snapshots that may be stale, the      *)
(* _last_checkpoint hint that is written after them, and compacted commit  *)
(* files.  Maintainers load a snapshot, write, and may stop between any    *)
(* two steps.  Tables are shared with other writers, which write           *)
(* checkpoints with sidecars and hints with a checkpoint schema.           *)
(*                                                                         *)
(* A snapshot is its log segment.  Its files are read when it is used, so  *)
(* the checkpoint it listed may have been written again since.             *)
(***************************************************************************)
EXTENDS ActionReplay

CONSTANTS
    Maintainers,     \* processes that write checkpoints and compacted files
    Kinds,           \* bound: the types of action that commits contain
    Unstamped,       \* types of action whose timestamp some writers leave out
    Compactions,     \* version ranges <<lo, hi>> an engine may compact
    ForeignFormats,  \* checkpoint formats other writers use, "v1" and "v2"
    None,            \* no checkpoint, no hint, no schema
    MaxVersion,      \* bound: newest version
    MaxClock,        \* bound: newest clock reading
    MaxRows          \* bound: actions of a commit

ASSUME LogMaintenanceAssumption ==
    /\ MaxVersion \in Nat /\ MaxClock \in Nat \ {0}
    /\ Compactions \subseteq Nat \X Nat
    /\ \A c \in Compactions : c[1] < c[2]
    /\ None \notin Int /\ None \notin {"v1", "v2"}
    /\ Unstamped \subseteq {"remove", "txn"}
    /\ ForeignFormats \subseteq {"v1", "v2"}

VARIABLES
    clock,        \* wall clock of all processes
    commits,      \* commits[v + 1]: the rows of commit file v
    checkpoints,  \* version -> rows and format of the checkpoint file there
    compacted,    \* <<lo, hi>> -> rows of the compacted commit file
    hint,         \* _last_checkpoint: version and schema, or None
    maint         \* maintainer -> its step and the segment of its snapshot

vars == <<clock, commits, checkpoints, compacted, hint, maint>>

Latest == Len(commits) - 1

Last(s) == s[Len(s)]
Front(s) == SubSeq(s, 1, Len(s) - 1)
Reverse(s) == [i \in 1..Len(s) |-> s[Len(s) - i + 1]]

----------------------------------------------------------------------------
(* LogSegment: what a reader finds in the listing for version v.            *)

(* The newest checkpoint among the files of versions lo..v, or None.        *)
NewestCheckpoint(lo, v) ==
    IF \E c \in DOMAIN checkpoints : lo <= c /\ c <= v
    THEN CHOOSE c \in DOMAIN checkpoints :
            /\ lo <= c /\ c <= v
            /\ \A d \in DOMAIN checkpoints : d <= v => d <= c
    ELSE None

(* LogSegmentFiles::list from version lo.  A complete checkpoint discards   *)
(* the commits and compacted files that were listed up to it.               *)
Segment(lo, v, schema) ==
    LET cp == NewestCheckpoint(lo, v)
    IN [version    |-> v,
        checkpoint |-> cp,
        compacted  |-> {c \in DOMAIN compacted :
                          lo <= c[1] /\ c[2] <= v /\ (cp # None => cp < c[1])},
        schema     |-> schema]

HintSchema == IF hint = None THEN None ELSE hint.schema

(* LogSegment::for_snapshot: list from the hint when it is not newer than   *)
(* the requested version; a hint without a checkpoint to find is an error.  *)
(* Checkpoints are single files here, and hints say so; LogListing has the  *)
(* error for a checkpoint with another number of parts than its hint.       *)
HintUsable(v) == hint # None /\ hint.version <= v
ListingFails(v) == HintUsable(v) /\ NewestCheckpoint(hint.version, v) = None
SegmentFor(v) == Segment(IF HintUsable(v) THEN hint.version ELSE 0, v, HintSchema)

(* All version ranges, ordered by first and then by last version.           *)
Ranges ==
    FlattenSeq([lo \in 1..(MaxVersion + 1) |->
                  [hi \in 1..(MaxVersion + 1) |-> <<lo - 1, hi - 1>>]])

(* The commit files behind the checkpoint.                                  *)
CommitsOf(seg) ==
    {<<v, v>> : v \in (IF seg.checkpoint = None THEN 0 ELSE seg.checkpoint + 1)..seg.version}

(* Seeded fault: keep the file that starts at the same version.             *)
CoverStep_KeepBoth(acc, next) ==
    IF acc # <<>> /\ Last(acc)[1] < next[1] /\ next[1] <= Last(acc)[2]
    THEN acc ELSE Append(acc, next)

CoverStep(acc, next) ==
    IF acc # <<>> /\ Last(acc)[1] = next[1] THEN Append(Front(acc), next)
    ELSE IF acc # <<>> /\ next[1] <= Last(acc)[2] THEN acc
    ELSE Append(acc, next)

(* The greedy cover of the segment by commits and compacted files, newest   *)
(* first.                                                                   *)
GreedyCover(files) ==
    Reverse(Visit(LAMBDA acc, next : IF next \in files THEN CoverStep(acc, next) ELSE acc,
                  <<>>, Ranges))

find_commit_cover(seg) == GreedyCover(CommitsOf(seg) \cup seg.compacted)

RowsOfRange(r) == IF r[1] = r[2] THEN commits[r[1] + 1] ELSE compacted[r]

(* create_checkpoint_stream: a checkpoint with sidecars keeps its file      *)
(* actions in them.  The sidecars are looked for unless the schema of the   *)
(* hint says that there are none; without it the footer of the file says.   *)
ReadCheckpoint(seg) ==
    IF seg.checkpoint = None THEN <<>>
    ELSE LET file == checkpoints[seg.checkpoint]
         IN IF file.format = "v2" /\ seg.schema = "v1"
            THEN Only(file.rows, {r \in Range(file.rows) : ~IsFileAction(r)})
            ELSE file.rows

(* LogSegment::read_actions.                                                *)
ReadActions(seg) ==
    LET cover == find_commit_cover(seg)
    IN FlattenSeq([i \in DOMAIN cover |-> FromLog(RowsOfRange(cover[i]))])
         \o FromCheckpoint(ReadCheckpoint(seg))

----------------------------------------------------------------------------
(* The reference: the newest action on each slot up to a version.           *)

History(v) == UNION {Range(commits[i + 1]) : i \in 0..v}

IsNewest(row, rows) == \A r \in rows : r.slot = row.slot => r.version <= row.version

TableState(v, type) ==
    LET rows == History(v)
    IN {row \in rows : row.type = type /\ IsNewest(row, rows)}

----------------------------------------------------------------------------

Init ==
    /\ clock = 1
    /\ commits = << <<Protocol(0), Metadata(0)>> >>
    /\ checkpoints = <<>>
    /\ compacted = <<>>
    /\ hint = None
    /\ maint = [m \in Maintainers |-> [step |-> "idle", segment |-> None]]

Tick ==
    /\ clock < MaxClock
    /\ clock' = clock + 1
    /\ UNCHANGED <<commits, checkpoints, compacted, hint, maint>>

(* The timestamps an action may have.                                       *)
Stamps(type) == {clock} \cup {x \in {NoTimestamp} : type \in Unstamped}

(* The actions that version v may write.  Removes and domain removals are   *)
(* of what the table holds; statistics matter only for files that they can  *)
(* prune.                                                                   *)
AddRows(v) ==
    {row \in {AddFile(f, v, stats) : f \in Files, stats \in BOOLEAN} :
       row.flag \/ row.slot \in Irrelevant}
RemoveRows(v) ==
    {RemoveFile(row.slot, v, ts) : row \in TableState(Latest, "add"), ts \in Stamps("remove")}
TxnRows(v) == {Txn(a, v, ts) : a \in Apps, ts \in Stamps("txn")}
DomainRows(v) ==
    {row \in {DomainMetadata(d, v, removed) : d \in Domains, removed \in BOOLEAN} :
       row.flag => \E d \in TableState(Latest, "domainMetadata") : d.slot = row.slot /\ ~d.flag}

WritableRows ==
    LET v == Latest + 1
    IN AddRows(v) \cup RemoveRows(v) \cup TxnRows(v) \cup DomainRows(v)
         \cup {Protocol(v), Metadata(v)}

(* A commit has at most one action on each slot.                            *)
Commit ==
    /\ Latest < MaxVersion
    /\ \E n \in 1..MaxRows : \E rows \in [1..n -> {r \in WritableRows : r.type \in Kinds}] :
         /\ \A i, j \in 1..n : rows[i].slot = rows[j].slot => i = j
         /\ commits' = Append(commits, rows)
    /\ UNCHANGED <<clock, checkpoints, compacted, hint, maint>>

(* Snapshot::builder_for(..).at_version(v).build(): the latest version or   *)
(* an earlier one.                                                          *)
LoadSnapshot(m) ==
    /\ maint[m].step = "idle"
    /\ \E v \in 0..Latest :
         /\ ~ListingFails(v)
         /\ maint' = [maint EXCEPT ![m] = [step |-> "loaded", segment |-> SegmentFor(v)]]
    /\ UNCHANGED <<clock, commits, checkpoints, compacted, hint>>

SetAt(f, x, y) == [z \in DOMAIN f \cup {x} |-> IF z = x THEN y ELSE f[z]]

(* CheckpointWriter::checkpoint_data, written to the classic path of the    *)
(* version, over a checkpoint that is there already.                        *)
WriteCheckpoint(m) ==
    /\ maint[m].step = "loaded"
    /\ LET seg == maint[m].segment
       IN checkpoints' = SetAt(checkpoints, seg.version,
                               [rows |-> Reconcile(ReadActions(seg), clock), format |-> "v1"])
    /\ maint' = [maint EXCEPT ![m].step = "written"]
    /\ UNCHANGED <<clock, commits, compacted, hint>>

(* Seeded fault: finalize without waiting for the data.                     *)
Finalize_NotExhausted(m) ==
    /\ maint[m].step \in {"loaded", "written"}
    /\ hint' = [version |-> maint[m].segment.version, schema |-> None]
    /\ maint' = [maint EXCEPT ![m] = [step |-> "idle", segment |-> None]]
    /\ UNCHANGED <<clock, commits, checkpoints, compacted>>

(* CheckpointWriter::finalize overwrites _last_checkpoint, with a newer or  *)
(* an older version.                                                        *)
Finalize(m) ==
    /\ maint[m].step = "written"
    /\ hint' = [version |-> maint[m].segment.version, schema |-> None]
    /\ maint' = [maint EXCEPT ![m] = [step |-> "idle", segment |-> None]]
    /\ UNCHANGED <<clock, commits, checkpoints, compacted>>

(* Seeded fault: read the commits of the range oldest first.                *)
CompactLog_Ascending(m) ==
    /\ maint[m].step = "loaded"
    /\ \E c \in Compactions :
         /\ c[2] <= maint[m].segment.version
         /\ LET stream == FlattenSeq([i \in 1..(c[2] - c[1] + 1) |->
                                        FromLog(commits[c[1] + i])])
            IN compacted' = SetAt(compacted, c, Reconcile(stream, clock))
    /\ maint' = [maint EXCEPT ![m] = [step |-> "idle", segment |-> None]]
    /\ UNCHANGED <<clock, commits, checkpoints, hint>>

(* LogCompactionWriter::compaction_data reads the commit files of the       *)
(* range; the engine writes the file.                                       *)
CompactLog(m) ==
    /\ maint[m].step = "loaded"
    /\ \E c \in Compactions :
         /\ c[2] <= maint[m].segment.version
         /\ LET stream == FlattenSeq([i \in 1..(c[2] - c[1] + 1) |->
                                        FromLog(commits[c[2] - i + 2])])
            IN compacted' = SetAt(compacted, c, Reconcile(stream, clock))
    /\ maint' = [maint EXCEPT ![m] = [step |-> "idle", segment |-> None]]
    /\ UNCHANGED <<clock, commits, checkpoints, hint>>

(* The process stops, or the engine drops the writer.                       *)
Stop(m) ==
    /\ maint[m].step # "idle"
    /\ maint' = [maint EXCEPT ![m] = [step |-> "idle", segment |-> None]]
    /\ UNCHANGED <<clock, commits, checkpoints, compacted, hint>>

(* Another writer checkpoints the newest version in its format, and may     *)
(* stop before it writes the hint.                                          *)
ForeignCheckpoint ==
    /\ Latest \notin DOMAIN checkpoints
    /\ \E format \in ForeignFormats, finished \in BOOLEAN :
         /\ checkpoints' = SetAt(checkpoints, Latest,
              [rows |-> Only(FlattenSeq(Reverse(commits)),
                             {r \in History(Latest) :
                                IsNewest(r, History(Latest)) /\ ~Suppressed(r, clock)}),
               format |-> format])
         /\ hint' = IF finished THEN [version |-> Latest, schema |-> format] ELSE hint
    /\ UNCHANGED <<clock, commits, compacted, maint>>

Next ==
    \/ Tick
    \/ Commit
    \/ ForeignCheckpoint
    \/ \E m \in Maintainers :
         LoadSnapshot(m) \/ WriteCheckpoint(m) \/ Finalize(m) \/ CompactLog(m) \/ Stop(m)

Spec == Init /\ [][Next]_vars

----------------------------------------------------------------------------

(* The segments of the snapshots a reader can hold: loaded now, at any      *)
(* version, or loaded earlier by a maintainer.                              *)
Segments ==
    {SegmentFor(v) : v \in {u \in 0..Latest : ~ListingFails(u)}}
      \cup {maint[m].segment : m \in {n \in Maintainers : maint[n].step # "idle"}}

(* The rows of a segment are scanned to the live files of its version.      *)
ScanAgrees(seg, rows) ==
    LET got == ScanFiles(rows)
        live == TableState(seg.version, "add")
    IN /\ {r \in live : r.slot \notin Irrelevant} = {r \in got : r.slot \notin Irrelevant}
       /\ {r.slot : r \in got} \subseteq {r.slot : r \in live}

(* A scan returns the newest add of every live file that can hold a         *)
(* matching row, and no file that is not live: reverse replay with pruning  *)
(* before deduplication (AddRemoveDedupVisitor::is_valid_add) over any mix  *)
(* of checkpoint, compacted files and commits agrees with forward replay.   *)
ScanFaithful == \A seg \in Segments : ScanAgrees(seg, ReadActions(seg))

(* Vacuum finds its tombstones: a remove that has not expired is in every   *)
(* checkpoint of a version at or after it, however many checkpoints were    *)
(* derived from one another (ActionReconciliationVisitor::check_file_action). *)
TombstonesKept ==
    \A v \in DOMAIN checkpoints :
        \A row \in TableState(v, "remove") :
            ~is_expired_tombstone(row, clock) => row \in Range(checkpoints[v].rows)

(* A checkpoint holds the live files of its version, each once, and no slot *)
(* twice (ActionReconciliationProcessor).                                   *)
CheckpointExact ==
    \A v \in DOMAIN checkpoints :
        LET rows == checkpoints[v].rows
        IN /\ {r \in Range(rows) : r.type = "add"} = TableState(v, "add")
           /\ \A i, j \in DOMAIN rows : rows[i].slot = rows[j].slot => i = j

(* find_commit_cover reads every version after the checkpoint exactly once, *)
(* newest first, however compacted files overlap.                           *)
CoverExact ==
    \A seg \in Segments :
        LET cover == find_commit_cover(seg)
            first == IF seg.checkpoint = None THEN 0 ELSE seg.checkpoint + 1
        IN IF cover = <<>> THEN seg.version < first
           ELSE /\ cover[1][2] = seg.version
                /\ Last(cover)[1] = first
                /\ \A i \in 1..(Len(cover) - 1) : cover[i][1] = cover[i + 1][2] + 1

(* The schema of a hint says that there are no sidecars and is applied to a *)
(* checkpoint with sidecars, which is another than the one it describes.    *)
SidecarsDenied(seg) ==
    seg.checkpoint # None /\ checkpoints[seg.checkpoint].format = "v2" /\ seg.schema = "v1"

(* The hint never changes what is listed, nor makes a listing fail, though  *)
(* it is written after the checkpoint, by maintainers that may stop in      *)
(* between or finish out of order (LogSegment::for_snapshot_impl).  Nor     *)
(* does its schema change what is read, except where it denies sidecars,    *)
(* which the code allows: for_snapshot_impl keeps the schema of the hint    *)
(* with whatever checkpoint is listed.                                      *)
HintTransparent ==
    \A v \in 0..Latest :
        LET seg == SegmentFor(v)
            unhinted == Segment(0, v, None)
        IN /\ ~ListingFails(v)
           /\ seg = [unhinted EXCEPT !.schema = HintSchema]
           /\ ~SidecarsDenied(seg) => ReadActions(seg) = ReadActions(unhinted)

(* A domain that is set is read with its newest configuration, and the      *)
(* newest txn of an application is read as long as it has not expired, from *)
(* checkpoints of checkpoints that keep neither tombstones nor expired txns *)
(* (LogSegment::scan_domain_metadatas, SetTransactionScanner::get_one).     *)
(* Nothing is said of a domain that is removed, or of an application whose  *)
(* newest txn has expired: reconciliation drops both rows without           *)
(* remembering their keys, so that an older row may come back.              *)
LiveIdentifiersRead ==
    \A seg \in Segments :
        /\ {d \in TableState(seg.version, "domainMetadata") : ~d.flag}
             \subseteq ScanDomains(ReadActions(seg))
        /\ {t \in TableState(seg.version, "txn") : ~IsExpiredTxn(t, clock)}
             \subseteq ScanTransactions(ReadActions(seg), clock)

(* Read through nested, overlapping and adjacent compacted files and        *)
(* foreign checkpoints, the live files are those of forward replay, and the *)
(* protocol and metadata, which may come from different files, are the      *)
(* newest of each (read_actions, protocol_metadata_replay).  For the files, *)
(* the checkpoint must have them, which one written from a snapshot whose   *)
(* sidecars are denied has not, and its sidecars must be read.              *)
ReplayIsCurrent ==
    LET HasFiles(cp) ==
            {r \in Range(checkpoints[cp].rows) : r.type = "add"} = TableState(cp, "add")
        FilesRead(seg) == ~SidecarsDenied(seg) /\ (seg.checkpoint # None => HasFiles(seg.checkpoint))
        Agrees(seg, rows) ==
            /\ FilesRead(seg) => ScanAgrees(seg, rows)
            /\ ScanProtocolMetadata(rows) = TableState(seg.version, "protocol") \cup TableState(seg.version, "metaData")
    IN  \A seg \in Segments : Agrees(seg, ReadActions(seg))

(* A file whose newest action is a remove "does not show up in the result   *)
(* at all" (AddRemoveDedupVisitor).                                         *)
RemovedFilesStayRemoved ==
    \A seg \in Segments :
        {r.slot : r \in ScanFiles(ReadActions(seg))}
          \subseteq {r.slot : r \in TableState(seg.version, "add")}

=============================================================================
