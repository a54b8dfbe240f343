--------------------------- MODULE TableChanges ----------------------------
(***************************************************************************)
(* Deletion vectors and the change data feed: how the kernel commits new   *)
(* deletion vectors, how a scan applies them to a data file that arrives   *)
(* in several batches, and how TableChanges turns the actions of a range   *)
(* of commits back into the rows that were inserted and deleted.           *)
(*                                                                         *)
(* A data file has the rows 0..NumRows - 1.  A treemap is the set of the   *)
(* rows it deletes; in the log it is a descriptor, or none for no rows.    *)
(* An optional value is a sequence of at most one element.                 *)
(***************************************************************************)
EXTENDS DeletionVectors, FiniteSetsExt

CONSTANTS Files, NumRows, MaxCommits,
          MaxWrites, \* the commits among them that change files
          Layouts,   \* the ways a reader cuts a data file into batches
          DvPrefixes \* directories an engine asks deletion vectors to be in

ASSUME LayoutAssumption ==
    /\ NumRows \in Nat /\ MaxCommits \in Nat /\ MaxWrites \in Nat
    /\ \A layout \in Layouts : \A i \in DOMAIN layout : layout[i] \in Nat \ {0}

VARIABLES
    log,       \* the commits; that of version v is log[v + 1]
    missing,   \* the versions whose commit file was deleted
    checkpoints, \* the versions with a checkpoint
    store      \* the files of deletion vectors, by their place

vars == <<log, missing, checkpoints, store>>

Rows == 0..(NumRows - 1)

(* What a file is to the table: absent, or present without some rows.       *)
FileStates == {<<>>} \cup {<<dv>> : dv \in SUBSET Rows}

(* What the checks of the feed look at: of the metadata, whether the feed   *)
(* and in-commit timestamps are enabled, and the schema; of the protocol,   *)
(* whether the kernel supports the feed with it.                            *)
Metadatas == [cdf : BOOLEAN, schema : {1, 2}, ict : BOOLEAN]

Action(kind, path, dv, data_change) ==
    [kind |-> kind, path |-> path, dv |-> dv, data_change |-> data_change]

Versions == 0..(Len(log) - 1)
At(v) == log[v + 1]
LiveBefore(v) == IF v = 0 THEN [f \in Files |-> <<>>] ELSE At(v - 1).live

(* The actions that a commit has for a file, and the deletion vector of the *)
(* file at a version: that of its newest add.                               *)
Adds(c, f) == {a \in c.actions : a.kind = "add" /\ a.path = f}

DvAt(v, f) == LET at == Max({u \in 0..v : Adds(At(u), f) # {}})
              IN (CHOOSE a \in Adds(At(at), f) : TRUE).dv

(* The rows of the table, and what a commit from one table to another       *)
(* changes.                                                                 *)
RowsOf(live) == {<<f, r>> \in Files \X Rows : live[f] # <<>> /\ r \notin live[f][1]}

Difference(before, after) ==
    {<<"insert", x[1], x[2]>> : x \in RowsOf(after) \ RowsOf(before)}
      \cup {<<"delete", x[1], x[2]>> : x \in RowsOf(before) \ RowsOf(after)}

----------------------------------------------------------------------------
(* Deletion vectors applied to the batches of a file.                       *)

(* DvInfo::get_treemap: the rows of a deletion vector, none without one, or *)
(* nothing for an error.                                                    *)
get_treemap(dv) == IF dv = <<>> THEN <<{}>> ELSE read(dv[1], store)

(* treemap_to_bools_with: up to the last row of the treemap, the rows in it *)
(* are set_bit and the others are not.                                      *)
treemap_to_bools_with(treemap, set_bit) ==
    IF treemap = {} THEN <<>>
    ELSE [i \in 1..(Max(treemap) + 1) |-> IF i - 1 \in treemap THEN set_bit ELSE ~set_bit]

(* Seeded fault: the vector starts again with every batch.                  *)
split_vector_Whole(vector, split_index, extend) == <<vector, vector>>

(* What split_vector leaves in the vector, and what it returns.             *)
split_vector(vector, split_index, extend) ==
    IF vector = <<>> THEN <<<<>>, <<>>>>
    ELSE LET n == Len(vector[1])
         IN IF split_index < n
            THEN <<<<SubSeq(vector[1], 1, split_index)>>,
                   <<SubSeq(vector[1], split_index + 1, n)>>>>
            ELSE IF extend # <<>>
            THEN <<<<[i \in 1..split_index |-> IF i <= n THEN vector[1][i] ELSE extend[1]]>>, <<>>>>
            ELSE <<vector, <<>>>>

(* EngineData::apply_selection_vector on the batch of len rows from first:  *)
(* rows beyond the vector are kept, and so are all rows without one.        *)
apply_selection_vector(first, len, sv) ==
    {first + i - 1 : i \in {j \in 1..len :
        sv = <<>> \/ j > Len(sv[1]) \/ sv[1][j]}}

(* The batches of a file, read with a selection vector that is split as     *)
(* they arrive.                                                             *)
ReadBatches(layout, selection_vector, extend) ==
    LET upto[i \in 0..Len(layout)] ==
            IF i = 0 THEN [rest |-> selection_vector, first |-> 0, rows |-> {}]
            ELSE LET s == upto[i - 1]
                     split == split_vector(s.rest, layout[i], extend)
                 IN [rest |-> split[2], first |-> s.first + layout[i],
                     rows |-> s.rows \cup apply_selection_vector(s.first, layout[i], split[1])]
    IN upto[Len(layout)].rows

(* Scan::execute: the rows of a file of the table, or nothing for an error. *)
ScanRows(dv, layout) ==
    LET treemap == get_treemap(dv)
        sv == IF dv = <<>> THEN <<>> ELSE <<treemap_to_bools_with(treemap[1], FALSE)>>
    IN IF treemap = <<>> THEN <<>> ELSE <<ReadBatches(layout, sv, <<>>)>>

----------------------------------------------------------------------------
(* Transaction::update_deletion_vectors.  A batch of scan files is a        *)
(* sequence of rows, each a file and its deletion vector, with a selection  *)
(* vector that may be shorter.                                              *)

(* FilteredEngineData: rows the selection vector does not cover are         *)
(* selected.                                                                *)
SelectedRows(batch, sv) == {i \in DOMAIN batch : i \in DOMAIN sv => sv[i]}


MatchedFiles(batch, sv, updates) ==
    [i \in DOMAIN sv |-> sv[i] /\ batch[i].path \in DOMAIN updates]

(* The number of matched files must be that of the updates.                 *)
update_deletion_vectors(batch, sv, updates) ==
    LET matched == MatchedFiles(batch, sv, updates)
    IN [ok |-> Cardinality({i \in DOMAIN matched : matched[i] /\ batch[i].path \in DOMAIN updates})
                 = Cardinality(DOMAIN updates),
        batch |-> batch, selection_vector |-> matched,
        new_dvs |-> [i \in DOMAIN batch |->
                       IF batch[i].path \in DOMAIN updates THEN <<updates[batch[i].path]>> ELSE <<>>]]

(* generate_dv_update_actions: a remove with the old deletion vector and an *)
(* add with the new one.                                                    *)
generate_dv_update_actions(matched) ==
    UNION {{Action("remove", matched.batch[i].path, matched.batch[i].dv, TRUE),
            Action("add", matched.batch[i].path, matched.new_dvs[i], TRUE)} :
             i \in SelectedRows(matched.batch, matched.selection_vector)}

----------------------------------------------------------------------------
(* The change data feed of one commit.                                      *)

(* LogReplayScanner::try_new: the deletion vectors of the removes that have *)
(* an add of the same path in the commit.                                   *)
remove_dvs(c) ==
    LET removes == {a \in c.actions : a.kind = "remove" /\ a.data_change}
        add_paths == {a.path : a \in {b \in c.actions : b.kind = "add" /\ b.data_change}}
        paired == IF c.cdc THEN {} ELSE {a \in removes : a.path \in add_paths}
    IN [p \in {a.path : a \in paired} |-> (CHOOSE a \in paired : a.path = p).dv]

(* Seeded fault: the removes of pairs are selected too.                     *)
Selects_EveryRemove(c, a) == a.data_change

(* FileActionSelectionVisitor.                                              *)
Selects(c, a) ==
    a.data_change /\ (a.kind = "remove" => a.path \notin DOMAIN remove_dvs(c))

into_scan_batches(c) == {a \in c.actions : Selects(c, a)}

(* CdfScanFileVisitor: the files to read.                                   *)
CdfScanFiles(c) ==
    {[scan_type |-> a.kind, path |-> a.path, dv |-> a.dv,
      remove_dv |-> IF a.path \in DOMAIN remove_dvs(c) THEN <<remove_dvs(c)[a.path]>> ELSE <<>>] :
       a \in into_scan_batches(c)}

ResolvedFile(file, scan_type, sv) ==
    [scan_type |-> scan_type, path |-> file.path, pair |-> file.remove_dv # <<>>,
     selection_vector |-> IF sv = <<>> THEN <<>> ELSE <<sv>>]

(* resolve_scan_file_dv is an error for other files than adds with a        *)
(* remove_dv and for deletion vectors that cannot be read.  Otherwise a     *)
(* pair of deletion vectors becomes the rows that came back and the rows    *)
(* that went.                                                               *)
Resolves(file) ==
    /\ get_treemap(file.dv) # <<>>
    /\ file.remove_dv # <<>> => get_treemap(file.remove_dv[1]) # <<>> /\ file.scan_type = "add"

resolve_scan_file_dv(file) ==
    IF file.remove_dv = <<>>
    THEN {ResolvedFile(file, file.scan_type, treemap_to_bools_with(get_treemap(file.dv)[1], FALSE))}
    ELSE LET add_dv == get_treemap(file.dv)[1]
             rm_dv == get_treemap(file.remove_dv[1])[1]
             adds == rm_dv \ add_dv
             removes == add_dv \ rm_dv
         IN {ResolvedFile(file, s.scan_type, treemap_to_bools_with(s.rows, TRUE)) :
               s \in {x \in {[scan_type |-> "add", rows |-> adds],
                             [scan_type |-> "remove", rows |-> removes]} : x.rows # {}}}

(* read_scan_file: the selection vector of a pair is extended with false,   *)
(* that of other files with true.                                           *)
read_scan_file(file, layout) ==
    {<<IF file.scan_type = "add" THEN "insert" ELSE "delete", file.path, r>> :
       r \in ReadBatches(layout, file.selection_vector, <<~file.pair>>)}

(* The rows of the feed of version v.  The cdc files of a commit hold the   *)
(* changes themselves.                                                      *)
ChangesOf(v, layout) ==
    LET c == At(v)
    IN IF c.cdc THEN Difference(LiveBefore(v), c.live)
       ELSE UNION {read_scan_file(file, layout) :
                     file \in UNION {resolve_scan_file_dv(f) : f \in CdfScanFiles(c)}}

(* Seeded fault: only the ends of the range are checked.                    *)
CommitChecks_Ends(v, end) == TRUE

(* LogReplayScanner::try_new on a commit: the schema of its metadata is the *)
(* table's, the feed is enabled with it, the protocol supports the feed,    *)
(* and with in-commit timestamps enabled the commit has one.                *)
CommitChecks(v, end) ==
    /\ "metadata" \in At(v).updates =>
         At(v).config.metadata.cdf /\ At(v).config.metadata.schema = At(end).config.metadata.schema
    /\ "protocol" \in At(v).updates => At(v).config.supported
    /\ At(v).config.metadata.ict => At(v).timestamped

(* list_commits and for_table_changes: all commits from start to end.       *)
for_table_changes(start, end) ==
    LET listed == {v \in Versions \ missing : start <= v /\ v <= end}
    IN /\ start \in listed /\ end \in listed
       /\ \A v \in listed : v = end \/ v + 1 \in listed

(* Whether a snapshot of version v can be built: all commits are there from *)
(* the first version, or after a checkpoint.                                *)
SnapshotExists(v) ==
    \E c \in {-1} \cup checkpoints : c <= v /\ missing \cap (c + 1)..v = {}

(* TableChanges::try_new, and the checks made while the commits are read.   *)
TableChangesOk(start, end) ==
    /\ for_table_changes(start, end)
    /\ \A v \in {start, end} :
         SnapshotExists(v) /\ At(v).config.supported /\ At(v).config.metadata.cdf
    /\ At(start).config.metadata.schema = At(end).config.metadata.schema
    /\ \A v \in start..end : CommitChecks(v, end)

----------------------------------------------------------------------------
(* The commits.                                                             *)

(* Bounds on the commits, and on those that may change files.               *)
MayCommit == Len(log) < MaxCommits
MayWrite == MayCommit /\ Cardinality({v \in Versions : At(v).updates = {}}) < MaxWrites

Commit(actions, live, cdc, config, updates) ==
    /\ \E timestamped \in IF config.metadata.ict THEN BOOLEAN ELSE {FALSE} :
         log' = Append(log, [actions |-> actions, live |-> live, cdc |-> cdc, config |-> config,
                             updates |-> updates, timestamped |-> timestamped])
    /\ UNCHANGED <<missing, checkpoints>>

Current == IF log = <<>> THEN [f \in Files |-> <<>>] ELSE log[Len(log)].live
CurrentDv(f) == DvAt(Len(log) - 1, f)
Config == IF log = <<>>
          THEN [metadata |-> [cdf |-> TRUE, schema |-> 1, ict |-> FALSE], supported |-> TRUE]
          ELSE log[Len(log)].config

(* The actions of a writer that takes the table from before to after, and   *)
(* writes a remove and an add for the files it rewrites in place.  dvs has  *)
(* the deletion vectors of the files it adds.                               *)
FileActions(before, after, rewritten, dvs, data_change) ==
    LET changed == {f \in Files : before[f] # after[f]} \cup rewritten
    IN {Action("remove", f, CurrentDv(f), data_change) : f \in {g \in changed : before[g] # <<>>}}
       \cup {Action("add", f, dvs[f], data_change) : f \in {g \in changed : after[g] # <<>>}}

(* How another writer stores the deletion vectors of a commit (external):   *)
(* inline in the log, or in files of one vector that need no offset.        *)
ForeignPlace(f) == <<"abs", "/", <<Len(log), f>>>>

ForeignDv(storage, f, treemap) ==
    IF treemap = {} THEN <<>>
    ELSE IF storage = "i"
    THEN <<Descriptor("i", <<"portable", treemap>>, <<>>, BitmapBytes(treemap) + 4, Cardinality(treemap))>>
    ELSE <<Descriptor("p", ForeignPlace(f), <<>>, BitmapBytes(treemap) + 4, Cardinality(treemap))>>

ForeignStore(storage, after) ==
    LET stored == IF storage = "i" THEN {} ELSE {f \in Files : after[f] \notin {<<>>, <<{}>>}}
    IN Put(store, [place \in {ForeignPlace(f) : f \in stored} |->
                     WriteAll(after[CHOOSE f \in stored : ForeignPlace(f) = place], <<>>).file])

Init == log = <<>> /\ missing = {} /\ checkpoints = {} /\ store = [p \in {} |-> {}]

(* Bound: a history changes files, or the metadata and the protocol, with   *)
(* checkpoints and clean-up: the checks on the latter look at no file.      *)
NoFileChanges == \A v \in Versions : At(v).actions = {}
OnlyFileChanges == missing = {} /\ checkpoints = {} /\ \A v \in Versions : At(v).updates = {}

ForeignCommit(after, rewritten, cdc, data_change) ==
    \E storage \in IF OnlyFileChanges /\ data_change /\ ~cdc THEN {"i", "p"} ELSE {"i"} :
      LET dvs == [f \in Files |->
                    IF after[f] = Current[f] /\ after[f] # <<>> THEN CurrentDv(f)
                    ELSE IF after[f] = <<>> THEN <<>> ELSE ForeignDv(storage, f, after[f][1])]
          written == [f \in Files |-> IF after[f] = Current[f] THEN <<>> ELSE after[f]]
      IN /\ OnlyFileChanges \/ (after = Current /\ rewritten = {} /\ ~cdc)
         /\ Commit(FileActions(Current, after, rewritten, dvs, data_change), after, cdc, Config, {})
         /\ store' = ForeignStore(storage, written)

(* A commit of another writer, which may add cdc files.                     *)
Write ==
    /\ MayWrite
    /\ \E after \in [Files -> FileStates], cdc \in BOOLEAN :
         \E rewritten \in {{}, {f \in Files : Current[f] # <<>> /\ after[f] = Current[f]}} :
           ForeignCommit(after, rewritten, cdc, TRUE)

(* OPTIMIZE and the like: rows move between files, and none changes.        *)
Rearrange ==
    /\ MayWrite
    /\ \E after \in [Files -> FileStates] : after # Current /\ ForeignCommit(after, {}, FALSE, FALSE)

(* The sets of files that an engine asks new deletion vectors for: in one   *)
(* call of update_deletion_vectors, or in two for different files.          *)
Calls == {<<s>> : s \in SUBSET Files \ {{}}}
           \cup {c \in (SUBSET Files \ {{}}) \X (SUBSET Files \ {{}}) : c[1] \cap c[2] = {}}

(* The kernel updates deletion vectors of files among those a scan          *)
(* returned; files that are not in the table are rows the scan deselected.  *)
(* The selection vector covers some of the rows, and those it does not are  *)
(* selected.  The vectors are first written to one file.  An engine commits *)
(* also when a call was an error: what the call staged is committed.        *)
UpdateDvs(order) ==
    /\ MayWrite /\ OnlyFileChanges
    /\ \E calls \in Calls, prefix \in DvPrefixes, covered \in {Len(order) - 1, Len(order)} :
       \E treemaps \in [UNION Range(calls) -> SUBSET Rows] :
         LET uuid == <<Len(log)>>
             chosen == SelectSeq(order, LAMBDA f : f \in DOMAIN treemaps)
             written == WriteAll([i \in DOMAIN chosen |-> treemaps[chosen[i]]], encoded_relative_path(prefix, uuid))
             updates(s) == [f \in s |-> written.descriptors[CHOOSE i \in DOMAIN chosen : chosen[i] = f]]
             batch == [i \in DOMAIN order |->
                         [path |-> order[i],
                          dv |-> IF Current[order[i]] = <<>> THEN <<>> ELSE CurrentDv(order[i])]]
             beyond == {order[i] : i \in (covered + 1)..Len(order)}
             sv == [i \in 1..covered |-> Current[order[i]] # <<>>]
             staged == [n \in DOMAIN calls |-> update_deletion_vectors(batch, sv, updates(calls[n]))]
             done == UNION {calls[n] : n \in {m \in DOMAIN calls : staged[m].ok}}
             lost == beyond \ DOMAIN treemaps
             live == [f \in Files |->
                        IF f \in done \/ (f \in DOMAIN treemaps /\ Current[f] # <<>>) THEN <<treemaps[f]>>
                        ELSE IF f \in lost THEN <<{}>> ELSE Current[f]]
         IN /\ written.descriptors # <<>>
            /\ \A f \in beyond : Current[f] # <<>>
            /\ Len(calls) = 1 \/ beyond = {} \* bound
            /\ Commit(UNION {generate_dv_update_actions(staged[n]) : n \in DOMAIN staged},
                      live, FALSE, Config, {})
            /\ store' = Put(store, relative_path(prefix, uuid) :> written.file)

UpdateMetadata ==
    /\ MayCommit /\ log # <<>> /\ NoFileChanges
    /\ \E metadata \in Metadatas :
         \* bound: one property at a time
         /\ Cardinality({p \in DOMAIN metadata : metadata[p] # Config.metadata[p]}) = 1
         /\ Commit({}, Current, FALSE, [Config EXCEPT !.metadata = metadata], {"metadata"})
    /\ UNCHANGED store

UpdateProtocol ==
    /\ MayCommit /\ log # <<>> /\ NoFileChanges
    /\ Commit({}, Current, FALSE, [Config EXCEPT !.supported = ~@], {"protocol"})
    /\ UNCHANGED store

Checkpoint ==
    /\ NoFileChanges /\ checkpoints = {} \* bound
    /\ \E v \in Versions : SnapshotExists(v) /\ checkpoints' = {v}
    /\ UNCHANGED <<log, missing, store>>

(* Log cleanup removes old commit files, one at a time.                     *)
CleanUp ==
    /\ NoFileChanges
    /\ \E v \in Versions \ (missing \cup {Len(log) - 1}) : missing' = missing \cup {v}
    /\ UNCHANGED <<log, checkpoints, store>>

Next ==
    \/ Write
    \/ Rearrange
    \/ \E order \in SetToSeqs(Files) : UpdateDvs(order)
    \/ UpdateMetadata
    \/ UpdateProtocol
    \/ Checkpoint
    \/ CleanUp

Spec == Init /\ [][Next]_vars

----------------------------------------------------------------------------
(* Properties.                                                              *)

(* Every version is once the newest.                                        *)
Newest == {Len(log) - 1} \ {-1}


(* However the reader cuts a file into batches, a scan returns the rows of  *)
(* the table: Scan::execute splits the selection vector as batches arrive,  *)
(* and DeletionVectorDescriptor::read finds the vector among the others of  *)
(* its file.                                                                *)
ScanRowsAreLive ==
    \A v \in Newest, layout \in Layouts, f \in Files :
      At(v).live[f] # <<>> =>
        ScanRows(DvAt(v, f), layout) = <<Rows \ At(v).live[f][1]>>

(* The ways a file can be damaged: it ends early, or holds another value of *)
(* the same kind at some place.                                             *)
Damaged(file) ==
    {[file EXCEPT !.len = n] : n \in 0..(file.len - 1)}
      \cup UNION {{[file EXCEPT !.fields[o] = x] :
                     x \in {<<"bitmap", t, file.fields[o][3]>> : t \in SUBSET Rows}} :
                   o \in {p \in DOMAIN file.fields : file.fields[p][1] = "bitmap"}}
      \cup UNION {{[file EXCEPT !.fields[o] = file.fields[p]] :
                     p \in {q \in DOMAIN file.fields : file.fields[q][1] = file.fields[o][1]}} :
                   o \in DOMAIN file.fields}

(* A deletion vector in a damaged file is an error or the rows it was       *)
(* written with, never others (DeletionVectorDescriptor::read), and vectors *)
(* with the same unique_id delete the same rows.                            *)
DamagedVectorsAreErrors ==
    LET dvs(v) == {a.dv[1] : a \in {b \in At(v).actions : b.dv # <<>>}}
    IN \A v \in Newest : \A d \in dvs(v) :
         /\ d.storage # "i" =>
              \A file \in Damaged(store[absolute_path(d)]) : read_file(d, file) \in {<<>>, read(d, store)}
         /\ \A u \in Versions : \A e \in dvs(u) :
              unique_id(d) = unique_id(e) => read(d, store) = read(e, store)

(* The files of a version's feed, resolved.                                 *)
ResolvedFiles(v) == UNION {resolve_scan_file_dv(f) : f \in CdfScanFiles(At(v))}

(* The vector of a pair ends with a batch that is not the last.             *)
UsedUp(file, layout) ==
    /\ file.pair
    /\ \E i \in 1..(Len(layout) - 1) :
         MapThenSumSet(LAMBDA j : layout[j], 1..i) >= Len(file.selection_vector[1])

Changed(v) == IF \A a \in At(v).actions : a.data_change
              THEN Difference(LiveBefore(v), At(v).live) ELSE {}

(* The feed of a version is the difference between the tables before and    *)
(* after it: inserts, deletes, deletion vector updates of the kernel,       *)
(* restored rows, rewrites in place and cdc commits; a commit that changes  *)
(* no data has no changes, and no file is an error.  No change is missing   *)
(* however a file is cut into batches; rows that did not change are in the  *)
(* feed only where UnchangedRowsAreLeftOut fails, which is when the vector  *)
(* of a pair is used up before the last batch.                              *)
ChangesAreTheDifference ==
    \A v \in Newest :
      /\ At(v).cdc \/ \A file \in CdfScanFiles(At(v)) : Resolves(file)
      /\ \A layout \in Layouts :
           /\ Changed(v) \subseteq ChangesOf(v, layout)
           /\ (At(v).cdc \/ \A file \in ResolvedFiles(v) : ~UsedUp(file, layout)) =>
                ChangesOf(v, layout) = Changed(v)

(* read_scan_file on a pair whose vector is shorter than the file: "If      *)
(* there were more rows (for example 4 total), then none of them have       *)
(* changed. Hence, the selection vector is extended".  No row that did not  *)
(* change is in the feed.                                                   *)
UnchangedRowsAreLeftOut ==
    \A v \in Newest, layout \in Layouts : ChangesOf(v, layout) \subseteq Changed(v)

(* A range is accepted exactly when the feed is whole: every commit file is *)
(* there, the table can be read at its start, and every version, not only   *)
(* those that changed the metadata or the protocol, has the feed enabled    *)
(* and supported, the schema of the last, and a timestamp if it needs one.  *)
AcceptedRangesAreWhole ==
    \A start, end \in Versions : start <= end =>
      (TableChangesOk(start, end) <=>
         /\ SnapshotExists(start)
         /\ \A v \in start..end :
              /\ v \notin missing
              /\ At(v).config.supported /\ At(v).config.metadata.cdf
              /\ At(v).config.metadata.schema = At(end).config.metadata.schema
              /\ At(v).config.metadata.ict => At(v).timestamped)
=============================================================================
