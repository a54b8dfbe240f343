---------------------------- MODULE ParallelScan ----------------------------
(***************************************************************************)
(* Scans of a snapshot in two phases, and scans that start from the result *)
(* of an earlier one.                                                      *)
(*                                                                         *)
(* The sequential phase reads the commits, newest first, and a single-part *)
(* checkpoint.  finish hands out the leaf files that are left (sidecars,   *)
(* or the parts of a multi-part checkpoint), which the engine distributes  *)
(* over workers together with the state of the processor.  The files seen  *)
(* in commits are frozen from then on.  A worker whose task fails is       *)
(* started again from the same state, and what it had delivered is         *)
(* discarded.  scan_metadata_from replays only the commits after an        *)
(* existing result, and takes that result for the checkpoint.              *)
(***************************************************************************)
EXTENDS ActionReplay, FiniteSets

CONSTANTS
    Workers,       \* executors of the parallel phase
    Leaves,        \* sidecars, or parts of a multi-part checkpoint
    MaxCommits,    \* bound: commits after the checkpoint
    MaxRetries     \* bound: failed tasks of the parallel phase

ASSUME ParallelScanAssumption ==
    /\ MaxCommits \in Nat /\ MaxRetries \in Nat
    /\ "manifest" \notin Leaves
    /\ IsFiniteSet(Files)

VARIABLES
    checkpoint,   \* the add actions of the checkpoint
    layout,       \* "single": one file, maybe with sidecars; "multi": parts
    place,        \* add action of the checkpoint -> "manifest" or a leaf
    commits,      \* commits[i]: the file actions of the i-th commit after it
    predicate,    \* PhysicalPredicate: "None", "Some" or "StaticSkipAll"
    start,        \* how the scan was started, what it starts from, and (history:
                  \* the code has no such fields) the live and the relevant files
    phase,        \* where the scan stands
    position,     \* commits that have not been read yet
    seen,         \* ScanLogReplayProcessor::seen_file_keys
    delivered,    \* <<source, add action>> handed to the engine
    task          \* worker -> its partition, what is left of it, its output, retries

table == <<checkpoint, layout, place, commits>>
vars == <<table, predicate, start, phase, position, seen, delivered, task>>

RowsUpTo(n) == checkpoint \cup UNION {commits[i] : i \in 1..n}

(* The reference: the newest action on a file is an add.                    *)
LiveAt(n) ==
    {r \in RowsUpTo(n) :
        r.type = "add" /\ \A s \in RowsUpTo(n) : s.slot = r.slot => s.version <= r.version}

Live == LiveAt(Len(commits))

(* Files with a row that satisfies the predicate.                           *)
RelevantTo(p) ==
    IF p = "None" THEN Files ELSE IF p = "Some" THEN Files \ Irrelevant ELSE {}

(* What an earlier scan, with predicate p or none, may have returned for a  *)
(* version, in the words of ScanContract.                                   *)
IsScanResult(rows, n, p) ==
    /\ \A r \in rows : \E l \in LiveAt(n) :
          l.slot = r.slot /\ (r.slot \in RelevantTo(p) => r = l)
    /\ \A r, s \in rows : r.slot = s.slot => r = s
    /\ \A l \in LiveAt(n) : l.slot \in RelevantTo(p) => l \in rows

----------------------------------------------------------------------------
(* The processor.  Rows of one batch are of different files.                *)

(* new_with_seen_files and into_serializable_state: only                    *)
(* PhysicalPredicate::Some has filters, here and on the workers.            *)
Skips(row) == predicate = "Some" /\ Pruned(row)

(* Seeded fault: remember only the files that are delivered.                *)
Recorded_AddsOnly(rows) ==
    {r.slot : r \in {s \in rows : s.type = "add" /\ ~Skips(s)}}

(* What a log batch adds to seen_file_keys.                                 *)
Recorded(rows) == {r.slot : r \in {s \in rows : ~Skips(s)}}

(* The adds of a batch that the visitor selects.                            *)
Selected(rows) == {r \in rows : r.type = "add" /\ ~Skips(r) /\ r.slot \notin seen}

From(source, rows) == {<<source, r>> : r \in rows}

----------------------------------------------------------------------------
(* The table, before the scan starts.                                       *)

NotStarted == [kind |-> "none", floor |-> 0, batch |-> {}, files |-> {},
               live |-> {}, relevant |-> {}]
Idle == [files |-> {}, left |-> {}, output |-> {}, retries |-> 0, collected |-> FALSE]

Adds(f, version) ==
    {AddFile(f, version, TRUE)} \cup {AddFile(g, version, FALSE) : g \in {f} \cap Irrelevant}

OnePerFile(rows) == \A r, s \in rows : r.slot = s.slot => r = s

Init ==
    /\ checkpoint \in {rows \in SUBSET UNION {Adds(f, 0) : f \in Files} : OnePerFile(rows)}
    /\ \/ layout = "single" /\ place \in [checkpoint -> Leaves \cup {"manifest"}]
       \/ layout = "multi" /\ place \in [checkpoint -> Leaves]
    /\ commits = <<>>
    /\ predicate = "None"
    /\ start = NotStarted
    /\ phase = "table"
    /\ position = 0
    /\ seen = {}
    /\ delivered = {}
    /\ task = [w \in Workers |-> Idle]

(* A commit of version v has at most one action on each file, and removes   *)
(* live ones.                                                               *)
Writable(v) ==
    (UNION {Adds(f, v) : f \in Files}) \cup {RemoveFile(r.slot, v, NoTimestamp) : r \in Live}

Commit ==
    /\ phase = "table"
    /\ Len(commits) < MaxCommits
    /\ \E rows \in SUBSET Writable(Len(commits) + 1) :
         /\ rows # {} /\ OnePerFile(rows)
         /\ commits' = Append(commits, rows)
    /\ UNCHANGED <<checkpoint, layout, place, predicate, start, phase, position, seen, delivered, task>>

----------------------------------------------------------------------------
(* Starting a scan.                                                         *)

RowsIn(file) == {r \in checkpoint : place[r] = file}

StartScan(kind, floor, batch, files) ==
    /\ phase = "table"
    /\ predicate' \in {"None", "Some", "StaticSkipAll"}
    /\ start' = [kind |-> kind, floor |-> floor, batch |-> batch, files |-> files,
                 live |-> Live, relevant |-> RelevantTo(predicate')]
    /\ phase' = IF predicate' = "StaticSkipAll" /\ kind # "parallel" THEN "exhausted" ELSE "commits"
    /\ position' = Len(commits)
    /\ UNCHANGED <<table, seen, delivered, task>>

(* Scan::parallel_scan_metadata.  It does not look for StaticSkipAll.  The  *)
(* leaf files are the parts, or the sidecars the manifest names.            *)
StartParallel ==
    IF layout = "multi"
    THEN StartScan("parallel", 0, {}, Leaves)
    ELSE StartScan("parallel", 0, RowsIn("manifest"), {l \in Leaves : RowsIn(l) # {}})

(* Scan::scan_metadata, also when the existing result is older than the     *)
(* checkpoint.                                                              *)
StartSequential == StartScan("sequential", 0, checkpoint, {})

(* Scan::scan_metadata_from: commits after the existing version, then the   *)
(* existing data, read like a checkpoint.                                   *)
StartFromExisting ==
    phase = "table" /\ \E n \in 0..Len(commits), p \in {"None", "Some"} :
        \E rows \in SUBSET {r \in RowsUpTo(n) : r.type = "add"} :
            /\ IsScanResult(rows, n, p)
            /\ StartScan("existing", n, rows, {})
            /\ RelevantTo(predicate') \subseteq RelevantTo(p)

----------------------------------------------------------------------------
(* The sequential phase: SequentialPhase::next.                             *)

ReadCommit ==
    /\ phase = "commits" /\ position > start.floor
    /\ delivered' = delivered \cup From(<<"commit", position>>, Selected(commits[position]))
    /\ seen' = seen \cup Recorded(commits[position])
    /\ position' = position - 1
    /\ UNCHANGED <<table, predicate, start, phase, task>>

HasManifest == start.kind # "parallel" \/ layout = "single"

ReadManifest ==
    /\ phase = "commits" /\ position = start.floor /\ HasManifest
    /\ delivered' = delivered \cup From(<<"manifest", 0>>, Selected(start.batch))
    /\ phase' = "manifest"
    /\ UNCHANGED <<table, predicate, start, position, seen, task>>

(* next returns None.                                                       *)
Exhaust ==
    /\ \/ phase = "manifest"
       \/ phase = "commits" /\ position = start.floor /\ ~HasManifest
    /\ phase' = "exhausted"
    /\ UNCHANGED <<table, predicate, start, position, seen, delivered, task>>

(* A file cannot be read.                                                   *)
ReadError ==
    /\ phase \in {"commits", "manifest"}
    /\ phase' = "failed"
    /\ UNCHANGED <<table, predicate, start, position, seen, delivered, task>>

(* SequentialPhase::finish, called at any time, and the distribution of the *)
(* leaf files.  The other scans are done when their iterator is.            *)
Finish ==
    /\ phase \in {"commits", "manifest", "exhausted"}
    /\ IF phase # "exhausted"
       THEN start.kind = "parallel" /\ phase' = "failed" /\ UNCHANGED task
       ELSE IF start.files = {}
       THEN phase' = "done" /\ UNCHANGED task
       ELSE /\ phase' = "parallel"
            /\ \E executor \in [start.files -> Workers] :
                 task' = [w \in Workers |->
                            LET mine == {l \in start.files : executor[l] = w}
                            IN [Idle EXCEPT !.files = mine, !.left = mine]]
    /\ UNCHANGED <<table, predicate, start, position, seen, delivered>>

----------------------------------------------------------------------------
(* The parallel phase.                                                      *)

(* Seeded fault: the predicate does not reach the workers.                  *)
ReadLeaf_NoPredicate(w) ==
    /\ phase = "parallel"
    /\ \E l \in task[w].left :
         task' = [task EXCEPT ![w].left = @ \ {l},
                    ![w].output = @ \cup From(<<"leaf", l>>, {r \in RowsIn(l) : r.slot \notin seen})]
    /\ UNCHANGED <<table, predicate, start, phase, position, seen, delivered>>

(* ParallelPhase::next: CheckpointDeduplicator looks at seen_file_keys and  *)
(* never records.                                                           *)
ReadLeaf(w) ==
    /\ phase = "parallel"
    /\ \E l \in task[w].left :
         task' = [task EXCEPT ![w].left = @ \ {l},
                              ![w].output = @ \cup From(<<"leaf", l>>, Selected(RowsIn(l)))]
    /\ UNCHANGED <<table, predicate, start, phase, position, seen, delivered>>

(* The executor stops or a file cannot be read.  The engine runs the task   *)
(* again from the same ParallelState and drops what it got.                 *)
RetryTask(w) ==
    /\ phase = "parallel" /\ ~task[w].collected
    /\ task[w].files # {} /\ task[w].retries < MaxRetries
    /\ task' = [task EXCEPT ![w].left = task[w].files, ![w].output = {},
                            ![w].retries = @ + 1]
    /\ UNCHANGED <<table, predicate, start, phase, position, seen, delivered>>

(* The iterator of the worker has ended and its output is taken.            *)
Collect(w) ==
    /\ phase = "parallel" /\ task[w].left = {} /\ ~task[w].collected
    /\ delivered' = delivered \cup task[w].output
    /\ task' = [task EXCEPT ![w].collected = TRUE]
    /\ UNCHANGED <<table, predicate, start, phase, position, seen>>

Done ==
    /\ phase = "parallel" /\ \A w \in Workers : task[w].collected
    /\ phase' = "done"
    /\ UNCHANGED <<table, predicate, start, position, seen, delivered, task>>

Next ==
    \/ Commit
    \/ StartParallel \/ StartSequential \/ StartFromExisting
    \/ ReadCommit \/ ReadManifest \/ Exhaust \/ ReadError \/ Finish \/ Done
    \/ \E w \in Workers : ReadLeaf(w) \/ RetryTask(w) \/ Collect(w)

Spec == Init /\ [][Next]_vars

----------------------------------------------------------------------------

Status ==
    IF phase = "table" THEN "idle"
    ELSE IF phase \in {"done", "failed"} THEN phase ELSE "running"

(* However the leaf files are distributed and the tasks repeated, and       *)
(* whatever earlier result a scan starts from, the engine gets every live   *)
(* file that matters with its newest add action, none twice and no other    *)
(* (SequentialPhase, ParallelPhase, Scan::scan_metadata_from).              *)
Contract == INSTANCE ScanContract WITH
    live <- start.live,
    relevant <- start.relevant,
    status <- Status

ImplementsScanContract == Contract!Spec

(* With a predicate, the two-phase scan returns exactly what one processor  *)
(* returns that reads the whole log in order: pruning on the workers is the *)
(* pruning of ScanLogReplayProcessor (into_serializable_state).             *)
SetToSeq(rows) == CHOOSE s \in [1..Cardinality(rows) -> rows] : IsInjective(s)

Stream ==
    FlattenSeq([i \in 1..Len(commits) |-> FromLog(SetToSeq(commits[Len(commits) + 1 - i]))])
      \o FromCheckpoint(SetToSeq(checkpoint))

ParallelIsSequential ==
    (phase = "done" /\ predicate = "Some" /\ start.kind # "existing")
      => {p[2] : p \in delivered} = ScanFiles(Stream)
=============================================================================
