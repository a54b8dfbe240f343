---------------------------- MODULE SnapshotCrc ----------------------------
(***************************************************************************)
(* Snapshots and version checksums.  A checksum (CRC) file summarises the  *)
(* table at one version, and a snapshot uses the newest one it lists to    *)
(* avoid replaying the log: for protocol and metadata when it is built or  *)
(* updated, for domain metadata and file statistics later, lazily.  A      *)
(* commit derives the checksum of the next version from the one in memory, *)
(* and write_checksum puts that on disk, where others read it.             *)
(*                                                                         *)
(* One client holds a snapshot.  Everybody else who commits, writes        *)
(* checksums and checkpoints is the environment.  Protocol, metadata and   *)
(* the domain are represented by the version that last wrote them.         *)
(***************************************************************************)
EXTENDS Integers, Sequences, FiniteSets

CONSTANTS
    Changes,       \* what a commit after the first may do, records of Content
    Tracking,      \* whether other writers put domains into checksums, a set of BOOLEAN
    None,
    NotTracked,    \* domainMetadata is absent from a checksum
    MaxVersion     \* bound on the length of the log

Slots == {"protocol", "metaData"}

(* alters: the slots it writes; dm: what it does to the domain; op: whether *)
(* the operation is incremental-safe; adds: add rows it has.                *)
Content == [alters : SUBSET Slots, dm : {"none", "set", "removed"},
            op : {"WRITE", "ANALYZE STATS"}, adds : {0, 1}]

ASSUME SnapshotCrcAssumption ==
    /\ Changes \subseteq Content
    /\ Tracking \subseteq BOOLEAN
    /\ MaxVersion \in Nat
    /\ None \notin Nat

VARIABLES
    commits,       \* the commit files, version v at index v + 1
    checkpoints,   \* versions that have a checkpoint
    crcs,          \* version :> Crc (see TrueCrc), the checksum files
    snapshot       \* the snapshot of the client, or None

vars == <<commits, checkpoints, crcs, snapshot>>

Latest == Len(commits) - 1
At(v) == commits[v + 1]
Largest(S) == CHOOSE x \in S : \A y \in S : y <= x
NewestIn(S) == IF S = {} THEN None ELSE Largest(S)
OrElse(a, b) == IF a # None THEN a ELSE b
Above(v, default) == IF v = None THEN default ELSE v + 1

----------------------------------------------------------------------------
(* The table at a version, as a full replay of the log finds it.            *)

LastWrite(slot, first, last) == NewestIn({v \in first .. last : slot \in At(v).alters})

DomainAt(v) ==
    LET u == NewestIn({w \in 0 .. v : At(w).dm # "none"})
    IN  IF u = None \/ At(u).dm = "removed" THEN None ELSE u

(* A non-incremental operation adds rows for files that are already there.  *)
is_incremental_safe(op) == op = "WRITE"
NumFiles(v) == Cardinality({w \in 0 .. v : is_incremental_safe(At(w).op) /\ At(w).adds = 1})

TrueCrc(v) ==
    [protocol |-> LastWrite("protocol", 0, v), metaData |-> LastWrite("metaData", 0, v),
     domain |-> DomainAt(v), num_files |-> NumFiles(v), validity |-> "Valid"]

----------------------------------------------------------------------------
(* LazyCrc: a checksum file that is read at most once, or a precomputed     *)
(* checksum.  cached is the checksum, None before a successful read.        *)

LazyFile(file) == [crc_file |-> file, tried |-> FALSE, cached |-> None, precomputed |-> None]
new_precomputed(crc, v) == [crc_file |-> None, tried |-> TRUE, cached |-> crc, precomputed |-> v]
crc_version(lazy) == OrElse(lazy.precomputed, lazy.crc_file)

(* readable says whether the first read of the file, if this is it, works.  *)
get_or_load(lazy, readable) ==
    IF lazy.tried THEN lazy
    ELSE [lazy EXCEPT !.tried = TRUE,
                      !.cached = IF lazy.crc_file # None /\ readable
                                 THEN crcs[lazy.crc_file] ELSE None]

LoadedAt_AnyVersion(lazy, v) == lazy.cached
get_if_loaded_at_version(lazy, v) == IF crc_version(lazy) = v THEN lazy.cached ELSE None

----------------------------------------------------------------------------
(* Log segments: the commits first .. end after an optional checkpoint.     *)

segment_after_crc_Late(seg, v) ==
    [seg EXCEPT !.first = IF v + 2 > @ THEN v + 2 ELSE @, !.checkpoint = None]
segment_after_crc(seg, v) ==
    [seg EXCEPT !.first = IF v + 1 > @ THEN v + 1 ELSE @, !.checkpoint = None]
segment_through_crc(seg, v) == [seg EXCEPT !.end = v]

(* Keeps what has been found already, newest commits first.                 *)
replay_for_pm(seg, found) ==
    [slot \in Slots |->
        OrElse(found[slot], OrElse(LastWrite(slot, seg.first, seg.end),
            IF seg.checkpoint = None THEN None ELSE LastWrite(slot, 0, seg.checkpoint)))]

Nothing == [slot \in Slots |-> None]

(* The protocol and metadata of a segment, None for what it does not hold,  *)
(* and the loader after any read of its file.                               *)
read_protocol_metadata_opt(seg, lazy, readable) ==
    LET v      == crc_version(lazy)
        loaded == get_or_load(lazy, readable)
        after  == replay_for_pm(segment_after_crc(seg, v), Nothing)
        Result(pm, l) == [pm |-> pm, lazy |-> l]
    IN  CASE v = None ->
                Result(replay_for_pm(seg, Nothing), lazy)
          [] v = seg.end /\ loaded.cached # None ->
                Result([slot \in Slots |-> loaded.cached[slot]], loaded)
          [] v = seg.end /\ loaded.cached = None ->
                Result(replay_for_pm(seg, Nothing), loaded)
          [] v # None /\ v # seg.end ->
                IF \A slot \in Slots : after[slot] # None THEN Result(after, lazy)
                ELSE IF loaded.cached # None
                THEN Result([slot \in Slots |-> OrElse(after[slot], loaded.cached[slot])], loaded)
                ELSE Result(replay_for_pm(segment_through_crc(seg, v), after), loaded)

(* LogSegmentFiles::list from a version on: the newest checkpoint, and the  *)
(* newest checksum unless it is older than that.                            *)
List(start, end) ==
    LET checkpoint == NewestIn({v \in checkpoints : start <= v /\ v <= end})
        floor      == IF checkpoint = None THEN start ELSE checkpoint
    IN  [first |-> Above(checkpoint, start), end |-> end, checkpoint |-> checkpoint,
         crc |-> NewestIn({v \in DOMAIN crcs : floor <= v /\ v <= end})]

SnapshotOf(seg, read) ==
    [version |-> seg.end, checkpoint |-> seg.checkpoint, latest_crc_file |-> seg.crc,
     lazy |-> read.lazy, pm |-> read.pm, behind |-> FALSE]

try_new_from_log_segment(seg, readable) ==
    SnapshotOf(seg, read_protocol_metadata_opt(seg, LazyFile(seg.crc), readable))

----------------------------------------------------------------------------
(* Checksums of a version derived from the one before.                      *)

into_crc_for_version_zero(delta) ==
    [protocol |-> 0, metaData |-> 0, domain |-> IF delta.dm = "set" THEN 0 ELSE None,
     num_files |-> delta.adds, validity |-> "Valid"]

(* Crc::apply.  Commits of the client alter neither protocol nor metadata.  *)
ApplyDelta_AnyOperation(crc, delta, v) ==
    [crc EXCEPT !.domain = CASE @ = NotTracked \/ delta.dm = "none" -> @
                             [] delta.dm = "removed" /\ @ # NotTracked -> None
                             [] delta.dm = "set" /\ @ # NotTracked -> v,
                !.num_files = @ + delta.adds]
ApplyDelta(crc, delta, v) ==
    LET safe == crc.validity = "Valid" /\ is_incremental_safe(delta.op)
    IN  [crc EXCEPT !.domain = CASE @ = NotTracked \/ delta.dm = "none" -> @
                                 [] delta.dm = "removed" /\ @ # NotTracked -> None
                                 [] delta.dm = "set" /\ @ # NotTracked -> v,
                    !.validity = IF safe THEN @ ELSE "Indeterminate",
                    !.num_files = IF safe THEN @ + delta.adds ELSE @]

compute_post_commit_crc(delta, v) ==
    LET base == get_if_loaded_at_version(snapshot.lazy, snapshot.version)
    IN  IF base = None THEN snapshot.lazy ELSE new_precomputed(ApplyDelta(base, delta, v), v)

----------------------------------------------------------------------------
Init ==
    /\ commits = <<>>
    /\ checkpoints = {}
    /\ crcs = [v \in {} |-> None]
    /\ snapshot = None

(* The first commit of the table has protocol and metadata.                 *)
Created(content) == [content EXCEPT !.alters = Slots]

CreateTable ==
    /\ commits = <<>>
    /\ \E content \in Changes :
        /\ content.op = "WRITE" /\ content.dm # "removed"
        /\ commits' = <<Created(content)>>
        /\ snapshot' = [version |-> 0, checkpoint |-> None, latest_crc_file |-> None,
                        lazy |-> new_precomputed(into_crc_for_version_zero(content), 0),
                        pm |-> [slot \in Slots |-> 0], behind |-> FALSE]
    /\ UNCHANGED <<checkpoints, crcs>>

(* A commit on the newest version; its answer is the post-commit snapshot.  *)
Commit ==
    /\ snapshot # None /\ snapshot.version = Latest /\ Latest < MaxVersion
    /\ \E content \in Changes :
        /\ content.alters = {}
        /\ commits' = Append(commits, content)
        /\ snapshot' = [snapshot EXCEPT !.version = @ + 1,
                            !.lazy = compute_post_commit_crc(content, Latest + 1)]
    /\ UNCHANGED <<checkpoints, crcs>>

LoadSnapshot ==
    /\ \E v \in 0 .. Latest, readable \in BOOLEAN :
        snapshot' = try_new_from_log_segment(List(0, v), readable)
    /\ UNCHANGED <<commits, checkpoints, crcs>>

(* Snapshot::try_new_from: lists again after the checkpoint it has.  With a *)
(* newer checkpoint it starts afresh; otherwise it reads the commits it has *)
(* not seen and keeps its protocol and metadata where they hold none.       *)
(* behind records that the checksum it read was of an earlier version than  *)
(* the snapshot it updated; the code has no such field.                     *)
UpdateSnapshot ==
    /\ snapshot # None
    /\ \E v \in snapshot.version + 1 .. Latest, readable \in BOOLEAN :
        LET listed == List(Above(snapshot.checkpoint, 1), v)
            unseen == [listed EXCEPT !.first = snapshot.version + 1]
            read   == read_protocol_metadata_opt(unseen, LazyFile(listed.crc), readable)
            crc    == OrElse(listed.crc, snapshot.latest_crc_file)
        IN  snapshot' =
                IF listed.checkpoint # None THEN try_new_from_log_segment(listed, readable)
                ELSE [version |-> v, checkpoint |-> snapshot.checkpoint,
                      latest_crc_file |-> crc, lazy |-> LazyFile(crc),
                      pm |-> [slot \in Slots |-> OrElse(read.pm[slot], snapshot.pm[slot])],
                      behind |-> \/ snapshot.behind
                                 \/ listed.crc # None /\ listed.crc < snapshot.version]
    /\ UNCHANGED <<commits, checkpoints, crcs>>

(* get_domain_metadatas_internal, get_file_stats, get_in_commit_timestamp:  *)
(* the checksum is loaded if it is of the version of the snapshot.          *)
ReadThroughCrc ==
    /\ snapshot # None
    /\ crc_version(snapshot.lazy) = snapshot.version
    /\ \E readable \in BOOLEAN :
        snapshot' = [snapshot EXCEPT !.lazy = get_or_load(@, readable)]
    /\ UNCHANGED <<commits, checkpoints, crcs>>

(* Never overwrites a file, and never writes statistics it is not sure of.  *)
write_checksum ==
    /\ snapshot # None
    /\ snapshot.latest_crc_file # snapshot.version
    /\ LET v   == snapshot.version
           crc == get_if_loaded_at_version(snapshot.lazy, v)
       IN  /\ crc # None
           /\ crc.validity = "Valid"
           /\ v \notin DOMAIN crcs
           /\ crcs' = [u \in DOMAIN crcs \cup {v} |-> IF u = v THEN crc ELSE crcs[u]]
    /\ UNCHANGED <<commits, checkpoints, snapshot>>

(* Other writers: any commit, a true checksum of any version, with or       *)
(* without the domains, and a checkpoint of any version.                            *)
ForeignCommit ==
    /\ Latest < MaxVersion
    /\ \E content \in Changes :
        commits' = Append(commits, IF commits = <<>> THEN Created(content) ELSE content)
    /\ UNCHANGED <<checkpoints, crcs, snapshot>>

ForeignChecksum ==
    /\ \E v \in (0 .. Latest) \ DOMAIN crcs, domains \in Tracking :
        LET crc == [TrueCrc(v) EXCEPT !.domain = IF domains THEN @ ELSE NotTracked]
        IN  crcs' = [u \in DOMAIN crcs \cup {v} |-> IF u = v THEN crc ELSE crcs[u]]
    /\ UNCHANGED <<commits, checkpoints, snapshot>>

ForeignCheckpoint ==
    /\ \E v \in (0 .. Latest) \ checkpoints : checkpoints' = checkpoints \cup {v}
    /\ UNCHANGED <<commits, crcs, snapshot>>

Next ==
    \/ CreateTable \/ Commit \/ LoadSnapshot \/ UpdateSnapshot
    \/ ReadThroughCrc \/ write_checksum
    \/ ForeignCommit \/ ForeignChecksum \/ ForeignCheckpoint

Spec == Init /\ [][Next]_vars

----------------------------------------------------------------------------
(* A checksum says of its version what a full replay of the log would.      *)
Describes(crc, v) ==
    /\ \A slot \in Slots : crc[slot] = LastWrite(slot, 0, v)
    /\ crc.domain \in {DomainAt(v), NotTracked}
    /\ crc.validity = "Valid" => crc.num_files = NumFiles(v)

(* Every checksum file, and the checksum a snapshot holds in memory, is     *)
(* true of its version, however long the chain of post-commit snapshots     *)
(* whose deltas it was computed from (Crc::apply), whoever committed        *)
(* between them, and whatever was loaded when.                              *)
CrcFaithful ==
    /\ \A v \in DOMAIN crcs : Describes(crcs[v], v)
    /\ snapshot # None /\ snapshot.lazy.cached # None =>
        Describes(snapshot.lazy.cached, crc_version(snapshot.lazy))

(* What the accessors of a snapshot answer from a checksum in memory is     *)
(* what its own version says: a checksum carried over from an earlier       *)
(* version is not taken for it (get_or_load_if_at_version).                 *)
AnswersAreOfTheVersion ==
    snapshot # None =>
        LET crc == get_if_loaded_at_version(snapshot.lazy, snapshot.version)
        IN  crc # None =>
                /\ crc.domain \in {DomainAt(snapshot.version), NotTracked}
                /\ crc.validity = "Valid" => crc.num_files = NumFiles(snapshot.version)

(* A snapshot has the protocol and the metadata that were written last at   *)
(* or before its version: read_protocol_metadata_opt "Read[s] the latest    *)
(* Protocol and Metadata from this log segment, using CRC when available".  *)
(* So it has, whichever of checksum, commits and checkpoint they were read  *)
(* from, whether or not the checksum could be read, and through any number  *)
(* of commits and updates in place, unless an update took a checksum that   *)
(* is older than the snapshot it updated.                                   *)
ConfigFaithfulUnlessBehind ==
    snapshot # None /\ ~snapshot.behind =>
        \A slot \in Slots : snapshot.pm[slot] = LastWrite(slot, 0, snapshot.version)

=============================================================================
