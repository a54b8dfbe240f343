----------------------------- MODULE LogListing -----------------------------
(***************************************************************************)
(* LogSegmentFiles::list and LogSegment::try_new: from the files in        *)
(* _delta_log, and the commits a catalog adds to them, to the files that   *)
(* make up one version of the table.                                       *)
(*                                                                         *)
(* The storage is a record: commits (version -> id of the commit file),    *)
(* single (versions with a checkpoint in one file), parts (triples of      *)
(* version, part and number of parts), crcs (versions) and compacted       *)
(* (pairs <<lo, hi>>).  A tail is a sequence of commit entries.            *)
(***************************************************************************)
EXTENDS RowVisitors

NoVersion == -1

CommitEntry(version, id, staged) == [version |-> version, id |-> id, staged |-> staged]

Newest(u, v) == IF u >= v THEN u ELSE v

(* Seeded fault: take the last part for the whole.                          *)
CompleteCheckpoints_LastPart(storage, v) ==
    {1 : x \in {v} \cap storage.single}
      \cup {p[3] : p \in {q \in storage.parts : q[1] = v /\ q[2] = q[3]}}

(* group_checkpoint_parts: the checkpoints of version v that have all their *)
(* parts, by number of parts.  Any of them may be taken.                    *)
CompleteCheckpoints(storage, v) ==
    {1 : x \in {v} \cap storage.single}
      \cup {n \in {p[3] : p \in storage.parts} : \A i \in 1..n : <<v, i, n>> \in storage.parts}

----------------------------------------------------------------------------
(* ListingAccumulator.                                                      *)

NothingListed ==
    [group |-> NoVersion, new_checkpoint |-> {}, checkpoint |-> NoVersion, parts |-> {},
     commits |-> <<>>, compacted |-> {}, crc |-> NoVersion, latest_commit |-> NoVersion,
     max_published |-> NoVersion]

(* A complete checkpoint replaces what was listed before it, except for the *)
(* commit of its own version.                                               *)
flush_checkpoint_group(acc) ==
    IF acc.new_checkpoint = {} THEN acc
    ELSE LET n == Len(acc.commits)
             own == n > 0 /\ acc.commits[n].version = acc.group
         IN [acc EXCEPT !.new_checkpoint = {},
                        !.checkpoint = acc.group,
                        !.parts = acc.new_checkpoint,
                        !.latest_commit = IF own THEN acc.group ELSE NoVersion,
                        !.commits = <<>>,
                        !.compacted = {},
                        !.crc = IF @ < acc.group THEN NoVersion ELSE @]

maybe_flush_and_advance(acc, v) ==
    IF acc.group = v THEN acc ELSE [flush_checkpoint_group(acc) EXCEPT !.group = v]

(* The files of one version in the storage, without its commit where the    *)
(* tail is authoritative.                                                   *)
ProcessVersion(acc, storage, v, tailStart, end) ==
    LET published == v \in DOMAIN storage.commits
        listed == published /\ v < tailStart
        compacted == {c \in storage.compacted : c[1] = v}
        complete == CompleteCheckpoints(storage, v)
        others == compacted # {} \/ complete # {} \/ v \in storage.crcs
                    \/ \E p \in storage.parts : p[1] = v
        a == IF listed \/ others THEN maybe_flush_and_advance(acc, v) ELSE acc
    IN [a EXCEPT
          !.max_published = IF published THEN Newest(@, v) ELSE @,
          !.commits = IF listed THEN Append(@, CommitEntry(v, storage.commits[v], FALSE)) ELSE @,
          !.compacted = @ \cup {c \in compacted : c[2] <= end},
          !.new_checkpoint = IF others THEN complete ELSE @,
          !.crc = IF v \in storage.crcs THEN v ELSE @]

ProcessTail(acc, entry) ==
    LET a == maybe_flush_and_advance(acc, entry.version)
    IN [a EXCEPT !.max_published = IF entry.staged THEN @ ELSE Newest(@, entry.version),
                 !.commits = Append(@, entry)]

TailStart(tail, end) == IF tail = <<>> THEN end + 1 ELSE tail[1].version

(* LogSegmentFiles::list, phase 1, over the storage.                        *)
ListStorage(storage, tailStart, start, end) ==
    LET upTo[v \in (start - 1)..end] ==
            IF v < start THEN NothingListed
            ELSE ProcessVersion(upTo[v - 1], storage, v, tailStart, end)
    IN upTo[end]

(* Phase 2, over the tail.                                                  *)
ListTail(acc, entries) ==
    LET upTo[i \in 0..Len(entries)] ==
            IF i = 0 THEN acc ELSE ProcessTail(upTo[i - 1], entries[i])
    IN upTo[Len(entries)]

List(storage, tail, start, end) ==
    LET entries == Only(tail, {e \in Range(tail) : start <= e.version /\ e.version <= end})
        listed == flush_checkpoint_group(
                    ListTail(ListStorage(storage, TailStart(tail, end), start, end), entries))
        n == Len(listed.commits)
    IN [listed EXCEPT !.latest_commit = IF n > 0 THEN listed.commits[n].version ELSE @]

----------------------------------------------------------------------------
(* LogSegment.                                                              *)

NoSegment == [ok |-> FALSE]

Contiguous(commits) ==
    \A i \in 1..(Len(commits) - 1) : commits[i].version + 1 = commits[i + 1].version

(* Seeded fault: keep the commits a late tail adds below the checkpoint.     *)
Retained_All(listed) == listed.commits

Retained(listed) ==
    Only(listed.commits, {e \in Range(listed.commits) : listed.checkpoint < e.version})

(* LogSegment::try_new with a requested end version.                        *)
try_new(listed, end) ==
    LET commits == Retained(listed)
        effective == IF commits # <<>> THEN commits[Len(commits)].version ELSE listed.checkpoint
    IN IF /\ Contiguous(listed.commits)
          /\ (listed.checkpoint # NoVersion /\ commits # <<>>)
               => listed.checkpoint + 1 = commits[1].version
          /\ effective = end /\ effective # NoVersion
       THEN [ok |-> TRUE, version |-> end, checkpoint |-> listed.checkpoint,
             commits |-> commits, compacted |-> listed.compacted, crc |-> listed.crc,
             latest_commit |-> listed.latest_commit, max_published |-> listed.max_published]
       ELSE NoSegment

(* list_with_checkpoint_hint: the hint must lead to a checkpoint, and to    *)
(* one with as many parts as it says if it is of the same version.          *)
HintMisleads(listed, hint) ==
    \/ listed.checkpoint = NoVersion
    \/ listed.checkpoint = hint.version /\ \E n \in listed.parts : n # hint.parts

(* LogSegment::for_snapshot_impl for version end.  hint is a sequence of at *)
(* most one hint.                                                           *)
for_snapshot(storage, tail, hint, end) ==
    IF hint # <<>> /\ hint[1].version <= end
    THEN LET listed == List(storage, tail, hint[1].version, end)
         IN IF HintMisleads(listed, hint[1]) THEN NoSegment ELSE try_new(listed, end)
    ELSE try_new(List(storage, tail, 0, end), end)

(* LogSegment::get_unpublished_catalog_commits.                             *)
get_unpublished_catalog_commits(segment) ==
    Only(segment.commits,
         {e \in Range(segment.commits) : e.staged /\ e.version > segment.max_published})

(* LogSegment::new_with_commit_appended and new_as_published.               *)
new_with_commit_appended(segment, entry) ==
    [segment EXCEPT !.version = entry.version,
                    !.commits = Append(@, entry),
                    !.latest_commit = entry.version,
                    !.max_published = IF entry.staged THEN @ ELSE entry.version]

new_as_published(segment) == [segment EXCEPT !.max_published = segment.version]
=============================================================================
