------------------------------ MODULE Catalog ------------------------------
(***************************************************************************)
(* A catalog-managed table: clients that load snapshots, commit, publish   *)
(* and checkpoint through the Unity Catalog crates, the catalog that       *)
(* ratifies commits, and the transport between them, which delays, repeats *)
(* and loses requests and loses answers.  Version 0 is written when the    *)
(* table is created.  Another engine may write checkpoints in two parts.   *)
(***************************************************************************)
EXTENDS LogListing, FiniteSets

CONSTANTS Clients, MaxVersion, MaxAttempts, MaxUnpublished, MaxRetries,
          CheckpointVersions, ForeignVersions

ASSUME CatalogAssumption ==
    /\ MaxVersion \in Nat /\ MaxAttempts \in Nat /\ MaxRetries \in Nat
    /\ MaxUnpublished \in Nat \ {0}
    /\ CheckpointVersions \subseteq 0..MaxVersion
    /\ ForeignVersions \subseteq 0..MaxVersion

VARIABLES
    storage,          \* _delta_log, as LogListing describes it
    last_checkpoint,  \* the hint file: a sequence of at most one hint
    catalog,          \* the catalog's TableData for the table
    ratified,         \* history: version -> id, as the catalog ratified them
    requests,         \* commit requests on their way to the catalog
    client,           \* what each client is doing
    outcome           \* what the caller of the i-th commit was told

vars == <<storage, last_checkpoint, catalog, ratified, requests, client, outcome>>

Idle == [pc |-> "idle"]
Ready(segment) == [pc |-> "ready", segment |-> segment]

Set(c, state) == client' = [client EXCEPT ![c] = state]

Init ==
    /\ storage = [commits |-> [v \in {0} |-> 0], single |-> {}, parts |-> {},
                  crcs |-> {}, compacted |-> {}]
    /\ last_checkpoint = <<>>
    /\ catalog = [max_ratified_version |-> 0, catalog_commits |-> <<>>]
    /\ ratified = [v \in {0} |-> 0]
    /\ requests = {}
    /\ client = [c \in Clients |-> Idle]
    /\ outcome = <<>>

----------------------------------------------------------------------------
(* load_snapshot_inner: ask the catalog, then list the log.                 *)

(* TableData::get_commits; the latest version is the one asked for when     *)
(* none is.                                                                 *)
GetCommits(c) ==
    /\ client[c].pc = "idle"
    /\ \E v \in 0..catalog.max_ratified_version :
         Set(c, [pc |-> "listing", version |-> v,
                 tail |-> Only(catalog.catalog_commits,
                               {e \in Range(catalog.catalog_commits) : e.version <= v})])
    /\ UNCHANGED <<storage, last_checkpoint, catalog, ratified, requests, outcome>>

Load(c) == for_snapshot(storage, client[c].tail, last_checkpoint, client[c].version)

BuildSnapshot(c) ==
    /\ client[c].pc = "listing"
    /\ LET segment == Load(c) IN Set(c, IF segment.ok THEN Ready(segment) ELSE Idle)
    /\ UNCHANGED <<storage, last_checkpoint, catalog, ratified, requests, outcome>>

----------------------------------------------------------------------------
(* UCCommitter::commit: write a staged commit, then ask for ratification.   *)

Request(c, s) ==
    [client |-> c, retry |-> s.retry, id |-> s.id, version |-> s.segment.version + 1,
     latest_backfilled_version |-> s.segment.max_published]

StageCommit(c) ==
    /\ client[c].pc = "ready"
    /\ Len(outcome) < MaxAttempts
    /\ client[c].segment.version < MaxVersion
    /\ LET id == Len(outcome) + 1
           posting == [pc |-> "posting", segment |-> client[c].segment, id |-> id, retry |-> 0]
       IN /\ outcome' = Append(outcome, "unknown")
          /\ requests' = requests \cup {Request(c, posting)}
          /\ Set(c, posting)
    /\ UNCHANGED <<storage, last_checkpoint, catalog, ratified>>

(* Seeded fault: forget the commits published so far before checking.       *)
cleanup_published_commits_Inclusive(commits, max_published_version) ==
    Only(commits, {e \in Range(commits) : max_published_version + 1 < e.version})

cleanup_published_commits(commits, max_published_version) ==
    Only(commits, {e \in Range(commits) : max_published_version < e.version})

(* TableData::commit accepts the request.                                   *)
Accepts(r) ==
    /\ r.version = catalog.max_ratified_version + 1
    /\ Len(catalog.catalog_commits) < MaxUnpublished

Ratify(r) ==
    IF Accepts(r)
    THEN /\ catalog' =
              [max_ratified_version |-> catalog.max_ratified_version + 1,
               catalog_commits |->
                 Append(cleanup_published_commits(catalog.catalog_commits,
                                                  r.latest_backfilled_version),
                        CommitEntry(r.version, r.id, TRUE))]
         /\ ratified' = [v \in DOMAIN ratified \cup {r.version} |->
                           IF v = r.version THEN r.id ELSE ratified[v]]
    ELSE UNCHANGED <<catalog, ratified>>

Waits(c, r) == client[c].pc = "posting" /\ client[c].id = r.id /\ client[c].retry = r.retry

(* Seeded fault: an answer of any kind means success.                       *)
Answered_AlwaysOk(r) ==
    LET c == r.client IN
    /\ outcome' = [outcome EXCEPT ![r.id] = "committed"]
    /\ Set(c, Ready(new_with_commit_appended(client[c].segment,
                                             CommitEntry(r.version, r.id, TRUE))))

(* The answer to the request the client waits for: commit returns.          *)
Answered(r) ==
    LET c == r.client IN
    IF Accepts(r)
    THEN /\ outcome' = [outcome EXCEPT ![r.id] = "committed"]
         /\ Set(c, Ready(new_with_commit_appended(client[c].segment,
                                                  CommitEntry(r.version, r.id, TRUE))))
    ELSE /\ outcome' = [outcome EXCEPT ![r.id] = IF r.retry = 0 THEN "rejected" ELSE "unknown"]
         /\ Set(c, Idle)

(* The catalog handles a request, which may be late or a repetition; its    *)
(* answer reaches the client that still waits for it, or is lost.  Requests *)
(* for versions that are taken and that nobody waits for, whose handling    *)
(* would change nothing, are forgotten.                                     *)
HandleRequest(r) ==
    /\ Ratify(r)
    /\ requests' = {q \in requests \ {r} : catalog'.max_ratified_version < q.version
                                               \/ Waits(q.client, q)}
    /\ \/ Waits(r.client, r) /\ Answered(r)
       \/ UNCHANGED <<client, outcome>>
    /\ UNCHANGED <<storage, last_checkpoint>>

(* execute_with_retry: no answer, or a server error, ends this try.         *)
RequestFails(c) ==
    /\ client[c].pc = "posting"
    /\ IF client[c].retry < MaxRetries
       THEN LET again == [client[c] EXCEPT !.retry = @ + 1]
            IN /\ requests' = requests \cup {Request(c, again)}
               /\ Set(c, again)
       ELSE /\ Set(c, Idle)
            /\ UNCHANGED requests
    /\ UNCHANGED <<storage, last_checkpoint, catalog, ratified, outcome>>

----------------------------------------------------------------------------
(* Snapshot::publish and UCCommitter::publish.                              *)

(* PublishMetadata::try_new and the checks of Snapshot::publish.            *)
Publishable(segment, commits) ==
    /\ commits # <<>>
    /\ Contiguous(commits)
    /\ commits[Len(commits)].version = segment.version

StartPublish(c) ==
    /\ client[c].pc = "ready"
    /\ LET segment == client[c].segment
           commits == get_unpublished_catalog_commits(segment)
       IN /\ Publishable(segment, commits)
          /\ Set(c, [pc |-> "publishing", segment |-> segment, commits |-> commits])
    /\ UNCHANGED <<storage, last_checkpoint, catalog, ratified, requests, outcome>>

(* Seeded fault: publish the newest commit first.                           *)
NextToPublish_Last(commits) == commits[Len(commits)]

NextToPublish(commits) == commits[1]

(* copy_atomic of one commit: a file that exists already is left alone.     *)
PublishOne(c) ==
    /\ client[c].pc = "publishing"
    /\ LET e == NextToPublish(client[c].commits)
           left == Only(client[c].commits, Range(client[c].commits) \ {e})
       IN /\ storage' = [storage EXCEPT !.commits =
                           IF e.version \in DOMAIN @ THEN @
                           ELSE [v \in DOMAIN @ \cup {e.version} |->
                                   IF v = e.version THEN e.id ELSE @[v]]]
          /\ Set(c, IF left = <<>> THEN Ready(new_as_published(client[c].segment))
                    ELSE [client[c] EXCEPT !.commits = left])
    /\ UNCHANGED <<last_checkpoint, catalog, ratified, requests, outcome>>

----------------------------------------------------------------------------
(* Snapshot::checkpoint: the file, then the hint.                           *)

(* LogSegment::validate_published.                                          *)
validate_published(segment) == segment.max_published = segment.version

WriteCheckpoint(c) ==
    /\ client[c].pc = "ready"
    /\ client[c].segment.version \in CheckpointVersions
    /\ validate_published(client[c].segment)
    /\ storage' = [storage EXCEPT !.single = @ \cup {client[c].segment.version}]
    /\ Set(c, [pc |-> "finalizing", segment |-> client[c].segment])
    /\ UNCHANGED <<last_checkpoint, catalog, ratified, requests, outcome>>

(* CheckpointWriter::finalize.                                              *)
WriteHint(c) ==
    /\ client[c].pc = "finalizing"
    /\ last_checkpoint' = <<[version |-> client[c].segment.version, parts |-> 1]>>
    /\ Set(c, Ready(client[c].segment))
    /\ UNCHANGED <<storage, catalog, ratified, requests, outcome>>

(* Another engine writes the parts of a checkpoint of a published version,  *)
(* here the last one first, and the hint with the part that completes it.   *)
ForeignCheckpoint(v) ==
    /\ v \in DOMAIN storage.commits
    /\ \E i \in 1..2 :
         /\ i = 1 <=> <<v, 2, 2>> \in storage.parts
         /\ <<v, i, 2>> \notin storage.parts
         /\ storage' = [storage EXCEPT !.parts = @ \cup {<<v, i, 2>>}]
         /\ last_checkpoint' = IF i = 1 THEN <<[version |-> v, parts |-> 2]>> ELSE last_checkpoint
    /\ UNCHANGED <<catalog, ratified, requests, client, outcome>>

(* A client drops its snapshot, fails between two copies, or crashes.       *)
Abandon(c) ==
    /\ client[c].pc # "idle"
    /\ Set(c, Idle)
    /\ UNCHANGED <<storage, last_checkpoint, catalog, ratified, requests, outcome>>

----------------------------------------------------------------------------

Next ==
    \/ \E c \in Clients :
         \/ GetCommits(c)
         \/ BuildSnapshot(c)
         \/ StageCommit(c)
         \/ RequestFails(c)
         \/ StartPublish(c)
         \/ PublishOne(c)
         \/ WriteCheckpoint(c)
         \/ WriteHint(c)
         \/ Abandon(c)
    \/ \E r \in requests : HandleRequest(r)
    \/ \E v \in ForeignVersions : ForeignCheckpoint(v)

Spec == Init /\ [][Next]_vars

----------------------------------------------------------------------------
(* Properties.                                                              *)

Segments == {client[c].segment : c \in {d \in Clients : client[d].pc \notin {"idle", "listing"}}}

(* Whatever is published, cleaned up, repeated or lost, the commit ratified *)
(* as version v can be read: the catalog serves it, or it is published.     *)
(* TableData::commit drops the commits the committer reports as published   *)
(* from a snapshot that may be long out of date.                            *)
NothingRatifiedIsLost ==
    \A v \in DOMAIN ratified :
      \/ v \in DOMAIN storage.commits /\ storage.commits[v] = ratified[v]
      \/ \E i \in DOMAIN catalog.catalog_commits :
           catalog.catalog_commits[i] = CommitEntry(v, ratified[v], TRUE)

(* Committer::publish: V-1 is published before V, by clients that publish   *)
(* from different snapshots and may stop between two copies; a published    *)
(* commit is the one the catalog ratified for its version; and checkpoints  *)
(* cover published versions only.                                           *)
PublishedInOrder ==
    /\ \A v \in DOMAIN storage.commits : \A u \in 0..v :
         u \in DOMAIN storage.commits /\ u \in DOMAIN ratified
           /\ storage.commits[u] = ratified[u]
    /\ storage.single \cup {p[1] : p \in storage.parts} \subseteq DOMAIN storage.commits

(* A snapshot of a catalog-managed table is the table as ratified: its      *)
(* commits run from its checkpoint to its version with the ratified ids,    *)
(* its latest commit file is that of its version, it counts as published    *)
(* nothing that is not, and its checkpoint has all its parts.  Commits,     *)
(* publications and checkpoints of others happen between the answer of the  *)
(* catalog and the listing.                                                 *)
SnapshotIsHistory ==
    \A s \in Segments :
      /\ s.version \in DOMAIN ratified
      /\ Len(s.commits) = s.version - s.checkpoint
      /\ \A i \in DOMAIN s.commits :
           LET e == s.commits[i]
           IN e.version = s.checkpoint + i /\ e.id = ratified[e.version]
      /\ s.latest_commit = s.version
      /\ s.max_published \in DOMAIN storage.commits
      /\ \/ s.checkpoint \in storage.single \cup {NoVersion}
         \/ {<<s.checkpoint, i, 2>> : i \in 1..2} \subseteq storage.parts

(* The hint and the checkpoints leave no doubt about the format: no version *)
(* has both a checkpoint in one file and a complete one in parts.           *)
OneFormat == \A v \in storage.single : CompleteCheckpoints(storage, v) = {1}

(* A client that has its answer from the catalog builds the snapshot,       *)
(* however much later it lists the log: between the two, others commit,     *)
(* publish, checkpoint and move the hint.  And Snapshot::publish never      *)
(* meets commits it cannot publish: those of a snapshot end at its version, *)
(* and start right after the published ones.  Building is required to       *)
(* succeed while no version has checkpoints of two formats: with both,      *)
(* list_with_checkpoint_hint fails when the hint counts the parts of the    *)
(* one that the listing does not choose.                                    *)
LoadAndPublishSucceed ==
    /\ OneFormat => \A c \in Clients : client[c].pc = "listing" => Load(c).ok
    /\ \A s \in Segments :
         LET commits == get_unpublished_catalog_commits(s)
         IN /\ commits = <<>> => s.max_published = s.version
            /\ commits # <<>> => /\ Publishable(s, commits)
                                 /\ commits[1].version = s.max_published + 1

(* What commit returns is true whatever the transport did: an acknowledged  *)
(* commit was ratified, a commit rejected at the first try never is, and no *)
(* commit is ratified twice although execute_with_retry repeats requests.   *)
ReportsAreTrue ==
    /\ \A i \in DOMAIN outcome :
         /\ outcome[i] = "committed" => \E v \in DOMAIN ratified : ratified[v] = i
         /\ outcome[i] = "rejected" => \A v \in DOMAIN ratified : ratified[v] # i
    /\ \A u, v \in DOMAIN ratified : ratified[u] = ratified[v] => u = v
=============================================================================
