---------------------------- MODULE Catalog_proof ----------------------------
(***************************************************************************)
(* Proofs about Catalog, for every number of clients, versions, attempts,  *)
(* retries and unpublished commits.                                        *)
(*                                                                         *)
(* Every sequence of commit entries in the system is a run: consecutive    *)
(* versions with their ratified ids, staged from some version on.  The     *)
(* inductive invariant says which run each of them is.                     *)
(***************************************************************************)
EXTENDS Catalog, LogListing_proof

----------------------------------------------------------------------------
(* The inductive invariant.                                                 *)

(* Ratified are the versions up to n, published are those up to p, with     *)
(* their ratified ids; the checkpoints are of published versions.           *)
IsStore(S, r, p, n) == n \in Nat /\ DOMAIN r = 0 .. n /\ p \in 0 .. n /\ Stored(S, r, p)

StorageOK(S, r) == \E p, n : IsStore(S, r, p, n)

(* The catalog keeps the commits after a published version.                 *)
IsCatalog(cat, r, S, a, n) ==
    /\ cat = [max_ratified_version |-> n, catalog_commits |-> Run(r, a, n, a)]
    /\ n \in Nat /\ DOMAIN r = 0 .. n /\ a \in DOMAIN S.commits

CatalogOK(cat, r, S) == \E a, n : IsCatalog(cat, r, S, a, n)

Listing(v, tail) == [pc |-> "listing", version |-> v, tail |-> tail]
Posting(s, id, retry) == [pc |-> "posting", segment |-> s, id |-> id, retry |-> retry]
Publishing(s, commits) == [pc |-> "publishing", segment |-> s, commits |-> commits]
Finalizing(s) == [pc |-> "finalizing", segment |-> s]

(* A client has its answer: the commits after a version that was published. *)
Lists(k, r, S, v, a) ==
    /\ v \in DOMAIN r /\ a \in DOMAIN S.commits /\ a <= v
    /\ k = Listing(v, Run(r, a, v, a))

(* A client publishes the commits after one that is published.              *)
Publishes(k, r, S, s, b) ==
    /\ SegmentOK(s, r, S) /\ b \in DOMAIN S.commits /\ b < s.version
    /\ k = Publishing(s, Run(r, b, s.version, b))

Posts(k, r, S, n, s, id, retry) ==
    /\ SegmentOK(s, r, S) /\ id \in 1 .. n /\ retry \in Nat
    /\ k = Posting(s, id, retry)

Finalizes(k, r, S, s) == SegmentOK(s, r, S) /\ s.version \in S.single /\ k = Finalizing(s)

IsListing(k, r, S) == \E v, a : Lists(k, r, S, v, a)
IsReady(k, r, S) == \E s : SegmentOK(s, r, S) /\ k = Ready(s)
IsPosting(k, r, S, n) == \E s, id, retry : Posts(k, r, S, n, s, id, retry)
IsPublishing(k, r, S) == \E s, b : Publishes(k, r, S, s, b)
IsFinalizing(k, r, S) == \E s : Finalizes(k, r, S, s)

(* What a client knows is a part of the history.                            *)
ClientOK(k, r, S, n) ==
    \/ k = Idle
    \/ IsListing(k, r, S)
    \/ IsReady(k, r, S)
    \/ IsPosting(k, r, S, n)
    \/ IsPublishing(k, r, S)
    \/ IsFinalizing(k, r, S)

ClientsOK(K, r, S, n) ==
    /\ K = [c \in Clients |-> K[c]]
    /\ \A c \in Clients : ClientOK(K[c], r, S, n)

RequestSet(S, n) ==
    [client : Clients, retry : Nat, id : 1 .. n, version : Nat \ {0},
     latest_backfilled_version : DOMAIN S.commits]

(* Requests of one attempt are for one version and differ in their retry.   *)
OneVersion(Q) ==
    \A q, t \in Q : q.id = t.id => q.version = t.version /\ (q.retry = t.retry => q = t)

(* The requests of an attempt that is under way are its client's, for the   *)
(* version after its snapshot; at the first try it cannot be ratified yet   *)
(* if its request is still on its way.                                      *)
Mine(q, K, r, c) ==
    /\ q.client = c /\ q.version = K[c].segment.version + 1 /\ q.retry <= K[c].retry
    /\ K[c].retry = 0 => \A v \in DOMAIN r : r[v] # q.id

PostsOK(Q, K, r) ==
    \A c \in Clients : K[c].pc = "posting" => \A q \in Q : q.id = K[c].id => Mine(q, K, r, c)

OnePoster(K) ==
    \A c, d \in Clients :
      K[c].pc = "posting" /\ K[d].pc = "posting" /\ K[c].id = K[d].id => c = d

(* An attempt is ratified as the version it asks for, if at all.            *)
RatifiedOK(Q, K, r) ==
    \A v \in DOMAIN r :
      /\ \A q \in Q : r[v] = q.id => v = q.version
      /\ \A c \in Clients :
           K[c].pc = "posting" /\ r[v] = K[c].id => v = K[c].segment.version + 1

AttemptsOK(Q, K, r) == OneVersion(Q) /\ PostsOK(Q, K, r) /\ OnePoster(K) /\ RatifiedOK(Q, K, r)

(* Nothing of an attempt that was rejected is under way.                    *)
Over(i, Q, K) ==
    /\ \A q \in Q : q.id # i
    /\ \A c \in Clients : K[c].pc = "posting" => K[c].id # i

Answers == {"unknown", "committed", "rejected"}

ToldTruth(o, r) ==
    \A i \in DOMAIN o :
      /\ o[i] = "committed" => \E v \in DOMAIN r : r[v] = i
      /\ o[i] = "rejected" => \A v \in DOMAIN r : r[v] # i

OnceEach(r) == \A u, v \in DOMAIN r : r[u] = r[v] => u = v

OutcomesOK(o, Q, K, r) ==
    /\ o \in Seq(Answers)
    /\ \A v \in DOMAIN r : r[v] \in 0 .. Len(o)
    /\ \A i \in DOMAIN o : o[i] = "rejected" => Over(i, Q, K)
    /\ ToldTruth(o, r)
    /\ OnceEach(r)

IInv ==
    /\ StorageOK(storage, ratified)
    /\ HintOK(last_checkpoint, storage)
    /\ CatalogOK(catalog, ratified, storage)
    /\ ClientsOK(client, ratified, storage, Len(outcome))
    /\ requests \subseteq RequestSet(storage, Len(outcome))
    /\ AttemptsOK(requests, client, ratified)
    /\ OutcomesOK(outcome, requests, client, ratified)

----------------------------------------------------------------------------
(* What is known of a part of the history stays true as history and storage *)
(* grow.                                                                    *)

Grows(S, r, S2, r2) ==
    /\ DOMAIN r \subseteq DOMAIN r2 /\ \A v \in DOMAIN r : r2[v] = r[v]
    /\ DOMAIN S.commits \subseteq DOMAIN S2.commits
    /\ S.single \subseteq S2.single /\ S.parts \subseteq S2.parts

Kept(r, r2, n, lo, hi) ==
    /\ n \in Nat /\ DOMAIN r = 0 .. n /\ \A v \in DOMAIN r : r2[v] = r[v]
    /\ lo \in Int /\ lo >= -1 /\ hi \in DOMAIN r

(* Entries of a history that only grows stay the same.                      *)
LEMMA RunStays ==
    ASSUME NEW r, NEW r2, NEW n, NEW lo, NEW hi, Kept(r, r2, n, lo, hi), NEW a
    PROVE  Run(r2, lo, hi, a) = Run(r, lo, hi, a)
<1>1. lo \in Int /\ hi \in Int /\ \A v \in lo + 1 .. hi : v \in DOMAIN r
  BY DEF Kept
<1>2. \A v \in lo + 1 .. hi : r2[v] = r[v]
  BY <1>1 DEF Kept
<1> QED
  BY <1>1, <1>2, RunAgrees

(* A segment stays one of the history while history and storage grow.       *)
LEMMA SegmentStays ==
    ASSUME NEW S, NEW r, NEW S2, NEW r2, StorageOK(S, r), Grows(S, r, S2, r2),
           NEW s, SegmentOK(s, r, S)
    PROVE  SegmentOK(s, r2, S2)
<1>1. PICK p, n : IsStore(S, r, p, n)
  BY DEF StorageOK
<1>2. n \in Nat /\ DOMAIN r = 0 .. n
  BY <1>1 DEF IsStore
<1>3. PICK v, cp, a, mp : IsSegment(s, r, S, v, cp, a, mp)
  BY DEF SegmentOK
<1>4. v \in DOMAIN r /\ cp \in Int /\ cp >= -1
  BY <1>3 DEF IsSegment, NoVersion
<1>5. \A x \in DOMAIN r : r2[x] = r[x]
  BY DEF Grows
<1>6. Run(r2, cp, v, a) = Run(r, cp, v, a)
  <2>1. Kept(r, r2, n, cp, v)
    BY <1>2, <1>4, <1>5 DEF Kept
  <2> QED
    BY <2>1, RunStays
<1>7. HasCheckpoint(S, cp) => HasCheckpoint(S2, cp)
  BY DEF Grows, HasCheckpoint
<1>8. s = Segment(r2, v, cp, a, mp)
  BY <1>3, <1>6 DEF IsSegment, Segment
<1>9. v \in DOMAIN r2 /\ mp \in DOMAIN S2.commits
  BY <1>3 DEF IsSegment, Grows
<1>10. IsSegment(s, r2, S2, v, cp, a, mp)
  BY <1>3, <1>7, <1>8, <1>9 DEF IsSegment
<1> QED
  BY <1>10 DEF SegmentOK

(* The version of a segment is one of the history.                          *)
LEMMA SegmentVersion ==
    ASSUME NEW s, NEW r, NEW S, SegmentOK(s, r, S)
    PROVE  s.version \in DOMAIN r /\ s.version \in Nat
BY DEF SegmentOK, IsSegment, Segment

(* What a client knows stays true while history and storage grow.           *)
LEMMA ClientStays ==
    ASSUME NEW S, NEW r, NEW S2, NEW r2, StorageOK(S, r), Grows(S, r, S2, r2),
           NEW n \in Nat, NEW n2 \in Nat, n <= n2, NEW k, ClientOK(k, r, S, n)
    PROVE  ClientOK(k, r2, S2, n2)
<1>1. PICK p, m : IsStore(S, r, p, m)
  BY DEF StorageOK
<1>2. m \in Nat /\ DOMAIN r = 0 .. m /\ DOMAIN S.commits \subseteq Nat
  BY <1>1 DEF IsStore, Stored
<1>3. \A x \in DOMAIN r : r2[x] = r[x]
  BY DEF Grows
<1>4. CASE k = Idle
  BY <1>4 DEF ClientOK
<1>5. CASE IsListing(k, r, S)
  <2>1. PICK v, a : Lists(k, r, S, v, a)
    BY <1>5 DEF IsListing
  <2>2. v \in DOMAIN r /\ a \in Int /\ a >= -1
    BY <1>2, <2>1 DEF Lists
  <2>3. Run(r2, a, v, a) = Run(r, a, v, a)
    <3>1. Kept(r, r2, m, a, v)
      BY <1>2, <1>3, <2>2 DEF Kept
    <3> QED
      BY <3>1, RunStays
  <2>4. Lists(k, r2, S2, v, a)
    BY <2>1, <2>3 DEF Lists, Grows
  <2> QED
    BY <2>4 DEF IsListing, ClientOK
<1>6. CASE IsReady(k, r, S)
  <2>1. PICK s : SegmentOK(s, r, S) /\ k = Ready(s)
    BY <1>6 DEF IsReady
  <2>2. SegmentOK(s, r2, S2)
    BY <2>1, SegmentStays
  <2> QED
    BY <2>1, <2>2 DEF IsReady, ClientOK
<1>7. CASE IsPosting(k, r, S, n)
  <2>1. PICK s, id, retry : Posts(k, r, S, n, s, id, retry)
    BY <1>7 DEF IsPosting
  <2>2. SegmentOK(s, r2, S2)
    BY <2>1, SegmentStays DEF Posts
  <2>3. Posts(k, r2, S2, n2, s, id, retry)
    BY <2>1, <2>2 DEF Posts
  <2> QED
    BY <2>3 DEF IsPosting, ClientOK
<1>8. CASE IsPublishing(k, r, S)
  <2>1. PICK s, b : Publishes(k, r, S, s, b)
    BY <1>8 DEF IsPublishing
  <2>2. SegmentOK(s, r, S)
    BY <2>1 DEF Publishes
  <2>3. SegmentOK(s, r2, S2) /\ s.version \in DOMAIN r
    BY <2>2, SegmentStays, SegmentVersion
  <2>4. b \in Int /\ b >= -1
    BY <1>2, <2>1 DEF Publishes
  <2>5. Run(r2, b, s.version, b) = Run(r, b, s.version, b)
    <3>1. Kept(r, r2, m, b, s.version)
      BY <1>2, <1>3, <2>3, <2>4 DEF Kept
    <3> QED
      BY <3>1, RunStays
  <2>6. Publishes(k, r2, S2, s, b)
    BY <2>1, <2>3, <2>5 DEF Publishes, Grows
  <2> QED
    BY <2>6 DEF IsPublishing, ClientOK
<1>9. CASE IsFinalizing(k, r, S)
  <2>1. PICK s : Finalizes(k, r, S, s)
    BY <1>9 DEF IsFinalizing
  <2>2. SegmentOK(s, r2, S2)
    BY <2>1, SegmentStays DEF Finalizes
  <2>3. Finalizes(k, r2, S2, s)
    BY <2>1, <2>2 DEF Finalizes, Grows
  <2> QED
    BY <2>3 DEF IsFinalizing, ClientOK
<1> QED
  BY <1>4, <1>5, <1>6, <1>7, <1>8, <1>9 DEF ClientOK

(* A client is in the state its program counter says.                       *)
Shaped(k, r, S, n) ==
    /\ k.pc = "listing" => IsListing(k, r, S)
    /\ k.pc = "ready" => IsReady(k, r, S)
    /\ k.pc = "posting" => IsPosting(k, r, S, n)
    /\ k.pc = "publishing" => IsPublishing(k, r, S)
    /\ k.pc = "finalizing" => IsFinalizing(k, r, S)
    /\ k.pc \in {"idle", "listing", "ready", "posting", "publishing", "finalizing"}

(* The fields that a client has at each of its steps.                       *)
LEMMA ClientShape ==
    ASSUME NEW k, NEW r, NEW S, NEW n, ClientOK(k, r, S, n)
    PROVE  Shaped(k, r, S, n)
<1>1. k = Idle => k.pc = "idle"
  BY DEF Idle
<1>2. IsListing(k, r, S) => k.pc = "listing"
  BY DEF IsListing, Lists, Listing
<1>3. IsReady(k, r, S) => k.pc = "ready"
  BY DEF IsReady, Ready
<1>4. IsPosting(k, r, S, n) => k.pc = "posting"
  BY DEF IsPosting, Posts, Posting
<1>5. IsPublishing(k, r, S) => k.pc = "publishing"
  BY DEF IsPublishing, Publishes, Publishing
<1>6. IsFinalizing(k, r, S) => k.pc = "finalizing"
  BY DEF IsFinalizing, Finalizes, Finalizing
<1> QED
  BY <1>1, <1>2, <1>3, <1>4, <1>5, <1>6 DEF ClientOK, Shaped

----------------------------------------------------------------------------
(* Runs of staged commits.                                                  *)

(* Which versions are staged matters only from the first one on.            *)
LEMMA RunStaged ==
    ASSUME NEW r, NEW lo \in Int, NEW hi \in Int, NEW a \in Int, NEW b \in Int,
           a <= lo, b <= lo
    PROVE  Run(r, lo, hi, a) = Run(r, lo, hi, b)
<1>1. ASSUME NEW i \in 1 .. hi - lo
      PROVE  CommitEntry(lo + i, r[lo + i], lo + i > a) = CommitEntry(lo + i, r[lo + i], lo + i > b)
  <2>1. (lo + i > a) = TRUE /\ (lo + i > b) = TRUE
    OBVIOUS
  <2> QED
    BY <2>1
<1> QED
  BY <1>1 DEF Run

(* LogSegment::get_unpublished_catalog_commits: the commits after the last  *)
(* published one, all of them staged.                                       *)
Unpublished(s, r, S, mp) ==
    /\ s.max_published = mp /\ mp \in DOMAIN S.commits /\ mp \in Nat /\ mp <= s.version
    /\ get_unpublished_catalog_commits(s) = Run(r, mp, s.version, mp)

(* The unpublished commits of a snapshot are the end of its history after   *)
(* the published versions.                                                  *)
LEMMA UnpublishedIs ==
    ASSUME WellOrdered, NEW s, NEW r, NEW S, SegmentOK(s, r, S)
    PROVE  \E mp : Unpublished(s, r, S, mp)
<1>1. PICK v, cp, a, mp : IsSegment(s, r, S, v, cp, a, mp)
  BY DEF SegmentOK
<1>2. /\ v \in Nat /\ cp \in Int /\ a \in Nat /\ mp \in Nat /\ cp <= mp /\ a <= mp /\ mp <= v
      /\ mp \in DOMAIN S.commits
  BY <1>1 DEF IsSegment
<1>3. PICK run : run = Run(r, cp, v, a)
  OBVIOUS
<1>4. s.commits = run /\ s.version = v /\ s.max_published = mp
  BY <1>1, <1>3 DEF IsSegment, Segment
<1>5. IsRun(run, r, cp, v, a)
  <2>1. cp <= v
    BY <1>2
  <2> QED
    BY <1>2, <1>3, <2>1, RunType
<1>6. PICK set : set = {e \in Range(run) : e.staged /\ e.version > mp}
  BY Zenon
<1>7. mp \in cp .. v /\ v \in mp .. v
  BY <1>2
<1>8. ASSUME NEW x \in cp + 1 .. v
      PROVE  CommitEntry(x, r[x], x > a) \in set <=> mp < x /\ x <= v
  <2>1. x - cp \in 1 .. v - cp /\ cp + (x - cp) = x /\ x <= v
    BY <1>2
  <2>2. run[x - cp] = CommitEntry(x, r[x], x > a)
    BY <1>5, <2>1 DEF IsRun
  <2>3. CommitEntry(x, r[x], x > a) \in Range(run)
    BY <1>5, <2>1, <2>2 DEF IsRun, Range
  <2>4. /\ CommitEntry(x, r[x], x > a).version = x
        /\ CommitEntry(x, r[x], x > a).staged = (x > a)
    BY DEF CommitEntry
  <2>5. x > mp => x > a
    BY <1>2
  <2> QED
    BY Zenon, <1>2, <1>6, <2>1, <2>3, <2>4, <2>5
<1>9. Only(Run(r, cp, v, a), set) = Run(r, mp, v, a)
  <2>1. cp \in Int /\ v \in Int
    BY <1>2
  <2> QED
    BY <1>7, <1>8, <2>1, OnlyRun
<1>10. Run(r, mp, v, a) = Run(r, mp, v, mp)
  <2>1. mp <= mp
    BY <1>2
  <2> QED
    BY <1>2, <2>1, RunStaged
<1>11. get_unpublished_catalog_commits(s) = Run(r, mp, v, mp)
  BY Zenon, <1>3, <1>4, <1>6, <1>9, <1>10 DEF get_unpublished_catalog_commits
<1>12. Unpublished(s, r, S, mp)
  BY <1>2, <1>4, <1>11 DEF Unpublished
<1> QED
  BY <1>12

----------------------------------------------------------------------------
(* What a step of one client leaves true.                                   *)

(* A step of one client leaves the others alone.                            *)
LEMMA OneMoves ==
    ASSUME NEW K, K = [d \in Clients |-> K[d]], NEW c \in Clients, NEW k, NEW K2,
           K2 = [K EXCEPT ![c] = k]
    PROVE  /\ K2 = [d \in Clients |-> K2[d]]
           /\ K2[c] = k
           /\ \A d \in Clients : d # c => K2[d] = K[d]
OBVIOUS

(* When one client moves and the others stay, all are as the invariant      *)
(* says.                                                                    *)
LEMMA ClientsMove ==
    ASSUME NEW S, NEW r, NEW S2, NEW r2, StorageOK(S, r), Grows(S, r, S2, r2),
           NEW n \in Nat, NEW n2 \in Nat, n <= n2, NEW K, ClientsOK(K, r, S, n),
           NEW c \in Clients, NEW k, ClientOK(k, r2, S2, n2), NEW K2, K2 = [K EXCEPT ![c] = k]
    PROVE  ClientsOK(K2, r2, S2, n2)
<1>1. K = [d \in Clients |-> K[d]]
  BY DEF ClientsOK
<1>2. /\ K2 = [d \in Clients |-> K2[d]]
      /\ K2[c] = k
      /\ \A d \in Clients : d # c => K2[d] = K[d]
  BY <1>1, OneMoves
<1>3. ASSUME NEW d \in Clients
      PROVE  ClientOK(K2[d], r2, S2, n2)
  <2>1. CASE d = c
    BY <1>2, <2>1
  <2>2. CASE d # c
    <3>1. ClientOK(K[d], r, S, n)
      BY DEF ClientsOK
    <3>2. ClientOK(K[d], r2, S2, n2)
      BY <3>1, ClientStays
    <3> QED
      BY <1>2, <2>2, <3>2
  <2> QED
    BY <2>1, <2>2
<1> QED
  BY <1>2, <1>3 DEF ClientsOK

(* Nobody starts to post.                                                   *)
Calms(K, K2) == \A d \in Clients : K2[d].pc = "posting" => K2[d] = K[d]

(* Fewer requests and clients that attempt nothing new keep each attempt to *)
(* one version.                                                             *)
LEMMA AttemptsStay ==
    ASSUME NEW Q, NEW Q2, Q2 \subseteq Q, NEW K, NEW K2, Calms(K, K2), NEW r, AttemptsOK(Q, K, r)
    PROVE  AttemptsOK(Q2, K2, r)
<1>1. OneVersion(Q2)
  BY DEF AttemptsOK, OneVersion
<1>2. PostsOK(Q2, K2, r)
  BY DEF AttemptsOK, PostsOK, Mine, Calms
<1>3. OnePoster(K2)
  BY DEF AttemptsOK, OnePoster, Calms
<1>4. RatifiedOK(Q2, K2, r)
  BY DEF AttemptsOK, RatifiedOK, Calms
<1> QED
  BY <1>1, <1>2, <1>3, <1>4 DEF AttemptsOK

(* Fewer requests and clients that attempt nothing new keep the reported    *)
(* outcomes true.                                                           *)
LEMMA OutcomesStay ==
    ASSUME NEW o, NEW Q, NEW Q2, Q2 \subseteq Q, NEW K, NEW K2, Calms(K, K2), NEW r,
           OutcomesOK(o, Q, K, r)
    PROVE  OutcomesOK(o, Q2, K2, r)
<1>1. ASSUME NEW i, Over(i, Q, K)
      PROVE  Over(i, Q2, K2)
  BY <1>1 DEF Over, Calms
<1> QED
  BY <1>1 DEF OutcomesOK

(* Requests under way stay good while history and storage grow.             *)
LEMMA RequestsStay ==
    ASSUME NEW S, NEW r, NEW S2, NEW r2, Grows(S, r, S2, r2), NEW n \in Nat, NEW n2 \in Nat,
           n <= n2, NEW Q, Q \subseteq RequestSet(S, n)
    PROVE  Q \subseteq RequestSet(S2, n2)
<1>1. DOMAIN S.commits \subseteq DOMAIN S2.commits /\ 1 .. n \subseteq 1 .. n2
  BY DEF Grows
<1>2. RequestSet(S, n) \subseteq RequestSet(S2, n2)
  BY <1>1 DEF RequestSet
<1> QED
  BY <1>2

(* A hint keeps naming a checkpoint: none is deleted.                       *)
LEMMA HintStays ==
    ASSUME NEW S, NEW r, NEW S2, NEW r2, Grows(S, r, S2, r2), NEW hint, HintOK(hint, S)
    PROVE  HintOK(hint, S2)
<1>1. CASE hint = <<>>
  BY <1>1 DEF HintOK
<1>2. CASE hint # <<>>
  <2>1. PICK v \in DOMAIN S.commits, n \in 1 .. 2 : HintNames(hint, S, v, n)
    BY <1>2 DEF HintOK
  <2>2. HintNames(hint, S2, v, n) /\ v \in DOMAIN S2.commits
    BY <2>1 DEF HintNames, Grows
  <2> QED
    BY <2>2 DEF HintOK
<1> QED
  BY <1>1, <1>2

(* The commits of the catalog continue the storage also when more is        *)
(* published.                                                               *)
LEMMA CatalogStays ==
    ASSUME NEW S, NEW r, NEW S2, Grows(S, r, S2, r), NEW cat, CatalogOK(cat, r, S)
    PROVE  CatalogOK(cat, r, S2)
<1>1. PICK a, n : IsCatalog(cat, r, S, a, n)
  BY DEF CatalogOK
<1>2. IsCatalog(cat, r, S2, a, n)
  BY <1>1 DEF IsCatalog, Grows
<1> QED
  BY <1>2 DEF CatalogOK

(* A client does something other than posting; the storage may grow.        *)
LEMMA ClientStep ==
    ASSUME IInv, NEW c \in Clients, NEW k, client' = [client EXCEPT ![c] = k], k.pc # "posting",
           ClientOK(k, ratified, storage', Len(outcome)), StorageOK(storage', ratified),
           Grows(storage, ratified, storage', ratified), HintOK(last_checkpoint', storage'),
           UNCHANGED <<catalog, ratified, requests, outcome>>
    PROVE  IInv'
<1>1. Len(outcome) \in Nat /\ Len(outcome) <= Len(outcome)
  BY DEF IInv, OutcomesOK
<1>2. CatalogOK(catalog, ratified, storage')
  BY CatalogStays DEF IInv
<1>3. ClientsOK(client', ratified, storage', Len(outcome))
  BY Zenon, <1>1, ClientsMove DEF IInv
<1>4. requests \subseteq RequestSet(storage', Len(outcome))
  BY <1>1, RequestsStay DEF IInv
<1>5. Calms(client, client')
  <2>1. client = [d \in Clients |-> client[d]]
    BY DEF IInv, ClientsOK
  <2>2. client'[c] = k /\ \A d \in Clients : d # c => client'[d] = client[d]
    BY <2>1, OneMoves
  <2> QED
    BY <2>2 DEF Calms
<1>6. AttemptsOK(requests, client', ratified)
  BY <1>5, AttemptsStay DEF IInv
<1>7. OutcomesOK(outcome, requests, client', ratified)
  BY <1>5, OutcomesStay DEF IInv
<1> QED
  BY Zenon, <1>2, <1>3, <1>4, <1>6, <1>7 DEF IInv

(* The same, and the storage stays as it is.                                *)
LEMMA QuietStep ==
    ASSUME IInv, NEW c \in Clients, NEW k, client' = [client EXCEPT ![c] = k], k.pc # "posting",
           ClientOK(k, ratified, storage, Len(outcome)), HintOK(last_checkpoint', storage),
           UNCHANGED <<storage, catalog, ratified, requests, outcome>>
    PROVE  IInv'
<1>1. Grows(storage, ratified, storage', ratified)
  BY DEF Grows
<1>2. StorageOK(storage', ratified) /\ HintOK(last_checkpoint', storage')
  BY DEF IInv
<1>3. ClientOK(k, ratified, storage', Len(outcome))
  OBVIOUS
<1> QED
  BY Zenon, <1>1, <1>2, <1>3, ClientStep

(* What the invariant says of one client.                                   *)
LEMMA KnownClient ==
    ASSUME IInv, NEW c \in Clients
    PROVE  Shaped(client[c], ratified, storage, Len(outcome))
BY ClientShape DEF IInv, ClientsOK

(* What a client that has its answer from the catalog loads.                *)
LEMMA LoadedIs ==
    ASSUME WellOrdered, IInv, NEW c \in Clients, client[c].pc = "listing"
    PROVE  Loaded(Load(c), ratified, storage)
<1>1. IsListing(client[c], ratified, storage)
  BY KnownClient DEF Shaped
<1>2. PICK v, a : Lists(client[c], ratified, storage, v, a)
  BY <1>1 DEF IsListing
<1>3. PICK p, n : IsStore(storage, ratified, p, n)
  BY DEF IInv, StorageOK
<1>4. client[c].version = v /\ client[c].tail = Run(ratified, a, v, a)
  BY <1>2 DEF Lists, Listing
<1>5. /\ p \in Nat /\ Stored(storage, ratified, p) /\ a \in 0 .. p /\ v \in Nat /\ a <= v
      /\ v \in DOMAIN ratified
  BY <1>2, <1>3 DEF Lists, IsStore, Stored
<1>6. Loadable(storage, ratified, p, a, v, last_checkpoint)
  BY <1>5 DEF Loadable, IInv
<1>7. Loaded(for_snapshot(storage, Run(ratified, a, v, a), last_checkpoint, v), ratified, storage)
  BY <1>6, ForSnapshotLoads
<1> QED
  BY <1>4, <1>7 DEF Load

----------------------------------------------------------------------------
(* One lemma for each action.                                               *)

(* The listing of a storage with other checkpoints.                         *)
LEMMA StoreExcept ==
    ASSUME NEW S, NEW commits, NEW single, NEW parts, NEW new,
           S = [commits |-> commits, single |-> single, parts |-> parts,
                crcs |-> {}, compacted |-> {}]
    PROVE  /\ [S EXCEPT !.single = new] =
                [commits |-> commits, single |-> new, parts |-> parts,
                 crcs |-> {}, compacted |-> {}]
           /\ [S EXCEPT !.parts = new] =
                [commits |-> commits, single |-> single, parts |-> new,
                 crcs |-> {}, compacted |-> {}]
  OBVIOUS

(* A storage that has more checkpoints.                                     *)
LEMMA StorageWithCheckpoints ==
    ASSUME NEW S, NEW r, StorageOK(S, r), NEW single, NEW parts, S.single \subseteq single,
           S.parts \subseteq parts, single \subseteq DOMAIN S.commits,
           \A x \in parts : \E v \in DOMAIN S.commits, i \in 1 .. 2 : x = <<v, i, 2>>,
           NEW S2, S2 = [commits |-> S.commits, single |-> single, parts |-> parts,
                         crcs |-> {}, compacted |-> {}]
    PROVE  StorageOK(S2, r) /\ Grows(S, r, S2, r)
<1>1. PICK p, n : IsStore(S, r, p, n)
  BY DEF StorageOK
<1>2. Stored(S, r, p) /\ S.commits = [v \in 0 .. p |-> r[v]] /\ DOMAIN S.commits = 0 .. p
  BY <1>1 DEF IsStore, Stored
<1>3. S2.commits = S.commits /\ S2.single = single /\ S2.parts = parts
  OBVIOUS
<1>4. Stored(S2, r, p)
  BY <1>2, <1>3 DEF Stored
<1>5. IsStore(S2, r, p, n)
  BY <1>1, <1>4 DEF IsStore
<1>6. Grows(S, r, S2, r)
  BY <1>3 DEF Grows
<1> QED
  BY <1>5, <1>6 DEF StorageOK

(* Publishing the commit after a published one: the published commits stay  *)
(* those up to some version.                                                *)
Copied(S, e) ==
    IF e.version \in DOMAIN S.commits THEN S.commits
    ELSE [v \in DOMAIN S.commits \cup {e.version} |->
            IF v = e.version THEN e.id ELSE S.commits[v]]

WithCopy(S, e) == [S EXCEPT !.commits = Copied(S, e)]

StoreOf(commits, single, parts) ==
    [commits |-> commits, single |-> single, parts |-> parts, crcs |-> {}, compacted |-> {}]

HasFiles(S, commits, single, parts) ==
    S.commits = commits /\ S.single = single /\ S.parts = parts

(* The fields of a storage.                                                 *)
LEMMA StoreFields ==
    ASSUME NEW commits, NEW single, NEW parts
    PROVE  HasFiles(StoreOf(commits, single, parts), commits, single, parts)
BY DEF HasFiles, StoreOf

(* What is left to publish after the first commit of a run.                 *)
StartsWith(run, r, b, v, e) ==
    b \in Int /\ v \in Int /\ b < v /\ run = Run(r, b, v, b) /\ e = run[1]

WithoutFirst(run, r, b, v, e) ==
    /\ e = CommitEntry(b + 1, r[b + 1], TRUE)
    /\ Only(run, Range(run) \ {e}) = Run(r, b + 1, v, b + 1)

SegmentOf(X) ==
    [ok : X, version : X, checkpoint : X, commits : X, compacted : X, crc : X,
     latest_commit : X, max_published : X]

----------------------------------------------------------------------------
(* Attempts.                                                                *)

Fresh(id, Q, K, r) ==
    /\ \A q \in Q : q.id # id
    /\ \A d \in Clients : K[d].pc = "posting" => K[d].id # id
    /\ \A v \in DOMAIN r : r[v] # id

(* A client posts request q, as its try number t of attempt id.             *)
Tries(K, K2, c, s, id, t, q) ==
    /\ K2[c] = Posting(s, id, t) /\ \A d \in Clients : d # c => K2[d] = K[d]
    /\ q.client = c /\ q.id = id /\ q.version = s.version + 1 /\ q.retry = t

Retries(K, c, s, id, t, u) == K[c] = Posting(s, id, u) /\ u \in Nat /\ t = u + 1

(* The request of a client is one the catalog may get.                      *)
LEMMA RequestIs ==
    ASSUME WellOrdered, NEW c \in Clients, NEW s, NEW r, NEW S, SegmentOK(s, r, S), NEW n \in Nat,
           NEW id \in 1 .. n, NEW t \in Nat
    PROVE  Request(c, Posting(s, id, t)) \in RequestSet(S, n)
<1>1. PICK mp : Unpublished(s, r, S, mp)
  BY UnpublishedIs
<1>2. s.max_published \in DOMAIN S.commits
  BY <1>1 DEF Unpublished
<1>3. s.version \in Nat
  BY SegmentVersion
<1>4. PICK w, mx : w = s.version /\ mx = s.max_published
  OBVIOUS
<1>5. w + 1 \in Nat \ {0}
  BY <1>3, <1>4
<1>6. Request(c, Posting(s, id, t)) =
        [client |-> c, retry |-> t, id |-> id, version |-> w + 1,
         latest_backfilled_version |-> mx]
  BY <1>4 DEF Request, Posting
<1> QED
  BY <1>2, <1>4, <1>5, <1>6 DEF RequestSet

(* A client that posts a commit, at first or again, and its request.        *)
LEMMA TriesIs ==
    ASSUME NEW K, K = [d \in Clients |-> K[d]], NEW c \in Clients, NEW s, NEW id, NEW t,
           NEW K2, K2 = [K EXCEPT ![c] = Posting(s, id, t)],
           NEW q, q = Request(c, Posting(s, id, t))
    PROVE  Tries(K, K2, c, s, id, t, q)
<1>1. K2[c] = Posting(s, id, t) /\ \A d \in Clients : d # c => K2[d] = K[d]
  BY OneMoves
<1>2. q.client = c /\ q.id = id /\ q.version = s.version + 1 /\ q.retry = t
  BY DEF Request, Posting
<1> QED
  BY <1>1, <1>2 DEF Tries

----------------------------------------------------------------------------
(* Ratification.                                                            *)

(* The history with one more version.                                       *)
Appends(r, r2, n, q) ==
    /\ n \in Nat /\ DOMAIN r = 0 .. n /\ q.version = n + 1
    /\ DOMAIN r2 = 0 .. n + 1 /\ r2[n + 1] = q.id /\ \A v \in 0 .. n : r2[v] = r[v]

(* An attempt is answered.                                                  *)
Truthful(x, i, Q, K, r) ==
    /\ x \in Answers
    /\ x = "committed" => \E v \in DOMAIN r : r[v] = i
    /\ x = "rejected" => Over(i, Q, K) /\ \A v \in DOMAIN r : r[v] # i

Tells(o, i, x, o2) == i \in DOMAIN o /\ o2 = [o EXCEPT ![i] = x]

(* The catalog and everything that is known after a request was handled,    *)
(* whether or not its answer arrives.                                       *)
Handled(cat2, r2, Q2) ==
    /\ StorageOK(storage, r2) /\ Grows(storage, ratified, storage, r2)
    /\ CatalogOK(cat2, r2, storage)
    /\ AttemptsOK(Q2, client, r2) /\ OutcomesOK(outcome, Q2, client, r2)
    /\ Q2 \subseteq RequestSet(storage, Len(outcome))

----------------------------------------------------------------------------
(* The invariant.                                                           *)

(* Every client, the catalog and every other writer keep the invariant.     *)
LEMMA CatalogInductive ==
    ASSUME WellOrdered
    PROVE  (Init => IInv) /\ (IInv /\ [Next]_vars => IInv')
<1>InitOK.
    ASSUME Init
    PROVE  IInv
  <2> USE <1>InitOK
  <2>1. /\ storage = StoreOf([v \in {0} |-> 0], {}, {}) /\ ratified = [v \in {0} |-> 0]
        /\ last_checkpoint = <<>> /\ catalog = [max_ratified_version |-> 0, catalog_commits |-> <<>>]
        /\ requests = {} /\ client = [c \in Clients |-> Idle] /\ outcome = <<>>
    BY DEF Init, StoreOf
  <2>2. storage.commits = [v \in {0} |-> 0] /\ storage.single = {} /\ storage.parts = {}
    BY <2>1, StoreFields DEF HasFiles
  <2>3. 0 .. 0 = {0} /\ 0 \in 0 .. 0
    OBVIOUS
  <2>4. DOMAIN ratified = 0 .. 0 /\ ratified[0] = 0 /\ DOMAIN storage.commits = {0}
    BY <2>1, <2>2, <2>3
  <2>5. storage.commits = [v \in 0 .. 0 |-> ratified[v]]
    BY <2>1, <2>2, <2>3, <2>4
  <2>6. storage = [commits |-> storage.commits, single |-> storage.single,
                   parts |-> storage.parts, crcs |-> {}, compacted |-> {}]
    BY <2>1, <2>2 DEF StoreOf
  <2>7. StorageOK(storage, ratified)
    <3>1. Stored(storage, ratified, 0)
      BY <2>2, <2>5, <2>6 DEF Stored
    <3>2. IsStore(storage, ratified, 0, 0)
      BY <2>3, <2>4, <3>1 DEF IsStore
    <3> QED
      BY <3>2 DEF StorageOK
  <2>8. HintOK(last_checkpoint, storage)
    BY <2>1 DEF HintOK
  <2>9. CatalogOK(catalog, ratified, storage)
    <3>1. Run(ratified, 0, 0, 0) = <<>>
      BY EmptyRun
    <3>2. IsCatalog(catalog, ratified, storage, 0, 0)
      BY <2>1, <2>4, <3>1 DEF IsCatalog
    <3> QED
      BY <3>2 DEF CatalogOK
  <2>10. \A c \in Clients : client[c] = Idle
    BY <2>1
  <2>11. ClientsOK(client, ratified, storage, Len(outcome))
    BY <2>1, <2>10 DEF ClientsOK, ClientOK
  <2>12. \A c \in Clients : client[c].pc # "posting"
    BY <2>10 DEF Idle
  <2>13. AttemptsOK(requests, client, ratified)
    BY <2>1, <2>12 DEF AttemptsOK, OneVersion, PostsOK, OnePoster, RatifiedOK
  <2>14. OutcomesOK(outcome, requests, client, ratified)
    <3>1. outcome \in Seq(Answers) /\ Len(outcome) = 0 /\ DOMAIN outcome = {}
      BY <2>1
    <3>2. \A v \in DOMAIN ratified : v = 0 /\ ratified[v] = 0
      BY <2>3, <2>4
    <3>3. ToldTruth(outcome, ratified)
      BY <3>1 DEF ToldTruth
    <3>4. OnceEach(ratified)
      BY <3>2 DEF OnceEach
    <3> QED
      BY <3>1, <3>2, <3>3, <3>4 DEF OutcomesOK
  <2> QED
    BY Zenon, <2>1, <2>7, <2>8, <2>9, <2>11, <2>13, <2>14 DEF IInv
<1>AbandonStep.
    ASSUME IInv, NEW c \in Clients, Abandon(c)
    PROVE  IInv'
  <2> USE <1>AbandonStep
  <2>1. ClientOK(Idle, ratified, storage, Len(outcome)) /\ Idle.pc # "posting"
    BY DEF ClientOK, Idle
  <2>2. /\ client' = [client EXCEPT ![c] = Idle]
        /\ UNCHANGED <<storage, last_checkpoint, catalog, ratified, requests, outcome>>
    BY DEF Abandon, Set
  <2>3. HintOK(last_checkpoint', storage)
    BY <2>2 DEF IInv
  <2> QED
    BY Zenon, <2>1, <2>2, <2>3, QuietStep
<1>GetCommitsStep.
    ASSUME IInv, NEW c \in Clients, GetCommits(c)
    PROVE  IInv'
(* The entries of a run up to version y.                                    *)
  <2>RunUpTo.
      ASSUME NEW r, NEW lo \in Int, NEW hi \in Int, lo <= hi, NEW a, NEW y \in Int, y <= hi,
             NEW run, run = Run(r, lo, hi, a)
      PROVE  Only(run, {e \in Range(run) : e.version <= y}) =
               Run(r, lo, IF lo <= y THEN y ELSE lo, a)
    <3> USE <2>RunUpTo
    <3>1. IsRun(run, r, lo, hi, a)
      BY RunType
    <3>2. PICK set : set = {e \in Range(run) : e.version <= y}
      BY Zenon
    <3>3. PICK z \in Int : z = IF lo <= y THEN y ELSE lo
      OBVIOUS
    <3>4. lo \in lo .. hi /\ z \in lo .. hi
      BY <3>3
    <3>5. ASSUME NEW v \in lo + 1 .. hi
          PROVE  CommitEntry(v, r[v], v > a) \in set <=> lo < v /\ v <= z
      <4>1. v - lo \in 1 .. hi - lo /\ lo + (v - lo) = v /\ lo < v
        OBVIOUS
      <4>2. run[v - lo] = CommitEntry(v, r[v], v > a)
        BY <3>1, <4>1 DEF IsRun
      <4>3. CommitEntry(v, r[v], v > a) \in Range(run)
        BY Zenon, <3>1, <4>1, <4>2 DEF IsRun, Range
      <4>4. CommitEntry(v, r[v], v > a).version = v
        BY DEF CommitEntry
      <4>5. v <= z <=> v <= y
        BY <3>3, <4>1
      <4> QED
        BY <3>2, <4>1, <4>3, <4>4, <4>5
    <3>6. Only(Run(r, lo, hi, a), set) = Run(r, lo, z, a)
      BY <3>4, <3>5, OnlyRun
    <3> QED
      BY <3>2, <3>3, <3>6
  <2> USE <1>GetCommitsStep
  <2>1. PICK v \in 0 .. catalog.max_ratified_version :
           client' = [client EXCEPT ![c] =
             [pc |-> "listing", version |-> v,
              tail |-> Only(catalog.catalog_commits,
                            {e \in Range(catalog.catalog_commits) : e.version <= v})]]
    BY Zenon DEF GetCommits, Set
  <2>2. PICK a, n : IsCatalog(catalog, ratified, storage, a, n)
    BY DEF IInv, CatalogOK
  <2>3. PICK p, m : IsStore(storage, ratified, p, m)
    BY DEF IInv, StorageOK
  <2>4. PICK run : run = Run(ratified, a, n, a)
    OBVIOUS
  <2>5. /\ catalog.max_ratified_version = n /\ catalog.catalog_commits = run
        /\ n \in Nat /\ DOMAIN ratified = 0 .. n /\ a \in DOMAIN storage.commits
    BY <2>2, <2>4 DEF IsCatalog
  <2>6. DOMAIN storage.commits = 0 .. p /\ p \in Nat /\ m = n /\ p <= n
    <3>1. DOMAIN storage.commits = 0 .. p /\ p \in 0 .. m /\ m \in Nat /\ DOMAIN ratified = 0 .. m
      BY <2>3 DEF IsStore, Stored
    <3>2. m \in 0 .. n /\ n \in 0 .. m
      BY <2>5, <3>1
    <3> QED
      BY <2>5, <3>1, <3>2
  <2>7. a \in Nat /\ a <= n /\ v \in Nat /\ v <= n /\ v \in DOMAIN ratified
    BY <2>1, <2>5, <2>6
  <2>8. PICK k : k = [pc |-> "listing", version |-> v,
                      tail |-> Only(run, {e \in Range(run) : e.version <= v})]
    BY Zenon
  <2>9. PICK z : z = IF a <= v THEN v ELSE a
    OBVIOUS
  <2>10. Only(run, {e \in Range(run) : e.version <= v}) = Run(ratified, a, z, a)
    BY <2>4, <2>5, <2>7, <2>9, <2>RunUpTo
  <2>11. k = Listing(v, Run(ratified, a, z, a))
    BY <2>8, <2>10 DEF Listing
  <2>12. IsListing(k, ratified, storage)
    <3>1. CASE a <= v
      <4>1. Lists(k, ratified, storage, v, a)
        BY Zenon, <2>5, <2>7, <2>9, <2>11, <3>1 DEF Lists
      <4> QED
        BY <4>1 DEF IsListing
    <3>2. CASE ~(a <= v)
      <4>1. v \in DOMAIN storage.commits /\ v <= v
        BY <2>5, <2>6, <2>7, <3>2
      <4>2. Run(ratified, a, a, a) = <<>> /\ Run(ratified, v, v, v) = <<>>
        BY <2>7, EmptyRun
      <4>3. k = Listing(v, Run(ratified, v, v, v))
        BY <2>9, <2>11, <3>2, <4>2
      <4>4. Lists(k, ratified, storage, v, v)
        BY <2>7, <4>1, <4>3 DEF Lists
      <4> QED
        BY <4>4 DEF IsListing
    <3> QED
      BY <3>1, <3>2
  <2>13. client' = [client EXCEPT ![c] = k] /\ k.pc # "posting"
    BY <2>1, <2>5, <2>8
  <2>14. UNCHANGED <<storage, last_checkpoint, catalog, ratified, requests, outcome>>
    BY DEF GetCommits
  <2>15. ClientOK(k, ratified, storage, Len(outcome)) /\ HintOK(last_checkpoint', storage)
    BY <2>12, <2>14 DEF ClientOK, IInv
  <2> QED
    BY Zenon, <2>13, <2>14, <2>15, QuietStep
<1>BuildSnapshotStep.
    ASSUME IInv, NEW c \in Clients, BuildSnapshot(c)
    PROVE  IInv'
  <2> USE <1>BuildSnapshotStep
  <2>1. PICK s : s = Load(c)
    OBVIOUS
  <2>2. PICK k : k = IF s.ok THEN Ready(s) ELSE Idle
    OBVIOUS
  <2>3. /\ client[c].pc = "listing" /\ client' = [client EXCEPT ![c] = k]
        /\ UNCHANGED <<storage, last_checkpoint, catalog, ratified, requests, outcome>>
    BY <2>1, <2>2 DEF BuildSnapshot, Set
  <2>4. Loaded(s, ratified, storage)
    BY <2>1, <2>3, LoadedIs
  <2>5. ClientOK(k, ratified, storage, Len(outcome))
    <3>1. CASE s = NoSegment
      BY <2>2, <3>1 DEF NoSegment, ClientOK
    <3>2. CASE SegmentOK(s, ratified, storage) /\ s.ok = TRUE
      <4>1. IsReady(k, ratified, storage)
        BY <2>2, <3>2 DEF IsReady
      <4> QED
        BY <4>1 DEF ClientOK
    <3> QED
      BY Zenon, <2>4, <3>1, <3>2 DEF Loaded
  <2>6. k.pc # "posting"
    BY <2>2 DEF Ready, Idle
  <2>7. HintOK(last_checkpoint', storage)
    BY <2>3 DEF IInv
  <2> QED
    BY Zenon, <2>3, <2>5, <2>6, <2>7, QuietStep
<1>StartPublishStep.
    ASSUME IInv, NEW c \in Clients, StartPublish(c)
    PROVE  IInv'
  <2> USE <1>StartPublishStep
  <2>1. PICK s : SegmentOK(s, ratified, storage) /\ client[c] = Ready(s)
    BY KnownClient DEF StartPublish, Shaped, IsReady
  <2>2. client[c].segment = s
    BY <2>1 DEF Ready
  <2>3. PICK commits : commits = get_unpublished_catalog_commits(s)
    OBVIOUS
  <2>4. PICK k : k = Publishing(s, commits)
    OBVIOUS
  <2>5. /\ Publishable(s, commits) /\ client' = [client EXCEPT ![c] = k]
        /\ UNCHANGED <<storage, last_checkpoint, catalog, ratified, requests, outcome>>
    BY <2>2, <2>3, <2>4 DEF StartPublish, Set, Publishing
  <2>6. PICK mp : Unpublished(s, ratified, storage, mp)
    BY <2>1, UnpublishedIs
  <2>7. s.version \in Nat
    BY <2>1, SegmentVersion
  <2>8. /\ mp \in Nat /\ mp \in DOMAIN storage.commits /\ mp <= s.version
        /\ commits = Run(ratified, mp, s.version, mp)
    BY <2>3, <2>6 DEF Unpublished
  <2>9. mp < s.version
    <3>1. mp = s.version => commits = <<>>
      BY <2>8, EmptyRun
    <3> QED
      BY <2>5, <2>7, <2>8, <3>1 DEF Publishable
  <2>10. Publishes(k, ratified, storage, s, mp)
    BY <2>1, <2>4, <2>8, <2>9 DEF Publishes
  <2>11. ClientOK(k, ratified, storage, Len(outcome)) /\ k.pc # "posting"
    BY <2>4, <2>10 DEF ClientOK, IsPublishing, Publishing
  <2>12. HintOK(last_checkpoint', storage)
    BY <2>5 DEF IInv
  <2> QED
    BY Zenon, <2>5, <2>11, <2>12, QuietStep
<1>WriteHintStep.
    ASSUME IInv, NEW c \in Clients, WriteHint(c)
    PROVE  IInv'
  <2> USE <1>WriteHintStep
  <2>1. PICK s : Finalizes(client[c], ratified, storage, s)
    BY KnownClient DEF WriteHint, Shaped, IsFinalizing
  <2>2. SegmentOK(s, ratified, storage) /\ s.version \in storage.single /\ client[c].segment = s
    BY <2>1 DEF Finalizes, Finalizing
  <2>3. /\ last_checkpoint' = <<[version |-> s.version, parts |-> 1]>>
        /\ client' = [client EXCEPT ![c] = Ready(s)]
        /\ UNCHANGED <<storage, catalog, ratified, requests, outcome>>
    BY <2>2 DEF WriteHint, Set
  <2>4. ClientOK(Ready(s), ratified, storage, Len(outcome)) /\ Ready(s).pc # "posting"
    BY <2>2 DEF ClientOK, IsReady, Ready
  <2>5. s.version \in DOMAIN storage.commits
    BY <2>2 DEF IInv, StorageOK, IsStore, Stored
  <2>6. HintNames(last_checkpoint', storage, s.version, 1)
    BY <2>2, <2>3 DEF HintNames
  <2>7. HintOK(last_checkpoint', storage)
    BY <2>5, <2>6 DEF HintOK
  <2> QED
    BY Zenon, <2>3, <2>4, <2>7, QuietStep
<1>WriteCheckpointStep.
    ASSUME IInv, NEW c \in Clients, WriteCheckpoint(c)
    PROVE  IInv'
  <2> USE <1>WriteCheckpointStep
  <2>1. PICK s : SegmentOK(s, ratified, storage) /\ client[c] = Ready(s)
    BY KnownClient DEF WriteCheckpoint, Shaped, IsReady
  <2>2. client[c].segment = s
    BY <2>1 DEF Ready
  <2>3. PICK S2 : S2 = storage'
    OBVIOUS
  <2>4. PICK single : single = storage.single \cup {s.version}
    BY Zenon
  <2>5. /\ s.max_published = s.version
        /\ S2 = [storage EXCEPT !.single = single]
        /\ client' = [client EXCEPT ![c] = Finalizing(s)]
        /\ UNCHANGED <<last_checkpoint, catalog, ratified, requests, outcome>>
    BY <2>2, <2>3, <2>4 DEF WriteCheckpoint, Set, validate_published, Finalizing
  <2>6. PICK p, n : IsStore(storage, ratified, p, n)
    BY DEF IInv, StorageOK
  <2>7. /\ storage = [commits |-> storage.commits, single |-> storage.single,
                      parts |-> storage.parts, crcs |-> {}, compacted |-> {}]
        /\ storage.single \subseteq DOMAIN storage.commits
        /\ \A x \in storage.parts : \E v \in DOMAIN storage.commits, i \in 1 .. 2 : x = <<v, i, 2>>
    BY <2>6 DEF IsStore, Stored
  <2>8. S2 = [commits |-> storage.commits, single |-> single, parts |-> storage.parts,
              crcs |-> {}, compacted |-> {}]
    <3>1. PICK cm, sg, pt : cm = storage.commits /\ sg = storage.single /\ pt = storage.parts
      OBVIOUS
    <3>2. storage = [commits |-> cm, single |-> sg, parts |-> pt, crcs |-> {}, compacted |-> {}]
      BY ONLY <2>7, <3>1
    <3>3. [storage EXCEPT !.single = single] =
            [commits |-> cm, single |-> single, parts |-> pt, crcs |-> {}, compacted |-> {}]
      BY ONLY <3>2, StoreExcept
    <3> QED
      BY ONLY <2>5, <3>1, <3>3
  <2>9. PICK mp : Unpublished(s, ratified, storage, mp)
    BY <2>1, UnpublishedIs
  <2>10. s.version \in DOMAIN storage.commits
    BY <2>5, <2>9 DEF Unpublished
  <2>11. single \subseteq DOMAIN storage.commits /\ storage.single \subseteq single
    BY <2>4, <2>7, <2>10
  <2>12. StorageOK(S2, ratified) /\ Grows(storage, ratified, S2, ratified)
    BY Zenon, <2>7, <2>8, <2>11, StorageWithCheckpoints DEF IInv
  <2>13. SegmentOK(s, ratified, S2)
    BY <2>1, <2>12, SegmentStays DEF IInv
  <2>14. s.version \in S2.single
    BY <2>4, <2>8
  <2>15. Finalizes(Finalizing(s), ratified, S2, s)
    BY <2>13, <2>14 DEF Finalizes
  <2>16. ClientOK(Finalizing(s), ratified, S2, Len(outcome)) /\ Finalizing(s).pc # "posting"
    BY <2>15 DEF ClientOK, IsFinalizing, Finalizing
  <2>17. HintOK(last_checkpoint', S2)
    BY <2>5, <2>12, HintStays DEF IInv
  <2> QED
    BY Zenon, <2>3, <2>5, <2>12, <2>16, <2>17, ClientStep
<1>ForeignCheckpointStep.
    ASSUME IInv, NEW v, ForeignCheckpoint(v)
    PROVE  IInv'
  <2> USE <1>ForeignCheckpointStep
  <2>1. v \in DOMAIN storage.commits
    BY DEF ForeignCheckpoint
  <2>2. PICK i \in 1 .. 2 :
           /\ i = 1 <=> <<v, 2, 2>> \in storage.parts
           /\ storage' = [storage EXCEPT !.parts = @ \cup {<<v, i, 2>>}]
           /\ last_checkpoint' = IF i = 1 THEN <<[version |-> v, parts |-> 2]>> ELSE last_checkpoint
    BY Zenon DEF ForeignCheckpoint
  <2>3. UNCHANGED <<catalog, ratified, requests, client, outcome>>
    BY DEF ForeignCheckpoint
  <2>4. PICK S2 : S2 = storage'
    OBVIOUS
  <2>5. PICK parts : parts = storage.parts \cup {<<v, i, 2>>}
    BY Zenon
  <2>6. PICK p, n : IsStore(storage, ratified, p, n)
    BY DEF IInv, StorageOK
  <2>7. /\ storage = [commits |-> storage.commits, single |-> storage.single,
                      parts |-> storage.parts, crcs |-> {}, compacted |-> {}]
        /\ storage.single \subseteq DOMAIN storage.commits
        /\ \A x \in storage.parts : \E u \in DOMAIN storage.commits, j \in 1 .. 2 : x = <<u, j, 2>>
    BY <2>6 DEF IsStore, Stored
  <2>8. S2 = [commits |-> storage.commits, single |-> storage.single, parts |-> parts,
              crcs |-> {}, compacted |-> {}]
    <3>1. S2 = [storage EXCEPT !.parts = parts]
      BY <2>2, <2>4, <2>5
    <3>2. PICK cm, sg, pt : cm = storage.commits /\ sg = storage.single /\ pt = storage.parts
      OBVIOUS
    <3>3. storage = [commits |-> cm, single |-> sg, parts |-> pt, crcs |-> {}, compacted |-> {}]
      BY ONLY <2>7, <3>2
    <3>4. [storage EXCEPT !.parts = parts] =
            [commits |-> cm, single |-> sg, parts |-> parts, crcs |-> {}, compacted |-> {}]
      BY ONLY <3>3, StoreExcept
    <3> QED
      BY ONLY <3>1, <3>2, <3>4
  <2>9. \A x \in parts : \E u \in DOMAIN storage.commits, j \in 1 .. 2 : x = <<u, j, 2>>
    BY <2>1, <2>5, <2>7
  <2>10. storage.parts \subseteq parts /\ storage.single \subseteq storage.single
    BY <2>5
  <2>11. StorageOK(S2, ratified) /\ Grows(storage, ratified, S2, ratified)
    BY Zenon, <2>7, <2>8, <2>9, <2>10, StorageWithCheckpoints DEF IInv
  <2>12. HintOK(last_checkpoint', S2)
    <3>1. CASE i = 1
      <4>1. <<v, 1, 2>> \in S2.parts /\ <<v, 2, 2>> \in S2.parts
        BY <2>2, <2>5, <2>8, <3>1
      <4>2. HintNames(last_checkpoint', S2, v, 2)
        BY <2>2, <3>1, <4>1 DEF HintNames
      <4>3. v \in DOMAIN S2.commits
        BY <2>1, <2>8
      <4> QED
        BY <4>2, <4>3 DEF HintOK
    <3>2. CASE i # 1
      BY <2>2, <2>11, <3>2, HintStays DEF IInv
    <3> QED
      BY <3>1, <3>2
  <2>13. Len(outcome) \in Nat /\ Len(outcome) <= Len(outcome)
    BY DEF IInv, OutcomesOK
  <2>14. CatalogOK(catalog, ratified, S2)
    BY <2>11, CatalogStays DEF IInv
  <2>15. ClientsOK(client, ratified, S2, Len(outcome))
    <3>1. ASSUME NEW c \in Clients
          PROVE  ClientOK(client[c], ratified, S2, Len(outcome))
      <4>1. ClientOK(client[c], ratified, storage, Len(outcome))
        BY DEF IInv, ClientsOK
      <4> QED
        BY <2>11, <2>13, <4>1, ClientStays DEF IInv
    <3> QED
      BY <3>1 DEF IInv, ClientsOK
  <2>16. requests \subseteq RequestSet(S2, Len(outcome))
    BY <2>11, <2>13, RequestsStay DEF IInv
  <2> QED
    BY <2>3, <2>4, <2>11, <2>12, <2>14, <2>15, <2>16 DEF IInv
<1>PublishOneStep.
    ASSUME IInv, NEW c \in Clients, PublishOne(c)
    PROVE  IInv'
  <2>StorageWithCommit.
      ASSUME NEW S, NEW r, StorageOK(S, r), NEW b \in DOMAIN S.commits, b + 1 \in DOMAIN r,
             NEW e, e = CommitEntry(b + 1, r[b + 1], TRUE),
             NEW S2, S2 = WithCopy(S, e)
      PROVE  StorageOK(S2, r) /\ Grows(S, r, S2, r) /\ b + 1 \in DOMAIN S2.commits
    <3> USE <2>StorageWithCommit
    <3>1. PICK p, n : IsStore(S, r, p, n)
      BY DEF StorageOK
    <3>2. /\ n \in Nat /\ DOMAIN r = 0 .. n /\ p \in 0 .. n /\ Stored(S, r, p)
          /\ S.commits = [v \in 0 .. p |-> r[v]] /\ DOMAIN S.commits = 0 .. p
      BY <3>1 DEF IsStore, Stored
    <3>3. PICK new : new = Copied(S, e)
      BY Zenon
    <3>4. e.version = b + 1 /\ e.id = r[b + 1]
      BY DEF CommitEntry
    <3>5. PICK q \in 0 .. n : /\ p <= q /\ q <= p + 1 /\ b + 1 <= q
                              /\ new = [v \in 0 .. q |-> r[v]]
      <4>1. CASE b + 1 \in 0 .. p
        <5>1. new = [v \in 0 .. p |-> r[v]]
          BY Zenon, <3>2, <3>3, <3>4, <4>1 DEF Copied
        <5>2. p <= p /\ p <= p + 1 /\ b + 1 <= p
          BY <3>2, <4>1
        <5> QED
          BY <3>2, <5>1, <5>2
      <4>2. CASE ~(b + 1 \in 0 .. p)
        <5>1. b = p /\ p + 1 \in 0 .. n /\ b + 1 = p + 1
          BY <3>2, <4>2
        <5>2. 0 .. p \cup {p + 1} = 0 .. p + 1
          BY <3>2
        <5>3. new = [v \in 0 .. p + 1 |-> IF v = p + 1 THEN r[p + 1] ELSE S.commits[v]]
          BY Zenon, <3>2, <3>3, <3>4, <4>2, <5>1, <5>2 DEF Copied
        <5>4. \A v \in 0 .. p + 1 : (IF v = p + 1 THEN r[p + 1] ELSE S.commits[v]) = r[v]
          BY <3>2
        <5>5. new = [v \in 0 .. p + 1 |-> r[v]]
          BY <5>3, <5>4
        <5> QED
          BY <3>2, <5>1, <5>5
      <4> QED
        BY <4>1, <4>2
    <3>6. S2 = [commits |-> new, single |-> S.single, parts |-> S.parts,
                crcs |-> {}, compacted |-> {}]
      <4>1. S = [commits |-> S.commits, single |-> S.single, parts |-> S.parts,
                 crcs |-> {}, compacted |-> {}]
        BY <3>2 DEF Stored
      <4>2. PICK com, single, parts : com = S.commits /\ single = S.single /\ parts = S.parts
        OBVIOUS
      <4>3. S = [commits |-> com, single |-> single, parts |-> parts, crcs |-> {}, compacted |-> {}]
        BY <4>1, <4>2
      <4>4. S2 = [S EXCEPT !.commits = new]
        BY <3>3 DEF WithCopy
      <4>5. S2 = [commits |-> new, single |-> single, parts |-> parts, crcs |-> {}, compacted |-> {}]
        BY Zenon, <4>3, <4>4
      <4> QED
        BY Zenon, <4>2, <4>5
    <3>7. S2.commits = new /\ S2.single = S.single /\ S2.parts = S.parts
      <4>1. S2 = StoreOf(new, S.single, S.parts)
        BY Zenon, <3>6 DEF StoreOf
      <4>2. HasFiles(StoreOf(new, S.single, S.parts), new, S.single, S.parts)
        BY StoreFields
      <4> QED
        BY Zenon, <4>1, <4>2 DEF HasFiles
    <3>8. 0 .. p \subseteq 0 .. q /\ DOMAIN new = 0 .. q
      BY <3>2, <3>5
    <3>9. Stored(S2, r, q)
      BY Zenon, <3>2, <3>5, <3>6, <3>7, <3>8 DEF Stored
    <3>10. IsStore(S2, r, q, n)
      BY Zenon, <3>2, <3>9 DEF IsStore
    <3>11. Grows(S, r, S2, r)
      BY Zenon, <3>2, <3>7, <3>8 DEF Grows
    <3>12. b + 1 \in 0 .. q
      BY <3>2, <3>5
    <3> QED
      BY Zenon, <3>7, <3>8, <3>10, <3>11, <3>12 DEF StorageOK
  <2>RunWithoutFirst.
      ASSUME NEW run, NEW r, NEW b, NEW v, NEW e, StartsWith(run, r, b, v, e)
      PROVE  WithoutFirst(run, r, b, v, e)
    <3> USE <2>RunWithoutFirst
    <3> b \in Int /\ v \in Int /\ b < v /\ run = Run(r, b, v, b) /\ e = run[1]
      BY DEF StartsWith
    <3>1. IsRun(run, r, b, v, b)
      <4>1. b <= v
        OBVIOUS
      <4> QED
        BY <4>1, RunType
    <3>2. 1 \in 1 .. v - b /\ (b + 1 > b) = TRUE
      OBVIOUS
    <3>3. e = CommitEntry(b + 1, r[b + 1], TRUE)
      BY Zenon, <3>1, <3>2 DEF IsRun
    <3>4. PICK set : set = Range(run) \ {e}
      BY Zenon
    <3>5. ASSUME NEW x \in b + 1 .. v
          PROVE  CommitEntry(x, r[x], x > b) \in set <=> b + 1 < x /\ x <= v
      <4>1. x - b \in 1 .. v - b /\ b + (x - b) = x /\ x <= v /\ (b + 1 < x <=> x # b + 1)
        OBVIOUS
      <4>2. (x > b) = TRUE
        OBVIOUS
      <4>3. run[x - b] = CommitEntry(x, r[x], x > b)
        BY <3>1, <4>1 DEF IsRun
      <4>4. CommitEntry(x, r[x], x > b) \in Range(run)
        BY Zenon, <3>1, <4>1, <4>3 DEF IsRun, Range
      <4>5. CommitEntry(x, r[x], x > b) = e <=> x = b + 1
        <5>1. CommitEntry(x, r[x], x > b).version = x /\ e.version = b + 1
          BY <3>3 DEF CommitEntry
        <5>2. x = b + 1 => CommitEntry(x, r[x], x > b) = e
          BY Zenon, <3>3, <4>2
        <5> QED
          BY <5>1, <5>2
      <4> QED
        BY <3>4, <4>1, <4>4, <4>5
    <3>6. PICK x \in Int : x = b + 1
      OBVIOUS
    <3>7. x \in b .. v /\ v \in x .. v
      BY <3>6
    <3>8. \A y \in b + 1 .. v : CommitEntry(y, r[y], y > b) \in set <=> x < y /\ y <= v
      BY <3>5, <3>6
    <3>9. Only(Run(r, b, v, b), set) = Run(r, x, v, b)
      BY <3>7, <3>8, OnlyRun
    <3>10. Run(r, x, v, b) = Run(r, x, v, x)
      <4>1. b <= x /\ x <= x
        BY <3>6
      <4> QED
        BY <4>1, RunStaged
    <3> QED
      BY <3>3, <3>4, <3>6, <3>9, <3>10 DEF WithoutFirst
  <2>PublishedIs.
      ASSUME NEW r, NEW v, NEW cp, NEW a, NEW mp, NEW mp2
      PROVE  [Segment(r, v, cp, a, mp) EXCEPT !.max_published = mp2] = Segment(r, v, cp, a, mp2)
    <3>1. PICK s : s = Segment(r, v, cp, a, mp)
      OBVIOUS
    <3>2. PICK run : run = Run(r, cp, v, a)
      OBVIOUS
    <3>3. PICK X : X = {TRUE, v, cp, run, {}, NoVersion, mp, mp2}
      BY Zenon
    <3>4. s \in SegmentOf(X) /\ mp2 \in X
      BY <3>1, <3>2, <3>3 DEF Segment, SegmentOf
    <3>5. PICK u : u = [s EXCEPT !.max_published = mp2]
      BY Zenon
    <3>6. u \in SegmentOf(X)
      BY <3>4, <3>5 DEF SegmentOf
    <3>7. /\ u.ok = TRUE /\ u.version = v /\ u.checkpoint = cp /\ u.commits = run
          /\ u.compacted = {} /\ u.crc = NoVersion /\ u.latest_commit = v /\ u.max_published = mp2
      BY <3>1, <3>2, <3>4, <3>5 DEF SegmentOf, Segment
    <3>8. u = Segment(r, v, cp, a, mp2)
      BY Zenon, <3>2, <3>6, <3>7 DEF SegmentOf, Segment
    <3> QED
      BY <3>1, <3>5, <3>8
  <2>PublishedSegment.
      ASSUME NEW s, NEW r, NEW S, SegmentOK(s, r, S), s.version \in DOMAIN S.commits
      PROVE  SegmentOK(new_as_published(s), r, S)
    <3> USE <2>PublishedSegment
    <3>1. PICK v, cp, a, mp : IsSegment(s, r, S, v, cp, a, mp)
      BY DEF SegmentOK
    <3>2. s = Segment(r, v, cp, a, mp) /\ s.version = v
      BY <3>1 DEF IsSegment, Segment
    <3>3. new_as_published(s) = Segment(r, v, cp, a, v)
      <4>1. new_as_published(s) = [s EXCEPT !.max_published = v]
        BY <3>2 DEF new_as_published
      <4> QED
        BY <3>2, <4>1, <2>PublishedIs
    <3>4. cp <= v /\ a <= v /\ v <= v
      BY <3>1 DEF IsSegment
    <3>5. IsSegment(new_as_published(s), r, S, v, cp, a, v)
      BY <3>1, <3>2, <3>3, <3>4 DEF IsSegment
    <3> QED
      BY <3>5 DEF SegmentOK
  <2> USE <1>PublishOneStep
  <2>1. PICK s, b : Publishes(client[c], ratified, storage, s, b)
    BY KnownClient DEF PublishOne, Shaped, IsPublishing
  <2>2. PICK run : run = Run(ratified, b, s.version, b)
    OBVIOUS
  <2>3. /\ SegmentOK(s, ratified, storage) /\ b \in DOMAIN storage.commits /\ b < s.version
        /\ client[c] = Publishing(s, run)
    BY <2>1, <2>2 DEF Publishes
  <2>4. client[c].segment = s /\ client[c].commits = run
    BY <2>3 DEF Publishing
  <2>5. PICK v : v = s.version
    OBVIOUS
  <2>6. v \in Nat /\ v \in DOMAIN ratified
    BY <2>3, <2>5, SegmentVersion
  <2>7. PICK p, n : IsStore(storage, ratified, p, n)
    BY DEF IInv, StorageOK
  <2>8. b \in Nat /\ b + 1 \in DOMAIN ratified
    <3>1. DOMAIN storage.commits = 0 .. p /\ p \in Nat /\ n \in Nat /\ DOMAIN ratified = 0 .. n
      BY <2>7 DEF IsStore, Stored
    <3> QED
      BY <2>3, <2>5, <2>6, <3>1
  <2>9. PICK e : e = run[1]
    OBVIOUS
  <2>10. PICK left : left = Only(run, Range(run) \ {e})
    OBVIOUS
  <2>11. e = CommitEntry(b + 1, ratified[b + 1], TRUE) /\ left = Run(ratified, b + 1, v, b + 1)
    <3>1. StartsWith(run, ratified, b, v, e)
      BY <2>2, <2>3, <2>5, <2>6, <2>8, <2>9 DEF StartsWith
    <3>2. WithoutFirst(run, ratified, b, v, e)
      BY <3>1, <2>RunWithoutFirst
    <3> QED
      BY <2>10, <3>2 DEF WithoutFirst
  <2>12. PICK S2 : S2 = WithCopy(storage, e)
    OBVIOUS
  <2>13. PICK k : k = IF left = <<>> THEN Ready(new_as_published(s))
                      ELSE [client[c] EXCEPT !.commits = left]
    BY Zenon
  <2>14. /\ storage' = S2 /\ client' = [client EXCEPT ![c] = k]
         /\ UNCHANGED <<last_checkpoint, catalog, ratified, requests, outcome>>
    BY <2>4, <2>9, <2>10, <2>12, <2>13
       DEF PublishOne, NextToPublish, Set, WithCopy, Copied
  <2>15. /\ StorageOK(S2, ratified) /\ Grows(storage, ratified, S2, ratified)
         /\ b + 1 \in DOMAIN S2.commits
    BY Zenon, <2>3, <2>8, <2>11, <2>12, <2>StorageWithCommit DEF IInv
  <2>16. SegmentOK(s, ratified, S2)
    BY <2>3, <2>15, SegmentStays DEF IInv
  <2>17. ClientOK(k, ratified, S2, Len(outcome)) /\ k.pc # "posting"
    <3>1. CASE b + 1 = v
      <4>1. left = <<>>
        BY <2>6, <2>11, <3>1, EmptyRun
      <4>2. SegmentOK(new_as_published(s), ratified, S2)
        BY Zenon, <2>5, <2>15, <2>16, <3>1, <2>PublishedSegment
      <4>3. IsReady(k, ratified, S2) /\ k.pc # "posting"
        BY Zenon, <2>13, <4>1, <4>2 DEF IsReady, Ready
      <4> QED
        BY <4>3 DEF ClientOK
    <3>2. CASE b + 1 # v
      <4>1. b + 1 < v /\ b + 1 \in Int
        BY <2>3, <2>5, <2>6, <2>8, <3>2
      <4>2. left # <<>>
        <5>1. SpansTo(Run(ratified, b + 1, v, b + 1), b + 1, v)
          BY <2>6, <4>1, RunEnd
        <5> QED
          BY Zenon, <2>11, <5>1 DEF SpansTo
      <4>3. k = Publishing(s, left)
        BY <2>3, <2>13, <4>2 DEF Publishing
      <4>4. Publishes(k, ratified, S2, s, b + 1)
        BY Zenon, <2>5, <2>11, <2>15, <2>16, <4>1, <4>3 DEF Publishes
      <4> QED
        BY <4>3, <4>4 DEF ClientOK, IsPublishing, Publishing
    <3> QED
      BY <3>1, <3>2
  <2>18. HintOK(last_checkpoint', S2)
    BY <2>14, <2>15, HintStays DEF IInv
  <2> QED
    BY Zenon, <2>14, <2>15, <2>17, <2>18, ClientStep
<1>StageCommitStep.
    ASSUME IInv, NEW c \in Clients, StageCommit(c)
    PROVE  IInv'
  <2>AttemptStarts.
      ASSUME NEW Q, NEW K, NEW r, AttemptsOK(Q, K, r), NEW id, Fresh(id, Q, K, r),
             NEW K2, NEW cc \in Clients, NEW s, NEW q, Tries(K, K2, cc, s, id, 0, q)
      PROVE  AttemptsOK(Q \cup {q}, K2, r)
    <3> USE <2>AttemptStarts
    <3>1. /\ K2[cc].pc = "posting" /\ K2[cc].id = id /\ K2[cc].retry = 0 /\ K2[cc].segment = s
          /\ \A d \in Clients : d # cc => K2[d] = K[d]
          /\ q.client = cc /\ q.id = id /\ q.version = s.version + 1 /\ q.retry = 0
      BY DEF Tries, Posting
    <3>2. OneVersion(Q \cup {q})
      BY <3>1 DEF AttemptsOK, OneVersion, Fresh
    <3>3. OnePoster(K2)
      BY <3>1 DEF AttemptsOK, OnePoster, Fresh
    <3>4. PostsOK(Q \cup {q}, K2, r)
      <4>1. ASSUME NEW d \in Clients, K2[d].pc = "posting", NEW t \in Q \cup {q}, t.id = K2[d].id
            PROVE  Mine(t, K2, r, d)
        <5>1. CASE d = cc
          <6>1. t = q
            BY <3>1, <4>1, <5>1 DEF Fresh
          <6>2. q.retry <= K2[cc].retry
            BY <3>1
          <6> QED
            BY Zenon, <3>1, <5>1, <6>1, <6>2 DEF Mine, Fresh
        <5>2. CASE d # cc
          <6>1. K2[d] = K[d]
            BY <3>1, <5>2
          <6>2. t \in Q
            BY <3>1, <4>1, <6>1 DEF Fresh
          <6> QED
            BY <4>1, <6>1, <6>2 DEF AttemptsOK, PostsOK, Mine
        <5> QED
          BY Zenon, <5>1, <5>2
      <4> QED
        BY <4>1 DEF PostsOK
    <3>5. RatifiedOK(Q \cup {q}, K2, r)
      BY <3>1 DEF AttemptsOK, RatifiedOK, Fresh
    <3> QED
      BY Zenon, <3>2, <3>3, <3>4, <3>5 DEF AttemptsOK
  <2> USE <1>StageCommitStep
  <2>1. PICK s : SegmentOK(s, ratified, storage) /\ client[c] = Ready(s)
    BY KnownClient DEF StageCommit, Shaped, IsReady
  <2>2. client[c].segment = s
    BY <2>1 DEF Ready
  <2>3. PICK n \in Nat : n = Len(outcome)
    BY DEF IInv, OutcomesOK
  <2>4. PICK id : id = n + 1
    OBVIOUS
  <2>5. id \in Nat /\ n <= id /\ id \in 1 .. id /\ 0 \in Nat
    BY <2>4
  <2>6. PICK q : q = Request(c, Posting(s, id, 0))
    OBVIOUS
  <2>7. /\ outcome' = Append(outcome, "unknown") /\ requests' = requests \cup {q}
        /\ client' = [client EXCEPT ![c] = Posting(s, id, 0)]
        /\ UNCHANGED <<storage, last_checkpoint, catalog, ratified>>
    BY <2>2, <2>3, <2>4, <2>6 DEF StageCommit, Set, Posting
  <2>8. outcome \in Seq(Answers) /\ "unknown" \in Answers
    BY DEF IInv, OutcomesOK, Answers
  <2>9. /\ outcome' \in Seq(Answers) /\ Len(outcome') = id /\ DOMAIN outcome' = 1 .. id
        /\ outcome'[id] = "unknown" /\ \A i \in 1 .. n : outcome'[i] = outcome[i]
        /\ DOMAIN outcome = 1 .. n
    BY <2>3, <2>4, <2>7, <2>8
  <2>10. Fresh(id, requests, client, ratified)
    <3>1. ASSUME NEW x \in requests
          PROVE  x.id # id
      <4>1. x.id \in 1 .. n
        BY <2>3 DEF IInv, RequestSet
      <4> QED
        BY <2>4, <4>1
    <3>2. ASSUME NEW d \in Clients, client[d].pc = "posting"
          PROVE  client[d].id # id
      <4>1. PICK s2, i, t : Posts(client[d], ratified, storage, n, s2, i, t)
        BY Zenon, <2>3, <3>2, KnownClient DEF Shaped, IsPosting
      <4>2. client[d].id \in 1 .. n
        BY <4>1 DEF Posts, Posting
      <4> QED
        BY <2>4, <4>2
    <3>3. ASSUME NEW v \in DOMAIN ratified
          PROVE  ratified[v] # id
      <4>1. ratified[v] \in 0 .. n
        BY <2>3 DEF IInv, OutcomesOK
      <4> QED
        BY <2>4, <4>1
    <3> QED
      BY <3>1, <3>2, <3>3 DEF Fresh
  <2>11. Tries(client, client', c, s, id, 0, q)
    BY Zenon, <2>6, <2>7, TriesIs DEF IInv, ClientsOK
  <2>12. AttemptsOK(requests', client', ratified)
    BY <2>7, <2>10, <2>11, <2>AttemptStarts DEF IInv
  <2>13. Grows(storage, ratified, storage, ratified)
    BY DEF Grows
  <2>14. requests' \subseteq RequestSet(storage, id)
    <3>1. q \in RequestSet(storage, id)
      BY <2>1, <2>5, <2>6, RequestIs
    <3>2. requests \subseteq RequestSet(storage, id)
      BY <2>3, <2>5, <2>13, RequestsStay DEF IInv
    <3> QED
      BY <2>7, <3>1, <3>2
  <2>15. ClientsOK(client', ratified, storage, id)
    <3>1. Posts(Posting(s, id, 0), ratified, storage, id, s, id, 0)
      BY <2>1, <2>5 DEF Posts
    <3>2. ClientOK(Posting(s, id, 0), ratified, storage, id)
      BY <3>1 DEF IsPosting, ClientOK
    <3>3. ClientsOK(client, ratified, storage, n) /\ StorageOK(storage, ratified)
      BY <2>3 DEF IInv
    <3>4. PICK k : k = Posting(s, id, 0)
      OBVIOUS
    <3>5. client' = [client EXCEPT ![c] = k] /\ ClientOK(k, ratified, storage, id)
      BY <2>7, <3>2, <3>4
    <3> QED
      BY Zenon, <2>5, <2>13, <3>3, <3>5, ClientsMove
  <2>16. OutcomesOK(outcome', requests', client', ratified)
    <3>1. ASSUME NEW v \in DOMAIN ratified
          PROVE  ratified[v] \in 0 .. Len(outcome')
      <4>1. ratified[v] \in 0 .. n
        BY <2>3 DEF IInv, OutcomesOK
      <4> QED
        BY <2>4, <2>9, <4>1
    <3>2. ASSUME NEW i \in DOMAIN outcome', outcome'[i] # "unknown"
          PROVE  i \in DOMAIN outcome /\ outcome'[i] = outcome[i] /\ i # id
      <4>1. i \in 1 .. id /\ i # id
        BY <2>9, <3>2
      <4>2. i \in 1 .. n
        BY <2>4, <4>1
      <4> QED
        BY <2>9, <4>1, <4>2
    <3>3. ASSUME NEW i \in DOMAIN outcome', outcome'[i] = "rejected"
          PROVE  Over(i, requests', client')
      <4>1. i \in DOMAIN outcome /\ outcome[i] = "rejected" /\ i # id
        BY Zenon, <3>2, <3>3
      <4>2. Over(i, requests, client)
        BY <4>1 DEF IInv, OutcomesOK
      <4> QED
        BY <2>7, <2>11, <4>1, <4>2 DEF Over, Tries, Posting
    <3>4. ToldTruth(outcome', ratified)
      BY <3>2 DEF IInv, OutcomesOK, ToldTruth
    <3>5. OnceEach(ratified)
      BY DEF IInv, OutcomesOK
    <3> QED
      BY <2>9, <3>1, <3>3, <3>4, <3>5 DEF OutcomesOK
  <2> QED
    BY Zenon, <2>7, <2>9, <2>12, <2>14, <2>15, <2>16 DEF IInv
<1>RequestFailsStep.
    ASSUME IInv, NEW c \in Clients, RequestFails(c)
    PROVE  IInv'
  <2>AttemptRetries.
      ASSUME NEW Q, NEW K, NEW r, AttemptsOK(Q, K, r), \A q \in Q : q.retry \in Nat, NEW id, NEW K2,
             NEW cc \in Clients, NEW s, NEW t, NEW u, Retries(K, cc, s, id, t, u),
             NEW q, Tries(K, K2, cc, s, id, t, q)
      PROVE  AttemptsOK(Q \cup {q}, K2, r)
    <3> USE <2>AttemptRetries
    <3>1. /\ K2[cc].pc = "posting" /\ K2[cc].id = id /\ K2[cc].retry = t /\ K2[cc].segment = s
          /\ \A d \in Clients : d # cc => K2[d] = K[d]
          /\ q.client = cc /\ q.id = id /\ q.version = s.version + 1 /\ q.retry = t
      BY DEF Tries, Posting
    <3>2. /\ K[cc].pc = "posting" /\ K[cc].id = id /\ K[cc].retry = u /\ K[cc].segment = s
          /\ u \in Nat /\ t = u + 1
      <4>1. K[cc] = Posting(s, id, u) /\ u \in Nat /\ t = u + 1
        BY DEF Retries
      <4> QED
        BY ONLY <4>1 DEF Posting
    <3>3. ASSUME NEW x \in Q, x.id = id
          PROVE  x.client = cc /\ x.version = s.version + 1 /\ x.retry <= u /\ x.retry < t /\ x.retry # t
      <4>1. x.client = cc /\ x.version = s.version + 1 /\ x.retry <= u
        BY <3>2, <3>3 DEF AttemptsOK, PostsOK, Mine
      <4> QED
        BY <3>2, <4>1
    <3>4. OneVersion(Q \cup {q})
      <4>1. ASSUME NEW x \in Q \cup {q}, NEW y \in Q \cup {q}, x.id = y.id
            PROVE  x.version = y.version /\ (x.retry = y.retry => x = y)
        <5>1. CASE x \in Q /\ y \in Q
          BY <4>1, <5>1 DEF AttemptsOK, OneVersion
        <5>2. CASE x = q /\ y \in Q
          BY Zenon, <3>1, <3>3, <4>1, <5>2
        <5>3. CASE x \in Q /\ y = q
          BY Zenon, <3>1, <3>3, <4>1, <5>3
        <5> QED
          BY <5>1, <5>2, <5>3
      <4> QED
        BY <4>1 DEF OneVersion
    <3>5. OnePoster(K2)
      <4>1. ASSUME NEW x \in Clients, NEW y \in Clients, K2[x].pc = "posting", K2[y].pc = "posting",
                   K2[x].id = K2[y].id
            PROVE  x = y
        <5>1. \A d \in Clients : K2[d].pc = "posting" => K[d].pc = "posting" /\ K[d].id = K2[d].id
          BY Zenon, <3>1, <3>2
        <5> QED
          BY <4>1, <5>1 DEF AttemptsOK, OnePoster
      <4> QED
        BY <4>1 DEF OnePoster
    <3>6. PostsOK(Q \cup {q}, K2, r)
      <4>1. ASSUME NEW d \in Clients, K2[d].pc = "posting", NEW x \in Q \cup {q}, x.id = K2[d].id
            PROVE  Mine(x, K2, r, d)
        <5>1. CASE d = cc
          <6>1. x.client = cc /\ x.version = s.version + 1 /\ x.retry <= t
            <7>1. CASE x = q
              BY <3>1, <3>2, <7>1
            <7>2. CASE x \in Q
              <8>1. x.client = cc /\ x.version = s.version + 1 /\ x.retry <= u
                BY Zenon, <3>1, <3>3, <4>1, <5>1, <7>2
              <8> QED
                BY <3>2, <7>2, <8>1
            <7> QED
              BY <7>1, <7>2
          <6>2. K2[cc].retry # 0
            BY <3>1, <3>2
          <6> QED
            BY Zenon, <3>1, <5>1, <6>1, <6>2 DEF Mine
        <5>2. CASE d # cc
          <6>1. K2[d] = K[d]
            BY Zenon, <3>1, <5>2
          <6>2. x # q
            BY <3>1, <3>2, <4>1, <5>2, <6>1 DEF AttemptsOK, OnePoster
          <6>3. PostsOK(Q, K, r)
            BY DEF AttemptsOK
          <6>4. Mine(x, K, r, d)
            BY ONLY Zenon, <4>1, <6>1, <6>2, <6>3 DEF PostsOK
          <6> QED
            BY ONLY <6>1, <6>4 DEF Mine
        <5> QED
          BY Zenon, <5>1, <5>2
      <4> QED
        BY <4>1 DEF PostsOK
    <3>7. RatifiedOK(Q \cup {q}, K2, r)
      <4>0. RatifiedOK(Q, K, r)
        BY DEF AttemptsOK
      <4>1. ASSUME NEW v \in DOMAIN r, NEW x \in Q \cup {q}, r[v] = x.id
            PROVE  v = x.version
        <5>1. CASE x \in Q
          BY ONLY <4>0, <4>1, <5>1 DEF RatifiedOK
        <5>2. CASE x = q
          <6>1. r[v] = K[cc].id /\ x.version = K[cc].segment.version + 1
            BY Zenon, <3>1, <3>2, <4>1, <5>2
          <6> QED
            BY ONLY Zenon, <3>2, <4>0, <6>1, v \in DOMAIN r, cc \in Clients DEF RatifiedOK
        <5> QED
          BY <5>1, <5>2
      <4>2. ASSUME NEW v \in DOMAIN r, NEW d \in Clients, K2[d].pc = "posting", r[v] = K2[d].id
            PROVE  v = K2[d].segment.version + 1
        <5>1. K[d].pc = "posting" /\ K[d].id = K2[d].id /\ K[d].segment = K2[d].segment
          BY <3>1, <3>2, <4>2
        <5> QED
          BY ONLY <4>0, <4>2, <5>1, v \in DOMAIN r, d \in Clients DEF RatifiedOK
      <4> QED
        BY <4>1, <4>2 DEF RatifiedOK
    <3> QED
      BY Zenon, <3>4, <3>5, <3>6, <3>7 DEF AttemptsOK
  <2> USE <1>RequestFailsStep
  <2>1. PICK n \in Nat : n = Len(outcome)
    BY DEF IInv, OutcomesOK
  <2>2. PICK s, id, u : Posts(client[c], ratified, storage, n, s, id, u)
    BY <2>1, KnownClient DEF RequestFails, Shaped, IsPosting
  <2>3. /\ SegmentOK(s, ratified, storage) /\ id \in 1 .. n /\ u \in Nat
        /\ client[c] = Posting(s, id, u)
    BY <2>2 DEF Posts
  <2>4. client[c].retry = u /\ client[c].pc = "posting" /\ client[c].id = id
    BY <2>3 DEF Posting
  <2>5. UNCHANGED <<storage, last_checkpoint, catalog, ratified, outcome>>
    BY DEF RequestFails
  <2>6. CASE u < MaxRetries
    <3>1. PICK t \in Nat : t = u + 1
      BY <2>3
    <3>2. [client[c] EXCEPT !.retry = @ + 1] = Posting(s, id, t)
      BY <2>3, <3>1 DEF Posting
    <3>3. PICK q : q = Request(c, Posting(s, id, t))
      OBVIOUS
    <3>4. /\ requests' = requests \cup {q}
          /\ client' = [client EXCEPT ![c] = Posting(s, id, t)]
      BY Zenon, <2>4, <2>6, <3>2, <3>3 DEF RequestFails, Set
    <3>5. Tries(client, client', c, s, id, t, q)
      BY <3>3, <3>4, TriesIs DEF IInv, ClientsOK
    <3>6. Retries(client, c, s, id, t, u)
      BY <2>3, <3>1 DEF Retries
    <3>7. \A x \in requests : x.retry \in Nat
      BY DEF IInv, RequestSet
    <3>8. AttemptsOK(requests', client', ratified)
      BY Zenon, <3>4, <3>5, <3>6, <3>7, <2>AttemptRetries DEF IInv
    <3>9. requests' \subseteq RequestSet(storage, n)
      <4>1. q \in RequestSet(storage, n)
        BY <2>3, <3>3, RequestIs
      <4> QED
        BY <2>1, <3>4, <4>1 DEF IInv
    <3>10. ClientsOK(client', ratified, storage, n)
      <4>1. Posts(Posting(s, id, t), ratified, storage, n, s, id, t)
        BY <2>3 DEF Posts
      <4>2. ClientOK(Posting(s, id, t), ratified, storage, n)
        BY <4>1 DEF IsPosting, ClientOK
      <4>3. Grows(storage, ratified, storage, ratified) /\ n <= n
        BY DEF Grows
      <4>4. ClientsOK(client, ratified, storage, n) /\ StorageOK(storage, ratified)
        BY <2>1 DEF IInv
      <4>5. PICK k : k = Posting(s, id, t)
        OBVIOUS
      <4>6. client' = [client EXCEPT ![c] = k] /\ ClientOK(k, ratified, storage, n)
        BY <3>4, <4>2, <4>5
      <4> QED
        BY Zenon, <4>3, <4>4, <4>6, ClientsMove
    <3>11. OutcomesOK(outcome, requests', client', ratified)
      <4>1. ASSUME NEW i, Over(i, requests, client)
            PROVE  Over(i, requests', client')
        BY <2>4, <3>4, <3>5, <4>1 DEF Over, Tries, Posting
      <4> QED
        BY <4>1 DEF IInv, OutcomesOK
    <3> QED
      BY Zenon, <2>1, <2>5, <3>8, <3>9, <3>10, <3>11 DEF IInv
  <2>7. CASE ~(u < MaxRetries)
    <3>1. client' = [client EXCEPT ![c] = Idle] /\ UNCHANGED requests
      BY <2>4, <2>7 DEF RequestFails, Set
    <3>2. ClientOK(Idle, ratified, storage, Len(outcome)) /\ Idle.pc # "posting"
      BY DEF ClientOK, Idle
    <3>3. HintOK(last_checkpoint', storage)
      BY <2>5 DEF IInv
    <3> QED
      BY Zenon, <2>5, <3>1, <3>2, <3>3, QuietStep
  <2> QED
    BY <2>6, <2>7
<1>HandleRequestStep.
    ASSUME IInv, NEW q \in requests, HandleRequest(q)
    PROVE  IInv'
(* TableData::cleanup_published_commits leaves the commits after the later  *)
(* of two published versions.                                               *)
  <2>CleanedIs.
      ASSUME NEW r, NEW a \in Nat, NEW n \in Nat, a <= n, NEW y \in Nat, y <= n,
             NEW run, run = Run(r, a, n, a), NEW m, m = IF a <= y THEN y ELSE a
      PROVE  cleanup_published_commits(run, y) = Run(r, m, n, m)
    <3> USE <2>CleanedIs
    <3>1. PICK set : set = {e \in Range(run) : y < e.version}
      BY Zenon
    <3>2. m \in a .. n /\ m \in Int /\ a <= m /\ m <= m
      OBVIOUS
    <3>3. set = {e \in Range(run) : m < e.version}
      <4>1. CASE a <= y
        BY <3>1, <4>1
      <4>2. CASE ~(a <= y)
        <5>1. IsRun(run, r, a, n, a)
          BY RunType
        <5>2. \A i \in DOMAIN run : i \in Int /\ i >= 1 /\ run[i].version = a + i
          BY <5>1 DEF IsRun, CommitEntry
        <5>3. \A i \in DOMAIN run : y < run[i].version /\ a < run[i].version
          BY <4>2, <5>2
        <5>4. \A e \in Range(run) : y < e.version /\ a < e.version
          BY <5>3 DEF Range
        <5> QED
          BY <3>1, <4>2, <5>4
      <4> QED
        BY <4>1, <4>2
    <3>4. Only(run, {e \in Range(run) : m < e.version}) = Run(r, m, n, a)
      BY <3>2, RunFrom
    <3>5. Run(r, m, n, a) = Run(r, m, n, m)
      BY <3>2, RunStaged
    <3> QED
      BY <3>1, <3>3, <3>4, <3>5 DEF cleanup_published_commits
  <2>StoreWithVersion.
      ASSUME NEW S, NEW r, StorageOK(S, r), NEW r2, NEW n, NEW qq, Appends(r, r2, n, qq)
      PROVE  StorageOK(S, r2) /\ Grows(S, r, S, r2)
    <3> USE <2>StoreWithVersion
    <3>1. PICK p, m : IsStore(S, r, p, m)
      BY DEF StorageOK
    <3>2. n \in Nat /\ DOMAIN r = 0 .. n /\ DOMAIN r2 = 0 .. n + 1 /\ \A v \in 0 .. n : r2[v] = r[v]
      BY DEF Appends
    <3>3. /\ p \in 0 .. m /\ m \in Nat /\ DOMAIN r = 0 .. m /\ Stored(S, r, p)
          /\ S.commits = [v \in 0 .. p |-> r[v]]
      BY <3>1 DEF IsStore, Stored
    <3>4. p \in 0 .. n /\ p \in 0 .. n + 1 /\ n + 1 \in Nat
      <4>1. p \in 0 .. n
        BY <3>2, <3>3
      <4> QED
        BY <3>2, <4>1
    <3>5. \A v \in 0 .. p : r2[v] = r[v]
      BY <3>2, <3>4
    <3>6. S.commits = [v \in 0 .. p |-> r2[v]]
      BY <3>3, <3>5
    <3>7. Stored(S, r2, p)
      BY <3>3, <3>6 DEF Stored
    <3>8. IsStore(S, r2, p, n + 1)
      BY <3>2, <3>4, <3>7 DEF IsStore
    <3>9. Grows(S, r, S, r2)
      BY <3>2 DEF Grows
    <3> QED
      BY <3>8, <3>9 DEF StorageOK
  (* TableData::commit when it accepts the request.                           *)
  <2>RatifyAccepts.
      ASSUME IInv, NEW qq \in requests, Ratify(qq), Accepts(qq)
      PROVE  /\ CatalogOK(catalog', ratified', storage)
             /\ \E n : Appends(ratified, ratified', n, qq)
    <3> USE <2>RatifyAccepts
    <3>1. PICK a, n : IsCatalog(catalog, ratified, storage, a, n)
      BY DEF IInv, CatalogOK
    <3>2. PICK p, m : IsStore(storage, ratified, p, m)
      BY DEF IInv, StorageOK
    <3>3. PICK run : run = Run(ratified, a, n, a)
      OBVIOUS
    <3>4. /\ catalog.max_ratified_version = n /\ catalog.catalog_commits = run
          /\ n \in Nat /\ DOMAIN ratified = 0 .. n /\ a \in DOMAIN storage.commits
      BY <3>1, <3>3 DEF IsCatalog
    <3>5. DOMAIN storage.commits = 0 .. p /\ p \in Nat /\ p <= n
      <4>1. DOMAIN storage.commits = 0 .. p /\ p \in 0 .. m /\ m \in Nat /\ DOMAIN ratified = 0 .. m
        BY <3>2 DEF IsStore, Stored
      <4>2. p \in 0 .. n
        BY <3>4, <4>1
      <4> QED
        BY <3>4, <4>1, <4>2
    <3>6. PICK y : y = qq.latest_backfilled_version
      OBVIOUS
    <3>7. y \in DOMAIN storage.commits /\ qq.version = n + 1
      BY <3>4, <3>6 DEF IInv, RequestSet, Accepts
    <3>8. a \in Nat /\ a <= n /\ y \in Nat /\ y <= n
      BY <3>4, <3>5, <3>7
    <3>9. PICK x : x = IF a <= y THEN y ELSE a
      OBVIOUS
    <3>10. x \in DOMAIN storage.commits /\ x \in Int /\ x <= n
      BY <3>4, <3>7, <3>8, <3>9
    <3>11. cleanup_published_commits(run, y) = Run(ratified, x, n, x)
      BY <3>3, <3>4, <3>8, <3>9, <2>CleanedIs
    <3>12. PICK e : e = CommitEntry(n + 1, qq.id, TRUE)
      BY Zenon
    <3>13. PICK r2 : r2 = ratified'
      OBVIOUS
    <3>14. r2 = [v \in DOMAIN ratified \cup {qq.version} |->
                   IF v = qq.version THEN qq.id ELSE ratified[v]]
      BY <3>13 DEF Ratify
    <3>15. Appends(ratified, r2, n, qq)
      <4>1. 0 .. n \cup {n + 1} = 0 .. n + 1 /\ n + 1 \notin 0 .. n /\ n + 1 \in 0 .. n + 1
        BY <3>4
      <4> QED
        BY <3>4, <3>7, <3>14, <4>1 DEF Appends
    <3>16. catalog' = [max_ratified_version |-> n + 1,
                       catalog_commits |-> Append(Run(ratified, x, n, x), e)]
      BY Zenon, <3>4, <3>6, <3>7, <3>11, <3>12 DEF Ratify
    <3>17. Run(r2, x, n, x) = Run(ratified, x, n, x)
      <4>1. x >= -1 /\ n \in DOMAIN ratified
        BY <3>4, <3>5, <3>10
      <4>2. Kept(ratified, r2, n, x, n)
        BY Zenon, <3>4, <3>10, <3>15, <4>1 DEF Kept, Appends
      <4> QED
        BY <4>2, RunStays
    <3>18. Append(Run(r2, x, n, x), e) = Run(r2, x, n + 1, x)
      <4>1. (n + 1 > x) = TRUE
        BY <3>4, <3>10
      <4>2. IsEntry(e, r2, n + 1, x)
        BY Zenon, <3>12, <3>15, <4>1 DEF IsEntry, Appends
      <4>3. Follows(r2, x, n, x, n + 1, e)
        BY <3>4, <3>10, <4>2 DEF Follows
      <4> QED
        BY <4>3, RunAppend
    <3>19. IsCatalog(catalog', r2, storage, x, n + 1)
      BY <3>4, <3>10, <3>15, <3>16, <3>17, <3>18 DEF IsCatalog, Appends
    <3> QED
      BY Zenon, <3>13, <3>15, <3>19 DEF CatalogOK
  <2>AttemptsRatified.
      ASSUME NEW Q, NEW K, NEW r, AttemptsOK(Q, K, r), \A t \in Q : t.retry \in Nat,
             \A c \in Clients : K[c].pc = "posting" => K[c].retry \in Nat,
             NEW qq \in Q, NEW Q2, Q2 \subseteq Q \ {qq}, NEW r2, NEW n, Appends(r, r2, n, qq)
      PROVE  AttemptsOK(Q2, K, r2)
    <3> USE <2>AttemptsRatified
    <3>1. /\ \A v \in DOMAIN r2 : v \in DOMAIN r \/ v = n + 1
          /\ \A v \in DOMAIN r : r2[v] = r[v]
          /\ r2[n + 1] = qq.id /\ qq.version = n + 1
      BY DEF Appends
    <3>2. OneVersion(Q2)
      BY DEF AttemptsOK, OneVersion
    <3>3. ASSUME NEW c \in Clients, K[c].pc = "posting", NEW t \in Q2, t.id = K[c].id
          PROVE  Mine(t, K, r2, c)
      <4>1. Mine(t, K, r, c)
        BY <3>3 DEF AttemptsOK, PostsOK
      <4>2. ASSUME K[c].retry = 0, qq.id = t.id
            PROVE  FALSE
        <5>1. qq.retry <= 0 /\ t.retry <= 0
          BY <3>3, <4>1, <4>2 DEF AttemptsOK, PostsOK, Mine
        <5>2. qq.retry = 0 /\ t.retry = 0
          BY <5>1
        <5>3. qq = t
          <6>1. OneVersion(Q)
            BY Zenon DEF AttemptsOK
          <6>2. qq \in Q /\ t \in Q
            BY Zenon, <3>3
          <6> QED
            BY Zenon, <4>2, <5>2, <6>1, <6>2 DEF OneVersion
        <5> QED
          BY Zenon, <5>3
      <4> QED
        BY Zenon, <3>1, <4>1, <4>2 DEF Mine
    <3>4. PostsOK(Q2, K, r2)
      BY <3>3 DEF PostsOK
    <3>5. ASSUME NEW v \in DOMAIN r2, NEW t \in Q2, r2[v] = t.id
          PROVE  v = t.version
      <4>1. CASE v \in DOMAIN r
        BY <3>1, <3>5, <4>1 DEF AttemptsOK, RatifiedOK
      <4>2. CASE v = n + 1
        BY Zenon, <3>1, <3>5, <4>2 DEF AttemptsOK, OneVersion
      <4> QED
        BY Zenon, <3>1, <4>1, <4>2
    <3>6. ASSUME NEW v \in DOMAIN r2, NEW c \in Clients, K[c].pc = "posting", r2[v] = K[c].id
          PROVE  v = K[c].segment.version + 1
      <4>1. CASE v \in DOMAIN r
        <5>1. RatifiedOK(Q, K, r)
          BY DEF AttemptsOK
        <5>2. r[v] = K[c].id
          BY Zenon, <3>1, <3>6, <4>1
        <5> QED
          BY ONLY Zenon, <3>6, <4>1, <5>1, <5>2, c \in Clients DEF RatifiedOK
      <4>2. CASE v = n + 1
        <5>1. Mine(qq, K, r, c)
          BY <3>1, <3>6, <4>2 DEF AttemptsOK, PostsOK
        <5> QED
          BY Zenon, <3>1, <4>2, <5>1 DEF Mine
      <4> QED
        BY <3>1, <4>1, <4>2
    <3> QED
      BY Zenon, <3>2, <3>4, <3>5, <3>6 DEF AttemptsOK, RatifiedOK
  <2>OutcomesRatified.
      ASSUME NEW o, NEW Q, NEW K, NEW r, AttemptsOK(Q, K, r), OutcomesOK(o, Q, K, r),
             NEW qq \in Q, qq.id \in 1 .. Len(o), NEW Q2, Q2 \subseteq Q,
             NEW r2, NEW n, Appends(r, r2, n, qq)
      PROVE  OutcomesOK(o, Q2, K, r2)
    <3> USE <2>OutcomesRatified
    <3>1. /\ \A v \in DOMAIN r2 : v \in DOMAIN r \/ v = n + 1
          /\ \A v \in DOMAIN r : r2[v] = r[v] /\ v \in DOMAIN r2 /\ v # n + 1
          /\ r2[n + 1] = qq.id /\ qq.version = n + 1
      BY DEF Appends
    <3>2. ASSUME NEW v \in DOMAIN r
          PROVE  r[v] # qq.id
      <4>1. r[v] = qq.id => v = qq.version
        BY DEF AttemptsOK, RatifiedOK
      <4> QED
        BY <3>1, <4>1
    <3>3. ASSUME NEW v \in DOMAIN r2
          PROVE  r2[v] \in 0 .. Len(o)
      <4>1. CASE v \in DOMAIN r
        BY <3>1, <4>1 DEF OutcomesOK
      <4>2. CASE v = n + 1
        <5>1. Len(o) \in Nat
          BY DEF OutcomesOK
        <5> QED
          BY <3>1, <4>2, <5>1
      <4> QED
        BY <3>1, <4>1, <4>2
    <3>4. \A i \in DOMAIN o : o[i] = "rejected" => Over(i, Q2, K) /\ i # qq.id
      BY DEF OutcomesOK, Over
    <3>5. ToldTruth(o, r2)
      <4>1. ASSUME NEW i \in DOMAIN o, o[i] = "committed"
            PROVE  \E v \in DOMAIN r2 : r2[v] = i
        <5>1. PICK v \in DOMAIN r : r[v] = i
          BY <4>1 DEF OutcomesOK, ToldTruth
        <5> QED
          BY <3>1, <5>1
      <4>2. ASSUME NEW i \in DOMAIN o, o[i] = "rejected", NEW v \in DOMAIN r2
            PROVE  r2[v] # i
        <5>1. CASE v \in DOMAIN r
          BY <3>1, <4>2, <5>1 DEF OutcomesOK, ToldTruth
        <5>2. CASE v = n + 1
          BY <3>1, <3>4, <4>2, <5>2
        <5> QED
          BY <3>1, <5>1, <5>2
      <4> QED
        BY <4>1, <4>2 DEF ToldTruth
    <3>6. OnceEach(r2)
      <4>1. ASSUME NEW u \in DOMAIN r2, NEW v \in DOMAIN r2, r2[u] = r2[v]
            PROVE  u = v
        <5>1. CASE u \in DOMAIN r /\ v \in DOMAIN r
          BY <3>1, <4>1, <5>1 DEF OutcomesOK, OnceEach
        <5>2. CASE u = n + 1 /\ v \in DOMAIN r
          BY <3>1, <3>2, <4>1, <5>2
        <5>3. CASE v = n + 1 /\ u \in DOMAIN r
          BY Zenon, <3>1, <3>2, <4>1, <5>3
        <5> QED
          BY <3>1, <5>1, <5>2, <5>3
      <4> QED
        BY <4>1 DEF OnceEach
    <3> QED
      BY <3>3, <3>4, <3>5, <3>6 DEF OutcomesOK
  <2>OutcomeTold.
      ASSUME NEW o, NEW Q, NEW K, NEW r, OutcomesOK(o, Q, K, r), NEW i, NEW x, NEW o2,
             Tells(o, i, x, o2), Truthful(x, i, Q, K, r)
      PROVE  OutcomesOK(o2, Q, K, r) /\ Len(o2) = Len(o)
    <3> USE <2>OutcomeTold
    <3>1. o \in Seq(Answers)
      BY DEF OutcomesOK
    <3> i \in DOMAIN o /\ o2 = [o EXCEPT ![i] = x]
      BY DEF Tells
    <3>2. o2 \in Seq(Answers) /\ Len(o2) = Len(o) /\ DOMAIN o2 = DOMAIN o
      BY <3>1 DEF Truthful
    <3>3. o2[i] = x /\ \A j \in DOMAIN o : j # i => o2[j] = o[j]
      BY <3>1
    <3>4. \A j \in DOMAIN o2 : o2[j] = "rejected" => Over(j, Q, K)
      BY <3>2, <3>3 DEF OutcomesOK, Truthful
    <3>5. ToldTruth(o2, r)
      <4>1. ToldTruth(o, r)
        BY DEF OutcomesOK
      <4> QED
        BY <3>2, <3>3, <4>1 DEF ToldTruth, Truthful
    <3> QED
      BY <3>2, <3>4, <3>5 DEF OutcomesOK
  (* LogSegment::new_with_commit_appended: the snapshot after the commit is a *)
  (* segment of the history that has it.                                      *)
  <2>SegmentAppended.
      ASSUME NEW s, NEW r, NEW S, SegmentOK(s, r, S), NEW r2, NEW n, NEW qq, Appends(r, r2, n, qq),
             s.version + 1 = qq.version
      PROVE  SegmentOK(new_with_commit_appended(s, CommitEntry(qq.version, qq.id, TRUE)), r2, S)
    <3> USE <2>SegmentAppended
    <3>1. PICK v, cp, a, mp : IsSegment(s, r, S, v, cp, a, mp)
      BY DEF SegmentOK
    <3>2. /\ v \in Nat /\ cp \in Int /\ a \in Nat /\ mp \in Nat /\ cp <= mp /\ a <= mp /\ mp <= v
          /\ s = Segment(r, v, cp, a, mp) /\ s.version = v /\ cp >= -1
      BY ONLY <3>1 DEF IsSegment, Segment, NoVersion
    <3>3. /\ n \in Nat /\ DOMAIN r = 0 .. n /\ qq.version = n + 1 /\ DOMAIN r2 = 0 .. n + 1
          /\ r2[n + 1] = qq.id /\ \A x \in 0 .. n : r2[x] = r[x]
      BY DEF Appends
    <3>4. v = n
      BY <3>2, <3>3
    <3>5. PICK w \in Nat : w = n + 1
      BY <3>3
    <3>6. PICK e : e = CommitEntry(w, qq.id, TRUE)
      BY Zenon
    <3>7. PICK run : run = Run(r, cp, v, a)
      OBVIOUS
    <3>8. PICK more : more = Append(run, e)
      BY Zenon
    <3>9. more = Run(r2, cp, w, a)
      <4>1. Kept(r, r2, n, cp, v)
        BY <3>2, <3>3, <3>4 DEF Kept
      <4>2. run = Run(r2, cp, v, a)
        BY <3>7, <4>1, RunStays
      <4>3. (w > a) = TRUE
        BY <3>2, <3>4, <3>5
      <4>4. IsEntry(e, r2, w, a)
        BY Zenon, <3>3, <3>5, <3>6, <4>3 DEF IsEntry
      <4>5. cp <= v /\ w = v + 1 /\ v \in Int
        BY <3>2, <3>4, <3>5
      <4>6. Follows(r2, cp, v, a, w, e)
        BY <3>2, <4>4, <4>5 DEF Follows
      <4> QED
        BY <3>8, <4>2, <4>6, RunAppend
    <3>10. PICK u : u = new_with_commit_appended(s, e)
      OBVIOUS
    <3>11. u = Segment(r2, w, cp, a, mp)
      <4>1. PICK X : X = {TRUE, v, w, cp, run, more, {}, NoVersion, mp}
        BY Zenon
      <4>2. s \in SegmentOf(X) /\ w \in X /\ more \in X
        BY <3>2, <3>7, <4>1 DEF Segment, SegmentOf
      <4>3. e.version = w /\ e.staged = TRUE /\ s.commits = run
        BY <3>2, <3>6, <3>7 DEF CommitEntry, Segment
      <4>4. u = [s EXCEPT !.version = w, !.commits = more, !.latest_commit = w,
                          !.max_published = s.max_published]
        BY Zenon, <3>8, <3>10, <4>3 DEF new_with_commit_appended
      <4>5. u \in SegmentOf(X)
        BY Zenon, <4>2, <4>4 DEF SegmentOf
      <4>6. /\ u.ok = TRUE /\ u.version = w /\ u.checkpoint = cp /\ u.commits = more
            /\ u.compacted = {} /\ u.crc = NoVersion /\ u.latest_commit = w /\ u.max_published = mp
        BY <3>2, <4>2, <4>4 DEF SegmentOf, Segment
      <4> QED
        BY <3>9, <4>5, <4>6 DEF SegmentOf, Segment
    <3>12. w \in DOMAIN r2 /\ mp <= w
      BY ONLY <3>2, <3>3, <3>4, <3>5
    <3>13. IsSegment(u, r2, S, w, cp, a, mp)
      BY <3>1, <3>11, <3>12 DEF IsSegment
    <3> QED
      BY Zenon, <3>3, <3>5, <3>6, <3>10, <3>13 DEF SegmentOK
  <2>RequestHandled.
      ASSUME IInv, NEW qq \in requests, Ratify(qq), requests' \subseteq requests \ {qq}
      PROVE  Handled(catalog', ratified', requests')
    <3> USE <2>RequestHandled
    <3>1. requests' \subseteq requests /\ requests' \subseteq RequestSet(storage, Len(outcome))
      BY DEF IInv
    <3>2. CASE Accepts(qq)
      <4>1. CatalogOK(catalog', ratified', storage)
        BY <3>2, <2>RatifyAccepts
      <4>2. PICK n : Appends(ratified, ratified', n, qq)
        BY <3>2, <2>RatifyAccepts
      <4>3. StorageOK(storage, ratified') /\ Grows(storage, ratified, storage, ratified')
        BY <4>2, <2>StoreWithVersion DEF IInv
      <4>4. \A t \in requests : t.retry \in Nat /\ t.id \in 1 .. Len(outcome)
        BY DEF IInv, RequestSet
      <4>5. \A c \in Clients : client[c].pc = "posting" => client[c].retry \in Nat
        <5>1. ASSUME NEW c \in Clients, client[c].pc = "posting"
              PROVE  client[c].retry \in Nat
          <6>1. IsPosting(client[c], ratified, storage, Len(outcome))
            BY Zenon, <5>1, KnownClient DEF Shaped
          <6> QED
            BY <6>1 DEF IsPosting, Posts, Posting
        <5> QED
          BY <5>1
      <4>6. AttemptsOK(requests', client, ratified')
        BY Zenon, <4>2, <4>4, <4>5, <2>AttemptsRatified DEF IInv
      <4>7. OutcomesOK(outcome, requests', client, ratified')
        BY <3>1, <4>2, <4>4, <2>OutcomesRatified DEF IInv
      <4> QED
        BY Zenon, <3>1, <4>1, <4>3, <4>6, <4>7 DEF Handled
    <3>3. CASE ~Accepts(qq)
      <4>1. UNCHANGED <<catalog, ratified>>
        BY <3>3 DEF Ratify
      <4>2. Grows(storage, ratified, storage, ratified) /\ Calms(client, client)
        BY DEF Grows, Calms
      <4>3. AttemptsOK(requests', client, ratified)
        BY <3>1, <4>2, AttemptsStay DEF IInv
      <4>4. OutcomesOK(outcome, requests', client, ratified)
        BY <3>1, <4>2, OutcomesStay DEF IInv
      <4> QED
        BY Zenon, <3>1, <4>1, <4>2, <4>3, <4>4 DEF Handled, IInv
    <3> QED
      BY <3>2, <3>3
  <2> USE <1>HandleRequestStep
  <2>1. /\ Ratify(q) /\ requests' \subseteq requests \ {q} /\ UNCHANGED <<storage, last_checkpoint>>
        /\ \/ Waits(q.client, q) /\ Answered(q)
           \/ UNCHANGED <<client, outcome>>
    BY DEF HandleRequest
  <2>2. Handled(catalog', ratified', requests')
    BY <2>1, <2>RequestHandled
  <2>3. PICK n \in Nat : n = Len(outcome)
    BY DEF IInv, OutcomesOK
  <2>4. n <= n /\ StorageOK(storage, ratified) /\ Grows(storage, ratified, storage, ratified')
    BY <2>2, <2>3 DEF IInv, Handled
  <2>5. CASE UNCHANGED <<client, outcome>>
    <3>1. ASSUME NEW c \in Clients
          PROVE  ClientOK(client[c], ratified', storage, n)
      <4>1. ClientOK(client[c], ratified, storage, n)
        BY <2>3 DEF IInv, ClientsOK
      <4> QED
        BY <2>4, <4>1, ClientStays
    <3>2. ClientsOK(client, ratified', storage, n)
      BY <3>1 DEF IInv, ClientsOK
    <3> QED
      BY Zenon, <2>1, <2>2, <2>3, <2>5, <3>2 DEF IInv, Handled
  <2>6. CASE Waits(q.client, q) /\ Answered(q)
    <3>1. PICK c \in Clients : c = q.client
      BY DEF IInv, RequestSet
    <3>2. client[c].pc = "posting" /\ client[c].id = q.id /\ client[c].retry = q.retry
      BY Zenon, <2>6, <3>1 DEF Waits
    <3>3. PICK s, id, t : Posts(client[c], ratified, storage, n, s, id, t)
      BY <2>3, <3>2, KnownClient DEF Shaped, IsPosting
    <3>4. SegmentOK(s, ratified, storage) /\ client[c].segment = s
      <4>1. SegmentOK(s, ratified, storage) /\ client[c] = Posting(s, id, t)
        BY Zenon, <3>3 DEF Posts
      <4>2. Posting(s, id, t).segment = s
        BY ONLY DEF Posting
      <4> QED
        BY Zenon, <4>1, <4>2
    <3>5. Mine(q, client, ratified, c)
      BY <3>2 DEF IInv, AttemptsOK, PostsOK
    <3>6. q.version = s.version + 1
      BY <3>4, <3>5 DEF Mine
    <3>7. q.id \in DOMAIN outcome
      BY DEF IInv, RequestSet, OutcomesOK
    <3>8. ClientsOK(client, ratified, storage, n)
      BY <2>3 DEF IInv
    <3>9. client = [d \in Clients |-> client[d]]
      BY <3>8 DEF ClientsOK
    <3>10. ASSUME NEW k, client' = [client EXCEPT ![c] = k], k.pc # "posting",
                  ClientOK(k, ratified', storage, n), NEW x,
                  Truthful(x, q.id, requests', client', ratified'),
                  outcome' = [outcome EXCEPT ![q.id] = x]
           PROVE  IInv'
      <4>1. ClientsOK(client', ratified', storage, n)
        BY Zenon, <2>4, <3>8, <3>10, ClientsMove
      <4>2. client'[c] = k /\ \A d \in Clients : d # c => client'[d] = client[d]
        BY <3>9, <3>10, OneMoves
      <4>3. Calms(client, client') /\ requests' \subseteq requests'
        BY <3>10, <4>2 DEF Calms
      <4>4. AttemptsOK(requests', client', ratified')
        BY <2>2, <4>3, AttemptsStay DEF Handled
      <4>5. OutcomesOK(outcome, requests', client', ratified')
        BY <2>2, <4>3, OutcomesStay DEF Handled
      <4>6. OutcomesOK(outcome', requests', client', ratified') /\ Len(outcome') = Len(outcome)
        <5>1. PICK i, o2, Q2, K2, r2 : /\ i = q.id /\ o2 = outcome' /\ Q2 = requests'
                                       /\ K2 = client' /\ r2 = ratified'
          OBVIOUS
        <5>2. OutcomesOK(outcome, Q2, K2, r2) /\ i \in DOMAIN outcome
          BY <3>7, <4>5, <5>1
        <5>3. Truthful(x, i, Q2, K2, r2) /\ Tells(outcome, i, x, o2)
          BY <3>10, <5>1, <5>2 DEF Tells
        <5>4. OutcomesOK(o2, Q2, K2, r2) /\ Len(o2) = Len(outcome)
          BY <5>2, <5>3, <2>OutcomeTold
        <5> QED
          BY <5>1, <5>4
      <4> QED
        BY <2>1, <2>2, <2>3, <4>1, <4>4, <4>6 DEF IInv, Handled
    <3>11. CASE Accepts(q)
      <4>1. PICK m : Appends(ratified, ratified', m, q)
        BY <2>1, <3>11, <2>RatifyAccepts
      <4>2. PICK s2 : s2 = new_with_commit_appended(s, CommitEntry(q.version, q.id, TRUE))
        BY Zenon
      <4>3. SegmentOK(s2, ratified', storage)
        BY Zenon, <3>4, <3>6, <4>1, <4>2, <2>SegmentAppended
      <4>4. ClientOK(Ready(s2), ratified', storage, n) /\ Ready(s2).pc # "posting"
        BY <4>3 DEF ClientOK, IsReady, Ready
      <4>5. /\ client' = [client EXCEPT ![c] = Ready(s2)]
            /\ outcome' = [outcome EXCEPT ![q.id] = "committed"]
        BY Zenon, <2>6, <3>1, <3>4, <3>11, <4>2 DEF Answered, Set
      <4>6. \E v \in DOMAIN ratified' : ratified'[v] = q.id
        BY <4>1 DEF Appends
      <4>7. Truthful("committed", q.id, requests', client', ratified')
        BY <4>6 DEF Truthful, Answers
      <4> QED
        BY Zenon, <3>10, <4>4, <4>5, <4>7
    <3>12. CASE ~Accepts(q)
      <4>1. PICK x : x = IF q.retry = 0 THEN "rejected" ELSE "unknown"
        OBVIOUS
      <4>2. /\ client' = [client EXCEPT ![c] = Idle]
            /\ outcome' = [outcome EXCEPT ![q.id] = x]
        BY <2>6, <3>1, <3>12, <4>1 DEF Answered, Set
      <4>3. ratified' = ratified
        BY <2>1, <3>12 DEF Ratify
      <4>4. x \in Answers /\ x # "committed"
        BY <4>1 DEF Answers
      <4>5. ClientOK(Idle, ratified', storage, n) /\ Idle.pc # "posting"
        BY DEF ClientOK, Idle
      <4>6. ASSUME x = "rejected"
            PROVE  /\ Over(q.id, requests', client')
                   /\ \A v \in DOMAIN ratified' : ratified'[v] # q.id
        <5>1. q.retry = 0
          BY <4>1, <4>6
        <5>2. ASSUME NEW y \in requests', y.id = q.id
              PROVE  FALSE
          <6>1. y \in requests /\ y # q
            BY <2>1
          <6>2. y.retry <= 0 /\ y.retry \in Nat
            <7>1. Mine(y, client, ratified, c)
              BY <3>2, <5>2, <6>1 DEF IInv, AttemptsOK, PostsOK
            <7>2. y.retry \in Nat
              BY <6>1 DEF IInv, RequestSet
            <7> QED
              BY Zenon, <3>2, <5>1, <7>1, <7>2 DEF Mine
          <6>3. y.retry = q.retry
            BY <5>1, <6>2
          <6> QED
            BY Zenon, <5>2, <6>1, <6>3 DEF IInv, AttemptsOK, OneVersion
        <5>3. ASSUME NEW d \in Clients, client'[d].pc = "posting", client'[d].id = q.id
              PROVE  FALSE
          <6>1. client'[c] = Idle /\ \A e \in Clients : e # c => client'[e] = client[e]
            BY Zenon, <3>9, <4>2, OneMoves
          <6>2. d # c /\ client'[d] = client[d]
            BY <4>5, <5>3, <6>1
          <6> QED
            BY <3>2, <5>3, <6>2 DEF IInv, AttemptsOK, OnePoster
        <5>4. \A v \in DOMAIN ratified : ratified[v] # q.id
          BY <3>2, <3>5, <5>1 DEF Mine
        <5> QED
          BY <4>3, <5>2, <5>3, <5>4 DEF Over
      <4>7. Truthful(x, q.id, requests', client', ratified')
        BY <4>4, <4>6 DEF Truthful
      <4> QED
        BY Zenon, <3>10, <4>2, <4>5, <4>7
    <3> QED
      BY <3>11, <3>12
  <2> QED
    BY <2>1, <2>5, <2>6
<1>1. Init => IInv
  BY <1>InitOK
<1>2. IInv /\ [Next]_vars => IInv'
  <2>1. SUFFICES ASSUME IInv, [Next]_vars
                 PROVE  IInv'
    OBVIOUS
  <2>2. CASE UNCHANGED vars
    BY <2>1, <2>2 DEF vars, IInv
  <2>3. ASSUME NEW c \in Clients, GetCommits(c)
        PROVE  IInv'
    BY <2>1, <2>3, <1>GetCommitsStep
  <2>4. ASSUME NEW c \in Clients, BuildSnapshot(c)
        PROVE  IInv'
    BY Zenon, <2>1, <2>4, <1>BuildSnapshotStep
  <2>5. ASSUME NEW c \in Clients, StageCommit(c)
        PROVE  IInv'
    BY <2>1, <2>5, <1>StageCommitStep
  <2>6. ASSUME NEW c \in Clients, RequestFails(c)
        PROVE  IInv'
    BY <2>1, <2>6, <1>RequestFailsStep
  <2>7. ASSUME NEW c \in Clients, StartPublish(c)
        PROVE  IInv'
    BY <2>1, <2>7, <1>StartPublishStep
  <2>8. ASSUME NEW c \in Clients, PublishOne(c)
        PROVE  IInv'
    BY <2>1, <2>8, <1>PublishOneStep
  <2>9. ASSUME NEW c \in Clients, WriteCheckpoint(c)
        PROVE  IInv'
    BY <2>1, <2>9, <1>WriteCheckpointStep
  <2>10. ASSUME NEW c \in Clients, WriteHint(c)
         PROVE  IInv'
    BY <2>1, <2>10, <1>WriteHintStep
  <2>11. ASSUME NEW c \in Clients, Abandon(c)
         PROVE  IInv'
    BY <2>1, <2>11, <1>AbandonStep
  <2>12. ASSUME NEW q \in requests, HandleRequest(q)
         PROVE  IInv'
    BY <2>1, <2>12, <1>HandleRequestStep
  <2>13. ASSUME NEW v \in ForeignVersions, ForeignCheckpoint(v)
         PROVE  IInv'
    BY Zenon, <2>1, <2>13, <1>ForeignCheckpointStep
  <2> QED
    BY <2>1, <2>2, <2>3, <2>4, <2>5, <2>6, <2>7, <2>8, <2>9, <2>10, <2>11, <2>12, <2>13 DEF Next
<1> QED
  BY <1>1, <1>2

----------------------------------------------------------------------------
(* What the invariant says of the history and of the segments.              *)

----------------------------------------------------------------------------
(* The theorems.  What the lemmas above assume of the naturals is a theorem *)
(* of the library.                                                          *)
LOCAL INSTANCE WellFoundedInduction

(* The naturals are well ordered.                                           *)
LEMMA NaturalsAreWellOrdered == WellOrdered
<1> SUFFICES ASSUME NEW T \in SUBSET Nat, T # {}
             PROVE  \E m \in T : \A k \in T : m <= k
  BY DEF WellOrdered
<1>1. PICK m \in T : \A k \in T : ~(<<k, m>> \in OpToRel(<, Nat))
  BY NatLessThanWellFounded, WFMin
<1>2. \A k \in T : ~(k < m)
  BY <1>1 DEF OpToRel
<1> QED
  BY <1>2

(* LogSegment::for_snapshot_impl after any delay: given the staged commits  *)
(* up to a version, as the catalog served them when version a was           *)
(* published, and a log in which more is published, checkpointed and hinted *)
(* at by now, a segment it returns is a part of the ratified history that   *)
(* ends at that version, and it returns one unless some version has         *)
(* checkpoints of both formats.                                             *)
THEOREM SnapshotLoads ==
    ASSUME NEW S, NEW r, NEW p, NEW a, NEW end, NEW hint, Loadable(S, r, p, a, end, hint),
           NEW s, s = for_snapshot(S, Run(r, a, end, a), hint, end)
    PROVE  Loaded(s, r, S) /\ (s.ok => s.version = end)
<1>1. Loaded(s, r, S)
  BY Zenon, ForSnapshotLoads, NaturalsAreWellOrdered
<1>2. \A L : try_new(L, end).ok => try_new(L, end).version = end
  BY DEF try_new, NoSegment
<1>3. ~NoSegment.ok
  BY DEF NoSegment
<1>4. s = NoSegment \/ \E L : s = try_new(L, end)
  BY Zenon DEF for_snapshot
<1> QED
  BY <1>1, <1>2, <1>3, <1>4

(* The invariant of Catalog: every listing, snapshot, publication and       *)
(* request is about a part of the one history the catalog ratified, however *)
(* the clients, the catalog and the transport interleave.                   *)
THEOREM CatalogInvariant == Spec => []IInv
<1>1. (Init => IInv) /\ (IInv /\ [Next]_vars => IInv')
  BY CatalogInductive, NaturalsAreWellOrdered
<1> QED
  BY <1>1, PTL DEF Spec

(* The history, the published part of it and the part that the catalog      *)
(* keeps.                                                                   *)
LEMMA HistoryIs ==
    ASSUME IInv
    PROVE  \E p, n, a :
             /\ p \in Nat /\ n \in Nat /\ p <= n /\ DOMAIN ratified = 0 .. n
             /\ Stored(storage, ratified, p) /\ DOMAIN storage.commits = 0 .. p
             /\ \A v \in 0 .. p : storage.commits[v] = ratified[v]
             /\ a \in 0 .. p /\ catalog.catalog_commits = Run(ratified, a, n, a)
<1>1. PICK p, m : IsStore(storage, ratified, p, m)
  BY DEF IInv, StorageOK
<1>2. PICK a, n : IsCatalog(catalog, ratified, storage, a, n)
  BY DEF IInv, CatalogOK
<1>3. /\ n \in Nat /\ DOMAIN ratified = 0 .. n /\ a \in DOMAIN storage.commits
      /\ catalog.catalog_commits = Run(ratified, a, n, a)
  BY <1>2 DEF IsCatalog
<1>4. /\ p \in 0 .. m /\ m \in Nat /\ DOMAIN ratified = 0 .. m /\ Stored(storage, ratified, p)
      /\ DOMAIN storage.commits = 0 .. p
      /\ \A v \in 0 .. p : storage.commits[v] = ratified[v]
  BY <1>1 DEF IsStore, Stored
<1>5. p \in 0 .. n
  BY <1>3, <1>4
<1>6. p \in Nat /\ p <= n /\ a \in 0 .. p
  BY <1>3, <1>4, <1>5
<1> QED
  BY <1>3, <1>4, <1>6

(* Whatever a client does with a snapshot, the snapshot is one of the       *)
(* history.                                                                 *)
LEMMA KnownSegments ==
    ASSUME IInv, NEW s \in Segments
    PROVE  SegmentOK(s, ratified, storage)
<1>1. PICK c \in Clients : client[c].pc \notin {"idle", "listing"} /\ s = client[c].segment
  BY DEF Segments
<1>2. PICK k, n : k = client[c] /\ n = Len(outcome)
  BY Zenon
<1>3. Shaped(k, ratified, storage, n)
  BY <1>2, KnownClient
<1>4. CASE IsReady(k, ratified, storage)
  BY <1>1, <1>2, <1>4 DEF IsReady, Ready
<1>5. CASE IsPosting(k, ratified, storage, n)
  BY <1>1, <1>2, <1>5 DEF IsPosting, Posts, Posting
<1>6. CASE IsPublishing(k, ratified, storage)
  BY <1>1, <1>2, <1>6 DEF IsPublishing, Publishes, Publishing
<1>7. CASE IsFinalizing(k, ratified, storage)
  BY <1>1, <1>2, <1>7 DEF IsFinalizing, Finalizes, Finalizing
<1> QED
  BY <1>1, <1>2, <1>3, <1>4, <1>5, <1>6, <1>7 DEF Shaped

(* TableData::commit and UCCommitter::publish: whatever is published,       *)
(* cleaned up, repeated or lost, every ratified commit can be read.         *)
THEOREM CatalogLosesNothing == Spec => []NothingRatifiedIsLost
<1>NothingLost.
    ASSUME IInv
    PROVE  NothingRatifiedIsLost
  <2> USE <1>NothingLost
  <2>1. PICK p, n, a :
          /\ p \in Nat /\ n \in Nat /\ p <= n /\ DOMAIN ratified = 0 .. n
          /\ DOMAIN storage.commits = 0 .. p
          /\ \A v \in 0 .. p : storage.commits[v] = ratified[v]
          /\ a \in 0 .. p /\ catalog.catalog_commits = Run(ratified, a, n, a)
    BY HistoryIs
  <2>2. PICK run : run = Run(ratified, a, n, a)
    OBVIOUS
  <2>3. IsRun(run, ratified, a, n, a)
    <3>1. a \in Int /\ n \in Int /\ a <= n
      BY <2>1
    <3> QED
      BY <2>2, <3>1, RunType
  <2>4. ASSUME NEW v \in DOMAIN ratified, v \notin DOMAIN storage.commits
        PROVE  \E i \in DOMAIN run : run[i] = CommitEntry(v, ratified[v], TRUE)
    <3>1. v - a \in 1 .. n - a /\ a + (v - a) = v /\ (v > a) = TRUE
      BY <2>1, <2>4
    <3>2. run[v - a] = CommitEntry(v, ratified[v], TRUE) /\ v - a \in DOMAIN run
      BY Zenon, <2>3, <3>1 DEF IsRun
    <3> QED
      BY Zenon, <3>2
  <2> QED
    BY Zenon, <2>1, <2>2, <2>4 DEF NothingRatifiedIsLost
<1>1. IInv => NothingRatifiedIsLost
  BY <1>NothingLost
<1> QED
  BY <1>1, CatalogInvariant, PTL

(* UCCommitter::publish and the checkpoint writers: versions are published  *)
(* in order and with their ratified content, and only published versions    *)
(* are checkpointed.                                                        *)
THEOREM PublicationIsInOrder == Spec => []PublishedInOrder
<1>InOrder.
    ASSUME IInv
    PROVE  PublishedInOrder
  <2> USE <1>InOrder
  <2>1. PICK p, n, a :
          /\ p \in Nat /\ n \in Nat /\ p <= n /\ DOMAIN ratified = 0 .. n
          /\ Stored(storage, ratified, p) /\ DOMAIN storage.commits = 0 .. p
          /\ \A v \in 0 .. p : storage.commits[v] = ratified[v]
    BY HistoryIs
  <2>2. ASSUME NEW v \in DOMAIN storage.commits, NEW u \in 0 .. v
        PROVE  /\ u \in DOMAIN storage.commits /\ u \in DOMAIN ratified
               /\ storage.commits[u] = ratified[u]
    <3>1. u \in 0 .. p /\ u \in 0 .. n
      BY <2>1
    <3> QED
      BY <2>1, <3>1
  <2>3. storage.single \subseteq DOMAIN storage.commits
    BY <2>1 DEF Stored
  <2>4. ASSUME NEW x \in storage.parts
        PROVE  x[1] \in DOMAIN storage.commits
    <3>1. PICK v \in 0 .. p, i \in 1 .. 2 : x = <<v, i, 2>>
      BY Zenon, <2>1 DEF Stored
    <3> QED
      BY <2>1, <3>1
  <2> QED
    BY <2>2, <2>3, <2>4 DEF PublishedInOrder
<1>1. IInv => PublishedInOrder
  BY <1>InOrder
<1> QED
  BY <1>1, CatalogInvariant, PTL

(* load_snapshot_inner and LogSegment::for_snapshot_impl: every snapshot a  *)
(* client holds is the table as ratified.                                   *)
THEOREM SnapshotsAreHistory == Spec => []SnapshotIsHistory
<1>SegmentsAreHistory.
    ASSUME IInv
    PROVE  SnapshotIsHistory
  <2> USE <1>SegmentsAreHistory
  <2>1. ASSUME NEW s \in Segments
        PROVE  /\ s.version \in DOMAIN ratified
               /\ Len(s.commits) = s.version - s.checkpoint
               /\ \A i \in DOMAIN s.commits :
                    LET e == s.commits[i]
                    IN e.version = s.checkpoint + i /\ e.id = ratified[e.version]
               /\ s.latest_commit = s.version
               /\ s.max_published \in DOMAIN storage.commits
               /\ \/ s.checkpoint \in storage.single \cup {NoVersion}
                  \/ {<<s.checkpoint, i, 2>> : i \in 1..2} \subseteq storage.parts
    <3>1. SegmentOK(s, ratified, storage)
      BY KnownSegments
    <3>2. PICK v, cp, a, mp : IsSegment(s, ratified, storage, v, cp, a, mp)
      BY <3>1 DEF SegmentOK
    <3>3. PICK run : run = Run(ratified, cp, v, a)
      OBVIOUS
    <3>4. /\ s.version = v /\ s.checkpoint = cp /\ s.commits = run /\ s.latest_commit = v
          /\ s.max_published = mp
      BY <3>2, <3>3 DEF IsSegment, Segment
    <3>5. v \in DOMAIN ratified /\ mp \in DOMAIN storage.commits /\ cp \in Int /\ v \in Int /\ cp <= v
      <4>1. /\ v \in DOMAIN ratified /\ mp \in DOMAIN storage.commits
            /\ cp \in Int /\ v \in Nat /\ mp \in Nat /\ cp <= mp /\ mp <= v
        BY Zenon, <3>2 DEF IsSegment
      <4>2. v \in Int /\ cp <= v
        BY ONLY <4>1
      <4> QED
        BY Zenon, <4>1, <4>2
    <3>6. IsRun(run, ratified, cp, v, a)
      BY Zenon, <3>3, <3>5, RunType
    <3>7. Len(run) = v - cp /\ \A i \in DOMAIN run : /\ run[i].version = cp + i
                                                     /\ run[i].id = ratified[cp + i]
      BY <3>6 DEF IsRun, CommitEntry
    <3>8. \/ cp \in storage.single \cup {NoVersion}
          \/ <<cp, 1, 2>> \in storage.parts /\ <<cp, 2, 2>> \in storage.parts
      BY <3>2 DEF IsSegment, HasCheckpoint
    <3>9. \/ cp \in storage.single \cup {NoVersion}
          \/ {<<cp, i, 2>> : i \in 1..2} \subseteq storage.parts
      <4>1. \A i \in 1 .. 2 : i = 1 \/ i = 2
        OBVIOUS
      <4> QED
        BY <3>8, <4>1
    <3> QED
      BY <3>4, <3>5, <3>7, <3>9
  <2> QED
    BY <2>1 DEF SnapshotIsHistory
<1>1. IInv => SnapshotIsHistory
  BY <1>SegmentsAreHistory
<1> QED
  BY <1>1, CatalogInvariant, PTL

(* A client with the catalog's answer can build its snapshot, and Snapshot  *)
(* ::publish can publish what is unpublished of it.                         *)
THEOREM LoadsAndPublicationsSucceed == Spec => []LoadAndPublishSucceed
<1>AllSucceed.
    ASSUME IInv
    PROVE  LoadAndPublishSucceed
  <2> USE <1>AllSucceed
  <2>1. ASSUME OneFormat, NEW c \in Clients, client[c].pc = "listing"
        PROVE  Load(c).ok
    <3>1. Loaded(Load(c), ratified, storage)
      BY <2>1, LoadedIs, NaturalsAreWellOrdered
    <3>2. OneFormatIn(storage)
      BY <2>1 DEF OneFormat, OneFormatIn
    <3> QED
      BY <3>1, <3>2 DEF Loaded
  <2>2. ASSUME NEW s \in Segments, NEW commits, commits = get_unpublished_catalog_commits(s)
        PROVE  /\ commits = <<>> => s.max_published = s.version
               /\ commits # <<>> => /\ Publishable(s, commits)
                                    /\ commits[1].version = s.max_published + 1
    <3>1. SegmentOK(s, ratified, storage)
      BY KnownSegments
    <3>2. PICK mp : Unpublished(s, ratified, storage, mp)
      BY <3>1, UnpublishedIs, NaturalsAreWellOrdered
    <3>3. PICK v : v = s.version
      OBVIOUS
    <3>4. /\ v \in Nat /\ mp \in Nat /\ mp <= v /\ s.max_published = mp
          /\ commits = Run(ratified, mp, v, mp)
      BY Zenon, <2>2, <3>1, <3>2, <3>3, SegmentVersion DEF Unpublished
    <3>5. CASE mp = v
      <4>1. commits = <<>>
        BY <3>4, <3>5, EmptyRun
      <4> QED
        BY <3>3, <3>4, <3>5, <4>1
    <3>6. CASE mp # v
      <4>1. mp < v /\ mp \in Int /\ v \in Int
        BY <3>4, <3>6
      <4>2. SpansTo(Run(ratified, mp, v, mp), mp, v)
        BY <4>1, RunEnd
      <4>3. Contiguous(Run(ratified, mp, v, mp))
        BY Zenon, <3>4, <4>1, RunContiguous
      <4> QED
        BY <3>3, <3>4, <4>2, <4>3 DEF SpansTo, Publishable
    <3> QED
      BY <3>5, <3>6
  <2> QED
    BY <2>1, <2>2 DEF LoadAndPublishSucceed
<1>1. IInv => LoadAndPublishSucceed
  BY <1>AllSucceed
<1> QED
  BY <1>1, CatalogInvariant, PTL

(* UCCommitter::commit over execute_with_retry: what it returns is true,    *)
(* and nothing is ratified twice.                                           *)
THEOREM CommitReportsAreTrue == Spec => []ReportsAreTrue
<1>1. IInv => ReportsAreTrue
  BY DEF IInv, OutcomesOK, ToldTruth, OnceEach, ReportsAreTrue
<1> QED
  BY <1>1, CatalogInvariant, PTL

=============================================================================
