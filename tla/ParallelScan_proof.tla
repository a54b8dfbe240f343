------------------------- MODULE ParallelScan_proof -------------------------
(***************************************************************************)
(* Proofs about ParallelScan, for every number of files, leaf files,       *)
(* workers, commits and retries: that a scan, however it is distributed    *)
(* and whatever it starts from, implements ScanContract, and that it       *)
(* returns what one processor returns that reads the log in order.         *)
(***************************************************************************)
EXTENDS ParallelScan, SequenceFacts, FiniteSetTheorems

(* The naturals are well ordered.                                           *)
LEMMA NaturalsAreWellOrdered == WellOrdered
<1> SUFFICES ASSUME NEW T \in SUBSET Nat, T # {}
             PROVE  \E m \in T : \A k \in T : m <= k
  BY DEF WellOrdered
<1>1. PICK m \in T : \A k \in T : ~(<<k, m>> \in OpToRel(<, Nat))
  BY NatLessThanWellFounded, WFMin
<1>2. \A k \in T : ~(k < m)
  BY <1>1 DEF OpToRel
<1> QED
  BY <1>2

Row == [type : {"add", "remove"}, slot : Files, version : Nat,
        stamp : {NoTimestamp}, flag : BOOLEAN]

LeafPair == ({"leaf"} \X Leaves) \X Row

Task == [files : SUBSET Leaves, left : SUBSET Leaves, output : SUBSET LeafPair,
         retries : Nat, collected : BOOLEAN]

(* The payload of an action is the version that wrote it.                   *)
TableOK ==
    /\ commits \in Seq(SUBSET Row)
    /\ \A i \in 1 .. Len(commits) :
         OnePerFile(commits[i]) /\ \A r \in commits[i] : r.version = i
    /\ checkpoint \subseteq Row /\ OnePerFile(checkpoint)
    /\ \A r \in checkpoint : r.type = "add" /\ r.version = 0
    /\ layout \in {"single", "multi"}
    /\ place \in [checkpoint -> Leaves \cup {"manifest"}]
    /\ layout = "multi" => place \in [checkpoint -> Leaves]

----------------------------------------------------------------------------
(* What a scan delivers in the end, batch by batch.                         *)

(* The files that the commits after p speak of, skipped adds aside.         *)
SeenFrom(p) ==
    {f \in Files : \E i \in p + 1 .. Len(commits) : \E r \in commits[i] :
        r.slot = f /\ ~Skips(r)}

(* The adds of a batch that is read when the commits after p have been.     *)
Unseen(rows, p) == {r \in rows : r.type = "add" /\ ~Skips(r) /\ r.slot \notin SeenFrom(p)}

CommitPairs(p) ==
    UNION {From(<<"commit", i>>, Unseen(commits[i], i)) : i \in p + 1 .. Len(commits)}
ManifestPairs == From(<<"manifest", 0>>, Unseen(start.batch, start.floor))
LeafPairs(l) == From(<<"leaf", l>>, Unseen(RowsIn(l), start.floor))

AllPairs ==
    CommitPairs(start.floor) \cup ManifestPairs \cup UNION {LeafPairs(l) : l \in start.files}

----------------------------------------------------------------------------
(* The inductive invariant.                                                 *)

(* What is read after the commits: the existing result, the checkpoint, or  *)
(* its manifest and its leaf files.                                         *)
Base == start.batch \cup UNION {RowsIn(l) : l \in start.files}

(* The base is a scan result for its version, and its parts are disjoint.   *)
StartOK ==
    /\ start.floor \in 0 .. Len(commits)
    /\ start.live = Live /\ start.relevant = RelevantTo(predicate)
    /\ predicate \in {"None", "Some", "StaticSkipAll"}
    /\ Base \subseteq Row /\ OnePerFile(Base)
    /\ \A r \in Base :
         /\ r.type = "add"
         /\ \E l \in LiveAt(start.floor) :
              l.slot = r.slot /\ (r.slot \in start.relevant => r = l)
    /\ \A l \in LiveAt(start.floor) : l.slot \in start.relevant => l \in Base
    /\ start.files \subseteq Leaves
    /\ \A l \in start.files : RowsIn(l) \cap start.batch = {}
    /\ ~HasManifest => start.batch = {}
    /\ start.kind # "existing" => start.floor = 0 /\ Base = checkpoint

(* A scan whose predicate excludes every file reads nothing.                *)
Skipped == predicate = "StaticSkipAll" /\ start.kind # "parallel"

(* Every leaf file has a worker; the output of a worker is what the files   *)
(* it has read hold, no matter how often its task was started.              *)
TasksOK ==
    /\ \A l \in start.files : \E w \in Workers : l \in task[w].files
    /\ \A w \in Workers :
         /\ task[w].files \subseteq start.files
         /\ task[w].left \subseteq task[w].files
         /\ task[w].output = UNION {LeafPairs(l) : l \in task[w].files \ task[w].left}
         /\ task[w].collected => task[w].left = {} /\ task[w].output \subseteq delivered

Progress ==
    /\ phase \in {"commits", "manifest", "exhausted", "parallel", "done", "failed"}
    /\ position \in start.floor .. Len(commits)
    /\ seen = SeenFrom(position)
    /\ delivered \subseteq AllPairs
    /\ Skipped => phase \in {"exhausted", "done"} /\ start.files = {}
    /\ ~Skipped => CommitPairs(position) \subseteq delivered
    /\ ~Skipped /\ phase \notin {"commits", "failed"} =>
         position = start.floor /\ ManifestPairs \subseteq delivered
    /\ phase = "parallel" => TasksOK
    /\ phase = "done" /\ ~Skipped => AllPairs \subseteq delivered

IInv ==
    /\ TableOK
    /\ task \in [Workers -> Task]
    /\ phase = "table" => start = NotStarted /\ seen = {} /\ delivered = {}
    /\ phase # "table" => StartOK /\ Progress

----------------------------------------------------------------------------
(* The rows of a table.                                                     *)

(* A row is in the commit of its version, or in the checkpoint.             *)
LEMMA RowsByVersion ==
    ASSUME TableOK, NEW n \in 0 .. Len(commits)
    PROVE  /\ RowsUpTo(n) \subseteq Row
           /\ \A r \in RowsUpTo(n) :
                \/ r.version = 0 /\ r \in checkpoint /\ r.type = "add"
                \/ r.version \in 1 .. n /\ r \in commits[r.version]
           /\ \A i \in 1 .. n : commits[i] \subseteq RowsUpTo(n)
           /\ checkpoint \subseteq RowsUpTo(n)
<1>1. Len(commits) \in Nat /\ \A i \in 1 .. Len(commits) : commits[i] \subseteq Row
  BY DEF TableOK
<1>2. 1 .. n \subseteq 1 .. Len(commits)
  BY <1>1
<1> QED
  BY <1>1, <1>2 DEF TableOK, RowsUpTo

(* Two rows of one file and one version are the same.                       *)
LEMMA OneRowPerVersion ==
    ASSUME TableOK, NEW n \in 0 .. Len(commits), NEW r \in RowsUpTo(n), NEW s \in RowsUpTo(n),
           r.slot = s.slot, r.version = s.version
    PROVE  r = s
<1>1. /\ \/ r.version = 0 /\ r \in checkpoint
         \/ r.version \in 1 .. n /\ r \in commits[r.version]
      /\ \/ s.version = 0 /\ s \in checkpoint
         \/ s.version \in 1 .. n /\ s \in commits[s.version]
  BY RowsByVersion
<1>2. r.version \in 1 .. n => r.version \in 1 .. Len(commits)
  BY DEF TableOK
<1>3. CASE r.version = 0
  <2>1. r \in checkpoint /\ s \in checkpoint
    BY <1>1, <1>3
  <2> QED
    BY <2>1 DEF TableOK, OnePerFile
<1>4. CASE r.version # 0
  <2>1. r \in commits[r.version] /\ s \in commits[r.version] /\ r.version \in 1 .. Len(commits)
    BY <1>1, <1>2, <1>4
  <2> QED
    BY <2>1 DEF TableOK, OnePerFile
<1> QED
  BY <1>3, <1>4

(* Every file that is spoken of has a newest row.                           *)
LEMMA NewestRow ==
    ASSUME TableOK, NEW n \in 0 .. Len(commits), NEW r \in RowsUpTo(n)
    PROVE  \E m \in RowsUpTo(n) :
             /\ m.slot = r.slot /\ r.version <= m.version
             /\ \A s \in RowsUpTo(n) : s.slot = m.slot => s.version <= m.version
<1> DEFINE V == {s.version : s \in {t \in RowsUpTo(n) : t.slot = r.slot}}
<1>1. n \in Nat
  BY DEF TableOK
<1>2. V \subseteq 0 .. n /\ r.version \in V
  <2>1. \A s \in RowsUpTo(n) : s.version \in 0 .. n
    BY <1>1, RowsByVersion
  <2> QED
    BY <2>1
<1>3. \A v \in V : \E s \in RowsUpTo(n) : s.slot = r.slot /\ s.version = v
  OBVIOUS
<1>4. \A s \in RowsUpTo(n) : s.slot = r.slot => s.version \in V
  OBVIOUS
<1> HIDE DEF V
<1>5. PICK v \in V : \A u \in V : u <= v
  <2>1. V \in SUBSET Nat /\ V # {} /\ \A u \in V : u <= n
    BY <1>1, <1>2
  <2> QED
    BY Zenon, <1>1, <2>1, GreatestElement, NaturalsAreWellOrdered
<1>6. PICK m \in RowsUpTo(n) : m.slot = r.slot /\ m.version = v
  BY <1>3, <1>5
<1> QED
  BY Zenon, <1>2, <1>4, <1>5, <1>6

(* A snapshot has one add action for each of its files.                     *)
LEMMA LiveOnce ==
    ASSUME TableOK, NEW n \in 0 .. Len(commits), NEW l \in LiveAt(n), NEW m \in LiveAt(n),
           l.slot = m.slot
    PROVE  l = m
<1>1. l \in RowsUpTo(n) /\ m \in RowsUpTo(n) /\ l.version <= m.version /\ m.version <= l.version
  BY DEF LiveAt
<1>2. l.version \in Nat /\ m.version \in Nat
  BY <1>1, RowsByVersion DEF Row
<1> QED
  BY <1>1, <1>2, OneRowPerVersion

(* Only adds of files that do not matter to the predicate are skipped.      *)
LEMMA SkippedRow ==
    ASSUME NEW r, Skips(r)
    PROVE  r.type = "add" /\ r.slot \notin RelevantTo(predicate)
  BY DEF Skips, Pruned, RelevantTo

----------------------------------------------------------------------------
(* What a scan delivers is what the contract asks for.                      *)

(* The file of a row that is not skipped is seen once its commit has been   *)
(* read.                                                                    *)
LEMMA SeenRow ==
    ASSUME TableOK, NEW p \in Nat, NEW i \in p + 1 .. Len(commits), NEW r \in commits[i], ~Skips(r)
    PROVE  r.slot \in SeenFrom(p)
<1>1. i \in 1 .. Len(commits)
  BY DEF TableOK
<1>2. r.slot \in Files
  BY <1>1 DEF TableOK, Row
<1> QED
  BY <1>2 DEF SeenFrom

(* A file that no commit after p has a row for that counts is still what it *)
(* was at p, or is live, and does not matter to the predicate.              *)
LEMMA StillLive ==
    ASSUME TableOK, NEW p \in 0 .. Len(commits), NEW l \in RowsUpTo(p), l.type = "add",
           \A s \in RowsUpTo(p) : s.slot = l.slot => s.version <= l.version,
           l.slot \notin SeenFrom(p)
    PROVE  \E m \in Live : m.slot = l.slot /\ (l.slot \in RelevantTo(predicate) => l = m)
<1> DEFINE n == Len(commits)
<1>1. n \in 0 .. Len(commits) /\ p \in Nat /\ n \in Nat
  BY DEF TableOK
<1>2. l \in RowsUpTo(n)
  <2>1. 1 .. p \subseteq 1 .. n
    BY <1>1
  <2> QED
    BY <2>1 DEF RowsUpTo
<1>3. PICK m \in RowsUpTo(n) :
        /\ m.slot = l.slot /\ l.version <= m.version
        /\ \A s \in RowsUpTo(n) : s.slot = m.slot => s.version <= m.version
  BY <1>1, <1>2, NewestRow
<1>4. m.version \in Nat /\ l.version \in Nat
  BY <1>1, <1>2, RowsByVersion DEF Row
<1>5. CASE m.version \in p + 1 .. n
  <2>1. m \in commits[m.version]
    BY <1>1, <1>5, RowsByVersion
  <2>2. Skips(m)
    BY Zenon, <1>1, <1>3, <1>5, <2>1, SeenRow
  <2>3. m.type = "add" /\ m.slot \notin RelevantTo(predicate)
    BY <2>2, SkippedRow
  <2>4. m \in Live
    BY <1>3, <2>3 DEF Live, LiveAt
  <2> QED
    BY <1>3, <2>3, <2>4
<1>6. CASE m.version \notin p + 1 .. n
  <2>1. \/ m.version = 0 /\ m \in checkpoint
        \/ m.version \in 1 .. p /\ m \in commits[m.version]
    BY <1>1, <1>4, <1>6, RowsByVersion
  <2>2. m \in RowsUpTo(p)
    BY <2>1, RowsByVersion
  <2>3. m.version = l.version
    BY <1>3, <1>4, <2>2
  <2>4. m = l
    BY Zenon, <1>3, <2>2, <2>3, OneRowPerVersion
  <2>5. l \in Live
    BY <1>2, <1>3, <2>4 DEF Live, LiveAt
  <2> QED
    BY <2>4, <2>5
<1> QED
  BY <1>5, <1>6

(* The pairs of the three kinds of batches.                                 *)
LEMMA PairOf ==
    ASSUME NEW p \in AllPairs
    PROVE  \/ \E i \in start.floor + 1 .. Len(commits) :
                p[1] = <<"commit", i>> /\ p[2] \in Unseen(commits[i], i)
           \/ p[1] = <<"manifest", 0>> /\ p[2] \in Unseen(start.batch, start.floor)
           \/ \E l \in start.files :
                p[1] = <<"leaf", l>> /\ p[2] \in Unseen(RowsIn(l), start.floor)
  BY DEF AllPairs, CommitPairs, ManifestPairs, LeafPairs, From

(* What is delivered are pairs.                                             *)
LEMMA PairIs ==
    ASSUME NEW p \in AllPairs
    PROVE  p = <<p[1], p[2]>>
  BY DEF AllPairs, CommitPairs, ManifestPairs, LeafPairs, From

(* Nothing that is delivered is other than the contract allows.             *)
LEMMA AllDeliverable ==
    ASSUME TableOK, StartOK, NEW p \in AllPairs
    PROVE  \E l \in start.live : l.slot = p[2].slot /\ (p[2].slot \in start.relevant => p[2] = l)
<1>1. start.live = Live /\ start.relevant = RelevantTo(predicate)
      /\ start.floor \in 0 .. Len(commits) /\ Len(commits) \in Nat
  BY DEF StartOK, TableOK
<1> DEFINE r == p[2]
<1>2. ASSUME NEW i \in start.floor + 1 .. Len(commits), r \in Unseen(commits[i], i)
      PROVE  \E m \in Live : m.slot = r.slot /\ (r.slot \in RelevantTo(predicate) => r = m)
  <2>1. i \in 1 .. Len(commits) /\ i \in 0 .. Len(commits)
    BY <1>1
  <2>2. r \in commits[i] /\ r.type = "add" /\ r.slot \notin SeenFrom(i)
    BY <1>2 DEF Unseen
  <2>3. r \in RowsUpTo(i) /\ r.version = i
    BY <2>1, <2>2, RowsByVersion DEF TableOK
  <2>4. \A s \in RowsUpTo(i) : s.version <= i
    BY <2>1, RowsByVersion
  <2> HIDE DEF r
  <2> QED
    BY Zenon, <2>1, <2>2, <2>3, <2>4, StillLive
<1>3. ASSUME r \in Base, r \in Unseen(Base, start.floor)
      PROVE  \E m \in Live : m.slot = r.slot /\ (r.slot \in RelevantTo(predicate) => r = m)
  <2>1. PICK l \in LiveAt(start.floor) : l.slot = r.slot /\ (r.slot \in start.relevant => r = l)
    BY <1>3 DEF StartOK
  <2>2. /\ l \in RowsUpTo(start.floor) /\ l.type = "add" /\ l.slot \notin SeenFrom(start.floor)
        /\ \A s \in RowsUpTo(start.floor) : s.slot = l.slot => s.version <= l.version
    BY <1>3, <2>1 DEF LiveAt, Unseen
  <2>3. PICK m \in Live : m.slot = l.slot /\ (l.slot \in RelevantTo(predicate) => l = m)
    BY <1>1, <2>2, StillLive
  <2> QED
    BY <1>1, <2>1, <2>3
<1>4. \/ \E i \in start.floor + 1 .. Len(commits) : r \in Unseen(commits[i], i)
      \/ r \in Base /\ r \in Unseen(Base, start.floor)
  BY PairOf DEF Base, Unseen
<1> QED
  BY <1>1, <1>2, <1>3, <1>4

(* Nothing is delivered twice.                                              *)
LEMMA AllOnce ==
    ASSUME TableOK, StartOK, NEW p \in AllPairs, NEW q \in AllPairs, p[2].slot = q[2].slot
    PROVE  p = q
<1>1. start.floor \in Nat /\ Len(commits) \in Nat
  BY DEF StartOK, TableOK
<1> DEFINE FromCommit(x, i) == x[1] = <<"commit", i>> /\ x[2] \in Unseen(commits[i], i)
           FromManifest(x) == x[1] = <<"manifest", 0>> /\ x[2] \in Unseen(start.batch, start.floor)
           FromLeaf(x, l) == x[1] = <<"leaf", l>> /\ x[2] \in Unseen(RowsIn(l), start.floor)
           FromBase(x) == x[2] \in Base /\ x[2].slot \notin SeenFrom(start.floor)
<1>2. /\ p = <<p[1], p[2]>> /\ q = <<q[1], q[2]>>
      /\ \/ \E i \in start.floor + 1 .. Len(commits) : FromCommit(p, i)
         \/ FromManifest(p)
         \/ \E l \in start.files : FromLeaf(p, l)
      /\ \/ \E i \in start.floor + 1 .. Len(commits) : FromCommit(q, i)
         \/ FromManifest(q)
         \/ \E l \in start.files : FromLeaf(q, l)
  BY PairOf, PairIs
<1>3. ASSUME NEW x, NEW y, NEW i \in start.floor + 1 .. Len(commits), FromCommit(x, i),
             NEW j \in start.floor + 1 .. Len(commits), FromCommit(y, j),
             x[2].slot = y[2].slot
      PROVE  ~(i < j)
  <2> SUFFICES ASSUME i < j PROVE FALSE
    OBVIOUS
  <2>1. i \in Nat /\ j \in i + 1 .. Len(commits)
    BY <1>1
  <2>2. y[2] \in commits[j] /\ ~Skips(y[2]) /\ x[2].slot \notin SeenFrom(i)
    BY <1>3 DEF Unseen
  <2>3. y[2].slot \in SeenFrom(i)
    BY <2>1, <2>2, SeenRow
  <2> QED
    BY <1>3, <2>2, <2>3
<1>4. ASSUME NEW x, NEW y, NEW i \in start.floor + 1 .. Len(commits), FromCommit(x, i),
             FromBase(y), x[2].slot = y[2].slot
      PROVE  FALSE
  <2>1. x[2] \in commits[i] /\ ~Skips(x[2])
    BY <1>4 DEF Unseen
  <2>2. x[2].slot \in SeenFrom(start.floor)
    BY Zenon, <1>1, <2>1, SeenRow
  <2> QED
    BY <1>4, <2>2
<1>5. /\ FromManifest(p) => FromBase(p) /\ p[2] \in start.batch
      /\ FromManifest(q) => FromBase(q) /\ q[2] \in start.batch
      /\ \A l \in start.files :
           /\ FromLeaf(p, l) => FromBase(p) /\ p[2] \in RowsIn(l)
           /\ FromLeaf(q, l) => FromBase(q) /\ q[2] \in RowsIn(l)
  BY DEF Unseen, Base
<1>6. FromBase(p) /\ FromBase(q) => p[2] = q[2]
  BY DEF StartOK, OnePerFile
<1>7. \A l \in start.files : \A r \in RowsIn(l) : r \notin start.batch
  BY DEF StartOK
<1>8. \A l, k \in start.files : \A r : r \in RowsIn(l) /\ r \in RowsIn(k) => l = k
  BY DEF RowsIn
<1>9. CASE \E i \in start.floor + 1 .. Len(commits) : FromCommit(p, i)
  <2>1. PICK i \in start.floor + 1 .. Len(commits) : FromCommit(p, i)
    BY <1>9
  <2>2. ~FromBase(q)
    BY <1>4, <2>1
  <2>3. PICK j \in start.floor + 1 .. Len(commits) : FromCommit(q, j)
    BY <1>2, <1>5, <2>2
  <2>4. i = j
    <3>1. ~(i < j) /\ ~(j < i)
      BY Zenon, <1>3, <2>1, <2>3
    <3> QED
      BY <1>1, <3>1
  <2>5. p[2] \in commits[i] /\ q[2] \in commits[i] /\ i \in 1 .. Len(commits)
    BY <1>1, <2>1, <2>3, <2>4 DEF Unseen
  <2>6. p[2] = q[2]
    BY <2>5 DEF TableOK, OnePerFile
  <2> QED
    BY Zenon, <1>2, <2>1, <2>3, <2>4, <2>6
<1>10. CASE FromBase(p)
  <2>1. FromBase(q)
    BY Zenon, <1>2, <1>4, <1>5, <1>10
  <2>2. p[2] = q[2]
    BY Zenon, <1>6, <1>10, <2>1
  <2>3. p[1] = q[1]
    <3>1. \A i : ~FromCommit(p, i) \/ i \notin start.floor + 1 .. Len(commits)
      BY <1>4, <1>10, <2>1
    <3>2. \A i : ~FromCommit(q, i) \/ i \notin start.floor + 1 .. Len(commits)
      BY <1>4, <1>10, <2>1
    <3>3. CASE FromManifest(p) /\ FromManifest(q)
      BY <3>3
    <3>4. CASE \E l \in start.files : FromLeaf(p, l)
      BY <1>2, <1>5, <1>7, <1>8, <2>2, <3>2, <3>4
    <3>5. CASE \E l \in start.files : FromLeaf(q, l)
      BY <1>2, <1>5, <1>7, <1>8, <2>2, <3>1, <3>5
    <3> QED
      BY <1>2, <3>1, <3>2, <3>3, <3>4, <3>5
  <2> QED
    BY Zenon, <1>2, <2>2, <2>3
<1> QED
  BY <1>2, <1>5, <1>9, <1>10

(* Every live file that matters is delivered.                               *)
LEMMA AllDelivered ==
    ASSUME TableOK, StartOK, NEW l \in start.live, l.slot \in start.relevant
    PROVE  \E p \in AllPairs : p[2] = l
<1> DEFINE n == Len(commits)
<1>1. start.floor \in 0 .. n /\ n \in Nat /\ start.floor \in Nat /\ n \in 0 .. n
  BY DEF StartOK, TableOK
<1>2. /\ l \in RowsUpTo(n) /\ l.type = "add"
      /\ \A s \in RowsUpTo(n) : s.slot = l.slot => s.version <= l.version
  BY DEF StartOK, Live, LiveAt
<1>3. ~Skips(l)
  BY SkippedRow DEF StartOK
<1>4. \/ l.version = 0 /\ l \in checkpoint
      \/ l.version \in 1 .. n /\ l \in commits[l.version]
  BY <1>1, <1>2, RowsByVersion
<1>5. ASSUME NEW v \in 0 .. n, l.version <= v
      PROVE  l.slot \notin SeenFrom(v)
  <2> SUFFICES ASSUME l.slot \in SeenFrom(v) PROVE FALSE
    OBVIOUS
  <2>1. PICK i \in v + 1 .. n : \E r \in commits[i] : r.slot = l.slot
    BY DEF SeenFrom
  <2>2. PICK r \in commits[i] : r.slot = l.slot
    BY <2>1
  <2>3. i \in 1 .. n /\ v < i
    BY <1>1, <2>1
  <2>4. r \in RowsUpTo(n) /\ r.version = i
    BY Zenon, <1>1, <2>2, <2>3, RowsByVersion DEF TableOK
  <2>5. i <= l.version
    BY <1>2, <2>2, <2>4
  <2>6. l.version \in Nat
    BY <1>4
  <2> QED
    BY <1>1, <1>5, <2>3, <2>5, <2>6
<1>6. CASE l.version \in start.floor + 1 .. n
  <2>1. l \in commits[l.version] /\ l.version \in 0 .. n /\ l.version <= l.version
    BY <1>1, <1>4, <1>6
  <2>2. l \in Unseen(commits[l.version], l.version)
    BY <1>2, <1>3, <1>5, <2>1 DEF Unseen
  <2>3. <<<<"commit", l.version>>, l>> \in CommitPairs(start.floor)
    BY <1>6, <2>2 DEF CommitPairs, From
  <2> QED
    BY <2>3 DEF AllPairs
<1>7. CASE l.version \notin start.floor + 1 .. n
  <2>1. l.version <= start.floor /\ l.version \in Nat
    BY <1>1, <1>4, <1>7
  <2>2. l \in RowsUpTo(start.floor)
    BY <1>1, <1>4, <2>1, RowsByVersion
  <2>3. RowsUpTo(start.floor) \subseteq RowsUpTo(n)
    <3>1. 1 .. start.floor \subseteq 1 .. n
      BY <1>1
    <3> QED
      BY <3>1 DEF RowsUpTo
  <2>4. l \in LiveAt(start.floor)
    BY <1>2, <2>2, <2>3 DEF LiveAt
  <2>5. l \in Base /\ l.slot \notin SeenFrom(start.floor)
    BY <1>1, <1>5, <2>1, <2>4 DEF StartOK
  <2>6. CASE l \in start.batch
    <3>1. <<<<"manifest", 0>>, l>> \in ManifestPairs
      BY <1>2, <1>3, <2>5, <2>6 DEF ManifestPairs, From, Unseen
    <3> QED
      BY <3>1 DEF AllPairs
  <2>7. ASSUME NEW f \in start.files, l \in RowsIn(f)
        PROVE  \E p \in AllPairs : p[2] = l
    <3>1. <<<<"leaf", f>>, l>> \in LeafPairs(f)
      BY <1>2, <1>3, <2>5, <2>7 DEF LeafPairs, From, Unseen
    <3> QED
      BY <3>1 DEF AllPairs
  <2> QED
    BY <2>5, <2>6, <2>7 DEF Base
<1> QED
  BY <1>6, <1>7

----------------------------------------------------------------------------
(* The steps.                                                               *)

(* What a scan is to deliver is settled when it starts.                     *)
LEMMA Settled ==
    ASSUME TableOK, StartOK, UNCHANGED <<table, predicate, start>>
    PROVE  /\ TableOK' /\ StartOK' /\ Skipped' = Skipped
           /\ \A p : SeenFrom(p)' = SeenFrom(p) /\ CommitPairs(p)' = CommitPairs(p)
           /\ ManifestPairs' = ManifestPairs /\ AllPairs' = AllPairs
           /\ \A l : LeafPairs(l)' = LeafPairs(l)
<1>1. /\ checkpoint' = checkpoint /\ layout' = layout /\ place' = place /\ commits' = commits
      /\ predicate' = predicate /\ start' = start
  BY DEF table
<1>2. TableOK' /\ Skipped' = Skipped
  BY <1>1 DEF TableOK, Skipped
<1>3. StartOK'
  BY <1>1 DEF StartOK, Live, LiveAt, RowsUpTo, RelevantTo, Base, RowsIn, HasManifest
<1>4. ASSUME NEW p
      PROVE  SeenFrom(p)' = SeenFrom(p)
  BY <1>1 DEF SeenFrom, Skips
<1>5. ASSUME NEW p, NEW rows
      PROVE  Unseen(rows, p)' = Unseen(rows, p)
  BY <1>1, <1>4 DEF Unseen, Skips
<1>6. ASSUME NEW p
      PROVE  CommitPairs(p)' = CommitPairs(p)
  BY Zenon, <1>1, <1>5 DEF CommitPairs
<1>7. ManifestPairs' = ManifestPairs
  BY <1>1, <1>5 DEF ManifestPairs
<1>8. ASSUME NEW l
      PROVE  LeafPairs(l)' = LeafPairs(l)
  <2>1. RowsIn(l)' = RowsIn(l)
    BY <1>1 DEF RowsIn
  <2> QED
    BY <1>1, <1>5, <2>1 DEF LeafPairs
<1>9. AllPairs' = AllPairs
  BY <1>1, <1>6, <1>7, <1>8 DEF AllPairs
<1> QED
  BY Zenon, <1>2, <1>3, <1>4, <1>6, <1>7, <1>8, <1>9

(* The commits read so far, and the next one.                               *)
LEMMA OneMoreCommit ==
    ASSUME TableOK, NEW p \in 1 .. Len(commits)
    PROVE  /\ SeenFrom(p - 1) = SeenFrom(p) \cup Recorded(commits[p])
           /\ CommitPairs(p - 1) =
                CommitPairs(p) \cup From(<<"commit", p>>, Unseen(commits[p], p))
<1>1. /\ (p - 1) + 1 .. Len(commits) = (p + 1 .. Len(commits)) \cup {p}
  BY DEF TableOK
<1>2. commits[p] \subseteq Row
  BY DEF TableOK
<1>3. SeenFrom(p - 1) = SeenFrom(p) \cup Recorded(commits[p])
  BY <1>1, <1>2 DEF SeenFrom, Recorded, Row
<1> QED
  BY Zenon, <1>1, <1>3 DEF CommitPairs

(* What the visitor selects is what is left to deliver of a batch.          *)
LEMMA SelectedIsUnseen ==
    ASSUME NEW p, seen = SeenFrom(p), NEW rows
    PROVE  Selected(rows) = Unseen(rows, p)
  BY DEF Selected, Unseen

(* A commit delivers rows of the log.                                       *)
LEMMA CommitPairsOf ==
    ASSUME TableOK, StartOK, NEW p \in start.floor .. Len(commits)
    PROVE  CommitPairs(p) \subseteq AllPairs
<1>1. p + 1 .. Len(commits) \subseteq start.floor + 1 .. Len(commits)
  BY DEF TableOK, StartOK
<1> QED
  BY <1>1 DEF CommitPairs, AllPairs

(* SequentialPhase::next over a commit keeps the invariant.                 *)
LEMMA ReadCommitPreserves ==
    ASSUME IInv, ReadCommit
    PROVE  IInv'
<1>1. /\ phase = "commits" /\ position > start.floor
      /\ delivered' = delivered \cup From(<<"commit", position>>, Selected(commits[position]))
      /\ seen' = seen \cup Recorded(commits[position])
      /\ position' = position - 1
      /\ UNCHANGED <<table, predicate, start, phase, task>>
  BY DEF ReadCommit
<1>2. TableOK /\ StartOK /\ Progress
  BY <1>1 DEF IInv
<1>3. /\ start.floor \in 0 .. Len(commits) /\ Len(commits) \in Nat
      /\ position \in start.floor .. Len(commits)
  BY <1>2 DEF TableOK, StartOK, Progress
<1>4. position \in 1 .. Len(commits) /\ position - 1 \in start.floor .. Len(commits)
  BY <1>1, <1>3
<1>5. /\ SeenFrom(position - 1) = SeenFrom(position) \cup Recorded(commits[position])
      /\ CommitPairs(position - 1) =
           CommitPairs(position) \cup From(<<"commit", position>>, Unseen(commits[position], position))
      /\ Selected(commits[position]) = Unseen(commits[position], position)
      /\ CommitPairs(position - 1) \subseteq AllPairs
  BY <1>2, <1>4, OneMoreCommit, SelectedIsUnseen, CommitPairsOf DEF Progress
<1>6. PICK p : p = position - 1
  OBVIOUS
<1>7. /\ TableOK' /\ StartOK' /\ Skipped' = Skipped /\ AllPairs' = AllPairs
      /\ SeenFrom(p)' = SeenFrom(p) /\ CommitPairs(p)' = CommitPairs(p)
  BY <1>1, <1>2, Settled
<1>8. SeenFrom(position)' = SeenFrom(position - 1) /\ CommitPairs(position)' = CommitPairs(position - 1)
  BY Zenon, <1>1, <1>6, <1>7 DEF SeenFrom, CommitPairs
<1>9. ~Skipped
  BY <1>1, <1>2 DEF Progress
<1>10. /\ seen' = SeenFrom(position)'
       /\ delivered' \subseteq AllPairs'
       /\ CommitPairs(position)' \subseteq delivered'
  BY <1>1, <1>2, <1>5, <1>7, <1>8, <1>9 DEF Progress
<1>11. position' \in (start.floor .. Len(commits))'
  BY <1>1, <1>4 DEF table
<1>12. Progress'
  BY <1>1, <1>7, <1>9, <1>10, <1>11 DEF Progress
<1> QED
  BY <1>1, <1>7, <1>12 DEF IInv

(* Once the commits have been read nothing is recorded any more.            *)
LEMMA Frozen ==
    ASSUME TableOK, StartOK, Progress, UNCHANGED <<table, predicate, start, position, seen>>
    PROVE  /\ TableOK' /\ StartOK' /\ Skipped' = Skipped
           /\ position' \in (start.floor .. Len(commits))'
           /\ seen' = SeenFrom(position)'
           /\ CommitPairs(position)' = CommitPairs(position)
           /\ ManifestPairs' = ManifestPairs /\ AllPairs' = AllPairs
           /\ \A l : LeafPairs(l)' = LeafPairs(l)
<1>1. /\ TableOK' /\ StartOK' /\ Skipped' = Skipped
      /\ \A p : SeenFrom(p)' = SeenFrom(p) /\ CommitPairs(p)' = CommitPairs(p)
      /\ ManifestPairs' = ManifestPairs /\ AllPairs' = AllPairs
      /\ \A l : LeafPairs(l)' = LeafPairs(l)
  BY Settled
<1>2. PICK p : p = position
  OBVIOUS
<1>3. SeenFrom(position)' = SeenFrom(position) /\ CommitPairs(position)' = CommitPairs(position)
  <2>1. SeenFrom(p)' = SeenFrom(p) /\ CommitPairs(p)' = CommitPairs(p)
    BY <1>1
  <2> QED
    BY Zenon, <1>2, <2>1 DEF SeenFrom, CommitPairs
<1>4. position' \in (start.floor .. Len(commits))' /\ seen' = SeenFrom(position)
  BY DEF Progress, table
<1> QED
  BY <1>1, <1>3, <1>4

(* SequentialPhase::next over the manifest keeps the invariant.             *)
LEMMA ReadManifestPreserves ==
    ASSUME IInv, ReadManifest
    PROVE  IInv'
<1>1. /\ phase = "commits" /\ position = start.floor
      /\ delivered' = delivered \cup From(<<"manifest", 0>>, Selected(start.batch))
      /\ phase' = "manifest"
      /\ UNCHANGED <<table, predicate, start, position, seen, task>>
  BY DEF ReadManifest
<1>2. TableOK /\ StartOK /\ Progress /\ task \in [Workers -> Task]
  BY <1>1 DEF IInv
<1>3. /\ TableOK' /\ StartOK' /\ Skipped' = Skipped
      /\ position' \in (start.floor .. Len(commits))' /\ seen' = SeenFrom(position)'
      /\ CommitPairs(position)' = CommitPairs(position)
      /\ ManifestPairs' = ManifestPairs /\ AllPairs' = AllPairs
  BY <1>1, <1>2, Frozen
<1>4. From(<<"manifest", 0>>, Selected(start.batch)) = ManifestPairs
  BY Zenon, <1>1, <1>2, SelectedIsUnseen DEF Progress, ManifestPairs
<1>5. /\ delivered' \subseteq AllPairs' /\ ~Skipped
      /\ CommitPairs(position)' \subseteq delivered' /\ ManifestPairs' \subseteq delivered'
  BY Zenon, <1>1, <1>2, <1>3, <1>4 DEF Progress, AllPairs
<1>6. Progress'
  BY <1>1, <1>3, <1>5 DEF Progress
<1> QED
  BY <1>1, <1>2, <1>3, <1>6 DEF IInv

(* A multi-part checkpoint has no manifest to read.                         *)
LEMMA ExhaustPreserves ==
    ASSUME IInv, Exhaust
    PROVE  IInv'
<1>1. /\ \/ phase = "manifest"
         \/ phase = "commits" /\ position = start.floor /\ ~HasManifest
      /\ phase' = "exhausted"
      /\ UNCHANGED <<table, predicate, start, position, seen, delivered, task>>
  BY DEF Exhaust
<1>2. TableOK /\ StartOK /\ Progress /\ task \in [Workers -> Task]
  BY <1>1 DEF IInv
<1>3. /\ TableOK' /\ StartOK' /\ Skipped' = Skipped
      /\ position' \in (start.floor .. Len(commits))' /\ seen' = SeenFrom(position)'
      /\ CommitPairs(position)' = CommitPairs(position)
      /\ ManifestPairs' = ManifestPairs /\ AllPairs' = AllPairs
  BY Zenon, <1>1, <1>2, Frozen
<1>4. ~HasManifest => ManifestPairs = {}
  BY <1>2 DEF StartOK, ManifestPairs, Unseen, From
<1>5. ~Skipped /\ position = start.floor /\ ManifestPairs \subseteq delivered
  BY Zenon, <1>1, <1>2, <1>4 DEF Progress
<1>6. Progress'
  BY Zenon, <1>1, <1>2, <1>3, <1>5 DEF Progress
<1> QED
  BY Zenon, <1>1, <1>2, <1>3, <1>6 DEF IInv

(* An error while reading keeps the invariant.                              *)
LEMMA ReadErrorPreserves ==
    ASSUME IInv, ReadError
    PROVE  IInv'
<1>1. /\ phase \in {"commits", "manifest"} /\ phase' = "failed"
      /\ UNCHANGED <<table, predicate, start, position, seen, delivered, task>>
  BY DEF ReadError
<1>2. TableOK /\ StartOK /\ Progress /\ task \in [Workers -> Task]
  BY <1>1 DEF IInv
<1>3. /\ TableOK' /\ StartOK' /\ Skipped' = Skipped
      /\ position' \in (start.floor .. Len(commits))' /\ seen' = SeenFrom(position)'
      /\ CommitPairs(position)' = CommitPairs(position) /\ AllPairs' = AllPairs
  BY <1>1, <1>2, Frozen
<1>4. Progress'
  BY <1>1, <1>2, <1>3 DEF Progress
<1> QED
  BY <1>1, <1>2, <1>3, <1>4 DEF IInv

(* finish: an error before the end, the end, or a partition of the leaves.  *)
LEMMA FinishPreserves ==
    ASSUME IInv, Finish
    PROVE  IInv'
<1>1. /\ phase \in {"commits", "manifest", "exhausted"}
      /\ UNCHANGED <<table, predicate, start, position, seen, delivered>>
  BY Zenon DEF Finish
<1>2. TableOK /\ StartOK /\ Progress /\ task \in [Workers -> Task]
  BY <1>1 DEF IInv
<1>3. /\ TableOK' /\ StartOK' /\ Skipped' = Skipped
      /\ position' \in (start.floor .. Len(commits))' /\ seen' = SeenFrom(position)'
      /\ CommitPairs(position)' = CommitPairs(position)
      /\ ManifestPairs' = ManifestPairs /\ AllPairs' = AllPairs
      /\ \A l : LeafPairs(l)' = LeafPairs(l)
  BY Zenon, <1>1, <1>2, Frozen
<1>4. CASE phase # "exhausted"
  <2>1. phase' = "failed" /\ task' = task
    BY <1>4 DEF Finish
  <2>2. ~Skipped
    BY Zenon, <1>1, <1>2, <1>4 DEF Progress
  <2>3. Progress'
    BY Zenon, <1>1, <1>2, <1>3, <2>1, <2>2 DEF Progress
  <2> QED
    BY Zenon, <1>1, <1>2, <1>3, <2>1, <2>3 DEF IInv
<1>5. CASE phase = "exhausted" /\ start.files = {}
  <2>1. phase' = "done" /\ task' = task
    BY <1>5 DEF Finish
  <2>2. ~Skipped => AllPairs \subseteq delivered
    BY Zenon, <1>2, <1>5 DEF Progress, AllPairs
  <2>3. Progress'
    BY Zenon, <1>1, <1>2, <1>3, <1>5, <2>1, <2>2 DEF Progress
  <2> QED
    BY <1>1, <1>2, <1>3, <2>1, <2>3 DEF IInv
<1>6. CASE phase = "exhausted" /\ start.files # {}
  <2>1. phase' = "parallel"
    BY Zenon, <1>6 DEF Finish
  <2>2. PICK executor \in [start.files -> Workers] :
          task' = [w \in Workers |->
                     LET mine == {l \in start.files : executor[l] = w}
                     IN [Idle EXCEPT !.files = mine, !.left = mine]]
    BY Zenon, <1>6 DEF Finish
  <2>3. PICK mine : mine = [w \in Workers |-> {l \in start.files : executor[l] = w}]
    BY Zenon
  <2>4. /\ task' = [w \in Workers |-> task'[w]]
        /\ \A w \in Workers :
             /\ task'[w] = [files |-> mine[w], left |-> mine[w], output |-> {}, retries |-> 0,
                           collected |-> FALSE]
             /\ mine[w] \in SUBSET start.files /\ mine[w] \in SUBSET Leaves
    BY Zenon, <1>2, <2>2, <2>3 DEF Idle, StartOK
  <2>5. \A l \in start.files : \E w \in Workers : l \in mine[w]
    BY <2>3
  <2>6. task' \in [Workers -> Task]
    <3>1. ASSUME NEW m \in SUBSET Leaves
          PROVE  [files |-> m, left |-> m, output |-> {}, retries |-> 0, collected |-> FALSE]
                   \in Task
      BY DEF Task
    <3>2. \A w \in Workers : task'[w] \in Task
      BY <2>4, <3>1
    <3> QED
      BY <2>4, <3>2
  <2>7. TasksOK'
    <3>1. \A l \in start.files : \E w \in Workers : l \in task'[w].files
      BY <2>4, <2>5
    <3>2. \A w \in Workers :
            /\ task'[w].files \subseteq start.files /\ task'[w].left = task'[w].files
            /\ task'[w].output = {} /\ ~task'[w].collected
      BY <2>4
    <3>3. \A w \in Workers : task'[w].files \ task'[w].left = {}
      BY <3>2
    <3> QED
      BY Zenon, <1>1, <3>1, <3>2, <3>3 DEF TasksOK
  <2>8. ~Skipped
    BY <1>2, <1>6 DEF Progress
  <2>9. Progress'
    BY <1>1, <1>2, <1>3, <1>6, <2>1, <2>7, <2>8 DEF Progress
  <2> QED
    BY Zenon, <1>3, <2>1, <2>6, <2>9 DEF IInv
<1> QED
  BY Zenon, <1>4, <1>5, <1>6

(* A step of one worker, which may add to what is delivered.                *)
LEMMA TaskStep ==
    ASSUME IInv, phase = "parallel", NEW w \in Workers, NEW t \in Task,
           task' = [task EXCEPT ![w] = t],
           t.files = task[w].files, t.left \subseteq t.files,
           t.output = UNION {LeafPairs(l) : l \in t.files \ t.left},
           t.collected => t.left = {} /\ t.output \subseteq delivered',
           delivered \subseteq delivered', delivered' \subseteq AllPairs,
           UNCHANGED <<table, predicate, start, phase, position, seen>>
    PROVE  IInv'
<1>1. TableOK /\ StartOK /\ Progress /\ TasksOK /\ task \in [Workers -> Task] /\ ~Skipped
  BY DEF IInv, Progress
<1>2. /\ TableOK' /\ StartOK' /\ Skipped' = Skipped
      /\ position' \in (start.floor .. Len(commits))' /\ seen' = SeenFrom(position)'
      /\ CommitPairs(position)' = CommitPairs(position)
      /\ ManifestPairs' = ManifestPairs /\ AllPairs' = AllPairs
      /\ \A l : LeafPairs(l)' = LeafPairs(l)
  BY <1>1, Frozen
<1>3. /\ task' \in [Workers -> Task] /\ task'[w] = t
      /\ \A x \in Workers : x # w => task'[x] = task[x]
  BY <1>1
<1>4. \A x \in Workers :
        /\ task'[x].files = task[x].files
        /\ task'[x].left \subseteq task'[x].files
        /\ task'[x].output = UNION {LeafPairs(l) : l \in task'[x].files \ task'[x].left}
        /\ task'[x].collected => task'[x].left = {} /\ task'[x].output \subseteq delivered'
  <2> SUFFICES ASSUME NEW x \in Workers
               PROVE  /\ task'[x].files = task[x].files
                      /\ task'[x].left \subseteq task'[x].files
                      /\ task'[x].output = UNION {LeafPairs(l) : l \in task'[x].files \ task'[x].left}
                      /\ task'[x].collected =>
                           task'[x].left = {} /\ task'[x].output \subseteq delivered'
    OBVIOUS
  <2>1. CASE x = w
    BY Zenon, <1>3, <2>1
  <2>2. CASE x # w
    BY Zenon, <1>1, <1>3, <2>2 DEF TasksOK
  <2> QED
    BY <2>1, <2>2
<1>5. TasksOK'
  <2>1. \A l \in start.files : \E x \in Workers : l \in task'[x].files
    BY Zenon, <1>1, <1>4 DEF TasksOK
  <2>2. \A x \in Workers : task'[x].files \subseteq start.files
    BY <1>1, <1>4 DEF TasksOK
  <2> QED
    BY <1>2, <1>4, <2>1, <2>2 DEF TasksOK
<1>6. Progress'
  BY <1>1, <1>2, <1>5 DEF Progress
<1> QED
  BY Zenon, <1>2, <1>3, <1>6 DEF IInv

(* A leaf file delivers rows of its own.                                    *)
LEMMA LeafPairsOf ==
    ASSUME TableOK, NEW l \in Leaves
    PROVE  LeafPairs(l) \in SUBSET LeafPair
  BY DEF TableOK, LeafPairs, LeafPair, From, Unseen, RowsIn

(* A worker reads a leaf file with the seen files as finish left them.      *)
LEMMA ReadLeafPreserves ==
    ASSUME IInv, NEW w \in Workers, ReadLeaf(w)
    PROVE  IInv'
<1>1. /\ phase = "parallel" /\ UNCHANGED <<table, predicate, start, phase, position, seen, delivered>>
  BY DEF ReadLeaf
<1>2. PICK l \in task[w].left :
        task' = [task EXCEPT ![w].left = @ \ {l},
                             ![w].output = @ \cup From(<<"leaf", l>>, Selected(RowsIn(l)))]
  BY Zenon DEF ReadLeaf
<1>3. TableOK /\ StartOK /\ Progress /\ TasksOK /\ task \in [Workers -> Task] /\ ~Skipped
  BY <1>1 DEF IInv, Progress
<1>4. From(<<"leaf", l>>, Selected(RowsIn(l))) = LeafPairs(l)
  BY <1>1, <1>3, SelectedIsUnseen DEF Progress, LeafPairs
<1>5. PICK old, new : old = task[w] /\ new = LeafPairs(l)
  OBVIOUS
<1>6. /\ old \in Task /\ old.left \subseteq old.files /\ l \in old.left /\ l \in old.files
      /\ old.files \subseteq Leaves
      /\ old.output = UNION {LeafPairs(k) : k \in old.files \ old.left}
      /\ old.collected => old.left = {}
  BY <1>2, <1>3, <1>5 DEF TasksOK, Task
<1>7. PICK t : t = [old EXCEPT !.left = old.left \ {l}, !.output = old.output \cup new]
  OBVIOUS
<1>8. task' = [task EXCEPT ![w] = t]
  BY Zenon, <1>2, <1>3, <1>4, <1>5, <1>7
<1>9. /\ t \in Task /\ t.files = old.files /\ t.left = old.left \ {l}
      /\ t.output = old.output \cup new /\ t.collected = old.collected
  <2>1. new \in SUBSET LeafPair
    BY Zenon, <1>3, <1>5, <1>6, LeafPairsOf
  <2> QED
    BY Zenon, <1>6, <1>7, <2>1 DEF Task
<1>10. t.files \ t.left = (old.files \ old.left) \cup {l}
  BY <1>6, <1>9
<1>11. t.output = UNION {LeafPairs(k) : k \in t.files \ t.left}
  BY <1>5, <1>6, <1>9, <1>10
<1>12. ~t.collected
  BY <1>6, <1>9
<1>13. delivered' \subseteq AllPairs /\ delivered \subseteq delivered'
  BY <1>1, <1>3 DEF Progress
<1> QED
  BY Zenon, <1>1, <1>5, <1>6, <1>8, <1>9, <1>11, <1>12, <1>13, TaskStep

(* A task that is started again has read nothing.                           *)
LEMMA RetryTaskPreserves ==
    ASSUME IInv, NEW w \in Workers, RetryTask(w)
    PROVE  IInv'
<1>1. /\ phase = "parallel" /\ ~task[w].collected
      /\ task' = [task EXCEPT ![w].left = task[w].files, ![w].output = {}, ![w].retries = @ + 1]
      /\ UNCHANGED <<table, predicate, start, phase, position, seen, delivered>>
  BY DEF RetryTask
<1>2. Progress /\ task \in [Workers -> Task]
  BY <1>1 DEF IInv
<1>3. PICK old : old = task[w]
  OBVIOUS
<1>4. PICK t : t = [old EXCEPT !.left = old.files, !.output = {}, !.retries = old.retries + 1]
  OBVIOUS
<1>5. task' = [task EXCEPT ![w] = t] /\ old \in Task /\ ~old.collected
  BY Zenon, <1>1, <1>2, <1>3, <1>4
<1>6. /\ t \in Task /\ t.files = old.files /\ t.left = old.files
      /\ t.output = {} /\ t.collected = old.collected
  <2>1. old.retries + 1 \in Nat /\ old.files \in SUBSET Leaves
    BY <1>5 DEF Task
  <2> QED
    BY Zenon, <1>4, <1>5, <2>1 DEF Task
<1>7. t.output = UNION {LeafPairs(k) : k \in t.files \ t.left} /\ t.left \subseteq t.files
  BY <1>6
<1>8. delivered' \subseteq AllPairs /\ delivered \subseteq delivered'
  BY <1>1, <1>2 DEF Progress
<1> QED
  BY Zenon, <1>1, <1>3, <1>5, <1>6, <1>7, <1>8, TaskStep

(* The output of a worker is taken once it is complete.                     *)
LEMMA CollectPreserves ==
    ASSUME IInv, NEW w \in Workers, Collect(w)
    PROVE  IInv'
<1>1. /\ phase = "parallel" /\ task[w].left = {}
      /\ delivered' = delivered \cup task[w].output
      /\ task' = [task EXCEPT ![w].collected = TRUE]
      /\ UNCHANGED <<table, predicate, start, phase, position, seen>>
  BY DEF Collect
<1>2. TableOK /\ StartOK /\ Progress /\ TasksOK /\ task \in [Workers -> Task]
  BY <1>1 DEF IInv, Progress
<1>3. PICK old : old = task[w]
  OBVIOUS
<1>4. PICK t : t = [old EXCEPT !.collected = TRUE]
  BY Zenon
<1>5. /\ task' = [task EXCEPT ![w] = t] /\ old \in Task /\ old.left = {}
      /\ old.output = UNION {LeafPairs(k) : k \in old.files \ old.left}
      /\ old.files \subseteq start.files
  BY <1>1, <1>2, <1>3, <1>4 DEF TasksOK
<1>6. /\ t \in Task /\ t.files = old.files /\ t.left = old.left /\ t.output = old.output
      /\ t.collected
  BY Zenon, <1>4, <1>5 DEF Task
<1>7. old.output \subseteq AllPairs
  BY <1>5 DEF AllPairs
<1>8. /\ delivered' \subseteq AllPairs /\ delivered \subseteq delivered'
      /\ t.output \subseteq delivered' /\ t.left = {} /\ t.left \subseteq t.files
      /\ t.output = UNION {LeafPairs(k) : k \in t.files \ t.left}
      /\ t.files = task[w].files
  BY <1>1, <1>2, <1>3, <1>5, <1>6, <1>7 DEF Progress
<1> QED
  BY Zenon, <1>1, <1>5, <1>6, <1>8, TaskStep

(* All is delivered when all output is taken.                               *)
LEMMA DonePreserves ==
    ASSUME IInv, Done
    PROVE  IInv'
<1>1. /\ phase = "parallel" /\ \A w \in Workers : task[w].collected
      /\ phase' = "done"
      /\ UNCHANGED <<table, predicate, start, position, seen, delivered, task>>
  BY DEF Done
<1>2. TableOK /\ StartOK /\ Progress /\ TasksOK /\ task \in [Workers -> Task] /\ ~Skipped
  BY <1>1 DEF IInv, Progress
<1>3. /\ TableOK' /\ StartOK' /\ Skipped' = Skipped
      /\ position' \in (start.floor .. Len(commits))' /\ seen' = SeenFrom(position)'
      /\ CommitPairs(position)' = CommitPairs(position)
      /\ ManifestPairs' = ManifestPairs /\ AllPairs' = AllPairs
  BY <1>1, <1>2, Frozen
<1>4. ASSUME NEW l \in start.files
      PROVE  LeafPairs(l) \subseteq delivered
  <2>1. PICK w \in Workers : l \in task[w].files
    BY <1>2 DEF TasksOK
  <2>2. /\ task[w].left = {} /\ task[w].output \subseteq delivered
        /\ task[w].output = UNION {LeafPairs(k) : k \in task[w].files \ task[w].left}
    BY <1>1, <1>2 DEF TasksOK
  <2>3. l \in task[w].files \ task[w].left
    BY <2>1, <2>2
  <2> QED
    BY <2>2, <2>3
<1>5. AllPairs \subseteq delivered
  BY Zenon, <1>1, <1>2, <1>4 DEF Progress, AllPairs
<1>6. Progress'
  BY <1>1, <1>2, <1>3, <1>5 DEF Progress
<1> QED
  BY <1>1, <1>2, <1>3, <1>6 DEF IInv

(* The rows that commits write.                                             *)
LEMMA RowTypes ==
    ASSUME NEW f \in Files, NEW v \in Nat
    PROVE  /\ \A r \in Adds(f, v) : r \in Row /\ r.type = "add" /\ r.version = v
           /\ RemoveFile(f, v, NoTimestamp) \in Row
           /\ RemoveFile(f, v, NoTimestamp).version = v
<1>1. ASSUME NEW type \in {"add", "remove"}, NEW flag \in BOOLEAN
      PROVE  LET r == ActionRow(type, f, v, NoTimestamp, flag)
             IN  r \in Row /\ r.type = type /\ r.version = v
  BY DEF ActionRow, Row
<1>2. \A r \in Adds(f, v) : r = AddFile(f, v, TRUE) \/ r = AddFile(f, v, FALSE)
  BY Zenon DEF Adds
<1>3. \A flag \in BOOLEAN :
        LET r == AddFile(f, v, flag) IN r \in Row /\ r.type = "add" /\ r.version = v
  BY <1>1 DEF AddFile
<1>4. /\ RemoveFile(f, v, NoTimestamp) \in Row
      /\ RemoveFile(f, v, NoTimestamp).version = v
  BY Zenon, <1>1 DEF RemoveFile
<1> QED
  BY Zenon, <1>2, <1>3, <1>4

(* The invariant holds of the empty table.                                  *)
LEMMA InitIInv == Init => IInv
<1> SUFFICES ASSUME Init PROVE IInv
  OBVIOUS
<1>1. \A f \in Files : \A r \in Adds(f, 0) : r \in Row /\ r.type = "add" /\ r.version = 0
  BY RowTypes
<1>2. /\ checkpoint \subseteq Row /\ OnePerFile(checkpoint)
      /\ \A r \in checkpoint : r.type = "add" /\ r.version = 0
  BY <1>1 DEF Init
<1>3. commits = <<>> /\ Len(commits) = 0 /\ commits \in Seq(SUBSET Row)
  BY DEF Init
<1>4. TableOK
  BY <1>2, <1>3 DEF Init, TableOK
<1>5. Idle \in Task
  BY DEF Idle, Task
<1>6. task \in [Workers -> Task]
  BY <1>5 DEF Init
<1> QED
  BY <1>4, <1>6 DEF Init, IInv

(* Commits of any writer keep the invariant.                                *)
LEMMA CommitPreserves ==
    ASSUME IInv, Commit
    PROVE  IInv'
<1> DEFINE v == Len(commits) + 1
<1>1. /\ phase = "table"
      /\ UNCHANGED <<checkpoint, layout, place, predicate, start, phase, position, seen, delivered, task>>
  BY DEF Commit
<1>2. PICK rows \in SUBSET Writable(v) : OnePerFile(rows) /\ commits' = Append(commits, rows)
  BY DEF Commit
<1>3. TableOK /\ Len(commits) \in Nat /\ v \in Nat /\ commits \in Seq(SUBSET Row)
  BY DEF IInv, TableOK
<1>4. \A r \in Live : r.slot \in Files
  <2>1. Live \subseteq Row
    BY <1>3, RowsByVersion DEF Live, LiveAt
  <2> QED
    BY <2>1 DEF Row
<1>5. rows \subseteq Row /\ \A r \in rows : r.version = v
  <2> SUFFICES ASSUME NEW r \in rows PROVE r \in Row /\ r.version = v
    OBVIOUS
  <2>1. CASE \E f \in Files : r \in Adds(f, v)
    BY <1>3, <2>1, RowTypes
  <2>2. CASE \E f \in Files : r = RemoveFile(f, v, NoTimestamp)
    BY <1>3, <2>2, RowTypes
  <2>3. \/ \E f \in Files : r \in Adds(f, v)
        \/ \E f \in Files : r = RemoveFile(f, v, NoTimestamp)
    <3>1. r \in Writable(v)
      BY <1>2
    <3> QED
      BY <1>4, <3>1 DEF Writable
  <2> QED
    BY <2>1, <2>2, <2>3
<1>6. /\ commits' \in Seq(SUBSET Row) /\ Len(commits') = v /\ commits'[v] = rows
      /\ \A i \in 1 .. Len(commits) : commits'[i] = commits[i]
  BY <1>2, <1>3, <1>5
<1>7. \A i \in 1 .. Len(commits') :
        OnePerFile(commits'[i]) /\ \A r \in commits'[i] : r.version = i
  <2>1. \A i \in 1 .. Len(commits') : i = v \/ i \in 1 .. Len(commits)
    BY <1>3, <1>6
  <2> QED
    BY <1>2, <1>3, <1>5, <1>6, <2>1 DEF TableOK
<1>8. TableOK'
  BY Zenon, <1>1, <1>3, <1>6, <1>7 DEF TableOK, OnePerFile
<1> QED
  BY <1>1, <1>8 DEF IInv

(* At the version of the checkpoint its files are the live ones.            *)
LEMMA CheckpointIsLive ==
    ASSUME TableOK
    PROVE  LiveAt(0) = checkpoint
<1>1. RowsUpTo(0) = checkpoint
  BY DEF RowsUpTo
<1> QED
  BY <1>1 DEF LiveAt, TableOK

(* A scan starts from a base that is a scan result for its version.         *)
LEMMA StartPreserves ==
    ASSUME IInv, NEW kind, NEW floor \in 0 .. Len(commits), NEW batch, NEW files \in SUBSET Leaves,
           StartScan(kind, floor, batch, files),
           LET base == batch \cup UNION {RowsIn(l) : l \in files}
           IN  /\ base \subseteq Row /\ OnePerFile(base)
               /\ \A r \in base :
                    /\ r.type = "add"
                    /\ \E l \in LiveAt(floor) :
                         l.slot = r.slot /\ (r.slot \in RelevantTo(predicate') => r = l)
               /\ \A l \in LiveAt(floor) : l.slot \in RelevantTo(predicate') => l \in base,
           \A l \in files : RowsIn(l) \cap batch = {},
           kind = "parallel" /\ layout # "single" => batch = {},
           kind # "parallel" => files = {},
           kind # "existing" =>
             floor = 0 /\ batch \cup UNION {RowsIn(l) : l \in files} = checkpoint
    PROVE  IInv'
<1> DEFINE base == batch \cup UNION {RowsIn(l) : l \in files}
<1>1. /\ phase = "table" /\ predicate' \in {"None", "Some", "StaticSkipAll"}
      /\ start' = [kind |-> kind, floor |-> floor, batch |-> batch, files |-> files,
                   live |-> Live, relevant |-> RelevantTo(predicate')]
      /\ phase' = IF predicate' = "StaticSkipAll" /\ kind # "parallel" THEN "exhausted" ELSE "commits"
      /\ position' = Len(commits)
      /\ checkpoint' = checkpoint /\ layout' = layout /\ place' = place /\ commits' = commits
      /\ seen' = seen /\ delivered' = delivered /\ task' = task
  BY DEF StartScan, table
<1>2. /\ start'.kind = kind /\ start'.floor = floor /\ start'.batch = batch
      /\ start'.files = files /\ start'.live = Live /\ start'.relevant = RelevantTo(predicate')
  BY <1>1
<1>3. /\ TableOK /\ task \in [Workers -> Task] /\ seen = {} /\ delivered = {}
      /\ Len(commits) \in Nat
  BY <1>1 DEF IInv, TableOK
<1>4. TableOK'
  BY <1>1, <1>3 DEF TableOK
<1>5. StartOK'
  <2>1. Live' = Live /\ LiveAt(floor)' = LiveAt(floor) /\ Base' = base
    BY <1>1, <1>2 DEF Live, LiveAt, RowsUpTo, Base, RowsIn
  <2>2. \A l : RowsIn(l)' = RowsIn(l)
    BY <1>1 DEF RowsIn
  <2>3. ~HasManifest' => batch = {}
    BY <1>1, <1>2 DEF HasManifest
  <2>4. RelevantTo(predicate)' = RelevantTo(predicate')
    BY DEF RelevantTo
  <2>5. LiveAt(start.floor)' = LiveAt(floor)
    BY <1>2, <2>1 DEF LiveAt, RowsUpTo
  <2>6. start'.floor \in 0 .. Len(commits')
    BY <1>1, <1>2
  <2> HIDE DEF base
  <2>7. base \subseteq Row /\ OnePerFile(base)
    BY DEF base
  <2>8. \A r \in base :
          /\ r.type = "add"
          /\ \E l \in LiveAt(floor) :
               l.slot = r.slot /\ (r.slot \in RelevantTo(predicate') => r = l)
    BY DEF base
  <2>9. \A l \in LiveAt(floor) : l.slot \in RelevantTo(predicate') => l \in base
    BY DEF base
  <2>10. kind # "existing" => floor = 0 /\ base = checkpoint
    BY DEF base
  <2> QED
    BY <1>1, <1>2, <2>1, <2>2, <2>3, <2>4, <2>5, <2>6, <2>7, <2>8, <2>9, <2>10
       DEF StartOK, OnePerFile
<1>6. Progress'
  <2>1. Len(commits) + 1 .. Len(commits) = {}
    BY <1>3
  <2>2. SeenFrom(position)' = {} /\ CommitPairs(position)' = {}
    BY Zenon, <1>1, <2>1 DEF SeenFrom, CommitPairs
  <2>3. Skipped' <=> predicate' = "StaticSkipAll" /\ kind # "parallel"
    BY <1>2 DEF Skipped
  <2>4. position' \in (start.floor .. Len(commits))'
    BY <1>1, <1>2, <1>3
  <2> QED
    BY Zenon, <1>1, <1>2, <1>3, <2>2, <2>3, <2>4 DEF Progress
<1> QED
  BY Zenon, <1>1, <1>3, <1>4, <1>5, <1>6 DEF IInv

(* Scan::parallel_scan_metadata keeps the invariant.                        *)
LEMMA StartParallelPreserves ==
    ASSUME IInv, StartParallel
    PROVE  IInv'
<1>1. TableOK /\ 0 \in 0 .. Len(commits)
  BY DEF IInv, TableOK
<1>2. LiveAt(0) = checkpoint
  BY <1>1, CheckpointIsLive
<1>3. ASSUME NEW batch, NEW files \in SUBSET Leaves,
             StartScan("parallel", 0, batch, files),
             batch \cup UNION {RowsIn(l) : l \in files} = checkpoint,
             \A l \in files : RowsIn(l) \cap batch = {},
             layout # "single" => batch = {}
      PROVE  IInv'
  <2> DEFINE base == batch \cup UNION {RowsIn(l) : l \in files}
  <2>1. base = checkpoint
    BY <1>3
  <2>2. /\ base \subseteq Row /\ OnePerFile(base)
        /\ \A r \in base :
             /\ r.type = "add"
             /\ \E l \in LiveAt(0) :
                  l.slot = r.slot /\ (r.slot \in RelevantTo(predicate') => r = l)
        /\ \A l \in LiveAt(0) : l.slot \in RelevantTo(predicate') => l \in base
    BY Zenon, <1>1, <1>2, <2>1 DEF TableOK
  <2> QED
    BY <1>1, <1>3, <2>2, StartPreserves
<1>4. CASE layout = "multi"
  <2>1. StartScan("parallel", 0, {}, Leaves)
    BY <1>4 DEF StartParallel
  <2>2. {} \cup UNION {RowsIn(l) : l \in Leaves} = checkpoint
    BY <1>1, <1>4 DEF TableOK, RowsIn
  <2> QED
    BY <1>3, <2>1, <2>2
<1>5. CASE layout # "multi"
  <2> DEFINE files == {l \in Leaves : RowsIn(l) # {}}
  <2>1. StartScan("parallel", 0, RowsIn("manifest"), files)
    BY <1>5 DEF StartParallel
  <2>2. RowsIn("manifest") \cup UNION {RowsIn(l) : l \in files} = checkpoint
    <3>1. ASSUME NEW r \in checkpoint
          PROVE  r \in RowsIn("manifest") \/ \E l \in files : r \in RowsIn(l)
      BY <1>1 DEF TableOK, RowsIn
    <3>2. \A l : RowsIn(l) \subseteq checkpoint
      BY DEF RowsIn
    <3> HIDE DEF files
    <3> QED
      BY <3>1, <3>2
  <2>3. \A l \in files : RowsIn(l) \cap RowsIn("manifest") = {}
    BY ParallelScanAssumption DEF RowsIn
  <2>4. layout = "single" /\ files \in SUBSET Leaves
    BY Zenon, <1>1, <1>5 DEF TableOK
  <2> QED
    BY Zenon, <1>3, <2>1, <2>2, <2>3, <2>4
<1> QED
  BY <1>4, <1>5

(* Scan::scan_metadata keeps the invariant.                                 *)
LEMMA StartSequentialPreserves ==
    ASSUME IInv, StartSequential
    PROVE  IInv'
<1>1. TableOK /\ 0 \in 0 .. Len(commits)
  BY DEF IInv, TableOK
<1>2. LiveAt(0) = checkpoint
  BY <1>1, CheckpointIsLive
<1>3. StartScan("sequential", 0, checkpoint, {})
  BY DEF StartSequential
<1> DEFINE base == checkpoint \cup UNION {RowsIn(l) : l \in {}}
<1>4. base = checkpoint
  OBVIOUS
<1>5. /\ base \subseteq Row /\ OnePerFile(base)
      /\ \A r \in base :
           /\ r.type = "add"
           /\ \E l \in LiveAt(0) :
                l.slot = r.slot /\ (r.slot \in RelevantTo(predicate') => r = l)
      /\ \A l \in LiveAt(0) : l.slot \in RelevantTo(predicate') => l \in base
  BY Zenon, <1>1, <1>2, <1>4 DEF TableOK
<1> QED
  BY <1>1, <1>3, <1>5, StartPreserves

(* What an earlier scan returned takes the place of the checkpoint if its   *)
(* predicate kept every file that matters now.                              *)
LEMMA StartFromExistingPreserves ==
    ASSUME IInv, StartFromExisting
    PROVE  IInv'
<1>0. PICK n \in 0 .. Len(commits), p \in {"None", "Some"} :
        \E rows \in SUBSET {r \in RowsUpTo(n) : r.type = "add"} :
          /\ IsScanResult(rows, n, p)
          /\ StartScan("existing", n, rows, {})
          /\ RelevantTo(predicate') \subseteq RelevantTo(p)
  BY DEF StartFromExisting
<1>1. PICK rows \in SUBSET {r \in RowsUpTo(n) : r.type = "add"} :
        /\ IsScanResult(rows, n, p)
        /\ StartScan("existing", n, rows, {})
        /\ RelevantTo(predicate') \subseteq RelevantTo(p)
  BY <1>0
<1>2. TableOK
  BY DEF IInv
<1> DEFINE base == rows \cup UNION {RowsIn(l) : l \in {}}
<1>3. base = rows
  OBVIOUS
<1>4. rows \subseteq Row
  BY <1>2, RowsByVersion
<1>5. /\ base \subseteq Row /\ OnePerFile(base)
      /\ \A r \in base :
           /\ r.type = "add"
           /\ \E l \in LiveAt(n) :
                l.slot = r.slot /\ (r.slot \in RelevantTo(predicate') => r = l)
      /\ \A l \in LiveAt(n) : l.slot \in RelevantTo(predicate') => l \in base
  <2> HIDE DEF base
  <2>1. \A r \in rows : \E l \in LiveAt(n) :
          l.slot = r.slot /\ (r.slot \in RelevantTo(predicate') => r = l)
    BY <1>1 DEF IsScanResult
  <2>2. \A r \in rows : r.type = "add"
    OBVIOUS
  <2> QED
    BY <1>1, <1>3, <1>4, <2>1, <2>2 DEF IsScanResult, OnePerFile
<1> QED
  BY <1>1, <1>5, StartPreserves

(* Every step keeps the invariant.                                          *)
LEMMA NextPreserves == IInv /\ [Next]_vars => IInv'
<1> SUFFICES ASSUME IInv, [Next]_vars PROVE IInv'
  OBVIOUS
<1>1. CASE UNCHANGED vars
  <2>1. CASE phase = "table"
    BY <1>1, <2>1 DEF vars, table, IInv, TableOK, OnePerFile
  <2>2. CASE phase # "table"
    <3>1. /\ UNCHANGED <<table, predicate, start, position, seen>>
          /\ UNCHANGED <<phase, delivered, task>>
      BY <1>1 DEF vars
    <3>2. TableOK /\ StartOK /\ Progress /\ task \in [Workers -> Task]
      BY <2>2 DEF IInv
    <3>3. /\ TableOK' /\ StartOK' /\ Skipped' = Skipped
          /\ position' \in (start.floor .. Len(commits))' /\ seen' = SeenFrom(position)'
          /\ CommitPairs(position)' = CommitPairs(position)
          /\ ManifestPairs' = ManifestPairs /\ AllPairs' = AllPairs
          /\ \A l : LeafPairs(l)' = LeafPairs(l)
      BY Zenon, <3>1, <3>2, Frozen
    <3>4. TasksOK => TasksOK'
      BY <3>1, <3>3 DEF TasksOK
    <3>5. Progress'
      BY Zenon, <3>1, <3>2, <3>3, <3>4 DEF Progress
    <3> QED
      BY Zenon, <2>2, <3>1, <3>2, <3>3, <3>5 DEF IInv
  <2> QED
    BY <2>1, <2>2
<1> QED
  BY Zenon, <1>1, CommitPreserves, StartParallelPreserves, StartSequentialPreserves,
     StartFromExistingPreserves, ReadCommitPreserves, ReadManifestPreserves, ExhaustPreserves,
     ReadErrorPreserves, FinishPreserves, DonePreserves, ReadLeafPreserves, RetryTaskPreserves,
     CollectPreserves DEF Next

(* The inductive invariant: the base of a scan is a scan result for its     *)
(* version, the seen files are those of the commits read, and what is       *)
(* delivered is part of what the log holds for the scan, all of it at the   *)
(* end.                                                                     *)
THEOREM ParallelScanInvariant == Spec => []IInv
  BY InitIInv, NextPreserves, PTL DEF Spec

----------------------------------------------------------------------------
(* The scan implements ScanContract.                                        *)

(* What has been delivered keeps the contract, and at the end fulfils it.   *)
Kept ==
    /\ Contract!Once(delivered)
    /\ \A p \in delivered : Contract!Deliverable(p[2])
    /\ phase = "done" =>
         \A l \in start.live : l.slot \in start.relevant => \E p \in delivered : p[2] = l

(* The invariant says what ScanContract promises of a scan that has begun.  *)
LEMMA InvKeeps == IInv /\ phase # "table" => Kept
<1> SUFFICES ASSUME IInv, phase # "table" PROVE Kept
  OBVIOUS
<1>1. TableOK /\ StartOK /\ Progress /\ delivered \subseteq AllPairs
  BY DEF IInv, Progress
<1>2. Contract!Once(delivered)
  BY <1>1, AllOnce DEF Contract!Once
<1>3. \A p \in delivered : Contract!Deliverable(p[2])
  BY <1>1, AllDeliverable DEF Contract!Deliverable
<1>4. ASSUME phase = "done", NEW l \in start.live, l.slot \in start.relevant
      PROVE  \E p \in delivered : p[2] = l
  <2>1. ~Skipped
    <3>1. Skipped => start.relevant = {}
      BY <1>1 DEF Skipped, StartOK, RelevantTo
    <3> QED
      BY <1>4, <3>1
  <2>2. AllPairs \subseteq delivered
    BY <1>1, <1>4, <2>1 DEF Progress
  <2> QED
    BY Zenon, <1>1, <1>4, <2>2, AllDelivered
<1> QED
  BY <1>2, <1>3, <1>4 DEF Kept

(* The same of the state after a step.                                      *)
LEMMA InvKeepsNext == (IInv /\ phase # "table")' => Kept'
  BY InvKeeps, PTL

(* A scan that starts is the first step of ScanContract.                    *)
LEMMA StartBegins ==
    ASSUME IInv, NEW kind, NEW floor, NEW batch, NEW files, StartScan(kind, floor, batch, files)
    PROVE  Contract!Begin
<1>1. /\ phase = "table" /\ start'.live = Live /\ phase' \in {"exhausted", "commits"}
      /\ delivered' = delivered
  BY DEF StartScan
<1>2. TableOK /\ Len(commits) \in 0 .. Len(commits)
  <2>1. TableOK
    BY DEF IInv
  <2>2. commits \in Seq(SUBSET Row)
    BY Zenon, <2>1 DEF TableOK
  <2>3. Len(commits) \in Nat
    BY ONLY <2>2
  <2> QED
    BY <2>1, <2>3
<1>3. \A l, m \in Live : l.slot = m.slot => l = m
  BY <1>2, LiveOnce DEF Live
<1>4. Status = "idle" /\ Status' = "running"
  BY <1>1 DEF Status
<1> QED
  BY <1>1, <1>3, <1>4 DEF Contract!Begin

(* Reading a batch, or taking the output of a worker, delivers.             *)
LEMMA StepDelivers ==
    ASSUME IInv', phase \in {"commits", "parallel"},
           phase' \in {"commits", "manifest", "parallel"}, start' = start,
           delivered \subseteq delivered'
    PROVE  Contract!Deliver
<1>1. Status = "running" /\ Status' = "running"
  BY DEF Status
<1>2. Kept'
  BY InvKeepsNext
<1> QED
  BY <1>1, <1>2 DEF Kept, Contract!Deliver, Contract!Once, Contract!Deliverable

(* The last step of a scan completes it.                                    *)
LEMMA StepCompletes ==
    ASSUME IInv', phase \in {"exhausted", "parallel"}, phase' = "done",
           start' = start, delivered' = delivered
    PROVE  Contract!Complete
<1>1. Status = "running" /\ Status' = "done"
  BY DEF Status
<1>2. Kept'
  BY InvKeepsNext
<1>3. \A l \in start.live : l.slot \in start.relevant => \E p \in delivered : p[2] = l
  BY <1>2 DEF Kept
<1> QED
  BY <1>1, <1>3 DEF Contract!Complete

(* Every step is one of ScanContract or changes nothing there.              *)
LEMMA StepImplements ==
    IInv /\ IInv' /\ [Next]_vars =>
      [Contract!Next]_<<start.live, start.relevant, delivered, Status>>
<1> SUFFICES ASSUME IInv, IInv', [Next]_vars
             PROVE  Contract!Next \/ UNCHANGED <<start.live, start.relevant, delivered, Status>>
  OBVIOUS
<1>1. CASE StartParallel \/ StartSequential \/ StartFromExisting
  <2>1. \E kind, floor, batch, files : StartScan(kind, floor, batch, files)
    BY <1>1 DEF StartParallel, StartSequential, StartFromExisting
  <2> QED
    BY <2>1, StartBegins DEF Contract!Next
<1>2. CASE ReadCommit \/ ReadManifest
  BY <1>2, StepDelivers DEF ReadCommit, ReadManifest, Contract!Next
<1>3. CASE \E w \in Workers : Collect(w)
  BY <1>3, StepDelivers DEF Collect, Contract!Next
<1>4. CASE Done
  BY Zenon, <1>4, StepCompletes DEF Done, Contract!Next
<1>5. CASE Finish
  <2>1. CASE phase # "exhausted"
    <3>1. phase \in {"commits", "manifest"} /\ phase' = "failed" /\ UNCHANGED <<start, delivered>>
      BY <1>5, <2>1 DEF Finish
    <3>2. Contract!Fail
      BY <3>1 DEF Contract!Fail, Status
    <3> QED
      BY <3>2 DEF Contract!Next
  <2>2. CASE phase = "exhausted" /\ start.files = {}
    BY Zenon, <1>5, <2>2, StepCompletes DEF Finish, Contract!Next
  <2>3. CASE phase = "exhausted" /\ start.files # {}
    BY Zenon, <1>5, <2>3 DEF Finish, Status
  <2> QED
    BY Zenon, <2>1, <2>2, <2>3
<1>6. CASE ReadError
  <2>1. Contract!Fail
    BY <1>6 DEF ReadError, Contract!Fail, Status
  <2> QED
    BY <2>1 DEF Contract!Next
<1>7. CASE Exhaust
  BY <1>7 DEF Exhaust, Status
<1>8. CASE Commit
  BY <1>8 DEF Commit, Status
<1>9. CASE \E w \in Workers : ReadLeaf(w) \/ RetryTask(w)
  BY <1>9 DEF ReadLeaf, RetryTask, Status
<1>10. CASE UNCHANGED vars
  BY <1>10 DEF vars, Status
<1> QED
  BY <1>1, <1>2, <1>3, <1>4, <1>5, <1>6, <1>7, <1>8, <1>9, <1>10 DEF Next

(* Every scan, in two phases or one, from the beginning or from an existing *)
(* result, keeps the contract: with any number of workers, leaf files,      *)
(* commits and repeated tasks, no live file that matters is missed, none is *)
(* delivered twice, and none that is not live is delivered                  *)
(* (SequentialPhase, ParallelPhase, Scan::scan_metadata_from).              *)
THEOREM ScansKeepTheContract == Spec => ImplementsScanContract
<1>1. Init => Contract!Init
  BY DEF Init, NotStarted, Status, Contract!Init
<1> QED
  BY <1>1, ParallelScanInvariant, StepImplements, PTL
     DEF Spec, ImplementsScanContract, Contract!Spec

----------------------------------------------------------------------------
(* The scan returns what one processor returns that reads the log in order. *)

Entry == [row : Row, is_log_batch : BOOLEAN]

(* The slots a scan has recorded when it has passed k rows.                 *)
ScanSeen(stream, k) ==
    {stream[j].row.slot : j \in {i \in 1 .. k : stream[i].is_log_batch /\ ~ScanIgnores(stream[i])}}

(* The adds a scan has returned when it has passed k rows.                  *)
ScanKept(stream, k) ==
    {stream[j].row : j \in {i \in 1 .. k :
        /\ ~ScanIgnores(stream[i]) /\ stream[i].row.type = "add"
        /\ stream[i].row.slot \notin ScanSeen(stream, i - 1)}}

(* SetToSeq lists the elements of a finite set.                             *)
LEMMA SetToSeqOf ==
    ASSUME NEW S, IsFiniteSet(S)
    PROVE  /\ SetToSeq(S) \in Seq(S)
           /\ \A x \in S : \E i \in 1 .. Len(SetToSeq(S)) : SetToSeq(S)[i] = x
<1> DEFINE n == Cardinality(S)
<1>1. n \in Nat /\ ExistsBijection(1 .. n, S)
  BY FS_CardinalityType
<1>2. PICK b \in Bijection(1 .. n, S) : TRUE
  BY <1>1 DEF ExistsBijection
<1>3. b \in [1 .. n -> S] /\ IsInjective(b)
  BY <1>2 DEF Bijection, Injection, IsInjective
<1>4. PICK f \in [1 .. n -> S] : f = SetToSeq(S) /\ IsInjective(f)
  BY <1>3 DEF SetToSeq
<1>5. f \in Injection(1 .. n, S)
  BY <1>4 DEF Injection, IsInjective
<1>6. IsFiniteSet(1 .. n) /\ Cardinality(1 .. n) = n
  BY <1>1, FS_Interval
<1>7. f \in Surjection(1 .. n, S)
  BY <1>5, <1>6, FS_Injection
<1>8. f \in Seq(S) /\ Len(f) = n
  BY <1>1, <1>4
<1> QED
  BY <1>4, <1>7, <1>8 DEF Surjection

(* Rows with at most one per data file are finitely many.                   *)
LEMMA RowsAreFinite ==
    ASSUME NEW rows \in SUBSET Row, OnePerFile(rows)
    PROVE  IsFiniteSet(rows)
<1> DEFINE slot == [r \in rows |-> r.slot]
<1>1. slot \in Injection(rows, Files)
  BY DEF Injection, IsInjective, OnePerFile, Row
<1> HIDE DEF slot
<1> QED
  BY <1>1, FS_Injection, ParallelScanAssumption

(* The batch rows of a set of rows.                                         *)
LEMMA BatchRows ==
    ASSUME NEW rows \in SUBSET Row, OnePerFile(rows)
    PROVE  LET log == FromLog(SetToSeq(rows))
               file == FromCheckpoint(SetToSeq(rows))
           IN  /\ log \in Seq(Entry) /\ file \in Seq(Entry)
               /\ \A x \in 1 .. Len(log) : log[x].row \in rows /\ log[x].is_log_batch
               /\ \A x \in 1 .. Len(file) : file[x].row \in rows /\ ~file[x].is_log_batch
               /\ \A r \in rows : \E x \in 1 .. Len(log) : log[x].row = r
               /\ \A r \in rows : \E x \in 1 .. Len(file) : file[x].row = r
<1> DEFINE s == SetToSeq(rows)
           log == FromLog(s)
           file == FromCheckpoint(s)
<1>1. s \in Seq(rows) /\ \A r \in rows : \E x \in 1 .. Len(s) : s[x] = r
  BY RowsAreFinite, SetToSeqOf
<1> HIDE DEF s
<1>2. Len(s) \in Nat /\ DOMAIN s = 1 .. Len(s) /\ \A x \in 1 .. Len(s) : s[x] \in rows
  BY <1>1
<1>3. /\ log = [x \in 1 .. Len(s) |-> [row |-> s[x], is_log_batch |-> TRUE]]
      /\ file = [x \in 1 .. Len(s) |-> [row |-> s[x], is_log_batch |-> FALSE]]
  BY <1>2 DEF FromLog, FromCheckpoint
<1>4. \A x \in 1 .. Len(s) : \A b \in BOOLEAN : [row |-> s[x], is_log_batch |-> b] \in Entry
  BY <1>2 DEF Entry
<1>5. log \in Seq(Entry) /\ Len(log) = Len(s) /\ file \in Seq(Entry) /\ Len(file) = Len(s)
  <2>1. \A n \in Nat : \A t \in [1 .. n -> Entry] : t \in Seq(Entry) /\ Len(t) = n
    OBVIOUS
  <2>2. log \in [1 .. Len(s) -> Entry] /\ file \in [1 .. Len(s) -> Entry]
    BY Zenon, <1>3, <1>4
  <2> HIDE DEF log, file
  <2> QED
    BY Zenon, <1>2, <2>1, <2>2
<1>6. \A x \in 1 .. Len(s) : /\ log[x].row = s[x] /\ log[x].is_log_batch
                             /\ file[x].row = s[x] /\ ~file[x].is_log_batch
  BY <1>3
<1> HIDE DEF log, file
<1>7. /\ \A x \in 1 .. Len(log) : log[x].row \in rows /\ log[x].is_log_batch
      /\ \A x \in 1 .. Len(file) : file[x].row \in rows /\ ~file[x].is_log_batch
  BY <1>2, <1>5, <1>6
<1>8. \A r \in rows : /\ \E x \in 1 .. Len(log) : log[x].row = r
                      /\ \E x \in 1 .. Len(file) : file[x].row = r
  BY <1>1, <1>5, <1>6
<1> QED
  BY Zenon, <1>5, <1>7, <1>8 DEF log, file, s

(* The rows of the log in order: newest first, and the checkpoint last.     *)
LEMMA StreamRows ==
    ASSUME TableOK
    PROVE  /\ Stream \in Seq(Entry)
           /\ \A j \in 1 .. Len(Stream) :
                /\ Stream[j].row \in RowsUpTo(Len(commits))
                /\ Stream[j].is_log_batch <=> Stream[j].row.version # 0
           /\ \A i, j \in 1 .. Len(Stream) :
                i <= j => Stream[j].row.version <= Stream[i].row.version
           /\ \A r \in RowsUpTo(Len(commits)) : \E j \in 1 .. Len(Stream) : Stream[j].row = r
<1> DEFINE N == Len(commits)
           seqs == [i \in 1 .. N |-> FromLog(SetToSeq(commits[N + 1 - i]))]
           log == FlattenSeq(seqs)
           file == FromCheckpoint(SetToSeq(checkpoint))
<1>1. /\ N \in Nat /\ checkpoint \in SUBSET Row /\ OnePerFile(checkpoint)
      /\ \A r \in checkpoint : r.version = 0
      /\ \A i \in 1 .. N : commits[i] \in SUBSET Row /\ OnePerFile(commits[i])
                           /\ \A r \in commits[i] : r.version = i
  BY DEF TableOK
<1>2. /\ file \in Seq(Entry)
      /\ \A x \in 1 .. Len(file) : file[x].row \in checkpoint /\ ~file[x].is_log_batch
      /\ \A r \in checkpoint : \E x \in 1 .. Len(file) : file[x].row = r
  BY <1>1, BatchRows
<1> HIDE DEF file
<1>3. ASSUME NEW i \in 1 .. N
      PROVE  /\ N + 1 - i \in 1 .. N /\ seqs[i] \in Seq(Entry)
             /\ \A x \in 1 .. Len(seqs[i]) : /\ seqs[i][x].row \in commits[N + 1 - i]
                                             /\ seqs[i][x].is_log_batch
             /\ \A r \in commits[N + 1 - i] : \E x \in 1 .. Len(seqs[i]) : seqs[i][x].row = r
  <2>1. N + 1 - i \in 1 .. N
    BY <1>1
  <2>2. PICK rows : rows = commits[N + 1 - i]
    OBVIOUS
  <2>3. rows \in SUBSET Row /\ OnePerFile(rows)
    BY <1>1, <2>1, <2>2
  <2>4. PICK s : s = FromLog(SetToSeq(rows))
    OBVIOUS
  <2>5. s = seqs[i]
    BY <2>2, <2>4
  <2> HIDE DEF seqs, N
  <2>6. /\ s \in Seq(Entry)
        /\ \A x \in 1 .. Len(s) : s[x].row \in rows /\ s[x].is_log_batch
        /\ \A r \in rows : \E x \in 1 .. Len(s) : s[x].row = r
    BY <2>3, <2>4, BatchRows
  <2> QED
    BY Zenon, <2>1, <2>2, <2>5, <2>6
<1>4. seqs \in Seq(Seq(Entry)) /\ Len(seqs) = N
  <2>1. seqs \in [1 .. N -> Seq(Entry)]
    BY <1>3
  <2>2. \A n \in Nat : \A t \in [1 .. n -> Seq(Entry)] : t \in Seq(Seq(Entry)) /\ Len(t) = n
    OBVIOUS
  <2> HIDE DEF seqs, N
  <2> QED
    BY <1>1, <2>1, <2>2
<1>5. log \in Seq(Entry) /\ \E block : Blocks(log, block, seqs, N)
  <2> HIDE DEF seqs, N
  <2> QED
    BY <1>4, FlattenBlocks, NaturalsAreWellOrdered
<1>6. PICK block : Blocks(log, block, seqs, N)
  BY Zenon, <1>5
<1>7. Stream = log \o file
  BY DEF Stream, file
<1> HIDE DEF seqs, log, N
<1>8. /\ block \in [1 .. Len(log) -> 1 .. N]
      /\ \A i, j \in 1 .. Len(log) : i <= j => block[i] <= block[j]
      /\ \A j \in 1 .. Len(log) :
           \E x \in 1 .. Len(seqs[block[j]]) : log[j] = seqs[block[j]][x]
      /\ \A b \in 1 .. N : \A x \in 1 .. Len(seqs[b]) :
           \E j \in 1 .. Len(log) : block[j] = b /\ log[j] = seqs[b][x]
  BY <1>6 DEF Blocks
<1>9. ASSUME NEW j \in 1 .. Len(log)
      PROVE  /\ log[j].row \in commits[N + 1 - block[j]] /\ log[j].is_log_batch
             /\ N + 1 - block[j] \in 1 .. N /\ log[j].row.version = N + 1 - block[j]
  <2>1. PICK b \in 1 .. N : b = block[j]
    BY <1>8
  <2>2. PICK x \in 1 .. Len(seqs[b]) : log[j] = seqs[b][x]
    BY Zenon, <1>8, <2>1
  <2>3. N + 1 - b \in 1 .. N /\ log[j].row \in commits[N + 1 - b] /\ log[j].is_log_batch
    BY <1>3, <2>2
  <2>4. log[j].row.version = N + 1 - b
    BY <1>1, <2>3
  <2> QED
    BY <2>1, <2>3, <2>4
<1>10. /\ Stream \in Seq(Entry) /\ Len(Stream) = Len(log) + Len(file)
       /\ Len(log) \in Nat /\ Len(file) \in Nat
       /\ \A j \in 1 .. Len(log) : Stream[j] = log[j]
       /\ \A x \in 1 .. Len(file) : Stream[Len(log) + x] = file[x]
  BY <1>2, <1>5, <1>7
<1>11. ASSUME NEW j \in 1 .. Len(Stream)
       PROVE  \/ j \in 1 .. Len(log) /\ Stream[j] = log[j]
              \/ j > Len(log) /\ Stream[j].row \in checkpoint /\ ~Stream[j].is_log_batch
  <2>1. CASE j > Len(log)
    <3>1. j - Len(log) \in 1 .. Len(file) /\ Len(log) + (j - Len(log)) = j
      BY <1>10, <2>1
    <3>2. Stream[j] = file[j - Len(log)]
      BY <1>10, <3>1
    <3> QED
      BY Zenon, <1>2, <2>1, <3>1, <3>2
  <2> QED
    BY <1>10, <2>1
<1>12. ASSUME NEW j \in 1 .. Len(Stream)
       PROVE  /\ Stream[j].row \in RowsUpTo(N)
              /\ Stream[j].is_log_batch <=> Stream[j].row.version # 0
  <2>1. CASE j \in 1 .. Len(log)
    <3>1. Stream[j].row.version # 0 /\ Stream[j].is_log_batch
      BY <1>9, <1>10, <2>1
    <3>2. Stream[j].row \in RowsUpTo(N)
      BY Zenon, <1>9, <1>10, <2>1 DEF RowsUpTo
    <3> QED
      BY Zenon, <3>1, <3>2
  <2>2. CASE Stream[j].row \in checkpoint /\ ~Stream[j].is_log_batch
    BY <1>1, <2>2 DEF RowsUpTo
  <2> QED
    BY Zenon, <1>11, <2>1, <2>2
<1>13. ASSUME NEW i \in 1 .. Len(Stream), NEW j \in 1 .. Len(Stream), i <= j
       PROVE  Stream[j].row.version <= Stream[i].row.version
  <2>1. CASE j \in 1 .. Len(log)
    <3>1. i \in 1 .. Len(log)
      BY <1>10, <1>13, <2>1
    <3>2. block[i] <= block[j] /\ block[i] \in 1 .. N /\ block[j] \in 1 .. N
      BY Zenon, <1>8, <1>13, <2>1, <3>1
    <3>3. Stream[i].row.version = N + 1 - block[i] /\ Stream[j].row.version = N + 1 - block[j]
      BY Zenon, <1>9, <1>10, <2>1, <3>1
    <3> QED
      BY <1>1, <3>2, <3>3
  <2>2. CASE Stream[j].row \in checkpoint
    <3>1. Stream[j].row.version = 0
      BY <1>1, <2>2
    <3>2. Stream[i] \in Entry
      BY <1>10
    <3>3. Stream[i].row.version \in Nat
      BY <3>2 DEF Entry, Row
    <3> QED
      BY <3>1, <3>3
  <2> QED
    BY Zenon, <1>11, <2>1, <2>2
<1>14. ASSUME NEW r \in RowsUpTo(N) PROVE \E j \in 1 .. Len(Stream) : Stream[j].row = r
  <2>1. CASE r \in checkpoint
    <3>1. PICK x \in 1 .. Len(file) : file[x].row = r
      BY <1>2, <2>1
    <3>2. Len(log) + x \in 1 .. Len(Stream) /\ Stream[Len(log) + x] = file[x]
      BY <1>10
    <3> QED
      BY <3>1, <3>2
  <2>2. CASE \E i \in 1 .. N : r \in commits[i]
    <3>1. PICK i \in 1 .. N : r \in commits[i]
      BY <2>2
    <3>2. N + 1 - i \in 1 .. N /\ N + 1 - (N + 1 - i) = i
      BY <1>1
    <3>3. PICK x \in 1 .. Len(seqs[N + 1 - i]) : seqs[N + 1 - i][x].row = r
      BY Zenon, <1>3, <3>1, <3>2
    <3>4. PICK j \in 1 .. Len(log) : log[j] = seqs[N + 1 - i][x]
      BY Zenon, <1>8, <3>2
    <3>5. j \in 1 .. Len(Stream) /\ Stream[j] = log[j]
      BY <1>10
    <3> QED
      BY Zenon, <3>3, <3>4, <3>5
  <2> QED
    BY Zenon, <2>1, <2>2 DEF RowsUpTo
<1> QED
  BY Zenon, <1>10, <1>12, <1>13, <1>14 DEF N

(* With a predicate, a row of the log is ignored exactly when it is skipped. *)
LEMMA IgnoredIsSkipped ==
    ASSUME TableOK, predicate = "Some", NEW j \in 1 .. Len(Stream)
    PROVE  ScanIgnores(Stream[j]) <=> Skips(Stream[j].row)
<1>1. /\ Stream[j].row \in RowsUpTo(Len(commits))
      /\ Stream[j].is_log_batch <=> Stream[j].row.version # 0
  BY StreamRows
<1>2. Len(commits) \in 0 .. Len(commits)
  BY DEF TableOK
<1>3. /\ Stream[j].row \in Row
      /\ Stream[j].row.type = "add" \/ Stream[j].row.version # 0
  BY <1>1, <1>2, RowsByVersion
<1>4. IsFileAction(Stream[j].row)
  BY <1>3 DEF IsFileAction, Row
<1> QED
  BY <1>1, <1>3, <1>4 DEF ScanIgnores, Skips

(* What one processor returns that reads the commits and the checkpoint.    *)
LEMMA SequentialReturns ==
    ASSUME TableOK, predicate = "Some"
    PROVE  ScanFiles(Stream) =
             {r \in RowsUpTo(Len(commits)) :
                r.type = "add" /\ ~Skips(r) /\ r.slot \notin SeenFrom(r.version)}
<1> DEFINE N == Len(commits)
           n == Len(Stream)
           Returned == {r \in RowsUpTo(N) :
                          r.type = "add" /\ ~Skips(r) /\ r.slot \notin SeenFrom(r.version)}
<1>1. N \in Nat /\ N \in 0 .. N
  BY DEF TableOK
<1>2. /\ Stream \in Seq(Entry) /\ n \in Nat
      /\ \A j \in 1 .. n : /\ Stream[j].row \in RowsUpTo(N)
                           /\ Stream[j].is_log_batch <=> Stream[j].row.version # 0
      /\ \A i, j \in 1 .. n : i <= j => Stream[j].row.version <= Stream[i].row.version
      /\ \A r \in RowsUpTo(N) : \E j \in 1 .. n : Stream[j].row = r
  BY StreamRows
<1>3. ScanFiles(Stream) = ScanKept(Stream, n)
  <2> DEFINE ignored == {e \in Range(Stream) : ScanIgnores(e)}
  <2>1. \A j \in 1 .. n : Stream[j] \in ignored <=> ScanIgnores(Stream[j])
    BY <1>2 DEF Range
  <2>2. ScanFiles(Stream) = AddsLeft(Stream, ignored, n)
    BY <1>2, DeduplicatedIs, NaturalsAreWellOrdered DEF ScanFiles
  <2> HIDE DEF ignored
  <2>3. \A k \in 0 .. n : SlotsSeen(Stream, ignored, k) = ScanSeen(Stream, k)
    BY <1>2, <2>1 DEF SlotsSeen, ScanSeen
  <2>4. \A j \in 1 .. n : j - 1 \in 0 .. n
    BY <1>2
  <2>5. AddsLeft(Stream, ignored, n) = ScanKept(Stream, n)
    BY <2>1, <2>3, <2>4 DEF AddsLeft, ScanKept
  <2> QED
    BY <2>2, <2>5
<1>4. \A j \in 1 .. n : ScanIgnores(Stream[j]) <=> Skips(Stream[j].row)
  BY IgnoredIsSkipped
<1>5. \A r \in RowsUpTo(N) :
        /\ r \in Row /\ r.slot \in Files /\ r.version \in Nat
        /\ r.version # 0 => r.version \in 1 .. N /\ r \in commits[r.version]
  BY <1>1, RowsByVersion DEF Row
<1>6. ASSUME NEW v \in Nat, NEW i \in v + 1 .. N, NEW s \in commits[i]
      PROVE  s \in RowsUpTo(N) /\ s.version = i /\ i \in Nat /\ i > v
  <2>1. i \in 1 .. N /\ i \in Nat /\ i > v
    BY <1>1
  <2> QED
    BY <2>1 DEF TableOK, RowsUpTo
<1> HIDE DEF n, N
<1>7. ASSUME NEW j \in 1 .. n, ~Skips(Stream[j].row), Stream[j].row.type = "add",
             Stream[j].row.slot \notin ScanSeen(Stream, j - 1)
      PROVE  Stream[j].row \in Returned
  <2> DEFINE r == Stream[j].row
  <2>1. r \in RowsUpTo(N) /\ r.version \in Nat
    BY <1>2, <1>5
  <2>2. ASSUME r.slot \in SeenFrom(r.version) PROVE FALSE
    <3>1. PICK i \in r.version + 1 .. N : \E s \in commits[i] : s.slot = r.slot /\ ~Skips(s)
      BY <2>2 DEF SeenFrom, N
    <3>2. PICK s \in commits[i] : s.slot = r.slot /\ ~Skips(s)
      BY <3>1
    <3> HIDE DEF r
    <3>3. s \in RowsUpTo(N) /\ s.version = i /\ i \in Nat /\ i > r.version
      BY <1>6, <2>1
    <3>4. PICK k \in 1 .. n : Stream[k].row = s
      BY <1>2, <3>3
    <3>5. ~(j <= k)
      <4>1. j <= k => Stream[k].row.version <= Stream[j].row.version
        BY <1>2
      <4> QED
        BY <2>1, <3>3, <3>4, <4>1 DEF r
    <3>6. k \in 1 .. j - 1
      BY <1>2, <3>5
    <3>7. Stream[k].is_log_batch /\ ~ScanIgnores(Stream[k])
      BY <1>2, <1>4, <2>1, <3>2, <3>3, <3>4
    <3>8. s.slot \in ScanSeen(Stream, j - 1)
      BY Zenon, <3>4, <3>6, <3>7 DEF ScanSeen
    <3> QED
      BY Zenon, <1>7, <3>2, <3>8 DEF r
  <2> QED
    BY Zenon, <1>7, <2>1, <2>2
<1>8. ASSUME NEW r \in Returned
      PROVE  \E j \in 1 .. n : /\ ~Skips(Stream[j].row) /\ Stream[j].row = r /\ r.type = "add"
                               /\ r.slot \notin ScanSeen(Stream, j - 1)
  <2> DEFINE K == {k \in 1 .. n : /\ Stream[k].is_log_batch /\ ~ScanIgnores(Stream[k])
                                  /\ Stream[k].row.slot = r.slot}
  <2>1. /\ r \in RowsUpTo(N) /\ r.type = "add" /\ ~Skips(r) /\ r.slot \notin SeenFrom(r.version)
        /\ r \in Row /\ r.slot \in Files /\ r.version \in Nat
    BY <1>5
  <2>2. PICK p \in 1 .. n : Stream[p].row = r
    BY Zenon, <1>2, <2>1
  <2>3. ASSUME NEW k \in K
        PROVE  Stream[k].row.version \in Nat /\ Stream[k].row.version <= r.version
    <3>1. PICK s \in RowsUpTo(N) : s = Stream[k].row /\ s.slot = r.slot /\ ~Skips(s) /\ s.version # 0
      BY Zenon, <1>2, <1>4
    <3>2. s.version \in 1 .. N /\ s \in commits[s.version] /\ s.version \in Nat
      BY <1>5, <3>1
    <3>3. s.version > r.version => s.version \in r.version + 1 .. N
      BY <1>1, <2>1, <3>2
    <3>4. s.version > r.version => r.slot \in SeenFrom(r.version)
      BY Zenon, <2>1, <3>1, <3>2, <3>3 DEF SeenFrom, N
    <3> QED
      BY <2>1, <3>1, <3>2, <3>4
  <2>4. ASSUME NEW j \in 1 .. n, \A k \in K : ~(k < j)
        PROVE  r.slot \notin ScanSeen(Stream, j - 1)
    <3>1. ASSUME NEW k \in 1 .. j - 1 PROVE k \in 1 .. n /\ k < j
      BY <1>2
    <3> QED
      BY <2>4, <3>1 DEF ScanSeen
  <2>5. CASE r.version = 0
    <3>1. \A k \in K : Stream[k].row.version \in Nat /\ Stream[k].row.version # 0
      BY <1>2, <2>3
    <3>2. K = {}
      BY <2>3, <2>5, <3>1
    <3> HIDE DEF K
    <3>3. r.slot \notin ScanSeen(Stream, p - 1)
      BY <2>4, <3>2
    <3> QED
      BY Zenon, <2>1, <2>2, <3>3
  <2>6. CASE r.version # 0
    <3>1. p \in K
      BY Zenon, <1>2, <1>4, <2>1, <2>2, <2>6
    <3>2. PICK j \in K : \A k \in K : j <= k
      <4>1. K \in SUBSET Nat
        BY <1>2
      <4> HIDE DEF K
      <4> QED
        BY Zenon, <3>1, <4>1, LeastElement, NaturalsAreWellOrdered
    <3>3. j \in 1 .. n /\ j <= p /\ Stream[j].row.slot = r.slot /\ ~ScanIgnores(Stream[j])
      BY Zenon, <3>1, <3>2
    <3>4. Stream[j].row.version = r.version
      <4>1. r.version <= Stream[j].row.version
        BY Zenon, <1>2, <2>2, <3>3
      <4> QED
        BY <2>1, <2>3, <4>1
    <3>5. Stream[j].row = r
      <4>1. PICK s \in RowsUpTo(N) : s = Stream[j].row
        BY <1>2, <3>3
      <4> QED
        BY <1>1, <2>1, <3>3, <3>4, <4>1, OneRowPerVersion DEF N
    <3>6. r.slot \notin ScanSeen(Stream, j - 1)
      <4>1. \A k \in K : ~(k < j)
        BY <1>2, <3>2
      <4> QED
        BY Zenon, <2>4, <3>3, <4>1
    <3> QED
      BY Zenon, <2>1, <3>3, <3>5, <3>6
  <2> QED
    BY <2>5, <2>6
<1>9. ScanKept(Stream, n) = Returned
  <2> HIDE DEF Returned
  <2>1. ASSUME NEW x \in ScanKept(Stream, n) PROVE x \in Returned
    <3>1. PICK j \in 1 .. n :
            /\ x = Stream[j].row /\ ~ScanIgnores(Stream[j]) /\ Stream[j].row.type = "add"
            /\ Stream[j].row.slot \notin ScanSeen(Stream, j - 1)
      BY DEF ScanKept
    <3> QED
      BY Zenon, <1>4, <1>7, <3>1
  <2>2. ASSUME NEW x \in Returned PROVE x \in ScanKept(Stream, n)
    <3>1. PICK j \in 1 .. n : /\ ~Skips(Stream[j].row) /\ Stream[j].row = x /\ x.type = "add"
                              /\ x.slot \notin ScanSeen(Stream, j - 1)
      BY <1>8
    <3> QED
      BY <1>4, <3>1 DEF ScanKept
  <2> QED
    BY <2>1, <2>2
<1> QED
  BY <1>3, <1>9 DEF N

(* What a scan that starts from the checkpoint delivers in the end.         *)
LEMMA AllRows ==
    ASSUME TableOK, StartOK, start.floor = 0, Base = checkpoint
    PROVE  {p[2] : p \in AllPairs} =
             {r \in RowsUpTo(Len(commits)) :
                r.type = "add" /\ ~Skips(r) /\ r.slot \notin SeenFrom(r.version)}
<1> DEFINE N == Len(commits)
           Rows == {r \in RowsUpTo(N) :
                      r.type = "add" /\ ~Skips(r) /\ r.slot \notin SeenFrom(r.version)}
<1>1. /\ N \in Nat /\ N \in 0 .. N /\ 0 + 1 .. N = 1 .. N
      /\ \A r \in checkpoint : r.version = 0
      /\ \A i \in 1 .. N : \A r \in commits[i] : r.version = i
  BY DEF TableOK
<1>2. /\ \A i \in 1 .. N : commits[i] \subseteq RowsUpTo(N)
      /\ checkpoint \subseteq RowsUpTo(N)
      /\ \A r \in RowsUpTo(N) : \/ r \in checkpoint
                                \/ r.version \in 1 .. N /\ r \in commits[r.version]
  BY <1>1, RowsByVersion
<1>3. ASSUME NEW p \in AllPairs PROVE p[2] \in Rows
  <2>1. CASE p \in CommitPairs(0)
    <3>1. PICK i \in 1 .. N : p \in From(<<"commit", i>>, Unseen(commits[i], i))
      BY Zenon, <1>1, <2>1 DEF CommitPairs
    <3>2. PICK r \in Unseen(commits[i], i) : p[2] = r
      BY <3>1 DEF From
    <3>3. /\ r \in commits[i] /\ r.type = "add" /\ ~Skips(r) /\ r.slot \notin SeenFrom(i)
      BY <3>2 DEF Unseen
    <3> QED
      BY Zenon, <1>1, <1>2, <3>2, <3>3
  <2>2. CASE p \notin CommitPairs(0)
    <3>1. PICK r \in Unseen(checkpoint, 0) : p[2] = r
      <4>1. CASE p \in ManifestPairs
        BY <4>1 DEF ManifestPairs, From, Unseen, Base
      <4>2. CASE \E l \in start.files : p \in LeafPairs(l)
        BY <4>2 DEF LeafPairs, From, Unseen, Base
      <4> QED
        BY Zenon, <2>2, <4>1, <4>2 DEF AllPairs
    <3>2. r \in checkpoint /\ r.type = "add" /\ ~Skips(r) /\ r.slot \notin SeenFrom(0)
      BY DEF Unseen
    <3> QED
      BY <1>1, <1>2, <3>1, <3>2
  <2> QED
    BY <2>1, <2>2
<1>4. ASSUME NEW r \in Rows PROVE \E p \in AllPairs : p[2] = r
  <2>1. r \in RowsUpTo(N) /\ r.type = "add" /\ ~Skips(r) /\ r.slot \notin SeenFrom(r.version)
    OBVIOUS
  <2>2. CASE r \in checkpoint
    <3>1. r.slot \notin SeenFrom(0)
      BY Zenon, <1>1, <2>1, <2>2
    <3>2. CASE r \in start.batch
      <4>1. <<<<"manifest", 0>>, r>> \in ManifestPairs
        BY <2>1, <3>1, <3>2 DEF ManifestPairs, From, Unseen
      <4> QED
        BY <4>1 DEF AllPairs
    <3>3. CASE \E l \in start.files : r \in RowsIn(l)
      <4>1. PICK l \in start.files : r \in RowsIn(l)
        BY <3>3
      <4>2. <<<<"leaf", l>>, r>> \in LeafPairs(l)
        BY Zenon, <2>1, <3>1, <4>1 DEF LeafPairs, From, Unseen
      <4> QED
        BY <4>2 DEF AllPairs
    <3> QED
      BY Zenon, <2>2, <3>2, <3>3 DEF Base
  <2>3. CASE r.version \in 1 .. N /\ r \in commits[r.version]
    <3>1. PICK i \in 1 .. N : i = r.version
      BY <2>3
    <3>2. <<<<"commit", i>>, r>> \in From(<<"commit", i>>, Unseen(commits[i], i))
      BY Zenon, <2>1, <2>3, <3>1 DEF From, Unseen
    <3>3. <<<<"commit", i>>, r>> \in CommitPairs(0)
      BY <1>1, <3>2 DEF CommitPairs
    <3> QED
      BY <3>3 DEF AllPairs
  <2> QED
    BY Zenon, <1>2, <2>1, <2>2, <2>3
<1> QED
  <2> HIDE DEF Rows
  <2>1. {p[2] : p \in AllPairs} = Rows
    BY <1>3, <1>4
  <2> QED
    BY <2>1 DEF Rows

(* At the end the invariant says that the scan delivered what a sequential  *)
(* one does.                                                                *)
LEMMA InvIsSequential == IInv => ParallelIsSequential
<1> SUFFICES ASSUME IInv, phase = "done", predicate = "Some", start.kind # "existing"
             PROVE  {p[2] : p \in delivered} = ScanFiles(Stream)
  BY DEF ParallelIsSequential
<1>1. TableOK /\ StartOK /\ Progress
  BY DEF IInv
<1>2. start.floor = 0 /\ Base = checkpoint
  BY <1>1 DEF StartOK
<1>3. delivered = AllPairs
  BY Zenon, <1>1 DEF Progress, Skipped
<1> QED
  BY Zenon, <1>1, <1>2, <1>3, AllRows, SequentialReturns

(* A scan with a predicate returns, from all of its phases and workers      *)
(* together, exactly the add actions that a single ScanLogReplayProcessor   *)
(* returns for the whole log: distributing the leaf files, freezing the     *)
(* seen files and shipping the predicate change nothing.                    *)
THEOREM DistributionChangesNothing == Spec => []ParallelIsSequential
  BY ParallelScanInvariant, InvIsSequential, PTL

=============================================================================
