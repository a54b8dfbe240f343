------------------------- MODULE SnapshotCrc_proof --------------------------
(***************************************************************************)
(* Proofs about SnapshotCrc, for logs of any length and commits of any     *)
(* kind: checksums stay true of their version along any chain of           *)
(* post-commit snapshots, and a snapshot has the protocol and metadata of  *)
(* its version wherever it takes them from.                                *)
(***************************************************************************)
EXTENDS SnapshotCrc, FiniteSetTheorems, SequenceTheorems, SequenceFacts

Version == Nat \cup {None}

Crc == [protocol : Version, metaData : Version, domain : Version \cup {NotTracked},
        num_files : Nat, validity : {"Valid", "Indeterminate"}]

Lazy == [crc_file : Version, tried : BOOLEAN, cached : Crc \cup {None}, precomputed : Version]

Snapshot == [version : Nat, checkpoint : Version, latest_crc_file : Version,
             lazy : Lazy, pm : [Slots -> Version], behind : BOOLEAN]

TypeOK ==
    /\ commits \in Seq(Content)
    /\ checkpoints \subseteq 0 .. Latest
    /\ DOMAIN crcs \subseteq 0 .. Latest
    /\ crcs \in [DOMAIN crcs -> Crc]

(* The first commit writes protocol and metadata.                           *)
HasConfig == commits # <<>> => At(0).alters = Slots

(* Every checksum file is true of its version.                              *)
CrcsFaithful == \A v \in DOMAIN crcs : Describes(crcs[v], v)

(* A checksum in memory is of one of the versions so far, that of its file, *)
(* once it was read, or that of the snapshot that computed it, and is true. *)
LazyOK(lazy) ==
    /\ lazy.crc_file # None => lazy.crc_file \in DOMAIN crcs
    /\ lazy.precomputed # None => lazy.precomputed <= Latest
    /\ ~lazy.tried => lazy.cached = None /\ lazy.precomputed = None
    /\ lazy.cached # None => crc_version(lazy) # None

Faithful(lazy) == lazy.cached # None => Describes(lazy.cached, crc_version(lazy))

(* A snapshot is of a version of the log, names checksum files that exist,  *)
(* and has the protocol and metadata of its version unless it is behind.    *)
SnapshotOK(s) ==
    /\ s \in Snapshot
    /\ s.version <= Latest
    /\ s.latest_crc_file # None => s.latest_crc_file \in DOMAIN crcs
    /\ LazyOK(s.lazy)
    /\ Faithful(s.lazy)
    /\ ~s.behind => \A slot \in Slots : s.pm[slot] = LastWrite(slot, 0, s.version)

IInv ==
    /\ TypeOK
    /\ HasConfig
    /\ CrcsFaithful
    /\ snapshot # None => SnapshotOK(snapshot)

----------------------------------------------------------------------------
(* The newest of a set of versions.                                         *)

(* The naturals are well ordered.                                           *)
LEMMA NaturalsAreWellOrdered == WellOrdered
<1> SUFFICES ASSUME NEW T \in SUBSET Nat, T # {}
             PROVE  \E m \in T : \A k \in T : m <= k
  BY DEF WellOrdered
<1>1. PICK m \in T : \A k \in T : ~(<<k, m>> \in OpToRel(<, Nat))
  BY NatLessThanWellFounded, WFMin
<1>2. \A k \in T : ~(k < m)
  BY <1>1 DEF OpToRel
<1> QED
  BY <1>2

(* NewestIn finds the largest element, and None for the empty set only.     *)
LEMMA NewestProps ==
    ASSUME NEW n \in Nat, NEW S \in SUBSET (0 .. n)
    PROVE  /\ S = {} => NewestIn(S) = None
           /\ S # {} => /\ NewestIn(S) \in S
                        /\ NewestIn(S) # None
                        /\ \A v \in S : v <= NewestIn(S)
           /\ NewestIn(S) \in Version
<1>1. CASE S = {}
  BY <1>1 DEF NewestIn, Version
<1>2. CASE S # {}
  <2>1. S \in SUBSET Nat /\ n \in Nat /\ \A k \in S : k <= n
    BY <1>2
  <2>2. \E m \in S : \A k \in S : k <= m
    BY <1>2, <2>1, GreatestElement, NaturalsAreWellOrdered
  <2>3. Largest(S) \in S /\ \A k \in S : k <= Largest(S)
    BY <2>2 DEF Largest
  <2>4. NewestIn(S) = Largest(S)
    BY <1>2 DEF NewestIn
  <2>5. Largest(S) # None
    BY <2>1, <2>3, SnapshotCrcAssumption
  <2> QED
    BY <1>2, <2>1, <2>3, <2>4, <2>5 DEF Version
<1> QED
  BY <1>1, <1>2

(* An element that no other exceeds is the newest.                          *)
LEMMA NewestIs ==
    ASSUME NEW n \in Nat, NEW S \in SUBSET (0 .. n), NEW m \in S, \A v \in S : v <= m
    PROVE  NewestIn(S) = m
<1>1. NewestIn(S) \in S /\ \A v \in S : v <= NewestIn(S)
  BY NewestProps
<1>2. NewestIn(S) <= m /\ m <= NewestIn(S)
  BY <1>1
<1>3. \A v \in S : v \in 0 .. n
  OBVIOUS
<1>4. m \in 0 .. n /\ NewestIn(S) \in 0 .. n
  BY <1>1, <1>3
<1> QED
  BY <1>2, <1>4

(* What was last written in a range is what was last written in its upper   *)
(* part, or else in its lower part.                                         *)
LEMMA LastWriteSplit ==
    ASSUME NEW slot, NEW a \in Nat, NEW b \in Nat, NEW e \in Nat, a <= b + 1, b <= e
    PROVE  LastWrite(slot, a, e) = OrElse(LastWrite(slot, b + 1, e), LastWrite(slot, a, b))
<1> DEFINE W(i, j) == {v \in i .. j : slot \in At(v).alters}
<1>1. /\ W(a, e) \in SUBSET (0 .. e)
      /\ W(b + 1, e) \in SUBSET (0 .. e)
      /\ W(a, b) \in SUBSET (0 .. b)
  OBVIOUS
<1>2. /\ W(a, e) = W(a, b) \cup W(b + 1, e)
      /\ \A u \in W(a, b), v \in W(b + 1, e) : u <= v
  OBVIOUS
<1>3. /\ LastWrite(slot, a, e) = NewestIn(W(a, e))
      /\ LastWrite(slot, b + 1, e) = NewestIn(W(b + 1, e))
      /\ LastWrite(slot, a, b) = NewestIn(W(a, b))
  BY DEF LastWrite
<1> HIDE DEF W
<1>4. CASE W(b + 1, e) = {}
  BY <1>1, <1>2, <1>3, <1>4, NewestProps DEF OrElse
<1>5. CASE W(b + 1, e) # {}
  <2>1. /\ NewestIn(W(b + 1, e)) \in W(b + 1, e)
        /\ NewestIn(W(b + 1, e)) # None
        /\ \A v \in W(b + 1, e) : v <= NewestIn(W(b + 1, e))
    BY <1>1, <1>5, NewestProps
  <2>2. /\ NewestIn(W(b + 1, e)) \in W(a, e)
        /\ \A v \in W(a, e) : v <= NewestIn(W(b + 1, e))
    BY <1>2, <2>1
  <2>3. NewestIn(W(a, e)) = NewestIn(W(b + 1, e))
    BY <1>1, <2>2, NewestIs
  <2> QED
    BY <1>3, <2>1, <2>3 DEF OrElse
<1> QED
  BY <1>4, <1>5

(* Commits are at the versions 0 to Latest.                                 *)
LEMMA Commits ==
    ASSUME commits \in Seq(Content)
    PROVE  /\ Latest \in Int /\ Latest >= -1
           /\ Latest = -1 <=> commits = <<>>
           /\ \A v \in 0 .. Latest : At(v) \in Content
<1>1. Len(commits) \in Nat /\ \A i \in 1 .. Len(commits) : commits[i] \in Content
  OBVIOUS
<1>2. commits # <<>> => Len(commits) # 0
  BY EmptySeq
<1>3. \A v \in 0 .. Len(commits) - 1 : v + 1 \in 1 .. Len(commits)
  BY <1>1
<1> QED
  BY <1>1, <1>2, <1>3 DEF Latest, At

(* The newest version up to v that wrote the domain.                        *)
DomainWrites(v) == {w \in 0 .. v : At(w).dm # "none"}

(* The files that commits up to v count for.                                *)
Counted(v) == {w \in 0 .. v : is_incremental_safe(At(w).op) /\ At(w).adds = 1}

(* A new commit leaves what is said of the versions before it.              *)
LEMMA Extended ==
    ASSUME commits \in Seq(Content), NEW content \in Content,
           commits' = Append(commits, content)
    PROVE  /\ Latest' = Latest + 1
           /\ At(Latest)' = content
           /\ \A v \in 0 .. Latest : At(v)' = At(v)
           /\ \A v \in 0 .. Latest :
                /\ \A slot \in Slots : LastWrite(slot, 0, v)' = LastWrite(slot, 0, v)
                /\ DomainAt(v)' = DomainAt(v)
                /\ NumFiles(v)' = NumFiles(v)
<1>1. Latest' = Latest + 1
  BY DEF Latest
<1>2. \A v \in 0 .. Latest : At(v)' = At(v)
  BY DEF At, Latest
<1>3. At(Latest)' = content
  BY DEF At, Latest
<1>4. ASSUME NEW v \in 0 .. Latest
      PROVE  /\ \A slot \in Slots : LastWrite(slot, 0, v)' = LastWrite(slot, 0, v)
             /\ DomainAt(v)' = DomainAt(v)
             /\ NumFiles(v)' = NumFiles(v)
  <2>1. v \in Nat /\ \A w \in 0 .. v : At(w)' = At(w)
    <3>1. Latest \in Int
      BY Commits
    <3>2. \A w \in 0 .. v : w \in 0 .. Latest
      BY <3>1, <1>4
    <3> QED
      BY <1>2, <3>1, <3>2, <1>4
  <2>2. ASSUME NEW slot \in Slots
        PROVE  LastWrite(slot, 0, v)' = LastWrite(slot, 0, v)
    <3>1. {w \in 0 .. v : slot \in At(w)'.alters} = {w \in 0 .. v : slot \in At(w).alters}
      BY <2>1
    <3> QED
      BY <3>1 DEF LastWrite
  <2>3. DomainAt(v)' = DomainAt(v)
    <3>1. {w \in 0 .. v : At(w)'.dm # "none"} = {w \in 0 .. v : At(w).dm # "none"}
      BY <2>1
    <3>2. \/ NewestIn(DomainWrites(v)) = None
          \/ NewestIn(DomainWrites(v)) \in 0 .. v
      <4>1. DomainWrites(v) \in SUBSET (0 .. v)
        BY DEF DomainWrites
      <4> QED
        BY <2>1, <4>1, NewestProps
    <3> QED
      BY <2>1, <3>1, <3>2 DEF DomainAt, DomainWrites
  <2>4. NumFiles(v)' = NumFiles(v)
    <3>1. {w \in 0 .. v : is_incremental_safe(At(w)'.op) /\ At(w)'.adds = 1} = Counted(v)
      BY <2>1 DEF Counted
    <3> QED
      BY <3>1 DEF NumFiles, Counted
  <2> QED
    BY <2>2, <2>3, <2>4
<1> QED
  BY <1>1, <1>2, <1>3, <1>4

(* What a checksum says of a version is not disturbed by a new commit.      *)
LEMMA DescribesStable ==
    ASSUME commits \in Seq(Content), NEW content \in Content,
           commits' = Append(commits, content),
           NEW crc \in Crc, NEW v \in 0 .. Latest, Describes(crc, v)
    PROVE  /\ \A slot \in Slots : crc[slot] = LastWrite(slot, 0, v)'
           /\ crc.domain \in {DomainAt(v)', NotTracked}
           /\ crc.validity = "Valid" => crc.num_files = NumFiles(v)'
  BY Extended DEF Describes

(* The table has protocol and metadata at every version.                    *)
LEMMA Configured ==
    ASSUME commits \in Seq(Content), HasConfig, NEW v \in 0 .. Latest, NEW slot \in Slots
    PROVE  LastWrite(slot, 0, v) \in 0 .. v /\ LastWrite(slot, 0, v) # None
<1> DEFINE W == {w \in 0 .. v : slot \in At(w).alters}
<1>1. v \in Nat /\ W \in SUBSET (0 .. v)
  BY Commits
<1>2. 0 \in W
  <2>1. commits # <<>>
    BY Commits
  <2> QED
    BY <1>1, <2>1 DEF HasConfig
<1> HIDE DEF W
<1>3. NewestIn(W) \in W /\ NewestIn(W) # None
  BY <1>1, <1>2, NewestProps
<1>4. LastWrite(slot, 0, v) = NewestIn(W)
  BY DEF LastWrite, W
<1> QED
  BY <1>1, <1>3, <1>4

(* What a new commit makes of the newest version's protocol, metadata,      *)
(* domain and number of files.                                              *)
LEMMA NextVersion ==
    ASSUME commits \in Seq(Content), NEW content \in Content,
           commits' = Append(commits, content), NEW n \in Nat, Latest = n
    PROVE  /\ \A slot \in Slots :
                LastWrite(slot, 0, n + 1)' =
                  IF slot \in content.alters THEN n + 1 ELSE LastWrite(slot, 0, n)
           /\ DomainAt(n + 1)' =
                IF content.dm = "none" THEN DomainAt(n)
                ELSE IF content.dm = "removed" THEN None ELSE n + 1
           /\ NumFiles(n + 1)' =
                IF is_incremental_safe(content.op) THEN NumFiles(n) + content.adds
                ELSE NumFiles(n)
           /\ NumFiles(n) \in Nat
<1>1. /\ \A w \in 0 .. n : At(w)' = At(w)
      /\ At(n + 1)' = content
  <2>1. At(Latest)' = content /\ Latest' = n + 1
    BY Extended
  <2>2. At(n + 1)' = content
    BY <2>1 DEF At
  <2> QED
    BY <2>2, Extended
<1>2. 0 .. (n + 1) = (0 .. n) \cup {n + 1} /\ n + 1 \notin 0 .. n
  OBVIOUS
<1>3. ASSUME NEW slot \in Slots
      PROVE  LastWrite(slot, 0, n + 1)' =
               IF slot \in content.alters THEN n + 1 ELSE LastWrite(slot, 0, n)
  <2> DEFINE W == {w \in 0 .. n : slot \in At(w).alters}
             V == {w \in 0 .. (n + 1) : slot \in At(w)'.alters}
  <2>1. V = IF slot \in content.alters THEN W \cup {n + 1} ELSE W
    BY <1>1, <1>2
  <2>2. /\ LastWrite(slot, 0, n + 1)' = NewestIn(V)
        /\ LastWrite(slot, 0, n) = NewestIn(W)
    BY DEF LastWrite
  <2>3. /\ V \in SUBSET (0 .. (n + 1))
        /\ \A v \in V : v <= n + 1
    OBVIOUS
  <2> HIDE DEF W, V
  <2>4. ASSUME slot \in content.alters
        PROVE  NewestIn(V) = n + 1
    <3>1. n + 1 \in V /\ n + 1 \in Nat
      BY <2>1, <2>4
    <3> QED
      BY <2>3, <3>1, NewestIs
  <2> QED
    BY <2>1, <2>2, <2>4
<1>4. DomainAt(n + 1)' = IF content.dm = "none" THEN DomainAt(n)
                         ELSE IF content.dm = "removed" THEN None ELSE n + 1
  <2> DEFINE W == {w \in 0 .. n : At(w).dm # "none"}
             V == {w \in 0 .. (n + 1) : At(w)'.dm # "none"}
  <2>1. V = IF content.dm # "none" THEN W \cup {n + 1} ELSE W
    BY <1>1, <1>2
  <2>2. /\ W \in SUBSET (0 .. n)
        /\ V \in SUBSET (0 .. (n + 1))
        /\ \A v \in V : v <= n + 1
    OBVIOUS
  <2>3. /\ DomainAt(n + 1)' = IF NewestIn(V) = None \/ commits'[NewestIn(V) + 1].dm = "removed"
                              THEN None ELSE NewestIn(V)
        /\ DomainAt(n) = IF NewestIn(W) = None \/ At(NewestIn(W)).dm = "removed"
                         THEN None ELSE NewestIn(W)
    BY DEF DomainAt, At
  <2> HIDE DEF W, V
  <2>4. CASE content.dm = "none"
    <3>1. NewestIn(W) = None \/ NewestIn(W) \in 0 .. n
      BY <2>2, NewestProps
    <3>2. NewestIn(W) # None => commits'[NewestIn(W) + 1] = At(NewestIn(W))
      BY <1>1, <3>1 DEF At
    <3> QED
      BY <2>1, <2>3, <2>4, <3>2
  <2>5. CASE content.dm # "none"
    <3>1. n + 1 \in V /\ n + 1 \in Nat
      BY <2>1, <2>5
    <3>2. NewestIn(V) = n + 1
      BY <2>2, <3>1, NewestIs
    <3>3. n + 1 # None
      BY SnapshotCrcAssumption
    <3>4. commits'[(n + 1) + 1] = content
      BY <1>1 DEF At
    <3> QED
      BY <2>3, <2>5, <3>2, <3>3, <3>4
  <2> QED
    BY <2>4, <2>5
<1>5. /\ NumFiles(n + 1)' = IF is_incremental_safe(content.op) THEN NumFiles(n) + content.adds
                            ELSE NumFiles(n)
      /\ NumFiles(n) \in Nat
  <2> DEFINE W == {w \in 0 .. n : is_incremental_safe(At(w).op) /\ At(w).adds = 1}
             V == {w \in 0 .. (n + 1) : is_incremental_safe(At(w)'.op) /\ At(w)'.adds = 1}
  <2>1. V = IF is_incremental_safe(content.op) /\ content.adds = 1 THEN W \cup {n + 1} ELSE W
    BY <1>1, <1>2
  <2>2. NumFiles(n + 1)' = Cardinality(V) /\ NumFiles(n) = Cardinality(W)
    BY DEF NumFiles
  <2>3. IsFiniteSet(W) /\ n + 1 \notin W
    <3>1. IsFiniteSet(0 .. n)
      BY FS_Interval
    <3> QED
      BY <3>1, <1>2, FS_Subset
  <2> HIDE DEF W, V
  <2>4. Cardinality(W) \in Nat /\ Cardinality(W \cup {n + 1}) = Cardinality(W) + 1
    BY <2>3, FS_CardinalityType, FS_AddElement
  <2>5. content.adds \in {0, 1}
    BY DEF Content
  <2> QED
    BY <2>1, <2>2, <2>4, <2>5
<1> QED
  BY <1>3, <1>4, <1>5

(* Version 0 of a table.                                                    *)
LEMMA FirstVersion ==
    ASSUME NEW content \in Content, commits' = <<content>>,
           content.alters = Slots, content.dm # "removed", content.op = "WRITE"
    PROVE  /\ Latest' = 0
           /\ \A slot \in Slots : LastWrite(slot, 0, 0)' = 0
           /\ DomainAt(0)' = IF content.dm = "set" THEN 0 ELSE None
           /\ NumFiles(0)' = content.adds
<1>1. At(0)' = content /\ Latest' = 0 /\ 0 .. 0 = {0} /\ 0 # None
  BY SnapshotCrcAssumption DEF At, Latest
<1>2. NewestIn({0}) = 0
  BY NewestIs
<1>3. ASSUME NEW slot \in Slots
      PROVE  LastWrite(slot, 0, 0)' = 0
  <2>1. {w \in 0 .. 0 : slot \in At(w)'.alters} = {0}
    BY <1>1
  <2> QED
    BY <1>2, <2>1 DEF LastWrite
<1>4. DomainAt(0)' = IF content.dm = "set" THEN 0 ELSE None
  <2>1. {w \in 0 .. 0 : At(w)'.dm # "none"} = IF content.dm = "none" THEN {} ELSE {0}
    BY <1>1
  <2>2. content.dm \in {"none", "set", "removed"}
    BY DEF Content
  <2> QED
    BY <1>1, <1>2, <2>1, <2>2 DEF DomainAt, NewestIn
<1>5. NumFiles(0)' = content.adds
  <2>1. {w \in 0 .. 0 : is_incremental_safe(At(w)'.op) /\ At(w)'.adds = 1}
          = IF content.adds = 1 THEN {0} ELSE {}
    BY <1>1 DEF is_incremental_safe
  <2>2. content.adds \in {0, 1}
    BY DEF Content
  <2>3. Cardinality({0}) = 1 /\ Cardinality({}) = 0
    BY FS_Singleton, FS_EmptySet
  <2> QED
    BY <2>1, <2>2, <2>3 DEF NumFiles
<1> QED
  BY <1>1, <1>3, <1>4, <1>5

----------------------------------------------------------------------------
(* Lazily loaded checksums.                                                 *)

(* Loading the checksum keeps the loader consistent and the checksum true.  *)
LEMMA Loading ==
    ASSUME TypeOK, CrcsFaithful, NEW lazy \in Lazy, LazyOK(lazy), Faithful(lazy),
           NEW readable \in BOOLEAN
    PROVE  LET loaded == get_or_load(lazy, readable)
           IN  /\ loaded \in Lazy
               /\ LazyOK(loaded)
               /\ Faithful(loaded)
               /\ crc_version(loaded) = crc_version(lazy)
<1> DEFINE loaded == get_or_load(lazy, readable)
<1>1. CASE lazy.tried
  BY <1>1 DEF get_or_load
<1>2. CASE ~lazy.tried
  <2>1. /\ lazy.precomputed = None
        /\ lazy.crc_file # None => /\ lazy.crc_file \in DOMAIN crcs
                                   /\ crcs[lazy.crc_file] \in Crc
                                   /\ Describes(crcs[lazy.crc_file], lazy.crc_file)
    BY <1>2 DEF LazyOK, TypeOK, CrcsFaithful
  <2>2. /\ loaded.crc_file = lazy.crc_file
        /\ loaded.tried
        /\ loaded.precomputed = None
        /\ loaded.cached = IF lazy.crc_file # None /\ readable THEN crcs[lazy.crc_file] ELSE None
    BY <1>2, <2>1 DEF get_or_load, Lazy
  <2>3. loaded \in Lazy
    BY <1>2, <2>1 DEF get_or_load, Lazy
  <2>4. crc_version(loaded) = lazy.crc_file /\ crc_version(lazy) = lazy.crc_file
    BY <2>1, <2>2 DEF crc_version, OrElse
  <2> HIDE DEF loaded
  <2>5. LazyOK(loaded) /\ Faithful(loaded)
    BY <2>1, <2>2, <2>4 DEF LazyOK, Faithful
  <2> QED
    BY <2>3, <2>4, <2>5 DEF loaded
<1> QED
  BY <1>1, <1>2

(* A loader for a file that exists.                                         *)
LEMMA NewLoader ==
    ASSUME NEW file \in Version, file # None => file \in DOMAIN crcs
    PROVE  /\ LazyFile(file) \in Lazy
           /\ LazyOK(LazyFile(file))
           /\ Faithful(LazyFile(file))
           /\ crc_version(LazyFile(file)) = file
  BY DEF LazyFile, Lazy, Version, LazyOK, Faithful, crc_version, OrElse

----------------------------------------------------------------------------
(* Reading protocol and metadata.                                           *)

Segment == [first : Nat, end : Nat, checkpoint : Version, crc : Version]

(* What a segment holds of a slot: its commits, or else its checkpoint.     *)
Holds(seg, slot) ==
    OrElse(LastWrite(slot, seg.first, seg.end),
           IF seg.checkpoint = None THEN None ELSE LastWrite(slot, 0, seg.checkpoint))

(* The commits of a segment follow its checkpoint, and its checksum is not  *)
(* older than the version before its first commit.                          *)
SegmentOK(seg) ==
    /\ seg \in Segment
    /\ seg.end <= Latest /\ seg.first <= seg.end + 1
    /\ seg.checkpoint # None => seg.first = seg.checkpoint + 1
    /\ seg.crc # None => /\ seg.crc \in DOMAIN crcs
                         /\ seg.crc <= seg.end
                         /\ seg.first <= seg.crc + 1

(* Slots that no commit of a range writes have no last write.               *)
LEMMA LastWriteType ==
    ASSUME NEW slot, NEW a \in Nat, NEW e \in Nat
    PROVE  LastWrite(slot, a, e) \in Version
<1>1. {v \in a .. e : slot \in At(v).alters} \in SUBSET (0 .. e)
  OBVIOUS
<1> QED
  BY <1>1, NewestProps DEF LastWrite

(* Replaying a segment finds what it holds.                                 *)
LEMMA Replay ==
    ASSUME NEW seg \in Segment, NEW slot \in Slots
    PROVE  /\ replay_for_pm(seg, Nothing)[slot] = Holds(seg, slot)
           /\ Holds(seg, slot) \in Version
<1>1. /\ LastWrite(slot, seg.first, seg.end) \in Version
      /\ seg.checkpoint # None => LastWrite(slot, 0, seg.checkpoint) \in Version
  BY LastWriteType DEF Segment, Version
<1> QED
  BY <1>1 DEF replay_for_pm, Nothing, Holds, OrElse, Version

(* Whether the checksum is of the end of the segment or of an earlier       *)
(* version, is read, cannot be read or is not needed:                       *)
(* read_protocol_metadata_opt finds what the segment holds, or what a       *)
(* replay of the whole log would.                                           *)
LEMMA ReadFinds ==
    ASSUME TypeOK, HasConfig, CrcsFaithful, NEW seg, SegmentOK(seg),
           NEW readable \in BOOLEAN, NEW slot \in Slots
    PROVE  LET pm == read_protocol_metadata_opt(seg, LazyFile(seg.crc), readable).pm
           IN  pm[slot] \in {Holds(seg, slot), LastWrite(slot, 0, seg.end)}
<1> DEFINE lazy == LazyFile(seg.crc)
           loaded == get_or_load(lazy, readable)
           pm == read_protocol_metadata_opt(seg, lazy, readable).pm
<1>1. /\ crc_version(lazy) = seg.crc
      /\ loaded.cached # None => Describes(loaded.cached, seg.crc)
  <2>1. /\ lazy \in Lazy /\ LazyOK(lazy) /\ Faithful(lazy)
        /\ crc_version(lazy) = seg.crc
    BY NewLoader DEF SegmentOK, Segment
  <2>2. Faithful(loaded) /\ crc_version(loaded) = seg.crc
    BY <2>1, Loading
  <2> QED
    BY <2>1, <2>2 DEF Faithful
<1>2. replay_for_pm(seg, Nothing)[slot] = Holds(seg, slot)
  BY Replay DEF SegmentOK
<1>3. CASE seg.crc = None
  <2>1. pm = replay_for_pm(seg, Nothing)
    <3>1. seg.end # None
      BY SnapshotCrcAssumption DEF SegmentOK, Segment
    <3> QED
      BY <1>1, <1>3, <3>1 DEF read_protocol_metadata_opt
  <2> QED
    BY <1>2, <2>1
<1>4. CASE seg.crc = seg.end /\ seg.crc # None /\ loaded.cached = None
  <2>1. pm = replay_for_pm(seg, Nothing)
    BY <1>1, <1>4 DEF read_protocol_metadata_opt
  <2> QED
    BY <1>2, <2>1
<1>5. CASE seg.crc = seg.end /\ seg.crc # None /\ loaded.cached # None
  <2>1. pm = [s \in Slots |-> loaded.cached[s]]
    BY <1>1, <1>5 DEF read_protocol_metadata_opt
  <2> QED
    BY <1>1, <1>5, <2>1 DEF Describes
<1>6. CASE seg.crc # seg.end /\ seg.crc # None
  <2> DEFINE k == seg.crc
             after == replay_for_pm(segment_after_crc(seg, k), Nothing)
  <2>1. /\ k \in Nat /\ k < seg.end /\ seg.first <= k + 1
        /\ seg.first \in Nat /\ seg.end \in Nat /\ seg \in Segment
    BY <1>6 DEF SegmentOK, Segment, Version
  <2>2. after[slot] = LastWrite(slot, k + 1, seg.end)
    <3> DEFINE tail == segment_after_crc(seg, k)
    <3>1. /\ tail \in Segment
          /\ tail.first = k + 1 /\ tail.end = seg.end /\ tail.checkpoint = None
      <4>1. tail.first = k + 1 /\ tail.end = seg.end /\ tail.checkpoint = None
        BY <2>1 DEF segment_after_crc, Segment
      <4>2. /\ None \in Version
            /\ (IF k + 1 > seg.first THEN k + 1 ELSE seg.first) \in Nat
        BY <2>1 DEF Version
      <4>3. tail \in Segment
        BY <2>1, <4>2 DEF segment_after_crc, Segment
      <4> QED
        BY <4>1, <4>3
    <3>2. LastWrite(slot, k + 1, seg.end) \in Version
      BY <2>1, LastWriteType
    <3> HIDE DEF tail
    <3>3. replay_for_pm(tail, Nothing)[slot] = Holds(tail, slot)
      BY <3>1, Replay
    <3> QED
      BY <3>1, <3>2, <3>3 DEF Holds, OrElse, tail
  <2>3. /\ LastWrite(slot, seg.first, seg.end)
             = OrElse(LastWrite(slot, k + 1, seg.end), LastWrite(slot, seg.first, k))
        /\ LastWrite(slot, 0, seg.end)
             = OrElse(LastWrite(slot, k + 1, seg.end), LastWrite(slot, 0, k))
    BY <2>1, LastWriteSplit
  <2>4. CASE \A s \in Slots : after[s] # None
    <3>1. pm = after
      BY <1>1, <1>6, <2>4 DEF read_protocol_metadata_opt
    <3>2. after[slot] # None
      BY <2>4
    <3> QED
      BY <2>2, <2>3, <3>1, <3>2 DEF OrElse
  <2>5. CASE ~(\A s \in Slots : after[s] # None) /\ loaded.cached # None
    <3>1. pm = [s \in Slots |-> OrElse(after[s], loaded.cached[s])]
      BY <1>1, <1>6, <2>5 DEF read_protocol_metadata_opt
    <3>2. loaded.cached[slot] = LastWrite(slot, 0, k)
      BY <1>1, <2>5 DEF Describes
    <3> QED
      BY <2>2, <2>3, <3>1, <3>2
  <2>6. CASE ~(\A s \in Slots : after[s] # None) /\ loaded.cached = None
    <3>1. pm = replay_for_pm(segment_through_crc(seg, k), after)
      BY <1>1, <1>6, <2>6 DEF read_protocol_metadata_opt
    <3> DEFINE below == segment_through_crc(seg, k)
    <3>2. /\ below.first = seg.first /\ below.end = k /\ below.checkpoint = seg.checkpoint
      BY <2>1 DEF segment_through_crc, Segment
    <3>3. pm[slot] = OrElse(after[slot], OrElse(LastWrite(slot, seg.first, k),
                       IF seg.checkpoint = None THEN None ELSE LastWrite(slot, 0, seg.checkpoint)))
      BY <3>1, <3>2 DEF replay_for_pm
    <3> QED
      BY <2>2, <2>3, <3>3 DEF Holds, OrElse
  <2> QED
    BY <2>4, <2>5, <2>6
<1> QED
  BY <1>3, <1>4, <1>5, <1>6

(* A replay finds a version or nothing for each slot.                       *)
LEMMA ReplayType ==
    ASSUME NEW seg \in Segment, NEW found \in [Slots -> Version]
    PROVE  replay_for_pm(seg, found) \in [Slots -> Version]
<1>1. ASSUME NEW slot \in Slots
      PROVE  replay_for_pm(seg, found)[slot] \in Version
  <2>1. /\ LastWrite(slot, seg.first, seg.end) \in Version
        /\ seg.checkpoint # None => LastWrite(slot, 0, seg.checkpoint) \in Version
    BY LastWriteType DEF Segment, Version
  <2>2. None \in Version
    BY DEF Version
  <2> QED
    BY <2>1, <2>2 DEF replay_for_pm, OrElse
<1> QED
  BY <1>1 DEF replay_for_pm

(* What reading returns is of the right form, and the loader stays in order *)
(* whichever way is taken.                                                  *)
LEMMA ReadType ==
    ASSUME TypeOK, CrcsFaithful, NEW seg \in Segment,
           seg.crc # None => seg.crc \in DOMAIN crcs, NEW readable \in BOOLEAN
    PROVE  LET read == read_protocol_metadata_opt(seg, LazyFile(seg.crc), readable)
           IN  /\ read.pm \in [Slots -> Version]
               /\ read.lazy \in Lazy /\ LazyOK(read.lazy) /\ Faithful(read.lazy)
<1> DEFINE lazy == LazyFile(seg.crc)
           loaded == get_or_load(lazy, readable)
           read == read_protocol_metadata_opt(seg, lazy, readable)
           k == seg.crc
           after == replay_for_pm(segment_after_crc(seg, k), Nothing)
<1>1. /\ lazy \in Lazy /\ LazyOK(lazy) /\ Faithful(lazy)
      /\ crc_version(lazy) = k
  BY NewLoader DEF Segment
<1>2. loaded \in Lazy /\ LazyOK(loaded) /\ Faithful(loaded)
  BY <1>1, Loading
<1>3. /\ Nothing \in [Slots -> Version] /\ seg.end # None /\ None \in Version
      /\ seg.first \in Nat /\ seg.end \in Nat /\ k \in Version
  BY SnapshotCrcAssumption DEF Nothing, Segment, Version
<1>4. replay_for_pm(seg, Nothing) \in [Slots -> Version]
  BY <1>3, ReplayType
<1>5. loaded.cached # None => \A slot \in Slots : loaded.cached[slot] \in Version
  BY <1>2 DEF Lazy, Crc, Slots
<1> HIDE DEF loaded, lazy
<1>6. CASE k = None
  <2>1. read = [pm |-> replay_for_pm(seg, Nothing), lazy |-> lazy]
    BY <1>1, <1>3, <1>6 DEF read_protocol_metadata_opt
  <2> QED
    BY <1>1, <1>4, <2>1 DEF lazy
<1>7. CASE k = seg.end /\ loaded.cached = None
  <2>1. read = [pm |-> replay_for_pm(seg, Nothing), lazy |-> loaded]
    BY <1>1, <1>3, <1>7 DEF read_protocol_metadata_opt, loaded
  <2> QED
    BY <1>2, <1>4, <2>1 DEF lazy
<1>8. CASE k = seg.end /\ loaded.cached # None
  <2>1. read = [pm |-> [slot \in Slots |-> loaded.cached[slot]], lazy |-> loaded]
    BY <1>1, <1>3, <1>8 DEF read_protocol_metadata_opt, loaded
  <2> QED
    BY <1>2, <1>5, <1>8, <2>1 DEF lazy
<1>9. CASE k # None /\ k # seg.end
  <2>1. k \in Nat
    BY <1>3, <1>9 DEF Version
  <2>2. after \in [Slots -> Version]
    <3>1. (IF k + 1 > seg.first THEN k + 1 ELSE seg.first) \in Nat
      BY <1>3, <2>1
    <3>2. segment_after_crc(seg, k) \in Segment
      BY <1>3, <3>1 DEF segment_after_crc, Segment
    <3> QED
      BY <1>3, <3>2, ReplayType
  <2>3. segment_through_crc(seg, k) \in Segment
    BY <2>1 DEF segment_through_crc, Segment
  <2>4. replay_for_pm(segment_through_crc(seg, k), after) \in [Slots -> Version]
    BY <2>2, <2>3, ReplayType
  <2>5. CASE \A slot \in Slots : after[slot] # None
    <3>1. read = [pm |-> after, lazy |-> lazy]
      BY <1>1, <1>9, <2>5 DEF read_protocol_metadata_opt
    <3> QED
      BY <1>1, <2>2, <3>1 DEF lazy
  <2>6. CASE ~(\A slot \in Slots : after[slot] # None) /\ loaded.cached # None
    <3>1. read = [pm |-> [slot \in Slots |-> OrElse(after[slot], loaded.cached[slot])],
                  lazy |-> loaded]
      BY <1>1, <1>9, <2>6 DEF read_protocol_metadata_opt, loaded
    <3>2. \A slot \in Slots : OrElse(after[slot], loaded.cached[slot]) \in Version
      BY <1>5, <2>2, <2>6 DEF OrElse
    <3> QED
      BY <1>2, <3>1, <3>2 DEF lazy
  <2>7. CASE ~(\A slot \in Slots : after[slot] # None) /\ loaded.cached = None
    <3>1. read = [pm |-> replay_for_pm(segment_through_crc(seg, k), after), lazy |-> loaded]
      BY <1>1, <1>9, <2>7 DEF read_protocol_metadata_opt, loaded
    <3> QED
      BY <1>2, <2>4, <3>1 DEF lazy
  <2> QED
    BY <2>5, <2>6, <2>7
<1> QED
  BY <1>6, <1>7, <1>8, <1>9

----------------------------------------------------------------------------
(* Listing the log and building a snapshot.                                 *)

(* The checkpoint, the commits and the checksum of a listing fit together.  *)
LEMMA ListFits ==
    ASSUME TypeOK, NEW start \in Nat, NEW end \in 0 .. Latest
    PROVE  LET listed == List(start, end)
           IN  /\ listed \in Segment
               /\ listed.end = end
               /\ listed.crc # None => /\ listed.crc \in DOMAIN crcs
                                       /\ listed.crc <= end
               /\ listed.checkpoint = None => listed.first = start
               /\ listed.checkpoint # None \/ start <= end + 1 => SegmentOK(listed)
<1> DEFINE Found == {v \in checkpoints : start <= v /\ v <= end}
           checkpoint == NewestIn(Found)
           floor == IF checkpoint = None THEN start ELSE checkpoint
           Sums == {v \in DOMAIN crcs : floor <= v /\ v <= end}
           crc == NewestIn(Sums)
           listed == List(start, end)
<1>1. end \in Nat /\ Latest \in Int /\ end <= Latest
  BY Commits DEF TypeOK
<1>2. Found \in SUBSET (0 .. end) /\ Sums \in SUBSET (0 .. end)
  BY <1>1 DEF TypeOK
<1>3. listed = [first |-> Above(checkpoint, start), end |-> end, checkpoint |-> checkpoint,
                crc |-> crc]
  BY DEF List
<1>4. /\ checkpoint \in Version
      /\ checkpoint # None => /\ checkpoint \in Nat
                              /\ start <= checkpoint /\ checkpoint <= end
  <2>1. checkpoint # None => checkpoint \in Found
    BY <1>1, <1>2, NewestProps
  <2>2. \A v \in Found : v \in Nat /\ start <= v /\ v <= end
    BY <1>2
  <2>3. checkpoint \in Version
    BY <1>1, <1>2, NewestProps
  <2> HIDE DEF Found, checkpoint
  <2> QED
    BY <2>1, <2>2, <2>3
<1>5. /\ crc \in Version
      /\ crc # None => /\ crc \in DOMAIN crcs /\ crc \in Nat
                       /\ floor <= crc /\ crc <= end
  <2>1. crc # None => crc \in Sums
    BY <1>1, <1>2, NewestProps
  <2>2. \A v \in Sums : v \in DOMAIN crcs /\ v \in Nat /\ floor <= v /\ v <= end
    BY <1>2
  <2>3. crc \in Version
    BY <1>1, <1>2, NewestProps
  <2> HIDE DEF Sums, crc
  <2> QED
    BY <2>1, <2>2, <2>3
<1> HIDE DEF checkpoint, crc, listed
<1>6. Above(checkpoint, start) \in Nat
  BY <1>4 DEF Above
<1>7. listed \in Segment
  BY <1>1, <1>3, <1>4, <1>5, <1>6 DEF Segment
<1>8. checkpoint = None => Above(checkpoint, start) = start
  BY DEF Above
<1>9. ASSUME checkpoint # None \/ start <= end + 1
      PROVE  SegmentOK(listed)
  <2>1. CASE checkpoint = None
    BY <1>1, <1>3, <1>5, <1>7, <1>8, <1>9, <2>1 DEF SegmentOK
  <2>2. CASE checkpoint # None
    <3>1. Above(checkpoint, start) = checkpoint + 1
      BY <2>2 DEF Above
    <3> QED
      BY <1>1, <1>3, <1>4, <1>5, <1>7, <2>2, <3>1 DEF SegmentOK
  <2> QED
    BY <2>1, <2>2
<1> QED
  BY <1>3, <1>5, <1>7, <1>8, <1>9 DEF listed

(* A snapshot built from a listing that reaches back to a checkpoint, or to *)
(* the first commit, is in order.                                           *)
LEMMA FreshSnapshot ==
    ASSUME TypeOK, HasConfig, CrcsFaithful, NEW seg, SegmentOK(seg),
           seg.checkpoint # None \/ seg.first = 0, NEW readable \in BOOLEAN
    PROVE  SnapshotOK(try_new_from_log_segment(seg, readable))
<1> DEFINE read == read_protocol_metadata_opt(seg, LazyFile(seg.crc), readable)
           s == try_new_from_log_segment(seg, readable)
<1>1. s = [version |-> seg.end, checkpoint |-> seg.checkpoint, latest_crc_file |-> seg.crc,
           lazy |-> read.lazy, pm |-> read.pm, behind |-> FALSE]
  BY DEF try_new_from_log_segment, SnapshotOf
<1>2. /\ seg \in Segment /\ seg.end \in Nat /\ seg.first \in Nat /\ seg.checkpoint \in Version
      /\ seg.crc \in Version /\ seg.end <= Latest
      /\ seg.crc # None => seg.crc \in DOMAIN crcs
  BY DEF SegmentOK, Segment
<1>3. /\ read.pm \in [Slots -> Version]
      /\ read.lazy \in Lazy /\ LazyOK(read.lazy) /\ Faithful(read.lazy)
  BY <1>2, ReadType
<1>4. ASSUME NEW slot \in Slots
      PROVE  read.pm[slot] = LastWrite(slot, 0, seg.end)
  <2>1. read.pm[slot] \in {Holds(seg, slot), LastWrite(slot, 0, seg.end)}
    BY ReadFinds
  <2>2. Holds(seg, slot) = LastWrite(slot, 0, seg.end)
    <3>1. CASE seg.checkpoint = None
      <4>1. LastWrite(slot, 0, seg.end) \in Version
        BY <1>2, LastWriteType
      <4> QED
        BY <3>1, <4>1 DEF Holds, OrElse
    <3>2. CASE seg.checkpoint # None
      <4>1. /\ seg.checkpoint \in Nat /\ seg.first = seg.checkpoint + 1
            /\ seg.checkpoint <= seg.end
        BY <1>2, <3>2 DEF SegmentOK, Version
      <4>2. LastWrite(slot, 0, seg.end)
              = OrElse(LastWrite(slot, seg.checkpoint + 1, seg.end),
                       LastWrite(slot, 0, seg.checkpoint))
        BY <1>2, <4>1, LastWriteSplit
      <4> QED
        BY <3>2, <4>1, <4>2 DEF Holds
    <3> QED
      BY <3>1, <3>2
  <2> QED
    BY <2>1, <2>2
<1> HIDE DEF read, s
<1>5. s \in Snapshot
  BY <1>1, <1>2, <1>3 DEF Snapshot
<1>6. SnapshotOK(s)
  BY <1>1, <1>2, <1>3, <1>4, <1>5 DEF SnapshotOK
<1> QED
  BY <1>6 DEF s

(* An update in place keeps the snapshot in order: what the new commits do  *)
(* not hold is what it had, unless it read a checksum from before that.     *)
LEMMA UpdatedInPlace ==
    ASSUME TypeOK, HasConfig, CrcsFaithful, NEW s, SnapshotOK(s),
           NEW v \in s.version + 1 .. Latest, NEW readable \in BOOLEAN,
           NEW listed \in Segment, listed.end = v, listed.checkpoint = None,
           listed.crc # None => listed.crc \in DOMAIN crcs /\ listed.crc <= v
    PROVE  LET unseen == [listed EXCEPT !.first = s.version + 1]
               read == read_protocol_metadata_opt(unseen, LazyFile(listed.crc), readable)
               crc == OrElse(listed.crc, s.latest_crc_file)
           IN  SnapshotOK([version |-> v, checkpoint |-> s.checkpoint,
                           latest_crc_file |-> crc, lazy |-> LazyFile(crc),
                           pm |-> [slot \in Slots |-> OrElse(read.pm[slot], s.pm[slot])],
                           behind |-> \/ s.behind
                                      \/ listed.crc # None /\ listed.crc < s.version])
<1> DEFINE unseen == [listed EXCEPT !.first = s.version + 1]
           read == read_protocol_metadata_opt(unseen, LazyFile(listed.crc), readable)
           crc == OrElse(listed.crc, s.latest_crc_file)
           pm == [slot \in Slots |-> OrElse(read.pm[slot], s.pm[slot])]
           behind == \/ s.behind
                     \/ listed.crc # None /\ listed.crc < s.version
           new == [version |-> v, checkpoint |-> s.checkpoint, latest_crc_file |-> crc,
                   lazy |-> LazyFile(crc), pm |-> pm, behind |-> behind]
<1>1. /\ s.version \in Nat /\ s.checkpoint \in Version /\ s.latest_crc_file \in Version
      /\ s.pm \in [Slots -> Version] /\ s.behind \in BOOLEAN
      /\ s.latest_crc_file # None => s.latest_crc_file \in DOMAIN crcs
  BY DEF SnapshotOK, Snapshot
<1>2. v \in Nat /\ Latest \in Int /\ s.version < v /\ v <= Latest
  BY <1>1, Commits DEF TypeOK
<1>3. /\ unseen \in Segment /\ unseen.first = s.version + 1 /\ unseen.end = v
      /\ unseen.checkpoint = None /\ unseen.crc = listed.crc /\ listed.crc \in Version
  BY <1>1 DEF Segment
<1>4. /\ crc \in Version
      /\ crc # None => crc \in DOMAIN crcs
  BY <1>1, <1>3 DEF OrElse
<1>5. LazyFile(crc) \in Lazy /\ LazyOK(LazyFile(crc)) /\ Faithful(LazyFile(crc))
  BY <1>4, NewLoader
<1>6. read.pm \in [Slots -> Version]
  BY <1>3, ReadType
<1>7. pm \in [Slots -> Version]
  BY <1>1, <1>6 DEF OrElse
<1>8. ASSUME ~behind, NEW slot \in Slots
      PROVE  OrElse(read.pm[slot], s.pm[slot]) = LastWrite(slot, 0, v)
  <2>1. SegmentOK(unseen)
    <3>1. listed.crc # None => listed.crc \in Nat /\ s.version <= listed.crc
      BY <1>1, <1>3, <1>8 DEF Version
    <3> QED
      BY <1>1, <1>2, <1>3, <3>1 DEF SegmentOK
  <2>2. read.pm[slot] \in {Holds(unseen, slot), LastWrite(slot, 0, v)}
    BY <1>3, <2>1, ReadFinds
  <2>3. Holds(unseen, slot) = LastWrite(slot, s.version + 1, v)
    <3>1. LastWrite(slot, s.version + 1, v) \in Version
      BY <1>1, <1>2, LastWriteType
    <3> QED
      BY <1>3, <3>1 DEF Holds, OrElse
  <2>4. s.pm[slot] = LastWrite(slot, 0, s.version)
    BY <1>8 DEF SnapshotOK
  <2>5. LastWrite(slot, 0, v) = OrElse(LastWrite(slot, s.version + 1, v),
                                       LastWrite(slot, 0, s.version))
    BY <1>1, <1>2, LastWriteSplit
  <2>6. LastWrite(slot, 0, v) # None
    BY <1>2, Configured DEF TypeOK
  <2> QED
    BY <2>2, <2>3, <2>4, <2>5, <2>6 DEF OrElse
<1> HIDE DEF unseen, read, crc
<1>9. behind \in BOOLEAN
  OBVIOUS
<1>10. new \in Snapshot
  BY <1>1, <1>2, <1>4, <1>5, <1>7, <1>9 DEF Snapshot
<1>11. ASSUME ~behind, NEW slot \in Slots
       PROVE  new.pm[slot] = LastWrite(slot, 0, v)
  BY <1>8, <1>11
<1>12. SnapshotOK(new)
  <2>1. new.version = v /\ new.latest_crc_file = crc /\ new.lazy = LazyFile(crc) /\ new.behind = behind
    OBVIOUS
  <2> HIDE DEF new, behind
  <2> QED
    BY <1>2, <1>4, <1>5, <1>10, <1>11, <2>1 DEF SnapshotOK
<1> QED
  BY <1>12 DEF unseen, read, crc

----------------------------------------------------------------------------
(* What happens to the log leaves a snapshot in order.                      *)

(* New checksum files do not disturb it.                                    *)
LEMMA KeptByFiles ==
    ASSUME commits' = commits, DOMAIN crcs \subseteq DOMAIN crcs', NEW s, SnapshotOK(s)
    PROVE  SnapshotOK(s)'
  BY DEF SnapshotOK, LazyOK, Faithful, Describes, LastWrite, DomainAt, NumFiles, At, Latest

(* The checksum a loader holds is of a version of the log.                  *)
LEMMA LoadedVersion ==
    ASSUME TypeOK, NEW lazy \in Lazy, LazyOK(lazy), lazy.cached # None
    PROVE  crc_version(lazy) \in 0 .. Latest /\ lazy.cached \in Crc
<1>1. Latest \in Int /\ lazy.crc_file \in Version /\ lazy.precomputed \in Version
  BY Commits DEF TypeOK, Lazy
<1>2. lazy.precomputed # None => lazy.precomputed \in 0 .. Latest
  BY <1>1 DEF LazyOK, Version
<1>3. lazy.crc_file # None => lazy.crc_file \in 0 .. Latest
  BY DEF LazyOK, TypeOK
<1>4. crc_version(lazy) # None
  BY DEF LazyOK
<1> QED
  BY <1>2, <1>3, <1>4 DEF crc_version, OrElse, Lazy

(* Nor do new commits.                                                      *)
LEMMA KeptByCommit ==
    ASSUME TypeOK, NEW content \in Content, commits' = Append(commits, content),
           crcs' = crcs, NEW s, SnapshotOK(s)
    PROVE  SnapshotOK(s)'
<1>1. /\ s \in Snapshot /\ s.version \in Nat /\ s.version <= Latest /\ s.lazy \in Lazy
      /\ LazyOK(s.lazy) /\ Faithful(s.lazy) /\ commits \in Seq(Content) /\ Latest \in Int
      /\ s.latest_crc_file # None => s.latest_crc_file \in DOMAIN crcs
  BY Commits DEF SnapshotOK, Snapshot, TypeOK
<1>2. Latest' = Latest + 1
  BY <1>1, Extended
<1>3. s.version <= Latest'
  BY <1>1, <1>2
<1>4. LazyOK(s.lazy)'
  <2>1. s.lazy.precomputed # None => s.lazy.precomputed \in Nat
    BY <1>1 DEF Lazy, Version
  <2> QED
    BY <1>1, <1>2, <2>1 DEF LazyOK
<1>5. Faithful(s.lazy)'
  <2> SUFFICES ASSUME s.lazy.cached # None
               PROVE  Describes(s.lazy.cached, crc_version(s.lazy))'
    BY DEF Faithful
  <2>1. /\ crc_version(s.lazy) \in 0 .. Latest
        /\ s.lazy.cached \in Crc
        /\ Describes(s.lazy.cached, crc_version(s.lazy))
    BY <1>1, LoadedVersion DEF Faithful
  <2> QED
    BY <1>1, <2>1, DescribesStable DEF Describes
<1>6. ASSUME ~s.behind, NEW slot \in Slots
      PROVE  s.pm[slot] = LastWrite(slot, 0, s.version)'
  <2>1. s.pm[slot] = LastWrite(slot, 0, s.version)
    BY <1>6 DEF SnapshotOK
  <2>2. s.version \in 0 .. Latest
    BY <1>1
  <2> QED
    BY <1>1, <2>1, <2>2, Extended
<1> QED
  BY <1>1, <1>3, <1>4, <1>5, <1>6 DEF SnapshotOK

(* A new commit leaves the log and the checksum files in order.             *)
LEMMA LogKeptByCommit ==
    ASSUME TypeOK, HasConfig, CrcsFaithful, NEW content \in Content,
           commits = <<>> => content.alters = Slots,
           commits' = Append(commits, content), UNCHANGED <<checkpoints, crcs>>
    PROVE  TypeOK' /\ HasConfig' /\ CrcsFaithful'
<1>1. commits \in Seq(Content) /\ Latest \in Int /\ Latest' = Latest + 1 /\ Latest >= -1
  BY Commits, Extended DEF TypeOK
<1>2. TypeOK'
  BY <1>1 DEF TypeOK
<1>3. HasConfig'
  <2>1. CASE commits = <<>>
    <3>1. commits' = <<content>>
      BY <2>1
    <3> QED
      BY <2>1, <3>1 DEF HasConfig, At
  <2>2. CASE commits # <<>>
    <3>1. 0 \in 0 .. Latest
      BY <1>1, <2>2, Commits
    <3>2. At(0)' = At(0)
      BY <1>1, <3>1, Extended
    <3> QED
      BY <2>2, <3>2 DEF HasConfig
  <2> QED
    BY <2>1, <2>2
<1>4. CrcsFaithful'
  <2> SUFFICES ASSUME NEW v \in DOMAIN crcs
               PROVE  Describes(crcs[v], v)'
    BY DEF CrcsFaithful
  <2>1. v \in 0 .. Latest /\ crcs[v] \in Crc /\ Describes(crcs[v], v)
    BY DEF TypeOK, CrcsFaithful
  <2> QED
    BY <1>1, <2>1, DescribesStable DEF Describes
<1> QED
  BY <1>2, <1>3, <1>4

(* Crc::apply turns the checksum of the version a commit was made on into   *)
(* one of the version it made; statistics it cannot be sure of are not      *)
(* valid any more.                                                          *)
LEMMA Applied ==
    ASSUME commits \in Seq(Content), NEW content \in Content, content.alters = {},
           commits' = Append(commits, content), NEW n \in Nat, Latest = n,
           NEW crc \in Crc, Describes(crc, n)
    PROVE  LET new == ApplyDelta(crc, content, n + 1)
           IN  /\ new \in Crc
               /\ Describes(new, n + 1)'
<1> DEFINE safe == crc.validity = "Valid" /\ is_incremental_safe(content.op)
           domain == CASE crc.domain = NotTracked \/ content.dm = "none" -> crc.domain
                       [] content.dm = "removed" /\ crc.domain # NotTracked -> None
                       [] content.dm = "set" /\ crc.domain # NotTracked -> n + 1
           new == ApplyDelta(crc, content, n + 1)
<1>1. new = [crc EXCEPT !.domain = domain,
                        !.validity = IF safe THEN crc.validity ELSE "Indeterminate",
                        !.num_files = IF safe THEN crc.num_files + content.adds ELSE crc.num_files]
  BY DEF ApplyDelta, Crc
<1>2. content.dm \in {"none", "set", "removed"} /\ content.adds \in {0, 1}
  BY DEF Content
<1>3. domain = IF crc.domain = NotTracked \/ content.dm = "none" THEN crc.domain
               ELSE IF content.dm = "removed" THEN None ELSE n + 1
  BY <1>2
<1>4. /\ crc.domain \in Version \cup {NotTracked} /\ crc.num_files \in Nat
      /\ crc.validity \in {"Valid", "Indeterminate"}
  BY DEF Crc
<1> HIDE DEF domain
<1>5. domain \in Version \cup {NotTracked}
  BY <1>3, <1>4 DEF Version
<1>6. (IF safe THEN crc.num_files + content.adds ELSE crc.num_files) \in Nat
  BY <1>2, <1>4
<1>7. (IF safe THEN crc.validity ELSE "Indeterminate") \in {"Valid", "Indeterminate"}
  BY <1>4
<1>8. new \in Crc
  BY <1>1, <1>5, <1>6, <1>7 DEF Crc
<1>9. /\ \A slot \in Slots : LastWrite(slot, 0, n + 1)' = LastWrite(slot, 0, n)
      /\ DomainAt(n + 1)' = IF content.dm = "none" THEN DomainAt(n)
                            ELSE IF content.dm = "removed" THEN None ELSE n + 1
      /\ NumFiles(n + 1)' = IF is_incremental_safe(content.op) THEN NumFiles(n) + content.adds
                            ELSE NumFiles(n)
  BY NextVersion
<1>10. \A slot \in Slots : new[slot] = LastWrite(slot, 0, n + 1)'
  <2>1. \A slot \in Slots : new[slot] = crc[slot]
    BY <1>1 DEF Crc, Slots
  <2> QED
    BY <1>9, <2>1 DEF Describes
<1>11. new.domain \in {DomainAt(n + 1)', NotTracked}
  <2>1. new.domain = domain
    BY <1>1 DEF Crc
  <2>2. crc.domain \in {DomainAt(n), NotTracked}
    BY DEF Describes
  <2> QED
    BY <1>3, <1>9, <2>1, <2>2
<1>12. new.validity = "Valid" => new.num_files = NumFiles(n + 1)'
  <2>1. /\ new.validity = IF safe THEN crc.validity ELSE "Indeterminate"
        /\ new.num_files = IF safe THEN crc.num_files + content.adds ELSE crc.num_files
    BY <1>1 DEF Crc
  <2>2. crc.validity = "Valid" => crc.num_files = NumFiles(n)
    BY DEF Describes
  <2> QED
    BY <1>9, <2>1, <2>2
<1> HIDE DEF new
<1>13. Describes(new, n + 1)'
  BY <1>10, <1>11, <1>12 DEF Describes
<1> QED
  BY <1>8, <1>13 DEF new

(* A computed checksum is of the version it was computed for.               *)
LEMMA Precomputed ==
    ASSUME NEW crc \in Crc, NEW v \in Nat
    PROVE  /\ new_precomputed(crc, v) \in Lazy
           /\ crc_version(new_precomputed(crc, v)) = v
<1>1. v \in Version /\ None \in Version /\ crc \in Crc \cup {None} /\ v # None
  BY SnapshotCrcAssumption DEF Version
<1>2. new_precomputed(crc, v) \in Lazy
  BY <1>1 DEF new_precomputed, Lazy
<1> QED
  BY <1>1, <1>2 DEF new_precomputed, crc_version, OrElse

(* The post-commit snapshot has the checksum of the version it is of, if it *)
(* could be computed, or the loader the snapshot had.                       *)
LEMMA PostCommit ==
    ASSUME TypeOK, NEW content \in Content, content.alters = {},
           commits' = Append(commits, content), crcs' = crcs,
           NEW s, SnapshotOK(s), s.version = Latest, NEW new,
           LET base == get_if_loaded_at_version(s.lazy, s.version)
           IN  new = IF base = None THEN s.lazy
                     ELSE new_precomputed(ApplyDelta(base, content, s.version + 1), s.version + 1)
    PROVE  SnapshotOK([s EXCEPT !.version = s.version + 1, !.lazy = new])'
<1> DEFINE n == s.version
           base == get_if_loaded_at_version(s.lazy, n)
           after == [s EXCEPT !.version = n + 1, !.lazy = new]
<1>1. /\ n \in Nat /\ Latest = n /\ s.lazy \in Lazy /\ s \in Snapshot
      /\ commits \in Seq(Content) /\ LazyOK(s.lazy) /\ Faithful(s.lazy)
  BY DEF SnapshotOK, Snapshot, TypeOK
<1>2. Latest' = n + 1
  BY <1>1, Extended
<1>3. SnapshotOK(s)'
  BY KeptByCommit
<1>4. new \in Lazy /\ LazyOK(new)' /\ Faithful(new)'
  <2>1. CASE base = None
    BY <1>1, <1>3, <2>1 DEF SnapshotOK
  <2>2. CASE base # None
    <3> DEFINE crc == ApplyDelta(base, content, n + 1)
    <3>1. base = s.lazy.cached /\ crc_version(s.lazy) = n
      BY <2>2 DEF get_if_loaded_at_version
    <3>2. Describes(base, n) /\ base \in Crc
      BY <1>1, <2>2, <3>1, LoadedVersion DEF Faithful
    <3>3. crc \in Crc /\ Describes(crc, n + 1)'
      BY ONLY <1>1, <3>2, Applied, content \in Content, content.alters = {},
              commits' = Append(commits, content)
    <3> HIDE DEF crc
    <3>4. new = [crc_file |-> None, tried |-> TRUE, cached |-> crc, precomputed |-> n + 1]
      BY <2>2 DEF crc, new_precomputed
    <3>5. n + 1 \in Nat /\ n + 1 # None /\ n + 1 <= Latest' /\ None \in Version /\ n + 1 \in Version
      BY <1>1, <1>2, SnapshotCrcAssumption DEF Version
    <3>6. new \in Lazy /\ crc_version(new) = n + 1
      BY <2>2, <3>3, <3>5, Precomputed DEF crc
    <3>8. LazyOK(new)'
      BY <3>4, <3>5, <3>6 DEF LazyOK
    <3>9. Faithful(new)'
      BY <3>3, <3>4, <3>6 DEF Faithful
    <3> QED
      BY <3>6, <3>8, <3>9
  <2> QED
    BY <2>1, <2>2
<1>5. ASSUME ~s.behind, NEW slot \in Slots
      PROVE  s.pm[slot] = LastWrite(slot, 0, n + 1)'
  BY <1>1, <1>5, NextVersion DEF SnapshotOK
<1>6. /\ after.version = n + 1 /\ after.lazy = new /\ after.pm = s.pm
      /\ after.behind = s.behind /\ after.latest_crc_file = s.latest_crc_file
      /\ after \in Snapshot
  <2>1. n + 1 \in Nat
    BY <1>1
  <2> HIDE DEF n
  <2> QED
    BY <1>1, <1>4, <2>1 DEF Snapshot
<1>7. s.latest_crc_file # None => s.latest_crc_file \in DOMAIN crcs'
  BY <1>3 DEF SnapshotOK
<1>8. n + 1 <= Latest'
  BY <1>1, <1>2
<1> HIDE DEF after
<1>9. SnapshotOK(after)'
  BY <1>4, <1>5, <1>6, <1>7, <1>8 DEF SnapshotOK
<1> QED
  BY <1>9 DEF after

----------------------------------------------------------------------------
(* The invariant.                                                           *)

(* Transaction::commit and its post-commit snapshot keep the invariant.     *)
LEMMA CommitPreserves ==
    ASSUME IInv, Commit
    PROVE  IInv'
<1>1. PICK content \in Changes :
        /\ content.alters = {}
        /\ commits' = Append(commits, content)
        /\ snapshot' = [snapshot EXCEPT !.version = @ + 1,
                            !.lazy = compute_post_commit_crc(content, Latest + 1)]
  BY DEF Commit
<1>2. /\ snapshot # None /\ snapshot.version = Latest /\ UNCHANGED <<checkpoints, crcs>>
      /\ TypeOK /\ HasConfig /\ CrcsFaithful /\ SnapshotOK(snapshot) /\ content \in Content
  BY SnapshotCrcAssumption DEF Commit, IInv
<1>3. commits # <<>>
  BY <1>2, Commits DEF SnapshotOK, Snapshot, TypeOK
<1>4. TypeOK' /\ HasConfig' /\ CrcsFaithful'
  BY <1>1, <1>2, <1>3, LogKeptByCommit
<1>5. PICK s : s = snapshot
  OBVIOUS
<1>6. PICK new : new = compute_post_commit_crc(content, Latest + 1)
  OBVIOUS
<1>7. LET base == get_if_loaded_at_version(s.lazy, s.version)
      IN  new = IF base = None THEN s.lazy
                ELSE new_precomputed(ApplyDelta(base, content, s.version + 1), s.version + 1)
  BY <1>2, <1>5, <1>6 DEF compute_post_commit_crc
<1>8. SnapshotOK([s EXCEPT !.version = s.version + 1, !.lazy = new])'
  BY <1>1, <1>2, <1>5, <1>7, PostCommit
<1>9. snapshot' = [s EXCEPT !.version = s.version + 1, !.lazy = new]
  BY <1>1, <1>5, <1>6
<1>10. SnapshotOK(snapshot)'
  BY <1>8, <1>9 DEF SnapshotOK
<1> QED
  BY <1>4, <1>10 DEF IInv

(* A true checksum of a version can be added to the files.                  *)
LEMMA CrcAdded ==
    ASSUME IInv, NEW v \in 0 .. Latest, NEW crc \in Crc, Describes(crc, v),
           crcs' = [u \in DOMAIN crcs \cup {v} |-> IF u = v THEN crc ELSE crcs[u]],
           UNCHANGED <<commits, checkpoints, snapshot>>
    PROVE  IInv'
<1>1. Latest' = Latest /\ DOMAIN crcs' = DOMAIN crcs \cup {v}
  BY DEF Latest
<1>2. TypeOK'
  BY <1>1 DEF IInv, TypeOK
<1>3. HasConfig'
  BY DEF IInv, HasConfig, At
<1>4. CrcsFaithful'
  <2>1. ASSUME NEW u \in DOMAIN crcs'
        PROVE  Describes(crcs'[u], u)
    BY <1>1, <2>1 DEF IInv, CrcsFaithful
  <2>2. ASSUME NEW u, NEW c, Describes(c, u)
        PROVE  Describes(c, u)'
    BY <2>2 DEF Describes, LastWrite, DomainAt, NumFiles, At
  <2>3. PICK new : new = crcs'
    OBVIOUS
  <2>4. \A u \in DOMAIN new : Describes(new[u], u)'
    BY <2>1, <2>2, <2>3
  <2> QED
    BY <2>3, <2>4 DEF CrcsFaithful, Describes
<1>5. ASSUME snapshot # None
      PROVE  SnapshotOK(snapshot)'
  <2>1. PICK s : s = snapshot
    OBVIOUS
  <2>2. SnapshotOK(s)'
    BY <1>1, <1>5, <2>1, KeptByFiles DEF IInv
  <2> QED
    BY <2>1, <2>2 DEF SnapshotOK
<1> QED
  BY <1>2, <1>3, <1>4, <1>5 DEF IInv

(* A replay of the log finds protocol and metadata, a domain or none, and a *)
(* number of files.                                                         *)
LEMMA TrueCrcDescribes ==
    ASSUME IInv, NEW v \in 0 .. Latest, NEW domains \in BOOLEAN
    PROVE  LET crc == [TrueCrc(v) EXCEPT !.domain = IF domains THEN @ ELSE NotTracked]
           IN  crc \in Crc /\ Describes(crc, v)
<1> DEFINE crc == [protocol |-> LastWrite("protocol", 0, v),
                   metaData |-> LastWrite("metaData", 0, v),
                   domain |-> IF domains THEN DomainAt(v) ELSE NotTracked,
                   num_files |-> NumFiles(v), validity |-> "Valid"]
<1>1. [TrueCrc(v) EXCEPT !.domain = IF domains THEN @ ELSE NotTracked] = crc
  BY DEF TrueCrc
<1>2. v \in Nat
  BY Commits DEF IInv, TypeOK
<1>3. /\ LastWrite("protocol", 0, v) \in Version
      /\ LastWrite("metaData", 0, v) \in Version
  BY <1>2, LastWriteType
<1>4. DomainAt(v) \in Version
  <2> DEFINE W == {w \in 0 .. v : At(w).dm # "none"}
  <2>1. W \in SUBSET (0 .. v)
    OBVIOUS
  <2>2. DomainAt(v) \in {NewestIn(W), None}
    BY DEF DomainAt
  <2> HIDE DEF W
  <2>3. NewestIn(W) \in Version
    BY <1>2, <2>1, NewestProps
  <2> QED
    BY <2>2, <2>3 DEF Version
<1>5. NumFiles(v) \in Nat
  <2> DEFINE W == {w \in 0 .. v : is_incremental_safe(At(w).op) /\ At(w).adds = 1}
  <2>1. IsFiniteSet(0 .. v) /\ W \subseteq 0 .. v
    BY <1>2, FS_Interval
  <2>2. IsFiniteSet(W)
    BY <2>1, FS_Subset
  <2> QED
    BY <2>2, FS_CardinalityType DEF NumFiles
<1>6. crc \in Crc
  BY <1>3, <1>4, <1>5 DEF Crc
<1>7. Describes(crc, v)
  BY DEF Describes, Slots
<1> QED
  BY <1>1, <1>6, <1>7

(* A new table has the checksum of its first version.                       *)
LEMMA CreatePreserves ==
    ASSUME IInv, CreateTable
    PROVE  IInv'
<1>1. PICK content \in Changes :
        /\ content.op = "WRITE" /\ content.dm # "removed"
        /\ commits' = <<Created(content)>>
        /\ snapshot' = [version |-> 0, checkpoint |-> None, latest_crc_file |-> None,
                        lazy |-> new_precomputed(into_crc_for_version_zero(content), 0),
                        pm |-> [slot \in Slots |-> 0], behind |-> FALSE]
  BY DEF CreateTable
<1>2. /\ commits = <<>> /\ UNCHANGED <<checkpoints, crcs>>
      /\ TypeOK /\ content \in Content
  BY SnapshotCrcAssumption DEF CreateTable, IInv
<1> DEFINE first == Created(content)
           crc == into_crc_for_version_zero(content)
<1>3. /\ first \in Content /\ first.alters = Slots /\ first.op = "WRITE"
      /\ first.dm = content.dm /\ first.adds = content.adds
  BY <1>1, <1>2 DEF Created, Content
<1>4. commits' = Append(commits, first)
  BY <1>1, <1>2
<1>5. TypeOK' /\ HasConfig' /\ CrcsFaithful'
  BY <1>2, <1>3, <1>4, LogKeptByCommit DEF IInv
<1>6. /\ Latest' = 0
      /\ \A slot \in Slots : LastWrite(slot, 0, 0)' = 0
      /\ DomainAt(0)' = IF content.dm = "set" THEN 0 ELSE None
      /\ NumFiles(0)' = content.adds
  BY <1>1, <1>3, FirstVersion
<1>7. crc = [protocol |-> 0, metaData |-> 0,
             domain |-> IF content.dm = "set" THEN 0 ELSE None,
             num_files |-> content.adds, validity |-> "Valid"]
  BY DEF into_crc_for_version_zero
<1>8. crc \in Crc
  <2>1. content.adds \in {0, 1}
    BY <1>2 DEF Content
  <2>2. content.adds \in Nat /\ 0 \in Version /\ None \in Version
    BY <2>1 DEF Version
  <2> QED
    BY <1>7, <2>2 DEF Crc
<1>9. Describes(crc, 0)'
  BY <1>6, <1>7 DEF Describes, Slots
<1> HIDE DEF crc
<1> DEFINE lazy == new_precomputed(crc, 0)
<1>10. lazy \in Lazy /\ crc_version(lazy) = 0
  BY <1>8, Precomputed
<1>11. lazy.crc_file = None /\ lazy.tried /\ lazy.cached = crc /\ lazy.precomputed = 0
  BY DEF new_precomputed
<1>12. LazyOK(lazy)' /\ Faithful(lazy)'
  BY <1>6, <1>9, <1>10, <1>11, SnapshotCrcAssumption DEF LazyOK, Faithful
<1> HIDE DEF lazy
<1>13. PICK s : s = [version |-> 0, checkpoint |-> None, latest_crc_file |-> None,
                     lazy |-> lazy, pm |-> [slot \in Slots |-> 0], behind |-> FALSE]
  OBVIOUS
<1>14. s \in Snapshot
  <2>1. None \in Version /\ 0 \in Version
    BY DEF Version
  <2> QED
    BY <1>10, <1>13, <2>1 DEF Snapshot
<1>15. SnapshotOK(s)'
  BY <1>6, <1>12, <1>13, <1>14 DEF SnapshotOK
<1>16. snapshot' = s
  BY <1>1, <1>13 DEF lazy, crc
<1> QED
  BY <1>5, <1>15, <1>16 DEF IInv, SnapshotOK

(* The log and its checksums stay in order when only checkpoints are added. *)
LEMMA LogKept ==
    ASSUME IInv, UNCHANGED <<commits, crcs>>, checkpoints' \subseteq 0 .. Latest
    PROVE  TypeOK' /\ HasConfig' /\ CrcsFaithful'
<1>1. TypeOK'
  BY DEF IInv, TypeOK, Latest
<1>2. HasConfig'
  BY DEF IInv, HasConfig, At
<1>3. CrcsFaithful'
  <2> SUFFICES ASSUME NEW v \in DOMAIN crcs
               PROVE  Describes(crcs[v], v)'
    BY DEF CrcsFaithful
  <2>1. Describes(crcs[v], v)
    BY DEF IInv, CrcsFaithful
  <2> QED
    BY <2>1 DEF Describes, LastWrite, DomainAt, NumFiles, At
<1> QED
  BY <1>1, <1>2, <1>3

(* A snapshot taken of the log as it is.                                    *)
LEMMA SnapshotTaken ==
    ASSUME IInv, NEW s, SnapshotOK(s), snapshot' = s,
           UNCHANGED <<commits, checkpoints, crcs>>
    PROVE  IInv'
<1>1. SnapshotOK(s)'
  BY KeptByFiles
<1>2. SnapshotOK(snapshot)'
  BY <1>1 DEF SnapshotOK
<1>3. checkpoints' \subseteq 0 .. Latest
  BY DEF IInv, TypeOK
<1>4. TypeOK' /\ HasConfig' /\ CrcsFaithful'
  BY <1>3, LogKept
<1> QED
  BY <1>2, <1>4 DEF IInv

(* A checkpoint, and anything else that changes neither commits, checksums  *)
(* nor the snapshot.                                                        *)
LEMMA OnlyCheckpoints ==
    ASSUME IInv, UNCHANGED <<commits, crcs, snapshot>>, checkpoints' \subseteq 0 .. Latest
    PROVE  IInv'
<1>1. ASSUME snapshot # None
      PROVE  SnapshotOK(snapshot)'
  <2>1. PICK s : s = snapshot
    OBVIOUS
  <2>2. SnapshotOK(s)'
    BY <1>1, <2>1, KeptByFiles DEF IInv
  <2> QED
    BY <2>1, <2>2 DEF SnapshotOK
<1>2. TypeOK' /\ HasConfig' /\ CrcsFaithful'
  BY LogKept
<1> QED
  BY <1>1, <1>2 DEF IInv

(* The invariant holds of a new table.                                      *)
LEMMA InitIInv == Init => IInv
<1> SUFFICES ASSUME Init PROVE IInv
  OBVIOUS
<1>1. Latest = -1 /\ commits \in Seq(Content)
  BY DEF Init, Latest
<1>2. DOMAIN crcs = {} /\ checkpoints = {}
  BY DEF Init
<1>3. crcs \in [DOMAIN crcs -> Crc]
  BY <1>2 DEF Init
<1> QED
  BY <1>1, <1>2, <1>3 DEF Init, IInv, TypeOK, HasConfig, CrcsFaithful

(* Every step of the client and of the other writers keeps the invariant.   *)
LEMMA NextPreserves == IInv /\ [Next]_vars => IInv'
<1> SUFFICES ASSUME IInv, [Next]_vars PROVE IInv'
  OBVIOUS
<1>1. CASE CreateTable
  BY <1>1, CreatePreserves
<1>2. CASE Commit
  BY <1>2, CommitPreserves
<1>3. CASE LoadSnapshot
  <2>1. PICK v \in 0 .. Latest, readable \in BOOLEAN :
          snapshot' = try_new_from_log_segment(List(0, v), readable)
    BY <1>3 DEF LoadSnapshot
  <2>2. v \in Nat /\ 0 \in Nat /\ 0 <= v + 1
    BY Commits DEF IInv, TypeOK
  <2>3. /\ SegmentOK(List(0, v))
        /\ List(0, v).checkpoint # None \/ List(0, v).first = 0
    BY <2>2, ListFits DEF IInv
  <2>4. SnapshotOK(try_new_from_log_segment(List(0, v), readable))
    BY <2>3, FreshSnapshot DEF IInv
  <2>5. PICK s : s = try_new_from_log_segment(List(0, v), readable)
    OBVIOUS
  <2> QED
    BY <1>3, <2>1, <2>4, <2>5, SnapshotTaken DEF LoadSnapshot
<1>4. CASE UpdateSnapshot
  <2> DEFINE start == Above(snapshot.checkpoint, 1)
             listed(v) == List(start, v)
             unseen(v) == [listed(v) EXCEPT !.first = snapshot.version + 1]
             read(v, readable) ==
                read_protocol_metadata_opt(unseen(v), LazyFile(listed(v).crc), readable)
             crc(v) == OrElse(listed(v).crc, snapshot.latest_crc_file)
             fresh(v, readable) == try_new_from_log_segment(listed(v), readable)
             inplace(v, readable) ==
                [version |-> v, checkpoint |-> snapshot.checkpoint,
                 latest_crc_file |-> crc(v), lazy |-> LazyFile(crc(v)),
                 pm |-> [slot \in Slots |-> OrElse(read(v, readable).pm[slot], snapshot.pm[slot])],
                 behind |-> \/ snapshot.behind
                            \/ listed(v).crc # None /\ listed(v).crc < snapshot.version]
  <2>1. PICK v \in snapshot.version + 1 .. Latest, readable \in BOOLEAN :
          snapshot' = IF listed(v).checkpoint # None THEN fresh(v, readable)
                      ELSE inplace(v, readable)
    BY <1>4 DEF UpdateSnapshot
  <2>2. /\ snapshot # None /\ UNCHANGED <<commits, checkpoints, crcs>>
        /\ TypeOK /\ HasConfig /\ CrcsFaithful /\ SnapshotOK(snapshot)
    BY <1>4 DEF UpdateSnapshot, IInv
  <2>3. /\ snapshot.version \in Nat /\ snapshot.checkpoint \in Version /\ Latest \in Int
    BY <2>2, Commits DEF SnapshotOK, Snapshot, TypeOK
  <2>4. start \in Nat /\ v \in 0 .. Latest
    BY <2>3 DEF Above, Version
  <2>5. /\ listed(v) \in Segment /\ listed(v).end = v
        /\ listed(v).crc # None => listed(v).crc \in DOMAIN crcs /\ listed(v).crc <= v
        /\ listed(v).checkpoint # None => SegmentOK(listed(v))
    BY <2>2, <2>4, ListFits
  <2>6. CASE listed(v).checkpoint # None
    <3>1. SnapshotOK(fresh(v, readable))
      BY <2>2, <2>5, <2>6, FreshSnapshot
    <3>2. PICK s : s = fresh(v, readable)
      OBVIOUS
    <3> QED
      BY <2>1, <2>2, <2>6, <3>1, <3>2, SnapshotTaken
  <2>7. CASE listed(v).checkpoint = None
    <3>1. SnapshotOK(inplace(v, readable))
      BY <2>2, <2>5, <2>7, UpdatedInPlace
    <3>2. PICK s : s = inplace(v, readable)
      OBVIOUS
    <3> HIDE DEF inplace
    <3> QED
      BY <2>1, <2>2, <2>7, <3>1, <3>2, SnapshotTaken
  <2> QED
    BY <2>6, <2>7
<1>5. CASE ReadThroughCrc
  <2>1. PICK readable \in BOOLEAN :
          snapshot' = [snapshot EXCEPT !.lazy = get_or_load(@, readable)]
    BY <1>5 DEF ReadThroughCrc
  <2>2. /\ SnapshotOK(snapshot) /\ snapshot \in Snapshot /\ snapshot.lazy \in Lazy
        /\ LazyOK(snapshot.lazy) /\ Faithful(snapshot.lazy) /\ TypeOK /\ CrcsFaithful
    BY <1>5 DEF ReadThroughCrc, IInv, SnapshotOK, Snapshot
  <2>3. PICK lazy : lazy = get_or_load(snapshot.lazy, readable)
    OBVIOUS
  <2>4. lazy \in Lazy /\ LazyOK(lazy) /\ Faithful(lazy)
    BY <2>2, <2>3, Loading
  <2>5. PICK s : s = [snapshot EXCEPT !.lazy = lazy]
    OBVIOUS
  <2>6. /\ s \in Snapshot /\ s.lazy = lazy /\ s.version = snapshot.version
        /\ s.pm = snapshot.pm /\ s.behind = snapshot.behind
        /\ s.latest_crc_file = snapshot.latest_crc_file
    BY <2>2, <2>4, <2>5 DEF Snapshot
  <2>7. SnapshotOK(s)
    BY <2>2, <2>4, <2>6 DEF SnapshotOK
  <2> QED
    BY <1>5, <2>1, <2>3, <2>5, <2>7, SnapshotTaken DEF ReadThroughCrc
<1>6. CASE write_checksum
  <2> DEFINE v == snapshot.version
             crc == get_if_loaded_at_version(snapshot.lazy, v)
  <2>1. /\ snapshot # None /\ crc # None
        /\ crcs' = [u \in DOMAIN crcs \cup {v} |-> IF u = v THEN crc ELSE crcs[u]]
        /\ UNCHANGED <<commits, checkpoints, snapshot>>
    BY <1>6 DEF write_checksum
  <2>2. /\ SnapshotOK(snapshot) /\ snapshot.lazy \in Lazy /\ LazyOK(snapshot.lazy)
        /\ Faithful(snapshot.lazy) /\ TypeOK
    BY <2>1 DEF IInv, SnapshotOK, Snapshot
  <2>3. crc = snapshot.lazy.cached /\ crc_version(snapshot.lazy) = v
    BY <2>1 DEF get_if_loaded_at_version
  <2>4. crc \in Crc /\ v \in 0 .. Latest /\ Describes(crc, v)
    BY <2>1, <2>2, <2>3, LoadedVersion DEF Faithful
  <2>5. PICK w, c : w = v /\ c = crc
    OBVIOUS
  <2> QED
    BY <2>1, <2>4, <2>5, CrcAdded
<1>7. CASE ForeignCommit
  <2>1. PICK change \in Changes :
          commits' = Append(commits, IF commits = <<>> THEN Created(change) ELSE change)
    BY <1>7 DEF ForeignCommit
  <2>2. PICK content : content = IF commits = <<>> THEN Created(change) ELSE change
    OBVIOUS
  <2>3. content \in Content /\ (commits = <<>> => content.alters = Slots)
    BY <2>1, <2>2, SnapshotCrcAssumption DEF Created, Content
  <2>4. UNCHANGED <<checkpoints, crcs, snapshot>> /\ commits' = Append(commits, content)
    BY <1>7, <2>1, <2>2 DEF ForeignCommit
  <2>5. TypeOK' /\ HasConfig' /\ CrcsFaithful'
    BY <2>3, <2>4, LogKeptByCommit DEF IInv
  <2>6. ASSUME snapshot # None
        PROVE  SnapshotOK(snapshot)'
    <3>1. PICK s : s = snapshot
      OBVIOUS
    <3>2. SnapshotOK(s)'
      BY <2>3, <2>4, <2>6, <3>1, KeptByCommit DEF IInv
    <3> QED
      BY <2>4, <3>1, <3>2 DEF SnapshotOK
  <2> QED
    BY <2>4, <2>5, <2>6 DEF IInv
<1>8. CASE ForeignChecksum
  <2>1. PICK v \in (0 .. Latest) \ DOMAIN crcs, domains \in Tracking :
          LET crc == [TrueCrc(v) EXCEPT !.domain = IF domains THEN @ ELSE NotTracked]
          IN  crcs' = [u \in DOMAIN crcs \cup {v} |-> IF u = v THEN crc ELSE crcs[u]]
    BY <1>8 DEF ForeignChecksum
  <2>2. PICK crc : crc = [TrueCrc(v) EXCEPT !.domain = IF domains THEN @ ELSE NotTracked]
    OBVIOUS
  <2>3. domains \in BOOLEAN
    BY SnapshotCrcAssumption
  <2>4. crc \in Crc /\ Describes(crc, v)
    BY <2>2, <2>3, TrueCrcDescribes
  <2> QED
    BY <1>8, <2>1, <2>2, <2>4, CrcAdded DEF ForeignChecksum
<1>9. CASE ForeignCheckpoint
  <2>1. checkpoints' \subseteq 0 .. Latest
    BY <1>9 DEF ForeignCheckpoint, IInv, TypeOK
  <2> QED
    BY <1>9, <2>1, OnlyCheckpoints DEF ForeignCheckpoint
<1>10. CASE UNCHANGED vars
  <2>1. checkpoints' \subseteq 0 .. Latest
    BY <1>10 DEF vars, IInv, TypeOK
  <2> QED
    BY <1>10, <2>1, OnlyCheckpoints DEF vars
<1> QED
  BY <1>1, <1>2, <1>3, <1>4, <1>5, <1>6, <1>7, <1>8, <1>9, <1>10 DEF Next

----------------------------------------------------------------------------
(* The inductive invariant: the log begins with protocol and metadata, the  *)
(* checksum files are true, and the snapshot is of a version of the log     *)
(* with a checksum in memory that is true of the version it is for.         *)
THEOREM SnapshotCrcInvariant == Spec => []IInv
  BY InitIInv, NextPreserves, PTL DEF Spec

(* For any number of versions, any commits, and any interleaving of the     *)
(* client with other writers: every checksum file, and the checksum a       *)
(* snapshot holds in memory, says of its version what a replay of the whole *)
(* log would (Crc::apply, write_checksum, LazyCrc::get_or_load).            *)
THEOREM ChecksumsAreTrue == Spec => []CrcFaithful
<1>1. IInv => CrcFaithful
  BY DEF IInv, CrcsFaithful, SnapshotOK, Faithful, CrcFaithful
<1> QED
  BY <1>1, SnapshotCrcInvariant, PTL

(* What a snapshot answers from its checksum is what its own version says   *)
(* (get_or_load_if_at_version), for every length of the log.                *)
THEOREM ChecksumsAnswerForTheirVersion == Spec => []AnswersAreOfTheVersion
<1>1. IInv => AnswersAreOfTheVersion
  BY DEF IInv, SnapshotOK, Faithful, Describes, AnswersAreOfTheVersion,
         get_if_loaded_at_version
<1> QED
  BY <1>1, SnapshotCrcInvariant, PTL

(* A snapshot has the protocol and metadata of its version, wherever they   *)
(* were read from (read_protocol_metadata_opt), unless an update in place   *)
(* took a checksum older than the snapshot (Snapshot::try_new_from).        *)
THEOREM SnapshotsHaveTheirConfig == Spec => []ConfigFaithfulUnlessBehind
<1>1. IInv => ConfigFaithfulUnlessBehind
  BY DEF IInv, SnapshotOK, ConfigFaithfulUnlessBehind
<1> QED
  BY <1>1, SnapshotCrcInvariant, PTL

=============================================================================
