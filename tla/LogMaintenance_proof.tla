------------------------ MODULE LogMaintenance_proof ------------------------
(***************************************************************************)
(* Checkpoints, hints and compacted commit files never change what readers *)
(* of the log find.                                                        *)
(***************************************************************************)
EXTENDS LogMaintenance, LogReading_proof

----------------------------------------------------------------------------
(* The invariant is inductive.                                              *)

(* Commits, checkpoints, hints and compactions keep the invariant.          *)
LEMMA LogInductive ==
    ASSUME WellOrdered
    PROVE  (Init => IInv) /\ (IInv /\ [Next]_vars => IInv')
<1>InitOK.
    Init => IInv
  <2> SUFFICES ASSUME Init PROVE IInv
    OBVIOUS
  <2>1. PICK p, m : p = Protocol(0) /\ m = Metadata(0)
    OBVIOUS
  <2>2. p \in Row /\ m \in Row /\ p.version = 0 /\ m.version = 0 /\ p.slot # m.slot
    <3>1. /\ "protocol" \notin Files /\ "protocol" \notin Apps /\ "protocol" \notin Domains
          /\ "metaData" \notin Files /\ "metaData" \notin Apps /\ "metaData" \notin Domains
      BY ActionReplayAssumption
    <3>2. p \in Row /\ p.version = 0 /\ p.slot = "protocol"
      BY <2>1, <3>1 DEF Protocol, ActionRow, Row, AnyRow, Slots, Fits, IsFileAction
    <3>3. m \in Row /\ m.version = 0 /\ m.slot = "metaData"
      BY <2>1, <3>1 DEF Metadata, ActionRow, Row, AnyRow, Slots, Fits, IsFileAction
    <3> QED
      BY <3>2, <3>3
  <2>3. PICK rows : rows = <<p, m>>
    BY Zenon
  <2>4. rows \in Seq(Row) /\ Len(rows) = 2 /\ rows[1] = p /\ rows[2] = m
    BY <2>2, <2>3
  <2>5. PICK cs : cs = <<rows>>
    BY Zenon
  <2>6. cs \in Seq(Seq(Row)) /\ Len(cs) = 1 /\ cs[1] = rows
    BY <2>4, <2>5
  <2>7. commits = cs
    BY <2>1, <2>3, <2>5 DEF Init
  <2>8. LogOK(commits)
    <3>1. \A x \in 1 .. Len(rows) : x = 1 \/ x = 2
      BY <2>4
    <3>2. \A x \in 1 .. Len(rows) : rows[x].version = 0
      BY <2>2, <2>4, <3>1
    <3>3. \A x, y \in 1 .. Len(rows) : rows[x].slot = rows[y].slot => x = y
      BY <2>2, <2>4, <3>1
    <3>4. \A i \in 1 .. Len(cs) : i = 1 /\ i - 1 = 0 /\ cs[i] = rows
      BY <2>6
    <3>5. Len(cs) \in 1 .. MaxVersion + 1
      BY <2>6, LogMaintenanceAssumption
    <3>6. \A i \in 1 .. Len(cs) : \A x \in 1 .. Len(cs[i]) : cs[i][x].version = i - 1
      BY <3>2, <3>4
    <3>7. \A i \in 1 .. Len(cs) : \A x, y \in 1 .. Len(cs[i]) : cs[i][x].slot = cs[i][y].slot => x = y
      BY <3>3, <3>4
    <3>8. LogOK(cs)
      BY <2>6, <3>5, <3>6, <3>7 DEF LogOK
    <3> QED
      BY <2>7, <3>8
  <2>9. DOMAIN checkpoints = {} /\ DOMAIN compacted = {}
    BY DEF Init
  <2>10. CheckpointsOK(checkpoints, commits, clock) /\ CompactedOK(compacted, commits, clock)
    BY <2>9 DEF CheckpointsOK, CompactedOK
  <2>11. clock \in 1 .. MaxClock /\ HintOK(hint, checkpoints)
    BY LogMaintenanceAssumption DEF Init, HintOK
  <2>12. /\ maint \in [Maintainers -> [step : {"idle", "loaded", "written"}, segment : AnySegment \cup {None}]]
         /\ \A i \in Maintainers : maint[i].step = "idle"
    BY DEF Init
  <2>13. MaintOK(maint, checkpoints, compacted, commits)
    BY <2>12 DEF MaintOK
  <2> QED
    BY <2>8, <2>10, <2>11, <2>12, <2>13 DEF IInv
(* What is suppressed stays suppressed.                                     *)
<1>SuppressedLater.
    ASSUME NEW row \in Row, NEW t \in Nat, NEW u \in Nat, t <= u, Suppressed(row, t)
    PROVE  Suppressed(row, u)
  <2> USE <1>SuppressedLater
  <2>1. row.stamp \in Nat \cup {NoTimestamp} /\ FileRetention \in Nat
        /\ TxnRetention \in Nat \cup {NoTimestamp}
    BY ActionReplayAssumption DEF Row, AnyRow
  <2>2. is_expired_tombstone(row, t) => is_expired_tombstone(row, u)
    BY <2>1 DEF is_expired_tombstone
  <2>3. IsExpiredTxn(row, t) => IsExpiredTxn(row, u)
    BY <2>1 DEF IsExpiredTxn
  <2> QED
    BY <2>2, <2>3 DEF Suppressed
(* What holds of the files of a log holds of it when files are added, and   *)
(* when time goes on.                                                       *)
<1>HoldsLater.
    ASSUME NEW cs, NEW now \in Nat, NEW later \in Nat, now <= later, LogOK(cs),
           NEW K, CheckpointsOK(K, cs, now), NEW C, CompactedOK(C, cs, now)
    PROVE  CheckpointsOK(K, cs, later) /\ CompactedOK(C, cs, later)
  <2> USE <1>HoldsLater
  <2>1. ASSUME NEW X, X \subseteq Row
        PROVE  Must(X, later) \subseteq Must(X, now) /\ LogMust(X, later) \subseteq LogMust(X, now)
    <3>1. \A row \in X : Suppressed(row, now) => Suppressed(row, later)
      BY <2>1, <1>SuppressedLater
    <3> QED
      BY <3>1 DEF Must, LogMust
  <2>2. CheckpointsOK(K, cs, later)
    <3> SUFFICES ASSUME NEW v \in DOMAIN K
                 PROVE  /\ v \in Nat /\ v < Len(cs) /\ K[v].format \in {"v1"} \cup ForeignFormats
                        /\ Holds(K[v].rows, Part(cs, 0, v), Must(Part(cs, 0, v), later))
      BY DEF CheckpointsOK
    <3>1. PICK X : X = Part(cs, 0, v)
      OBVIOUS
    <3>2. /\ v \in Nat /\ v < Len(cs) /\ K[v].format \in {"v1"} \cup ForeignFormats
          /\ Holds(K[v].rows, X, Must(X, now))
      BY <3>1 DEF CheckpointsOK
    <3>3. X \subseteq Row
      <4>1. 0 \in Nat /\ v \in Int
        BY <3>2
      <4> QED
        BY <3>1, <3>2, <4>1, PartSet DEF RowSet
    <3>4. Holds(K[v].rows, X, Must(X, later))
      BY <2>1, <3>2, <3>3, HoldsLess
    <3> QED
      BY <3>1, <3>2, <3>4
  <2>3. CompactedOK(C, cs, later)
    <3> SUFFICES ASSUME NEW c \in DOMAIN C
                 PROVE  /\ c \in Compactions /\ c[2] < Len(cs)
                        /\ Holds(C[c], Part(cs, c[1], c[2]), LogMust(Part(cs, c[1], c[2]), later))
      BY DEF CompactedOK
    <3>1. PICK X : X = Part(cs, c[1], c[2])
      OBVIOUS
    <3>2. c \in Compactions /\ c[2] < Len(cs) /\ Holds(C[c], X, LogMust(X, now))
      BY <3>1 DEF CompactedOK
    <3>3. c[1] \in Nat /\ c[2] \in Int
      BY <3>2, LogMaintenanceAssumption
    <3>4. X \subseteq Row
      BY Zenon, <3>1, <3>2, <3>3, PartSet DEF RowSet
    <3>5. Holds(C[c], X, LogMust(X, later))
      BY <2>1, <3>2, <3>4, HoldsLess
    <3> QED
      BY <3>1, <3>2, <3>5
  <2> QED
    BY <2>2, <2>3
<1>TickStep.
    IInv /\ Tick => IInv'
  <2> SUFFICES ASSUME IInv, Tick PROVE IInv'
    OBVIOUS
  <2>1. PICK now, later : now = clock /\ later = clock'
    OBVIOUS
  <2>2. now \in Nat /\ later \in Nat /\ now <= later /\ later \in 1 .. MaxClock
    BY <2>1, LogMaintenanceAssumption DEF IInv, Tick
  <2>3. CheckpointsOK(checkpoints, commits, later) /\ CompactedOK(compacted, commits, later)
    <3>1. PICK K, C, cs : K = checkpoints /\ C = compacted /\ cs = commits
      OBVIOUS
    <3>2. LogOK(cs) /\ CheckpointsOK(K, cs, now) /\ CompactedOK(C, cs, now)
      BY <2>1, <3>1 DEF IInv
    <3>3. CheckpointsOK(K, cs, later) /\ CompactedOK(C, cs, later)
      BY <2>2, <3>2, <1>HoldsLater
    <3> QED
      BY <3>1, <3>3
  <2>4. UNCHANGED <<commits, checkpoints, compacted, hint, maint>>
    BY DEF Tick
  <2>5. CheckpointsOK(checkpoints, commits, clock)' /\ CompactedOK(compacted, commits, clock)'
    BY <2>1, <2>3, <2>4
  <2>6. clock' \in 1 .. MaxClock
    BY <2>1, <2>2
  <2> QED
    BY <2>4, <2>5, <2>6 DEF IInv
(* A maintainer is done, or stops.                                          *)
<1>Idle.
    ASSUME IInv, NEW m \in Maintainers, maint' = [maint EXCEPT ![m] = [step |-> "idle", segment |-> None]]
    PROVE  /\ maint' \in [Maintainers -> [step : {"idle", "loaded", "written"}, segment : AnySegment \cup {None}]]
           /\ \E M2 : M2 = maint' /\ MaintOK(M2, checkpoints, compacted, commits)
  <2> USE <1>Idle
  <2>1. /\ maint' \in [Maintainers -> [step : {"idle", "loaded", "written"}, segment : AnySegment \cup {None}]]
        /\ \A n \in Maintainers : n # m => maint'[n] = maint[n]
        /\ maint'[m].step = "idle"
    BY DEF IInv
  <2>2. PICK M2 : M2 = maint'
    BY Zenon
  <2>3. MaintOK(M2, checkpoints, compacted, commits)
    BY <2>1, <2>2 DEF IInv, MaintOK
  <2> QED
    BY Zenon, <2>1, <2>2, <2>3
<1>StopStep.
    ASSUME NEW m \in Maintainers PROVE IInv /\ Stop(m) => IInv'
  <2> SUFFICES ASSUME IInv, Stop(m) PROVE IInv'
    OBVIOUS
  <2>1. maint' = [maint EXCEPT ![m] = [step |-> "idle", segment |-> None]]
    BY DEF Stop
  <2>2. UNCHANGED <<clock, commits, checkpoints, compacted, hint>>
    BY DEF Stop
  <2>3. /\ maint' \in [Maintainers -> [step : {"idle", "loaded", "written"}, segment : AnySegment \cup {None}]]
        /\ \E M2 : M2 = maint' /\ MaintOK(M2, checkpoints, compacted, commits)
    BY Zenon, <2>1, <1>Idle
  <2>4. MaintOK(maint, checkpoints, compacted, commits)'
    BY <2>2, <2>3
  <2> QED
    BY <2>2, <2>3, <2>4 DEF IInv
<1>FinalizeStep.
    ASSUME NEW m \in Maintainers PROVE IInv /\ Finalize(m) => IInv'
  <2> SUFFICES ASSUME IInv, Finalize(m) PROVE IInv'
    OBVIOUS
  <2>1. maint' = [maint EXCEPT ![m] = [step |-> "idle", segment |-> None]]
    BY DEF Finalize
  <2>2. UNCHANGED <<clock, commits, checkpoints, compacted>>
    BY DEF Finalize
  <2>3. /\ maint' \in [Maintainers -> [step : {"idle", "loaded", "written"}, segment : AnySegment \cup {None}]]
        /\ \E M2 : M2 = maint' /\ MaintOK(M2, checkpoints, compacted, commits)
    BY Zenon, <2>1, <1>Idle
  <2>4. MaintOK(maint, checkpoints, compacted, commits)'
    BY <2>2, <2>3
  <2>5. HintOK(hint, checkpoints)'
    <3>1. maint[m].segment.version \in DOMAIN checkpoints
      BY DEF Finalize, IInv, MaintOK
    <3>2. hint'.version = maint[m].segment.version /\ hint'.schema = None
      BY DEF Finalize
    <3> QED
      BY Zenon, <2>2, <3>1, <3>2 DEF HintOK, Schemas
  <2> QED
    BY <2>2, <2>3, <2>4, <2>5 DEF IInv
<1>LoadStep.
    ASSUME NEW m \in Maintainers PROVE IInv /\ LoadSnapshot(m) => IInv'
  <2> SUFFICES ASSUME IInv, LoadSnapshot(m) PROVE IInv'
    OBVIOUS
  <2>1. PICK v \in 0 .. Latest : maint' = [maint EXCEPT ![m] = [step |-> "loaded", segment |-> SegmentFor(v)]]
    BY Zenon DEF LoadSnapshot
  <2>2. PICK seg : seg = SegmentFor(v)
    OBVIOUS
  <2>3. seg \in AnySegment /\ SegmentOK(seg, checkpoints, compacted, commits)
    BY <2>2, SegmentListed
  <2>4. /\ maint' \in [Maintainers -> [step : {"idle", "loaded", "written"}, segment : AnySegment \cup {None}]]
        /\ \A n \in Maintainers : n # m => maint'[n] = maint[n]
        /\ maint'[m].step = "loaded" /\ maint'[m].segment = seg
    BY <2>1, <2>2, <2>3 DEF IInv
  <2>5. PICK M, M2 : M = maint /\ M2 = maint'
    OBVIOUS
  <2>6. MaintOK(M2, checkpoints, compacted, commits)
    <3>1. MaintOK(M, checkpoints, compacted, commits)
      BY <2>5 DEF IInv
    <3> QED
      BY <2>3, <2>4, <2>5, <3>1 DEF MaintOK
  <2>7. UNCHANGED <<clock, commits, checkpoints, compacted, hint>>
    BY DEF LoadSnapshot
  <2>8. MaintOK(maint, checkpoints, compacted, commits)'
    BY Zenon, <2>5, <2>6, <2>7
  <2> QED
    BY <2>4, <2>7, <2>8 DEF IInv
<1>CompactedPut.
    ASSUME NEW C, NEW cs, NEW now, CompactedOK(C, cs, now), NEW c \in Compactions, NEW rows,
           c[2] < Len(cs), Holds(rows, Part(cs, c[1], c[2]), LogMust(Part(cs, c[1], c[2]), now)),
           NEW C2, C2 = SetAt(C, c, rows)
    PROVE  CompactedOK(C2, cs, now)
  <2> USE <1>CompactedPut
  <2>1. /\ DOMAIN C2 = DOMAIN C \cup {c} /\ C2[c] = rows
        /\ \A z \in DOMAIN C : z # c => C2[z] = C[z]
    BY Zenon DEF SetAt
  <2>2. ASSUME NEW d \in DOMAIN C2
        PROVE  /\ d \in Compactions /\ d[2] < Len(cs)
               /\ Holds(C2[d], Part(cs, d[1], d[2]), LogMust(Part(cs, d[1], d[2]), now))
    <3>1. CASE d = c
      BY <2>1, <3>1
    <3>2. CASE d # c
      <4>1. d \in DOMAIN C /\ C2[d] = C[d]
        BY <2>1, <3>2
      <4> QED
        BY <4>1 DEF CompactedOK
    <3> QED
      BY <3>1, <3>2
  <2> QED
    BY <2>2 DEF CompactedOK
<1>CompactionReads.
    ASSUME NEW cs, LogOK(cs), NEW lo \in Nat, NEW hi \in Nat, lo <= hi, hi < Len(cs), NEW must,
           must \subseteq Part(cs, lo, hi)
    PROVE  /\ ReadsFrom(cs, lo, lo, hi, OneByOne(lo, hi), CommitFiles(cs, lo, hi), <<>>, must)
           /\ Len(OneByOne(lo, hi)) = hi - lo + 1
  <2> USE <1>CompactionReads
  <2> DEFINE n == hi - lo + 1
             cover == OneByOne(lo, hi)
             files == CommitFiles(cs, lo, hi)
  <2>1. n \in Nat /\ n >= 1 /\ Len(cs) \in Nat
    BY DEF LogOK
  <2>2. \A i \in 1 .. n : hi - i + 1 \in Nat /\ hi - i + 1 < Len(cs) /\ hi - i + 2 = (hi - i + 1) + 1
    BY <2>1
  <2>3. cover \in Seq(Nat \X Nat) /\ Len(cover) = n
    <3>1. \A i \in 1 .. n : <<hi - i + 1, hi - i + 1>> \in Nat \X Nat
      BY <2>2
    <3> QED
      BY <2>1, <3>1 DEF OneByOne
  <2>4. \A i \in 1 .. n : cover[i][1] = hi - i + 1 /\ cover[i][2] = hi - i + 1
    BY DEF OneByOne
  <2> HIDE DEF n, cover
  <2>5. Chain(cover, lo, hi)
    <3>1. \A i \in 1 .. Len(cover) : cover[i][1] <= cover[i][2]
      BY <2>2, <2>3, <2>4
    <3>2. ASSUME NEW i \in 1 .. Len(cover) - 1 PROVE cover[i][1] = cover[i + 1][2] + 1
      <4>1. i \in 1 .. n /\ i + 1 \in 1 .. n
        BY <2>1, <2>3
      <4>2. hi - i + 1 = (hi - (i + 1) + 1) + 1
        BY <4>1
      <4> QED
        BY <2>4, <4>1, <4>2
    <3>3. Len(cover) # 0 /\ cover[1][2] = hi /\ cover[Len(cover)][1] = lo
      <4>1. 1 \in 1 .. n /\ n \in 1 .. n /\ hi - 1 + 1 = hi /\ hi - n + 1 = lo
        BY <2>1 DEF n
      <4> QED
        BY <2>1, <2>3, <2>4, <4>1
    <3> QED
      BY <2>3, <3>1, <3>2, <3>3 DEF Chain
  <2>6. ASSUME NEW k \in 1 .. Len(cover), NEW X, X = Part(cs, cover[k][1], cover[k][2])
        PROVE  Holds(files[k], X, {row \in X : row \in must \/ Steady(row)})
    <3>1. k \in 1 .. n
      BY <2>3
    <3>2. PICK v : v = hi - k + 1
      OBVIOUS
    <3>3. v \in Nat /\ v < Len(cs) /\ X = Part(cs, v, v) /\ files[k] = cs[v + 1]
      <4>1. v \in Nat /\ v < Len(cs) /\ hi - k + 2 = v + 1
        BY <2>2, <3>1, <3>2
      <4>2. X = Part(cs, v, v)
        BY <2>4, <2>6, <3>1, <3>2
      <4>3. files[k] = cs[hi - k + 2]
        BY <3>1 DEF n, CommitFiles
      <4> QED
        BY <4>1, <4>2, <4>3
    <3>4. {row \in X : row \in must \/ Steady(row)} \subseteq Part(cs, v, v)
      BY <3>3
    <3> QED
      BY Zenon, <3>3, <3>4, CommitHolds
  <2>7. Holds(<<>>, Part(cs, lo, lo - 1), {row \in Part(cs, lo, lo - 1) : row \in must})
    <3>1. lo .. lo - 1 = {}
      OBVIOUS
    <3>2. Part(cs, lo, lo - 1) = {}
      BY <3>1 DEF Part
    <3>3. {row \in Part(cs, lo, lo - 1) : row \in must} = {}
      BY <3>2
    <3> QED
      BY Zenon, <3>2, <3>3, NothingHeld
  <2>8. lo \in Nat /\ lo <= lo /\ hi \in Int /\ lo <= hi + 1
    OBVIOUS
  <2> HIDE DEF files
  <2>9. ReadsFrom(cs, lo, lo, hi, cover, files, <<>>, must)
    BY Zenon, <2>3, <2>5, <2>6, <2>7, <2>8 DEF ReadsFrom
  <2> QED
    BY <2>3, <2>9 DEF n, cover, files
<1>CompactionStream.
    ASSUME NEW cs, LogOK(cs), NEW lo \in Nat, NEW hi \in Nat, lo <= hi, hi < Len(cs), NEW must,
           must \subseteq Part(cs, lo, hi), NEW s,
           s = FlattenSeq([i \in 1 .. (hi - lo + 1) |-> FromLog(cs[hi - i + 2])])
    PROVE  Replays(s, Part(cs, lo, hi), must)
  <2> USE <1>CompactionStream
  <2>1. PICK n : n = hi - lo + 1
    OBVIOUS
  <2>2. PICK cover : cover = OneByOne(lo, hi)
    OBVIOUS
  <2>3. PICK files : files = CommitFiles(cs, lo, hi)
    OBVIOUS
  <2>4. PICK cp : cp = <<>>
    OBVIOUS
  <2>5. ReadsFrom(cs, lo, lo, hi, cover, files, cp, must) /\ Len(cover) = n
    <3>1. ReadsFrom(cs, lo, lo, hi, cover, files, <<>>, must) /\ Len(cover) = n
      BY <2>1, <2>2, <2>3, <1>CompactionReads
    <3> QED
      BY <2>4, <3>1
  <2>6. Replays(StreamOf(cover, files, cp), Part(cs, lo, hi), must)
    BY <2>5, ReadReplays
  <2>7. StreamOf(cover, files, cp) = s
    <3>1. PICK log : log = [i \in 1 .. n |-> FromLog(files[i])]
      BY Zenon
    <3>2. log = [i \in 1 .. n |-> FromLog(cs[hi - i + 2])]
      BY <2>1, <2>3, <3>1 DEF CommitFiles
    <3>3. s = FlattenSeq(log)
      BY <2>1, <3>2
    <3>4. PICK none : none = FromCheckpoint(cp)
      OBVIOUS
    <3>5. none = <<>>
      BY <2>4, <3>4 DEF FromCheckpoint
    <3>6. StreamOf(cover, files, cp) = s \o none
      BY Zenon, <2>5, <3>1, <3>3, <3>4 DEF StreamOf
    <3>7. s \in Seq(Batch(Row))
      <4>1. cs \in Seq(Seq(Row)) /\ n \in Nat /\ Len(cs) \in Nat
        BY <2>1 DEF LogOK
      <4>2. \A i \in 1 .. n : FromLog(files[i]) \in Seq(Batch(Row))
        <5>1. \A i \in 1 .. n : hi - i + 2 \in 1 .. Len(cs)
          BY <2>1, <4>1
        <5>2. \A i \in 1 .. n : files[i] = cs[hi - i + 2]
          BY <2>1, <2>3 DEF CommitFiles
        <5>3. \A i \in 1 .. Len(cs) : cs[i] \in Seq(Row)
          BY <4>1
        <5>4. \A i \in 1 .. n : files[i] \in Seq(Row)
          BY <5>1, <5>2, <5>3
        <5> QED
          BY <5>4, BatchesOf
      <4>3. log \in Seq(Seq(Batch(Row)))
        BY <3>1, <4>1, <4>2
      <4> QED
        BY <3>3, <4>3, FlattenBlocks
    <3> QED
      BY <3>5, <3>6, <3>7
  <2> QED
    BY <2>6, <2>7
<1>SegmentStays.
    ASSUME NEW K, NEW C, NEW cs, LogOK(cs), NEW K2, NEW C2, NEW cs2, LogOK(cs2),
           DOMAIN K \subseteq DOMAIN K2, DOMAIN C \subseteq DOMAIN C2, Len(cs) <= Len(cs2),
           NEW seg, SegmentOK(seg, K, C, cs)
    PROVE  SegmentOK(seg, K2, C2, cs2)
  <2> USE <1>SegmentStays
  <2>1. Len(cs) \in Nat /\ Len(cs2) \in Nat
    BY DEF LogOK
  <2>2. seg.version \in Nat /\ seg.version < Len(cs2)
    BY <2>1 DEF SegmentOK
  <2> QED
    BY <2>2 DEF SegmentOK
<1>MaintStays.
    ASSUME NEW K, NEW C, NEW cs, LogOK(cs), NEW K2, NEW C2, NEW cs2, LogOK(cs2),
           DOMAIN K \subseteq DOMAIN K2, DOMAIN C \subseteq DOMAIN C2, Len(cs) <= Len(cs2),
           NEW M, MaintOK(M, K, C, cs)
    PROVE  MaintOK(M, K2, C2, cs2)
  <2> USE <1>MaintStays
  <2>1. ASSUME NEW m \in Maintainers
        PROVE  /\ M[m].step # "idle" => SegmentOK(M[m].segment, K2, C2, cs2)
               /\ M[m].step = "written" => M[m].segment.version \in DOMAIN K2
    <3>1. M[m].step # "idle" => SegmentOK(M[m].segment, K, C, cs)
      BY DEF MaintOK
    <3>2. M[m].step # "idle" => SegmentOK(M[m].segment, K2, C2, cs2)
      <4>1. PICK s : s = M[m].segment
        OBVIOUS
      <4>2. SegmentOK(s, K, C, cs) => SegmentOK(s, K2, C2, cs2)
        BY Zenon, <1>SegmentStays
      <4> QED
        BY <3>1, <4>1, <4>2
    <3> QED
      BY <3>2 DEF MaintOK
  <2> QED
    BY <2>1 DEF MaintOK
<1>CompactStep.
    ASSUME NEW m \in Maintainers PROVE IInv /\ CompactLog(m) => IInv'
  <2> SUFFICES ASSUME IInv, CompactLog(m) PROVE IInv'
    OBVIOUS
  <2>1. PICK c \in Compactions :
          /\ c[2] <= maint[m].segment.version
          /\ compacted' = SetAt(compacted, c, Reconcile(
               FlattenSeq([i \in 1 .. (c[2] - c[1] + 1) |-> FromLog(commits[c[2] - i + 2])]), clock))
    BY Zenon DEF CompactLog
  <2>2. PICK cs, now, lo, hi : cs = commits /\ now = clock /\ lo = c[1] /\ hi = c[2]
    OBVIOUS
  <2>3. /\ LogOK(cs) /\ lo \in Nat /\ hi \in Nat /\ lo <= hi /\ hi < Len(cs) /\ Len(cs) \in Nat
        /\ now \in 1 .. MaxClock
    <3>1. LogOK(cs) /\ Len(cs) \in Nat /\ now \in 1 .. MaxClock
      <4>1. LogOK(cs) /\ now \in 1 .. MaxClock
        BY Zenon, <2>2 DEF IInv
      <4>2. Len(cs) \in Nat
        BY <4>1 DEF LogOK
      <4> QED
        BY Zenon, <4>1, <4>2
    <3>2. lo \in Nat /\ hi \in Nat /\ lo < hi
      BY <2>2, LogMaintenanceAssumption
    <3>3. maint[m].segment.version \in Nat /\ maint[m].segment.version < Len(cs)
      BY Zenon, <2>2 DEF CompactLog, IInv, MaintOK, SegmentOK
    <3> QED
      BY <2>1, <2>2, <3>1, <3>2, <3>3
  <2>4. PICK s : s = FlattenSeq([i \in 1 .. (hi - lo + 1) |-> FromLog(cs[hi - i + 2])])
    BY Zenon
  <2>5. PICK X, must : X = Part(cs, lo, hi) /\ must = {row \in X : ~Suppressed(row, now)}
    BY Zenon
  <2>6. Replays(s, X, must)
    <3>1. must \subseteq Part(cs, lo, hi)
      BY <2>5
    <3> QED
      BY <2>3, <2>4, <2>5, <3>1, <1>CompactionStream
  <2>7. Holds(Reconcile(s, now), X, must)
    BY <2>5, <2>6, Reconciled
  <2>8. LogMust(X, now) \subseteq must
    <3>1. SUFFICES ASSUME NEW row \in X, Steady(row) PROVE ~Suppressed(row, now)
      BY <2>5 DEF LogMust
    <3>2. row \in Row
      <4>1. hi \in Int
        BY <2>3
      <4> QED
        BY <2>3, <2>5, <4>1, PartRow
    <3>3. row.type \in {"add", "remove"} /\ (row.stamp = NoTimestamp \/ row.stamp \in Nat)
      BY <3>1, <3>2 DEF Steady, IsFileAction, Row, AnyRow
    <3>4. MaxClock < FileRetention /\ MaxClock \in Nat /\ FileRetention \in Nat
      BY <3>1, LogMaintenanceAssumption, ActionReplayAssumption DEF Steady, TombstonesOutlive
    <3> QED
      BY <2>3, <3>3, <3>4 DEF Suppressed, is_expired_tombstone
  <2>9. Holds(Reconcile(s, now), X, LogMust(X, now))
    BY <2>7, <2>8, HoldsLess
  <2>10. PICK C, C2, rows : C = compacted /\ C2 = compacted' /\ rows = Reconcile(s, now)
    BY Zenon
  <2>11. C2 = SetAt(C, c, rows)
    BY <2>1, <2>2, <2>4, <2>10
  <2>12. CompactedOK(C2, cs, now)
    <3>1. CompactedOK(C, cs, now)
      BY Zenon, <2>2, <2>10 DEF IInv
    <3>2. c[2] < Len(cs) /\ Holds(rows, Part(cs, c[1], c[2]), LogMust(Part(cs, c[1], c[2]), now))
      BY <2>2, <2>3, <2>5, <2>9, <2>10
    <3> QED
      BY Zenon, <2>11, <3>1, <3>2, <1>CompactedPut
  <2>13. DOMAIN C \subseteq DOMAIN C2
    BY <2>11 DEF SetAt
  <2>14. UNCHANGED <<clock, commits, checkpoints, hint>>
         /\ maint' = [maint EXCEPT ![m] = [step |-> "idle", segment |-> None]]
    BY DEF CompactLog
  <2>15. PICK M2 : M2 = maint'
    OBVIOUS
  <2>16. /\ maint' \in [Maintainers -> [step : {"idle", "loaded", "written"}, segment : AnySegment \cup {None}]]
         /\ MaintOK(M2, checkpoints, C, cs)
    BY Zenon, <2>2, <2>10, <2>14, <2>15, <1>Idle
  <2>17. MaintOK(M2, checkpoints, C2, cs)
    <3>1. Len(cs) <= Len(cs)
      BY <2>3
    <3> QED
      BY Zenon, <2>3, <2>13, <2>16, <3>1, <1>MaintStays
  <2>18. CompactedOK(compacted, commits, clock)' /\ MaintOK(maint, checkpoints, compacted, commits)'
    BY Zenon, <2>2, <2>10, <2>12, <2>14, <2>15, <2>17
  <2> QED
    BY <2>14, <2>16, <2>18 DEF IInv
(* What was committed stays.                                                *)
<1>PartStays.
    ASSUME NEW cs, NEW rows, NEW lo \in Nat, NEW hi \in Int, LogOK(cs), hi < Len(cs)
    PROVE  Part(Append(cs, rows), lo, hi) = Part(cs, lo, hi)
  <2> USE <1>PartStays
  <2>1. \A i \in lo .. hi : Append(cs, rows)[i + 1] = cs[i + 1]
    BY DEF LogOK
  <2> QED
    BY <2>1 DEF Part
<1>HoldsLonger.
    ASSUME NEW cs, LogOK(cs), NEW rows, NEW cs2, cs2 = Append(cs, rows), NEW now,
           NEW K, CheckpointsOK(K, cs, now), NEW C, CompactedOK(C, cs, now)
    PROVE  CheckpointsOK(K, cs2, now) /\ CompactedOK(C, cs2, now)
  <2> USE <1>HoldsLonger
  <2>1. Len(cs2) = Len(cs) + 1 /\ Len(cs) \in Nat
    BY DEF LogOK
  <2>2. ASSUME NEW v \in DOMAIN K PROVE Part(cs2, 0, v) = Part(cs, 0, v) /\ v \in Nat /\ v < Len(cs)
    <3>1. v \in Nat /\ v < Len(cs)
      BY Zenon DEF CheckpointsOK
    <3>2. 0 \in Nat /\ v \in Int
      BY ONLY <3>1
    <3> QED
      BY Zenon, <3>1, <3>2, <1>PartStays
  <2>3. CheckpointsOK(K, cs2, now)
    <3>1. ASSUME NEW v \in DOMAIN K
          PROVE  /\ v \in Nat /\ v < Len(cs2) /\ K[v].format \in {"v1"} \cup ForeignFormats
                 /\ Holds(K[v].rows, Part(cs2, 0, v), Must(Part(cs2, 0, v), now))
      BY <2>1, <2>2 DEF CheckpointsOK
    <3> QED
      BY Zenon, <3>1 DEF CheckpointsOK
  <2>4. ASSUME NEW c \in DOMAIN C PROVE Part(cs2, c[1], c[2]) = Part(cs, c[1], c[2]) /\ c[2] < Len(cs) + 1
    <3>1. c \in Compactions /\ c[2] < Len(cs)
      BY DEF CompactedOK
    <3>2. c[1] \in Nat /\ c[2] \in Nat
      BY Zenon, <3>1, LogMaintenanceAssumption
    <3> QED
      BY <2>1, <3>1, <3>2, <1>PartStays
  <2>5. CompactedOK(C, cs2, now)
    <3>1. ASSUME NEW c \in DOMAIN C
          PROVE  /\ c \in Compactions /\ c[2] < Len(cs2)
                 /\ Holds(C[c], Part(cs2, c[1], c[2]), LogMust(Part(cs2, c[1], c[2]), now))
      BY <2>1, <2>4 DEF CompactedOK
    <3> QED
      BY Zenon, <3>1 DEF CompactedOK
  <2> QED
    BY <2>3, <2>5
(* A transaction writes rows of its version.                                *)
<1>WrittenRows.
    ASSUME IInv, NEW row \in WritableRows
    PROVE  row \in Row /\ row.version = Len(commits)
  <2> USE <1>WrittenRows
  <2>1. Len(commits) \in Nat /\ Latest + 1 = Len(commits) /\ Latest \in Nat /\ Latest < Len(commits)
    BY DEF IInv, LogOK, Latest
  <2>2. clock \in Nat
    BY LogMaintenanceAssumption DEF IInv
  <2>3. ASSUME NEW type, NEW r \in TableState(Latest, type) PROVE r \in Row /\ r.type = type
    <3>1. r \in Part(commits, 0, Latest) /\ r.type = type
      BY DEF TableState, History, Part
    <3>2. LogOK(commits) /\ 0 \in Nat /\ Latest \in Int
      BY <2>1 DEF IInv
    <3>3. RowSet(Part(commits, 0, Latest))
      BY <2>1, <3>2, PartSet
    <3> QED
      BY <3>1, <3>3 DEF RowSet
  <2>4. PICK v : v = Len(commits)
    BY Zenon
  <2>5. v \in Nat /\ Latest + 1 = v
    BY <2>1, <2>4
  <2> SUFFICES row \in Row /\ row.version = v
    BY <2>4
  <2>6. \A type : \A ts \in Stamps(type) : ts \in {clock, NoTimestamp}
    BY DEF Stamps
  <2>7. /\ Files \cap Apps = {} /\ Files \cap Domains = {} /\ Apps \cap Domains = {}
        /\ "protocol" \notin Files /\ "protocol" \notin Apps /\ "protocol" \notin Domains
        /\ "metaData" \notin Files /\ "metaData" \notin Apps /\ "metaData" \notin Domains
    BY ActionReplayAssumption
  <2>8. CASE row \in AddRows(v)
    <3>1. PICK f \in Files, stats \in BOOLEAN : row = AddFile(f, v, stats)
      BY <2>8 DEF AddRows
    <3> QED
      BY <2>5, <2>7, <3>1 DEF AddFile, ActionRow, Row, AnyRow, Slots, Fits, IsFileAction
  <2>9. CASE row \in RemoveRows(v)
    <3>1. PICK r \in TableState(Latest, "add"), ts \in Stamps("remove") : row = RemoveFile(r.slot, v, ts)
      BY <2>9 DEF RemoveRows
    <3>2. r.slot \in Files /\ ts \in Nat \cup {NoTimestamp}
      BY <2>2, <2>3, <2>6, RowType DEF Fits, IsFileAction
    <3> QED
      BY <2>5, <2>7, <3>1, <3>2 DEF RemoveFile, ActionRow, Row, AnyRow, Slots, Fits, IsFileAction
  <2>10. CASE row \in TxnRows(v)
    <3>1. PICK a \in Apps, ts \in Stamps("txn") : row = Txn(a, v, ts)
      BY <2>10 DEF TxnRows
    <3>2. ts \in Nat \cup {NoTimestamp}
      BY <2>2, <2>6
    <3> QED
      BY <2>5, <2>7, <3>1, <3>2 DEF Txn, ActionRow, Row, AnyRow, Slots, Fits, IsFileAction
  <2>11. CASE row \in DomainRows(v)
    <3>1. PICK d \in Domains, removed \in BOOLEAN : row = DomainMetadata(d, v, removed)
      BY <2>11 DEF DomainRows
    <3> QED
      BY <2>5, <2>7, <3>1 DEF DomainMetadata, ActionRow, Row, AnyRow, Slots, Fits, IsFileAction
  <2>12. CASE row = Protocol(v)
    BY <2>5, <2>7, <2>12 DEF Protocol, ActionRow, Row, AnyRow, Slots, Fits, IsFileAction
  <2>13. CASE row = Metadata(v)
    BY <2>5, <2>7, <2>13 DEF Metadata, ActionRow, Row, AnyRow, Slots, Fits, IsFileAction
  <2>14. \/ row \in AddRows(v) \/ row \in RemoveRows(v) \/ row \in TxnRows(v) \/ row \in DomainRows(v)
         \/ row = Protocol(v) \/ row = Metadata(v)
    BY <2>5 DEF WritableRows
  <2> QED
    BY Zenon, <2>8, <2>9, <2>10, <2>11, <2>12, <2>13, <2>14
(* The files of the log do not change but for the commit that is added.     *)
<1>CommitStep.
    IInv /\ Commit => IInv'
  <2> SUFFICES ASSUME IInv, Commit PROVE IInv'
    OBVIOUS
  <2>1. PICK n \in 1 .. MaxRows : \E rows \in [1 .. n -> {r \in WritableRows : r.type \in Kinds}] :
           /\ \A i, j \in 1 .. n : rows[i].slot = rows[j].slot => i = j
           /\ commits' = Append(commits, rows)
    BY DEF Commit
  <2>2. PICK rows \in [1 .. n -> {r \in WritableRows : r.type \in Kinds}] :
           /\ \A i, j \in 1 .. n : rows[i].slot = rows[j].slot => i = j
           /\ commits' = Append(commits, rows)
    BY <2>1
  <2>3. n \in Nat
    BY <2>1
  <2>4. PICK cs, cs2 : cs = commits /\ cs2 = commits'
    BY Zenon
  <2>5. cs2 = Append(cs, rows) /\ LogOK(cs) /\ Len(cs) \in Nat /\ cs \in Seq(Seq(Row))
    BY <2>2, <2>4 DEF IInv, LogOK
  <2>6. \A x \in 1 .. n : rows[x] \in Row /\ rows[x].version = Len(cs)
    <3>1. \A x \in 1 .. n : rows[x] \in WritableRows
      BY <2>2
    <3> QED
      BY <2>4, <3>1, <1>WrittenRows
  <2>7. rows \in Seq(Row) /\ Len(rows) = n
    <3>1. rows = [x \in 1 .. n |-> rows[x]]
      BY <2>2
    <3> QED
      BY <2>3, <2>6, <3>1
  <2>8. Len(cs) < MaxVersion + 1 /\ MaxVersion \in Nat
    BY <2>4, <2>5, LogMaintenanceAssumption DEF Commit, Latest
  <2>9. LogOK(cs2)
    <3>1. cs2 \in Seq(Seq(Row)) /\ Len(cs2) = Len(cs) + 1
      BY <2>5, <2>7
    <3>2. \A i \in 1 .. Len(cs) : cs2[i] = cs[i]
      BY <2>5, <2>7
    <3>3. cs2[Len(cs) + 1] = rows
      BY <2>5, <2>7
    <3>4. \A i \in 1 .. Len(cs2) : i \in 1 .. Len(cs) \/ (i = Len(cs) + 1 /\ i - 1 = Len(cs))
      BY <2>5, <3>1
    <3>5. \A i \in 1 .. Len(cs2) : \A x \in 1 .. Len(cs2[i]) : cs2[i][x].version = i - 1
      BY <2>5, <2>6, <2>7, <3>2, <3>3, <3>4 DEF LogOK
    <3>6. ASSUME NEW i \in 1 .. Len(cs2), NEW x \in 1 .. Len(cs2[i]), NEW y \in 1 .. Len(cs2[i]),
                 cs2[i][x].slot = cs2[i][y].slot
          PROVE  x = y
      <4>1. CASE i \in 1 .. Len(cs)
        BY <2>5, <3>2, <3>6, <4>1 DEF LogOK
      <4>2. CASE i = Len(cs) + 1
        BY <2>2, <2>7, <3>3, <3>6, <4>2
      <4> QED
        BY <3>4, <4>1, <4>2
    <3>7. Len(cs2) \in 1 .. MaxVersion + 1
      BY <2>5, <2>8, <3>1
    <3> QED
      BY <3>1, <3>5, <3>6, <3>7 DEF LogOK
  <2>10. UNCHANGED <<clock, checkpoints, compacted, hint, maint>>
    BY DEF Commit
  <2>11. PICK K, C, M, now : K = checkpoints /\ C = compacted /\ M = maint /\ now = clock
    OBVIOUS
  <2>12. CheckpointsOK(K, cs, now) /\ CompactedOK(C, cs, now) /\ MaintOK(M, K, C, cs)
    BY <2>4, <2>11 DEF IInv
  <2>13. CheckpointsOK(K, cs2, now) /\ CompactedOK(C, cs2, now)
    BY Zenon, <2>5, <2>12, <1>HoldsLonger
  <2>14. Len(cs) <= Len(cs2)
    BY <2>5, <2>7
  <2>15. MaintOK(M, K, C, cs2)
    BY Zenon, <2>5, <2>9, <2>12, <2>14, <1>MaintStays
  <2>16. /\ LogOK(commits)' /\ CheckpointsOK(checkpoints, commits, clock)'
         /\ CompactedOK(compacted, commits, clock)' /\ MaintOK(maint, checkpoints, compacted, commits)'
    BY Zenon, <2>4, <2>9, <2>10, <2>11, <2>13, <2>15
  <2> QED
    BY <2>10, <2>16 DEF IInv
(* A file is put at a place, over the one that was there.                   *)
<1>CheckpointPut.
    ASSUME NEW K, NEW cs, NEW now, CheckpointsOK(K, cs, now), NEW v, NEW file,
           v \in Nat, v < Len(cs), file.format \in {"v1"} \cup ForeignFormats,
           Holds(file.rows, Part(cs, 0, v), Must(Part(cs, 0, v), now)),
           NEW K2, K2 = SetAt(K, v, file)
    PROVE  CheckpointsOK(K2, cs, now)
  <2> USE <1>CheckpointPut
  <2>1. /\ DOMAIN K2 = DOMAIN K \cup {v} /\ K2[v] = file
        /\ \A z \in DOMAIN K : z # v => K2[z] = K[z]
    BY Zenon DEF SetAt
  <2>2. ASSUME NEW u \in DOMAIN K2
        PROVE  /\ u \in Nat /\ u < Len(cs) /\ K2[u].format \in {"v1"} \cup ForeignFormats
               /\ Holds(K2[u].rows, Part(cs, 0, u), Must(Part(cs, 0, u), now))
    <3>1. CASE u = v
      BY <2>1, <3>1
    <3>2. CASE u # v
      <4>1. u \in DOMAIN K /\ K2[u] = K[u]
        BY <2>1, <3>2
      <4> QED
        BY <4>1 DEF CheckpointsOK
    <3> QED
      BY Zenon, <3>1, <3>2
  <2> QED
    BY <2>2 DEF CheckpointsOK
<1>WriteStep.
    ASSUME NEW m \in Maintainers PROVE IInv /\ WriteCheckpoint(m) => IInv'
  <2> SUFFICES ASSUME IInv, WriteCheckpoint(m) PROVE IInv'
    OBVIOUS
  <2>1. PICK seg, v, X : seg = maint[m].segment /\ v = seg.version /\ X = Part(commits, 0, v)
    OBVIOUS
  <2>2. SegmentOK(seg, checkpoints, compacted, commits)
    BY <2>1 DEF WriteCheckpoint, IInv, MaintOK
  <2>3. PICK rows : rows = Reconcile(ReadActions(seg), clock)
    OBVIOUS
  <2>4. Holds(rows, X, Must(X, clock))
    <3>1. PICK s, now, must : s = ReadActions(seg) /\ now = clock /\ must = Must(X, clock)
      OBVIOUS
    <3>2. Replays(s, X, must)
      BY <2>1, <2>2, <3>1, SegmentRead
    <3>3. \A row \in must : ~Suppressed(row, now)
      BY <3>1 DEF Must
    <3>4. Holds(Reconcile(s, now), X, must)
      BY <3>2, <3>3, Reconciled
    <3> QED
      BY <2>3, <3>1, <3>4
  <2>5. PICK file : file = [rows |-> rows, format |-> "v1"]
    BY Zenon
  <2>6. file.format = "v1" /\ file.rows = rows
    BY <2>5
  <2>7. PICK K, K2, C, cs, now : K = checkpoints /\ K2 = checkpoints' /\ C = compacted /\ cs = commits /\ now = clock
    OBVIOUS
  <2>8. K2 = SetAt(K, v, file)
    BY <2>1, <2>3, <2>5, <2>7 DEF WriteCheckpoint
  <2>9. v \in Nat /\ v < Len(cs) /\ CheckpointsOK(K, cs, now) /\ LogOK(cs)
    BY <2>1, <2>2, <2>7 DEF SegmentOK, IInv
  <2>10. CheckpointsOK(K2, cs, now)
    <3>1. Holds(file.rows, Part(cs, 0, v), Must(Part(cs, 0, v), now))
      BY <2>1, <2>4, <2>6, <2>7
    <3> QED
      BY <2>6, <2>8, <2>9, <3>1, <1>CheckpointPut
  <2>11. DOMAIN K \subseteq DOMAIN K2 /\ v \in DOMAIN K2
    BY <2>8 DEF SetAt
  <2>12. UNCHANGED <<clock, commits, compacted, hint>>
    BY DEF WriteCheckpoint
  <2>13. HintOK(hint, checkpoints)'
    BY <2>7, <2>11, <2>12 DEF IInv, HintOK
  <2>14. /\ maint' \in [Maintainers -> [step : {"idle", "loaded", "written"}, segment : AnySegment \cup {None}]]
         /\ \A n \in Maintainers : n # m => maint'[n] = maint[n]
         /\ maint'[m].step = "written" /\ maint'[m].segment = seg
    <3>1. maint[m] \in [step : {"idle", "loaded", "written"}, segment : AnySegment \cup {None}]
      BY DEF IInv
    <3>2. maint' = [maint EXCEPT ![m].step = "written"]
      BY DEF WriteCheckpoint
    <3> QED
      BY <2>1, <3>1, <3>2 DEF IInv
  <2>15. PICK M, M2 : M = maint /\ M2 = maint'
    OBVIOUS
  <2>16. MaintOK(M, K2, C, cs)
    <3>1. MaintOK(M, K, C, cs)
      BY Zenon, <2>7, <2>9, <2>15 DEF IInv
    <3>2. cs \in Seq(Seq(Row))
      BY Zenon, <2>9 DEF LogOK
    <3>3. Len(cs) <= Len(cs)
      BY ONLY <3>2
    <3> QED
      BY Zenon, <2>9, <2>11, <3>1, <3>3, <1>MaintStays
  <2>17. SegmentOK(seg, K2, C, cs)
    <3>1. SegmentOK(seg, K, C, cs)
      BY Zenon, <2>2, <2>7, <2>9
    <3>2. cs \in Seq(Seq(Row))
      BY Zenon, <2>9 DEF LogOK
    <3>3. Len(cs) <= Len(cs)
      BY ONLY <3>2
    <3> QED
      BY Zenon, <2>9, <2>11, <3>1, <3>3, <1>SegmentStays
  <2>18. MaintOK(M2, K2, C, cs)
    <3>1. \A n \in Maintainers : n # m => M2[n] = M[n]
      BY <2>14, <2>15
    <3>2. M2[m].segment = seg /\ seg.version \in DOMAIN K2
      BY <2>1, <2>11, <2>14, <2>15
    <3> QED
      BY <2>16, <2>17, <3>1, <3>2 DEF MaintOK
  <2>19. CheckpointsOK(checkpoints, commits, clock)' /\ MaintOK(maint, checkpoints, compacted, commits)'
    BY <2>7, <2>10, <2>12, <2>15, <2>18
  <2> QED
    BY <2>12, <2>13, <2>14, <2>19 DEF IInv
(* The rows another writer keeps, in the order of its checkpoint.           *)
<1>ForeignRows.
    ASSUME NEW cs, LogOK(cs), NEW now, NEW X, X = Part(cs, 0, Len(cs) - 1), NEW set,
           set = {row \in X : IsNewest(row, X) /\ ~Suppressed(row, now)}
    PROVE  Holds(Only(FlattenSeq(Reverse(cs)), set), X, Must(X, now))
  <2> USE <1>ForeignRows
  <2>1. PICK n : n = Len(cs)
    BY Zenon
  <2>2. cs \in Seq(Seq(Row)) /\ n \in Nat /\ n - 1 \in Int /\ n - 1 < Len(cs)
    BY <2>1 DEF LogOK
  <2>3. PICK rev : rev = Reverse(cs)
    OBVIOUS
  <2>4. rev \in Seq(Seq(Row)) /\ Len(rev) = n
    BY <2>1, <2>2, <2>3 DEF Reverse
  <2>5. \A b \in 1 .. n : n - b + 1 \in 1 .. n /\ rev[b] = cs[n - b + 1]
    <3>1. \A b \in 1 .. n : n - b + 1 \in 1 .. n /\ (n - b) + 1 = n - b + 1
      BY <2>2
    <3>2. \A b \in 1 .. n : rev[b] = cs[(n - b) + 1]
      BY <2>1, <2>2, <2>3 DEF Reverse
    <3> QED
      BY <3>1, <3>2
  <2>6. PICK flat : flat = FlattenSeq(rev)
    OBVIOUS
  <2>7. flat \in Seq(Row) /\ \E block : Blocks(flat, block, rev, n)
    BY <2>4, <2>6, FlattenBlocks
  <2>8. PICK block : Blocks(flat, block, rev, n)
    BY <2>7
  <2>9. ASSUME NEW j \in 1 .. Len(flat) PROVE block[j] \in 1 .. n /\ flat[j].version = n - block[j]
    <3>1. block[j] \in 1 .. n
      BY Zenon, <2>8 DEF Blocks
    <3>2. PICK x \in 1 .. Len(rev[block[j]]) : flat[j] = rev[block[j]][x]
      BY <2>8 DEF Blocks
    <3>3. PICK i : i = n - block[j] + 1
      OBVIOUS
    <3>4. i \in 1 .. n /\ rev[block[j]] = cs[i] /\ i - 1 = n - block[j]
      <4>1. PICK b \in 1 .. n : b = block[j]
        BY <3>1
      <4>2. n \in Nat
        BY <2>2
      <4>3. i = n - b + 1 /\ i - 1 = n - b
        BY <3>3, <4>1, <4>2
      <4>4. i \in 1 .. n /\ rev[b] = cs[i]
        BY <2>5, <4>3
      <4> QED
        BY <4>1, <4>3, <4>4
    <3>5. cs[i][x].version = i - 1
      BY Zenon, <2>1, <3>2, <3>4 DEF LogOK
    <3> QED
      BY <3>1, <3>2, <3>4, <3>5
  <2>10. ASSUME NEW i \in 1 .. Len(flat), NEW j \in 1 .. Len(flat), i < j, flat[i].slot = flat[j].slot
         PROVE  flat[i].version # flat[j].version
    <3>1. SUFFICES ASSUME flat[i].version = flat[j].version PROVE FALSE
      OBVIOUS
    <3>2. block[i] = block[j] /\ block[j] \in 1 .. n
      <4>1. PICK b, c : b = block[i] /\ c = block[j]
        OBVIOUS
      <4>2. b \in 1 .. n /\ c \in 1 .. n /\ n - b = n - c
        BY <2>9, <3>1, <4>1
      <4>3. n \in Nat
        BY <2>2
      <4>4. b = c
        BY <4>2, <4>3
      <4> QED
        BY <4>1, <4>2, <4>4
    <3>3. PICK x, y \in 1 .. Len(rev[block[j]]) :
            x < y /\ flat[i] = rev[block[j]][x] /\ flat[j] = rev[block[j]][y]
      BY Zenon, <2>8, <2>10, <3>2 DEF Blocks
    <3>4. PICK k : k \in 1 .. n /\ rev[block[j]] = cs[k]
      BY <2>5, <3>2
    <3>5. x = y
      BY <2>1, <2>10, <3>3, <3>4 DEF LogOK
    <3> QED
      BY <2>4, <3>2, <3>3, <3>5
  <2> DEFINE K == OnlyAt(flat, set, Len(flat))
  <2>11. PICK some : some = Only(flat, set)
    BY Zenon
  <2>12. some \in Seq(Row) /\ \E pos : Picks(some, pos, flat, K)
    BY Zenon, <2>7, <2>11, OnlyPicks
  <2>13. PICK pos : Picks(some, pos, flat, K)
    BY Zenon, <2>12
  <2>14. \A i \in K : i \in 1 .. Len(flat) /\ flat[i] \in set
    BY DEF OnlyAt
  <2>15. \A x \in 1 .. Len(some) : pos[x] \in 1 .. Len(flat) /\ some[x] = flat[pos[x]] /\ some[x] \in set
    BY Zenon, <2>13, <2>14 DEF Picks
  <2>16. \A x \in 1 .. Len(some) : some[x] \in X /\ IsNewest(some[x], X) /\ some[x].version \in Int
    <3>1. \A x \in 1 .. Len(some) : some[x] \in X /\ IsNewest(some[x], X)
      BY <2>15
    <3>2. ASSUME NEW x \in 1 .. Len(some) PROVE some[x].version \in Int
      <4>1. PICK j \in 1 .. Len(flat) : some[x] = flat[j]
        BY <2>15
      <4>2. block[j] \in 1 .. n /\ flat[j].version = n - block[j]
        BY <2>9
      <4>3. PICK b \in 1 .. n : some[x].version = n - b
        BY <4>1, <4>2
      <4>4. n \in Nat
        BY <2>2
      <4> QED
        BY <4>3, <4>4
    <3> QED
      BY <3>1, <3>2
  <2>17. ASSUME NEW x \in 1 .. Len(some), NEW y \in 1 .. Len(some), some[x].slot = some[y].slot
         PROVE  x = y
    <3>1. some[x].version = some[y].version
      <4>1. some[x].version <= some[y].version /\ some[y].version <= some[x].version
        BY <2>16, <2>17 DEF IsNewest
      <4> QED
        BY <2>16, <4>1
    <3>2. /\ pos[x] \in 1 .. Len(flat) /\ pos[y] \in 1 .. Len(flat)
          /\ some[x] = flat[pos[x]] /\ some[y] = flat[pos[y]]
      BY <2>15
    <3>3. ~(pos[x] < pos[y]) /\ ~(pos[y] < pos[x])
      BY Zenon, <2>10, <2>17, <3>1, <3>2
    <3>4. (x < y => pos[x] < pos[y]) /\ (y < x => pos[y] < pos[x])
      BY <2>13 DEF Picks
    <3> QED
      BY <2>12, <3>3, <3>4
  <2>18. ASSUME NEW row \in Must(X, now), IsNewest(row, X) PROVE \E x \in 1 .. Len(some) : some[x] = row
    <3>1. row \in X /\ row \in set
      BY <2>18 DEF Must
    <3>2. PICK v : v = row.version
      OBVIOUS
    <3>3. v \in 0 .. n - 1 /\ \E x \in 1 .. Len(cs[v + 1]) : row = cs[v + 1][x]
      <4>1. 0 \in Nat /\ X = Part(cs, 0, n - 1)
        BY <2>1
      <4> QED
        BY <2>2, <3>1, <3>2, <4>1, PartRow
    <3>4. PICK b : b = n - v
      OBVIOUS
    <3>5. b \in 1 .. n /\ n - b + 1 = v + 1
      <4>1. v \in 0 .. n - 1 /\ n \in Nat
        BY <2>2, <3>3
      <4> QED
        BY <3>4, <4>1
    <3>6. PICK x \in 1 .. Len(rev[b]) : row = rev[b][x]
      BY <2>5, <3>3, <3>5
    <3>7. PICK j \in 1 .. Len(flat) : flat[j] = rev[b][x]
      BY <2>8, <3>5 DEF Blocks
    <3>8. j \in K
      BY <3>1, <3>6, <3>7 DEF OnlyAt
    <3>9. PICK y \in 1 .. Len(some) : pos[y] = j
      BY <2>13, <3>8 DEF Picks
    <3> QED
      BY <2>15, <3>6, <3>7, <3>9
  <2>19. Holds(some, X, Must(X, now))
    BY <2>12, <2>16, <2>17, <2>18 DEF Holds
  <2> QED
    BY <2>3, <2>6, <2>11, <2>19
<1>ForeignStep.
    IInv /\ ForeignCheckpoint => IInv'
  <2> SUFFICES ASSUME IInv, ForeignCheckpoint PROVE IInv'
    OBVIOUS
  <2>1. PICK X, set : X = History(Latest) /\ set = {r \in X : IsNewest(r, X) /\ ~Suppressed(r, clock)}
    BY Zenon
  <2>2. PICK rows : rows = Only(FlattenSeq(Reverse(commits)), set)
    OBVIOUS
  <2>3. PICK format \in ForeignFormats, finished \in BOOLEAN :
          /\ checkpoints' = SetAt(checkpoints, Latest, [rows |-> rows, format |-> format])
          /\ hint' = IF finished THEN [version |-> Latest, schema |-> format] ELSE hint
    BY <2>1, <2>2 DEF ForeignCheckpoint
  <2>4. PICK v, cs, now : v = Latest /\ cs = commits /\ now = clock
    OBVIOUS
  <2>5. LogOK(cs) /\ v \in Nat /\ v < Len(cs) /\ v = Len(cs) - 1
    <3>1. LogOK(cs) /\ Len(cs) \in 1 .. MaxVersion + 1 /\ v = Len(cs) - 1 /\ MaxVersion \in Nat
      BY Zenon, <2>4, LogMaintenanceAssumption DEF IInv, LogOK, Latest
    <3> QED
      BY <3>1
  <2>6. X = Part(cs, 0, v)
    BY <2>1, <2>4 DEF History, Part
  <2>7. Holds(rows, X, Must(X, now))
    BY Zenon, <2>1, <2>2, <2>4, <2>5, <2>6, <1>ForeignRows
  <2>8. PICK file : file = [rows |-> rows, format |-> format]
    BY Zenon
  <2>9. file.rows = rows /\ file.format \in {"v1"} \cup ForeignFormats
    BY <2>8
  <2>10. PICK K, K2 : K = checkpoints /\ K2 = checkpoints'
    OBVIOUS
  <2>11. K2 = SetAt(K, v, file)
    BY Zenon, <2>3, <2>4, <2>8, <2>10
  <2>12. CheckpointsOK(K2, cs, now)
    <3>1. CheckpointsOK(K, cs, now)
      BY <2>4, <2>10 DEF IInv
    <3>2. Holds(file.rows, Part(cs, 0, v), Must(Part(cs, 0, v), now))
      BY <2>6, <2>7, <2>9
    <3> QED
      BY <2>5, <2>9, <2>11, <3>1, <3>2, <1>CheckpointPut
  <2>13. DOMAIN K \subseteq DOMAIN K2 /\ v \in DOMAIN K2
    BY <2>11 DEF SetAt
  <2>14. UNCHANGED <<clock, commits, compacted, maint>>
    BY DEF ForeignCheckpoint
  <2>15. HintOK(hint, checkpoints)'
    <3>1. CASE finished
      <4>1. hint'.version = v /\ hint'.schema = format
        BY <2>3, <2>4, <3>1
      <4> QED
        BY <2>10, <2>13, <4>1 DEF HintOK, Schemas
    <3>2. CASE ~finished
      <4>1. hint' = hint
        BY <2>3, <3>2
      <4> QED
        BY <2>10, <2>13, <4>1 DEF IInv, HintOK
    <3> QED
      BY <3>1, <3>2
  <2>16. PICK M, C : M = maint /\ C = compacted
    OBVIOUS
  <2>17. MaintOK(M, K2, C, cs)
    <3>1. MaintOK(M, K, C, cs)
      BY Zenon, <2>4, <2>5, <2>10, <2>16 DEF IInv
    <3>2. cs \in Seq(Seq(Row))
      BY Zenon, <2>5 DEF LogOK
    <3>3. Len(cs) <= Len(cs)
      BY ONLY <3>2
    <3> QED
      BY Zenon, <2>5, <2>13, <3>1, <3>3, <1>MaintStays
  <2>18. CheckpointsOK(checkpoints, commits, clock)' /\ MaintOK(maint, checkpoints, compacted, commits)'
    BY Zenon, <2>4, <2>10, <2>12, <2>14, <2>16, <2>17
  <2> QED
    BY <2>14, <2>15, <2>18 DEF IInv
<1>1. IInv /\ [Next]_vars => IInv'
  <2> SUFFICES ASSUME IInv, [Next]_vars PROVE IInv'
    OBVIOUS
  <2>1. CASE Tick
    BY <2>1, <1>TickStep
  <2>2. CASE Commit
    BY <2>2, <1>CommitStep
  <2>3. CASE ForeignCheckpoint
    BY <2>3, <1>ForeignStep
  <2>4. ASSUME NEW m \in Maintainers, LoadSnapshot(m) PROVE IInv'
    BY <2>4, <1>LoadStep
  <2>5. ASSUME NEW m \in Maintainers, WriteCheckpoint(m) PROVE IInv'
    BY Zenon, <2>5, <1>WriteStep
  <2>6. ASSUME NEW m \in Maintainers, Finalize(m) PROVE IInv'
    BY <2>6, <1>FinalizeStep
  <2>7. ASSUME NEW m \in Maintainers, CompactLog(m) PROVE IInv'
    BY <2>7, <1>CompactStep
  <2>8. ASSUME NEW m \in Maintainers, Stop(m) PROVE IInv'
    BY <2>8, <1>StopStep
  <2>9. CASE UNCHANGED vars
    BY <2>9 DEF vars, IInv
  <2> QED
    BY Zenon, <2>1, <2>2, <2>3, <2>4, <2>5, <2>6, <2>7, <2>8, <2>9 DEF Next
<1> QED
  BY <1>InitOK, <1>1

----------------------------------------------------------------------------
(* What the invariant says of segments and scans.                           *)

(* Every segment a reader can hold is one that the invariant allows.        *)
LEMMA SegmentsOK ==
    ASSUME WellOrdered, IInv, NEW seg \in Segments
    PROVE  SegmentOK(seg, checkpoints, compacted, commits)
<1>1. CASE \E v \in 0 .. Latest : seg = SegmentFor(v)
  BY Zenon, <1>1, SegmentListed
<1>2. CASE \E m \in Maintainers : maint[m].step # "idle" /\ seg = maint[m].segment
  BY <1>2 DEF IInv, MaintOK
<1> QED
  BY <1>1, <1>2 DEF Segments

(* TableState is the newest action on each slot.                            *)
LEMMA StateIs ==
    ASSUME NEW v, NEW type
    PROVE  TableState(v, type) = Newest(Part(commits, 0, v), type)
  BY DEF TableState, Newest, Part, History

(* What is read through any segment a reader can hold replays the log.      *)
LEMMA SegmentScan ==
    ASSUME WellOrdered, IInv, NEW seg \in Segments, NEW X, X = Part(commits, 0, seg.version)
    PROVE  Replays(ReadActions(seg), X, Must(X, clock)) /\ RowSet(X)
<1>1. SegmentOK(seg, checkpoints, compacted, commits)
  BY SegmentsOK
<1> QED
  BY <1>1, SegmentRead

(* A scan returns only files that are live, and those that matter with      *)
(* their newest add.                                                        *)
LEMMA OnlyLiveFiles ==
    ASSUME WellOrdered, IInv, TombstonesOutlive, NEW seg \in Segments, NEW row \in ScanFiles(ReadActions(seg))
    PROVE  \E live \in TableState(seg.version, "add") :
             live.slot = row.slot /\ (row.slot \in Irrelevant \/ row = live)
<1>1. PICK s, v : s = ReadActions(seg) /\ v = seg.version
  OBVIOUS
<1>2. PICK X : X = Part(commits, 0, v)
  OBVIOUS
<1>3. PICK must : must = Must(X, clock)
  OBVIOUS
<1>4. Replays(s, X, must) /\ RowSet(X) /\ row \in ScanFiles(s)
  BY <1>1, <1>2, <1>3, SegmentScan
<1>5. \E live \in Newest(X, "add") : live.slot = row.slot /\ (row.slot \in Irrelevant \/ row = live)
  BY <1>4, ScanNewest
<1>6. TableState(v, "add") = Newest(X, "add")
  BY <1>2, StateIs
<1> QED
  BY <1>1, <1>5, <1>6

(* A scan agrees with forward replay.                                       *)
LEMMA ScanIs ==
    ASSUME WellOrdered, IInv, TombstonesOutlive, SidecarsRead, NEW seg \in Segments
    PROVE  ScanAgrees(seg, ReadActions(seg))
<1>1. PICK s, v : s = ReadActions(seg) /\ v = seg.version
  OBVIOUS
<1>2. PICK X : X = Part(commits, 0, v)
  OBVIOUS
<1>3. PICK must : must = Must(X, clock)
  OBVIOUS
<1>4. PICK got, live : got = ScanFiles(s) /\ live = TableState(v, "add")
  OBVIOUS
<1>5. ASSUME NEW r \in got
      PROVE  \E l \in live : l.slot = r.slot /\ (r.slot \in Irrelevant \/ r = l)
  BY <1>1, <1>4, OnlyLiveFiles
<1>6. ASSUME NEW r \in live, r.slot \notin Irrelevant PROVE r \in got
  <2>1. Replays(s, X, must) /\ RowSet(X)
    BY <1>1, <1>2, <1>3, SegmentScan
  <2>2. r \in Newest(X, "add")
    BY <1>2, <1>4, StateIs
  <2>3. r \in must
    BY <1>3, <2>2 DEF Newest, Must, Suppressed
  <2> QED
    BY <1>4, <1>6, <2>1, <2>2, <2>3, ScanReturnsLive
<1>7. {r \in live : r.slot \notin Irrelevant} = {r \in got : r.slot \notin Irrelevant}
  BY <1>5, <1>6
<1>8. {r.slot : r \in got} \subseteq {r.slot : r \in live}
  BY <1>5
<1> QED
  BY <1>1, <1>4, <1>7, <1>8 DEF ScanAgrees

----------------------------------------------------------------------------
(* The theorems.  What the lemmas above assume of the naturals is a theorem *)
(* of the library.                                                          *)
LOCAL INSTANCE WellFoundedInduction

(* The naturals are well ordered.                                           *)
LEMMA NaturalsAreWellOrdered == WellOrdered
<1> SUFFICES ASSUME NEW T \in SUBSET Nat, T # {}
             PROVE  \E m \in T : \A k \in T : m <= k
  BY DEF WellOrdered
<1>1. PICK m \in T : \A k \in T : ~(<<k, m>> \in OpToRel(<, Nat))
  BY NatLessThanWellFounded, WFMin
<1>2. \A k \in T : ~(k < m)
  BY <1>1 DEF OpToRel
<1> QED
  BY <1>2

USE NaturalsAreWellOrdered

(* Every checkpoint has the newest action of every slot that a reader may   *)
(* need, every compacted file that of its range, and every snapshot a       *)
(* maintainer holds names files that are there, whatever commits            *)
(* (Transaction::commit), checkpoints, hints and compactions happen between *)
(* its steps.                                                               *)
THEOREM LogInvariant == Spec => []IInv
<1>1. (Init => IInv) /\ (IInv /\ [Next]_vars => IInv')
  BY LogInductive
<1> QED
  BY <1>1, PTL DEF Spec

(* Every snapshot a reader can hold is scanned to the live files of its     *)
(* version, whatever mix of checkpoints, compacted files and commits it     *)
(* reads, and whatever is pruned before deduplication                       *)
(* (ScanLogReplayProcessor over LogSegment::read_actions).  It takes two    *)
(* hypotheses: no tombstone expires while files are compacted, and other    *)
(* writers keep to one checkpoint format.                                   *)
THEOREM ScansAreFaithful ==
    ASSUME TombstonesOutlive, SidecarsRead
    PROVE  Spec => []ScanFaithful
<1>1. IInv => ScanFaithful
  BY ScanIs DEF ScanFaithful
<1> QED
  BY LogInvariant, <1>1, PTL

(* A file whose newest action is a remove is in no scan, as long as no      *)
(* tombstone expires while files are compacted (AddRemoveDedupVisitor); the *)
(* run that violates RemovedFilesStayRemoved has tombstones that do.        *)
THEOREM RemovedFilesAreNotScanned ==
    ASSUME TombstonesOutlive
    PROVE  Spec => []RemovedFilesStayRemoved
<1>1. IInv => RemovedFilesStayRemoved
  <2> SUFFICES ASSUME IInv, NEW seg \in Segments, NEW row \in ScanFiles(ReadActions(seg))
               PROVE  \E live \in TableState(seg.version, "add") : live.slot = row.slot
    BY DEF RemovedFilesStayRemoved
  <2> QED
    BY OnlyLiveFiles
<1> QED
  BY LogInvariant, <1>1, PTL

(* A checkpoint holds the live files of its version and no slot twice,      *)
(* however many checkpoints it was derived from                             *)
(* (ActionReconciliationProcessor), under the same two hypotheses.          *)
THEOREM CheckpointsAreExact ==
    ASSUME TombstonesOutlive, SidecarsRead
    PROVE  Spec => []CheckpointExact
<1>1. ASSUME IInv, NEW v \in DOMAIN checkpoints
      PROVE  /\ {r \in Range(checkpoints[v].rows) : r.type = "add"} = TableState(v, "add")
             /\ \A i, j \in DOMAIN checkpoints[v].rows :
                  checkpoints[v].rows[i].slot = checkpoints[v].rows[j].slot => i = j
  <2>1. PICK rows : rows = checkpoints[v].rows
    OBVIOUS
  <2>2. PICK X : X = Part(commits, 0, v)
    OBVIOUS
  <2>3. PICK must : must = Must(X, clock)
    BY Zenon
  <2>4. Holds(rows, X, must)
    BY <1>1, <2>1, <2>2, <2>3 DEF IInv, CheckpointsOK
  <2>5. DOMAIN rows = 1 .. Len(rows)
    BY <2>4 DEF Holds
  <2>6. Range(rows) = {rows[i] : i \in 1 .. Len(rows)}
    BY <2>5 DEF Range
  <2>7. ASSUME NEW i \in 1 .. Len(rows), rows[i].type = "add" PROVE rows[i] \in Newest(X, "add")
    <3>1. Steady(rows[i])
      BY <2>7 DEF Steady, IsFileAction
    <3> QED
      BY <2>4, <2>7, <3>1 DEF Holds, Newest
  <2>8. ASSUME NEW r \in Newest(X, "add") PROVE \E i \in 1 .. Len(rows) : rows[i] = r
    <3>1. r \in must /\ IsNewest(r, X)
      BY <2>3 DEF Newest, Must, Suppressed
    <3> QED
      BY <2>4, <3>1 DEF Holds
  <2>9. \A r \in Newest(X, "add") : r.type = "add"
    BY DEF Newest
  <2>10. {r \in Range(rows) : r.type = "add"} = Newest(X, "add")
    BY <2>6, <2>7, <2>8, <2>9
  <2>11. TableState(v, "add") = Newest(X, "add")
    BY <2>2, StateIs
  <2>12. \A i, j \in DOMAIN rows : rows[i].slot = rows[j].slot => i = j
    BY <2>4, <2>5 DEF Holds
  <2> QED
    BY <2>1, <2>10, <2>11, <2>12
<1>2. IInv => CheckpointExact
  BY Zenon, <1>1 DEF CheckpointExact
<1> QED
  BY LogInvariant, <1>2, PTL

(* A remove that has not expired is in every checkpoint at or after its     *)
(* version (ActionReconciliationVisitor::check_file_action), with no        *)
(* hypothesis on compacted files.                                           *)
THEOREM TombstonesAreKept ==
    ASSUME SidecarsRead
    PROVE  Spec => []TombstonesKept
<1>1. ASSUME IInv, NEW v \in DOMAIN checkpoints, NEW row \in TableState(v, "remove"),
             ~is_expired_tombstone(row, clock)
      PROVE  row \in Range(checkpoints[v].rows)
  <2>1. PICK rows : rows = checkpoints[v].rows
    OBVIOUS
  <2>2. PICK X : X = Part(commits, 0, v)
    OBVIOUS
  <2>3. PICK must : must = Must(X, clock)
    BY Zenon
  <2>4. Holds(rows, X, must)
    BY Zenon, <1>1, <2>1, <2>2, <2>3 DEF IInv, CheckpointsOK
  <2>5. row \in Newest(X, "remove")
    BY <2>2, StateIs
  <2>6. row \in must /\ IsNewest(row, X)
    BY <1>1, <2>3, <2>5 DEF Newest, Must, Suppressed
  <2>7. PICK i \in 1 .. Len(rows) : rows[i] = row
    BY <2>4, <2>6 DEF Holds
  <2>8. DOMAIN rows = 1 .. Len(rows)
    BY <2>4 DEF Holds
  <2> QED
    BY <2>1, <2>7, <2>8 DEF Range
<1>2. IInv => TombstonesKept
  BY <1>1 DEF TombstonesKept
<1> QED
  BY LogInvariant, <1>2, PTL

(* Find_commit_cover reads every version after the checkpoint exactly once, *)
(* newest first, for any set of compacted files.                            *)
THEOREM CoversAreExact == Spec => []CoverExact
<1>1. ASSUME IInv, NEW seg \in Segments, NEW cover, cover = find_commit_cover(seg),
             NEW first, first = First(seg)
      PROVE  IF cover = <<>> THEN seg.version < first
             ELSE /\ cover[1][2] = seg.version
                  /\ Last(cover)[1] = first
                  /\ \A i \in 1 .. (Len(cover) - 1) : cover[i][1] = cover[i + 1][2] + 1
  <2>1. SegmentOK(seg, checkpoints, compacted, commits)
    BY <1>1, SegmentsOK
  <2>2. Covers(seg) /\ seg.version \in Nat
    BY Zenon, <1>1, <2>1, SegmentCovers
  <2>3. Chain(cover, first, seg.version)
    BY <1>1, <2>2, CoverIs
  <2>4. CASE cover = <<>>
    <3>1. Len(cover) = 0
      BY <2>4
    <3>2. first = seg.version + 1
      BY <2>3, <3>1 DEF Chain
    <3> QED
      BY <2>2, <2>4, <3>2
  <2>5. CASE cover # <<>>
    <3>1. cover \in Seq(Nat \X Nat)
      BY <2>3 DEF Chain
    <3>2. Len(cover) # 0
      BY <2>5, <3>1
    <3>3. cover[1][2] = seg.version /\ cover[Len(cover)][1] = first
      BY <2>3, <3>2 DEF Chain
    <3>4. Last(cover) = cover[Len(cover)]
      BY DEF Last
    <3>5. \A i \in 1 .. (Len(cover) - 1) : cover[i][1] = cover[i + 1][2] + 1
      BY <2>3 DEF Chain
    <3> QED
      BY <2>5, <3>3, <3>4, <3>5
  <2> QED
    BY <2>4, <2>5
<1>2. IInv => CoverExact
  BY <1>1 DEF CoverExact, First
<1> QED
  BY LogInvariant, <1>2, PTL

(* The _last_checkpoint hint changes nothing that is listed and makes no    *)
(* listing fail (LogSegment::for_snapshot_impl), though it may name an      *)
(* older checkpoint than the newest, and nothing that is read unless its    *)
(* schema denies the sidecars of another checkpoint.                        *)
THEOREM HintsAreTransparent == Spec => []HintTransparent
<1>1. ASSUME IInv, NEW v \in 0 .. Latest
      PROVE  ~ListingFails(v) /\ SegmentFor(v) = Segment(0, v, HintSchema)
  <2>1. v \in Nat
    OBVIOUS
  <2>2. CASE ~HintUsable(v)
    BY <2>2 DEF ListingFails, SegmentFor
  <2>3. CASE HintUsable(v)
    <3>1. PICK lo : lo = hint.version
      BY Zenon
    <3>2. lo \in DOMAIN checkpoints /\ lo \in Nat /\ lo <= v
      BY <1>1, <2>3, <3>1 DEF HintUsable, IInv, HintOK, CheckpointsOK
    <3>3. PICK cp : cp = NewestCheckpoint(lo, v)
      OBVIOUS
    <3>4. PICK all : all = NewestCheckpoint(0, v)
      OBVIOUS
    <3>5. /\ cp \in DOMAIN checkpoints /\ cp \in Nat /\ lo <= cp /\ cp <= v
          /\ \A d \in DOMAIN checkpoints : d <= v => d <= cp
      <4>1. lo <= lo
        BY <3>2
      <4> QED
        BY <1>1, <2>1, <3>2, <3>3, <4>1, NewestCheckpointIs
    <3>6. /\ all \in DOMAIN checkpoints /\ all \in Nat /\ all <= v
          /\ \A d \in DOMAIN checkpoints : d <= v => d <= all
      <4>1. 0 \in Nat /\ 0 <= lo
        BY <3>2
      <4> QED
        BY <1>1, <2>1, <3>2, <3>4, <4>1, NewestCheckpointIs
    <3>7. all = cp /\ cp # None
      <4>1. all <= cp /\ cp <= all
        BY <3>5, <3>6
      <4> QED
        BY <3>5, <3>6, <4>1, LogMaintenanceAssumption
    <3>8. ~ListingFails(v)
      BY <3>1, <3>3, <3>7 DEF ListingFails
    <3>9. ASSUME NEW c \in DOMAIN compacted
          PROVE  (lo <= c[1] /\ c[2] <= v /\ (cp # None => cp < c[1]))
                   <=> (0 <= c[1] /\ c[2] <= v /\ (cp # None => cp < c[1]))
      <4>1. c[1] \in Nat
        BY Zenon, <1>1, LogMaintenanceAssumption DEF IInv, CompactedOK
      <4>2. cp < c[1] => lo <= c[1]
        BY <3>2, <3>5, <4>1
      <4>3. 0 <= c[1]
        BY ONLY <4>1
      <4> QED
        BY Zenon, <3>7, <4>2, <4>3
    <3>10. Segment(lo, v, HintSchema) = Segment(0, v, HintSchema)
      BY Zenon, <3>3, <3>4, <3>7, <3>9 DEF Segment
    <3> QED
      BY <2>3, <3>1, <3>8, <3>10 DEF SegmentFor
  <2> QED
    BY <2>2, <2>3
<1>2. ASSUME IInv, NEW v \in 0 .. Latest, NEW seg, seg = SegmentFor(v),
             NEW unhinted, unhinted = Segment(0, v, None)
      PROVE  /\ seg = [unhinted EXCEPT !.schema = HintSchema]
             /\ ~SidecarsDenied(seg) => ReadActions(seg) = ReadActions(unhinted)
  <2>1. seg = Segment(0, v, HintSchema)
    BY Zenon, <1>1, <1>2
  <2>2. PICK cp, files : /\ seg = [version |-> v, checkpoint |-> cp, compacted |-> files, schema |-> HintSchema]
                         /\ unhinted = [version |-> v, checkpoint |-> cp, compacted |-> files, schema |-> None]
    BY Zenon, <1>2, <2>1 DEF Segment
  <2>3. /\ seg.version = unhinted.version /\ seg.checkpoint = unhinted.checkpoint
        /\ seg.compacted = unhinted.compacted /\ unhinted.schema = None
        /\ seg = [unhinted EXCEPT !.schema = HintSchema]
    BY <2>2
  <2>4. CommitsOf(seg) = CommitsOf(unhinted)
    BY <2>3 DEF CommitsOf
  <2>5. find_commit_cover(seg) = find_commit_cover(unhinted)
    BY Zenon, <2>3, <2>4 DEF find_commit_cover
  <2>6. ASSUME ~SidecarsDenied(seg) PROVE ReadCheckpoint(seg) = ReadCheckpoint(unhinted)
    <3>1. None # "v1"
      BY LogMaintenanceAssumption
    <3>2. CASE seg.checkpoint = None
      BY <2>3, <3>2 DEF ReadCheckpoint
    <3>3. CASE seg.checkpoint # None
      <4>1. ReadCheckpoint(seg) = checkpoints[seg.checkpoint].rows
        BY <2>6, <3>3 DEF ReadCheckpoint, SidecarsDenied
      <4>2. ReadCheckpoint(unhinted) = checkpoints[unhinted.checkpoint].rows
        BY <2>3, <3>1, <3>3 DEF ReadCheckpoint
      <4> QED
        BY <2>3, <4>1, <4>2
    <3> QED
      BY <3>2, <3>3
  <2>7. ~SidecarsDenied(seg) => ReadActions(seg) = ReadActions(unhinted)
    BY Zenon, <2>5, <2>6 DEF ReadActions
  <2> QED
    BY <2>3, <2>7
<1>3. IInv => HintTransparent
  BY Zenon, <1>1, <1>2 DEF HintTransparent
<1> QED
  BY LogInvariant, <1>3, PTL

(* The newest action on a domain that is set and on an application that has *)
(* not expired is read from every snapshot                                  *)
(* (LogSegment::scan_domain_metadatas, SetTransactionScanner::get_one),     *)
(* also where checkpoints of checkpoints, compacted files or unread         *)
(* sidecars have dropped others.                                            *)
THEOREM LiveIdentifiersAreRead == Spec => []LiveIdentifiersRead
<1>1. ASSUME IInv, NEW seg \in Segments, NEW row, NEW type \in {"txn", "domainMetadata"},
             row \in TableState(seg.version, type), ~Suppressed(row, clock),
             NEW passing, row \in passing
      PROVE  row \in FirstRows(ReadActions(seg), passing)
  <2>1. PICK s, v : s = ReadActions(seg) /\ v = seg.version
    OBVIOUS
  <2>2. PICK X : X = Part(commits, 0, v)
    OBVIOUS
  <2>3. PICK must : must = Must(X, clock)
    OBVIOUS
  <2>4. Replays(s, X, must) /\ RowSet(X)
    BY <1>1, <2>1, <2>2, <2>3, SegmentScan
  <2>5. row \in X /\ row.type = type /\ IsNewest(row, X)
    BY <1>1, <2>1, <2>2, StateIs DEF Newest
  <2>6. row \in must
    BY <1>1, <2>3, <2>5 DEF Must, IsFileAction
  <2>7. row \in FirstRows(s, passing)
    BY Zenon, <1>1, <2>4, <2>5, <2>6, FirstIsNewest
  <2> QED
    BY <2>1, <2>7
<1>2. ASSUME IInv, NEW seg \in Segments, NEW row, NEW type \in {"txn", "domainMetadata"},
             row \in TableState(seg.version, type), ~Suppressed(row, clock)
      PROVE  row \in RowsOf(ReadActions(seg)) /\ row.type = type
  <2>1. PICK s, v : s = ReadActions(seg) /\ v = seg.version
    OBVIOUS
  <2>2. PICK X : X = Part(commits, 0, v)
    OBVIOUS
  <2>3. PICK must : must = Must(X, clock)
    OBVIOUS
  <2>4. Replays(s, X, must)
    BY <1>2, <2>1, <2>2, <2>3, SegmentScan
  <2>5. row \in X /\ row.type = type /\ IsNewest(row, X)
    BY <1>2, <2>1, <2>2, StateIs DEF Newest
  <2>6. row \in must
    BY Zenon, <1>2, <2>3, <2>5 DEF Must, IsFileAction
  <2>7. PICK i \in 1 .. Len(s) : s[i].row = row
    BY <2>4, <2>5, <2>6 DEF Replays
  <2>8. DOMAIN s = 1 .. Len(s)
    BY <2>4 DEF Replays
  <2> QED
    BY <2>1, <2>5, <2>7, <2>8 DEF RowsOf
<1>3. ASSUME IInv, NEW seg \in Segments, NEW d \in TableState(seg.version, "domainMetadata"), ~d.flag
      PROVE  d \in ScanDomains(ReadActions(seg))
  <2>1. PICK s : s = ReadActions(seg)
    OBVIOUS
  <2>2. PICK passing : passing = {r \in RowsOf(s) : r.type = "domainMetadata"}
    BY Zenon
  <2>3. d.type = "domainMetadata"
    BY DEF TableState
  <2>4. ~Suppressed(d, clock)
    BY <1>3, <2>3 DEF Suppressed
  <2>5. d \in passing
    BY <1>2, <1>3, <2>1, <2>2, <2>3, <2>4
  <2>6. d \in FirstRows(s, passing)
    BY <1>1, <1>3, <2>1, <2>4, <2>5
  <2> QED
    BY <1>3, <2>1, <2>2, <2>6 DEF ScanDomains
<1>4. ASSUME IInv, NEW seg \in Segments, NEW t \in TableState(seg.version, "txn"),
             ~IsExpiredTxn(t, clock)
      PROVE  t \in ScanTransactions(ReadActions(seg), clock)
  <2>1. PICK s : s = ReadActions(seg)
    OBVIOUS
  <2>2. PICK passing : passing = {r \in RowsOf(s) : r.type = "txn" /\ ~IsExpiredTxn(r, clock)}
    BY Zenon
  <2>3. t.type = "txn"
    BY DEF TableState
  <2>4. ~Suppressed(t, clock)
    BY <1>4, <2>3 DEF Suppressed
  <2>5. t \in passing
    BY <1>2, <1>4, <2>1, <2>2, <2>3, <2>4
  <2>6. t \in FirstRows(s, passing)
    BY <1>1, <1>4, <2>1, <2>4, <2>5
  <2> QED
    BY <2>1, <2>2, <2>6 DEF ScanTransactions
<1>5. IInv => LiveIdentifiersRead
  BY <1>3, <1>4 DEF LiveIdentifiersRead
<1> QED
  BY LogInvariant, <1>5, PTL

(* The protocol and the metadata that are read are the newest of each       *)
(* (protocol_metadata_replay), and the live files those of forward replay,  *)
(* through overlapping compacted files and foreign checkpoints, under the   *)
(* hypotheses of ScansAreFaithful.                                          *)
THEOREM ReplaysAreCurrent ==
    ASSUME TombstonesOutlive, SidecarsRead
    PROVE  Spec => []ReplayIsCurrent
<1> DEFINE types == {"protocol", "metaData"}
<1>1. ASSUME IInv, NEW seg \in Segments
      PROVE  ScanProtocolMetadata(ReadActions(seg))
               = TableState(seg.version, "protocol") \cup TableState(seg.version, "metaData")
  <2>1. PICK s, v : s = ReadActions(seg) /\ v = seg.version
    OBVIOUS
  <2>2. PICK X : X = Part(commits, 0, v)
    OBVIOUS
  <2>3. PICK must : must = Must(X, clock)
    OBVIOUS
  <2>4. Replays(s, X, must) /\ RowSet(X)
    BY <1>1, <2>1, <2>2, <2>3, SegmentScan
  <2>5. \A row \in X : row.type \in types => row \in must
    BY <2>3 DEF Must, Suppressed, IsFileAction
  <2>6. ASSUME NEW a \in X, NEW b \in X, a.slot = b.slot, a.type \in types PROVE b.type \in types
    <3>1. a \in Row /\ b \in Row
      BY <2>4 DEF RowSet
    <3>2. Fits(a) /\ Fits(b)
      BY <3>1, RowType
    <3> QED
      BY <2>6, <3>2 DEF Fits
  <2>7. PICK passing : passing = {r \in RowsOf(s) : r.type \in types}
    BY Zenon
  <2>8. ASSUME NEW row \in FirstRows(s, passing)
        PROVE  row \in X /\ row.type \in types /\ IsNewest(row, X)
    <3>1. PICK T : T = types
      BY Zenon
    <3>2. OfTypes(passing, s, T)
      BY <2>7, <3>1 DEF OfTypes
    <3> HIDE DEF types
    <3>3. \A a \in X : a.type \in T => a \in must
      BY <2>5, <3>1
    <3>4. \A a, b \in X : a.slot = b.slot /\ a.type \in T => b.type \in T
      BY Zenon, <2>6, <3>1
    <3>5. row \in X /\ row.type \in T /\ IsNewest(row, X)
      BY <2>4, <3>2, <3>3, <3>4, FirstIsOnly
    <3> QED
      BY <3>1, <3>5
  <2>9. ASSUME NEW row \in X, row.type \in types, IsNewest(row, X)
        PROVE  row \in FirstRows(s, passing)
    <3>1. row \in must
      BY Zenon, <2>5, <2>9
    <3>2. PICK i \in 1 .. Len(s) : s[i].row = row
      BY Zenon, <2>4, <2>9, <3>1 DEF Replays
    <3>3. DOMAIN s = 1 .. Len(s)
      BY <2>4 DEF Replays
    <3>4. row \in passing
      BY <2>7, <2>9, <3>2, <3>3 DEF RowsOf
    <3> QED
      BY <2>4, <2>9, <3>1, <3>4, FirstIsNewest
  <2>10. /\ TableState(v, "protocol") = {row \in X : row.type = "protocol" /\ IsNewest(row, X)}
         /\ TableState(v, "metaData") = {row \in X : row.type = "metaData" /\ IsNewest(row, X)}
    BY <2>2 DEF TableState, History, Part
  <2>11. FirstRows(s, passing) = TableState(v, "protocol") \cup TableState(v, "metaData")
    BY <2>8, <2>9, <2>10
  <2> QED
    BY <2>1, <2>7, <2>11 DEF ScanProtocolMetadata
<1>2. IInv => ReplayIsCurrent
  BY Zenon, <1>1, ScanIs DEF ReplayIsCurrent
<1> QED
  BY LogInvariant, <1>2, PTL

=============================================================================
