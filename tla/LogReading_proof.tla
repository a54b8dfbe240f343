-------------------------- MODULE LogReading_proof ---------------------------
(***************************************************************************)
(* What the files of the log of LogMaintenance hold and what reading them  *)
(* returns, for every mix of commits, checkpoints and compacted files a    *)
(* segment may name.                                                       *)
(***************************************************************************)
EXTENDS LogMaintenance, SequenceFacts


----------------------------------------------------------------------------
(* What the visitors return.                                                *)

(* rows are the elements of src at the positions K, in their order.         *)
Picks(rows, pos, src, K) ==
    /\ pos \in [1 .. Len(rows) -> K]
    /\ \A x \in 1 .. Len(rows) : rows[x] = src[pos[x]]
    /\ \A x, y \in 1 .. Len(rows) : x < y => pos[x] < pos[y]
    /\ \A i \in K : \E x \in 1 .. Len(rows) : pos[x] = i

(* A visitor that appends the row at a later position still has the rows it *)
(* picked, in order.                                                        *)
LEMMA PickOne ==
    ASSUME NEW X, NEW rows \in Seq(X), NEW src, NEW K \in SUBSET Nat, NEW pos,
           Picks(rows, pos, src, K),
           NEW i \in Nat, \A k \in K : k < i, src[i] \in X
    PROVE  \E new : Picks(Append(rows, src[i]), new, src, K \cup {i})
<1> DEFINE n == Len(rows)
           new == [x \in 1 .. n + 1 |-> IF x = n + 1 THEN i ELSE pos[x]]
<1>1. PICK all : all = Append(rows, src[i])
  BY Zenon
<1>2. /\ n \in Nat /\ Len(all) = n + 1 /\ all[n + 1] = src[i]
      /\ \A x \in 1 .. n : all[x] = rows[x]
  BY <1>1
<1>3. /\ pos \in [1 .. n -> K]
      /\ \A x \in 1 .. n : rows[x] = src[pos[x]]
      /\ \A x, y \in 1 .. n : x < y => pos[x] < pos[y]
      /\ \A k \in K : \E x \in 1 .. n : pos[x] = k
  BY DEF Picks
<1> HIDE DEF n
<1>4. \A x \in 1 .. n + 1 : x = n + 1 \/ (x \in 1 .. n /\ x # n + 1)
  BY <1>2
<1>5. \A x \in 1 .. n : x \in 1 .. n + 1 /\ x # n + 1
  BY <1>2
<1>6. new[n + 1] = i /\ \A x \in 1 .. n : new[x] = pos[x]
  BY <1>2, <1>5
<1>7. new \in [1 .. n + 1 -> K \cup {i}]
  BY <1>3, <1>4
<1> HIDE DEF new
<1>8. \A x \in 1 .. n + 1 : all[x] = src[new[x]]
  BY <1>2, <1>3, <1>4, <1>6
<1>9. ASSUME NEW x \in 1 .. n + 1, NEW y \in 1 .. n + 1, x < y PROVE new[x] < new[y]
  <2>1. x \in 1 .. n
    BY <1>2, <1>9
  <2>2. CASE y = n + 1
    BY Zenon, <1>3, <1>6, <2>1, <2>2
  <2>3. CASE y \in 1 .. n
    BY <1>3, <1>6, <1>9, <2>1, <2>3
  <2> QED
    BY <1>4, <2>2, <2>3
<1>10. \A k \in K \cup {i} : \E x \in 1 .. n + 1 : new[x] = k
  <2>1. n + 1 \in 1 .. n + 1
    BY <1>2
  <2> QED
    BY <1>3, <1>5, <1>6, <2>1
<1>11. Picks(all, new, src, K \cup {i})
  BY <1>2, <1>7, <1>8, <1>9, <1>10 DEF Picks
<1> QED
  BY <1>1, <1>11

(* Nothing is picked where there is nothing.                                *)
LEMMA PickNone ==
    ASSUME NEW src
    PROVE  \E pos : Picks(<<>>, pos, src, {})
<1> DEFINE none == [x \in 1 .. Len(<<>>) |-> x]
<1>1. Picks(<<>>, none, src, {})
  BY DEF Picks
<1> QED
  BY <1>1

Batch(E) == [row : E, is_log_batch : BOOLEAN]

RowAt(stream) == [i \in 1 .. Len(stream) |-> stream[i].row]

(* The slots the reconciliation has recorded when it has passed k rows.     *)
ReconcileSeen(stream, now, k) ==
    {stream[j].row.slot : j \in {i \in 1 .. k : Remembered(stream[i], now)}}

(* The rows among the first k that it has written.                          *)
Written(stream, now, k) ==
    {i \in 1 .. k : is_valid_action(ReconcileSeen(stream, now, i - 1), stream[i].row, now)}

(* The positions of the rows that FirstRows keeps of the first k.           *)
FirstAt(stream, passing, k) ==
    {i \in 1 .. k : /\ stream[i].row \in passing
                    /\ \A j \in 1 .. i - 1 : stream[j].row \in passing =>
                         stream[j].row.slot # stream[i].row.slot}

FirstStep(acc, entry, passing) ==
    IF entry.row \in passing THEN FirstOfSlot(acc, entry.row) ELSE acc

OnlyAt(rows, set, k) == {i \in 1 .. k : rows[i] \in set}

(* Only returns the rows of the set, each at a position of the file, in     *)
(* their order.                                                             *)
LEMMA OnlyPicks ==
    ASSUME WellOrdered
    PROVE  \A E : \A rows \in Seq(E) : \A set :
             /\ Only(rows, set) \in Seq(E)
             /\ \E pos : Picks(Only(rows, set), pos, rows, OnlyAt(rows, set, Len(rows)))
<1> SUFFICES ASSUME NEW E, NEW rows \in Seq(E), NEW set
             PROVE  /\ Only(rows, set) \in Seq(E)
                    /\ \E pos : Picks(Only(rows, set), pos, rows, OnlyAt(rows, set, Len(rows)))
  BY Zenon
<1> DEFINE n == Len(rows)
<1>1. n \in Nat
  OBVIOUS
<1>2. PICK f : /\ f[0] = <<>>
               /\ \A i \in 1 .. n : f[i] = OnlyStep(f[i - 1], rows[i], set)
               /\ Only(rows, set) = f[n]
  BY Zenon, OnlySteps
<1> DEFINE Right(k, acc) == /\ acc \in Seq(E)
                            /\ \E pos : Picks(acc, pos, rows, OnlyAt(rows, set, k))
           S == {k \in 0 .. n : Right(k, f[k])}
<1>3. 0 \in S
  <2>1. PICK none : none = <<>>
    OBVIOUS
  <2>2. none \in Seq(E) /\ f[0] = none
    BY <1>2, <2>1
  <2>3. OnlyAt(rows, set, 0) = {}
    BY DEF OnlyAt
  <2>4. \E pos : Picks(none, pos, rows, {})
    BY Zenon, <2>1, PickNone
  <2>5. Right(0, none)
    BY Zenon, <2>2, <2>3, <2>4
  <2> QED
    BY <1>1, <2>2, <2>5
<1>4. ASSUME NEW k \in 1 .. n, k - 1 \in S PROVE k \in S
  <2> DEFINE K == OnlyAt(rows, set, k - 1)
  <2>1. PICK acc : acc = f[k - 1]
    OBVIOUS
  <2>2. acc \in Seq(E) /\ \E pos : Picks(acc, pos, rows, K)
    BY <1>4, <2>1
  <2>3. K \in SUBSET Nat /\ (\A i \in K : i < k) /\ k \in Nat /\ k \in 0 .. n /\ rows[k] \in E
    BY <1>1 DEF OnlyAt
  <2>a. \A i \in Nat : i \in 1 .. k <=> i \in 1 .. k - 1 \/ i = k
    BY <1>1
  <2>4. OnlyAt(rows, set, k) = K \cup {i \in {k} : rows[k] \in set}
    BY <2>a DEF OnlyAt
  <2>5. f[k] = OnlyStep(acc, rows[k], set)
    BY <1>2, <2>1
  <2>6. CASE rows[k] \in set
    <3>1. f[k] = Append(acc, rows[k]) /\ OnlyAt(rows, set, k) = K \cup {k}
      BY <2>4, <2>5, <2>6 DEF OnlyStep
    <3>2. \E pos : Picks(Append(acc, rows[k]), pos, rows, K \cup {k})
      <4> HIDE DEF K
      <4> QED
        BY Zenon, <2>2, <2>3, PickOne
    <3>3. Append(acc, rows[k]) \in Seq(E)
      BY <2>2, <2>3
    <3> QED
      BY Zenon, <2>3, <3>1, <3>2, <3>3
  <2>7. CASE rows[k] \notin set
    <3>1. f[k] = acc /\ OnlyAt(rows, set, k) = K
      BY <2>4, <2>5, <2>7 DEF OnlyStep
    <3> QED
      BY <2>2, <2>3, <3>1
  <2> QED
    BY <2>6, <2>7
<1>5. n \in S
  <2> HIDE DEF S
  <2>1. \A k \in 0 .. n : k \in S
    BY Zenon, <1>1, <1>3, <1>4, UpTo
  <2> QED
    BY <1>1, <2>1
<1> QED
  BY <1>2, <1>5

----------------------------------------------------------------------------
(* What a file of the log must keep of the rows it stands for.              *)

(* No compacted file is written, or none when a tombstone has expired.      *)
TombstonesOutlive == Compactions = {} \/ MaxClock < FileRetention

(* Other writers do not mix the two checkpoint formats, so that no hint     *)
(* denies the sidecars of a checkpoint that has them.                       *)
SidecarsRead == ~({"v1", "v2"} \subseteq ForeignFormats)

Slots == Files \cup Apps \cup Domains \cup {"protocol", "metaData"}

(* The type of an action says what its slot is.                             *)
Fits(row) ==
    /\ IsFileAction(row) <=> row.slot \in Files
    /\ row.type = "txn" <=> row.slot \in Apps
    /\ row.type = "domainMetadata" <=> row.slot \in Domains
    /\ row.type = "protocol" <=> row.slot = "protocol"
    /\ row.type = "metaData" <=> row.slot = "metaData"

AnyRow == [type : {"add", "remove", "txn", "domainMetadata", "protocol", "metaData"},
           slot : Slots, version : Nat, stamp : Nat \cup {NoTimestamp}, flag : BOOLEAN]

Row == {row \in AnyRow : Fits(row)}

(* A part of the history.                                                   *)
RowSet(X) == X \subseteq Row /\ \E n \in Nat : \A row \in X : row.version <= n

(* File actions whose older actions can never come back.                    *)
Steady(row) == IsFileAction(row) /\ TombstonesOutlive

(* rows have the newest of X on each slot: all that must be there, and of   *)
(* the files nothing older.                                                 *)
Holds(rows, X, must) ==
    /\ rows \in Seq(Row)
    /\ \A i \in 1 .. Len(rows) : rows[i] \in X
    /\ \A i, j \in 1 .. Len(rows) : rows[i].slot = rows[j].slot => i = j
    /\ \A row \in must : IsNewest(row, X) => \E i \in 1 .. Len(rows) : rows[i] = row
    /\ \A i \in 1 .. Len(rows) : Steady(rows[i]) => IsNewest(rows[i], X)

(* A stream has the rows of a slot newest first, and what must be there; on *)
(* a file it starts with the newest.                                        *)
Replays(s, X, must) ==
    /\ s \in Seq(Batch(Row))
    /\ \A i \in 1 .. Len(s) : s[i].row \in X
    /\ \A i, j \in 1 .. Len(s) : i < j /\ s[i].row.slot = s[j].row.slot =>
         s[i].is_log_batch /\ s[j].row.version < s[i].row.version
    /\ \A row \in must : IsNewest(row, X) => \E i \in 1 .. Len(s) : s[i].row = row
    /\ \A i \in 1 .. Len(s) : Steady(s[i].row) =>
         \E j \in 1 .. i : s[j].row.slot = s[i].row.slot /\ IsNewest(s[j].row, X)

(* A row of the log has a type, a slot that fits it and a version.          *)
LEMMA RowType ==
    ASSUME NEW row \in Row
    PROVE  row \in AnyRow /\ Fits(row) /\ row.version \in Nat
  BY DEF Row, AnyRow

(* Every slot has a newest row.                                             *)
LEMMA NewestExists ==
    ASSUME WellOrdered, NEW X, RowSet(X), NEW s \in X
    PROVE  \E row \in X : row.slot = s.slot /\ IsNewest(row, X)
<1> DEFINE V == {row.version : row \in {r \in X : r.slot = s.slot}}
<1>1. PICK n \in Nat : \A row \in X : row.version <= n
  BY DEF RowSet
<1>2. \A row \in X : row.version \in Nat
  BY RowType DEF RowSet
<1>3. V \in SUBSET Nat /\ V # {} /\ \A v \in V : v <= n
  BY <1>1, <1>2
<1>4. PICK v \in V : \A w \in V : w <= v
  <2> HIDE DEF V
  <2> QED
    BY Zenon, <1>3, GreatestElement
<1>5. PICK row \in X : row.slot = s.slot /\ row.version = v
  BY <1>4
<1>6. \A r \in X : r.slot = row.slot => r.version <= row.version
  BY <1>4, <1>5
<1> QED
  BY <1>5, <1>6 DEF IsNewest

----------------------------------------------------------------------------

(* A reconciliation keeps of a stream what a file of the log must keep.     *)
LEMMA Reconciled ==
    ASSUME WellOrdered
    PROVE  \A s, X, must, now :
             Replays(s, X, must) /\ (\A row \in must : ~Suppressed(row, now))
               => Holds(Reconcile(s, now), X, must)
       (* The visitor of a reconciliation, step by step.                           *)
<1>ReconcileSteps.
    ASSUME NEW E, NEW stream \in Seq(Batch(E)), NEW now
    PROVE  \E f : /\ f[0] = [seen |-> {}, rows |-> <<>>]
                  /\ \A i \in 1 .. Len(stream) : f[i] = ReconcileRow(f[i - 1], stream[i], now)
                  /\ Reconcile(stream, now) = f[Len(stream)].rows
  <2> DEFINE n == Len(stream)
             Acc == [seen : SUBSET {stream[i].row.slot : i \in 1 .. n}, rows : Seq(E)]
             base == [seen |-> {}, rows |-> <<>>]
             step == [i \in 1 .. n |-> [a \in Acc |-> ReconcileRow(a, stream[i], now)]]
  <2>1. n \in Nat /\ base \in Acc
    OBVIOUS
  <2>2. ASSUME NEW a \in Acc, NEW i \in 1 .. n PROVE ReconcileRow(a, stream[i], now) \in Acc
    <3>a. stream[i] \in Batch(E)
      OBVIOUS
    <3>1. stream[i].row \in E
      BY <3>a DEF Batch
    <3>2. PICK rows \in Seq(E) : rows = a.rows
      OBVIOUS
    <3>3. Append(rows, stream[i].row) \in Seq(E)
      BY <3>1, <3>2
    <3>4. PICK seen \in SUBSET {stream[j].row.slot : j \in 1 .. n} :
            seen = a.seen \cup {s \in {stream[i].row.slot} : Remembered(stream[i], now)}
      BY Zenon
    <3>5. PICK new \in Seq(E) :
            new = IF is_valid_action(a.seen, stream[i].row, now)
                  THEN Append(a.rows, stream[i].row) ELSE a.rows
      BY Zenon, <3>2, <3>3
    <3>6. ReconcileRow(a, stream[i], now) = [seen |-> seen, rows |-> new]
      BY <3>4, <3>5 DEF ReconcileRow
    <3> QED
      BY <3>4, <3>5, <3>6
  <2>3. step \in [1 .. n -> [Acc -> Acc]]
    <3> HIDE DEF Acc
    <3> QED
      BY <2>2
  <2>4. PICK f : Iterates(f, n, Acc, base, step)
    <3> HIDE DEF Acc, n, base, step
    <3> QED
      BY <2>1, <2>3, RecursionExists
  <2>5. f \in [0 .. n -> Acc] /\ f[0] = base /\ \A i \in 1 .. n : f[i] = step[i][f[i - 1]]
    <3> HIDE DEF Acc, n, base, step
    <3> QED
      BY <2>4 DEF Iterates
  <2>6. ASSUME NEW i \in 1 .. n PROVE f[i] = ReconcileRow(f[i - 1], stream[i], now)
    <3>1. i - 1 \in 0 .. n
      OBVIOUS
    <3> HIDE DEF Acc
    <3>2. f[i - 1] \in Acc
      BY <2>5, <3>1
    <3> QED
      BY Zenon, <2>5, <3>2
  <2>7. f = [i \in 0 .. n |-> IF i = 0 THEN base ELSE ReconcileRow(f[i - 1], stream[i], now)]
    <3> HIDE DEF Acc, base, n
    <3> QED
      BY <2>1, <2>5, <2>6
  <2>8. PICK g : /\ g = [i \in 0 .. n |-> IF i = 0 THEN base ELSE ReconcileRow(g[i - 1], stream[i], now)]
                 /\ Reconcile(stream, now) = g[n].rows
    BY Zenon, <2>7 DEF Reconcile, Visit
  <2>9. g[0] = base /\ \A i \in 1 .. n : g[i] = ReconcileRow(g[i - 1], stream[i], now)
    <3> HIDE DEF base, Acc, n
    <3> QED
      BY <2>1, <2>8
  <2> QED
    BY Zenon, <2>8, <2>9
(* A reconciliation writes the rows whose slot it has not recorded before   *)
(* and that have not expired.                                               *)
<1>ReconcileWrites.
    ASSUME NEW E, NEW stream \in Seq(Batch(E)), NEW now
    PROVE  /\ Reconcile(stream, now) \in Seq(E)
           /\ \E pos : Picks(Reconcile(stream, now), pos, RowAt(stream),
                             Written(stream, now, Len(stream)))
  <2> DEFINE n == Len(stream)
  <2>1. n \in Nat
    OBVIOUS
  <2>2. PICK f : /\ f[0] = [seen |-> {}, rows |-> <<>>]
                 /\ \A i \in 1 .. n : f[i] = ReconcileRow(f[i - 1], stream[i], now)
                 /\ Reconcile(stream, now) = f[n].rows
    BY <1>ReconcileSteps
  <2> DEFINE Right(k, seen, rows) ==
               /\ seen = ReconcileSeen(stream, now, k)
               /\ rows \in Seq(E)
               /\ \E pos : Picks(rows, pos, RowAt(stream), Written(stream, now, k))
             S == {k \in 0 .. n : Right(k, f[k].seen, f[k].rows)}
  <2>3. 0 \in S
    <3>1. ReconcileSeen(stream, now, 0) = {} /\ Written(stream, now, 0) = {}
      BY DEF ReconcileSeen, Written
    <3>2. f[0].seen = {} /\ f[0].rows = <<>>
      BY <2>2
    <3>3. PICK none : none = <<>>
      OBVIOUS
    <3>4. none \in Seq(E)
      BY <3>3
    <3>5. \E pos : Picks(none, pos, RowAt(stream), {})
      BY <3>3, PickNone
    <3>6. f[0].rows = none
      BY <3>2, <3>3
    <3>7. Right(0, f[0].seen, none)
      BY Zenon, <3>1, <3>2, <3>4, <3>5
    <3> QED
      BY <2>1, <3>6, <3>7
  <2>4. ASSUME NEW k \in 1 .. n, k - 1 \in S PROVE k \in S
    <3> DEFINE e == stream[k]
               seen == f[k - 1].seen
               rows == f[k - 1].rows
               W == Written(stream, now, k - 1)
    <3>1. Right(k - 1, seen, rows)
      BY <2>4
    <3>2. \A i \in Nat : i \in 1 .. k <=> i \in 1 .. k - 1 \/ i = k
      BY <2>1
    <3>3. ReconcileSeen(stream, now, k) = seen \cup {s \in {e.row.slot} : Remembered(e, now)}
      BY <3>1, <3>2 DEF ReconcileSeen
    <3>4. Written(stream, now, k) = W \cup {i \in {k} : is_valid_action(seen, e.row, now)}
      BY <3>1, <3>2 DEF Written
    <3>5. e \in Batch(E) /\ k \in 1 .. Len(stream)
      OBVIOUS
    <3>6. e.row \in E /\ RowAt(stream)[k] = e.row
      BY <3>5 DEF Batch, RowAt
    <3>7. W \in SUBSET Nat /\ \A i \in W : i < k
      BY <2>1 DEF Written
    <3>8. PICK pos : Picks(rows, pos, RowAt(stream), W)
      BY <3>1
    <3>9. f[k] = ReconcileRow(f[k - 1], e, now)
      BY <2>2
    <3>a. /\ f[k].seen = seen \cup {s \in {e.row.slot} : Remembered(e, now)}
          /\ f[k].rows = IF is_valid_action(seen, e.row, now) THEN Append(rows, e.row) ELSE rows
      BY <3>9 DEF ReconcileRow
    <3>b. k \in Nat /\ k \in 0 .. n /\ rows \in Seq(E)
      BY <2>1, <3>1
    <3>c. SUFFICES Right(k, f[k].seen, f[k].rows)
      BY <3>b
    <3>d. f[k].seen = ReconcileSeen(stream, now, k)
      BY <3>3, <3>a
    <3> HIDE DEF W, seen, rows, e
    <3>10. CASE is_valid_action(seen, e.row, now)
      <4>1. Written(stream, now, k) = W \cup {k}
        BY <3>4, <3>10
      <4>2. f[k].rows = Append(rows, RowAt(stream)[k])
        BY <3>6, <3>a, <3>10
      <4>3. \E new : Picks(Append(rows, RowAt(stream)[k]), new, RowAt(stream), W \cup {k})
        BY Zenon, <3>6, <3>7, <3>8, <3>b, PickOne
      <4>4. Append(rows, RowAt(stream)[k]) \in Seq(E)
        BY <3>6, <3>b
      <4> QED
        BY <3>d, <4>1, <4>2, <4>3, <4>4
    <3>11. CASE ~is_valid_action(seen, e.row, now)
      <4>1. Written(stream, now, k) = W
        BY <3>4, <3>11
      <4>2. f[k].rows = rows
        BY <3>a, <3>11
      <4> QED
        BY <3>8, <3>b, <3>d, <4>1, <4>2
    <3> QED
      BY <3>10, <3>11
  <2>5. n \in S
    <3> HIDE DEF S
    <3>1. \A k \in 0 .. n : k \in S
      BY Zenon, <2>1, <2>3, <2>4, UpTo
    <3> QED
      BY <2>1, <3>1
  <2> QED
    BY <2>2, <2>5
<1> SUFFICES ASSUME NEW s, NEW X, NEW must, NEW now, Replays(s, X, must),
                    \A row \in must : ~Suppressed(row, now)
             PROVE  Holds(Reconcile(s, now), X, must)
  OBVIOUS
<1> DEFINE W == Written(s, now, Len(s))
<1>1. s \in Seq(Batch(Row)) /\ Len(s) \in Nat
  <2>1. s \in Seq(Batch(Row))
    BY Zenon DEF Replays
  <2> QED
    BY ONLY <2>1
<1>2. PICK rows \in Seq(Row) : rows = Reconcile(s, now)
  BY <1>1, <1>ReconcileWrites
<1>3. PICK pos : Picks(rows, pos, RowAt(s), W)
  BY <1>1, <1>2, <1>ReconcileWrites
<1>4. ASSUME NEW i \in W
      PROVE  /\ i \in 1 .. Len(s) /\ ~Suppressed(s[i].row, now)
             /\ \A j \in 1 .. i - 1 : Remembered(s[j], now) => s[j].row.slot # s[i].row.slot
  BY <1>1 DEF Written, is_valid_action, ReconcileSeen
<1>5. ASSUME NEW i \in 1 .. Len(s), ~Suppressed(s[i].row, now),
             \A j \in 1 .. i - 1 : s[j].row.slot # s[i].row.slot
      PROVE  i \in W
  BY <1>1, <1>5 DEF Written, is_valid_action, ReconcileSeen
<1> HIDE DEF W
<1>6. \A x \in 1 .. Len(rows) : pos[x] \in W /\ rows[x] = s[pos[x]].row
  BY Zenon, <1>3, <1>4 DEF Picks, RowAt
<1>7. \A x, y \in 1 .. Len(rows) : x < y => pos[x] < pos[y]
  BY <1>3 DEF Picks
<1>8. \A i \in W : \E x \in 1 .. Len(rows) : pos[x] = i
  BY <1>3 DEF Picks
<1>9. ASSUME NEW x \in 1 .. Len(rows) PROVE rows[x] \in X
  BY <1>4, <1>6 DEF Replays
<1>10. ASSUME NEW i \in W, NEW j \in W, i < j PROVE s[i].row.slot # s[j].row.slot
  <2> SUFFICES ASSUME s[i].row.slot = s[j].row.slot PROVE FALSE
    OBVIOUS
  <2>1. i \in 1 .. Len(s) /\ j \in 1 .. Len(s) /\ i \in 1 .. j - 1
    BY <1>1, <1>4, <1>10
  <2>2. s[i].is_log_batch
    BY <1>10, <2>1 DEF Replays
  <2>3. Remembered(s[i], now)
    BY <1>4, <2>2 DEF Remembered
  <2> QED
    BY <1>4, <2>1, <2>3
<1>11. ASSUME NEW x \in 1 .. Len(rows), NEW y \in 1 .. Len(rows), rows[x].slot = rows[y].slot
       PROVE  x = y
  <2>1. x \in Int /\ y \in Int
    OBVIOUS
  <2>2. ~(x < y) /\ ~(y < x)
    BY <1>6, <1>7, <1>10, <1>11
  <2> QED
    BY <2>1, <2>2
<1>12. ASSUME NEW row \in must, IsNewest(row, X) PROVE \E x \in 1 .. Len(rows) : rows[x] = row
  <2>1. PICK i \in 1 .. Len(s) : s[i].row = row
    BY <1>12 DEF Replays
  <2>2. ASSUME NEW j \in 1 .. i - 1 PROVE s[j].row.slot # s[i].row.slot
    <3> SUFFICES ASSUME s[j].row.slot = s[i].row.slot PROVE FALSE
      OBVIOUS
    <3>1. j \in 1 .. Len(s) /\ j < i
      BY <1>1
    <3>2. s[i].row.version < s[j].row.version /\ s[j].row \in X /\ s[i].row \in X
      BY <3>1 DEF Replays
    <3>3. s[j].row.version <= s[i].row.version
      BY <1>12, <2>1, <3>2 DEF IsNewest
    <3>4. s[j] \in Batch(Row) /\ s[i] \in Batch(Row)
      BY <1>1, <3>1
    <3>5. s[j].row \in Row /\ s[i].row \in Row
      BY <3>4 DEF Batch
    <3>6. s[j].row.version \in Nat /\ s[i].row.version \in Nat
      BY <3>5, RowType
    <3> QED
      BY <3>2, <3>3, <3>6
  <2>3. i \in W
    BY <1>5, <2>1, <2>2
  <2> QED
    BY <1>6, <1>8, <2>1, <2>3
<1>13. ASSUME NEW x \in 1 .. Len(rows), Steady(rows[x]) PROVE IsNewest(rows[x], X)
  <2>1. PICK i \in W : pos[x] = i /\ rows[x] = s[i].row
    BY <1>6
  <2>2. i \in 1 .. Len(s) /\ i \in Nat
    BY <1>4
  <2>3. PICK j \in 1 .. i : s[j].row.slot = s[i].row.slot /\ IsNewest(s[j].row, X)
    BY <1>13, <2>1, <2>2 DEF Replays
  <2>4. ASSUME j # i PROVE FALSE
    <3>1. j \in 1 .. i - 1 /\ j \in 1 .. Len(s) /\ j < i
      BY <1>1, <2>2, <2>4
    <3>2. s[j].is_log_batch
      BY <2>2, <2>3, <3>1 DEF Replays
    <3>3. s[j] \in Batch(Row) /\ s[i] \in Batch(Row)
      BY <1>1, <2>2, <3>1
    <3>4. Fits(s[j].row) /\ Fits(s[i].row)
      BY <3>3, RowType DEF Batch
    <3>5. IsFileAction(s[j].row)
      BY <1>13, <2>1, <2>3, <3>4 DEF Steady, Fits
    <3>6. Remembered(s[j], now)
      BY <3>2, <3>5 DEF Remembered
    <3> QED
      BY <1>4, <2>3, <3>1, <3>6
  <2> QED
    BY <2>1, <2>3, <2>4
<1> QED
  BY <1>2, <1>9, <1>11, <1>12, <1>13 DEF Holds

----------------------------------------------------------------------------
(* Streams are put together from files.                                     *)

(* A file that stands for the rows Y; if other files follow, it is a log    *)
(* file and has the newest of the file actions whether they must be there   *)
(* or not.                                                                  *)
Layer(seq, Y, must, below) ==
    /\ seq \in Seq(Batch(Row))
    /\ Holds(RowAt(seq), Y, {row \in Y : row \in must \/ (below > 0 /\ Steady(row))})
    /\ below > 0 => \A x \in 1 .. Len(seq) : seq[x].is_log_batch

(* The files stand for X, the newest versions first.                        *)
Layers(seqs, Y, X, must) ==
    /\ seqs \in Seq(Seq(Batch(Row)))
    /\ RowSet(X) /\ must \subseteq X
    /\ \A k \in 1 .. Len(seqs) : Y[k] \subseteq X
    /\ \A row \in X : \E k \in 1 .. Len(seqs) : row \in Y[k]
    /\ \A k, l \in 1 .. Len(seqs) : k < l =>
         \A a \in Y[k], b \in Y[l] : b.version < a.version
    /\ \A k \in 1 .. Len(seqs) : Layer(seqs[k], Y[k], must, Len(seqs) - k)

----------------------------------------------------------------------------
(* The commits, and the rows of a range of versions.                        *)

LogOK(cs) ==
    /\ cs \in Seq(Seq(Row)) /\ Len(cs) \in 1 .. MaxVersion + 1
    /\ \A i \in 1 .. Len(cs) : \A x \in 1 .. Len(cs[i]) : cs[i][x].version = i - 1
    /\ \A i \in 1 .. Len(cs) : \A x, y \in 1 .. Len(cs[i]) :
         cs[i][x].slot = cs[i][y].slot => x = y

Part(cs, lo, hi) == UNION {Range(cs[i + 1]) : i \in lo .. hi}

(* The rows of a range of versions are those of its commit files, and say   *)
(* which.                                                                   *)
LEMMA PartRow ==
    ASSUME NEW cs, LogOK(cs), NEW lo \in Nat, NEW hi \in Int, hi < Len(cs)
    PROVE  /\ \A row \in Part(cs, lo, hi) :
                /\ row \in Row /\ row.version \in lo .. hi
                /\ \E x \in 1 .. Len(cs[row.version + 1]) : row = cs[row.version + 1][x]
           /\ \A i \in lo .. hi : \A x \in 1 .. Len(cs[i + 1]) : cs[i + 1][x] \in Part(cs, lo, hi)
<1>1. cs \in Seq(Seq(Row)) /\ Len(cs) \in Nat
  BY DEF LogOK
<1>2. ASSUME NEW i \in lo .. hi
      PROVE  /\ i \in Nat /\ i + 1 \in 1 .. Len(cs) /\ cs[i + 1] \in Seq(Row)
             /\ Range(cs[i + 1]) = {cs[i + 1][x] : x \in 1 .. Len(cs[i + 1])}
  <2>1. i \in Nat /\ i + 1 \in 1 .. Len(cs)
    BY <1>1
  <2>2. cs[i + 1] \in Seq(Row)
    BY <1>1, <2>1
  <2> QED
    BY <2>1, <2>2 DEF Range
<1>3. \A row : row \in Part(cs, lo, hi) <=>
        \E i \in lo .. hi : \E x \in 1 .. Len(cs[i + 1]) : row = cs[i + 1][x]
  <2> SUFFICES ASSUME NEW row
               PROVE  row \in Part(cs, lo, hi) <=>
                        \E i \in lo .. hi : \E x \in 1 .. Len(cs[i + 1]) : row = cs[i + 1][x]
    OBVIOUS
  <2>1. row \in Part(cs, lo, hi) <=> \E i \in lo .. hi : row \in Range(cs[i + 1])
    BY DEF Part
  <2> QED
    BY Zenon, <1>2, <2>1
<1>4. ASSUME NEW i \in lo .. hi, NEW x \in 1 .. Len(cs[i + 1])
      PROVE  cs[i + 1][x] \in Row /\ cs[i + 1][x].version = i
  <2>1. i \in Nat /\ i + 1 \in 1 .. Len(cs) /\ cs[i + 1] \in Seq(Row)
    BY <1>2
  <2>2. cs[i + 1][x].version = i + 1 - 1
    BY <2>1 DEF LogOK
  <2> QED
    BY <2>1, <2>2
<1>5. ASSUME NEW row \in Part(cs, lo, hi)
      PROVE  /\ row \in Row /\ row.version \in lo .. hi
             /\ \E x \in 1 .. Len(cs[row.version + 1]) : row = cs[row.version + 1][x]
  <2>1. PICK i \in lo .. hi : \E x \in 1 .. Len(cs[i + 1]) : row = cs[i + 1][x]
    BY <1>3
  <2>2. PICK x \in 1 .. Len(cs[i + 1]) : row = cs[i + 1][x]
    BY <2>1
  <2>3. row \in Row /\ row.version = i
    BY <1>4, <2>2
  <2> QED
    BY <2>2, <2>3
<1>6. ASSUME NEW i \in lo .. hi, NEW x \in 1 .. Len(cs[i + 1])
      PROVE  cs[i + 1][x] \in Part(cs, lo, hi)
  BY <1>3
<1> QED
  BY Zenon, <1>5, <1>6

(* The actions of a range are a part of the history.                        *)
LEMMA PartSet ==
    ASSUME NEW cs, LogOK(cs), NEW lo \in Nat, NEW hi \in Int, hi < Len(cs)
    PROVE  RowSet(Part(cs, lo, hi))
<1>1. ASSUME NEW row \in Part(cs, lo, hi) PROVE row \in Row /\ row.version \in lo .. hi
  BY PartRow
<1>2. PICK n \in Nat : n = IF hi < 0 THEN 0 ELSE hi
  OBVIOUS
<1>3. \A row \in Part(cs, lo, hi) : row.version <= n
  BY <1>1, <1>2
<1> QED
  BY <1>1, <1>3 DEF RowSet

(* A commit file has all of its version.                                    *)
LEMMA CommitHolds ==
    ASSUME NEW cs, LogOK(cs), NEW v \in Nat, v < Len(cs), NEW must,
           must \subseteq Part(cs, v, v)
    PROVE  Holds(cs[v + 1], Part(cs, v, v), must)
<1> DEFINE X == Part(cs, v, v)
<1>1. cs \in Seq(Seq(Row)) /\ v + 1 \in 1 .. Len(cs) /\ v \in Int
  BY DEF LogOK
<1>2. PICK rows \in Seq(Row) : rows = cs[v + 1]
  BY <1>1
<1>3. ASSUME NEW row \in X PROVE row.version = v /\ \E x \in 1 .. Len(rows) : rows[x] = row
  <2>1. row.version \in v .. v
    BY <1>1, PartRow
  <2>2. row.version = v
    BY <2>1
  <2>3. \E x \in 1 .. Len(cs[row.version + 1]) : row = cs[row.version + 1][x]
    BY Zenon, <1>1, PartRow
  <2> QED
    BY <1>2, <2>2, <2>3
<1>4. ASSUME NEW x \in 1 .. Len(rows) PROVE rows[x] \in X
  <2>1. v \in v .. v
    OBVIOUS
  <2> QED
    BY <1>1, <1>2, <2>1, PartRow
<1>5. \A x, y \in 1 .. Len(rows) : rows[x].slot = rows[y].slot => x = y
  BY Zenon, <1>1, <1>2 DEF LogOK
<1>6. \A row \in X : IsNewest(row, X)
  BY <1>3 DEF IsNewest
<1> QED
  BY <1>2, <1>3, <1>4, <1>5, <1>6 DEF Holds

----------------------------------------------------------------------------
(* A cover: ranges that follow one another, newest first.                   *)

Chain(cover, first, v) ==
    /\ cover \in Seq(Nat \X Nat)
    /\ \A i \in 1 .. Len(cover) : cover[i][1] <= cover[i][2]
    /\ \A i \in 1 .. Len(cover) - 1 : cover[i][1] = cover[i + 1][2] + 1
    /\ IF Len(cover) = 0 THEN first = v + 1
       ELSE cover[1][2] = v /\ cover[Len(cover)][1] = first

----------------------------------------------------------------------------
(* What a segment is read from.                                             *)

(* FromLog and FromCheckpoint keep the rows and mark where they come from.  *)
LEMMA BatchesOf ==
    ASSUME NEW rows \in Seq(Row)
    PROVE  /\ FromLog(rows) \in Seq(Batch(Row)) /\ RowAt(FromLog(rows)) = rows
           /\ FromCheckpoint(rows) \in Seq(Batch(Row)) /\ RowAt(FromCheckpoint(rows)) = rows
           /\ \A x \in 1 .. Len(FromLog(rows)) : FromLog(rows)[x].is_log_batch
<1>1. DOMAIN rows = 1 .. Len(rows) /\ Len(rows) \in Nat /\ \A x \in 1 .. Len(rows) : rows[x] \in Row
  OBVIOUS
<1>2. PICK log : log = FromLog(rows)
  OBVIOUS
<1>3. log = [x \in 1 .. Len(rows) |-> [row |-> rows[x], is_log_batch |-> TRUE]]
  BY <1>1, <1>2 DEF FromLog
<1>4. \A x \in 1 .. Len(rows) : [row |-> rows[x], is_log_batch |-> TRUE] \in Batch(Row)
  BY <1>1 DEF Batch
<1>5. log \in Seq(Batch(Row)) /\ Len(log) = Len(rows)
  BY <1>1, <1>3, <1>4
<1>6. \A x \in 1 .. Len(rows) : log[x].row = rows[x] /\ log[x].is_log_batch
  BY <1>3
<1>7. RowAt(log) = rows
  BY <1>1, <1>5, <1>6 DEF RowAt
<1>8. PICK cp : cp = FromCheckpoint(rows)
  OBVIOUS
<1>9. cp = [x \in 1 .. Len(rows) |-> [row |-> rows[x], is_log_batch |-> FALSE]]
  BY <1>1, <1>8 DEF FromCheckpoint
<1>10. \A x \in 1 .. Len(rows) : [row |-> rows[x], is_log_batch |-> FALSE] \in Batch(Row)
  BY <1>1 DEF Batch
<1>11. cp \in Seq(Batch(Row)) /\ Len(cp) = Len(rows)
  BY <1>1, <1>9, <1>10
<1>12. \A x \in 1 .. Len(rows) : cp[x].row = rows[x]
  BY <1>9
<1>13. RowAt(cp) = rows
  BY <1>1, <1>11, <1>12 DEF RowAt
<1> QED
  BY <1>2, <1>5, <1>6, <1>7, <1>8, <1>11, <1>13

(* Log files for the versions from first to v, and a checkpoint of the ones *)
(* below.                                                                   *)
ReadsFrom(cs, low, first, v, cover, files, cp, must) ==
    /\ LogOK(cs) /\ low \in Nat /\ first \in Nat /\ low <= first
    /\ v \in Int /\ v < Len(cs) /\ first <= v + 1
    /\ Chain(cover, first, v) /\ must \subseteq Part(cs, low, v)
    /\ \A k \in 1 .. Len(cover) :
         LET X == Part(cs, cover[k][1], cover[k][2])
         IN Holds(files[k], X, {row \in X : row \in must \/ Steady(row)})
    /\ Holds(cp, Part(cs, low, first - 1), {row \in Part(cs, low, first - 1) : row \in must})

(* The parts a cover and a checkpoint stand for are stacked.                *)
PartAt(cs, low, first, cover) ==
    [k \in 1 .. Len(cover) + 1 |->
       IF k = Len(cover) + 1 THEN Part(cs, low, first - 1)
       ELSE Part(cs, cover[k][1], cover[k][2])]

Stacked(Y, n, X) ==
    /\ \A k \in 1 .. n : Y[k] \subseteq X
    /\ \A row \in X : \E k \in 1 .. n : row \in Y[k]
    /\ \A k, l \in 1 .. n : k < l => \A a \in Y[k], b \in Y[l] : b.version < a.version

(* LogSegment::read_actions of such files.                                  *)
StreamOf(cover, files, cp) ==
    FlattenSeq([k \in 1 .. Len(cover) |-> FromLog(files[k])]) \o FromCheckpoint(cp)

(* The stream of a cover and a checkpoint whose files hold what they must   *)
(* replays the log: on each slot the newest action comes first.             *)
LEMMA ReadReplays ==
    ASSUME WellOrdered
    PROVE  \A cs, low, first, v, cover, files, cp, must :
             ReadsFrom(cs, low, first, v, cover, files, cp, must)
               => Replays(StreamOf(cover, files, cp), Part(cs, low, v), must)
<1>LayerRow.
    ASSUME NEW seq, NEW Y, NEW must, NEW below, Layer(seq, Y, must, below),
           NEW x \in 1 .. Len(seq)
    PROVE  /\ seq[x].row \in Y /\ seq[x].row \in Row
           /\ below > 0 => seq[x].is_log_batch
           /\ Steady(seq[x].row) => IsNewest(seq[x].row, Y)
           /\ \A y \in 1 .. Len(seq) : seq[x].row.slot = seq[y].row.slot => x = y
  <2> USE <1>LayerRow
  <2>1. seq \in Seq(Batch(Row)) /\ Len(seq) \in Nat /\ seq[x] \in Batch(Row)
    BY DEF Layer
  <2>2. Len(RowAt(seq)) = Len(seq) /\ \A y \in 1 .. Len(seq) : RowAt(seq)[y] = seq[y].row
    BY <2>1 DEF RowAt
  <2>3. seq[x].row \in Row
    BY <2>1 DEF Batch
  <2> QED
    BY <2>2, <2>3 DEF Layer, Holds
<1>LayerHas.
    ASSUME NEW seq, NEW Y, NEW must, NEW below, Layer(seq, Y, must, below),
           NEW row \in Y, IsNewest(row, Y), row \in must \/ (below > 0 /\ Steady(row))
    PROVE  \E x \in 1 .. Len(seq) : seq[x].row = row
  <2> USE <1>LayerHas
  <2>1. seq \in Seq(Batch(Row)) /\ Len(seq) \in Nat
    BY DEF Layer
  <2>2. Len(RowAt(seq)) = Len(seq) /\ \A y \in 1 .. Len(seq) : RowAt(seq)[y] = seq[y].row
    BY <2>1 DEF RowAt
  <2> QED
    BY <2>2 DEF Layer, Holds
(* The stream of all the files replays what they stand for.                 *)
<1>Assembled.
    ASSUME NEW seqs, NEW Y, NEW X, NEW must, Layers(seqs, Y, X, must),
           NEW s \in Seq(Batch(Row)), NEW block, Blocks(s, block, seqs, Len(seqs))
    PROVE  Replays(s, X, must)
  <2> USE <1>Assembled
  <2> DEFINE n == Len(seqs)
  <2>1. n \in Nat /\ Len(s) \in Nat
    BY DEF Layers
  <2>2. ASSUME NEW i \in 1 .. Len(s)
        PROVE  /\ block[i] \in 1 .. n
               /\ Layer(seqs[block[i]], Y[block[i]], must, n - block[i])
               /\ \E x \in 1 .. Len(seqs[block[i]]) : s[i] = seqs[block[i]][x]
    BY Zenon DEF Blocks, Layers
  <2>3. ASSUME NEW i \in 1 .. Len(s)
        PROVE  /\ s[i].row \in Y[block[i]] /\ s[i].row \in Row /\ s[i].row \in X
               /\ block[i] < n => s[i].is_log_batch
               /\ Steady(s[i].row) => IsNewest(s[i].row, Y[block[i]])
    <3>1. PICK x \in 1 .. Len(seqs[block[i]]) : s[i] = seqs[block[i]][x]
      BY Zenon, <2>2
    <3>2. /\ s[i].row \in Y[block[i]] /\ s[i].row \in Row
          /\ n - block[i] > 0 => s[i].is_log_batch
          /\ Steady(s[i].row) => IsNewest(s[i].row, Y[block[i]])
      <4>1. PICK seq, part, below : seq = seqs[block[i]] /\ part = Y[block[i]] /\ below = n - block[i]
        OBVIOUS
      <4>2. Layer(seq, part, must, below) /\ x \in 1 .. Len(seq) /\ s[i] = seq[x]
        BY Zenon, <2>2, <3>1, <4>1
      <4>3. /\ seq[x].row \in part /\ seq[x].row \in Row
            /\ below > 0 => seq[x].is_log_batch
            /\ Steady(seq[x].row) => IsNewest(seq[x].row, part)
        BY <4>2, <1>LayerRow
      <4> QED
        BY <4>1, <4>2, <4>3
    <3>3. block[i] < n => n - block[i] > 0
      BY <2>1, <2>2
    <3> QED
      BY <2>2, <3>2, <3>3 DEF Layers
  <2>4. ASSUME NEW k \in 1 .. n, NEW row \in Y[k], IsNewest(row, Y[k]),
               row \in must \/ (k < n /\ Steady(row))
        PROVE  \E i \in 1 .. Len(s) : block[i] = k /\ s[i].row = row
    <3>1. Layer(seqs[k], Y[k], must, n - k)
      BY DEF Layers
    <3>a. k < n => n - k > 0
      BY <2>1
    <3>2. PICK x \in 1 .. Len(seqs[k]) : seqs[k][x].row = row
      BY <2>4, <3>1, <3>a, <1>LayerHas
    <3>3. PICK i \in 1 .. Len(s) : block[i] = k /\ s[i] = seqs[k][x]
      BY DEF Blocks
    <3> QED
      BY <3>2, <3>3
  <2>5. ASSUME NEW i \in 1 .. Len(s), NEW j \in 1 .. Len(s), i < j,
               s[i].row.slot = s[j].row.slot
        PROVE  s[i].is_log_batch /\ s[j].row.version < s[i].row.version
    <3>1. block[i] \in 1 .. n /\ block[j] \in 1 .. n /\ block[i] <= block[j]
      <4>1. i <= j
        BY <2>1, <2>5
      <4> QED
        BY Zenon, <2>2, <4>1 DEF Blocks
    <3>2. block[i] # block[j]
      <4> SUFFICES ASSUME block[i] = block[j] PROVE FALSE
        OBVIOUS
      <4> DEFINE seq == seqs[block[j]]
      <4>1. PICK x, y \in 1 .. Len(seq) : x < y /\ s[i] = seq[x] /\ s[j] = seq[y]
        BY Zenon, <2>5 DEF Blocks
      <4>2. Layer(seq, Y[block[j]], must, n - block[j]) /\ seq \in Seq(Batch(Row))
        BY Zenon, <2>2 DEF Layer
      <4>3. x = y
        <5> HIDE DEF seq
        <5>1. seq[x].row.slot = seq[y].row.slot
          BY Zenon, <2>5, <4>1
        <5> QED
          BY Zenon, <4>2, <5>1, <1>LayerRow
      <4>4. x \in Nat /\ y \in Nat
        <5> HIDE DEF seq
        <5> QED
          BY <4>2
      <4> QED
        BY <4>1, <4>3, <4>4
    <3>3. block[i] < block[j] /\ block[i] < n
      BY <2>1, <3>1, <3>2
    <3> QED
      BY Zenon, <2>3, <3>1, <3>3 DEF Layers
  <2>6. ASSUME NEW row \in X, IsNewest(row, X)
        PROVE  \E k \in 1 .. n : row \in Y[k] /\ IsNewest(row, Y[k])
    BY Zenon, <2>6 DEF Layers, IsNewest
  <2>7. ASSUME NEW row \in must, IsNewest(row, X) PROVE \E i \in 1 .. Len(s) : s[i].row = row
    <3>1. row \in X
      BY DEF Layers
    <3> QED
      BY <2>4, <2>6, <2>7, <3>1
  <2>8. ASSUME NEW i \in 1 .. Len(s), Steady(s[i].row)
        PROVE  \E j \in 1 .. i : s[j].row.slot = s[i].row.slot /\ IsNewest(s[j].row, X)
    <3>1. s[i].row \in X /\ RowSet(X)
      BY <2>3 DEF Layers
    <3>2. PICK row \in X : row.slot = s[i].row.slot /\ IsNewest(row, X)
      BY Zenon, <3>1, NewestExists
    <3>3. PICK k \in 1 .. n : row \in Y[k] /\ IsNewest(row, Y[k])
      BY <2>6, <3>2
    <3>4. CASE IsNewest(s[i].row, X)
      BY <2>1, <3>4
    <3>5. CASE ~IsNewest(s[i].row, X)
      <4>1. s[i].row \in Row /\ row \in Row
        BY Zenon, <2>3, <3>1 DEF RowSet
      <4>2. Steady(row)
        <5>1. Fits(s[i].row) /\ Fits(row)
          BY <4>1, RowType
        <5> QED
          BY <2>8, <3>2, <5>1 DEF Steady, Fits
      <4>3. s[i].row.version \in Nat /\ row.version \in Nat
        BY <4>1, RowType
      <4>4. s[i].row.version < row.version
        <5>1. PICK r \in X : r.slot = s[i].row.slot /\ ~(r.version <= s[i].row.version)
          BY <3>5 DEF IsNewest
        <5>2. r.version <= row.version
          BY <3>2, <5>1 DEF IsNewest
        <5>3. r.version \in Nat
          BY Zenon, <3>1, RowType DEF RowSet
        <5> QED
          BY <4>3, <5>1, <5>2, <5>3
      <4>5. block[i] \in 1 .. n /\ s[i].row \in Y[block[i]] /\ IsNewest(s[i].row, Y[block[i]])
        BY <2>2, <2>3, <2>8
      <4>6. k # block[i]
        <5> SUFFICES ASSUME k = block[i] PROVE FALSE
          BY Zenon
        <5>1. row.version <= s[i].row.version
          BY <3>2, <3>3, <4>5 DEF IsNewest
        <5> QED
          BY <4>3, <4>4, <5>1
      <4>7. ~(block[i] < k)
        <5> SUFFICES ASSUME block[i] < k PROVE FALSE
          OBVIOUS
        <5>1. row.version < s[i].row.version
          BY Zenon, <3>3, <4>5 DEF Layers
        <5> QED
          BY <4>3, <4>4, <5>1
      <4>8. k < block[i] /\ k < n
        BY <2>1, <4>5, <4>6, <4>7
      <4>9. PICK j \in 1 .. Len(s) : block[j] = k /\ s[j].row = row
        BY <2>4, <3>3, <4>2, <4>8
      <4>10. ~(i <= j)
        <5> SUFFICES ASSUME i <= j PROVE FALSE
          OBVIOUS
        <5>1. block[i] <= block[j]
          BY DEF Blocks
        <5> QED
          BY <4>5, <4>8, <4>9, <5>1
      <4>11. j \in 1 .. i
        BY <2>1, <4>10
      <4> QED
        BY <3>2, <4>9, <4>11
    <3> QED
      BY <3>4, <3>5
  <2>9. \A i \in 1 .. Len(s) : s[i].row \in X
    BY <2>3
  <2> QED
    BY <2>5, <2>7, <2>8, <2>9 DEF Replays
<1>PartMoves.
    ASSUME NEW cs, LogOK(cs), NEW lo \in Nat, NEW hi \in Int, hi < Len(cs),
           NEW a \in Nat, NEW b \in Int, b < Len(cs), NEW row \in Part(cs, lo, hi)
    PROVE  row.version \in lo .. hi /\ (row.version \in a .. b => row \in Part(cs, a, b))
  <2> USE <1>PartMoves
  <2>1. row.version \in lo .. hi
    BY PartRow
  <2>2. PICK x \in 1 .. Len(cs[row.version + 1]) : row = cs[row.version + 1][x]
    BY PartRow
  <2>3. ASSUME row.version \in a .. b PROVE row \in Part(cs, a, b)
    BY <2>2, <2>3, PartRow
  <2> QED
    BY <2>1, <2>3
<1>ChainRange.
    ASSUME NEW cover, NEW first, NEW v, Chain(cover, first, v), NEW i \in 1 .. Len(cover)
    PROVE  /\ cover[i][1] \in Nat /\ cover[i][2] \in Nat /\ cover[i][1] <= cover[i][2]
           /\ cover[i] = <<cover[i][1], cover[i][2]>>
  <2> USE <1>ChainRange
  <2>1. cover[i] \in Nat \X Nat
    BY DEF Chain
  <2> QED
    BY <2>1 DEF Chain
<1>ChainOrder.
    ASSUME NEW cover, NEW first, NEW v, Chain(cover, first, v),
           NEW k \in 1 .. Len(cover), NEW l \in 1 .. Len(cover), k < l
    PROVE  cover[l][2] < cover[k][1]
  <2> USE <1>ChainOrder
  <2>1. Len(cover) \in Nat
    BY DEF Chain
  <2> DEFINE S == {m \in Nat : k + m + 1 <= Len(cover) => cover[k + m + 1][2] < cover[k][1]}
  <2>2. 0 \in S
    <3> SUFFICES ASSUME k + 0 + 1 <= Len(cover) PROVE cover[k + 0 + 1][2] < cover[k][1]
      OBVIOUS
    <3>1. k \in 1 .. Len(cover) - 1 /\ k + 0 + 1 = k + 1 /\ k + 1 \in 1 .. Len(cover)
      BY <2>1
    <3>2. cover[k][1] = cover[k + 1][2] + 1
      BY <3>1 DEF Chain
    <3>3. cover[k + 1][2] \in Nat
      BY <3>1, <1>ChainRange
    <3> QED
      BY <3>1, <3>2, <3>3
  <2>3. ASSUME NEW m \in 1 .. Len(cover), m - 1 \in S PROVE m \in S
    <3> SUFFICES ASSUME k + m + 1 <= Len(cover) PROVE cover[k + m + 1][2] < cover[k][1]
      OBVIOUS
    <3>1. /\ k + m \in 1 .. Len(cover) - 1 /\ k + m \in 1 .. Len(cover)
          /\ k + m + 1 \in 1 .. Len(cover) /\ k + (m - 1) + 1 = k + m
      BY <2>1
    <3>2. cover[k + m][2] < cover[k][1]
      BY <2>3, <3>1
    <3>3. cover[k + m][1] = cover[k + m + 1][2] + 1
      BY <3>1 DEF Chain
    <3>4. /\ cover[k + m][1] \in Nat /\ cover[k + m][2] \in Nat /\ cover[k + m][1] <= cover[k + m][2]
          /\ cover[k + m + 1][2] \in Nat /\ cover[k][1] \in Nat
      BY Zenon, <3>1, <1>ChainRange
    <3>5. PICK a, b, c, d : /\ a = cover[k + m][1] /\ b = cover[k + m][2]
                            /\ c = cover[k + m + 1][2] /\ d = cover[k][1]
      BY Zenon
    <3>6. /\ a \in Nat /\ b \in Nat /\ c \in Nat /\ d \in Nat
          /\ b < d /\ a = c + 1 /\ a <= b
      BY Zenon, <3>2, <3>3, <3>4, <3>5
    <3>7. c < d
      BY ONLY <3>6
    <3> QED
      BY Zenon, <3>5, <3>7
  <2>4. \A m \in 0 .. Len(cover) : m \in S
    <3> HIDE DEF S
    <3> QED
      BY Zenon, <2>1, <2>2, <2>3, UpTo
  <2>5. l - k - 1 \in 0 .. Len(cover) /\ k + (l - k - 1) + 1 = l /\ l <= Len(cover)
    BY <2>1
  <2>6. l - k - 1 \in S
    BY Zenon, <2>4, <2>5
  <2> QED
    BY <2>5, <2>6
<1>ChainBounds.
    ASSUME NEW cover, NEW first \in Nat, NEW v \in Int, Chain(cover, first, v),
           NEW k \in 1 .. Len(cover)
    PROVE  first <= cover[k][1] /\ cover[k][2] <= v
  <2> USE <1>ChainBounds
  <2>1. Len(cover) \in Nat /\ 1 \in 1 .. Len(cover) /\ Len(cover) \in 1 .. Len(cover) /\ Len(cover) # 0
    BY DEF Chain
  <2>2. cover[1][2] = v /\ cover[Len(cover)][1] = first
    BY <2>1 DEF Chain
  <2>3. /\ cover[k][1] \in Nat /\ cover[k][2] \in Nat /\ cover[1][1] \in Nat /\ cover[1][2] \in Nat
        /\ cover[1][1] <= cover[1][2]
    BY <2>1, <1>ChainRange
  <2>4. /\ cover[Len(cover)][1] \in Nat /\ cover[Len(cover)][2] \in Nat
        /\ cover[Len(cover)][1] <= cover[Len(cover)][2]
    BY <2>1, <1>ChainRange
  <2>5. first <= cover[k][1]
    <3>1. CASE k = Len(cover)
      BY <2>2, <2>4, <3>1
    <3>2. CASE k # Len(cover)
      <4>1. k < Len(cover)
        BY <2>1, <3>2
      <4>2. cover[Len(cover)][2] < cover[k][1]
        BY <2>1, <4>1, <1>ChainOrder
      <4> QED
        BY <2>2, <2>3, <2>4, <4>2
    <3> QED
      BY <3>1, <3>2
  <2>6. cover[k][2] <= v
    <3>1. CASE k = 1
      BY <2>2, <2>3, <3>1
    <3>2. CASE k # 1
      <4>1. 1 < k
        BY <2>1, <3>2
      <4>2. cover[k][2] < cover[1][1]
        BY <2>1, <4>1, <1>ChainOrder
      <4> QED
        BY <2>2, <2>3, <4>2
    <3> QED
      BY <3>1, <3>2
  <2> QED
    BY <2>5, <2>6
<1>ChainAll.
    ASSUME NEW cover, NEW first \in Nat, NEW v \in Int, Chain(cover, first, v),
           NEW u \in first .. v
    PROVE  \E k \in 1 .. Len(cover) : u \in cover[k][1] .. cover[k][2]
  <2> USE <1>ChainAll
  <2> DEFINE T == {k \in 1 .. Len(cover) : cover[k][1] <= u}
  <2>1. Len(cover) \in Nat /\ Len(cover) # 0
    BY DEF Chain
  <2>2. Len(cover) \in 1 .. Len(cover) /\ 1 \in 1 .. Len(cover)
    BY <2>1
  <2>3. cover[1][2] = v /\ cover[Len(cover)][1] = first
    BY <2>1 DEF Chain
  <2>4. Len(cover) \in T /\ T \in SUBSET Nat
    BY <2>1, <2>2, <2>3
  <2>5. PICK k \in T : \A l \in T : k <= l
    <3> HIDE DEF T
    <3> QED
      BY <2>4, LeastElement
  <2>6. k \in 1 .. Len(cover) /\ cover[k][1] <= u
    BY <2>5
  <2>7. cover[k][1] \in Nat /\ cover[k][2] \in Nat
    BY <2>6, <1>ChainRange
  <2>8. u <= cover[k][2]
    <3>1. CASE k = 1
      BY <2>3, <3>1
    <3>2. CASE k # 1
      <4>1. k - 1 \in 1 .. Len(cover) - 1 /\ k - 1 \in 1 .. Len(cover) /\ ~(k <= k - 1) /\ k - 1 + 1 = k
        BY <2>1, <2>6, <3>2
      <4>2. ~(cover[k - 1][1] <= u)
        BY <2>5, <4>1
      <4>3. cover[k - 1][1] = cover[k][2] + 1
        BY <4>1 DEF Chain
      <4> QED
        BY <2>7, <4>2, <4>3
    <3> QED
      BY <3>1, <3>2
  <2>9. u \in Int
    OBVIOUS
  <2> QED
    BY <2>6, <2>7, <2>8, <2>9
<1>PartsStacked.
    ASSUME NEW cs, NEW low, NEW first, NEW v, NEW cover, NEW files, NEW cp, NEW must,
           ReadsFrom(cs, low, first, v, cover, files, cp, must)
    PROVE  Stacked(PartAt(cs, low, first, cover), Len(cover) + 1, Part(cs, low, v))
  <2> USE <1>PartsStacked
  <2> DEFINE n == Len(cover)
             Y == PartAt(cs, low, first, cover)
             X == Part(cs, low, v)
  <2>1. /\ LogOK(cs) /\ low \in Nat /\ first \in Nat /\ low <= first
        /\ v \in Int /\ v < Len(cs) /\ first <= v + 1 /\ Chain(cover, first, v)
    BY DEF ReadsFrom
  <2>2. n \in Nat /\ Len(cs) \in Nat
    BY <2>1 DEF Chain, LogOK
  <2>3. Y[n + 1] = Part(cs, low, first - 1) /\ first - 1 \in Int /\ first - 1 < Len(cs)
    BY <2>1, <2>2 DEF PartAt
  <2>4. ASSUME NEW k \in 1 .. n
        PROVE  /\ Y[k] = Part(cs, cover[k][1], cover[k][2]) /\ k \in 1 .. n + 1
               /\ cover[k][1] \in Nat /\ cover[k][2] \in Int /\ cover[k][2] < Len(cs)
               /\ first <= cover[k][1] /\ cover[k][2] <= v /\ low <= cover[k][1]
    <3>1. cover[k][1] \in Nat /\ cover[k][2] \in Nat
      BY <2>1, <1>ChainRange
    <3>2. first <= cover[k][1] /\ cover[k][2] <= v
      BY <2>1, <1>ChainBounds
    <3>3. k \in 1 .. n + 1 /\ k # n + 1
      BY <2>2
    <3>4. Y[k] = Part(cs, cover[k][1], cover[k][2])
      BY <3>3 DEF PartAt
    <3> QED
      BY <2>1, <2>2, <3>1, <3>2, <3>3, <3>4
  <2>5. ASSUME NEW k \in 1 .. n, NEW row \in Y[k]
        PROVE  row.version \in cover[k][1] .. cover[k][2] /\ row \in X
    <3>1. PICK lo, hi : lo = cover[k][1] /\ hi = cover[k][2]
      BY Zenon
    <3>2. row \in Part(cs, lo, hi) /\ lo \in Nat /\ hi \in Int /\ hi < Len(cs)
      BY <2>4, <3>1
    <3>3. row.version \in lo .. hi /\ (row.version \in low .. v => row \in X)
      BY <2>1, <3>2, <1>PartMoves
    <3>4. row.version \in low .. v
      <4>1. low <= lo /\ hi <= v
        BY Zenon, <2>4, <3>1
      <4> QED
        BY ONLY <2>1, <3>2, <3>3, <4>1
    <3> QED
      BY <3>1, <3>3, <3>4
  <2>6. ASSUME NEW row \in Y[n + 1]
        PROVE  row.version \in low .. first - 1 /\ row \in X
    <3>1. row.version \in low .. first - 1 /\ (row.version \in low .. v => row \in X)
      BY <2>1, <2>3, <1>PartMoves
    <3>2. row.version \in low .. v
      BY <2>1, <3>1
    <3> QED
      BY <3>1, <3>2
  <2>7. ASSUME NEW row \in X PROVE \E k \in 1 .. n + 1 : row \in Y[k]
    <3>1. row.version \in low .. v
      BY <2>1, PartRow
    <3>3. CASE row.version < first
      <4>1. row.version \in low .. first - 1
        BY <2>1, <3>1, <3>3
      <4>2. row \in Y[n + 1]
        BY <2>1, <2>3, <4>1, <1>PartMoves
      <4> QED
        BY <2>2, <4>2
    <3>4. CASE ~(row.version < first)
      <4>1. row.version \in first .. v
        BY <2>1, <3>1, <3>4
      <4>2. PICK k \in 1 .. n : row.version \in cover[k][1] .. cover[k][2]
        BY Zenon, <2>1, <4>1, <1>ChainAll
      <4>3. PICK lo, hi : lo = cover[k][1] /\ hi = cover[k][2]
        BY Zenon
      <4>4. Y[k] = Part(cs, lo, hi) /\ lo \in Nat /\ hi \in Int /\ hi < Len(cs) /\ row.version \in lo .. hi
        BY <2>4, <4>2, <4>3
      <4>5. row \in Part(cs, lo, hi)
        BY <2>1, <4>4, <1>PartMoves
      <4> QED
        BY <2>4, <4>4, <4>5
    <3> QED
      BY <3>3, <3>4
  <2>8. ASSUME NEW k \in 1 .. n + 1, NEW l \in 1 .. n + 1, k < l, NEW a \in Y[k], NEW b \in Y[l]
        PROVE  b.version < a.version
    <3>1. k \in 1 .. n
      BY <2>2, <2>8
    <3>2. a.version \in cover[k][1] .. cover[k][2]
      BY <2>5, <3>1
    <3>3. CASE l = n + 1
      <4>1. b.version \in low .. first - 1
        BY <2>6, <3>3
      <4>2. PICK lo, hi : lo = cover[k][1] /\ hi = cover[k][2]
        BY Zenon
      <4>3. lo \in Nat /\ hi \in Int /\ first <= lo /\ a.version \in lo .. hi
        BY Zenon, <2>4, <3>1, <3>2, <4>2
      <4> QED
        BY ONLY <2>1, <4>1, <4>3
    <3>4. CASE l # n + 1
      <4>1. l \in 1 .. n
        BY <2>2, <3>4
      <4>2. b.version \in cover[l][1] .. cover[l][2]
        BY <2>5, <4>1
      <4>3. cover[l][2] < cover[k][1]
        BY Zenon, <2>1, <2>8, <3>1, <4>1, <1>ChainOrder
      <4>4. PICK lo, hi, l1, l2 : lo = cover[k][1] /\ hi = cover[k][2] /\ l1 = cover[l][1] /\ l2 = cover[l][2]
        BY Zenon
      <4>5. /\ lo \in Nat /\ hi \in Int /\ l1 \in Nat /\ l2 \in Int /\ l2 < lo
            /\ a.version \in lo .. hi /\ b.version \in l1 .. l2
        BY Zenon, <2>4, <3>1, <3>2, <4>1, <4>2, <4>3, <4>4
      <4> QED
        BY ONLY <4>5
    <3> QED
      BY <3>3, <3>4
  <2>9. ASSUME NEW k \in 1 .. n + 1 PROVE Y[k] \subseteq X
    <3>1. k = n + 1 \/ k \in 1 .. n
      BY <2>2
    <3> QED
      BY <2>5, <2>6, <3>1
  <2> QED
    BY <2>7, <2>8, <2>9 DEF Stacked
<1> SUFFICES ASSUME NEW cs, NEW low, NEW first, NEW v, NEW cover, NEW files, NEW cp, NEW must,
                    ReadsFrom(cs, low, first, v, cover, files, cp, must)
             PROVE  Replays(StreamOf(cover, files, cp), Part(cs, low, v), must)
  OBVIOUS
<1> DEFINE n == Len(cover)
           Y == PartAt(cs, low, first, cover)
           X == Part(cs, low, v)
           logs == [k \in 1 .. n |-> FromLog(files[k])]
           last == FromCheckpoint(cp)
           all == Append(logs, last)
<1>1. /\ LogOK(cs) /\ low \in Nat /\ first \in Nat /\ v \in Int /\ v < Len(cs)
      /\ Chain(cover, first, v) /\ must \subseteq X
  BY DEF ReadsFrom
<1>2. n \in Nat
  BY <1>1 DEF Chain
<1>3. ASSUME NEW k \in 1 .. n
      PROVE  Holds(files[k], Y[k], {row \in Y[k] : row \in must \/ Steady(row)})
  <2>1. k \in 1 .. n + 1 /\ k # n + 1
    BY <1>2
  <2>2. Y[k] = Part(cs, cover[k][1], cover[k][2])
    BY <2>1 DEF PartAt
  <2> HIDE DEF Y
  <2> QED
    BY Zenon, <2>2 DEF ReadsFrom
<1>4. Holds(cp, Y[n + 1], {row \in Y[n + 1] : row \in must})
  <2>1. Y[n + 1] = Part(cs, low, first - 1)
    BY <1>2 DEF PartAt
  <2> HIDE DEF Y
  <2> QED
    BY <2>1 DEF ReadsFrom
<1> HIDE DEF Y
<1>5. ASSUME NEW k \in 1 .. n
      PROVE  /\ FromLog(files[k]) \in Seq(Batch(Row)) /\ RowAt(FromLog(files[k])) = files[k]
             /\ \A x \in 1 .. Len(FromLog(files[k])) : FromLog(files[k])[x].is_log_batch
  <2>1. files[k] \in Seq(Row)
    BY <1>3 DEF Holds
  <2> QED
    BY <2>1, BatchesOf
<1>6. last \in Seq(Batch(Row)) /\ RowAt(last) = cp
  <2>1. cp \in Seq(Row)
    BY <1>4 DEF Holds
  <2> QED
    BY <2>1, BatchesOf
<1> HIDE DEF last
<1>7. logs \in Seq(Seq(Batch(Row))) /\ Len(logs) = n
  BY <1>2, <1>5
<1>8. \A k \in 1 .. n : logs[k] = FromLog(files[k])
  OBVIOUS
<1>9. PICK flat : flat = FlattenSeq(logs)
  OBVIOUS
<1> HIDE DEF logs
<1>10. PICK block : flat \in Seq(Batch(Row)) /\ Blocks(flat, block, logs, n)
  BY <1>7, <1>9, FlattenBlocks
<1>11. /\ all \in Seq(Seq(Batch(Row))) /\ Len(all) = n + 1 /\ all[n + 1] = last
       /\ \A k \in 1 .. n : all[k] = logs[k]
  BY <1>2, <1>6, <1>7
<1> HIDE DEF all
<1>12. Blocks(flat, block, all, n)
  <2>1. \A j \in 1 .. Len(flat) : block[j] \in 1 .. n
    BY <1>10 DEF Blocks
  <2>2. \A j \in 1 .. Len(flat) : all[block[j]] = logs[block[j]]
    BY <1>11, <2>1
  <2>3. ASSUME NEW j \in 1 .. Len(flat)
        PROVE  \E x \in 1 .. Len(all[block[j]]) : flat[j] = all[block[j]][x]
    <3>1. \E x \in 1 .. Len(logs[block[j]]) : flat[j] = logs[block[j]][x]
      BY <1>10 DEF Blocks
    <3> QED
      BY <2>2, <3>1
  <2>4. ASSUME NEW b \in 1 .. n, NEW x \in 1 .. Len(all[b])
        PROVE  \E j \in 1 .. Len(flat) : block[j] = b /\ flat[j] = all[b][x]
    <3>1. all[b] = logs[b]
      BY <1>11
    <3>2. \A y \in 1 .. Len(logs[b]) : \E j \in 1 .. Len(flat) : block[j] = b /\ flat[j] = logs[b][y]
      BY <1>10 DEF Blocks
    <3> QED
      BY <3>1, <3>2
  <2>5. ASSUME NEW i \in 1 .. Len(flat), NEW j \in 1 .. Len(flat), i < j, block[i] = block[j]
        PROVE  \E x, y \in 1 .. Len(all[block[j]]) :
                 x < y /\ flat[i] = all[block[j]][x] /\ flat[j] = all[block[j]][y]
    <3>1. \E x, y \in 1 .. Len(logs[block[j]]) :
            x < y /\ flat[i] = logs[block[j]][x] /\ flat[j] = logs[block[j]][y]
      BY Zenon, <1>10, <2>5 DEF Blocks
    <3>2. all[block[j]] = logs[block[j]]
      BY <2>2
    <3> QED
      BY <3>1, <3>2
  <2>6. /\ block \in [1 .. Len(flat) -> 1 .. n]
        /\ \A i, j \in 1 .. Len(flat) : i <= j => block[i] <= block[j]
    BY <1>10 DEF Blocks
  <2> QED
    BY <2>3, <2>4, <2>5, <2>6 DEF Blocks
<1>13. PICK new : Blocks(flat \o last, new, all, n + 1)
  <2>1. n < Len(all)
    BY ONLY <1>2, <1>11
  <2> QED
    BY Zenon, <1>2, <1>10, <1>11, <1>12, <2>1, OneMoreBlock
<1>14. Layers(all, Y, X, must)
  <2>1. Stacked(Y, n + 1, X)
    BY <1>PartsStacked DEF Y
  <2>2. RowSet(X)
    BY <1>1, PartSet
  <2>3. ASSUME NEW k \in 1 .. n PROVE Layer(all[k], Y[k], must, n + 1 - k)
    <3>1. PICK seq, part, below : seq = all[k] /\ part = Y[k] /\ below = n + 1 - k
      OBVIOUS
    <3>2. below > 0
      BY <1>2, <3>1
    <3>3. seq = FromLog(files[k])
      BY <1>8, <1>11, <3>1
    <3>4. seq \in Seq(Batch(Row)) /\ RowAt(seq) = files[k]
          /\ \A x \in 1 .. Len(seq) : seq[x].is_log_batch
      BY <1>5, <3>3
    <3>5. {row \in part : row \in must \/ (below > 0 /\ Steady(row))} =
            {row \in part : row \in must \/ Steady(row)}
      BY <3>2
    <3>6. Holds(RowAt(seq), part, {row \in part : row \in must \/ (below > 0 /\ Steady(row))})
      BY Zenon, <1>3, <3>1, <3>4, <3>5
    <3>7. Layer(seq, part, must, below)
      BY <3>4, <3>6 DEF Layer
    <3> QED
      BY <3>1, <3>7
  <2>4. Layer(all[n + 1], Y[n + 1], must, n + 1 - (n + 1))
    <3>1. PICK part, below : part = Y[n + 1] /\ below = n + 1 - (n + 1)
      OBVIOUS
    <3>2. ~(below > 0)
      BY <1>2, <3>1
    <3>3. {row \in part : row \in must \/ (below > 0 /\ Steady(row))} = {row \in part : row \in must}
      BY <3>2
    <3>4. Holds(RowAt(last), part, {row \in part : row \in must \/ (below > 0 /\ Steady(row))})
      BY Zenon, <1>4, <1>6, <3>1, <3>3
    <3>5. Layer(last, part, must, below)
      BY <1>6, <3>2, <3>4 DEF Layer
    <3> QED
      BY <1>11, <3>1, <3>5
  <2>5. ASSUME NEW k \in 1 .. n + 1 PROVE Layer(all[k], Y[k], must, n + 1 - k)
    <3>1. k = n + 1 \/ k \in 1 .. n
      BY <1>2
    <3> QED
      BY <2>3, <2>4, <3>1
  <2>6. \A k \in 1 .. Len(all) : Layer(all[k], Y[k], must, Len(all) - k)
    BY <1>11, <2>5
  <2> QED
    BY <1>1, <1>11, <2>1, <2>2, <2>6 DEF Layers, Stacked
<1>15. flat \o last \in Seq(Batch(Row))
  BY <1>6, <1>10
<1>16. Replays(flat \o last, X, must)
  BY Zenon, <1>11, <1>13, <1>14, <1>15, <1>Assembled
<1> QED
  BY <1>9, <1>16 DEF StreamOf, logs, last

----------------------------------------------------------------------------
(* The greedy cover, whatever compacted files there are.                    *)

Before(r, q) == r[1] < q[1] \/ (r[1] = q[1] /\ r[2] < q[2])

(* The commit files of the versions from first to v, and compacted files of *)
(* some of them.                                                            *)
FilesOK(files, first, v) ==
    /\ files \subseteq Nat \X Nat
    /\ \A f \in files : first <= f[1] /\ f[1] <= f[2] /\ f[2] <= v
    /\ \A u \in first .. v : <<u, u>> \in files

(* The cover when the files in done have been passed.                       *)
Grown(acc, done, files, first) ==
    /\ acc \in Seq(Nat \X Nat)
    /\ \A i \in 1 .. Len(acc) : acc[i] \in files
    /\ \A i \in 1 .. Len(acc) - 1 : acc[i + 1][1] = acc[i][2] + 1
    /\ IF Len(acc) = 0 THEN done = {}
       ELSE /\ acc[1][1] = first /\ acc[Len(acc)] \in done
            /\ \A d \in done : d[1] <= acc[Len(acc)][2]

(* The next file in the order of ranges.                                    *)
Follows(next, done, files) ==
    /\ next \in files /\ done \subseteq files
    /\ \A d \in done : Before(d, next)
    /\ \A d \in files : Before(d, next) => d \in done

RangesOK(ranges) ==
    /\ ranges \in Seq(Nat \X Nat)
    /\ \A i, j \in 1 .. Len(ranges) : i < j => Before(ranges[i], ranges[j])
    /\ \A lo, hi \in 0 .. MaxVersion : \E i \in 1 .. Len(ranges) : ranges[i] = <<lo, hi>>

CoverVisit(acc, next, files) == IF next \in files THEN CoverStep(acc, next) ELSE acc

(* f holds the cover after each range.                                      *)
CoverRun(f, ranges, files) ==
    /\ f[0] = <<>>
    /\ \A i \in 1 .. Len(ranges) : f[i] = CoverVisit(f[i - 1], ranges[i], files)

First(seg) == IF seg.checkpoint = None THEN 0 ELSE seg.checkpoint + 1

Covers(seg) ==
    /\ seg.version \in 0 .. MaxVersion
    /\ seg.checkpoint = None \/ seg.checkpoint \in 0 .. seg.version
    /\ seg.compacted \subseteq Nat \X Nat
    /\ \A c \in seg.compacted : First(seg) <= c[1] /\ c[1] < c[2] /\ c[2] <= seg.version

(* The files that were passed with the first k ranges.                      *)
Passed(ranges, files, k) == {ranges[i] : i \in 1 .. k} \cap files

(* The cover of a segment is a chain from the version after its checkpoint  *)
(* to its own, of files that the segment has.                               *)
LEMMA CoverIs ==
    ASSUME WellOrdered
    PROVE  \A seg, cover :
             Covers(seg) /\ cover = find_commit_cover(seg)
               => /\ Chain(cover, First(seg), seg.version)
                  /\ \A i \in 1 .. Len(cover) : cover[i] \in CommitsOf(seg) \cup seg.compacted
<1>RangesSorted.
    RangesOK(Ranges)
  <2> DEFINE m == MaxVersion + 1
             from == [lo \in 1 .. m |-> [hi \in 1 .. m |-> <<lo - 1, hi - 1>>]]
  <2>1. m \in Nat /\ MaxVersion \in Nat
    BY LogMaintenanceAssumption
  <2>2. /\ \A lo \in 1 .. m : from[lo] \in Seq(Nat \X Nat) /\ Len(from[lo]) = m
        /\ \A lo, hi \in 1 .. m : from[lo][hi] = <<lo - 1, hi - 1>>
    <3> HIDE DEF m
    <3>1. \A lo, hi \in 1 .. m : <<lo - 1, hi - 1>> \in Nat \X Nat
      BY <2>1
    <3> QED
      BY <2>1, <3>1
  <2>3. from \in Seq(Seq(Nat \X Nat)) /\ Len(from) = m
    <3> HIDE DEF m
    <3>1. DOMAIN from = 1 .. m
      OBVIOUS
    <3>2. from = [lo \in 1 .. m |-> from[lo]]
      OBVIOUS
    <3> HIDE DEF from
    <3> QED
      BY <2>1, <2>2, <3>2
  <2>4. Ranges = FlattenSeq(from)
    BY DEF Ranges
  <2> HIDE DEF from, m
  <2>5. PICK ranges : ranges = Ranges
    OBVIOUS
  <2>6. ranges \in Seq(Nat \X Nat)
    BY <2>3, <2>4, <2>5, FlattenBlocks
  <2>7. PICK block : Blocks(ranges, block, from, m)
    BY <2>3, <2>4, <2>5, FlattenBlocks
  <2>8. ASSUME NEW i \in 1 .. Len(ranges), NEW j \in 1 .. Len(ranges), i < j
        PROVE  Before(ranges[i], ranges[j])
    <3>1. block[i] \in 1 .. m /\ block[j] \in 1 .. m /\ block[i] <= block[j]
      <4>1. i <= j
        BY <2>8
      <4> QED
        BY Zenon, <2>7, <4>1 DEF Blocks
    <3>2. CASE block[i] = block[j]
      <4>1. PICK x, y \in 1 .. Len(from[block[j]]) :
              x < y /\ ranges[i] = from[block[j]][x] /\ ranges[j] = from[block[j]][y]
        BY Zenon, <2>7, <2>8, <3>2 DEF Blocks
      <4>2. /\ x \in 1 .. m /\ y \in 1 .. m
            /\ ranges[i] = <<block[j] - 1, x - 1>> /\ ranges[j] = <<block[j] - 1, y - 1>>
        BY Zenon, <2>2, <3>1, <4>1
      <4> QED
        BY <2>1, <3>1, <4>1, <4>2 DEF Before
    <3>3. CASE block[i] # block[j]
      <4>1. PICK x \in 1 .. Len(from[block[i]]) : ranges[i] = from[block[i]][x]
        BY Zenon, <2>7 DEF Blocks
      <4>2. PICK y \in 1 .. Len(from[block[j]]) : ranges[j] = from[block[j]][y]
        BY <2>7 DEF Blocks
      <4>3. ranges[i] = <<block[i] - 1, x - 1>> /\ ranges[j] = <<block[j] - 1, y - 1>>
        BY Zenon, <2>2, <3>1, <4>1, <4>2
      <4>4. block[i] - 1 < block[j] - 1
        BY <2>1, <3>1, <3>3
      <4> QED
        BY <4>3, <4>4 DEF Before
    <3> QED
      BY <3>2, <3>3
  <2>9. ASSUME NEW lo \in 0 .. MaxVersion, NEW hi \in 0 .. MaxVersion
        PROVE  \E i \in 1 .. Len(ranges) : ranges[i] = <<lo, hi>>
    <3>1. lo + 1 \in 1 .. m /\ hi + 1 \in 1 .. m /\ (lo + 1) - 1 = lo /\ (hi + 1) - 1 = hi
      BY <2>1 DEF m
    <3>2. from[lo + 1][hi + 1] = <<lo, hi>> /\ hi + 1 \in 1 .. Len(from[lo + 1])
      BY Zenon, <2>2, <3>1
    <3>3. \E i \in 1 .. Len(ranges) : block[i] = lo + 1 /\ ranges[i] = from[lo + 1][hi + 1]
      BY Zenon, <2>7, <3>1, <3>2 DEF Blocks
    <3> QED
      BY <3>2, <3>3
  <2> QED
    BY Zenon, <2>5, <2>6, <2>8, <2>9 DEF RangesOK
<1>CoverSteps.
    ASSUME NEW seg
    PROVE  \E f, ranges, files :
             /\ files = CommitsOf(seg) \cup seg.compacted /\ RangesOK(ranges)
             /\ CoverRun(f, ranges, files) /\ find_commit_cover(seg) = Reverse(f[Len(ranges)])
  <2>f. PICK files : files = CommitsOf(seg) \cup seg.compacted
    BY Zenon
  <2>r. PICK ranges : ranges = Ranges
    OBVIOUS
  <2> DEFINE n == Len(ranges)
             Acc == Seq(Nat \X Nat)
             base == <<>>
             step == [i \in 1 .. n |-> [a \in Acc |-> CoverVisit(a, ranges[i], files)]]
  <2>0. ranges \in Acc /\ RangesOK(ranges)
    BY Zenon, <2>r, <1>RangesSorted DEF RangesOK
  <2>1. n \in Nat /\ base \in Acc
    BY <2>0
  <2>2. ASSUME NEW a \in Acc, NEW i \in 1 .. n PROVE CoverVisit(a, ranges[i], files) \in Acc
    <3>1. ranges[i] \in Nat \X Nat
      BY <2>0
    <3>2. Append(a, ranges[i]) \in Acc
      BY <3>1
    <3>3. ASSUME a # <<>> PROVE Append(Front(a), ranges[i]) \in Acc
      <4>1. PICK k : k = Len(a) - 1
        OBVIOUS
      <4>2. k \in Nat /\ k <= Len(a)
        BY <3>3, <4>1
      <4>3. SubSeq(a, 1, k) \in Acc
        BY <4>2
      <4>4. Front(a) \in Acc
        BY Zenon, <4>1, <4>3 DEF Front
      <4> QED
        BY <3>1, <4>4
    <3> HIDE DEF Acc
    <3> QED
      BY <3>2, <3>3 DEF CoverVisit, CoverStep
  <2>3. step \in [1 .. n -> [Acc -> Acc]]
    <3> HIDE DEF Acc
    <3> QED
      BY <2>2
  <2>4. PICK f : Iterates(f, n, Acc, base, step)
    <3> HIDE DEF Acc, n, base, step
    <3> QED
      BY <2>1, <2>3, RecursionExists
  <2>5. f \in [0 .. n -> Acc] /\ f[0] = base /\ \A i \in 1 .. n : f[i] = step[i][f[i - 1]]
    <3> HIDE DEF Acc, n, base, step
    <3> QED
      BY <2>4 DEF Iterates
  <2>6. ASSUME NEW i \in 1 .. n PROVE f[i] = CoverVisit(f[i - 1], ranges[i], files)
    <3>1. i - 1 \in 0 .. n
      BY <2>1
    <3> HIDE DEF Acc
    <3>2. f[i - 1] \in Acc
      BY <2>5, <3>1
    <3> QED
      BY Zenon, <2>5, <3>2
  <2>7. f = [i \in 0 .. n |-> IF i = 0 THEN base ELSE CoverVisit(f[i - 1], ranges[i], files)]
    <3> HIDE DEF Acc, n, base
    <3> QED
      BY <2>1, <2>5, <2>6
  <2>8. PICK g : /\ g = [i \in 0 .. n |-> IF i = 0 THEN base ELSE CoverVisit(g[i - 1], ranges[i], files)]
                 /\ find_commit_cover(seg) = Reverse(g[n])
    BY Zenon, <2>f, <2>r, <2>7 DEF find_commit_cover, GreedyCover, Visit, CoverVisit
  <2>9. g[0] = base /\ \A i \in 1 .. n : g[i] = CoverVisit(g[i - 1], ranges[i], files)
    <3> HIDE DEF Acc, n, base
    <3> QED
      BY <2>1, <2>8
  <2> QED
    BY Zenon, <2>f, <2>0, <2>8, <2>9 DEF CoverRun
(* The next range, when it is one of a file, is the next file.              *)
<1>NextFile.
    ASSUME NEW ranges, RangesOK(ranges), NEW files, NEW first \in Nat, NEW v \in 0 .. MaxVersion,
           FilesOK(files, first, v), NEW k \in 1 .. Len(ranges), ranges[k] \in files
    PROVE  Follows(ranges[k], Passed(ranges, files, k - 1), files)
  <2> USE <1>NextFile
  <2>1. Len(ranges) \in Nat /\ MaxVersion \in Nat /\ \A i \in 1 .. Len(ranges) : ranges[i] \in Nat \X Nat
    <3>1. ranges \in Seq(Nat \X Nat) /\ MaxVersion \in Nat
      BY LogMaintenanceAssumption DEF RangesOK
    <3> QED
      BY <3>1
  <2>2. ASSUME NEW d \in Passed(ranges, files, k - 1) PROVE Before(d, ranges[k])
    <3>1. PICK i \in 1 .. k - 1 : d = ranges[i]
      BY DEF Passed
    <3>2. i \in 1 .. Len(ranges) /\ i < k
      BY <2>1
    <3> QED
      BY Zenon, <3>1, <3>2 DEF RangesOK
  <2>3. ASSUME NEW d \in files, Before(d, ranges[k]) PROVE d \in Passed(ranges, files, k - 1)
    <3>1. d \in Nat \X Nat /\ first <= d[1] /\ d[1] <= d[2] /\ d[2] <= v
      BY DEF FilesOK
    <3>2. d[1] \in 0 .. MaxVersion /\ d[2] \in 0 .. MaxVersion /\ d = <<d[1], d[2]>>
      BY <2>1, <3>1
    <3>3. PICK i \in 1 .. Len(ranges) : ranges[i] = d
      BY Zenon, <3>2 DEF RangesOK
    <3>4. i < k
      <4> SUFFICES ASSUME ~(i < k) PROVE FALSE
        OBVIOUS
      <4>1. d[1] \in Nat /\ d[2] \in Nat /\ ranges[k][1] \in Nat /\ ranges[k][2] \in Nat
        BY <2>1, <3>1
      <4>2. CASE i = k
        BY <2>3, <3>3, <4>1, <4>2 DEF Before
      <4>3. CASE k < i
        <5>1. Before(ranges[k], d)
          BY Zenon, <3>3, <4>3 DEF RangesOK
        <5> QED
          BY <2>3, <4>1, <5>1 DEF Before
      <4> QED
        BY <2>1, <4>2, <4>3
    <3>5. i \in 1 .. k - 1
      BY <2>1, <3>4
    <3> QED
      BY <3>3, <3>5 DEF Passed
  <2>4. Passed(ranges, files, k - 1) \subseteq files
    BY DEF Passed
  <2> QED
    BY <2>2, <2>3, <2>4 DEF Follows
<1>CoverGrows.
    ASSUME NEW files, NEW first \in Nat, NEW v \in Int, FilesOK(files, first, v),
           NEW acc, NEW done, Grown(acc, done, files, first), NEW next, Follows(next, done, files)
    PROVE  Grown(CoverStep(acc, next), done \cup {next}, files, first)
  <2> USE <1>CoverGrows
  <2> DEFINE n == Len(acc)
  <2>1. /\ n \in Nat /\ acc \in Seq(Nat \X Nat) /\ \A i \in 1 .. n : acc[i] \in files
        /\ \A i \in 1 .. n - 1 : acc[i + 1][1] = acc[i][2] + 1
    BY DEF Grown
  <2>2. /\ next \in Nat \X Nat /\ next[1] \in Nat /\ next[2] \in Nat /\ next[1] <= next[2]
        /\ first <= next[1] /\ next[2] <= v /\ next \in files
    BY DEF Follows, FilesOK
  <2>3. CASE n = 0
    <3>1. done = {} /\ acc = <<>>
      BY <2>1, <2>3 DEF Grown
    <3>2. PICK new : new = Append(acc, next)
      BY Zenon
    <3>3. CoverStep(acc, next) = new
      BY <3>1, <3>2 DEF CoverStep
    <3>4. new \in Seq(Nat \X Nat) /\ Len(new) = 1 /\ new[1] = next
      BY <2>1, <2>2, <2>3, <3>2
    <3>5. next[1] = first
      <4> SUFFICES ASSUME next[1] # first PROVE FALSE
        OBVIOUS
      <4>1. first \in first .. v /\ first < next[1]
        BY <2>2
      <4>2. <<first, first>> \in files
        BY <4>1 DEF FilesOK
      <4>3. Before(<<first, first>>, next)
        BY <4>1 DEF Before
      <4> QED
        BY <3>1, <4>2, <4>3 DEF Follows
    <3>6. \A i \in 1 .. Len(new) : new[i] \in files
      BY <2>2, <3>4
    <3>7. \A i \in 1 .. Len(new) - 1 : new[i + 1][1] = new[i][2] + 1
      BY <3>4
    <3>8. Grown(new, done \cup {next}, files, first)
      BY <2>2, <3>1, <3>4, <3>5, <3>6, <3>7 DEF Grown
    <3> QED
      BY <3>3, <3>8
  <2>4. CASE n # 0
    <3>1. PICK last : last = acc[n]
      OBVIOUS
    <3>2. /\ Last(acc) = last /\ acc # <<>> /\ acc[1][1] = first /\ last \in done
          /\ (\A d \in done : d[1] <= last[2]) /\ n \in 1 .. n /\ last \in files
      BY <2>1, <2>4, <3>1 DEF Grown, Last
    <3>3. last \in Nat \X Nat /\ last[1] \in Nat /\ last[2] \in Nat /\ Before(last, next)
      BY <3>2 DEF FilesOK, Follows
    <3>4. CASE last[1] = next[1]
      <4>1. PICK new : new = Append(Front(acc), next)
        BY Zenon
      <4>2. CoverStep(acc, next) = new
        BY <3>2, <3>4, <4>1 DEF CoverStep
      <4>3. PICK front : front = SubSeq(acc, 1, n - 1)
        BY Zenon
      <4>31. n - 1 \in Nat /\ n - 1 <= n /\ front = Front(acc)
        BY <2>1, <2>4, <4>3 DEF Front
      <4>a. Len(front) = n - 1
        <5>1. PICK k \in Nat : k = n - 1
          BY <4>31
        <5>2. front = SubSeq(acc, 1, k)
          BY <4>3, <5>1
        <5>3. CASE k = 0
          BY <2>1, <5>2, <5>3, <5>1
        <5>4. CASE k # 0
          BY <2>1, <4>31, <5>1, <5>2, <5>4
        <5> QED
          BY <5>3, <5>4
      <4>33. \A i \in 1 .. n - 1 : front[i] = acc[i]
        BY <2>1, <4>3, <4>31
      <4>b. front \in Seq(Nat \X Nat)
        BY <2>1, <4>3, <4>31
      <4>32. front \in Seq(Nat \X Nat) /\ Len(front) = n - 1
        BY <4>a, <4>b
      <4>34. new = Append(front, next)
        BY <4>1, <4>31
      <4>4. /\ new \in Seq(Nat \X Nat) /\ Len(new) = n /\ new[n] = next
            /\ \A i \in 1 .. n - 1 : new[i] = acc[i]
        BY <2>1, <2>2, <2>4, <4>32, <4>33, <4>34
      <4>5. last[2] < next[2]
        BY <3>3, <3>4 DEF Before
      <4>6. \A i \in 1 .. n : new[i] \in files /\ new[i][1] = acc[i][1]
        <5>1. \A i \in 1 .. n : i = n \/ i \in 1 .. n - 1
          BY <2>1
        <5> QED
          BY Zenon, <2>1, <2>2, <3>1, <3>4, <4>4, <5>1
      <4>7. ASSUME NEW i \in 1 .. n - 1 PROVE new[i + 1][1] = new[i][2] + 1
        <5>1. i + 1 \in 1 .. n
          BY <2>1
        <5> QED
          BY Zenon, <2>1, <4>4, <4>6, <5>1
      <4>8. \A d \in done \cup {next} : d[1] <= next[2]
        <5>1. \A d \in done : d[1] \in Nat
          BY DEF Follows, FilesOK
        <5> QED
          BY <2>2, <3>2, <3>3, <4>5, <5>1
      <4>9. 1 \in 1 .. n
        BY <2>1, <2>4
      <4>10. new[1][1] = first
        BY Zenon, <3>2, <4>6, <4>9
      <4>11. Grown(new, done \cup {next}, files, first)
        BY <2>4, <4>4, <4>6, <4>7, <4>8, <4>10 DEF Grown
      <4> QED
        BY <4>2, <4>11
    <3>5. CASE last[1] # next[1] /\ next[1] <= last[2]
      <4>1. CoverStep(acc, next) = acc
        BY <3>2, <3>5 DEF CoverStep
      <4>2. \A d \in done \cup {next} : d[1] <= last[2]
        BY <3>2, <3>5
      <4>3. Grown(acc, done \cup {next}, files, first)
        BY <2>1, <2>4, <3>1, <3>2, <4>2 DEF Grown
      <4> QED
        BY <4>1, <4>3
    <3>6. CASE last[1] # next[1] /\ ~(next[1] <= last[2])
      <4>1. PICK new : new = Append(acc, next)
        BY Zenon
      <4>2. CoverStep(acc, next) = new
        BY <3>2, <3>6, <4>1 DEF CoverStep
      <4>3. /\ new \in Seq(Nat \X Nat) /\ Len(new) = n + 1 /\ new[n + 1] = next
            /\ \A i \in 1 .. n : new[i] = acc[i]
        BY <2>1, <2>2, <4>1
      <4>4. next[1] = last[2] + 1
        <5> SUFFICES ASSUME next[1] # last[2] + 1 PROVE FALSE
          OBVIOUS
        <5>1. PICK u : u = last[2] + 1
          OBVIOUS
        <5>2. last[1] <= last[2] /\ first <= last[1]
          BY <3>2 DEF FilesOK
        <5>3. u \in first .. v /\ u < next[1]
          BY <2>2, <3>3, <3>6, <5>1, <5>2
        <5>4. <<u, u>> \in files
          BY <5>3 DEF FilesOK
        <5>5. Before(<<u, u>>, next)
          BY <5>3 DEF Before
        <5>6. <<u, u>> \in done
          BY <5>4, <5>5 DEF Follows
        <5>7. u <= last[2]
          BY <3>2, <5>6
        <5> QED
          BY <3>3, <5>1, <5>7
      <4>5. \A i \in 1 .. n + 1 : i = n + 1 \/ i \in 1 .. n
        BY <2>1
      <4>6. \A i \in 1 .. n + 1 : new[i] \in files
        BY Zenon, <2>1, <2>2, <4>3, <4>5
      <4>7. ASSUME NEW i \in 1 .. (n + 1) - 1 PROVE new[i + 1][1] = new[i][2] + 1
        <5>1. i \in 1 .. n
          BY <2>1
        <5>2. CASE i = n
          BY <3>1, <4>3, <4>4, <5>1, <5>2
        <5>3. CASE i # n
          <6>1. n \in Nat
            BY Zenon, <2>1
          <6>2. i \in 1 .. n - 1 /\ i + 1 \in 1 .. n
            BY ONLY <5>1, <5>3, <6>1
          <6> QED
            BY Zenon, <2>1, <4>3, <5>1, <6>2
        <5> QED
          BY <5>2, <5>3
      <4>8. \A d \in done \cup {next} : d[1] <= next[2]
        <5>1. \A d \in done : d[1] \in Nat
          BY DEF Follows, FilesOK
        <5> QED
          BY <2>2, <3>2, <3>3, <4>4, <5>1
      <4>9. new[1][1] = first /\ n + 1 # 0
        <5>1. 1 \in 1 .. n /\ n + 1 # 0
          BY <2>1, <2>4
        <5>2. new[1] = acc[1]
          BY <4>3, <5>1
        <5> QED
          BY <3>2, <5>1, <5>2
      <4>10. Grown(new, done \cup {next}, files, first)
        BY Zenon, <4>3, <4>6, <4>7, <4>8, <4>9 DEF Grown
      <4> QED
        BY <4>2, <4>10
    <3> QED
      BY <3>4, <3>5, <3>6
  <2> QED
    BY <2>3, <2>4
<1>CoverGrown.
    ASSUME NEW ranges, RangesOK(ranges), NEW files, NEW first \in Nat, NEW v \in 0 .. MaxVersion,
           FilesOK(files, first, v), NEW f, CoverRun(f, ranges, files)
    PROVE  Grown(f[Len(ranges)], files, files, first)
  <2> USE <1>CoverGrown
  <2> DEFINE n == Len(ranges)
             S == {k \in 0 .. n : Grown(f[k], Passed(ranges, files, k), files, first)}
  <2>1. n \in Nat
    BY DEF RangesOK
  <2>2. 0 \in S
    <3>1. Passed(ranges, files, 0) = {}
      BY DEF Passed
    <3>2. PICK none : none = <<>>
      OBVIOUS
    <3>3. none \in Seq(Nat \X Nat) /\ Len(none) = 0 /\ f[0] = none
      BY <3>2 DEF CoverRun
    <3>4. Grown(none, {}, files, first)
      BY <3>3 DEF Grown
    <3>5. Grown(f[0], Passed(ranges, files, 0), files, first) /\ 0 \in 0 .. n
      BY <2>1, <3>1, <3>3, <3>4
    <3> QED
      BY <3>5
  <2>3. ASSUME NEW k \in 1 .. n, k - 1 \in S PROVE k \in S
    <3>1. PICK acc, next, done : acc = f[k - 1] /\ next = ranges[k] /\ done = Passed(ranges, files, k - 1)
      OBVIOUS
    <3>2. Grown(acc, done, files, first)
      BY <2>3, <3>1
    <3>3. \A i \in Nat : i \in 1 .. k <=> i \in 1 .. k - 1 \/ i = k
      BY <2>1
    <3>4. Passed(ranges, files, k) = done \cup ({next} \cap files)
      <4>1. {ranges[i] : i \in 1 .. k} = {ranges[i] : i \in 1 .. k - 1} \cup {next}
        BY <3>1, <3>3
      <4> QED
        BY <3>1, <4>1 DEF Passed
    <3>5. f[k] = CoverVisit(acc, next, files)
      BY <3>1 DEF CoverRun
    <3>6. CASE next \in files
      <4>1. Follows(next, done, files)
        BY <3>1, <3>6, <1>NextFile
      <4>2. v \in Int
        BY LogMaintenanceAssumption
      <4>3. Grown(CoverStep(acc, next), done \cup {next}, files, first)
        <5> HIDE DEF n, S
        <5> QED
          BY <3>2, <4>1, <4>2, <1>CoverGrows
      <4>4. f[k] = CoverStep(acc, next) /\ Passed(ranges, files, k) = done \cup {next}
        BY <3>4, <3>5, <3>6 DEF CoverVisit
      <4>5. Grown(f[k], Passed(ranges, files, k), files, first)
        BY <4>3, <4>4
      <4>6. k \in 0 .. n
        BY <2>1
      <4> QED
        BY <4>5, <4>6
    <3>7. CASE next \notin files
      <4>1. f[k] = acc /\ Passed(ranges, files, k) = done
        BY <3>4, <3>5, <3>7 DEF CoverVisit
      <4> QED
        BY <2>1, <3>2, <4>1
    <3> QED
      BY <3>6, <3>7
  <2>4. n \in S
    <3> HIDE DEF S
    <3>1. \A k \in 0 .. n : k \in S
      BY Zenon, <2>1, <2>2, <2>3, UpTo
    <3> QED
      BY <2>1, <3>1
  <2>5. Passed(ranges, files, n) = files
    <3> SUFFICES ASSUME NEW d \in files PROVE d \in Passed(ranges, files, n)
      BY DEF Passed
    <3>1. d \in Nat \X Nat /\ first <= d[1] /\ d[1] <= d[2] /\ d[2] <= v
      BY DEF FilesOK
    <3>2. d[1] \in 0 .. MaxVersion /\ d[2] \in 0 .. MaxVersion /\ d = <<d[1], d[2]>>
      <4>1. MaxVersion \in Nat /\ d[1] \in Nat /\ d[2] \in Nat
        BY <3>1, LogMaintenanceAssumption
      <4> QED
        BY <3>1, <4>1
    <3>3. PICK i \in 1 .. Len(ranges) : ranges[i] = d
      BY Zenon, <3>2 DEF RangesOK
    <3> QED
      BY <3>3 DEF Passed
  <2> QED
    BY <2>4, <2>5
(* Newest first, the cover is one file after the other.                     *)
<1>GrownCovers.
    ASSUME NEW files, NEW first \in Nat, NEW v \in Nat, first <= v + 1, FilesOK(files, first, v),
           NEW acc, Grown(acc, files, files, first)
    PROVE  Chain(Reverse(acc), first, v) /\ \A i \in 1 .. Len(Reverse(acc)) : Reverse(acc)[i] \in files
  <2> USE <1>GrownCovers
  <2> DEFINE n == Len(acc)
  <2>1. /\ n \in Nat /\ acc \in Seq(Nat \X Nat) /\ \A i \in 1 .. n : acc[i] \in files
        /\ \A i \in 1 .. n - 1 : acc[i + 1][1] = acc[i][2] + 1
    BY DEF Grown
  <2>2. PICK rev : rev = Reverse(acc)
    OBVIOUS
  <2>3. /\ rev \in Seq(Nat \X Nat) /\ Len(rev) = n
        /\ \A i \in 1 .. n : rev[i] = acc[(n - i) + 1] /\ (n - i) + 1 \in 1 .. n
    <3>1. \A i \in 1 .. n : (n - i) + 1 \in 1 .. n
      BY <2>1
    <3>2. rev = [i \in 1 .. n |-> acc[(n - i) + 1]]
      BY <2>2 DEF Reverse
    <3>3. \A i \in 1 .. n : acc[(n - i) + 1] \in Nat \X Nat
      BY <2>1, <3>1
    <3> HIDE DEF n
    <3> QED
      BY <2>1, <3>1, <3>2, <3>3
  <2>4. \A i \in 1 .. n : rev[i] \in files
    BY Zenon, <2>1, <2>3
  <2>5. \A i \in 1 .. n : rev[i][1] <= rev[i][2]
    BY <2>4 DEF FilesOK
  <2>6. ASSUME NEW i \in 1 .. n - 1 PROVE rev[i][1] = rev[i + 1][2] + 1
    <3>1. PICK j : j = n - i
      OBVIOUS
    <3>2. j \in 1 .. n - 1 /\ i \in 1 .. n /\ i + 1 \in 1 .. n /\ (n - i) + 1 = j + 1 /\ (n - (i + 1)) + 1 = j
      BY <2>1, <3>1
    <3>3. rev[i] = acc[j + 1] /\ rev[i + 1] = acc[j]
      BY Zenon, <2>3, <3>2
    <3> QED
      BY <2>1, <3>2, <3>3
  <2>7. CASE n = 0
    <3>1. files = {}
      BY <2>7 DEF Grown
    <3>2. ~(first <= v)
      BY <3>1 DEF FilesOK
    <3>3. first = v + 1
      BY <3>2
    <3> QED
      BY <2>2, <2>3, <2>4, <2>5, <2>6, <2>7, <3>3 DEF Chain
  <2>8. CASE n # 0
    <3>1. PICK last : last = acc[n]
      OBVIOUS
    <3>2. /\ acc[1][1] = first /\ last \in files /\ \A d \in files : d[1] <= last[2]
      BY <2>8, <3>1 DEF Grown
    <3>3. last \in Nat \X Nat /\ last[1] \in Nat /\ last[2] \in Nat /\ first <= last[1] /\ last[1] <= last[2] /\ last[2] <= v
      BY <3>2 DEF FilesOK
    <3>4. <<v, v>> \in files
      BY <3>3 DEF FilesOK
    <3>5. last[2] = v
      <4>1. v <= last[2]
        BY <3>2, <3>4
      <4> QED
        BY <3>3, <4>1
    <3>6. 1 \in 1 .. n /\ n \in 1 .. n /\ (n - 1) + 1 = n /\ (n - n) + 1 = 1
      BY <2>1, <2>8
    <3>7. rev[1] = last /\ rev[n] = acc[1]
      BY <2>3, <3>1, <3>6
    <3> QED
      BY <2>2, <2>3, <2>4, <2>5, <2>6, <2>8, <3>2, <3>5, <3>7 DEF Chain
  <2> QED
    BY <2>7, <2>8
<1> SUFFICES ASSUME NEW seg, Covers(seg), NEW cover, cover = find_commit_cover(seg)
             PROVE  /\ Chain(cover, First(seg), seg.version)
                    /\ \A i \in 1 .. Len(cover) : cover[i] \in CommitsOf(seg) \cup seg.compacted
  OBVIOUS
<1>1. PICK f, ranges, files :
             /\ files = CommitsOf(seg) \cup seg.compacted /\ RangesOK(ranges)
             /\ CoverRun(f, ranges, files) /\ find_commit_cover(seg) = Reverse(f[Len(ranges)])
  BY <1>CoverSteps
<1>2. PICK first, v : first = First(seg) /\ v = seg.version
  OBVIOUS
<1>3. v \in 0 .. MaxVersion /\ v \in Nat /\ first \in Nat /\ first <= v + 1
  BY <1>2, LogMaintenanceAssumption DEF Covers, First
<1>4. CommitsOf(seg) = {<<u, u>> : u \in first .. v}
  BY <1>2 DEF CommitsOf, First
<1>5. FilesOK(files, first, v)
  <2>1. ASSUME NEW c \in files
        PROVE  c \in Nat \X Nat /\ first <= c[1] /\ c[1] <= c[2] /\ c[2] <= v
    <3>1. CASE c \in CommitsOf(seg)
      <4>1. PICK u \in first .. v : c = <<u, u>>
        BY <1>4, <3>1
      <4> QED
        BY <1>3, <4>1
    <3>2. CASE c \in seg.compacted
      <4>1. c \in Nat \X Nat /\ first <= c[1] /\ c[1] < c[2] /\ c[2] <= v
        BY <1>2, <3>2 DEF Covers
      <4>2. c[1] \in Nat /\ c[2] \in Nat
        BY <4>1
      <4> QED
        BY <4>1, <4>2
    <3> QED
      BY <1>1, <3>1, <3>2
  <2>2. \A u \in first .. v : <<u, u>> \in files
    BY <1>1, <1>4
  <2> QED
    BY Zenon, <2>1, <2>2 DEF FilesOK
<1>6. PICK acc : acc = f[Len(ranges)]
  OBVIOUS
<1>7. Grown(acc, files, files, first)
  BY Zenon, <1>1, <1>3, <1>5, <1>6, <1>CoverGrown
<1>8. cover = Reverse(acc)
  BY <1>1, <1>6
<1>9. Chain(cover, first, v) /\ \A i \in 1 .. Len(cover) : cover[i] \in files
  BY Zenon, <1>3, <1>5, <1>7, <1>8, <1>GrownCovers
<1> QED
  BY <1>1, <1>2, <1>9

----------------------------------------------------------------------------
(* What the visitors find in a stream that replays a part of the history.   *)

Newest(X, type) == {row \in X : row.type = type /\ IsNewest(row, X)}

(* When the newest must be there, they keep nothing else.                   *)
OfTypes(passing, s, types) == passing = {r \in RowsOf(s) : r.type \in types}

----------------------------------------------------------------------------
(* The inductive invariant.                                                 *)

(* What a checkpoint has of the history at any time: what has not expired,  *)
(* and the file actions when its sidecars are read.                         *)
Must(X, now) == {row \in X : ~Suppressed(row, now) /\ (SidecarsRead \/ ~IsFileAction(row))}

(* What a compacted file has of its range.                                  *)
LogMust(X, now) == {row \in X : ~Suppressed(row, now) \/ Steady(row)}

Schemas == {None} \cup ForeignFormats

CheckpointsOK(K, cs, now) ==
    \A v \in DOMAIN K :
        /\ v \in Nat /\ v < Len(cs)
        /\ K[v].format \in {"v1"} \cup ForeignFormats
        /\ Holds(K[v].rows, Part(cs, 0, v), Must(Part(cs, 0, v), now))

CompactedOK(C, cs, now) ==
    \A c \in DOMAIN C :
        /\ c \in Compactions /\ c[2] < Len(cs)
        /\ Holds(C[c], Part(cs, c[1], c[2]), LogMust(Part(cs, c[1], c[2]), now))

HintOK(h, K) == h = None \/ (h.version \in DOMAIN K /\ h.schema \in Schemas)

(* A segment names files that exist, in an order that covers the versions.  *)
SegmentOK(seg, K, C, cs) ==
    /\ seg.version \in Nat /\ seg.version < Len(cs)
    /\ seg.checkpoint = None \/ (seg.checkpoint \in DOMAIN K /\ seg.checkpoint <= seg.version)
    /\ seg.compacted \subseteq DOMAIN C
    /\ \A c \in seg.compacted : First(seg) <= c[1] /\ c[2] <= seg.version
    /\ seg.schema \in Schemas

MaintOK(M, K, C, cs) ==
    \A m \in Maintainers :
        /\ M[m].step # "idle" => SegmentOK(M[m].segment, K, C, cs)
        /\ M[m].step = "written" => M[m].segment.version \in DOMAIN K

AnySegment == [version : Nat, checkpoint : Nat \cup {None}, compacted : SUBSET (Nat \X Nat),
               schema : Schemas]

IInv ==
    /\ clock \in 1 .. MaxClock
    /\ LogOK(commits)
    /\ CheckpointsOK(checkpoints, commits, clock)
    /\ CompactedOK(compacted, commits, clock)
    /\ HintOK(hint, checkpoints)
    /\ maint \in [Maintainers -> [step : {"idle", "loaded", "written"}, segment : AnySegment \cup {None}]]
    /\ MaintOK(maint, checkpoints, compacted, commits)

----------------------------------------------------------------------------
(* What a snapshot reads, whenever it is used.                              *)

(* A file that holds more than it must also holds less.                     *)
LEMMA HoldsLess ==
    ASSUME NEW rows, NEW X, NEW must, Holds(rows, X, must), NEW less, less \subseteq must
    PROVE  Holds(rows, X, less)
  BY DEF Holds

(* No file holds what no version has written: a segment without a           *)
(* checkpoint.                                                              *)
LEMMA NothingHeld == Holds(<<>>, {}, {})
<1>1. PICK none : none = <<>>
  OBVIOUS
<1>2. none \in Seq(Row) /\ Len(none) = 0
  BY <1>1
<1>3. Holds(none, {}, {})
  BY <1>2 DEF Holds
<1> QED
  BY <1>1, <1>3

(* The segments of the invariant have a cover.                              *)
LEMMA SegmentCovers ==
    ASSUME NEW seg, IInv, SegmentOK(seg, checkpoints, compacted, commits)
    PROVE  /\ Covers(seg) /\ seg.version \in Nat /\ seg.version < Len(commits)
           /\ First(seg) \in Nat /\ First(seg) <= seg.version + 1
           /\ seg.checkpoint = None => First(seg) = 0
           /\ seg.checkpoint # None =>
                First(seg) - 1 = seg.checkpoint /\ seg.checkpoint \in DOMAIN checkpoints
<1>1. Len(commits) \in Nat /\ Len(commits) <= MaxVersion + 1 /\ MaxVersion \in Nat
  BY LogMaintenanceAssumption DEF IInv, LogOK
<1>2. seg.version \in Nat /\ seg.version < Len(commits)
  BY DEF SegmentOK
<1>3. ASSUME seg.checkpoint # None
      PROVE  seg.checkpoint \in DOMAIN checkpoints /\ seg.checkpoint \in Nat /\ seg.checkpoint <= seg.version
  BY <1>3 DEF SegmentOK, IInv, CheckpointsOK
<1>4. ASSUME NEW c \in seg.compacted
      PROVE  c \in Nat \X Nat /\ First(seg) <= c[1] /\ c[1] < c[2] /\ c[2] <= seg.version
  <2>1. c \in Compactions /\ First(seg) <= c[1] /\ c[2] <= seg.version
    BY DEF SegmentOK, IInv, CompactedOK
  <2> QED
    BY <2>1, LogMaintenanceAssumption
<1>5. seg.version \in 0 .. MaxVersion
  BY <1>1, <1>2
<1>6. Covers(seg)
  BY <1>2, <1>3, <1>4, <1>5 DEF Covers
<1>7. /\ First(seg) \in Nat /\ First(seg) <= seg.version + 1
      /\ seg.checkpoint = None => First(seg) = 0
      /\ seg.checkpoint # None => First(seg) - 1 = seg.checkpoint
  BY <1>2, <1>3 DEF First
<1> QED
  BY <1>2, <1>3, <1>6, <1>7

(* ReadActions of a segment, at any time after it was listed, replays the   *)
(* log up to its version.                                                   *)
LEMMA SegmentRead ==
    ASSUME WellOrdered
    PROVE  \A seg, X :
             IInv /\ SegmentOK(seg, checkpoints, compacted, commits) /\ X = Part(commits, 0, seg.version)
               => Replays(ReadActions(seg), X, Must(X, clock)) /\ RowSet(X)
       (* A part of the rows holds what it must, if the rest need not be there.    *)
<1>HoldsOnly.
    ASSUME NEW rows, NEW X, NEW must, Holds(rows, X, must), NEW set,
           \A i \in 1 .. Len(rows) : rows[i] \in must => rows[i] \in set
    PROVE  Holds(Only(rows, set), X, must)
  <2> USE <1>HoldsOnly
  <2>1. rows \in Seq(Row) /\ Len(rows) \in Nat
    BY DEF Holds
  <2> DEFINE K == OnlyAt(rows, set, Len(rows))
  <2>2. PICK some : some = Only(rows, set)
    OBVIOUS
  <2>3. some \in Seq(Row) /\ \E pos : Picks(some, pos, rows, K)
    BY <2>1, <2>2, OnlyPicks
  <2>4. PICK pos : Picks(some, pos, rows, K)
    BY <2>3
  <2>5. \A i \in K : i \in 1 .. Len(rows)
    BY DEF OnlyAt
  <2>6. \A x \in 1 .. Len(some) : pos[x] \in 1 .. Len(rows) /\ some[x] = rows[pos[x]]
    BY <2>4, <2>5 DEF Picks
  <2>7. \A x \in 1 .. Len(some) : some[x] \in X /\ (Steady(some[x]) => IsNewest(some[x], X))
    BY <2>6 DEF Holds
  <2>8. ASSUME NEW x \in 1 .. Len(some), NEW y \in 1 .. Len(some), some[x].slot = some[y].slot
        PROVE  x = y
    <3>1. pos[x] = pos[y]
      <4>1. rows[pos[x]].slot = rows[pos[y]].slot
        BY Zenon, <2>6, <2>8
      <4> QED
        BY Zenon, <2>6, <4>1 DEF Holds
    <3>2. pos[x] \in Nat /\ pos[y] \in Nat /\ ~(x < y) /\ ~(y < x)
      <4>1. (x < y => pos[x] < pos[y]) /\ (y < x => pos[y] < pos[x])
        BY <2>4 DEF Picks
      <4>2. pos[x] \in Nat /\ pos[y] \in Nat
        BY <2>6
      <4> QED
        BY <3>1, <4>1, <4>2
    <3> QED
      BY <2>3, <3>2
  <2>9. ASSUME NEW row \in must, IsNewest(row, X) PROVE \E x \in 1 .. Len(some) : some[x] = row
    <3>1. PICK i \in 1 .. Len(rows) : rows[i] = row
      BY <2>9 DEF Holds
    <3>2. i \in K
      BY <3>1 DEF OnlyAt
    <3>3. PICK x \in 1 .. Len(some) : pos[x] = i
      BY <2>4, <3>2 DEF Picks
    <3> QED
      BY <2>6, <3>1, <3>3
  <2> QED
    BY <2>2, <2>3, <2>7, <2>8, <2>9 DEF Holds
(* The checkpoint of a segment, as it is read.                              *)
<1>CheckpointRead.
    ASSUME NEW seg, IInv, SegmentOK(seg, checkpoints, compacted, commits),
           NEW X, X = Part(commits, 0, First(seg) - 1)
    PROVE  Holds(ReadCheckpoint(seg), X, Must(X, clock))
  <2> USE <1>CheckpointRead
  <2>1. CASE seg.checkpoint = None
    <3>1. First(seg) - 1 = -1
      BY <2>1, SegmentCovers
    <3>2. X = {}
      BY <3>1 DEF Part
    <3>3. Must(X, clock) = {} /\ ReadCheckpoint(seg) = <<>>
      BY <2>1, <3>2 DEF Must, ReadCheckpoint
    <3> QED
      BY Zenon, <3>2, <3>3, NothingHeld
  <2>2. CASE seg.checkpoint # None
    <3>1. PICK v, file : v = seg.checkpoint /\ file = checkpoints[v]
      OBVIOUS
    <3>2. v \in DOMAIN checkpoints /\ X = Part(commits, 0, v)
      BY <2>2, <3>1, SegmentCovers
    <3>3. Holds(file.rows, X, Must(X, clock)) /\ file.format \in {"v1"} \cup ForeignFormats
      BY <3>1, <3>2 DEF IInv, CheckpointsOK
    <3>4. CASE file.format = "v2" /\ seg.schema = "v1"
      <4>1. ~SidecarsRead
        <5>1. "v2" \in ForeignFormats
          BY <3>3, <3>4
        <5>2. "v1" \in ForeignFormats
          BY <3>4, LogMaintenanceAssumption DEF SegmentOK, Schemas
        <5> QED
          BY <5>1, <5>2 DEF SidecarsRead
      <4> DEFINE set == {r \in Range(file.rows) : ~IsFileAction(r)}
      <4>2. ReadCheckpoint(seg) = Only(file.rows, set)
        BY <2>2, <3>1, <3>4 DEF ReadCheckpoint
      <4>3. ASSUME NEW i \in 1 .. Len(file.rows), file.rows[i] \in Must(X, clock)
            PROVE  file.rows[i] \in set
        <5>1. file.rows \in Seq(Row)
          BY <3>3 DEF Holds
        <5>2. file.rows[i] \in Range(file.rows)
          BY <5>1 DEF Range
        <5> QED
          BY <4>1, <4>3, <5>2 DEF Must
      <4> HIDE DEF set
      <4> QED
        BY <3>3, <4>2, <4>3, <1>HoldsOnly
    <3>5. CASE ~(file.format = "v2" /\ seg.schema = "v1")
      <4>1. ReadCheckpoint(seg) = file.rows
        BY <2>2, <3>1, <3>5 DEF ReadCheckpoint
      <4> QED
        BY <3>3, <4>1
    <3> QED
      BY <3>4, <3>5
  <2> QED
    BY <2>1, <2>2
(* Each file of the cover has what it must have of its range.               *)
<1>FileRead.
    ASSUME NEW seg, IInv, SegmentOK(seg, checkpoints, compacted, commits),
           NEW r \in CommitsOf(seg) \cup seg.compacted,
           NEW X, X = Part(commits, r[1], r[2]), NEW must,
           \A row \in must : ~Suppressed(row, clock)
    PROVE  Holds(RowsOfRange(r), X, {row \in X : row \in must \/ Steady(row)})
  <2> USE <1>FileRead
  <2>1. /\ seg.version \in Nat /\ seg.version < Len(commits) /\ First(seg) \in Nat
        /\ Len(commits) \in Nat
    <3>1. LogOK(commits)
      BY Zenon DEF IInv
    <3>2. Len(commits) \in Nat
      BY <3>1 DEF LogOK
    <3> QED
      BY Zenon, <3>2, SegmentCovers
  <2>2. CASE r \in CommitsOf(seg)
    <3>1. PICK v \in First(seg) .. seg.version : r = <<v, v>>
      BY <2>2 DEF CommitsOf, First
    <3>2. v \in Nat /\ v < Len(commits) /\ X = Part(commits, v, v) /\ RowsOfRange(r) = commits[v + 1]
      BY <2>1, <3>1 DEF RowsOfRange
    <3>3. {row \in X : row \in must \/ Steady(row)} \subseteq Part(commits, v, v)
      BY <3>2
    <3>4. LogOK(commits)
      BY DEF IInv
    <3> QED
      BY Zenon, <3>2, <3>3, <3>4, CommitHolds
  <2>3. CASE r \in seg.compacted
    <3>1. r \in DOMAIN compacted /\ r \in Compactions
      BY <2>3 DEF SegmentOK, IInv, CompactedOK
    <3>2. r[1] # r[2]
      <4>1. r \in Nat \X Nat /\ r[1] < r[2]
        BY Zenon, <3>1, LogMaintenanceAssumption
      <4> QED
        BY ONLY <4>1
    <3>3. RowsOfRange(r) = compacted[r] /\ Holds(compacted[r], X, LogMust(X, clock))
      BY <3>1, <3>2 DEF RowsOfRange, IInv, CompactedOK
    <3>4. {row \in X : row \in must \/ Steady(row)} \subseteq LogMust(X, clock)
      BY DEF LogMust
    <3> QED
      BY <3>3, <3>4, HoldsLess
  <2> QED
    BY <2>2, <2>3
<1> SUFFICES ASSUME NEW seg, IInv, SegmentOK(seg, checkpoints, compacted, commits),
                    NEW X, X = Part(commits, 0, seg.version)
             PROVE  Replays(ReadActions(seg), X, Must(X, clock)) /\ RowSet(X)
  OBVIOUS
<1>1. PICK cover, first, v, must : /\ cover = find_commit_cover(seg) /\ first = First(seg)
                                   /\ v = seg.version /\ must = Must(X, clock)
  OBVIOUS
<1>2. PICK cp : cp = ReadCheckpoint(seg)
  OBVIOUS
<1>3. PICK files : files = [k \in 1 .. Len(cover) |-> RowsOfRange(cover[k])]
  BY Zenon
<1>4. /\ Covers(seg) /\ v \in Nat /\ v < Len(commits) /\ first \in Nat /\ first <= v + 1
      /\ LogOK(commits)
  BY <1>1, SegmentCovers DEF IInv
<1>5. Chain(cover, first, v) /\ \A k \in 1 .. Len(cover) : cover[k] \in CommitsOf(seg) \cup seg.compacted
  BY <1>1, <1>4, CoverIs
<1>6. \A row \in must : ~Suppressed(row, clock) /\ row \in X
  BY <1>1 DEF Must
<1>7. ASSUME NEW k \in 1 .. Len(cover), NEW Y, Y = Part(commits, cover[k][1], cover[k][2])
      PROVE  Holds(files[k], Y, {row \in Y : row \in must \/ Steady(row)})
  <2>1. PICK r : r = cover[k]
    OBVIOUS
  <2>2. files[k] = RowsOfRange(r) /\ r \in CommitsOf(seg) \cup seg.compacted /\ Y = Part(commits, r[1], r[2])
    BY <1>3, <1>5, <1>7, <2>1
  <2>3. Holds(RowsOfRange(r), Y, {row \in Y : row \in must \/ Steady(row)})
    BY Zenon, <1>6, <2>2, <1>FileRead
  <2> QED
    BY <2>2, <2>3
<1>8. PICK Z : Z = Part(commits, 0, first - 1)
  OBVIOUS
<1>9. Holds(cp, Z, {row \in Z : row \in must})
  <2>1. Holds(cp, Z, Must(Z, clock))
    BY <1>1, <1>2, <1>8, <1>CheckpointRead
  <2>2. {row \in Z : row \in must} \subseteq Must(Z, clock)
    BY <1>1 DEF Must
  <2> QED
    BY <2>1, <2>2, HoldsLess
<1>10. must \subseteq Part(commits, 0, v)
  BY <1>1, <1>6
<1>11. v \in Int /\ 0 \in Nat /\ 0 <= first
  BY <1>4
<1>12. ReadsFrom(commits, 0, first, v, cover, files, cp, must)
  BY Zenon, <1>4, <1>5, <1>7, <1>8, <1>9, <1>10, <1>11 DEF ReadsFrom
<1>13. Replays(StreamOf(cover, files, cp), Part(commits, 0, v), must)
  BY <1>12, ReadReplays
<1>14. ReadActions(seg) = StreamOf(cover, files, cp)
  <2>1. cover \in Seq(Nat \X Nat)
    BY <1>5 DEF Chain
  <2>2. DOMAIN cover = 1 .. Len(cover)
    BY <2>1
  <2>3. [i \in DOMAIN cover |-> FromLog(RowsOfRange(cover[i]))] = [k \in 1 .. Len(cover) |-> FromLog(files[k])]
    BY <1>3, <2>2
  <2>4. ReadActions(seg) =
          FlattenSeq([i \in DOMAIN cover |-> FromLog(RowsOfRange(cover[i]))]) \o FromCheckpoint(cp)
    BY <1>1, <1>2 DEF ReadActions
  <2> QED
    BY Zenon, <2>3, <2>4 DEF StreamOf
<1>15. RowSet(X)
  BY <1>1, <1>4, <1>11, PartSet
<1> QED
  BY <1>1, <1>13, <1>14, <1>15

(* Every snapshot a reader can hold has such a segment.                     *)
LEMMA NewestCheckpointIs ==
    ASSUME WellOrdered, IInv, NEW lo \in Nat, NEW v \in Nat, NEW c, c = NewestCheckpoint(lo, v)
    PROVE  \/ c = None /\ \A d \in DOMAIN checkpoints : ~(lo <= d /\ d <= v)
           \/ /\ c \in DOMAIN checkpoints /\ c \in Nat /\ lo <= c /\ c <= v
              /\ \A d \in DOMAIN checkpoints : d <= v => d <= c
<1> DEFINE T == {d \in DOMAIN checkpoints : lo <= d /\ d <= v}
<1>1. \A d \in DOMAIN checkpoints : d \in Nat
  BY DEF IInv, CheckpointsOK
<1>2. CASE T = {}
  BY <1>2 DEF NewestCheckpoint
<1>3. CASE T # {}
  <2>1. T \in SUBSET Nat /\ \A d \in T : d <= v
    BY <1>1
  <2>2. PICK top \in T : \A d \in T : d <= top
    <3> HIDE DEF T
    <3> QED
      BY Zenon, <1>3, <2>1, GreatestElement
  <2>3. ASSUME NEW d \in DOMAIN checkpoints, d <= v PROVE d <= top
    <3>1. CASE lo <= d
      BY <2>2, <2>3, <3>1
    <3>2. CASE ~(lo <= d)
      BY <1>1, <2>1, <2>2, <3>2
    <3> QED
      BY <3>1, <3>2
  <2>4. /\ top \in DOMAIN checkpoints /\ lo <= top /\ top <= v
        /\ \A d \in DOMAIN checkpoints : d <= v => d <= top
    BY <2>2, <2>3
  <2>5. c = CHOOSE x \in DOMAIN checkpoints :
              /\ lo <= x /\ x <= v /\ \A d \in DOMAIN checkpoints : d <= v => d <= x
    BY <2>4 DEF NewestCheckpoint
  <2>6. /\ c \in DOMAIN checkpoints /\ lo <= c /\ c <= v
        /\ \A d \in DOMAIN checkpoints : d <= v => d <= c
    BY <2>4, <2>5
  <2> QED
    BY <1>1, <2>6
<1> QED
  BY <1>2, <1>3

(* LogSegment::for_snapshot gives a segment that the invariant allows, of   *)
(* the version asked for.                                                   *)
LEMMA SegmentListed ==
    ASSUME WellOrdered, IInv, NEW v \in 0 .. Latest
    PROVE  /\ SegmentOK(SegmentFor(v), checkpoints, compacted, commits)
           /\ SegmentFor(v) \in AnySegment /\ SegmentFor(v).version = v
<1>1. PICK lo : lo = IF HintUsable(v) THEN hint.version ELSE 0
  OBVIOUS
<1>2. PICK cp : cp = NewestCheckpoint(lo, v)
  OBVIOUS
<1>3. v \in Nat /\ v < Len(commits)
  BY DEF Latest, IInv, LogOK
<1>4. lo \in Nat
  BY <1>1 DEF HintUsable, IInv, HintOK, CheckpointsOK
<1>5. cp = None \/ (cp \in DOMAIN checkpoints /\ cp \in Nat /\ cp <= v)
  BY <1>2, <1>3, <1>4, NewestCheckpointIs
<1>6. HintSchema \in Schemas
  BY DEF HintSchema, Schemas, IInv, HintOK
<1>7. PICK files : files = {c \in DOMAIN compacted : lo <= c[1] /\ c[2] <= v /\ (cp # None => cp < c[1])}
  BY Zenon
<1>8. PICK seg : seg = SegmentFor(v)
  OBVIOUS
<1>9. seg = [version |-> v, checkpoint |-> cp, compacted |-> files, schema |-> HintSchema]
  BY <1>1, <1>2, <1>7, <1>8 DEF SegmentFor, Segment
<1>10. \A c \in files : c \in Nat \X Nat /\ c \in DOMAIN compacted
  BY <1>7, LogMaintenanceAssumption DEF IInv, CompactedOK
<1>11. seg \in AnySegment
  BY <1>3, <1>5, <1>6, <1>9, <1>10 DEF AnySegment
<1>12. /\ seg.version = v /\ seg.checkpoint = cp /\ seg.compacted = files /\ seg.schema = HintSchema
  BY <1>9
<1>13. ASSUME NEW c \in files PROVE First(seg) <= c[1] /\ c[2] <= v
  <2>1. c[1] \in Nat /\ lo <= c[1] /\ c[2] <= v /\ (cp # None => cp < c[1])
    BY <1>7, <1>10
  <2> QED
    BY <1>4, <1>5, <1>12, <2>1 DEF First
<1>14. SegmentOK(seg, checkpoints, compacted, commits)
  BY <1>3, <1>5, <1>6, <1>10, <1>12, <1>13 DEF SegmentOK
<1> QED
  BY <1>8, <1>11, <1>12, <1>14

----------------------------------------------------------------------------
(* The invariant is inductive.                                              *)

(* A compaction reads the commits of its range, newest first.               *)
OneByOne(lo, hi) == [i \in 1 .. (hi - lo + 1) |-> <<hi - i + 1, hi - i + 1>>]

CommitFiles(cs, lo, hi) == [i \in 1 .. (hi - lo + 1) |-> cs[hi - i + 2]]

----------------------------------------------------------------------------
(* What a scan and the replays of one slot return of what is read.          *)

(* The slots a scan has recorded when it has passed k rows.                 *)
ScanSeen(stream, k) ==
    {stream[j].row.slot : j \in {i \in 1 .. k : stream[i].is_log_batch /\ ~ScanIgnores(stream[i])}}

(* The adds a scan has returned when it has passed k rows.                  *)
ScanKept(stream, k) ==
    {stream[j].row : j \in {i \in 1 .. k :
        /\ ~ScanIgnores(stream[i]) /\ stream[i].row.type = "add"
        /\ stream[i].row.slot \notin ScanSeen(stream, i - 1)}}

(* AddRemoveDedupVisitor returns the adds that no row of a commit precedes. *)
LEMMA ScanReturns ==
    ASSUME WellOrdered, NEW E, NEW stream \in Seq(E)
    PROVE  ScanFiles(stream) = ScanKept(stream, Len(stream))
<1> DEFINE n == Len(stream)
           ignored == {e \in Range(stream) : ScanIgnores(e)}
<1>1. n \in Nat
  OBVIOUS
<1>2. \A j \in 1 .. n : stream[j] \in ignored <=> ScanIgnores(stream[j])
  BY DEF Range
<1>3. ScanFiles(stream) = AddsLeft(stream, ignored, n)
  BY DeduplicatedIs DEF ScanFiles
<1> HIDE DEF ignored
<1>4. \A k \in 0 .. n : SlotsSeen(stream, ignored, k) = ScanSeen(stream, k)
  BY <1>1, <1>2 DEF SlotsSeen, ScanSeen
<1>5. \A j \in 1 .. n : j - 1 \in 0 .. n
  BY <1>1
<1>6. AddsLeft(stream, ignored, n) = ScanKept(stream, n)
  BY <1>2, <1>4, <1>5 DEF AddsLeft, ScanKept
<1> QED
  BY <1>3, <1>6

(* They return the passing rows that no passing row of their slot precedes. *)
LEMMA FirstRowsAre ==
    ASSUME WellOrdered
    PROVE  \A E : \A stream \in Seq(E) : \A passing :
             FirstRows(stream, passing) = {stream[i].row : i \in FirstAt(stream, passing, Len(stream))}
       (* The visitors that keep the first row of a slot, step by step.            *)
<1>FirstSteps.
    ASSUME NEW E, NEW stream \in Seq(E), NEW passing
    PROVE  \E f : /\ f[0] = {}
                  /\ \A i \in 1 .. Len(stream) : f[i] = FirstStep(f[i - 1], stream[i], passing)
                  /\ FirstRows(stream, passing) = f[Len(stream)]
  <2> DEFINE n == Len(stream)
             Acc == SUBSET {stream[i].row : i \in 1 .. n}
             base == {}
             step == [i \in 1 .. n |-> [a \in Acc |-> FirstStep(a, stream[i], passing)]]
  <2>1. n \in Nat /\ base \in Acc
    OBVIOUS
  <2>2. ASSUME NEW a \in Acc, NEW i \in 1 .. n PROVE FirstStep(a, stream[i], passing) \in Acc
    BY DEF FirstStep, FirstOfSlot
  <2>3. step \in [1 .. n -> [Acc -> Acc]]
    <3> HIDE DEF Acc
    <3> QED
      BY <2>2
  <2>4. PICK f : Iterates(f, n, Acc, base, step)
    <3> HIDE DEF Acc, base, n, step
    <3> QED
      BY <2>1, <2>3, RecursionExists
  <2>5. f \in [0 .. n -> Acc] /\ f[0] = base /\ \A i \in 1 .. n : f[i] = step[i][f[i - 1]]
    <3> HIDE DEF Acc, base, n, step
    <3> QED
      BY <2>4 DEF Iterates
  <2>6. ASSUME NEW i \in 1 .. n PROVE f[i] = FirstStep(f[i - 1], stream[i], passing)
    <3>1. i - 1 \in 0 .. n
      OBVIOUS
    <3> HIDE DEF Acc
    <3>2. f[i - 1] \in Acc
      BY <2>5, <3>1
    <3> QED
      BY Zenon, <2>5, <3>2
  <2>7. f = [i \in 0 .. n |-> IF i = 0 THEN base ELSE FirstStep(f[i - 1], stream[i], passing)]
    <3> HIDE DEF Acc, base, n
    <3> QED
      BY <2>1, <2>5, <2>6
  <2>8. PICK g : /\ g = [i \in 0 .. n |-> IF i = 0 THEN base ELSE FirstStep(g[i - 1], stream[i], passing)]
                 /\ FirstRows(stream, passing) = g[n]
    BY Zenon, <2>7 DEF FirstRows, Visit, FirstStep
  <2>9. g[0] = base /\ \A i \in 1 .. n : g[i] = FirstStep(g[i - 1], stream[i], passing)
    <3> HIDE DEF Acc, base, n
    <3> QED
      BY <2>1, <2>8
  <2> QED
    BY Zenon, <2>8, <2>9
<1> SUFFICES ASSUME NEW E, NEW stream \in Seq(E), NEW passing
             PROVE  FirstRows(stream, passing) = {stream[i].row : i \in FirstAt(stream, passing, Len(stream))}
  OBVIOUS
<1> DEFINE n == Len(stream)
           Got(k) == {stream[i].row : i \in FirstAt(stream, passing, k)}
<1>1. n \in Nat
  OBVIOUS
<1>2. PICK f : /\ f[0] = {}
               /\ \A i \in 1 .. n : f[i] = FirstStep(f[i - 1], stream[i], passing)
               /\ FirstRows(stream, passing) = f[n]
  BY Zenon, <1>FirstSteps
<1> DEFINE S == {k \in 0 .. n : /\ f[k] = Got(k)
                                /\ \A i \in 1 .. k : stream[i].row \in passing =>
                                     \E r \in Got(k) : r.slot = stream[i].row.slot}
<1>3. 0 \in S
  BY <1>1, <1>2 DEF FirstAt
<1>4. ASSUME NEW k \in 1 .. n, k - 1 \in S PROVE k \in S
  <2> DEFINE row == stream[k].row
  <2>1. \A i \in Nat : i \in 1 .. k <=> i \in 1 .. k - 1 \/ i = k
    BY <1>1
  <2>2. /\ f[k - 1] = Got(k - 1)
        /\ \A i \in 1 .. k - 1 : stream[i].row \in passing =>
             \E r \in Got(k - 1) : r.slot = stream[i].row.slot
    BY <1>4
  <2>3. f[k] = IF row \in passing THEN FirstOfSlot(f[k - 1], row) ELSE f[k - 1]
    BY <1>2 DEF FirstStep
  <2>4. \A r \in Got(k - 1) : \E i \in 1 .. k - 1 : stream[i].row = r /\ r \in passing
    BY DEF FirstAt
  <2>5. FirstAt(stream, passing, k) = FirstAt(stream, passing, k - 1) \cup
          {i \in {k} : row \in passing /\ \A j \in 1 .. k - 1 : stream[j].row \in passing =>
                                            stream[j].row.slot # row.slot}
    BY <2>1 DEF FirstAt
  <2>6. (\E r \in Got(k - 1) : r.slot = row.slot) <=>
          \E j \in 1 .. k - 1 : stream[j].row \in passing /\ stream[j].row.slot = row.slot
    BY <2>2, <2>4
  <2>7. Got(k) = IF row \in passing /\ ~ \E r \in Got(k - 1) : r.slot = row.slot
                 THEN Got(k - 1) \cup {row} ELSE Got(k - 1)
    BY <2>5, <2>6
  <2>8. f[k] = Got(k)
    BY Zenon, <2>2, <2>3, <2>7 DEF FirstOfSlot
  <2>9. k \in 0 .. n
    BY <1>1
  <2>10. ASSUME NEW i \in 1 .. k, stream[i].row \in passing
         PROVE  \E r \in Got(k) : r.slot = stream[i].row.slot
    <3> HIDE DEF Got
    <3>1. CASE i = k
      BY <2>7, <2>10, <3>1
    <3>2. CASE i # k
      BY <2>1, <2>2, <2>7, <2>10, <3>2
    <3> QED
      BY <3>1, <3>2
  <2> HIDE DEF Got
  <2> QED
    BY <2>8, <2>9, <2>10
<1>5. n \in S
  <2> HIDE DEF S
  <2>1. \A k \in 0 .. n : k \in S
    BY Zenon, <1>1, <1>3, <1>4, UpTo
  <2> QED
    BY <1>1, <2>1
<1> QED
  BY <1>2, <1>5

(* The first row of a slot, when it must be there, is the newest.           *)
LEMMA NewestFirst ==
    ASSUME NEW s, NEW X, NEW must, Replays(s, X, must), RowSet(X),
           NEW row \in X, IsNewest(row, X), NEW i \in 1 .. Len(s), s[i].row = row,
           NEW j \in 1 .. Len(s), s[j].row.slot = row.slot
    PROVE  i <= j /\ (i = j \/ s[i].is_log_batch)
<1>1. s \in Seq(Batch(Row)) /\ Len(s) \in Nat
  <2>1. s \in Seq(Batch(Row))
    BY Zenon DEF Replays
  <2> QED
    BY ONLY <2>1
<1>2. ASSUME j < i PROVE FALSE
  <2>1. s[j].row \in X /\ row.version < s[j].row.version
    BY <1>2 DEF Replays
  <2>2. s[j].row.version <= row.version
    BY <2>1 DEF IsNewest
  <2>3. s[j].row.version \in Nat /\ row.version \in Nat
    BY <2>1, RowType DEF RowSet
  <2> QED
    BY <2>1, <2>2, <2>3
<1>3. i < j => s[i].is_log_batch
  BY DEF Replays
<1> QED
  BY <1>1, <1>2, <1>3

(* The visitors that keep the first row of a slot keep the newest.          *)
LEMMA FirstIsNewest ==
    ASSUME WellOrdered, NEW s, NEW X, NEW must, Replays(s, X, must), RowSet(X), NEW passing,
           NEW row \in must, row \in X, IsNewest(row, X), row \in passing
    PROVE  row \in FirstRows(s, passing)
<1>1. s \in Seq(Batch(Row)) /\ Len(s) \in Nat
  <2>1. s \in Seq(Batch(Row))
    BY Zenon DEF Replays
  <2> QED
    BY ONLY <2>1
<1>2. PICK i \in 1 .. Len(s) : s[i].row = row
  BY DEF Replays
<1>3. ASSUME NEW j \in 1 .. i - 1 PROVE s[j].row.slot # row.slot
  <2>1. j \in 1 .. Len(s) /\ ~(i <= j)
    BY <1>1
  <2> QED
    BY <1>2, <2>1, NewestFirst
<1>4. i \in FirstAt(s, passing, Len(s))
  BY <1>2, <1>3 DEF FirstAt
<1>5. FirstRows(s, passing) = {s[k].row : k \in FirstAt(s, passing, Len(s))}
  BY <1>1, FirstRowsAre
<1> QED
  BY <1>2, <1>4, <1>5

(* A scan that returns a file knows its newest action: it is not a remove,  *)
(* and it is the one returned unless the newest add was pruned.             *)
LEMMA ScanNewest ==
    ASSUME WellOrdered, NEW s, NEW X, NEW must, Replays(s, X, must), RowSet(X), TombstonesOutlive,
           NEW row \in ScanFiles(s)
    PROVE  \E live \in Newest(X, "add") :
             live.slot = row.slot /\ (row.slot \in Irrelevant \/ row = live)
<1>1. s \in Seq(Batch(Row)) /\ Len(s) \in Nat
  <2>1. s \in Seq(Batch(Row))
    BY Zenon DEF Replays
  <2> QED
    BY ONLY <2>1
<1>2. row \in ScanKept(s, Len(s))
  BY <1>1, ScanReturns
<1>3. PICK j \in 1 .. Len(s) :
        /\ row = s[j].row /\ row.type = "add" /\ row.slot \notin ScanSeen(s, j - 1)
  BY <1>2 DEF ScanKept
<1>4. row \in X /\ row \in Row
  BY <1>3 DEF Replays, RowSet
<1>5. Steady(s[j].row)
  BY <1>3 DEF Steady, IsFileAction
<1>6. PICK k \in 1 .. j : s[k].row.slot = row.slot /\ IsNewest(s[k].row, X)
  BY <1>3, <1>5 DEF Replays
<1>7. PICK new : new = s[k].row
  OBVIOUS
<1>8. k \in 1 .. Len(s) /\ new \in X /\ new \in Row
  <2>1. k \in 1 .. Len(s)
    BY <1>1
  <2> QED
    BY <1>7, <2>1 DEF Replays, RowSet
<1>9. IsFileAction(new)
  <2>1. row.slot \in Files
    BY <1>3, <1>4, RowType DEF Fits, IsFileAction
  <2> QED
    BY Zenon, <1>6, <1>7, <1>8, <2>1, RowType DEF Fits
<1>10. CASE k = j
  <2>1. new = row
    BY <1>3, <1>7, <1>10
  <2> QED
    BY <1>3, <1>6, <1>7, <1>8, <2>1 DEF Newest
<1>11. CASE k # j
  <2>1. k \in 1 .. j - 1 /\ k < j
    BY <1>1, <1>11
  <2>2. s[k].is_log_batch
    BY <1>3, <1>6, <1>8, <2>1 DEF Replays
  <2>3. ScanIgnores(s[k])
    <3> SUFFICES ASSUME ~ScanIgnores(s[k]) PROVE FALSE
      OBVIOUS
    <3>1. s[k].row.slot \in ScanSeen(s, j - 1)
      BY <2>1, <2>2 DEF ScanSeen
    <3> QED
      BY <1>3, <1>6, <3>1
  <2>4. new.type = "add" /\ new.slot \in Irrelevant
    BY <1>7, <1>9, <2>2, <2>3 DEF ScanIgnores, Pruned
  <2> QED
    BY <1>6, <1>7, <1>8, <2>4 DEF Newest
<1> QED
  BY <1>10, <1>11

(* A live file that may match is returned.                                  *)
LEMMA ScanReturnsLive ==
    ASSUME WellOrdered, NEW s, NEW X, NEW must, Replays(s, X, must), RowSet(X),
           NEW live \in Newest(X, "add"), live \in must, live.slot \notin Irrelevant
    PROVE  live \in ScanFiles(s)
<1>1. s \in Seq(Batch(Row)) /\ Len(s) \in Nat
  <2>1. s \in Seq(Batch(Row))
    BY Zenon DEF Replays
  <2> QED
    BY ONLY <2>1
<1>2. live \in X /\ live.type = "add" /\ IsNewest(live, X)
  BY DEF Newest
<1>3. PICK i \in 1 .. Len(s) : s[i].row = live
  BY <1>2 DEF Replays
<1>4. ~ScanIgnores(s[i])
  BY <1>2, <1>3 DEF ScanIgnores, Pruned, IsFileAction
<1>5. live.slot \notin ScanSeen(s, i - 1)
  <2> SUFFICES ASSUME NEW j \in 1 .. i - 1, s[j].row.slot = live.slot PROVE FALSE
    BY DEF ScanSeen
  <2>1. j \in 1 .. Len(s) /\ ~(i <= j)
    BY <1>1
  <2> QED
    BY <1>2, <1>3, <2>1, NewestFirst
<1>6. live \in ScanKept(s, Len(s))
  BY <1>2, <1>3, <1>4, <1>5 DEF ScanKept
<1> QED
  BY <1>1, <1>6, ScanReturns

(* The first row of a slot that passes the filter is the newest action of   *)
(* the log on it, if the files must hold the actions that pass.             *)
LEMMA FirstIsOnly ==
    ASSUME WellOrdered, NEW s, NEW X, NEW must, Replays(s, X, must), RowSet(X), NEW types,
           \A row \in X : row.type \in types => row \in must,
           \A a, b \in X : a.slot = b.slot /\ a.type \in types => b.type \in types,
           NEW passing, OfTypes(passing, s, types), NEW row \in FirstRows(s, passing)
    PROVE  row \in X /\ row.type \in types /\ IsNewest(row, X)
<1>1. s \in Seq(Batch(Row)) /\ Len(s) \in Nat
  <2>1. s \in Seq(Batch(Row))
    BY Zenon DEF Replays
  <2> QED
    BY ONLY <2>1
<1>2. PICK i \in FirstAt(s, passing, Len(s)) : row = s[i].row
  <2>1. FirstRows(s, passing) = {s[k].row : k \in FirstAt(s, passing, Len(s))}
    BY <1>1, FirstRowsAre
  <2> QED
    BY Zenon, <2>1
<1>3. /\ i \in 1 .. Len(s) /\ row \in passing /\ row.type \in types /\ row \in X
      /\ \A j \in 1 .. i - 1 : s[j].row \in passing => s[j].row.slot # row.slot
  <2>1. /\ i \in 1 .. Len(s) /\ row \in passing
        /\ \A j \in 1 .. i - 1 : s[j].row \in passing => s[j].row.slot # row.slot
    BY Zenon, <1>2 DEF FirstAt
  <2>2. row \in X
    BY <1>2, <2>1 DEF Replays
  <2> QED
    BY <2>1, <2>2 DEF OfTypes
<1>4. PICK new \in X : new.slot = row.slot /\ IsNewest(new, X)
  BY <1>3, NewestExists
<1>5. new.type \in types /\ new \in must
  BY Zenon, <1>3, <1>4
<1>6. PICK j \in 1 .. Len(s) : s[j].row = new
  BY <1>4, <1>5 DEF Replays
<1>7. j <= i
  BY Zenon, <1>2, <1>3, <1>4, <1>6, NewestFirst
<1>8. new \in passing
  BY <1>1, <1>5, <1>6 DEF RowsOf, OfTypes
<1>9. ~(j \in 1 .. i - 1)
  BY <1>3, <1>4, <1>6, <1>8
<1>10. j = i
  BY <1>1, <1>3, <1>7, <1>9
<1> QED
  BY Zenon, <1>2, <1>3, <1>4, <1>6, <1>10

=============================================================================
