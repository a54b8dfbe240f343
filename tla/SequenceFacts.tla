--------------------------- MODULE SequenceFacts ----------------------------
(***************************************************************************)
(* What the operators of RowVisitors return, and the facts about naturals  *)
(* that this and the other proofs rest on: to reason about CHOOSE of the   *)
(* newest version, and by induction, from the least counterexample.        *)
(*                                                                         *)
(* That the naturals are well ordered is a hypothesis of the lemmas here   *)
(* and of those that use them.  The modules that state theorems about a    *)
(* specification discharge it, from the library's induction theorems: in   *)
(* the scope of every obligation those would double the time that the      *)
(* proofs take.                                                            *)
(***************************************************************************)
EXTENDS RowVisitors, TLAPS

----------------------------------------------------------------------------
(* The naturals.                                                            *)

(* A nonempty set of naturals has a least element.                          *)
WellOrdered == \A T \in SUBSET Nat : T # {} => \E m \in T : \A k \in T : m <= k

(* The same, where it is used.                                              *)
LEMMA LeastElement ==
    ASSUME WellOrdered, NEW T \in SUBSET Nat, T # {}
    PROVE  \E m \in T : \A k \in T : m <= k
  BY DEF WellOrdered

(* A nonempty bounded set of naturals has a greatest element.                 *)
LEMMA GreatestElement ==
    ASSUME WellOrdered, NEW n \in Nat, NEW T \in SUBSET Nat, T # {}, \A k \in T : k <= n
    PROVE  \E m \in T : \A k \in T : k <= m
<1> DEFINE Bounds == {b \in Nat : \A k \in T : k <= b}
<1>1. PICK b \in Bounds : \A c \in Bounds : b <= c
  <2>1. Bounds \in SUBSET Nat /\ n \in Bounds
    OBVIOUS
  <2> HIDE DEF Bounds
  <2> QED
    BY <2>1, LeastElement
<1>2. b \in Nat /\ \A k \in T : k <= b
  BY <1>1
<1>3. b \in T
  <2> SUFFICES ASSUME b \notin T PROVE FALSE
    OBVIOUS
  <2>1. PICK k \in T : TRUE
    OBVIOUS
  <2>2. b - 1 \in Nat /\ \A j \in T : j <= b - 1
    <3>1. \A j \in T : j \in Nat /\ j <= b /\ j # b
      BY <1>2
    <3> QED
      BY <1>2, <2>1, <3>1
  <2>3. b - 1 \in Bounds
    BY <2>2
  <2>4. b <= b - 1
    BY <1>1, <2>3
  <2> QED
    BY <1>2, <2>4
<1> QED
  BY <1>2, <1>3

(* Induction on an interval.                                                  *)
LEMMA UpTo ==
    ASSUME WellOrdered, NEW n \in Nat, NEW S, 0 \in S, \A k \in 1 .. n : k - 1 \in S => k \in S
    PROVE  \A k \in 0 .. n : k \in S
<1> DEFINE Bad == {k \in 0 .. n : k \notin S}
<1>1. ASSUME Bad # {} PROVE FALSE
  <2>1. Bad \in SUBSET Nat
    OBVIOUS
  <2>2. PICK k \in Bad : \A j \in Bad : k <= j
    <3> HIDE DEF Bad
    <3> QED
      BY <1>1, <2>1, LeastElement
  <2>3. k \in 0 .. n /\ k \notin S /\ k # 0
    BY <2>2
  <2>4. k \in 1 .. n /\ k - 1 \in 0 .. n /\ ~(k <= k - 1)
    BY <2>3
  <2>5. k - 1 \in S
    BY <2>2, <2>4
  <2> QED
    BY <2>3, <2>4, <2>5
<1> QED
  BY <1>1

(* f starts with base and goes on, up to n, with the steps.                   *)
Iterates(f, n, S, base, step) ==
    /\ f \in [0 .. n -> S] /\ f[0] = base
    /\ \A i \in 1 .. n : f[i] = step[i][f[i - 1]]

(* A function that is defined by recursion on an interval exists.             *)
LEMMA RecursionExists ==
    ASSUME WellOrdered, NEW n \in Nat, NEW S, NEW base \in S, NEW step \in [1 .. n -> [S -> S]]
    PROVE  \E f : Iterates(f, n, S, base, step)
<1> DEFINE Defines(f, k) ==
             /\ f \in [0 .. k -> S] /\ f[0] = base
             /\ \A i \in 1 .. k : f[i] = step[i][f[i - 1]]
           Bad == {k \in 0 .. n : ~ \E f : Defines(f, k)}
<1>1. Bad \in SUBSET Nat /\ \A k \in Bad : k \in 0 .. n /\ ~ \E f : Defines(f, k)
  OBVIOUS
<1>2. \A k \in 0 .. n : k \notin Bad => \E f : Defines(f, k)
  OBVIOUS
<1>3. ASSUME Bad # {} PROVE FALSE
  <2>1. PICK k \in Bad : \A j \in Bad : k <= j
    <3> HIDE DEF Bad
    <3> QED
      BY <1>1, <1>3, LeastElement
  <2>2. CASE k = 0
    <3>1. Defines([i \in 0 .. 0 |-> base], 0)
      OBVIOUS
    <3> QED
      BY <1>1, <2>1, <2>2, <3>1
  <2>3. CASE k # 0
    <3>1. k \in 1 .. n /\ k - 1 \in 0 .. n /\ k - 1 \in Nat /\ k \in Nat
      BY <1>1, <2>1, <2>3
    <3>2. k - 1 \notin Bad
      <4> HIDE DEF Bad
      <4> QED
        BY <2>1, <3>1
    <3>3. PICK g : Defines(g, k - 1)
      <4> HIDE DEF Bad, Defines
      <4> QED
        BY <1>2, <3>1, <3>2
    <3> DEFINE f == [i \in 0 .. k |-> IF i = k THEN step[k][g[k - 1]] ELSE g[i]]
    <3>4. g[k - 1] \in S
      BY <3>1, <3>3
    <3>5. step[k][g[k - 1]] \in S
      BY <3>1, <3>4
    <3>6. \A i \in 0 .. k : i = k \/ i \in 0 .. k - 1
      BY <3>1
    <3>7. f \in [0 .. k -> S]
      BY <3>3, <3>5, <3>6
    <3>8. f[0] = base
      BY <3>1, <3>3
    <3>9. ASSUME NEW i \in 1 .. k PROVE f[i] = step[i][f[i - 1]]
      <4>1. i - 1 \in 0 .. k /\ i - 1 # k /\ f[i - 1] = g[i - 1] /\ i \in 0 .. k
        BY <3>1
      <4>2. CASE i = k
        BY <4>1, <4>2
      <4>3. CASE i # k
        <5>1. i \in 1 .. k - 1
          BY <3>1, <4>3
        <5>2. f[i] = g[i]
          BY <4>1, <4>3
        <5> QED
          BY <3>3, <4>1, <5>1, <5>2
      <4> QED
        BY <4>2, <4>3
    <3> HIDE DEF f
    <3>10. Defines(f, k)
      BY <3>7, <3>8, <3>9
    <3> QED
      BY <1>1, <2>1, <3>10
  <2> QED
    BY <2>2, <2>3
<1>4. n \in 0 .. n /\ n \notin Bad
  <2> HIDE DEF Bad
  <2> QED
    BY <1>3
<1>5. \E f : Defines(f, n)
  <2> HIDE DEF Bad, Defines
  <2> QED
    BY <1>2, <1>4
<1> QED
  BY <1>5 DEF Iterates

----------------------------------------------------------------------------
(* Only.                                                                    *)

OnlyStep(acc, row, set) == IF row \in set THEN Append(acc, row) ELSE acc

(* The visitor behind Only, step by step.                                   *)
LEMMA OnlySteps ==
    ASSUME WellOrdered, NEW E, NEW rows \in Seq(E), NEW set
    PROVE  \E f : /\ f[0] = <<>>
                  /\ \A i \in 1 .. Len(rows) : f[i] = OnlyStep(f[i - 1], rows[i], set)
                  /\ Only(rows, set) = f[Len(rows)]
<1> DEFINE n == Len(rows)
           Acc == Seq(E)
           base == <<>>
           step == [i \in 1 .. n |-> [a \in Acc |-> OnlyStep(a, rows[i], set)]]
<1>1. n \in Nat /\ base \in Acc
  OBVIOUS
<1>2. ASSUME NEW a \in Acc, NEW i \in 1 .. n PROVE OnlyStep(a, rows[i], set) \in Acc
  BY DEF OnlyStep
<1>3. step \in [1 .. n -> [Acc -> Acc]]
  <2> HIDE DEF Acc
  <2> QED
    BY <1>2
<1>4. PICK f : Iterates(f, n, Acc, base, step)
  <2> HIDE DEF Acc, n, base, step
  <2> QED
    BY <1>1, <1>3, RecursionExists
<1>5. f \in [0 .. n -> Acc] /\ f[0] = base /\ \A i \in 1 .. n : f[i] = step[i][f[i - 1]]
  <2> HIDE DEF Acc, n, base, step
  <2> QED
    BY <1>4 DEF Iterates
<1>6. ASSUME NEW i \in 1 .. n PROVE f[i] = OnlyStep(f[i - 1], rows[i], set)
  <2>1. i - 1 \in 0 .. n
    OBVIOUS
  <2> HIDE DEF Acc
  <2>2. f[i - 1] \in Acc
    BY <1>5, <2>1
  <2> QED
    BY <1>5, <2>2
<1>7. f = [i \in 0 .. n |-> IF i = 0 THEN base ELSE OnlyStep(f[i - 1], rows[i], set)]
  <2> HIDE DEF Acc, n, base
  <2> QED
    BY <1>1, <1>5, <1>6
<1>8. PICK g : /\ g = [i \in 0 .. n |-> IF i = 0 THEN base ELSE OnlyStep(g[i - 1], rows[i], set)]
               /\ Only(rows, set) = g[n]
  BY Zenon, <1>7 DEF Only, Visit, OnlyStep
<1>9. g[0] = base /\ \A i \in 1 .. n : g[i] = OnlyStep(g[i - 1], rows[i], set)
  <2> HIDE DEF Acc, n, base
  <2> QED
    BY <1>1, <1>8
<1> QED
  BY Zenon, <1>8, <1>9

----------------------------------------------------------------------------
(* Streams are put together from sequences of rows.                         *)

(* flat consists of the first k sequences, one after the other: the block   *)
(* of a position is the sequence it comes from, and positions of one block  *)
(* are in its order.                                                        *)
Blocks(flat, block, seqs, k) ==
    /\ block \in [1 .. Len(flat) -> 1 .. k]
    /\ \A i, j \in 1 .. Len(flat) : i <= j => block[i] <= block[j]
    /\ \A j \in 1 .. Len(flat) :
         \E x \in 1 .. Len(seqs[block[j]]) : flat[j] = seqs[block[j]][x]
    /\ \A b \in 1 .. k : \A x \in 1 .. Len(seqs[b]) :
         \E j \in 1 .. Len(flat) : block[j] = b /\ flat[j] = seqs[b][x]
    /\ \A i, j \in 1 .. Len(flat) : i < j /\ block[i] = block[j] =>
         \E x, y \in 1 .. Len(seqs[block[j]]) :
           x < y /\ flat[i] = seqs[block[j]][x] /\ flat[j] = seqs[block[j]][y]

(* Appending a file adds one block after the others.                        *)
LEMMA OneMoreBlock ==
    ASSUME NEW X, NEW seqs \in Seq(Seq(X)), NEW k \in Nat, k < Len(seqs),
           NEW flat \in Seq(X), NEW block, Blocks(flat, block, seqs, k)
    PROVE  \E new : Blocks(flat \o seqs[k + 1], new, seqs, k + 1)
<1> DEFINE n == Len(flat)
           last == seqs[k + 1]
           all == flat \o last
           new == [j \in 1 .. Len(all) |-> IF j <= n THEN block[j] ELSE k + 1]
<1>1. k + 1 \in 1 .. Len(seqs) /\ last \in Seq(X) /\ n \in Nat /\ Len(last) \in Nat
  OBVIOUS
<1>2. /\ all \in Seq(X) /\ Len(all) = n + Len(last)
      /\ \A j \in 1 .. n : all[j] = flat[j]
      /\ \A x \in 1 .. Len(last) : all[n + x] = last[x]
  BY <1>1
<1>3. /\ block \in [1 .. n -> 1 .. k]
      /\ \A i, j \in 1 .. n : i <= j => block[i] <= block[j]
      /\ \A j \in 1 .. n : \E x \in 1 .. Len(seqs[block[j]]) : flat[j] = seqs[block[j]][x]
      /\ \A b \in 1 .. k : \A x \in 1 .. Len(seqs[b]) :
           \E j \in 1 .. n : block[j] = b /\ flat[j] = seqs[b][x]
  BY DEF Blocks
<1>a. ASSUME NEW i \in 1 .. n, NEW j \in 1 .. n, i < j, block[i] = block[j]
      PROVE  \E x, y \in 1 .. Len(seqs[block[j]]) :
               x < y /\ flat[i] = seqs[block[j]][x] /\ flat[j] = seqs[block[j]][y]
  BY <1>a DEF Blocks
<1> HIDE DEF all, last, n
<1>4. \A j \in 1 .. n : j \in 1 .. Len(all) /\ new[j] = block[j] /\ new[j] \in 1 .. k
  BY <1>1, <1>2, <1>3
<1>5. \A j \in 1 .. Len(all) : j \in 1 .. n \/ (j > n /\ new[j] = k + 1 /\ j - n \in 1 .. Len(last))
  BY <1>1, <1>2
<1> HIDE DEF new
<1>6. new \in [1 .. Len(all) -> 1 .. k + 1]
  <2>1. \A j \in 1 .. Len(all) : new[j] \in 1 .. k + 1
    BY <1>1, <1>4, <1>5
  <2> QED
    BY <2>1 DEF new
<1>7. ASSUME NEW i \in 1 .. Len(all), NEW j \in 1 .. Len(all), i <= j PROVE new[i] <= new[j]
  <2>1. CASE j \in 1 .. n
    <3>1. i \in 1 .. n
      BY <1>1, <1>7, <2>1
    <3> QED
      BY <1>3, <1>4, <1>7, <2>1, <3>1
  <2>2. CASE j \notin 1 .. n
    BY <1>4, <1>5, <1>6, <2>2
  <2> QED
    BY <2>1, <2>2
<1>8. ASSUME NEW j \in 1 .. Len(all)
      PROVE  \E x \in 1 .. Len(seqs[new[j]]) : all[j] = seqs[new[j]][x]
  <2>1. CASE j \in 1 .. n
    <3>1. PICK x \in 1 .. Len(seqs[block[j]]) : flat[j] = seqs[block[j]][x]
      BY <1>3, <2>1
    <3>2. all[j] = flat[j] /\ new[j] = block[j]
      BY <1>2, <1>4, <2>1
    <3> QED
      BY <3>1, <3>2
  <2>2. CASE j \notin 1 .. n
    <3>1. new[j] = k + 1 /\ j - n \in 1 .. Len(last) /\ n + (j - n) = j
      BY <1>1, <1>5, <2>2
    <3>2. all[j] = last[j - n]
      BY <1>2, <3>1
    <3> QED
      BY <3>1, <3>2 DEF last
  <2> QED
    BY <2>1, <2>2
<1>9. ASSUME NEW b \in 1 .. k + 1, NEW x \in 1 .. Len(seqs[b])
      PROVE  \E j \in 1 .. Len(all) : new[j] = b /\ all[j] = seqs[b][x]
  <2>1. CASE b \in 1 .. k
    <3>1. PICK j \in 1 .. n : block[j] = b /\ flat[j] = seqs[b][x]
      BY <1>3, <2>1
    <3> QED
      BY <1>2, <1>4, <3>1
  <2>2. CASE b = k + 1
    <3>1. x \in 1 .. Len(last)
      BY <2>2 DEF last
    <3>2. n + x \in 1 .. Len(all) /\ n + x \notin 1 .. n
      BY <1>1, <1>2, <3>1
    <3>3. new[n + x] = k + 1 /\ all[n + x] = last[x]
      BY <1>2, <1>5, <3>1, <3>2
    <3> QED
      BY <2>2, <3>2, <3>3 DEF last
  <2> QED
    BY <2>1, <2>2
<1>10. ASSUME NEW i \in 1 .. Len(all), NEW j \in 1 .. Len(all), i < j, new[i] = new[j]
       PROVE  \E x, y \in 1 .. Len(seqs[new[j]]) :
                x < y /\ all[i] = seqs[new[j]][x] /\ all[j] = seqs[new[j]][y]
  <2>1. CASE j \in 1 .. n
    <3>1. i \in 1 .. n
      BY <1>1, <1>10, <2>1
    <3>2. new[i] = block[i] /\ new[j] = block[j] /\ all[i] = flat[i] /\ all[j] = flat[j]
      BY <1>2, <1>4, <2>1, <3>1
    <3>3. PICK x, y \in 1 .. Len(seqs[block[j]]) :
            x < y /\ flat[i] = seqs[block[j]][x] /\ flat[j] = seqs[block[j]][y]
      BY <1>a, <1>10, <2>1, <3>1, <3>2
    <3> QED
      BY <3>2, <3>3
  <2>2. CASE j \notin 1 .. n
    <3>1. new[j] = k + 1 /\ j - n \in 1 .. Len(last) /\ n + (j - n) = j
      BY <1>1, <1>5, <2>2
    <3>2. i \notin 1 .. n
      BY <1>1, <1>4, <1>10, <3>1
    <3>3. i - n \in 1 .. Len(last) /\ n + (i - n) = i /\ i - n < j - n
      BY <1>1, <1>5, <1>10, <3>2
    <3>4. all[i] = last[i - n] /\ all[j] = last[j - n]
      BY <1>2, <3>1, <3>3
    <3>5. last = seqs[new[j]]
      BY <3>1 DEF last
    <3> QED
      BY <3>1, <3>3, <3>4, <3>5
  <2> QED
    BY <2>1, <2>2
<1>11. Blocks(all, new, seqs, k + 1)
  BY <1>6, <1>7, <1>8, <1>9, <1>10 DEF Blocks
<1> QED
  BY <1>11 DEF all, last

(* FlattenSeq puts its sequences one after the other.                       *)
Joined(acc, rows) == acc \o rows

(* FlattenSeq lists the rows of the files, block after block.               *)
LEMMA FlattenBlocks ==
    ASSUME WellOrdered, NEW X, NEW seqs \in Seq(Seq(X))
    PROVE  /\ FlattenSeq(seqs) \in Seq(X)
           /\ \E block : Blocks(FlattenSeq(seqs), block, seqs, Len(seqs))
<1> DEFINE n == Len(seqs)
           step == [i \in 1 .. n |-> [s \in Seq(X) |-> s \o seqs[i]]]
<1>1. n \in Nat /\ <<>> \in Seq(X) /\ \A i \in 1 .. n : seqs[i] \in Seq(X)
  OBVIOUS
<1>2. step \in [1 .. n -> [Seq(X) -> Seq(X)]]
  <2>1. \A i \in 1 .. n : \A s \in Seq(X) : s \o seqs[i] \in Seq(X)
    BY <1>1
  <2> HIDE DEF n
  <2> QED
    BY <2>1
<1>3. PICK f : Iterates(f, n, Seq(X), <<>>, step)
  <2> HIDE DEF n, step
  <2> QED
    BY <1>1, <1>2, RecursionExists
<1>4. f \in [0 .. n -> Seq(X)] /\ f[0] = <<>> /\ \A i \in 1 .. n : f[i] = step[i][f[i - 1]]
  <2> HIDE DEF n, step
  <2> QED
    BY <1>3 DEF Iterates
<1>5. ASSUME NEW i \in 1 .. n PROVE f[i] = f[i - 1] \o seqs[i] /\ i - 1 \in 0 .. n
  <2>1. i - 1 \in 0 .. n
    BY <1>1
  <2>2. f[i - 1] \in Seq(X)
    BY <1>4, <2>1
  <2> QED
    BY <1>4, <2>1, <2>2
<1> HIDE DEF n, step
<1> DEFINE Good(k, s) == s \in Seq(X) /\ \E block : Blocks(s, block, seqs, k)
<1>6. ASSUME NEW k \in 1 .. n, NEW s, Good(k - 1, s) PROVE Good(k, s \o seqs[k])
  <2>1. k - 1 \in Nat /\ k - 1 < Len(seqs) /\ (k - 1) + 1 = k
    BY <1>1 DEF n
  <2>2. PICK block : Blocks(s, block, seqs, k - 1)
    BY <1>6
  <2>3. \E new : Blocks(s \o seqs[(k - 1) + 1], new, seqs, (k - 1) + 1)
    BY <1>6, <2>1, <2>2, OneMoreBlock
  <2>4. s \o seqs[k] \in Seq(X)
    BY <1>1, <1>6
  <2> QED
    BY <2>1, <2>3, <2>4
<1>7. Good(0, <<>>)
  <2> DEFINE none == [i \in 1 .. Len(<<>>) |-> i]
  <2>1. Blocks(<<>>, none, seqs, 0)
    BY DEF Blocks
  <2> QED
    BY <1>1, <2>1
<1>8. f = [i \in 0 .. n |-> IF i = 0 THEN <<>> ELSE Joined(f[i - 1], seqs[i])]
  <2>1. \A i \in 1 .. n : f[i] = Joined(f[i - 1], seqs[i])
    BY <1>5 DEF Joined
  <2> QED
    BY <1>1, <1>4, <2>1
<1>9. PICK h : /\ h = [i \in 0 .. n |-> IF i = 0 THEN <<>> ELSE Joined(h[i - 1], seqs[i])]
               /\ FlattenSeq(seqs) = h[n]
  BY <1>8 DEF FlattenSeq, Visit, Joined, n
<1>10. h[0] = <<>> /\ \A i \in 1 .. n : h[i] = h[i - 1] \o seqs[i]
  <2>1. h[0] = <<>> /\ \A i \in 1 .. n : h[i] = Joined(h[i - 1], seqs[i])
    BY <1>1, <1>9
  <2> QED
    BY <2>1 DEF Joined
<1> DEFINE S == {k \in 0 .. n : Good(k, h[k])}
<1> HIDE DEF Good
<1>11. 0 \in S
  BY <1>1, <1>7, <1>10
<1>12. ASSUME NEW k \in 1 .. n, k - 1 \in S PROVE k \in S
  <2>1. Good(k - 1, h[k - 1])
    BY <1>12
  <2>2. Good(k, h[k])
    BY <1>6, <1>10, <2>1
  <2> QED
    BY <1>1, <2>2
<1>13. n \in S
  <2>1. \A k \in 0 .. n : k \in S
    <3> HIDE DEF S
    <3> QED
      BY <1>1, <1>11, <1>12, UpTo
  <2> QED
    BY <1>1, <2>1
<1> QED
  BY <1>9, <1>13 DEF Good, n

----------------------------------------------------------------------------
(* FileActionDeduplicator.                                                  *)

(* The slots that are recorded when k entries have been passed: those of    *)
(* the rows of commit files that were not ignored.                          *)
SlotsSeen(stream, ignored, k) ==
    {stream[j].row.slot : j \in {i \in 1 .. k : stream[i].is_log_batch /\ stream[i] \notin ignored}}

(* The adds that are left of the first k entries.                           *)
AddsLeft(stream, ignored, k) ==
    {stream[j].row : j \in {i \in 1 .. k :
        /\ stream[i] \notin ignored /\ stream[i].row.type = "add"
        /\ stream[i].row.slot \notin SlotsSeen(stream, ignored, i - 1)}}

DeduplicateStep(acc, entry, ignored) ==
    IF entry \in ignored THEN acc ELSE check_and_record_seen(acc, entry)

(* The deduplicator, step by step.                                          *)
LEMMA DeduplicateSteps ==
    ASSUME WellOrdered, NEW E, NEW stream \in Seq(E), NEW ignored
    PROVE  \E f : /\ f[0] = [seen |-> {}, rows |-> {}]
                  /\ \A i \in 1 .. Len(stream) : f[i] = DeduplicateStep(f[i - 1], stream[i], ignored)
                  /\ Deduplicated(stream, ignored) = f[Len(stream)].rows
<1> DEFINE n == Len(stream)
           Acc == [seen : SUBSET {stream[i].row.slot : i \in 1 .. n},
                   rows : SUBSET {stream[i].row : i \in 1 .. n}]
           base == [seen |-> {}, rows |-> {}]
           step == [i \in 1 .. n |-> [a \in Acc |-> DeduplicateStep(a, stream[i], ignored)]]
<1>1. n \in Nat /\ base \in Acc
  OBVIOUS
<1>2. ASSUME NEW a \in Acc, NEW i \in 1 .. n PROVE DeduplicateStep(a, stream[i], ignored) \in Acc
  BY DEF DeduplicateStep, check_and_record_seen
<1>3. step \in [1 .. n -> [Acc -> Acc]]
  <2> HIDE DEF Acc
  <2> QED
    BY <1>2
<1>4. PICK f : Iterates(f, n, Acc, base, step)
  <2> HIDE DEF Acc, n, base, step
  <2> QED
    BY <1>1, <1>3, RecursionExists
<1>5. f \in [0 .. n -> Acc] /\ f[0] = base /\ \A i \in 1 .. n : f[i] = step[i][f[i - 1]]
  <2> HIDE DEF Acc, n, base, step
  <2> QED
    BY <1>4 DEF Iterates
<1>6. ASSUME NEW i \in 1 .. n PROVE f[i] = DeduplicateStep(f[i - 1], stream[i], ignored)
  <2>1. i - 1 \in 0 .. n
    OBVIOUS
  <2> HIDE DEF Acc
  <2>2. f[i - 1] \in Acc
    BY <1>5, <2>1
  <2> QED
    BY <1>5, <2>2
<1>7. f = [i \in 0 .. n |-> IF i = 0 THEN base ELSE DeduplicateStep(f[i - 1], stream[i], ignored)]
  <2> HIDE DEF Acc, base, n
  <2> QED
    BY <1>1, <1>5, <1>6
<1>8. PICK g : /\ g = [i \in 0 .. n |-> IF i = 0 THEN base
                                        ELSE DeduplicateStep(g[i - 1], stream[i], ignored)]
               /\ Deduplicated(stream, ignored) = g[n].rows
  BY Zenon, <1>7 DEF Deduplicated, Visit, DeduplicateStep
<1>9. g[0] = base /\ \A i \in 1 .. n : g[i] = DeduplicateStep(g[i - 1], stream[i], ignored)
  <2> HIDE DEF base, Acc, n
  <2> QED
    BY <1>1, <1>8
<1> QED
  BY <1>8, <1>9

(* The adds are left that are not ignored and whose file no row of a commit *)
(* file before them speaks of.                                              *)
LEMMA DeduplicatedIs ==
    ASSUME WellOrdered, NEW E, NEW stream \in Seq(E), NEW ignored
    PROVE  Deduplicated(stream, ignored) = AddsLeft(stream, ignored, Len(stream))
<1> DEFINE n == Len(stream)
           Seen(k) == SlotsSeen(stream, ignored, k)
           Left(k) == AddsLeft(stream, ignored, k)
<1>1. n \in Nat
  OBVIOUS
<1>2. PICK f : /\ f[0] = [seen |-> {}, rows |-> {}]
               /\ \A i \in 1 .. n : f[i] = DeduplicateStep(f[i - 1], stream[i], ignored)
               /\ Deduplicated(stream, ignored) = f[n].rows
  BY DeduplicateSteps
<1> DEFINE S == {k \in 0 .. n : f[k] = [seen |-> Seen(k), rows |-> Left(k)]}
<1>3. 0 \in S
  <2>1. Seen(0) = {} /\ Left(0) = {}
    BY DEF SlotsSeen, AddsLeft
  <2>2. 0 \in 0 .. n
    BY <1>1
  <2> HIDE DEF Seen, Left, n
  <2> QED
    BY <1>2, <2>1, <2>2
<1>4. ASSUME NEW k \in 1 .. n, k - 1 \in S PROVE k \in S
  <2> DEFINE e == stream[k]
  <2>1. \A i \in Nat : i \in 1 .. k <=> i \in 1 .. k - 1 \/ i = k
    BY <1>1
  <2>2. Seen(k) = Seen(k - 1) \cup {s \in {e.row.slot} : e.is_log_batch /\ e \notin ignored}
    BY <2>1 DEF SlotsSeen
  <2>3. Left(k) = Left(k - 1) \cup
          {r \in {e.row} : e \notin ignored /\ r.type = "add" /\ r.slot \notin Seen(k - 1)}
    <3> HIDE DEF n
    <3> QED
      BY <2>1 DEF AddsLeft
  <2>4. f[k] = DeduplicateStep(f[k - 1], e, ignored)
    BY <1>2
  <2>5. f[k - 1] = [seen |-> Seen(k - 1), rows |-> Left(k - 1)] /\ k \in 0 .. n
    BY <1>1, <1>4
  <2> HIDE DEF Seen, Left, e, n
  <2>6. CASE e \in ignored
    BY <2>2, <2>3, <2>4, <2>5, <2>6 DEF DeduplicateStep
  <2>7. CASE e \notin ignored /\ e.row.slot \in Seen(k - 1)
    <3>1. Seen(k) = Seen(k - 1) /\ Left(k) = Left(k - 1)
      BY <2>2, <2>3, <2>7
    <3>2. f[k] = f[k - 1]
      BY <2>4, <2>5, <2>7 DEF DeduplicateStep, check_and_record_seen
    <3> QED
      BY <2>5, <3>1, <3>2
  <2>8. CASE e \notin ignored /\ e.row.slot \notin Seen(k - 1)
    <3>1. Seen(k) = Seen(k - 1) \cup {s \in {e.row.slot} : e.is_log_batch}
      BY <2>2, <2>8
    <3>2. Left(k) = Left(k - 1) \cup {r \in {e.row} : r.type = "add"}
      BY <2>3, <2>8
    <3>3. f[k] = [seen |-> Seen(k - 1) \cup {s \in {e.row.slot} : e.is_log_batch},
                  rows |-> Left(k - 1) \cup {r \in {e.row} : r.type = "add"}]
      BY <2>4, <2>5, <2>8 DEF DeduplicateStep, check_and_record_seen
    <3> QED
      BY <2>5, <3>1, <3>2, <3>3
  <2> QED
    BY <2>6, <2>7, <2>8
<1>5. n \in S
  <2> HIDE DEF S
  <2>1. \A k \in 0 .. n : k \in S
    BY <1>1, <1>3, <1>4, UpTo
  <2> QED
    BY <1>1, <2>1
<1> QED
  BY <1>2, <1>5

=============================================================================
