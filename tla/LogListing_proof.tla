-------------------------- MODULE LogListing_proof --------------------------
(***************************************************************************)
(* What LogListing makes of a log, for every log in which the commits are  *)
(* published in order.                                                     *)
(***************************************************************************)
EXTENDS LogListing, SequenceFacts

----------------------------------------------------------------------------
(* Only, where it selects consecutive entries.                              *)

(* The elements of a sequence after position p up to position q.            *)
Part(seq, p, q) == [i \in 1 .. q - p |-> seq[p + i]]

(* The entries of a range of positions are a part of the sequence.          *)
LEMMA OnlyPart ==
    ASSUME WellOrdered, NEW E, NEW seq \in Seq(E), NEW set,
           NEW p \in 0 .. Len(seq), NEW q \in p .. Len(seq),
           \A i \in 1 .. Len(seq) : seq[i] \in set <=> p < i /\ i <= q
    PROVE  Only(seq, set) = Part(seq, p, q)
<1> DEFINE n == Len(seq)
           Size(k) == IF k <= p THEN 0 ELSE IF k <= q THEN k - p ELSE q - p
           Sub(k) == [i \in 1 .. Size(k) |-> seq[p + i]]
<1>1. n \in Nat /\ p \in Nat /\ q \in Nat /\ p <= q /\ q <= n
  OBVIOUS
<1>2. PICK f : /\ f[0] = <<>>
               /\ \A i \in 1 .. n :
                    f[i] = IF seq[i] \in set THEN Append(f[i - 1], seq[i]) ELSE f[i - 1]
               /\ Only(seq, set) = f[n]
  BY OnlySteps DEF OnlyStep
<1>3. f[0] = Sub(0)
  BY <1>1, <1>2
<1>4. ASSUME NEW k \in 1 .. n, f[k - 1] = Sub(k - 1) PROVE f[k] = Sub(k)
  <2>1. CASE p < k /\ k <= q
    <3>1. f[k] = Append(Sub(k - 1), seq[k])
      BY <1>2, <1>4, <2>1
    <3>2. Size(k - 1) = k - 1 - p /\ Size(k) = k - p /\ Size(k - 1) \in Nat /\ Size(k) = Size(k - 1) + 1
      BY <1>1, <2>1
    <3>3. \A i \in 1 .. Size(k - 1) : p + i \in 1 .. n
      BY <1>1, <2>1, <3>2
    <3>4. Sub(k - 1) \in Seq(E) /\ Len(Sub(k - 1)) = Size(k - 1)
      <4>1. Sub(k - 1) \in [1 .. Size(k - 1) -> E]
        BY <3>3
      <4> HIDE DEF Size, Sub
      <4>2. \A m \in Nat : \A t \in [1 .. m -> E] : t \in Seq(E) /\ Len(t) = m
        OBVIOUS
      <4> QED
        BY <3>2, <4>1, <4>2
    <3>5. p + Size(k) = k
      BY <1>1, <3>2
    <3> HIDE DEF Size
    <3>6. Append(Sub(k - 1), seq[k]) = Sub(k)
      <4>1. Append(Sub(k - 1), seq[k]) =
              [i \in 1 .. Size(k - 1) + 1 |-> IF i = Size(k - 1) + 1 THEN seq[k] ELSE Sub(k - 1)[i]]
        <5> HIDE DEF Sub
        <5> QED
          BY <3>4
      <4>2. \A i \in 1 .. Size(k) : i = Size(k) \/ i \in 1 .. Size(k - 1)
        BY <3>2
      <4> QED
        BY <3>2, <3>5, <4>1, <4>2
    <3> QED
      BY <3>1, <3>6
  <2>2. CASE ~(p < k /\ k <= q)
    <3>1. Size(k) = Size(k - 1)
      BY <1>1, <2>2
    <3> HIDE DEF Size
    <3> QED
      BY <1>2, <1>4, <2>2, <3>1
  <2> QED
    BY <2>1, <2>2
<1>5. \A k \in 0 .. n : f[k] = Sub(k)
  <2> DEFINE Bad == {k \in 0 .. n : f[k] # Sub(k)}
  <2>1. ASSUME Bad # {} PROVE FALSE
    <3> HIDE DEF Sub, n
    <3>1. Bad \in SUBSET Nat
      BY <1>1
    <3>2. PICK k \in Bad : \A j \in Bad : k <= j
      <4> HIDE DEF Bad
      <4> QED
        BY <2>1, <3>1, LeastElement
    <3>3. k \in 1 .. n /\ k - 1 \in 0 .. n /\ ~(k <= k - 1) /\ f[k] # Sub(k)
      BY <1>1, <1>3, <3>2
    <3>4. f[k - 1] = Sub(k - 1)
      BY <3>2, <3>3
    <3> QED
      BY <1>4, <3>3, <3>4
  <2> QED
    BY <2>1
<1>6. Size(n) = q - p
  BY <1>1
<1>7. f[n] = Sub(n)
  <2> HIDE DEF Sub, n
  <2> QED
    BY <1>1, <1>5
<1> HIDE DEF Size, n
<1> QED
  BY <1>2, <1>6, <1>7 DEF Part

----------------------------------------------------------------------------
(* Runs of commits.                                                         *)

(* The entries of versions lo + 1 to hi with the ids of history r, those    *)
(* after version a staged.                                                  *)
IsEntry(e, r, v, a) == e = CommitEntry(v, r[v], v > a)

Run(r, lo, hi, a) == [i \in 1 .. hi - lo |-> CommitEntry(lo + i, r[lo + i], lo + i > a)]

IsRun(run, r, lo, hi, a) ==
    /\ run \in Seq(Range(run)) /\ Len(run) = hi - lo /\ hi - lo \in Nat
    /\ DOMAIN run = 1 .. hi - lo
    /\ \A i \in 1 .. hi - lo : run[i] = CommitEntry(lo + i, r[lo + i], lo + i > a)
    /\ lo = hi <=> run = <<>>

(* A run has one entry for each of its versions.                            *)
LEMMA RunType ==
    ASSUME NEW r, NEW lo \in Int, NEW hi \in Int, lo <= hi, NEW a
    PROVE  IsRun(Run(r, lo, hi, a), r, lo, hi, a)
<1> DEFINE run == Run(r, lo, hi, a)
<1>1. run = [i \in 1 .. hi - lo |-> CommitEntry(lo + i, r[lo + i], lo + i > a)]
  BY DEF Run
<1>2. DOMAIN run = 1 .. hi - lo /\ \A i \in 1 .. hi - lo : run[i] \in Range(run)
  BY <1>1 DEF Range
<1>3. hi - lo \in Nat
  OBVIOUS
<1>4. run \in [1 .. hi - lo -> Range(run)]
  BY <1>1, <1>2
<1>5. \A n \in Nat : \A X : \A t \in [1 .. n -> X] : t \in Seq(X) /\ Len(t) = n
  OBVIOUS
<1> HIDE DEF run
<1>6. run \in Seq(Range(run)) /\ Len(run) = hi - lo
  BY <1>3, <1>4, <1>5
<1>7. lo = hi <=> run = <<>>
  BY <1>2, <1>3, <1>6
<1>8. IsRun(run, r, lo, hi, a)
  BY <1>1, <1>2, <1>3, <1>6, <1>7 DEF IsRun
<1> QED
  BY <1>8 DEF run

(* A run from a version to itself has no entry.                             *)
LEMMA EmptyRun ==
    ASSUME NEW r, NEW v \in Int, NEW a
    PROVE  Run(r, v, v, a) = <<>>
<1>1. v <= v
  OBVIOUS
<1>2. IsRun(Run(r, v, v, a), r, v, v, a)
  BY <1>1, RunType
<1> QED
  BY <1>2 DEF IsRun

(* Runs of histories that agree are the same.                               *)
LEMMA RunAgrees ==
    ASSUME NEW r, NEW q, NEW lo \in Int, NEW hi \in Int, NEW a,
           \A v \in lo + 1 .. hi : r[v] = q[v]
    PROVE  Run(r, lo, hi, a) = Run(q, lo, hi, a)
<1>1. \A i \in 1 .. hi - lo : lo + i \in lo + 1 .. hi
  OBVIOUS
<1> QED
  BY <1>1 DEF Run

(* A run that is extended is a run.                                         *)
Follows(r, lo, hi, a, v, e) ==
    lo \in Int /\ hi \in Int /\ lo <= hi /\ v = hi + 1 /\ IsEntry(e, r, v, a)

(* The entry of the next version makes a run longer by one.                 *)
LEMMA RunAppend ==
    ASSUME NEW r, NEW lo, NEW hi, NEW a, NEW v, NEW e, Follows(r, lo, hi, a, v, e)
    PROVE  Append(Run(r, lo, hi, a), e) = Run(r, lo, v, a)
<1> USE DEF Follows
<1>1. PICK run : run = Run(r, lo, hi, a)
  OBVIOUS
<1>2. e = CommitEntry(hi + 1, r[hi + 1], hi + 1 > a)
  BY DEF IsEntry
<1>0. IsRun(run, r, lo, hi, a)
  BY <1>1, RunType
<1>3. /\ run \in Seq(Range(run)) /\ Len(run) = hi - lo /\ hi - lo \in Nat
      /\ DOMAIN run = 1 .. hi - lo
      /\ \A i \in 1 .. hi - lo : run[i] = CommitEntry(lo + i, r[lo + i], lo + i > a)
  BY <1>0 DEF IsRun
<1>4. Append(run, e) = [i \in 1 .. (hi - lo) + 1 |-> IF i = (hi - lo) + 1 THEN e ELSE run[i]]
  <2> DEFINE X == Range(run) \cup {e}
  <2>1. run \in Seq(X) /\ e \in X
    BY <1>3
  <2> HIDE DEF X
  <2>2. PICK n \in Nat : n = hi - lo
    BY <1>3
  <2>a. Append(run, e) \in Seq(X)
    BY <2>1
  <2>3. PICK u \in Seq(X) : u = Append(run, e)
    BY <2>a
  <2>4. Len(u) = n + 1 /\ \A i \in 1 .. n + 1 : u[i] = IF i = n + 1 THEN e ELSE run[i]
    BY <1>3, <2>1, <2>2, <2>3
  <2>5. u = [i \in 1 .. Len(u) |-> u[i]]
    OBVIOUS
  <2> QED
    BY <2>2, <2>3, <2>4, <2>5
<1>5. (hi - lo) + 1 = (hi + 1) - lo /\ lo + ((hi - lo) + 1) = hi + 1
  OBVIOUS
<1>6. \A i \in 1 .. (hi - lo) + 1 : i = (hi - lo) + 1 \/ i \in 1 .. hi - lo
  BY <1>3
<1> QED
  BY <1>1, <1>2, <1>3, <1>4, <1>5, <1>6 DEF Run

(* Selecting the entries of a run by their version gives a run.             *)
LEMMA OnlyRun ==
    ASSUME WellOrdered, NEW r, NEW lo \in Int, NEW hi \in Int, NEW a, NEW set,
           NEW x \in lo .. hi, NEW y \in x .. hi,
           \A v \in lo + 1 .. hi :
             CommitEntry(v, r[v], v > a) \in set <=> x < v /\ v <= y
    PROVE  Only(Run(r, lo, hi, a), set) = Run(r, x, y, a)
<1> DEFINE p == x - lo
           q == y - lo
<1>0. PICK run : run = Run(r, lo, hi, a)
  OBVIOUS
<1>1. lo <= hi /\ p \in 0 .. hi - lo /\ q \in p .. hi - lo /\ q - p = y - x /\ lo + p = x
  OBVIOUS
<1>2. /\ run \in Seq(Range(run)) /\ Len(run) = hi - lo /\ hi - lo \in Nat
      /\ \A i \in 1 .. hi - lo : run[i] = CommitEntry(lo + i, r[lo + i], lo + i > a)
  BY <1>0, <1>1, RunType DEF IsRun
<1>3. ASSUME NEW i \in 1 .. hi - lo PROVE run[i] \in set <=> p < i /\ i <= q
  <2>1. lo + i \in lo + 1 .. hi
    OBVIOUS
  <2>2. CommitEntry(lo + i, r[lo + i], lo + i > a) \in set <=> x < lo + i /\ lo + i <= y
    BY <2>1
  <2> QED
    BY <1>2, <2>2
<1>4. Only(run, set) = Part(run, p, q)
  <2> HIDE DEF p, q
  <2>1. PICK E : E = Range(run)
    OBVIOUS
  <2>2. /\ run \in Seq(E) /\ p \in 0 .. Len(run) /\ q \in p .. Len(run)
        /\ \A i \in 1 .. Len(run) : run[i] \in set <=> p < i /\ i <= q
    BY <1>1, <1>2, <1>3, <2>1
  <2> QED
    BY <2>2, OnlyPart
<1>5. ASSUME NEW i \in 1 .. q - p
      PROVE  run[p + i] = CommitEntry(x + i, r[x + i], x + i > a)
  <2>1. p + i \in 1 .. hi - lo /\ lo + (p + i) = x + i
    BY <1>1
  <2> QED
    BY <1>2, <2>1
<1> QED
  BY <1>0, <1>1, <1>4, <1>5 DEF Run, Part

----------------------------------------------------------------------------
(* The storage.                                                             *)

(* Published are the versions up to p, with the ids of history r; the       *)
(* checkpoints are of published versions.                                   *)
Stored(S, r, p) ==
    /\ S = [commits |-> S.commits, single |-> S.single, parts |-> S.parts,
            crcs |-> {}, compacted |-> {}]
    /\ S.commits = [v \in 0 .. p |-> r[v]]
    /\ S.single \subseteq 0 .. p
    /\ \A x \in S.parts : \E v \in 0 .. p, i \in 1 .. 2 : x = <<v, i, 2>>

HasCheckpoint(S, v) ==
    \/ v \in S.single
    \/ <<v, 1, 2>> \in S.parts /\ <<v, 2, 2>> \in S.parts

(* A checkpoint is in one file or in two parts.                             *)
CheckpointsAre(S, v, p) ==
    /\ CompleteCheckpoints(S, v) \subseteq {1, 2}
    /\ 1 \in CompleteCheckpoints(S, v) <=> v \in S.single
    /\ 2 \in CompleteCheckpoints(S, v) <=> <<v, 1, 2>> \in S.parts /\ <<v, 2, 2>> \in S.parts
    /\ CompleteCheckpoints(S, v) # {} <=> HasCheckpoint(S, v)
    /\ HasCheckpoint(S, v) => v \in 0 .. p

----------------------------------------------------------------------------
(* What is listed.                                                          *)

Acc(group, new, checkpoint, parts, commits, latest, published) ==
    [group |-> group, new_checkpoint |-> new, checkpoint |-> checkpoint, parts |-> parts,
     commits |-> commits, compacted |-> {}, crc |-> NoVersion, latest_commit |-> latest,
     max_published |-> published]

AccOf(X) ==
    [group : X, new_checkpoint : X, checkpoint : X, parts : X, commits : X, compacted : X,
     crc : X, latest_commit : X, max_published : X]

(* ProcessVersion, from what maybe_flush_and_advance leaves.                *)
Others(S, v) == CompleteCheckpoints(S, v) # {} \/ \E x \in S.parts : x[1] = v

Stepped(f, acc, S, a, v) ==
    /\ v <= a \/ Others(S, v) => f = maybe_flush_and_advance(acc, v)
    /\ ~(v <= a \/ Others(S, v)) => f = acc

IsAcc(f) ==
    f = Acc(f.group, f.new_checkpoint, f.checkpoint, f.parts, f.commits, f.latest_commit,
            f.max_published)

Versioned(f, S, r, p, a, v) ==
    Acc(f.group, IF Others(S, v) THEN CompleteCheckpoints(S, v) ELSE f.new_checkpoint,
        f.checkpoint, f.parts,
        IF v <= a THEN Append(f.commits, CommitEntry(v, r[v], FALSE)) ELSE f.commits,
        f.latest_commit,
        IF v <= p THEN Newest(f.max_published, v) ELSE f.max_published)

(* ProcessTail of a staged commit.                                          *)
Takes(acc, v, e, g, nc, cp, pt, cm, lc, mp) ==
    /\ e.version = v /\ e.staged = TRUE
    /\ maybe_flush_and_advance(acc, v) = Acc(g, nc, cp, pt, cm, lc, mp)

----------------------------------------------------------------------------
(* The types of the accumulator.                                            *)

Formats == SUBSET {1, 2}

Accs(E) ==
    [group : Int, new_checkpoint : Formats, checkpoint : Int, parts : Formats,
     commits : Seq(E), compacted : {{}}, crc : {NoVersion}, latest_commit : Int,
     max_published : Int]

----------------------------------------------------------------------------
(* What the listing has collected.                                          *)

(* A log with published versions up to p that is listed from start to end,  *)
(* with a tail after version a.                                             *)
World(S, r, p, a, start, end) ==
    /\ p \in Nat /\ Stored(S, r, p)
    /\ a \in 0 .. p /\ end \in Nat /\ a <= end
    /\ start \in 0 .. end /\ start <= p
    /\ start = 0 \/ HasCheckpoint(S, start)

(* The commits of versions lo + 1 to top are collected; a checkpoint is     *)
(* complete; a pending one is not older than the commits, and its own       *)
(* commit is among them if it is theirs.                                    *)
Collected(acc, S, r, a, end, lo, top) ==
    /\ acc = Acc(acc.group, acc.new_checkpoint, acc.checkpoint, acc.parts,
                 Run(r, lo, top, a), acc.latest_commit, acc.max_published)
    /\ lo \in Int /\ top \in Int /\ lo <= top /\ acc.group \in Int
    /\ acc.new_checkpoint \in Formats /\ acc.parts \in Formats
    /\ acc.latest_commit \in Int /\ acc.max_published \in Int
    /\ \/ acc.checkpoint = NoVersion
       \/ /\ acc.checkpoint \in 0 .. end
          /\ HasCheckpoint(S, acc.checkpoint)
          /\ acc.parts = CompleteCheckpoints(S, acc.checkpoint)
    /\ acc.new_checkpoint # {} =>
         /\ acc.group \in 0 .. end
         /\ HasCheckpoint(S, acc.group)
         /\ acc.new_checkpoint = CompleteCheckpoints(S, acc.group)
         /\ top <= acc.group
         /\ top = acc.group => lo < top

(* The step to version v: a pending checkpoint replaces what is collected.  *)
Advanced(f, acc, S, r, a, end, lo, top, v) ==
    /\ f.group = v /\ f.new_checkpoint = {} /\ f.max_published = acc.max_published
    /\ acc.new_checkpoint = {} =>
         /\ f.checkpoint = acc.checkpoint
         /\ Collected(f, S, r, a, end, lo, top)
    /\ acc.new_checkpoint # {} =>
         /\ f.checkpoint = acc.group
         /\ Collected(f, S, r, a, end, top, top)

FieldsOK(S, end, lo, top, g, nc, cp, pt, lc, mp) ==
    /\ lo \in Int /\ top \in Int /\ lo <= top /\ g \in Int
    /\ nc \in Formats /\ pt \in Formats /\ lc \in Int /\ mp \in Int
    /\ \/ cp = NoVersion
       \/ cp \in 0 .. end /\ HasCheckpoint(S, cp) /\ pt = CompleteCheckpoints(S, cp)
    /\ nc # {} =>
         /\ g \in 0 .. end /\ HasCheckpoint(S, g) /\ nc = CompleteCheckpoints(S, g)
         /\ top <= g
         /\ top = g => lo < top

----------------------------------------------------------------------------
(* Phase 1: the storage.                                                    *)

(* The newest commit collected from the versions up to v.                   *)
Top(start, a, v) == Newest(start - 1, IF v <= a THEN v ELSE a)

ListedTo(acc, S, r, p, a, start, end, v, lo) ==
    /\ Collected(acc, S, r, a, end, lo, Top(start, a, v))
    /\ acc.group <= v
    /\ v < start => acc = NothingListed /\ lo = start - 1
    /\ v >= start =>
         /\ acc.max_published = IF v <= p THEN v ELSE p
         /\ acc.new_checkpoint = {} => lo <= acc.checkpoint
         /\ v <= a => lo < v
         /\ HasCheckpoint(S, start) => acc.new_checkpoint # {} \/ acc.checkpoint # NoVersion

ListedUpTo(acc, S, r, p, a, start, end, v) ==
    \E lo \in Int : ListedTo(acc, S, r, p, a, start, end, v, lo)

----------------------------------------------------------------------------
(* Phase 2: the tail.                                                       *)

(* The entries of versions base + 1 to base + i are taken from the tail.    *)
TakenTo(acc, S, r, a, start, end, mp, base, i, lo) ==
    /\ Collected(acc, S, r, a, end, lo, base + i)
    /\ acc.max_published = mp
    /\ acc.new_checkpoint = {} => lo <= acc.checkpoint
    /\ i > 0 \/ end <= a => lo < base + i
    /\ i > 0 => acc.group = base + i
    /\ HasCheckpoint(S, start) => acc.new_checkpoint # {} \/ acc.checkpoint # NoVersion

TakenUpTo(acc, S, r, a, start, end, mp, base, i) ==
    \E lo \in Int : TakenTo(acc, S, r, a, start, end, mp, base, i, lo)

(* ListTail goes from entry to entry.                                       *)
StagedTail(E, acc, entries) ==
    /\ acc \in Accs(E) /\ entries \in Seq(E)
    /\ \A i \in 1 .. Len(entries) : entries[i].version \in Int /\ entries[i].staged = TRUE

Walks(f, acc, entries) ==
    /\ f[0] = acc
    /\ \A i \in 1 .. Len(entries) : f[i] = ProcessTail(f[i - 1], entries[i])
    /\ ListTail(acc, entries) = f[Len(entries)]

----------------------------------------------------------------------------
(* The listing as a whole.                                                  *)

(* The newest checkpoint and the commits up to end, from a version that is  *)
(* not after the checkpoint.                                                *)
Ended(L, S, r, a, start, end, mp, g, cp, pt, lo) ==
    /\ L = Acc(g, {}, cp, pt, Run(r, lo, end, a), end, mp)
    /\ lo \in Int /\ lo <= cp /\ cp <= end
    /\ lo < end \/ cp = end
    /\ \/ cp = NoVersion
       \/ cp \in 0 .. end /\ HasCheckpoint(S, cp) /\ pt = CompleteCheckpoints(S, cp)
    /\ HasCheckpoint(S, start) => cp # NoVersion

IsListed(L, S, r, a, start, end, mp) ==
    \E g, cp, pt, lo : Ended(L, S, r, a, start, end, mp, g, cp, pt, lo)

(* The first and the last commit of a run.                                  *)
SpansTo(run, lo, hi) ==
    /\ Len(run) > 0 /\ run # <<>>
    /\ run[Len(run)].version = hi /\ run[1].version = lo + 1

(* The first and the last version of a run that is not empty.               *)
LEMMA RunEnd ==
    ASSUME NEW r, NEW lo \in Int, NEW hi \in Int, NEW a, lo < hi
    PROVE  SpansTo(Run(r, lo, hi, a), lo, hi)
<1> DEFINE run == Run(r, lo, hi, a)
<1> HIDE DEF run
<1>1. IsRun(run, r, lo, hi, a)
  <2>1. lo <= hi
    OBVIOUS
  <2> QED
    BY <2>1, RunType DEF run
<1>2. Len(run) = hi - lo /\ 1 \in 1 .. hi - lo /\ hi - lo \in 1 .. hi - lo
  BY <1>1 DEF IsRun
<1>3. \A i \in 1 .. hi - lo : run[i].version = lo + i
  BY <1>1 DEF IsRun, CommitEntry
<1>4. lo + (hi - lo) = hi
  OBVIOUS
<1>5. Len(run) > 0 /\ run # <<>>
  BY <1>1, <1>2 DEF IsRun
<1>6. SpansTo(run, lo, hi)
  BY <1>2, <1>3, <1>4, <1>5 DEF SpansTo
<1> QED
  BY <1>6 DEF run

----------------------------------------------------------------------------
(* The segment of a version.                                                *)

(* The segment of version v with a checkpoint of version cp, commits that   *)
(* are staged after version a, and published commits up to version mp.      *)
Segment(r, v, cp, a, mp) ==
    [ok |-> TRUE, version |-> v, checkpoint |-> cp, commits |-> Run(r, cp, v, a),
     compacted |-> {}, crc |-> NoVersion, latest_commit |-> v, max_published |-> mp]

(* A run has no gaps.                                                       *)
LEMMA RunContiguous ==
    ASSUME NEW r, NEW lo \in Int, NEW hi \in Int, lo <= hi, NEW a
    PROVE  Contiguous(Run(r, lo, hi, a))
<1>1. PICK run : run = Run(r, lo, hi, a)
  OBVIOUS
<1>2. IsRun(run, r, lo, hi, a)
  BY <1>1, RunType
<1>3. Len(run) = hi - lo /\ \A i \in 1 .. hi - lo : run[i].version = lo + i
  BY <1>2 DEF IsRun, CommitEntry
<1>4. ASSUME NEW i \in 1 .. (Len(run) - 1)
      PROVE  run[i].version + 1 = run[i + 1].version
  <2>1. i \in 1 .. hi - lo /\ i + 1 \in 1 .. hi - lo
    BY <1>3
  <2>2. run[i].version = lo + i /\ run[i + 1].version = lo + (i + 1)
    BY <1>3, <2>1
  <2> QED
    BY <2>1, <2>2
<1> QED
  BY <1>1, <1>4 DEF Contiguous

(* The entries of a run that are after version x are the run from x on.     *)
LEMMA RunFrom ==
    ASSUME WellOrdered, NEW r, NEW lo \in Int, NEW hi \in Int, NEW a, NEW x \in lo .. hi,
           NEW run, run = Run(r, lo, hi, a)
    PROVE  Only(run, {e \in Range(run) : x < e.version}) = Run(r, x, hi, a)
<1>1. lo <= hi /\ hi \in x .. hi
  OBVIOUS
<1>2. IsRun(run, r, lo, hi, a)
  BY <1>1, RunType
<1>3. PICK set : set = {e \in Range(run) : x < e.version}
  OBVIOUS
<1>4. ASSUME NEW v \in lo + 1 .. hi
      PROVE  CommitEntry(v, r[v], v > a) \in set <=> x < v /\ v <= hi
  <2>1. v - lo \in 1 .. hi - lo /\ lo + (v - lo) = v /\ v <= hi
    OBVIOUS
  <2>2. run[v - lo] = CommitEntry(v, r[v], v > a)
    BY <1>2, <2>1 DEF IsRun
  <2>3. CommitEntry(v, r[v], v > a) \in Range(run)
    BY <1>2, <2>1, <2>2 DEF IsRun, Range
  <2>4. CommitEntry(v, r[v], v > a).version = v
    BY DEF CommitEntry
  <2> QED
    BY <1>3, <2>1, <2>3, <2>4
<1>5. Only(Run(r, lo, hi, a), set) = Run(r, x, hi, a)
  BY <1>1, <1>4, OnlyRun
<1> QED
  BY <1>3, <1>5

(* Segment of version v of history r, of files that are in storage S.       *)
IsSegment(s, r, S, v, cp, a, mp) ==
    /\ s = Segment(r, v, cp, a, mp)
    /\ v \in DOMAIN r /\ v \in Nat /\ cp \in Int /\ a \in Nat
    /\ mp \in DOMAIN S.commits /\ mp \in Nat
    /\ cp <= mp /\ a <= mp /\ mp <= v
    /\ \/ cp = NoVersion
       \/ cp \in Nat /\ HasCheckpoint(S, cp)

SegmentOK(s, r, S) == \E v, cp, a, mp : IsSegment(s, r, S, v, cp, a, mp)

(* The hint names a checkpoint that is there.                               *)
HintNames(hint, S, v, n) ==
    /\ hint = <<[version |-> v, parts |-> n]>>
    /\ \/ n = 1 /\ v \in S.single
       \/ n = 2 /\ <<v, 1, 2>> \in S.parts /\ <<v, 2, 2>> \in S.parts

HintOK(hint, S) ==
    \/ hint = <<>>
    \/ \E v \in DOMAIN S.commits, n \in 1 .. 2 : HintNames(hint, S, v, n)

(* What is listed from a start version is a segment, with a checkpoint if   *)
(* the listing starts at one.                                               *)
ListsSegment(s, L, S, r, start, pt, cp) ==
    /\ SegmentOK(s, r, S) /\ s.ok = TRUE
    /\ L.checkpoint = cp /\ L.parts = pt
    /\ HasCheckpoint(S, start) => cp # NoVersion /\ pt = CompleteCheckpoints(S, cp)

(* What a load returns: a segment of the history, or an error; and no error *)
(* if no version has checkpoints of both formats.                           *)
OneFormatIn(S) == \A v \in S.single : CompleteCheckpoints(S, v) = {1}

Loaded(s, r, S) ==
    /\ \/ s = NoSegment
       \/ SegmentOK(s, r, S) /\ s.ok = TRUE
    /\ OneFormatIn(S) => s.ok = TRUE

Loadable(S, r, p, a, end, hint) ==
    /\ p \in Nat /\ Stored(S, r, p) /\ a \in 0 .. p /\ end \in Nat /\ a <= end
    /\ end \in DOMAIN r /\ HintOK(hint, S)

(* LogSegment::for_snapshot_impl after any delay: the staged commits up to  *)
(* the version, as the catalog served them when a was published, and a log  *)
(* in which more is published, checkpointed and hinted at.                  *)
LEMMA ForSnapshotLoads ==
    ASSUME WellOrdered
    PROVE  \A S, r, p, a, end, hint :
             Loadable(S, r, p, a, end, hint) => Loaded(for_snapshot(S, Run(r, a, end, a), hint, end), r, S)
<1>Checkpoints.
    ASSUME NEW S, NEW r, NEW p \in Nat, NEW v, Stored(S, r, p)
    PROVE  CheckpointsAre(S, v, p)
  <2> USE <1>Checkpoints
  <2>1. \A x \in S.parts : x[3] = 2 /\ x[1] \in 0 .. p
    BY DEF Stored
  <2>2. ASSUME NEW n \in CompleteCheckpoints(S, v) PROVE n \in {1, 2}
    BY <2>1 DEF CompleteCheckpoints
  <2>3. 1 \in CompleteCheckpoints(S, v) <=> v \in S.single
    <3>1. 1 \notin {x[3] : x \in S.parts}
      BY <2>1
    <3> QED
      BY <3>1 DEF CompleteCheckpoints
  <2>4. 2 \in CompleteCheckpoints(S, v) <=> <<v, 1, 2>> \in S.parts /\ <<v, 2, 2>> \in S.parts
    <3>1. \A i \in 1 .. 2 : i = 1 \/ i = 2
      OBVIOUS
    <3>2. 2 \notin {1 : x \in {v} \cap S.single}
      OBVIOUS
    <3>3. <<v, 1, 2>>[3] = 2
      OBVIOUS
    <3>4. <<v, 1, 2>> \in S.parts => 2 \in {x[3] : x \in S.parts}
      BY <3>3
    <3> QED
      BY <3>1, <3>2, <3>4 DEF CompleteCheckpoints
  <2>5. HasCheckpoint(S, v) => v \in 0 .. p
    <3>1. S.single \subseteq 0 .. p
      BY DEF Stored
    <3>2. <<v, 1, 2>>[1] = v
      OBVIOUS
    <3> QED
      BY <2>1, <3>1, <3>2 DEF HasCheckpoint
  <2> QED
    BY <2>2, <2>3, <2>4, <2>5 DEF CheckpointsAre, HasCheckpoint
(* flush_checkpoint_group with a complete checkpoint, field by field.       *)
<1>FlushIs.
    ASSUME NEW g \in Int, NEW nc, NEW cp, NEW pt, NEW cm, NEW lc, NEW mp, nc # {}
    PROVE  flush_checkpoint_group(Acc(g, nc, cp, pt, cm, lc, mp)) =
             Acc(g, {}, g, nc, <<>>,
                 IF Len(cm) > 0 /\ cm[Len(cm)].version = g THEN g ELSE NoVersion, mp)
  <2> USE <1>FlushIs
  <2>1. PICK acc : acc = Acc(g, nc, cp, pt, cm, lc, mp)
    OBVIOUS
  <2>2. PICK own : own = IF Len(cm) > 0 /\ cm[Len(cm)].version = g THEN g ELSE NoVersion
    OBVIOUS
  <2>3. /\ acc.group = g /\ acc.new_checkpoint = nc /\ acc.checkpoint = cp /\ acc.parts = pt
        /\ acc.commits = cm /\ acc.compacted = {} /\ acc.crc = NoVersion
        /\ acc.latest_commit = lc /\ acc.max_published = mp
    BY <2>1 DEF Acc
  <2>4. PICK X : X = {g, nc, cp, pt, cm, lc, mp, own, {}, <<>>, NoVersion}
    OBVIOUS
  <2>5. acc \in AccOf(X) /\ {{}, g, nc, own, <<>>, NoVersion} \subseteq X
    BY <2>1, <2>4 DEF Acc, AccOf
  <2>6. PICK u : u = [acc EXCEPT !.new_checkpoint = {}, !.checkpoint = g, !.parts = nc,
                                 !.latest_commit = own, !.commits = <<>>, !.compacted = {},
                                 !.crc = NoVersion]
    OBVIOUS
  <2>7. flush_checkpoint_group(acc) = u
    BY <2>2, <2>3, <2>6 DEF flush_checkpoint_group
  <2>8. u \in AccOf(X)
    BY <2>5, <2>6 DEF AccOf
  <2>9. /\ u.group = g /\ u.new_checkpoint = {} /\ u.checkpoint = g /\ u.parts = nc
        /\ u.commits = <<>> /\ u.compacted = {} /\ u.crc = NoVersion
        /\ u.latest_commit = own /\ u.max_published = mp
    BY <2>3, <2>5, <2>6 DEF AccOf
  <2>10. u = Acc(g, {}, g, nc, <<>>, own, mp)
    BY <2>8, <2>9 DEF AccOf, Acc
  <2> QED
    BY <2>1, <2>2, <2>7, <2>10
(* The step to another version.                                             *)
<1>AdvanceIs.
    ASSUME NEW g, NEW nc, NEW cp, NEW pt, NEW cm, NEW lc, NEW mp, NEW v
    PROVE  [Acc(g, nc, cp, pt, cm, lc, mp) EXCEPT !.group = v] =
             Acc(v, nc, cp, pt, cm, lc, mp)
  <2>1. PICK acc : acc = Acc(g, nc, cp, pt, cm, lc, mp)
    OBVIOUS
  <2>2. PICK X : X = {g, nc, cp, pt, cm, lc, mp, v, {}, NoVersion}
    OBVIOUS
  <2>3. acc \in AccOf(X) /\ v \in X
    BY <2>1, <2>2 DEF Acc, AccOf
  <2>4. PICK u : u = [acc EXCEPT !.group = v]
    OBVIOUS
  <2>5. u \in AccOf(X)
    BY <2>3, <2>4 DEF AccOf
  <2>6. /\ u.group = v /\ u.new_checkpoint = nc /\ u.checkpoint = cp /\ u.parts = pt
        /\ u.commits = cm /\ u.compacted = {} /\ u.crc = NoVersion
        /\ u.latest_commit = lc /\ u.max_published = mp
    BY <2>1, <2>3, <2>4 DEF AccOf, Acc
  <2>7. u = Acc(v, nc, cp, pt, cm, lc, mp)
    BY <2>5, <2>6 DEF AccOf, Acc
  <2> QED
    BY <2>1, <2>4, <2>7
<1>ProcessVersionIs.
    ASSUME NEW S, NEW r, NEW p \in Nat, Stored(S, r, p), NEW a \in 0 .. p,
           NEW end \in Nat, NEW v \in 0 .. end,
           NEW acc, NEW f, Stepped(f, acc, S, a, v), IsAcc(f)
    PROVE  ProcessVersion(acc, S, v, a + 1, end) = Versioned(f, S, r, p, a, v)
  <2> USE <1>ProcessVersionIs
  <2>a. PICK nc2 : nc2 = IF Others(S, v) THEN CompleteCheckpoints(S, v) ELSE f.new_checkpoint
    OBVIOUS
  <2>b. PICK cm2 : cm2 = IF v <= a THEN Append(f.commits, CommitEntry(v, r[v], FALSE))
                         ELSE f.commits
    OBVIOUS
  <2>c. PICK mp2 : mp2 = IF v <= p THEN Newest(f.max_published, v) ELSE f.max_published
    OBVIOUS
  <2>1. /\ S.crcs = {} /\ S.compacted = {}
        /\ v \in DOMAIN S.commits <=> v <= p
        /\ v <= p => S.commits[v] = r[v]
    BY DEF Stored
  <2>2. v < a + 1 <=> v <= a
    OBVIOUS
  <2>3. PICK others \in BOOLEAN : others = Others(S, v)
    BY DEF Others
  <2>6. f.compacted = {} /\ f.crc = NoVersion
    BY DEF IsAcc, Acc
  <2>7. PICK u : u = [f EXCEPT !.max_published = mp2, !.commits = cm2, !.compacted = {},
                               !.new_checkpoint = nc2, !.crc = NoVersion]
    OBVIOUS
  <2>8. ProcessVersion(acc, S, v, a + 1, end) = u
    <3>1. {c \in S.compacted : c[1] = v} = {} /\ v \notin S.crcs
      BY <2>1
    <3>2. (v \in DOMAIN S.commits /\ v < a + 1) <=> v <= a
      BY <2>1, <2>2
    <3>3. ProcessVersion(acc, S, v, a + 1, end) =
            [f EXCEPT
              !.max_published = IF v <= p THEN Newest(@, v) ELSE @,
              !.commits = IF v <= a THEN Append(@, CommitEntry(v, S.commits[v], FALSE)) ELSE @,
              !.compacted = @ \cup {c \in {} : c[2] <= end},
              !.new_checkpoint = IF others THEN CompleteCheckpoints(S, v) ELSE @,
              !.crc = @]
      BY <2>1, <2>3, <3>1, <3>2 DEF ProcessVersion, Others, Stepped
    <3>4. {c \in {} : c[2] <= end} = {}
      OBVIOUS
    <3>5. cm2 = IF v <= a THEN Append(f.commits, CommitEntry(v, S.commits[v], FALSE))
                ELSE f.commits
      <4>1. v <= a => S.commits[v] = r[v]
        BY <2>1
      <4> QED
        BY <2>b, <4>1
    <3>6. {} = f.compacted \cup {c \in {} : c[2] <= end}
      BY <2>6, <3>4
    <3>7. nc2 = IF others THEN CompleteCheckpoints(S, v) ELSE f.new_checkpoint
      BY <2>a, <2>3
    <3> QED
      BY <2>c, <2>6, <2>7, <3>3, <3>5, <3>6, <3>7
  <2>9. PICK g, nc, cp, pt, cm, lc, mp :
          /\ g = f.group /\ nc = f.new_checkpoint /\ cp = f.checkpoint /\ pt = f.parts
          /\ cm = f.commits /\ lc = f.latest_commit /\ mp = f.max_published
    OBVIOUS
  <2>10. f = Acc(g, nc, cp, pt, cm, lc, mp)
    BY <2>9 DEF IsAcc
  <2>11. PICK X : X = {g, nc, cp, pt, cm, lc, mp, nc2, cm2, mp2, {}, NoVersion}
    OBVIOUS
  <2>12. f \in AccOf(X) /\ {{}, nc2, cm2, mp2, NoVersion} \subseteq X
    BY <2>10, <2>11 DEF Acc, AccOf
  <2>13. u \in AccOf(X)
    BY <2>7, <2>12 DEF AccOf
  <2>14. /\ u.group = g /\ u.new_checkpoint = nc2 /\ u.checkpoint = cp /\ u.parts = pt
         /\ u.commits = cm2 /\ u.compacted = {} /\ u.crc = NoVersion
         /\ u.latest_commit = lc /\ u.max_published = mp2
    BY <2>7, <2>9, <2>12 DEF AccOf
  <2>15. u = Acc(g, nc2, cp, pt, cm2, lc, mp2)
    BY <2>13, <2>14 DEF AccOf, Acc
  <2> QED
    BY <2>a, <2>b, <2>c, <2>8, <2>9, <2>15 DEF Versioned
<1>ProcessTailIs.
    ASSUME NEW acc, NEW v, NEW e,
           NEW g, NEW nc, NEW cp, NEW pt, NEW cm, NEW lc, NEW mp,
           Takes(acc, v, e, g, nc, cp, pt, cm, lc, mp)
    PROVE  ProcessTail(acc, e) = Acc(g, nc, cp, pt, Append(cm, e), lc, mp)
  <2> USE <1>ProcessTailIs
  <2> USE DEF Takes
  <2>1. PICK f : f = maybe_flush_and_advance(acc, v)
    OBVIOUS
  <2>2. /\ f.group = g /\ f.new_checkpoint = nc /\ f.checkpoint = cp /\ f.parts = pt
        /\ f.commits = cm /\ f.compacted = {} /\ f.crc = NoVersion
        /\ f.latest_commit = lc /\ f.max_published = mp
    BY <2>1 DEF Acc
  <2>3. PICK cm2 : cm2 = Append(cm, e)
    OBVIOUS
  <2>4. PICK u : u = [f EXCEPT !.max_published = mp, !.commits = cm2]
    OBVIOUS
  <2>5. ProcessTail(acc, e) = u
    <3>1. ProcessTail(acc, e) = [f EXCEPT !.max_published = @, !.commits = Append(@, e)]
      BY <2>1 DEF ProcessTail
    <3> QED
      BY <2>2, <2>3, <2>4, <3>1
  <2>6. PICK X : X = {g, nc, cp, pt, cm, lc, mp, cm2, {}, NoVersion}
    OBVIOUS
  <2>7. f \in AccOf(X) /\ {cm2, mp} \subseteq X
    BY <2>1, <2>6 DEF Acc, AccOf
  <2>8. u \in AccOf(X)
    BY <2>4, <2>7 DEF AccOf
  <2>9. /\ u.group = g /\ u.new_checkpoint = nc /\ u.checkpoint = cp /\ u.parts = pt
        /\ u.commits = cm2 /\ u.compacted = {} /\ u.crc = NoVersion
        /\ u.latest_commit = lc /\ u.max_published = mp
    BY <2>2, <2>4, <2>7 DEF AccOf
  <2>10. u = Acc(g, nc, cp, pt, cm2, lc, mp)
    BY <2>8, <2>9 DEF AccOf, Acc
  <2> QED
    BY <2>3, <2>5, <2>10
<1>AccType.
    ASSUME NEW E, NEW g \in Int, NEW nc \in Formats, NEW cp \in Int,
           NEW pt \in Formats, NEW cm \in Seq(E), NEW lc \in Int, NEW mp \in Int
    PROVE  Acc(g, nc, cp, pt, cm, lc, mp) \in Accs(E)
  BY DEF Accs, Acc
<1>AdvanceType.
    ASSUME NEW E, NEW acc \in Accs(E), NEW v \in Int
    PROVE  maybe_flush_and_advance(acc, v) \in Accs(E)
  <2>1. PICK g, cp, lc, mp \in Int, nc, pt \in Formats, cm \in Seq(E) :
          acc = Acc(g, nc, cp, pt, cm, lc, mp)
    <3>1. acc = Acc(acc.group, acc.new_checkpoint, acc.checkpoint, acc.parts, acc.commits,
                    acc.latest_commit, acc.max_published)
      BY DEF Accs, Acc
    <3>2. /\ acc.group \in Int /\ acc.checkpoint \in Int /\ acc.latest_commit \in Int
          /\ acc.max_published \in Int /\ acc.new_checkpoint \in Formats
          /\ acc.parts \in Formats /\ acc.commits \in Seq(E)
      BY DEF Accs
    <3> QED
      BY <3>1, <3>2
  <2>2. acc.group = g /\ acc.new_checkpoint = nc
    BY <2>1 DEF Acc
  <2>3. CASE g = v
    BY <2>2, <2>3 DEF maybe_flush_and_advance
  <2>4. CASE g # v /\ nc = {}
    <3>1. maybe_flush_and_advance(acc, v) = Acc(v, nc, cp, pt, cm, lc, mp)
      BY <2>1, <2>2, <2>4, <1>AdvanceIs DEF maybe_flush_and_advance, flush_checkpoint_group
    <3> QED
      BY <3>1, <1>AccType
  <2>5. CASE g # v /\ nc # {}
    <3>1. PICK own \in Int : flush_checkpoint_group(acc) = Acc(g, {}, g, nc, <<>>, own, mp)
      BY <2>1, <2>5, <1>FlushIs DEF NoVersion
    <3>2. maybe_flush_and_advance(acc, v) = Acc(v, {}, g, nc, <<>>, own, mp)
      BY <2>2, <2>5, <3>1, <1>AdvanceIs DEF maybe_flush_and_advance
    <3>3. <<>> \in Seq(E) /\ {} \in Formats
      BY DEF Formats
    <3>4. Acc(v, {}, g, nc, <<>>, own, mp) \in Accs(E)
      BY <3>3 DEF Accs, Acc
    <3> QED
      BY <3>2, <3>4
  <2> QED
    BY <2>3, <2>4, <2>5
<1>CollectedFields.
    ASSUME NEW S, NEW r, NEW a, NEW end, NEW lo, NEW top,
           NEW g, NEW nc, NEW cp, NEW pt, NEW lc, NEW mp, NEW acc,
           FieldsOK(S, end, lo, top, g, nc, cp, pt, lc, mp),
           acc = Acc(g, nc, cp, pt, Run(r, lo, top, a), lc, mp)
    PROVE  Collected(acc, S, r, a, end, lo, top)
  <2> USE <1>CollectedFields
  <2>1. /\ acc.group = g /\ acc.new_checkpoint = nc /\ acc.checkpoint = cp /\ acc.parts = pt
        /\ acc.latest_commit = lc /\ acc.max_published = mp
    BY DEF Acc
  <2> QED
    BY <2>1 DEF Collected, FieldsOK
<1>AdvanceOK.
    ASSUME NEW S, NEW r, NEW a, NEW end, NEW lo, NEW top, NEW v \in Int, NEW acc,
           Collected(acc, S, r, a, end, lo, top), acc.group # v
    PROVE  Advanced(maybe_flush_and_advance(acc, v), acc, S, r, a, end, lo, top, v)
  <2> USE <1>AdvanceOK
  <2> DEFINE g == acc.group
             nc == acc.new_checkpoint
             cp == acc.checkpoint
             pt == acc.parts
             lc == acc.latest_commit
             mp == acc.max_published
             cm == Run(r, lo, top, a)
             f == maybe_flush_and_advance(acc, v)
  <2>1. /\ acc = Acc(g, nc, cp, pt, cm, lc, mp)
        /\ lo \in Int /\ top \in Int /\ lo <= top /\ g \in Int
        /\ nc \in Formats /\ pt \in Formats /\ lc \in Int /\ mp \in Int
        /\ \/ cp = NoVersion
           \/ cp \in 0 .. end /\ HasCheckpoint(S, cp) /\ pt = CompleteCheckpoints(S, cp)
        /\ nc # {} => /\ g \in 0 .. end /\ HasCheckpoint(S, g)
                      /\ nc = CompleteCheckpoints(S, g)
    BY DEF Collected
  <2>2. CASE nc = {}
    <3>1. flush_checkpoint_group(acc) = acc
      BY <2>2 DEF flush_checkpoint_group
    <3> HIDE DEF g, nc, cp, pt, lc, mp, cm
    <3>2. f = Acc(v, {}, cp, pt, cm, lc, mp)
      <4>1. f = [acc EXCEPT !.group = v]
        BY <3>1 DEF maybe_flush_and_advance
      <4> QED
        BY <2>1, <2>2, <4>1, <1>AdvanceIs
    <3>3. f.group = v /\ f.new_checkpoint = {} /\ f.max_published = mp /\ f.checkpoint = cp
      BY <3>2 DEF Acc
    <3> HIDE DEF f
    <3>4. Collected(f, S, r, a, end, lo, top)
      <4>1. FieldsOK(S, end, lo, top, v, {}, cp, pt, lc, mp)
        BY <2>1, <2>2 DEF FieldsOK
      <4> QED
        BY <3>2, <4>1, <1>CollectedFields DEF cm
    <3> QED
      BY <2>2, <3>3, <3>4 DEF Advanced, f, mp, cp, nc
  <2>3. CASE nc # {}
    <3> HIDE DEF g, nc, cp, pt, lc, mp, cm
    <3>1. PICK own \in Int : flush_checkpoint_group(acc) = Acc(g, {}, g, nc, <<>>, own, mp)
      <4>1. g \in Int /\ acc = Acc(g, nc, cp, pt, cm, lc, mp)
        BY <2>1
      <4>2. flush_checkpoint_group(acc) =
              Acc(g, {}, g, nc, <<>>,
                  IF Len(cm) > 0 /\ cm[Len(cm)].version = g THEN g ELSE NoVersion, mp)
        BY <2>3, <4>1, <1>FlushIs
      <4> QED
        BY <4>1, <4>2 DEF NoVersion
    <3>2. f = Acc(v, {}, g, nc, <<>>, own, mp)
      <4>1. f = [flush_checkpoint_group(acc) EXCEPT !.group = v]
        BY DEF maybe_flush_and_advance
      <4> QED
        BY <3>1, <4>1, <1>AdvanceIs
    <3>3. f.group = v /\ f.new_checkpoint = {} /\ f.max_published = mp /\ f.checkpoint = g
      BY <3>2 DEF Acc
    <3>4. Run(r, top, top, a) = <<>>
      BY <2>1, EmptyRun
    <3> HIDE DEF f
    <3>5. Collected(f, S, r, a, end, top, top)
      <4>1. {} \in Formats
        BY DEF Formats
      <4>2. FieldsOK(S, end, top, top, v, {}, g, nc, own, mp)
        BY <2>1, <2>3, <4>1 DEF FieldsOK
      <4> QED
        BY <3>2, <3>4, <4>2, <1>CollectedFields
    <3> QED
      BY <2>3, <3>3, <3>5 DEF Advanced, f, mp, g, nc
  <2> QED
    BY <2>2, <2>3
<1>NothingIsListed.
    ASSUME NEW S, NEW r, NEW p, NEW a, NEW start, NEW end, World(S, r, p, a, start, end)
    PROVE  ListedUpTo(NothingListed, S, r, p, a, start, end, start - 1)
  <2> USE <1>NothingIsListed
  <2>1. start \in Nat /\ a \in Nat /\ start - 1 \in Int /\ start - 1 < start
    BY DEF World
  <2>2. Top(start, a, start - 1) = start - 1
    BY <2>1 DEF Top, Newest
  <2>3. Run(r, start - 1, start - 1, a) = <<>>
    BY <2>1, EmptyRun
  <2>4. NothingListed = Acc(NoVersion, {}, NoVersion, {}, Run(r, start - 1, start - 1, a),
                            NoVersion, NoVersion)
    BY <2>3 DEF NothingListed, Acc
  <2>5. NoVersion \in Int /\ NoVersion <= start - 1 /\ start - 1 <= start - 1 /\ {} \in Formats
    BY <2>1 DEF NoVersion, Formats
  <2>6. Collected(NothingListed, S, r, a, end, start - 1, start - 1)
    <3>1. FieldsOK(S, end, start - 1, start - 1, NoVersion, {}, NoVersion, {}, NoVersion, NoVersion)
      BY <2>1, <2>5 DEF FieldsOK
    <3> QED
      BY <2>4, <3>1, <1>CollectedFields
  <2>7. NothingListed.group = NoVersion
    BY DEF NothingListed
  <2>8. ListedTo(NothingListed, S, r, p, a, start, end, start - 1, start - 1)
    BY <2>1, <2>2, <2>5, <2>6, <2>7 DEF ListedTo
  <2> QED
    BY <2>1, <2>8 DEF ListedUpTo
<1>VersionStep.
    ASSUME NEW S, NEW r, NEW p, NEW a, NEW start, NEW end, World(S, r, p, a, start, end),
           NEW v \in start .. end, NEW acc,
           ListedUpTo(acc, S, r, p, a, start, end, v - 1)
    PROVE  ListedUpTo(ProcessVersion(acc, S, v, a + 1, end), S, r, p, a, start, end, v)
  <2> USE <1>VersionStep
  <2>1. /\ p \in Nat /\ Stored(S, r, p) /\ a \in 0 .. p /\ end \in Nat /\ start \in Nat
        /\ v \in 0 .. end /\ start <= v /\ start <= p /\ v \in Int /\ v - 1 \in Int
        /\ start = 0 \/ HasCheckpoint(S, start)
    BY DEF World
  <2>2. PICK lo \in Int : ListedTo(acc, S, r, p, a, start, end, v - 1, lo)
    BY DEF ListedUpTo
  <2>3. PICK t \in Int : t = Top(start, a, v - 1)
    BY <2>1 DEF Top, Newest
  <2>4. PICK complete : complete = CompleteCheckpoints(S, v)
    OBVIOUS
  <2>5. (complete # {} <=> HasCheckpoint(S, v)) /\ complete \in Formats
    BY <2>1, <2>4, <1>Checkpoints DEF CheckpointsAre, Formats
  <2>6. PICK others \in BOOLEAN : others <=> Others(S, v)
    OBVIOUS
  <2>7. complete # {} => others
    BY <2>4, <2>6 DEF Others
  <2>8. PICK f : Stepped(f, acc, S, a, v)
    BY DEF Stepped
  <2>9. /\ Collected(acc, S, r, a, end, lo, t)
        /\ acc.group \in Int /\ acc.group < v /\ acc.group # v
        /\ lo <= t
    BY <2>1, <2>2, <2>3 DEF ListedTo, Collected
  <2>10. PICK u : u = ProcessVersion(acc, S, v, a + 1, end)
    OBVIOUS
  <2>11. PICK mp \in Int : mp = IF v <= p THEN v ELSE p
    BY <2>1
  <2>12. (IF v <= p THEN Newest(acc.max_published, v) ELSE acc.max_published) = mp
    <3>1. CASE v = start
      <4>1. acc.max_published = NoVersion
        BY <2>1, <2>2, <3>1 DEF ListedTo, NothingListed
      <4> QED
        BY <2>1, <2>11, <3>1, <4>1 DEF Newest, NoVersion
    <3>2. CASE v # start
      <4>1. acc.max_published = IF v - 1 <= p THEN v - 1 ELSE p
        BY <2>1, <2>2, <3>2 DEF ListedTo
      <4> QED
        BY <2>1, <2>11, <4>1 DEF Newest
    <3> QED
      BY <3>1, <3>2
  <2>13. PICK t2 \in Int : t2 = Top(start, a, v)
    BY <2>1 DEF Top, Newest
  <2>14. /\ v <= a => t2 = v /\ t = v - 1
         /\ ~(v <= a) => t2 = t /\ t < v
         /\ t <= t2
    BY <2>1, <2>3, <2>13 DEF Top, Newest
  <2>15. CASE v <= a \/ others
    <3>1. Advanced(f, acc, S, r, a, end, lo, t, v)
      <4>1. f = maybe_flush_and_advance(acc, v)
        BY <2>6, <2>8, <2>15 DEF Stepped
      <4> QED
        BY <2>1, <2>9, <4>1, <1>AdvanceOK
    <3>2. PICK lo2 \in Int :
            /\ Collected(f, S, r, a, end, lo2, t)
            /\ acc.new_checkpoint = {} => lo2 = lo /\ f.checkpoint = acc.checkpoint
            /\ acc.new_checkpoint # {} => lo2 = t /\ f.checkpoint = acc.group
      BY <3>1 DEF Advanced
    <3>3. /\ f = Acc(v, {}, f.checkpoint, f.parts, Run(r, lo2, t, a), f.latest_commit,
                     acc.max_published)
          /\ lo2 <= t /\ f.parts \in Formats /\ f.latest_commit \in Int
          /\ \/ f.checkpoint = NoVersion
             \/ /\ f.checkpoint \in 0 .. end /\ HasCheckpoint(S, f.checkpoint)
                /\ f.parts = CompleteCheckpoints(S, f.checkpoint)
      BY <3>1, <3>2 DEF Advanced, Collected
    <3>4. u = Acc(v, complete, f.checkpoint, f.parts, Run(r, lo2, t2, a), f.latest_commit, mp)
      <4>1. u = Acc(v, IF others THEN complete ELSE {}, f.checkpoint, f.parts,
                    IF v <= a THEN Append(Run(r, lo2, t, a), CommitEntry(v, r[v], FALSE))
                    ELSE Run(r, lo2, t, a),
                    f.latest_commit, mp)
        <5>1. /\ f.group = v /\ f.new_checkpoint = {} /\ f.commits = Run(r, lo2, t, a)
              /\ f.max_published = acc.max_published
          BY <3>3 DEF Acc
        <5>2. IsAcc(f)
          BY <3>3, <5>1 DEF IsAcc
        <5>3. u = Versioned(f, S, r, p, a, v)
          BY <2>1, <2>8, <2>10, <5>2, <1>ProcessVersionIs
        <5> QED
          BY <2>4, <2>6, <2>12, <5>1, <5>3 DEF Versioned
      <4>2. (IF others THEN complete ELSE {}) = complete
        BY <2>7
      <4>3. v <= a => Append(Run(r, lo2, t, a), CommitEntry(v, r[v], FALSE)) = Run(r, lo2, t2, a)
        <5>1. SUFFICES ASSUME v <= a
                       PROVE  Append(Run(r, lo2, t, a), CommitEntry(v, r[v], FALSE)) =
                                Run(r, lo2, t2, a)
          OBVIOUS
        <5>2. t2 = v /\ v = t + 1 /\ (v > a) = FALSE
          BY <2>1, <2>14, <5>1
        <5>3. PICK e : e = CommitEntry(v, r[v], FALSE) /\ IsEntry(e, r, v, a)
          BY <5>2 DEF IsEntry
        <5>4. Follows(r, lo2, t, a, v, e)
          BY <3>3, <5>2, <5>3 DEF Follows
        <5>5. Append(Run(r, lo2, t, a), e) = Run(r, lo2, v, a)
          BY <5>4, RunAppend
        <5> QED
          BY <5>2, <5>3, <5>5
      <4> QED
        BY <2>14, <4>1, <4>2, <4>3
    <3>5. /\ u.group = v /\ u.new_checkpoint = complete /\ u.checkpoint = f.checkpoint
          /\ u.max_published = mp
      BY <3>4 DEF Acc
    <3>6. lo2 <= t2 /\ (v <= a => lo2 < v)
      BY <2>1, <2>14, <3>3
    <3>7. Collected(u, S, r, a, end, lo2, t2)
      <4>1. /\ complete # {} => v \in 0 .. end /\ HasCheckpoint(S, v)
            /\ t2 <= v
            /\ t2 = v => lo2 < t2
        BY <2>1, <2>5, <2>14, <3>6
      <4> QED
        <5>1. FieldsOK(S, end, lo2, t2, v, complete, f.checkpoint, f.parts, f.latest_commit, mp)
          BY <2>1, <2>4, <2>5, <3>3, <3>6, <4>1 DEF FieldsOK
        <5> QED
          BY <3>4, <5>1, <1>CollectedFields
    <3>8. u.new_checkpoint = {} => lo2 <= u.checkpoint
      <4>1. CASE acc.new_checkpoint # {}
        BY <2>9, <3>2, <3>5, <4>1 DEF Collected
      <4>2. CASE acc.new_checkpoint = {} /\ v = start
        <5>1. lo = start - 1 /\ acc.checkpoint = NoVersion
          BY <2>1, <2>2, <4>2 DEF ListedTo, NothingListed
        <5> QED
          BY <2>1, <2>5, <3>2, <3>5, <4>2, <5>1 DEF NoVersion
      <4>3. CASE acc.new_checkpoint = {} /\ v # start
        <5>1. lo <= acc.checkpoint
          BY <2>1, <2>2, <4>3 DEF ListedTo
        <5> QED
          BY <3>2, <3>5, <4>3, <5>1
      <4> QED
        BY <4>1, <4>2, <4>3
    <3>9. HasCheckpoint(S, start) => u.new_checkpoint # {} \/ u.checkpoint # NoVersion
      <4>1. CASE v = start
        BY <2>5, <3>5, <4>1
      <4>2. CASE v # start
        <5>1. HasCheckpoint(S, start) => acc.new_checkpoint # {} \/ acc.checkpoint # NoVersion
          BY <2>1, <2>2, <4>2 DEF ListedTo
        <5>2. acc.new_checkpoint # {} => acc.group # NoVersion
          BY <2>9 DEF Collected, NoVersion
        <5> QED
          BY <3>2, <3>5, <5>1, <5>2
      <4> QED
        BY <4>1, <4>2
    <3>10. ListedTo(u, S, r, p, a, start, end, v, lo2)
      BY <2>1, <2>11, <2>13, <3>5, <3>6, <3>7, <3>8, <3>9 DEF ListedTo
    <3> QED
      BY <2>10, <3>2, <3>10 DEF ListedUpTo
  <2>16. CASE ~(v <= a \/ others)
    <3>1. v # start /\ v - 1 >= start
      BY <2>1, <2>5, <2>7, <2>16
    <3>2. f = acc /\ t2 = t
      BY <2>6, <2>8, <2>14, <2>16 DEF Stepped
    <3>3. PICK g, nc, cp, pt, cm, lc, m :
            /\ acc = Acc(g, nc, cp, pt, cm, lc, m)
            /\ g = acc.group /\ nc = acc.new_checkpoint /\ cp = acc.checkpoint /\ pt = acc.parts
            /\ cm = Run(r, lo, t, a) /\ lc = acc.latest_commit /\ m = acc.max_published
      BY <2>9 DEF Collected
    <3>4. u = Acc(g, nc, cp, pt, cm, lc, mp)
      <4>1. acc.commits = cm
        BY <3>3 DEF Acc
      <4>2. IsAcc(acc)
        BY <3>3, <4>1 DEF IsAcc
      <4>3. u = Versioned(acc, S, r, p, a, v)
        BY <2>1, <2>8, <2>10, <3>2, <4>2, <1>ProcessVersionIs
      <4> QED
        BY <2>6, <2>12, <2>16, <3>3, <4>1, <4>3 DEF Versioned
    <3>5. u.group = g /\ u.new_checkpoint = nc /\ u.checkpoint = cp /\ u.max_published = mp
      BY <3>4 DEF Acc
    <3>6. Collected(u, S, r, a, end, lo, t2)
      <4>1. FieldsOK(S, end, lo, t, g, nc, cp, pt, lc, mp)
        BY <2>9, <3>3 DEF Collected, FieldsOK
      <4> QED
        BY <3>2, <3>3, <3>4, <4>1, <1>CollectedFields
    <3>7. /\ nc = {} => lo <= cp
          /\ HasCheckpoint(S, start) => nc # {} \/ cp # NoVersion
      BY <2>2, <3>1, <3>3 DEF ListedTo
    <3>8. u.group <= v /\ ~(v < start) /\ v >= start /\ ~(v <= a)
      <4>1. u.group = acc.group
        BY <3>3, <3>5
      <4>2. acc.group <= v
        BY <2>1, <2>9
      <4>3. ~(v < start) /\ v >= start
        BY <2>1
      <4> QED
        BY <2>16, <4>1, <4>2, <4>3
    <3>9. ListedTo(u, S, r, p, a, start, end, v, lo)
      <4>1. Collected(u, S, r, a, end, lo, Top(start, a, v))
        BY <2>13, <3>6
      <4>2. u.max_published = IF v <= p THEN v ELSE p
        BY <2>11, <3>5
      <4> QED
        BY <3>5, <3>7, <3>8, <4>1, <4>2 DEF ListedTo
    <3> QED
      BY <2>10, <3>9 DEF ListedUpTo
  <2> QED
    BY <2>15, <2>16
<1>VersionType.
    ASSUME NEW S, NEW r, NEW p \in Nat, Stored(S, r, p), NEW a \in 0 .. p,
           NEW end \in Nat, NEW v \in 0 .. end,
           NEW E, CommitEntry(v, r[v], FALSE) \in E, NEW acc \in Accs(E)
    PROVE  ProcessVersion(acc, S, v, a + 1, end) \in Accs(E)
  <2> USE <1>VersionType
  <2>1. PICK f : Stepped(f, acc, S, a, v)
    BY DEF Stepped
  <2>2. f \in Accs(E)
    <3>1. maybe_flush_and_advance(acc, v) \in Accs(E)
      BY <1>AdvanceType
    <3> QED
      BY <2>1, <3>1 DEF Stepped
  <2>3. /\ f.group \in Int /\ f.checkpoint \in Int /\ f.latest_commit \in Int
        /\ f.max_published \in Int /\ f.new_checkpoint \in Formats
        /\ f.parts \in Formats /\ f.commits \in Seq(E)
    BY <2>2 DEF Accs
  <2>4. IsAcc(f)
    BY <2>2 DEF Accs, IsAcc, Acc
  <2>5. ProcessVersion(acc, S, v, a + 1, end) = Versioned(f, S, r, p, a, v)
    BY <2>1, <2>4, <1>ProcessVersionIs
  <2>6. PICK nc2 : nc2 = IF Others(S, v) THEN CompleteCheckpoints(S, v) ELSE f.new_checkpoint
    OBVIOUS
  <2>7. PICK cm2 : cm2 = IF v <= a THEN Append(f.commits, CommitEntry(v, r[v], FALSE))
                         ELSE f.commits
    OBVIOUS
  <2>8. PICK mp2 : mp2 = IF v <= p THEN Newest(f.max_published, v) ELSE f.max_published
    OBVIOUS
  <2>9. nc2 \in Formats
    <3>1. CompleteCheckpoints(S, v) \in Formats
      BY <1>Checkpoints DEF CheckpointsAre, Formats
    <3> QED
      BY <2>3, <2>6, <3>1
  <2>10. cm2 \in Seq(E)
    <3>1. PICK e \in E : e = CommitEntry(v, r[v], FALSE)
      OBVIOUS
    <3>2. PICK cm \in Seq(E) : cm = f.commits
      BY <2>3
    <3>3. Append(cm, e) \in Seq(E)
      OBVIOUS
    <3> QED
      BY <2>7, <3>1, <3>2, <3>3
  <2>11. mp2 \in Int
    BY <2>3, <2>8 DEF Newest
  <2>12. Versioned(f, S, r, p, a, v) =
           Acc(f.group, nc2, f.checkpoint, f.parts, cm2, f.latest_commit, mp2)
    BY <2>6, <2>7, <2>8 DEF Versioned
  <2> QED
    BY <2>3, <2>5, <2>9, <2>10, <2>11, <2>12, <1>AccType
(* ListStorage goes from version to version.                                *)
<1>StorageSteps.
    ASSUME NEW S, NEW r, NEW p, NEW a, NEW start, NEW end, World(S, r, p, a, start, end)
    PROVE  \E f : /\ f[start - 1] = NothingListed
                  /\ \A v \in start .. end :
                       f[v] = ProcessVersion(f[v - 1], S, v, a + 1, end)
                  /\ ListStorage(S, a + 1, start, end) = f[end]
  <2> USE <1>StorageSteps
  <2> DEFINE n == end - start + 1
             E == {CommitEntry(v, r[v], FALSE) : v \in 0 .. end}
             T == Accs(E)
             Next(v, acc) == ProcessVersion(acc, S, v, a + 1, end)
             step == [i \in 1 .. n |-> [acc \in T |-> Next(start - 1 + i, acc)]]
  <2>1. /\ p \in Nat /\ Stored(S, r, p) /\ a \in 0 .. p /\ end \in Nat /\ start \in Nat
        /\ start <= end /\ n \in Nat
    BY DEF World
  <2>2. ASSUME NEW v \in start .. end, NEW acc \in T PROVE Next(v, acc) \in T
    <3>1. v \in 0 .. end
      BY <2>1
    <3>2. CommitEntry(v, r[v], FALSE) \in E
      BY <3>1
    <3> HIDE DEF E
    <3> QED
      BY <2>1, <3>1, <3>2, <1>VersionType
  <2>3. NothingListed \in T
    <3>1. <<>> \in Seq(E) /\ {} \in Formats /\ NoVersion \in Int
      BY DEF NoVersion, Formats
    <3>2. NothingListed = Acc(NoVersion, {}, NoVersion, {}, <<>>, NoVersion, NoVersion)
      BY DEF NothingListed, Acc
    <3> HIDE DEF E
    <3> QED
      BY <3>1, <3>2, <1>AccType
  <2>4. ASSUME NEW i \in 1 .. n PROVE start - 1 + i \in start .. end
    BY <2>1
  <2> HIDE DEF T, Next
  <2>5. step \in [1 .. n -> [T -> T]]
    BY <2>2, <2>4
  <2>6. PICK g : Iterates(g, n, T, NothingListed, step)
    <3> HIDE DEF step, n
    <3> QED
      BY <2>1, <2>3, <2>5, RecursionExists
  <2>7. /\ g \in [0 .. n -> T] /\ g[0] = NothingListed
        /\ \A i \in 1 .. n : g[i] = step[i][g[i - 1]]
    <3> HIDE DEF step, n
    <3> QED
      BY <2>6 DEF Iterates
  <2>8. PICK f : f = [v \in start - 1 .. end |-> g[v - (start - 1)]]
    OBVIOUS
  <2>9. ASSUME NEW v \in start .. end PROVE f[v] = Next(v, f[v - 1])
    <3>1. PICK i \in 1 .. n : i = v - (start - 1)
      BY <2>1
    <3>2. /\ f[v] = g[i] /\ f[v - 1] = g[i - 1] /\ i - 1 \in 0 .. n /\ start - 1 + i = v
      BY <2>1, <2>8, <3>1
    <3>3. g[i - 1] \in T
      BY <2>7, <3>2
    <3> QED
      BY <2>7, <3>2, <3>3
  <2>10. f = [v \in start - 1 .. end |->
                IF v < start THEN NothingListed ELSE Next(v, f[v - 1])]
    <3>1. f[start - 1] = NothingListed
      BY <2>1, <2>7, <2>8
    <3>2. \A v \in start - 1 .. end : v < start => v = start - 1
      BY <2>1
    <3>3. \A v \in start - 1 .. end : ~(v < start) => v \in start .. end
      BY <2>1
    <3> QED
      BY <2>8, <2>9, <3>1, <3>2, <3>3
  <2>11. PICK h : /\ h = [v \in start - 1 .. end |->
                            IF v < start THEN NothingListed ELSE Next(v, h[v - 1])]
                  /\ ListStorage(S, a + 1, start, end) = h[end]
    BY <2>10 DEF ListStorage, Next
  <2>12. h[start - 1] = NothingListed /\ \A v \in start .. end : h[v] = Next(v, h[v - 1])
    BY <2>1, <2>11
  <2> QED
    BY <2>11, <2>12 DEF Next
(* Phase 1 lists all versions.                                              *)
<1>StorageIsListed.
    ASSUME NEW S, NEW r, NEW p, NEW a, NEW start, NEW end, World(S, r, p, a, start, end)
    PROVE  ListedUpTo(ListStorage(S, a + 1, start, end), S, r, p, a, start, end, end)
  <2> USE <1>StorageIsListed
  <2>1. PICK f : /\ f[start - 1] = NothingListed
                 /\ \A v \in start .. end : f[v] = ProcessVersion(f[v - 1], S, v, a + 1, end)
                 /\ ListStorage(S, a + 1, start, end) = f[end]
    BY <1>StorageSteps
  <2> DEFINE Good(v) == ListedUpTo(f[v], S, r, p, a, start, end, v)
             Bad == {k \in Nat : start - 1 + k <= end /\ ~Good(start - 1 + k)}
  <2>2. start \in Nat /\ end \in Nat /\ start <= end
    BY DEF World
  <2>3. Good(start - 1)
    BY <2>1, <1>NothingIsListed
  <2>4. ASSUME NEW v \in start .. end, Good(v - 1) PROVE Good(v)
    <3>1. f[v] = ProcessVersion(f[v - 1], S, v, a + 1, end)
      BY <2>1
    <3>2. ListedUpTo(ProcessVersion(f[v - 1], S, v, a + 1, end), S, r, p, a, start, end, v)
      BY <2>4, <1>VersionStep
    <3> QED
      BY <3>1, <3>2
  <2> HIDE DEF Good
  <2>5. Bad = {}
    <3>1. SUFFICES ASSUME Bad # {} PROVE FALSE
      OBVIOUS
    <3>2. PICK k \in Bad : \A j \in Bad : k <= j
      <4>1. Bad \in SUBSET Nat
        OBVIOUS
      <4> HIDE DEF Bad
      <4> QED
        BY <3>1, <4>1, LeastElement
    <3>3. k # 0
      <4>1. start - 1 + 0 = start - 1
        BY <2>2
      <4> QED
        BY <2>3, <4>1
    <3>4. PICK v \in start .. end : v = start - 1 + k
      BY <2>2, <3>3
    <3>5. k - 1 \in Nat /\ start - 1 + (k - 1) = v - 1 /\ v - 1 <= end /\ ~(k <= k - 1)
      BY <2>2, <3>3, <3>4
    <3>6. Good(v - 1)
      BY <3>2, <3>5
    <3> QED
      BY <2>4, <3>4, <3>6
  <2>6. PICK k \in Nat : k = end - (start - 1)
    BY <2>2
  <2>7. start - 1 + k = end
    BY <2>2, <2>6
  <2>8. Good(end)
    <3>1. start - 1 + k <= end
      BY <2>2, <2>7
    <3>2. k \notin Bad
      BY <2>5
    <3>3. Good(start - 1 + k)
      BY <3>1, <3>2
    <3> QED
      BY <2>7, <3>3
  <2> QED
    BY <2>1, <2>8 DEF Good
<1>TailStep.
    ASSUME NEW S, NEW r, NEW a \in Int, NEW start, NEW end \in Nat, NEW mp, NEW base \in Int,
           a <= base, NEW i \in Nat, base + i < end, NEW acc,
           TakenUpTo(acc, S, r, a, start, end, mp, base, i),
           NEW e, IsEntry(e, r, base + i + 1, a)
    PROVE  TakenUpTo(ProcessTail(acc, e), S, r, a, start, end, mp, base, i + 1)
  <2> USE <1>TailStep
  <2>1. PICK lo \in Int : TakenTo(acc, S, r, a, start, end, mp, base, i, lo)
    BY DEF TakenUpTo
  <2>2. PICK v \in Int : v = base + i + 1
    OBVIOUS
  <2>3. PICK t \in Int : t = base + i
    OBVIOUS
  <2>4. v = t + 1 /\ v = base + (i + 1) /\ v <= end /\ (v > a) = TRUE
    BY <2>2, <2>3
  <2>5. PICK f : f = maybe_flush_and_advance(acc, v)
    OBVIOUS
  <2>6. Collected(acc, S, r, a, end, lo, t) /\ acc.group \in Int
    BY <2>1, <2>3 DEF TakenTo, Collected
  <2>7. PICK lo2 \in Int :
          /\ Collected(f, S, r, a, end, lo2, t)
          /\ f.group = v /\ f.max_published = mp
          /\ f.new_checkpoint = {} => lo2 <= f.checkpoint
          /\ HasCheckpoint(S, start) => f.new_checkpoint # {} \/ f.checkpoint # NoVersion
    <3>1. CASE acc.group = v
      <4>1. f = acc
        BY <2>5, <3>1 DEF maybe_flush_and_advance
      <4> QED
        BY <2>1, <2>6, <3>1, <4>1 DEF TakenTo
    <3>2. CASE acc.group # v
      <4>1. Advanced(f, acc, S, r, a, end, lo, t, v)
        BY <2>5, <2>6, <3>2, <1>AdvanceOK
      <4>2. CASE acc.new_checkpoint = {}
        BY <2>1, <4>1, <4>2 DEF Advanced, TakenTo
      <4>3. CASE acc.new_checkpoint # {}
        <5>1. t <= acc.group /\ acc.group # NoVersion
          BY <2>6, <4>3 DEF Collected, NoVersion
        <5> QED
          BY <2>1, <4>1, <4>3, <5>1 DEF Advanced, TakenTo
      <4> QED
        BY <4>2, <4>3
    <3> QED
      BY <3>1, <3>2
  <2>8. PICK nc, cp, pt, cm, lc :
          /\ f = Acc(v, nc, cp, pt, cm, lc, mp)
          /\ nc = f.new_checkpoint /\ cp = f.checkpoint /\ pt = f.parts
          /\ cm = Run(r, lo2, t, a) /\ lc = f.latest_commit
    BY <2>7 DEF Collected
  <2>9. PICK u : u = ProcessTail(acc, e)
    OBVIOUS
  <2>10. u = Acc(v, nc, cp, pt, Append(cm, e), lc, mp)
    <3>2. e.version = v /\ e.staged = TRUE
      BY <2>2, <2>4 DEF IsEntry, CommitEntry
    <3>3. maybe_flush_and_advance(acc, v) = Acc(v, nc, cp, pt, cm, lc, mp)
      BY <2>5, <2>8
    <3>4. Takes(acc, v, e, v, nc, cp, pt, cm, lc, mp)
      BY <3>2, <3>3 DEF Takes
    <3> QED
      BY <2>9, <3>4, <1>ProcessTailIs
  <2>11. FieldsOK(S, end, lo2, t, v, nc, cp, pt, lc, mp)
    BY <2>7, <2>8 DEF Collected, FieldsOK
  <2>12. FieldsOK(S, end, lo2, v, v, nc, cp, pt, lc, mp) /\ lo2 < v
    BY <2>4, <2>11 DEF FieldsOK
  <2>13. Append(cm, e) = Run(r, lo2, v, a)
    <3>1. lo2 <= t
      BY <2>11 DEF FieldsOK
    <3>2. Follows(r, lo2, t, a, v, e)
      BY <2>2, <2>4, <3>1 DEF Follows
    <3>3. Append(Run(r, lo2, t, a), e) = Run(r, lo2, v, a)
      BY <3>2, RunAppend
    <3> QED
      BY <2>8, <3>3
  <2>14. Collected(u, S, r, a, end, lo2, base + (i + 1))
    BY <2>4, <2>10, <2>12, <2>13, <1>CollectedFields
  <2>15. u.group = v /\ u.new_checkpoint = nc /\ u.checkpoint = cp /\ u.max_published = mp
    BY <2>10 DEF Acc
  <2>16. TakenTo(u, S, r, a, start, end, mp, base, i + 1, lo2)
    BY <2>4, <2>7, <2>8, <2>12, <2>14, <2>15 DEF TakenTo
  <2> QED
    BY <2>9, <2>16 DEF TakenUpTo
<1>TailType.
    ASSUME NEW E, NEW acc \in Accs(E), NEW e \in E, e.version \in Int, e.staged = TRUE
    PROVE  ProcessTail(acc, e) \in Accs(E)
  <2> USE <1>TailType
  <2>1. PICK f \in Accs(E) : f = maybe_flush_and_advance(acc, e.version)
    BY <1>AdvanceType
  <2>2. PICK g, cp, lc, mp \in Int, nc, pt \in Formats, cm \in Seq(E) :
          f = Acc(g, nc, cp, pt, cm, lc, mp)
    <3>1. f = Acc(f.group, f.new_checkpoint, f.checkpoint, f.parts, f.commits,
                  f.latest_commit, f.max_published)
      BY DEF Accs, Acc
    <3>2. /\ f.group \in Int /\ f.checkpoint \in Int /\ f.latest_commit \in Int
          /\ f.max_published \in Int /\ f.new_checkpoint \in Formats
          /\ f.parts \in Formats /\ f.commits \in Seq(E)
      BY DEF Accs
    <3> QED
      BY <3>1, <3>2
  <2>3. PICK v : v = e.version
    OBVIOUS
  <2>4. Takes(acc, v, e, g, nc, cp, pt, cm, lc, mp)
    BY <2>1, <2>2, <2>3 DEF Takes
  <2>5. ProcessTail(acc, e) = Acc(g, nc, cp, pt, Append(cm, e), lc, mp)
    BY <2>4, <1>ProcessTailIs
  <2>6. PICK cm2 \in Seq(E) : cm2 = Append(cm, e)
    <3>1. Append(cm, e) \in Seq(E)
      OBVIOUS
    <3> QED
      BY <3>1
  <2>7. Acc(g, nc, cp, pt, cm2, lc, mp) \in Accs(E)
    BY DEF Accs, Acc
  <2> QED
    BY <2>5, <2>6, <2>7
<1>TailSteps.
    ASSUME NEW E, NEW acc, NEW entries, StagedTail(E, acc, entries)
    PROVE  \E f : Walks(f, acc, entries)
  <2> USE <1>TailSteps
  <2> USE DEF StagedTail, Walks
  <2> DEFINE n == Len(entries)
             T == Accs(E)
             Next(i, x) == ProcessTail(x, entries[i])
             step == [i \in 1 .. n |-> [x \in T |-> Next(i, x)]]
  <2>1. n \in Nat
    OBVIOUS
  <2>2. ASSUME NEW i \in 1 .. n, NEW x \in T PROVE Next(i, x) \in T
    <3>1. PICK e \in E : e = entries[i] /\ e.version \in Int /\ e.staged = TRUE
      OBVIOUS
    <3>2. ProcessTail(x, e) \in Accs(E)
      BY <3>1, <1>TailType
    <3> QED
      BY <3>1, <3>2
  <2>3. acc \in T
    OBVIOUS
  <2> HIDE DEF n, T, Next
  <2>4. step \in [1 .. n -> [T -> T]]
    BY <2>2
  <2>5. PICK f : Iterates(f, n, T, acc, step)
    <3> HIDE DEF step
    <3> QED
      BY <2>1, <2>3, <2>4, RecursionExists
  <2>6. f \in [0 .. n -> T] /\ f[0] = acc /\ \A i \in 1 .. n : f[i] = step[i][f[i - 1]]
    <3> HIDE DEF step
    <3> QED
      BY <2>5 DEF Iterates
  <2>7. ASSUME NEW i \in 1 .. n PROVE f[i] = Next(i, f[i - 1])
    <3>1. i - 1 \in 0 .. n
      BY <2>1
    <3>2. f[i - 1] \in T
      BY <2>6, <3>1
    <3> QED
      BY <2>6, <3>2
  <2>8. f = [i \in 0 .. n |-> IF i = 0 THEN acc ELSE Next(i, f[i - 1])]
    BY <2>1, <2>6, <2>7
  <2>9. PICK g : /\ g = [i \in 0 .. n |-> IF i = 0 THEN acc ELSE Next(i, g[i - 1])]
                 /\ ListTail(acc, entries) = g[n]
    BY <2>8 DEF ListTail, n, Next
  <2>10. g[0] = acc /\ \A i \in 1 .. n : g[i] = Next(i, g[i - 1])
    BY <2>1, <2>9
  <2> QED
    BY <2>9, <2>10 DEF n, Next
(* Phase 2 takes all entries.                                               *)
<1>TailIsTaken.
    ASSUME NEW S, NEW r, NEW a \in Int, NEW start, NEW end \in Nat, NEW mp, NEW base \in Int,
           a <= base, base <= end, NEW acc, NEW entries, entries = Run(r, base, end, a),
           TakenUpTo(acc, S, r, a, start, end, mp, base, 0)
    PROVE  TakenUpTo(ListTail(acc, entries), S, r, a, start, end, mp, base, end - base)
  <2> USE <1>TailIsTaken
  <2>1. PICK n \in Nat : n = end - base
    OBVIOUS
  <2>2. IsRun(entries, r, base, end, a)
    BY RunType
  <2>3. /\ entries \in Seq(Range(entries)) /\ Len(entries) = n
        /\ \A i \in 1 .. n : entries[i] = CommitEntry(base + i, r[base + i], base + i > a)
    BY <2>1, <2>2 DEF IsRun
  <2>4. ASSUME NEW i \in 1 .. n
        PROVE  entries[i].version \in Int /\ entries[i].staged = TRUE
    <3>1. base + i \in Int /\ (base + i > a) = TRUE
      OBVIOUS
    <3>2. entries[i] = CommitEntry(base + i, r[base + i], TRUE)
      BY <2>3, <3>1
    <3> QED
      BY <3>1, <3>2 DEF CommitEntry
  <2>5. PICK lo \in Int : TakenTo(acc, S, r, a, start, end, mp, base, 0, lo)
    BY DEF TakenUpTo
  <2>6. base + 0 = base
    OBVIOUS
  <2>7. PICK run : run = Run(r, lo, base, a)
    OBVIOUS
  <2>8. FieldsOK(S, end, lo, base, acc.group, acc.new_checkpoint, acc.checkpoint, acc.parts,
                 acc.latest_commit, acc.max_published)
    BY <2>5, <2>6 DEF TakenTo, Collected, FieldsOK
  <2>9. run \in Seq(Range(run))
    <3>1. lo <= base
      BY <2>8 DEF FieldsOK
    <3>2. IsRun(run, r, lo, base, a)
      BY <2>7, <3>1, RunType
    <3> QED
      BY <3>2 DEF IsRun
  <2>10. PICK E : E = Range(entries) \cup Range(run)
    OBVIOUS
  <2>11. entries \in Seq(E) /\ run \in Seq(E)
    BY <2>3, <2>9, <2>10
  <2>12. acc \in Accs(E)
    <3>1. acc = Acc(acc.group, acc.new_checkpoint, acc.checkpoint, acc.parts, run,
                    acc.latest_commit, acc.max_published)
      BY <2>5, <2>6, <2>7 DEF TakenTo, Collected
    <3>2. /\ acc.group \in Int /\ acc.new_checkpoint \in Formats /\ acc.checkpoint \in Int
          /\ acc.parts \in Formats /\ acc.latest_commit \in Int /\ acc.max_published \in Int
      BY <2>8 DEF FieldsOK, NoVersion
    <3> QED
      BY <2>11, <3>1, <3>2, <1>AccType
  <2>13. PICK f : /\ f[0] = acc
                  /\ \A i \in 1 .. n : f[i] = ProcessTail(f[i - 1], entries[i])
                  /\ ListTail(acc, entries) = f[n]
    <3>1. \A i \in 1 .. Len(entries) :
            entries[i].version \in Int /\ entries[i].staged = TRUE
      BY <2>3, <2>4
    <3>2. StagedTail(E, acc, entries)
      BY <2>11, <2>12, <3>1 DEF StagedTail
    <3>3. \E f : Walks(f, acc, entries)
      BY <3>2, <1>TailSteps
    <3> QED
      BY <2>3, <3>3 DEF Walks
  <2> DEFINE Good(i) == TakenUpTo(f[i], S, r, a, start, end, mp, base, i)
             Bad == {i \in Nat : i <= n /\ ~Good(i)}
  <2>14. Good(0)
    BY <2>13
  <2>15. ASSUME NEW i \in Nat, i + 1 <= n, Good(i) PROVE Good(i + 1)
    <3>1. i + 1 \in 1 .. n /\ base + i < end /\ (i + 1) - 1 = i /\ base + (i + 1) = base + i + 1
      BY <2>1, <2>15
    <3>2. PICK e : e = entries[i + 1]
      OBVIOUS
    <3>3. IsEntry(e, r, base + i + 1, a)
      BY <2>3, <3>1, <3>2 DEF IsEntry
    <3>4. TakenUpTo(ProcessTail(f[i], e), S, r, a, start, end, mp, base, i + 1)
      BY <2>15, <3>1, <3>3, <1>TailStep
    <3> QED
      BY <2>13, <3>1, <3>2, <3>4
  <2> HIDE DEF Good
  <2>16. Bad = {}
    <3>1. SUFFICES ASSUME Bad # {} PROVE FALSE
      OBVIOUS
    <3>2. PICK k \in Bad : \A j \in Bad : k <= j
      <4>1. Bad \in SUBSET Nat
        OBVIOUS
      <4> HIDE DEF Bad
      <4> QED
        BY <3>1, <4>1, LeastElement
    <3>3. k # 0
      BY <2>14
    <3>4. PICK i \in Nat : k = i + 1
      BY <3>3
    <3>5. i + 1 <= n /\ i <= n /\ ~(k <= i)
      BY <3>4
    <3>6. Good(i)
      BY <3>2, <3>5
    <3> QED
      BY <2>15, <3>4, <3>5, <3>6
  <2>17. Good(n)
    BY <2>16
  <2> QED
    BY <2>1, <2>13, <2>17 DEF Good
<1>LatestIs.
    ASSUME NEW g, NEW nc, NEW cp, NEW pt, NEW cm, NEW lc, NEW mp, NEW v
    PROVE  [Acc(g, nc, cp, pt, cm, lc, mp) EXCEPT !.latest_commit = v] =
             Acc(g, nc, cp, pt, cm, v, mp)
  <2>1. PICK acc : acc = Acc(g, nc, cp, pt, cm, lc, mp)
    OBVIOUS
  <2>2. PICK X : X = {g, nc, cp, pt, cm, lc, mp, v, {}, NoVersion}
    OBVIOUS
  <2>3. acc \in AccOf(X) /\ v \in X
    BY <2>1, <2>2 DEF Acc, AccOf
  <2>4. PICK u : u = [acc EXCEPT !.latest_commit = v]
    OBVIOUS
  <2>5. u \in AccOf(X)
    BY <2>3, <2>4 DEF AccOf
  <2>6. /\ u.group = g /\ u.new_checkpoint = nc /\ u.checkpoint = cp /\ u.parts = pt
        /\ u.commits = cm /\ u.compacted = {} /\ u.crc = NoVersion
        /\ u.latest_commit = v /\ u.max_published = mp
    BY <2>1, <2>3, <2>4 DEF AccOf, Acc
  <2>7. u = Acc(g, nc, cp, pt, cm, v, mp)
    BY <2>5, <2>6 DEF AccOf, Acc
  <2> QED
    BY <2>1, <2>4, <2>7
(* The entries of the tail that are taken start after the storage's.        *)
<1>TakenEntries.
    ASSUME NEW S, NEW r, NEW p, NEW a, NEW start, NEW end, World(S, r, p, a, start, end),
           NEW tail, tail = Run(r, a, end, a)
    PROVE  /\ TailStart(tail, end) = a + 1
           /\ Only(tail, {e \in Range(tail) : start <= e.version /\ e.version <= end}) =
                Run(r, Top(start, a, end), end, a)
  <2> USE <1>TakenEntries
  <2>1. a \in Int /\ end \in Int /\ a <= end /\ start \in Nat /\ start <= end
    BY DEF World
  <2>2. IsRun(tail, r, a, end, a)
    BY <2>1, RunType
  <2>3. /\ Len(tail) = end - a /\ DOMAIN tail = 1 .. end - a
        /\ \A i \in 1 .. end - a : tail[i] = CommitEntry(a + i, r[a + i], a + i > a)
        /\ a = end <=> tail = <<>>
    BY <2>2 DEF IsRun
  <2>4. TailStart(tail, end) = a + 1
    <3>1. CASE tail = <<>>
      BY <2>1, <2>3, <3>1 DEF TailStart
    <3>2. CASE tail # <<>>
      <4>1. 1 \in 1 .. end - a
        BY <2>1, <2>3, <3>2
      <4>2. tail[1].version = a + 1
        BY <2>3, <4>1 DEF CommitEntry
      <4> QED
        BY <3>2, <4>2 DEF TailStart
    <3> QED
      BY <3>1, <3>2
  <2>5. PICK set : set = {e \in Range(tail) : start <= e.version /\ e.version <= end}
    OBVIOUS
  <2>6. PICK x \in a .. end : x = Top(start, a, end)
    BY <2>1 DEF Top, Newest
  <2>7. ASSUME NEW v \in a + 1 .. end
        PROVE  CommitEntry(v, r[v], v > a) \in set <=> x < v /\ v <= end
    <3>1. PICK i \in 1 .. end - a : i = v - a
      BY <2>1
    <3>2. a + i = v
      BY <2>1, <3>1
    <3>3. PICK e : e = CommitEntry(v, r[v], v > a)
      OBVIOUS
    <3>4. e \in Range(tail)
      <4>1. tail[i] = e
        BY <2>3, <3>2, <3>3
      <4> QED
        BY <2>3, <4>1 DEF Range
    <3>5. e.version = v
      BY <3>3 DEF CommitEntry
    <3>6. e \in set <=> start <= v /\ v <= end
      BY <2>5, <3>4, <3>5
    <3>7. start <= v <=> x < v
      BY <2>1, <2>6 DEF Top, Newest
    <3> QED
      BY <3>3, <3>6, <3>7
  <2>8. Only(Run(r, a, end, a), set) = Run(r, x, end, a)
    <3>1. end \in x .. end
      BY <2>1
    <3> QED
      BY <2>1, <2>7, <3>1, OnlyRun
  <2> QED
    BY <2>4, <2>5, <2>6, <2>8
<1>ListIs.
    ASSUME NEW S, NEW r, NEW p, NEW a, NEW start, NEW end, World(S, r, p, a, start, end),
           NEW mp, mp = IF end <= p THEN end ELSE p
    PROVE  IsListed(List(S, Run(r, a, end, a), start, end), S, r, a, start, end, mp)
  <2> USE <1>ListIs
  <2>1. a \in Int /\ end \in Nat /\ a <= end /\ start \in Nat /\ start <= end /\ a \in Nat
    BY DEF World
  <2>2. PICK tail : tail = Run(r, a, end, a)
    OBVIOUS
  <2>3. PICK base \in Int : base = Top(start, a, end)
    BY <2>1 DEF Top, Newest
  <2>4. a <= base /\ base <= end /\ (base = end => end <= a)
    BY <2>1, <2>3 DEF Top, Newest
  <2>5. PICK entries : entries = Run(r, base, end, a)
    OBVIOUS
  <2>6. /\ TailStart(tail, end) = a + 1
        /\ Only(tail, {e \in Range(tail) : start <= e.version /\ e.version <= end}) = entries
    BY <2>2, <2>3, <2>5, <1>TakenEntries
  <2>7. PICK acc1 : acc1 = ListStorage(S, a + 1, start, end)
    OBVIOUS
  <2>8. TakenUpTo(acc1, S, r, a, start, end, mp, base, 0)
    <3>1. ListedUpTo(acc1, S, r, p, a, start, end, end)
      BY <2>7, <1>StorageIsListed
    <3>2. PICK lo \in Int : ListedTo(acc1, S, r, p, a, start, end, end, lo)
      BY <3>1 DEF ListedUpTo
    <3>3. base + 0 = base /\ end >= start /\ ~(0 > 0)
      BY <2>1
    <3>4. end <= a => lo < base
      <4>1. end <= a => base = end
        BY <2>1, <2>3 DEF Top, Newest
      <4> QED
        BY <3>2, <3>3, <4>1 DEF ListedTo
    <3>5. TakenTo(acc1, S, r, a, start, end, mp, base, 0, lo)
      BY <2>3, <3>2, <3>3, <3>4 DEF ListedTo, TakenTo
    <3> QED
      BY <3>5 DEF TakenUpTo
  <2>9. PICK acc2 : acc2 = ListTail(acc1, entries)
    OBVIOUS
  <2>10. TakenUpTo(acc2, S, r, a, start, end, mp, base, end - base)
    BY <2>1, <2>4, <2>5, <2>8, <2>9, <1>TailIsTaken
  <2>11. PICK lo \in Int : TakenTo(acc2, S, r, a, start, end, mp, base, end - base, lo)
    BY <2>10 DEF TakenUpTo
  <2>12. base + (end - base) = end /\ (end - base > 0 \/ end <= a)
    BY <2>1, <2>4
  <2>13. PICK g, nc, cp, pt, cm, lc :
           /\ acc2 = Acc(g, nc, cp, pt, cm, lc, mp) /\ cm = Run(r, lo, end, a)
           /\ g = acc2.group /\ nc = acc2.new_checkpoint /\ cp = acc2.checkpoint
           /\ pt = acc2.parts
    BY <2>11, <2>12 DEF TakenTo, Collected
  <2>14. /\ g \in Int /\ lo < end /\ (nc = {} => lo <= cp)
         /\ HasCheckpoint(S, start) => nc # {} \/ cp # NoVersion
         /\ \/ cp = NoVersion
            \/ cp \in 0 .. end /\ HasCheckpoint(S, cp) /\ pt = CompleteCheckpoints(S, cp)
         /\ nc # {} => /\ g = end /\ g \in 0 .. end
                       /\ HasCheckpoint(S, g) /\ nc = CompleteCheckpoints(S, g)
    <3>1. /\ Collected(acc2, S, r, a, end, lo, end) /\ lo < end
          /\ nc = {} => lo <= cp
          /\ HasCheckpoint(S, start) => nc # {} \/ cp # NoVersion
      BY <2>11, <2>12, <2>13 DEF TakenTo
    <3>2. g \in Int
      BY <2>13, <3>1 DEF Collected
    <3>3. \/ cp = NoVersion
          \/ cp \in 0 .. end /\ HasCheckpoint(S, cp) /\ pt = CompleteCheckpoints(S, cp)
      BY <2>13, <3>1 DEF Collected
    <3>4. ASSUME nc # {}
          PROVE  g \in 0 .. end /\ end <= g /\ HasCheckpoint(S, g) /\ nc = CompleteCheckpoints(S, g)
      BY <2>13, <3>1, <3>4 DEF Collected
    <3>5. nc # {} => g = end
      BY <2>1, <3>4
    <3> QED
      BY <3>1, <3>2, <3>3, <3>4, <3>5
  <2>15. Len(cm) > 0 /\ cm[Len(cm)].version = end
    <3>1. lo < end /\ end \in Int
      BY <2>1, <2>14
    <3>2. SpansTo(Run(r, lo, end, a), lo, end)
      BY <3>1, RunEnd
    <3> QED
      BY <2>13, <3>2 DEF SpansTo
  <2>16. PICK listed : listed = flush_checkpoint_group(acc2)
    OBVIOUS
  <2>17. PICK L : L = List(S, tail, start, end)
    OBVIOUS
  <2>18. L = [listed EXCEPT !.latest_commit =
                IF Len(listed.commits) > 0 THEN listed.commits[Len(listed.commits)].version ELSE @]
    BY <2>6, <2>7, <2>9, <2>16, <2>17 DEF List
  <2>19. CASE nc = {}
    <3>1. listed = acc2
      BY <2>13, <2>16, <2>19 DEF flush_checkpoint_group
    <3>2. listed.commits = cm
      BY <2>13, <3>1 DEF Acc
    <3>3. L = [listed EXCEPT !.latest_commit = end]
      BY <2>15, <2>18, <3>2
    <3>4. L = Acc(g, {}, cp, pt, cm, end, mp)
      <4>1. listed = Acc(g, {}, cp, pt, cm, lc, mp)
        BY <2>13, <2>19, <3>1
      <4>2. [Acc(g, {}, cp, pt, cm, lc, mp) EXCEPT !.latest_commit = end]
              = Acc(g, {}, cp, pt, cm, end, mp)
        BY <1>LatestIs
      <4> QED
        BY <3>3, <4>1, <4>2
    <3>5. cp <= end
      BY <2>1, <2>14 DEF NoVersion
    <3>6. Ended(L, S, r, a, start, end, mp, g, cp, pt, lo)
      BY <2>13, <2>14, <2>19, <3>4, <3>5 DEF Ended
    <3> QED
      BY <2>2, <2>17, <3>6 DEF IsListed
  <2>20. CASE nc # {}
    <3>1. listed = Acc(g, {}, g, nc, <<>>, end, mp)
      <4>1. flush_checkpoint_group(Acc(g, nc, cp, pt, cm, lc, mp)) =
              Acc(g, {}, g, nc, <<>>,
                  IF Len(cm) > 0 /\ cm[Len(cm)].version = g THEN g ELSE NoVersion, mp)
        BY <2>14, <2>20, <1>FlushIs
      <4> QED
        BY <2>13, <2>14, <2>15, <2>16, <2>20, <4>1
    <3>2. listed.commits = <<>> /\ listed.latest_commit = end
      BY <3>1 DEF Acc
    <3>3. L = [listed EXCEPT !.latest_commit = end]
      BY <2>18, <3>2
    <3>4. L = Acc(g, {}, g, nc, <<>>, end, mp)
      BY <3>1, <3>3, <1>LatestIs
    <3>5. Run(r, end, end, a) = <<>>
      BY <2>1, EmptyRun
    <3>6. end <= end /\ g # NoVersion
      BY <2>1, <2>14, <2>20 DEF NoVersion
    <3>7. Ended(L, S, r, a, start, end, mp, g, g, nc, end)
      BY <2>1, <2>14, <2>20, <3>4, <3>5, <3>6 DEF Ended
    <3> QED
      BY <2>2, <2>17, <3>7 DEF IsListed
  <2> QED
    BY <2>19, <2>20
<1>SegmentIs.
    ASSUME NEW L, NEW S, NEW r, NEW a, NEW start, NEW end \in Nat, NEW mp, NEW g, NEW cp, NEW pt,
           NEW lo, Ended(L, S, r, a, start, end, mp, g, cp, pt, lo)
    PROVE  try_new(L, end) = Segment(r, end, cp, a, mp)
  <2> USE <1>SegmentIs
  <2>1. /\ L = Acc(g, {}, cp, pt, Run(r, lo, end, a), end, mp)
        /\ lo \in Int /\ lo <= cp /\ cp <= end /\ cp \in Int
    BY DEF Ended, NoVersion
  <2>2. PICK run : run = Run(r, lo, end, a)
    OBVIOUS
  <2>3. /\ L.checkpoint = cp /\ L.commits = run /\ L.compacted = {} /\ L.crc = NoVersion
        /\ L.latest_commit = end /\ L.max_published = mp
    BY <2>1, <2>2 DEF Acc
  <2>4. PICK commits : commits = Run(r, cp, end, a)
    OBVIOUS
  <2>5. Retained(L) = commits
    <3>1. cp \in lo .. end
      BY <2>1
    <3>2. Only(run, {e \in Range(run) : cp < e.version}) = commits
      BY <2>1, <2>2, <2>4, <3>1, RunFrom
    <3> QED
      BY <2>3, <3>2 DEF Retained
  <2>6. Contiguous(run)
    <3>1. lo <= end
      BY <2>1
    <3> QED
      BY <2>1, <2>2, <3>1, RunContiguous
  <2>7. /\ commits # <<>> => commits[Len(commits)].version = end /\ commits[1].version = cp + 1
        /\ commits = <<>> => cp = end
    <3>1. CASE cp = end
      BY <2>1, <2>4, <3>1, EmptyRun
    <3>2. CASE cp < end
      <4>1. SpansTo(Run(r, cp, end, a), cp, end)
        BY <2>1, <3>2, RunEnd
      <4> QED
        BY <2>4, <4>1 DEF SpansTo
    <3> QED
      BY <2>1, <3>1, <3>2
  <2>8. end # NoVersion
    BY DEF NoVersion
  <2> QED
    BY <2>3, <2>4, <2>5, <2>6, <2>7, <2>8 DEF try_new, Segment
<1>SegmentIsListed.
    ASSUME NEW S, NEW r, NEW p, NEW a, NEW start, NEW end, World(S, r, p, a, start, end),
           end \in DOMAIN r, NEW L, L = List(S, Run(r, a, end, a), start, end)
    PROVE  \E cp, pt : ListsSegment(try_new(L, end), L, S, r, start, pt, cp)
  <2> USE <1>SegmentIsListed
  <2>1. /\ p \in Nat /\ a \in Nat /\ a <= p /\ end \in Nat /\ a <= end /\ Stored(S, r, p)
        /\ start \in Nat
    BY DEF World
  <2>2. PICK mp : mp = IF end <= p THEN end ELSE p
    OBVIOUS
  <2>3. mp \in Nat /\ mp <= end /\ mp <= p /\ a <= mp /\ (mp = end \/ mp = p)
    BY <2>1, <2>2
  <2>4. mp \in DOMAIN S.commits
    <3>1. DOMAIN S.commits = 0 .. p
      BY <2>1 DEF Stored
    <3> QED
      BY <2>1, <2>3, <3>1
  <2>5. IsListed(L, S, r, a, start, end, mp)
    BY <2>2, <1>ListIs
  <2>6. PICK g, cp, pt, lo : Ended(L, S, r, a, start, end, mp, g, cp, pt, lo)
    BY <2>5 DEF IsListed
  <2>7. PICK s : s = try_new(L, end)
    OBVIOUS
  <2>8. s = Segment(r, end, cp, a, mp)
    BY <2>1, <2>6, <2>7, <1>SegmentIs
  <2>9. /\ cp \in Int /\ cp <= end
        /\ \/ cp = NoVersion
           \/ cp \in Nat /\ HasCheckpoint(S, cp) /\ pt = CompleteCheckpoints(S, cp)
        /\ HasCheckpoint(S, start) => cp # NoVersion
    BY <2>1, <2>6 DEF Ended, NoVersion
  <2>10. cp <= mp
    <3>1. CASE cp = NoVersion
      BY <2>3, <3>1 DEF NoVersion
    <3>2. CASE cp # NoVersion
      <4>1. CheckpointsAre(S, cp, p)
        BY <2>1, <1>Checkpoints
      <4>2. cp <= p
        BY <2>1, <2>9, <3>2, <4>1 DEF CheckpointsAre
      <4> QED
        BY <2>1, <2>3, <2>9, <4>2
    <3> QED
      BY <3>1, <3>2
  <2>11. IsSegment(s, r, S, end, cp, a, mp)
    BY <2>1, <2>3, <2>4, <2>8, <2>9, <2>10 DEF IsSegment
  <2>12. SegmentOK(s, r, S) /\ s.ok = TRUE
    BY <2>8, <2>11 DEF SegmentOK, Segment
  <2>13. L.checkpoint = cp /\ L.parts = pt
    <3>1. L = Acc(g, {}, cp, pt, Run(r, lo, end, a), end, mp)
      BY <2>6 DEF Ended
    <3> QED
      BY <3>1 DEF Acc
  <2>14. ListsSegment(s, L, S, r, start, pt, cp)
    BY <2>9, <2>12, <2>13 DEF ListsSegment
  <2> QED
    BY <2>7, <2>14
<1> SUFFICES ASSUME NEW S, NEW r, NEW p, NEW a, NEW end, NEW hint, Loadable(S, r, p, a, end, hint)
             PROVE  Loaded(for_snapshot(S, Run(r, a, end, a), hint, end), r, S)
  OBVIOUS
<1>1. /\ p \in Nat /\ Stored(S, r, p) /\ a \in 0 .. p /\ end \in Nat /\ a <= end
      /\ end \in DOMAIN r /\ HintOK(hint, S)
  BY DEF Loadable
<1>2. PICK tail : tail = Run(r, a, end, a)
  OBVIOUS
<1>3. PICK s : s = for_snapshot(S, tail, hint, end)
  OBVIOUS
<1>4. CASE hint # <<>> /\ hint[1].version <= end
  <2>1. PICK h \in DOMAIN S.commits, n \in 1 .. 2 : HintNames(hint, S, h, n)
    BY <1>1, <1>4 DEF HintOK
  <2>2. hint[1].version = h /\ hint[1].parts = n
    BY <2>1 DEF HintNames
  <2>3. DOMAIN S.commits = 0 .. p
    BY <1>1 DEF Stored
  <2>4. h \in 0 .. end /\ h <= p
    BY <1>1, <1>4, <2>2, <2>3
  <2>5. HasCheckpoint(S, h)
    BY <2>1 DEF HintNames, HasCheckpoint
  <2>6. World(S, r, p, a, h, end)
    BY <1>1, <2>4, <2>5 DEF World
  <2>7. PICK L : L = List(S, tail, h, end)
    OBVIOUS
  <2>8. PICK cp, pt : ListsSegment(try_new(L, end), L, S, r, h, pt, cp)
    BY <1>1, <1>2, <2>6, <2>7, <1>SegmentIsListed
  <2>9. s = IF HintMisleads(L, hint[1]) THEN NoSegment ELSE try_new(L, end)
    BY <1>3, <1>4, <2>2, <2>7 DEF for_snapshot
  <2>10. \/ s = NoSegment
         \/ SegmentOK(s, r, S) /\ s.ok = TRUE
    BY <2>8, <2>9 DEF ListsSegment
  <2>11. ASSUME OneFormatIn(S)
         PROVE  ~HintMisleads(L, hint[1])
    <3>1. L.checkpoint = cp /\ L.parts = pt /\ cp # NoVersion /\ pt = CompleteCheckpoints(S, cp)
      BY <2>5, <2>8 DEF ListsSegment
    <3>2. ASSUME cp = h, NEW m \in pt
          PROVE  m = n
      <4>1. CheckpointsAre(S, h, p)
        BY <1>1, <1>Checkpoints
      <4>2. m \in CompleteCheckpoints(S, h) /\ (m = 1 \/ m = 2)
        BY <3>1, <3>2, <4>1 DEF CheckpointsAre
      <4>3. h \in S.single => m = 1
        BY <2>11, <4>2 DEF OneFormatIn
      <4>4. m = 1 => h \in S.single
        BY <4>1, <4>2 DEF CheckpointsAre
      <4>5. CASE n = 1 /\ h \in S.single
        BY <4>3, <4>5
      <4>6. CASE n = 2 /\ <<h, 1, 2>> \in S.parts /\ <<h, 2, 2>> \in S.parts
        <5>1. 2 \in CompleteCheckpoints(S, h)
          BY <4>1, <4>6 DEF CheckpointsAre
        <5>2. h \notin S.single
          BY <2>11, <5>1 DEF OneFormatIn
        <5> QED
          BY <4>2, <4>4, <4>6, <5>2
      <4> QED
        BY <2>1, <4>5, <4>6 DEF HintNames
    <3> QED
      BY <2>2, <3>1, <3>2 DEF HintMisleads
  <2>12. Loaded(s, r, S)
    BY <2>8, <2>9, <2>10, <2>11 DEF Loaded, ListsSegment
  <2> QED
    BY <1>2, <1>3, <2>12
<1>5. CASE ~(hint # <<>> /\ hint[1].version <= end)
  <2>1. World(S, r, p, a, 0, end)
    BY <1>1 DEF World
  <2>2. PICK L : L = List(S, tail, 0, end)
    OBVIOUS
  <2>3. PICK cp, pt : ListsSegment(try_new(L, end), L, S, r, 0, pt, cp)
    BY <1>1, <1>2, <2>1, <2>2, <1>SegmentIsListed
  <2>4. s = try_new(L, end)
    BY <1>3, <1>5, <2>2 DEF for_snapshot
  <2>5. Loaded(s, r, S)
    BY <2>3, <2>4 DEF Loaded, ListsSegment
  <2> QED
    BY <1>2, <1>3, <2>5
<1> QED
  BY <1>4, <1>5

=============================================================================
