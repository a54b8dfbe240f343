------------------------ MODULE CommitProtocol_proof ------------------------
(***************************************************************************)
(* Proofs about CommitProtocol, for any number of transactions, versions,  *)
(* retries, applications and clock readings.  The hypothesis NoRogueCreate *)
(* is what the debug assertion of Transaction::is_create_table states:     *)
(* engines do not name an operation on an existing table "CREATE TABLE".   *)
(***************************************************************************)
EXTENDS CommitProtocol, TLAPS

NoRogueCreate == "CREATE TABLE" \notin Operations

Exists(v) == log[v] # NoCommit

(* A version exists only if all versions before it do. *)
Contiguous == \A u, v \in Versions : u < v /\ Exists(v) => Exists(u)

(* Every commit file is what its transaction computes on the version just   *)
(* before it, and the state of its version is that state plus the commit.   *)
Replayed ==
    \A v \in Versions : Exists(v) =>
        /\ Serial!RanOn(StateBefore(state, v), log[v])
        /\ state[v] = ReplayCommit(StateBefore(state, v), log[v])

(* The facts writers depend on only grow along the log. *)
Monotone ==
    \A u, v \in Versions : u < v /\ Exists(v) =>
        /\ \A a \in Apps : state[u].apps[a] <= state[v].apps[a]
        /\ state[u].highWaterMark <= state[v].highWaterMark
        /\ state[u].ict < state[v].ict

(* A transaction reads a version that exists, or creates the table, and     *)
(* carries the txn version that follows the one it read.                    *)
ReadsExist ==
    \A t \in Txns : txn[t].status # "unused" =>
        /\ is_create_table(t) <=> txn[t].read = PRE_COMMIT_VERSION
        /\ ~is_create_table(t) => txn[t].read < MaxVersion /\ Exists(txn[t].read)
        /\ txn[t].appVersion = ReadState(t).apps[txn[t].app] + 1

(* Requests and commit files are those of attempts their transactions made. *)
OwnedRequest(r) ==
    /\ txn[r.id].status \notin {"unused", "open"}
    /\ r.attempt \in 1..txn[r.id].attempt
    /\ r.version = get_commit_version(r.id)
    /\ r.commit = CommitOf(r.id)
    /\ r.in_commit_timestamp = txn[r.id].timestamp

RequestsOwned == \A r \in puts : OwnedRequest(r)

FilesOwned ==
    \A v \in Versions : Exists(v) =>
        /\ txn[log[v].id].status \notin {"unused", "open"}
        /\ v = get_commit_version(log[v].id)

(* What a transaction knows of its request.  A transaction on its first     *)
(* attempt without an answer has no commit file yet unless its request is   *)
(* no longer awaited.                                                       *)
NotInLog(t) == \A v \in Versions : Exists(v) => log[v].id # t

AnswersOf(t) ==
    /\ txn[t].status \in {"unused", "open"} => txn[t].attempt = 0 /\ txn[t].reply = "none"
    /\ txn[t].status \in {"committing", "retryable", "conflicted"} => txn[t].attempt >= 1
    /\ (txn[t].reply = "ok" \/ txn[t].status = "committed") =>
         /\ Exists(get_commit_version(t))
         /\ log[get_commit_version(t)].id = t
    /\ (txn[t].attempt = 1 /\ txn[t].status = "committing" /\ txn[t].reply = "none")
         => NotInLog(t)
    /\ (txn[t].attempt = 1 /\ txn[t].status \in {"committing", "conflicted"}
          /\ txn[t].reply = "exists")
         => NotInLog(t) /\ \A r \in puts : r.id # t
    /\ txn[t].status = "conflicted" => txn[t].reply = "exists"
    /\ txn[t].reply = "exists" => Exists(get_commit_version(t))
    /\ (txn[t].status = "committing" /\ txn[t].reply # "none") =>
         \A r \in puts : r.id = t => r.attempt # txn[t].attempt

Answers == \A t \in Txns : AnswersOf(t)

IInv ==
    /\ TypeOK
    /\ Contiguous
    /\ Replayed
    /\ Monotone
    /\ ReadsExist
    /\ RequestsOwned
    /\ FilesOwned
    /\ Answers

----------------------------------------------------------------------------

(* Version arithmetic: the pre-commit version wraps to 0 and is no version  *)
(* of the log; below the bound wrapping_add is addition.                    *)
LEMMA VersionArithmetic ==
    /\ PRE_COMMIT_VERSION \notin Versions
    /\ wrapping_add(PRE_COMMIT_VERSION, 1) = 0
    /\ \A v \in Versions : v < MaxVersion =>
         /\ wrapping_add(v, 1) = v + 1
         /\ v + 1 \in Versions
<1>1. /\ VersionModulus \in Nat
      /\ MaxVersion \in Nat
      /\ MaxVersion + 1 < VersionModulus
  BY TableLogAssumption, CommitProtocolAssumption
<1>2. VersionModulus % VersionModulus = 0
  BY <1>1
<1>3. \A n \in Nat : n < VersionModulus => n % VersionModulus = n
  BY <1>1
<1> QED
  BY <1>1, <1>2, <1>3 DEF PRE_COMMIT_VERSION, Versions, wrapping_add

(* A transaction that was opened commits to a version of the log, and the   *)
(* state just before that version is the state its snapshot shows.          *)
LEMMA CommitTarget ==
    ASSUME TypeOK, ReadsExist, NEW t \in Txns, txn[t].status # "unused"
    PROVE  /\ get_commit_version(t) \in Versions
           /\ ReadState(t) = StateBefore(state, get_commit_version(t))
           /\ ReadState(t) \in TableState
           /\ get_commit_version(t) # 0 =>
                /\ get_commit_version(t) - 1 \in Versions
                /\ Exists(get_commit_version(t) - 1)
<1>1. /\ txn[t] \in Transaction
      /\ state \in [Versions -> TableState]
      /\ EmptyState \in TableState
      /\ MaxVersion \in Nat
  BY TableLogAssumption DEF TypeOK, EmptyState, TableState
<1>2. CASE txn[t].read = PRE_COMMIT_VERSION
  <2>1. get_commit_version(t) = 0
    BY <1>2, VersionArithmetic DEF get_commit_version
  <2>2. ReadState(t) = EmptyState
    BY <1>2 DEF ReadState
  <2> QED
    BY <1>1, <2>1, <2>2 DEF StateBefore, Versions
<1>3. CASE txn[t].read # PRE_COMMIT_VERSION
  <2>1. /\ txn[t].read \in Versions
        /\ txn[t].read < MaxVersion
        /\ Exists(txn[t].read)
    BY <1>1, <1>3 DEF ReadsExist, Transaction
  <2>2. get_commit_version(t) = txn[t].read + 1 /\ txn[t].read + 1 \in Versions
    BY <2>1, VersionArithmetic DEF get_commit_version
  <2>3. ReadState(t) = state[txn[t].read]
    BY <1>3 DEF ReadState
  <2>4. txn[t].read \in Nat
    BY <2>1, <1>1 DEF Versions
  <2> QED
    BY <1>1, <2>1, <2>2, <2>3, <2>4 DEF StateBefore
<1> QED
  BY <1>2, <1>3

(* The commit of an opened transaction is well formed and is what the       *)
(* transaction computes on the state it read.                               *)
LEMMA CommitRanOnRead ==
    ASSUME TypeOK, ReadsExist, NEW t \in Txns, txn[t].status # "unused"
    PROVE  /\ CommitOf(t) \in Commit
           /\ Serial!RanOn(ReadState(t), CommitOf(t))
<1>1. /\ txn[t] \in Transaction
      /\ ReadState(t) \in TableState
  BY CommitTarget DEF TypeOK
<1>2. /\ txn[t].app \in Apps /\ txn[t].rows \in Nat /\ txn[t].timestamp \in Nat
      /\ txn[t].appVersion \in Nat
      /\ ReadState(t).highWaterMark \in Nat \cup {-1}
      /\ ReadState(t).ict \in Nat \cup {-1}
  BY <1>1 DEF Transaction, TableState
<1>3. txn[t].appVersion = ReadState(t).apps[txn[t].app] + 1
  BY DEF ReadsExist
<1>4. /\ get_in_commit_timestamp(t) \in Nat
      /\ get_in_commit_timestamp(t) > ReadState(t).ict
  <2>1. CASE is_create_table(t)
    <3>1. ReadState(t) = EmptyState
      BY <2>1 DEF ReadsExist, ReadState
    <3> QED
      BY <1>2, <2>1, <3>1 DEF get_in_commit_timestamp, EmptyState
  <2>2. CASE ~is_create_table(t)
    BY <1>2, <2>2 DEF get_in_commit_timestamp, Max2
  <2> QED
    BY <2>1, <2>2
<1> QED
  BY <1>2, <1>3, <1>4 DEF CommitOf, Commit, Serial!RanOn

----------------------------------------------------------------------------

(* What a transaction was built from. *)
Staged(t) == <<txn[t].read, txn[t].operation, txn[t].timestamp, txn[t].app,
               txn[t].appVersion, txn[t].rows>>

(* A step that leaves the log and what a transaction was built from alone   *)
(* leaves everything commit computes from them alone.                       *)
LEMMA StagedFrame ==
    ASSUME NEW t \in Txns, UNCHANGED <<log, state>>, Staged(t)' = Staged(t)
    PROVE  /\ is_create_table(t)' = is_create_table(t)
           /\ get_commit_version(t)' = get_commit_version(t)
           /\ ReadState(t)' = ReadState(t)
           /\ CommitOf(t)' = CommitOf(t)
           /\ txn'[t].read = txn[t].read
           /\ txn'[t].app = txn[t].app
           /\ txn'[t].appVersion = txn[t].appVersion
           /\ txn'[t].timestamp = txn[t].timestamp
<1>1. /\ txn'[t].read = txn[t].read
      /\ txn'[t].operation = txn[t].operation
      /\ txn'[t].timestamp = txn[t].timestamp
      /\ txn'[t].app = txn[t].app
      /\ txn'[t].appVersion = txn[t].appVersion
      /\ txn'[t].rows = txn[t].rows
  BY DEF Staged
<1>2. is_create_table(t)' = is_create_table(t)
  BY <1>1 DEF is_create_table
<1>3. get_commit_version(t)' = get_commit_version(t)
  BY <1>1 DEF get_commit_version, wrapping_add
<1>4. ReadState(t)' = ReadState(t)
  BY <1>1 DEF ReadState, PRE_COMMIT_VERSION
<1>5. get_in_commit_timestamp(t)' = get_in_commit_timestamp(t)
  BY <1>1, <1>2, <1>4 DEF get_in_commit_timestamp
<1>6. CommitOf(t)' = CommitOf(t)
  BY <1>1, <1>4, <1>5 DEF CommitOf
<1> QED
  BY <1>1, <1>2, <1>3, <1>4, <1>6

(* The part of the invariant that is about the log alone. *)
LEMMA LogFrame ==
    ASSUME IInv, UNCHANGED <<log, state>>
    PROVE  /\ Contiguous' /\ Replayed' /\ Monotone'
           /\ (log \in [Versions -> Commit \cup {NoCommit}])'
           /\ (state \in [Versions -> TableState])'
BY DEF IInv, TypeOK, Contiguous, Replayed, Monotone, Exists, StateBefore,
       Serial!RanOn

(* The two ways to build a transaction: on the pre-commit snapshot of a     *)
(* table to be created, or on a version that exists.                        *)
OpensAt(read, operation, app, appVersion) ==
    \/ /\ read = PRE_COMMIT_VERSION
       /\ operation = "CREATE TABLE"
       /\ appVersion = 1
    \/ /\ read \in Versions /\ read < MaxVersion /\ Exists(read)
       /\ operation \in Operations /\ operation # "CREATE TABLE"
       /\ appVersion = state[read].apps[app] + 1

(* Building a transaction object preserves the invariant. *)
LEMMA OpenPreserves ==
    ASSUME IInv, NEW t \in Txns,
           NEW read, NEW operation, NEW app \in Apps, NEW appVersion, NEW rows \in Nat,
           OpensAt(read, operation, app, appVersion),
           Open(t, read, operation, app, appVersion, rows)
    PROVE  IInv'
<1> USE DEF IInv
<1>1. PICK now \in Timestamps :
        txn' = [txn EXCEPT ![t] = [UnusedTxn EXCEPT
                  !.status = "open", !.read = read, !.operation = operation,
                  !.timestamp = now, !.app = app, !.appVersion = appVersion,
                  !.rows = rows]]
  BY DEF Open
<1>2. /\ now \in Nat
      /\ txn \in [Txns -> Transaction]
      /\ txn[t].status = "unused"
      /\ UNCHANGED <<log, state, puts>>
  BY CommitProtocolAssumption DEF Open, TypeOK
<1>fields. /\ read \in Versions \cup {PRE_COMMIT_VERSION}
      /\ operation \in Operations \cup {"none", "CREATE TABLE"}
      /\ appVersion \in Nat
  <2>1. CASE read = PRE_COMMIT_VERSION
    <3>1. operation = "CREATE TABLE" /\ appVersion = 1
      BY <2>1, VersionArithmetic DEF OpensAt
    <3> QED
      BY <2>1, <3>1
  <2>2. CASE read # PRE_COMMIT_VERSION
    <3>1. state[read].apps[app] \in Nat
      BY <2>2 DEF OpensAt, TypeOK, TableState
    <3>2. appVersion = state[read].apps[app] + 1
      BY <2>2 DEF OpensAt
    <3>3. appVersion \in Nat
      BY <3>1, <3>2
    <3> QED
      BY <2>2, <3>3 DEF OpensAt
  <2> QED
    BY <2>1, <2>2
<1>3. /\ txn'[t].status = "open" /\ txn'[t].read = read
      /\ txn'[t].operation = operation /\ txn'[t].timestamp = now
      /\ txn'[t].app = app /\ txn'[t].appVersion = appVersion
      /\ txn'[t].rows = rows /\ txn'[t].attempt = 0 /\ txn'[t].reply = "none"
      /\ \A s \in Txns \ {t} : txn'[s] = txn[s]
      /\ txn' \in [Txns -> Transaction]
  BY <1>1, <1>2, <1>fields DEF UnusedTxn, Transaction, Statuses
<1>4. TypeOK'
  BY <1>2, <1>3, LogFrame DEF TypeOK, PutRequest
<1>5. \A s \in Txns \ {t} : Staged(s)' = Staged(s)
  BY <1>3 DEF Staged
<1>6. ReadsExist'
  <2> SUFFICES ASSUME NEW s \in Txns, txn'[s].status # "unused"
               PROVE  /\ is_create_table(s)' <=> txn'[s].read = PRE_COMMIT_VERSION
                      /\ ~is_create_table(s)' => txn'[s].read < MaxVersion /\ Exists(txn[s].read)'
                      /\ txn'[s].appVersion = ReadState(s)'.apps[txn'[s].app] + 1
    BY DEF ReadsExist, PRE_COMMIT_VERSION
  <2>1. CASE s = t
    <3>1. is_create_table(s)' <=> operation = "CREATE TABLE"
      BY <1>3, <2>1 DEF is_create_table
    <3>2. ReadState(s)' = IF read = PRE_COMMIT_VERSION THEN EmptyState ELSE state[read]
      BY <1>2, <1>3, <2>1 DEF ReadState, PRE_COMMIT_VERSION
    <3>3. CASE read = PRE_COMMIT_VERSION
      <4>1. operation = "CREATE TABLE" /\ appVersion = 1
        BY <3>3, VersionArithmetic DEF OpensAt
      <4>2. ReadState(s)'.apps[app] = 0
        BY <3>2, <3>3 DEF EmptyState
      <4>3. ReadState(s)'.apps[app] + 1 = 1
        BY <4>2
      <4> QED
        BY <1>3, <2>1, <3>1, <3>3, <4>1, <4>3
    <3>4. CASE read # PRE_COMMIT_VERSION
      <4>1. /\ operation # "CREATE TABLE" /\ read < MaxVersion /\ Exists(read)
            /\ appVersion = state[read].apps[app] + 1
        BY <3>4 DEF OpensAt
      <4>2. Exists(txn[s].read)'
        BY <1>2, <1>3, <2>1, <4>1 DEF Exists
      <4> QED
        BY <1>3, <2>1, <3>1, <3>2, <3>4, <4>1, <4>2
    <3> QED
      BY <3>3, <3>4
  <2>2. CASE s # t
    BY <1>2, <1>3, <1>5, <2>2, StagedFrame DEF ReadsExist, Exists
  <2> QED
    BY <2>1, <2>2
<1>7. RequestsOwned'
  <2> SUFFICES ASSUME NEW r \in puts' PROVE OwnedRequest(r)'
    BY DEF RequestsOwned
  <2>1. r.id \in Txns \ {t} /\ OwnedRequest(r)
    BY <1>2 DEF RequestsOwned, OwnedRequest, TypeOK, PutRequest
  <2> QED
    BY <1>2, <1>3, <1>5, <2>1, StagedFrame DEF OwnedRequest
<1>8. FilesOwned'
  <2> SUFFICES ASSUME NEW v \in Versions, Exists(v)'
               PROVE  /\ txn'[log[v].id].status \notin {"unused", "open"}
                      /\ v = get_commit_version(log[v].id)'
    BY <1>2 DEF FilesOwned
  <2>1. log[v].id \in Txns \ {t}
    BY <1>2 DEF FilesOwned, TypeOK, Commit, Exists
  <2> QED
    BY <1>2, <1>3, <1>5, <2>1, StagedFrame DEF FilesOwned, Exists
<1>9. Answers'
  <2> SUFFICES ASSUME NEW s \in Txns PROVE AnswersOf(s)'
    BY DEF Answers
  <2>1. CASE s = t
    BY <1>3, <2>1 DEF AnswersOf
  <2>2. CASE s # t
    <3>1. get_commit_version(s)' = get_commit_version(s) /\ txn'[s] = txn[s]
      BY <1>2, <1>3, <1>5, <2>2, StagedFrame
    <3>2. AnswersOf(s)
      BY DEF Answers
    <3> QED
      BY <1>2, <3>1, <3>2 DEF AnswersOf, NotInLog, Exists
  <2> QED
    BY <2>1, <2>2
<1> QED
  BY <1>2, <1>4, <1>6, <1>7, <1>8, <1>9, LogFrame

(* A step in which one transaction moves on and the log stays: everything   *)
(* but the new requests and what this transaction knows is preserved.       *)
LEMMA ProgressFrame ==
    ASSUME IInv, NEW t \in Txns, UNCHANGED <<log, state>>,
           txn' \in [Txns -> Transaction],
           \A s \in Txns \ {t} : txn'[s] = txn[s],
           Staged(t)' = Staged(t),
           txn[t].status # "unused",
           txn'[t].status \notin {"unused", "open"},
           txn'[t].attempt >= txn[t].attempt,
           \A r \in puts' : r \in puts \/ r.id = t
    PROVE  /\ Contiguous' /\ Replayed' /\ Monotone' /\ ReadsExist' /\ FilesOwned'
           /\ (log \in [Versions -> Commit \cup {NoCommit}])'
           /\ (state \in [Versions -> TableState])'
           /\ \A r \in puts : OwnedRequest(r)'
           /\ \A s \in Txns \ {t} : AnswersOf(s)'
           /\ get_commit_version(t)' = get_commit_version(t)
           /\ CommitOf(t)' = CommitOf(t)
           /\ txn'[t].timestamp = txn[t].timestamp
<1> USE DEF IInv
<1>1. \A s \in Txns : Staged(s)' = Staged(s)
  BY DEF Staged
<1>2. \A s \in Txns :
        /\ is_create_table(s)' = is_create_table(s)
        /\ get_commit_version(s)' = get_commit_version(s)
        /\ ReadState(s)' = ReadState(s)
        /\ CommitOf(s)' = CommitOf(s)
        /\ txn'[s].read = txn[s].read
        /\ txn'[s].app = txn[s].app
        /\ txn'[s].appVersion = txn[s].appVersion
        /\ txn'[s].timestamp = txn[s].timestamp
  BY <1>1, StagedFrame
<1>3. ReadsExist'
  <2> SUFFICES ASSUME NEW s \in Txns, txn'[s].status # "unused"
               PROVE  /\ is_create_table(s)' <=> txn'[s].read = PRE_COMMIT_VERSION
                      /\ ~is_create_table(s)' => txn'[s].read < MaxVersion /\ Exists(txn[s].read)'
                      /\ txn'[s].appVersion = ReadState(s)'.apps[txn'[s].app] + 1
    BY DEF ReadsExist, PRE_COMMIT_VERSION
  <2>1. txn[s].status # "unused"
    OBVIOUS
  <2> QED
    BY <1>2, <2>1 DEF ReadsExist, Exists
<1>4. FilesOwned'
  <2> SUFFICES ASSUME NEW v \in Versions, Exists(v)
               PROVE  /\ txn'[log[v].id].status \notin {"unused", "open"}
                      /\ v = get_commit_version(log[v].id)'
    BY DEF FilesOwned, Exists
  <2>1. log[v].id \in Txns
    BY DEF TypeOK, Commit, Exists
  <2> QED
    BY <1>2, <2>1 DEF FilesOwned
<1>5. ASSUME NEW r \in puts PROVE OwnedRequest(r)'
  <2>1. r.id \in Txns /\ OwnedRequest(r)
    BY DEF RequestsOwned, TypeOK, PutRequest
  <2>2. /\ txn[r.id].attempt \in Nat /\ txn'[r.id].attempt \in Nat
        /\ r.attempt \in Nat
    BY <2>1 DEF TypeOK, Transaction, PutRequest
  <2>3. txn'[r.id].attempt >= txn[r.id].attempt
    BY <2>1, <2>2
  <2>4. r.attempt \in 1..txn'[r.id].attempt
    BY <2>1, <2>2, <2>3 DEF OwnedRequest
  <2> QED
    BY <1>2, <2>1, <2>4 DEF OwnedRequest
<1>6. ASSUME NEW s \in Txns \ {t} PROVE AnswersOf(s)'
  <2>1. AnswersOf(s) /\ txn'[s] = txn[s]
    BY DEF Answers
  <2>2. get_commit_version(s)' = get_commit_version(s)
    BY <1>2
  <2> QED
    BY <2>1, <2>2 DEF AnswersOf, NotInLog, Exists
<1> QED
  BY <1>2, <1>3, <1>4, <1>5, <1>6, LogFrame

(* Transaction::commit up to the write request preserves the invariant. *)
LEMMA CommitStartPreserves ==
    ASSUME IInv, NEW t \in Txns, CommitStart(t)
    PROVE  IInv'
<1> USE DEF IInv
<1>1. /\ txn \in [Txns -> Transaction] /\ txn[t] \in Transaction
      /\ txn[t].status \in {"open", "retryable"}
      /\ UNCHANGED <<log, state>>
  BY DEF CommitStart, TypeOK
<1>2. CASE is_create_table(t) /\ txn[t].rows > 0
  <2>1. txn' = [txn EXCEPT ![t].status = "dropped"] /\ puts' = puts
    BY <1>2 DEF CommitStart
  <2>2. /\ txn' \in [Txns -> Transaction]
        /\ txn'[t] = [txn[t] EXCEPT !.status = "dropped"]
        /\ \A s \in Txns \ {t} : txn'[s] = txn[s]
    BY <1>1, <2>1 DEF Transaction, Statuses
  <2>3. /\ Staged(t)' = Staged(t)
        /\ txn'[t].status = "dropped"
        /\ txn'[t].attempt = txn[t].attempt
        /\ txn'[t].reply = txn[t].reply
        /\ txn[t].attempt \in Nat
    BY <1>1, <2>2 DEF Staged, Transaction
  <2>4. AnswersOf(t)'
    <3>1. AnswersOf(t)
      BY DEF Answers
    <3> QED
      BY <1>1, <2>1, <2>2, <2>3, <3>1, ProgressFrame DEF AnswersOf, NotInLog, Exists
  <2> QED
    BY <1>1, <2>1, <2>2, <2>3, <2>4, ProgressFrame
    DEF TypeOK, RequestsOwned, Answers, PutRequest
<1>3. CASE ~(is_create_table(t) /\ txn[t].rows > 0)
  <2>1. txn' = [txn EXCEPT ![t].status = "committing",
                           ![t].attempt = txn[t].attempt + 1,
                           ![t].reply = "none"]
    BY <1>3 DEF CommitStart
  <2>2. /\ txn[t].attempt \in Nat /\ txn[t].timestamp \in Nat
        /\ txn' \in [Txns -> Transaction]
        /\ \A s \in Txns \ {t} : txn'[s] = txn[s]
        /\ txn'[t].status = "committing"
        /\ txn'[t].attempt = txn[t].attempt + 1
        /\ txn'[t].reply = "none"
        /\ Staged(t)' = Staged(t)
    <3>1. /\ txn[t].attempt \in Nat /\ txn[t].attempt + 1 \in Nat
          /\ txn[t].timestamp \in Nat
      <4>1. txn[t].attempt \in Nat /\ txn[t].timestamp \in Nat
        BY <1>1 DEF Transaction
      <4> QED
        BY <4>1
    <3>2. txn'[t] = [txn[t] EXCEPT !.status = "committing",
                                   !.attempt = txn[t].attempt + 1,
                                   !.reply = "none"]
      BY <1>1, <2>1
    <3>3. txn'[t] \in Transaction
      BY <1>1, <3>1, <3>2 DEF Transaction, Statuses
    <3>4. /\ txn' \in [Txns -> Transaction]
          /\ \A s \in Txns \ {t} : txn'[s] = txn[s]
      BY <1>1, <2>1, <3>2, <3>3
    <3>5. /\ txn'[t].status = "committing"
          /\ txn'[t].attempt = txn[t].attempt + 1
          /\ txn'[t].reply = "none"
          /\ Staged(t)' = Staged(t)
      BY <1>1, <3>2 DEF Transaction, Staged
    <3> QED
      BY <3>1, <3>4, <3>5
  <2>3. PICK r \in PutRequest :
          /\ puts' = puts \cup {r}
          /\ r.id = t /\ r.attempt = txn[t].attempt + 1
          /\ r.version = get_commit_version(t) /\ r.commit = CommitOf(t)
          /\ r.in_commit_timestamp = txn[t].timestamp
    <3> DEFINE q == [id                  |-> t,
                     attempt             |-> txn[t].attempt + 1,
                     version             |-> get_commit_version(t),
                     commit              |-> CommitOf(t),
                     in_commit_timestamp |-> txn[t].timestamp]
    <3>1. puts' = puts \cup {q}
      BY <1>3 DEF CommitStart
    <3>2. q \in PutRequest
      BY <1>1, <2>2, CommitTarget, CommitRanOnRead DEF PutRequest
    <3> QED
      BY <3>1, <3>2
  <2>4. r.id = t
    BY <2>3
  <2>5. \A q \in puts' : q \in puts \/ q.id = t
    BY <2>3, <2>4
  <2>6. TypeOK'
    BY <1>1, <2>1, <2>2, <2>3, LogFrame DEF TypeOK, PutRequest
  <2>7. txn'[t].attempt >= txn[t].attempt
    BY <2>2
  <2>8. OwnedRequest(r)'
    <3>1. /\ get_commit_version(t)' = get_commit_version(t)
          /\ CommitOf(t)' = CommitOf(t)
          /\ txn'[t].timestamp = txn[t].timestamp
      BY <1>1, <2>2, <2>5, <2>7, ProgressFrame
    <3>2. r.attempt \in 1..txn'[t].attempt
      BY <2>2, <2>3
    <3> QED
      BY <2>2, <2>3, <3>1, <3>2 DEF OwnedRequest
  <2>9. RequestsOwned'
    BY <1>1, <2>2, <2>3, <2>5, <2>7, <2>8, ProgressFrame DEF RequestsOwned
  <2>10. AnswersOf(t)'
    <3>1. AnswersOf(t)
      BY DEF Answers
    <3>2. CASE txn[t].status = "open"
      <4>1. txn'[t].attempt = 1
        BY <2>2, <3>1, <3>2 DEF AnswersOf
      <4>2. NotInLog(t)'
        BY <1>1, <3>2 DEF FilesOwned, NotInLog, Exists
      <4> QED
        BY <2>2, <4>1, <4>2 DEF AnswersOf
    <3>3. CASE txn[t].status = "retryable"
      <4>1. txn'[t].attempt > 1
        BY <2>2, <3>1, <3>3 DEF AnswersOf
      <4> QED
        BY <2>2, <4>1 DEF AnswersOf
    <3> QED
      BY <1>1, <3>2, <3>3
  <2> QED
    BY <1>1, <2>2, <2>5, <2>6, <2>7, <2>9, <2>10, ProgressFrame DEF Answers
<1> QED
  BY <1>2, <1>3

(* The end of a commit call, or of its process: only the status and the     *)
(* awaited answer of one transaction change.                                *)
LEMMA StatusFrame ==
    ASSUME IInv, NEW t \in Txns, UNCHANGED <<log, state, puts>>,
           txn[t].status \in {"open", "committing", "retryable"},
           NEW status \in {"committed", "conflicted", "retryable", "dropped"},
           NEW reply \in {"none", "ok", "exists"},
           txn' = [txn EXCEPT ![t].status = status, ![t].reply = reply],
           status = "retryable" => txn[t].status = "committing",
           status = "committed" => txn[t].reply = "ok",
           status = "conflicted" => reply = "exists" /\ txn[t].status = "committing",
           reply # "none" => reply = txn[t].reply
    PROVE  IInv'
<1> USE DEF IInv
<1>1. txn \in [Txns -> Transaction] /\ txn[t] \in Transaction
  BY DEF TypeOK
<1>2. /\ txn' \in [Txns -> Transaction]
      /\ txn'[t] = [txn[t] EXCEPT !.status = status, !.reply = reply]
      /\ \A s \in Txns \ {t} : txn'[s] = txn[s]
  BY <1>1 DEF Transaction, Statuses
<1>3. /\ Staged(t)' = Staged(t)
      /\ txn'[t].status = status
      /\ txn'[t].attempt = txn[t].attempt
      /\ txn'[t].reply = reply
  BY <1>1, <1>2 DEF Staged, Transaction
<1>4. txn[t].attempt \in Nat /\ txn'[t].attempt >= txn[t].attempt
  <2>1. txn[t].attempt \in Nat
    BY <1>1 DEF Transaction
  <2> QED
    BY <1>3, <2>1
<1>5. /\ Contiguous' /\ Replayed' /\ Monotone' /\ ReadsExist' /\ FilesOwned'
      /\ (log \in [Versions -> Commit \cup {NoCommit}])'
      /\ (state \in [Versions -> TableState])'
      /\ \A r \in puts : OwnedRequest(r)'
      /\ \A s \in Txns \ {t} : AnswersOf(s)'
      /\ get_commit_version(t)' = get_commit_version(t)
  BY <1>2, <1>3, <1>4, ProgressFrame
<1>6. AnswersOf(t)'
  <2>1. AnswersOf(t)
    BY DEF Answers
  <2>2. NotInLog(t)' <=> NotInLog(t)
    BY DEF NotInLog, Exists
  <2> QED
    BY <1>3, <1>4, <1>5, <2>1, <2>2 DEF AnswersOf, Exists
<1> QED
  BY <1>2, <1>5, <1>6 DEF TypeOK, RequestsOwned, Answers, PutRequest

(* The answers of the storage and the ways a commit call ends without one   *)
(* preserve the invariant.                                                  *)
LEMMA CommitEndPreserves ==
    ASSUME IInv, NEW t \in Txns,
           CommitReply(t) \/ CommitIoError(t) \/ CommitError(t) \/ Crash(t)
    PROVE  IInv'
<1>1. txn \in [Txns -> Transaction] /\ txn[t] \in Transaction
  BY DEF IInv, TypeOK
<1>2. CASE CommitReply(t)
  <2>1. txn[t].status = "committing" /\ UNCHANGED <<log, state, puts>>
    BY <1>2 DEF CommitReply
  <2>2. CASE txn[t].reply = "ok"
    <3>1. txn' = [txn EXCEPT ![t].status = "committed", ![t].reply = "ok"]
      <4>1. txn' = [txn EXCEPT ![t].status = "committed"]
        BY <1>2, <2>2 DEF CommitReply
      <4> QED
        BY <1>1, <2>2, <4>1 DEF Transaction
    <3> QED
      BY <2>1, <2>2, <3>1, StatusFrame
  <2>3. CASE txn[t].reply = "exists"
    <3>1. txn' = [txn EXCEPT ![t].status = "conflicted", ![t].reply = "exists"]
      <4>1. txn' = [txn EXCEPT ![t].status = "conflicted"]
        BY <1>2, <2>3 DEF CommitReply
      <4> QED
        BY <1>1, <2>3, <4>1 DEF Transaction
    <3> QED
      BY <2>1, <2>3, <3>1, StatusFrame
  <2> QED
    BY <1>2, <2>2, <2>3 DEF CommitReply
<1>3. CASE CommitIoError(t)
  BY <1>3, StatusFrame DEF CommitIoError
<1>4. CASE CommitError(t)
  BY <1>4, StatusFrame DEF CommitError
<1>5. CASE Crash(t)
  BY <1>5, StatusFrame DEF Crash
<1> QED
  BY <1>2, <1>3, <1>4, <1>5

(* A transaction has at most one request per attempt on its way. *)
LEMMA OneRequestPerAttempt ==
    ASSUME TypeOK, RequestsOwned, NEW q \in puts, NEW r \in puts,
           q.id = r.id, q.attempt = r.attempt
    PROVE  q = r
BY DEF TypeOK, RequestsOwned, OwnedRequest, PutRequest

(* What every request brings to the storage. *)
LEMMA RequestFacts ==
    ASSUME IInv, NEW r \in puts, NEW t, t = r.id
    PROVE  /\ t \in Txns /\ txn[t] \in Transaction
           /\ txn[t].status \notin {"unused", "open"}
           /\ r.version \in Versions
           /\ r.version = get_commit_version(t)
           /\ r.commit = CommitOf(t) /\ r.commit \in Commit /\ r.commit.id = t
           /\ StateBefore(state, r.version) \in TableState
           /\ Serial!RanOn(StateBefore(state, r.version), r.commit)
           /\ r.version # 0 => r.version - 1 \in Versions /\ Exists(r.version - 1)
<1> USE DEF IInv
<1>1. t \in Txns /\ txn[t] \in Transaction
  BY DEF TypeOK, PutRequest
<1>2. /\ txn[t].status \notin {"unused", "open"}
      /\ r.version = get_commit_version(t)
      /\ r.commit = CommitOf(t)
  BY DEF RequestsOwned, OwnedRequest
<1>3. CommitOf(t).id = t
  BY DEF CommitOf
<1> QED
  BY <1>1, <1>2, <1>3, CommitTarget, CommitRanOnRead

(* The storage finds a file in place: the invariant is preserved. *)
LEMMA PutRefusedPreserves ==
    ASSUME IInv, NEW r \in puts, StoragePut(r), Exists(r.version)
    PROVE  IInv'
<1> USE DEF IInv
<1> DEFINE awaited(t) == txn[t].status = "committing" /\ txn[t].attempt = r.attempt
<1>1. PICK t \in Txns : t = r.id
  BY RequestFacts
<1>2. /\ txn \in [Txns -> Transaction] /\ txn[t] \in Transaction
      /\ txn[t].status \notin {"unused", "open"}
      /\ UNCHANGED <<log, state>> /\ puts' = puts \ {r}
      /\ txn' = IF awaited(t) THEN [txn EXCEPT ![t].reply = "exists"] ELSE txn
  BY <1>1, RequestFacts DEF TypeOK, StoragePut, Exists
<1>3. /\ txn' \in [Txns -> Transaction]
      /\ \A s \in Txns \ {t} : txn'[s] = txn[s]
      /\ txn'[t] = IF awaited(t) THEN [txn[t] EXCEPT !.reply = "exists"] ELSE txn[t]
  BY <1>2 DEF Transaction
<1>4. /\ Staged(t)' = Staged(t)
      /\ txn'[t].status = txn[t].status
      /\ txn'[t].attempt = txn[t].attempt
      /\ txn'[t].reply = IF awaited(t) THEN "exists" ELSE txn[t].reply
  BY <1>2, <1>3 DEF Staged, Transaction
<1>5. txn[t].attempt \in Nat /\ txn'[t].attempt >= txn[t].attempt
  <2>1. txn[t].attempt \in Nat
    BY <1>2 DEF Transaction
  <2> QED
    BY <1>4, <2>1
<1>6. /\ Contiguous' /\ Replayed' /\ Monotone' /\ ReadsExist' /\ FilesOwned'
      /\ (log \in [Versions -> Commit \cup {NoCommit}])'
      /\ (state \in [Versions -> TableState])'
      /\ \A q \in puts : OwnedRequest(q)'
      /\ \A s \in Txns \ {t} : AnswersOf(s)'
      /\ get_commit_version(t)' = get_commit_version(t)
  BY <1>2, <1>3, <1>4, <1>5, ProgressFrame
<1>7. AnswersOf(t)'
  <2>1. AnswersOf(t)
    BY DEF Answers
  <2>2. NotInLog(t)' <=> NotInLog(t)
    BY <1>2 DEF NotInLog, Exists
  <2>3. CASE awaited(t)
    <3>1. txn[t].reply = "none"
      BY <1>1, <1>2, <2>1, <2>3 DEF AnswersOf, Transaction
    <3>2. \A q \in puts' : q.id = t => q.attempt # txn'[t].attempt
      BY <1>1, <1>2, <1>4, <2>3, OneRequestPerAttempt
    <3>3. txn[t].attempt = 1 => \A q \in puts' : q.id # t
      <4> SUFFICES ASSUME txn[t].attempt = 1, NEW q \in puts', q.id = t PROVE FALSE
        OBVIOUS
      <4>1. q.attempt \in 1..1
        BY <1>2 DEF RequestsOwned, OwnedRequest
      <4>2. q.attempt = 1
        BY <4>1
      <4> QED
        BY <1>4, <3>2, <4>2
    <3>4. Exists(get_commit_version(t))'
      BY <1>1, <1>2, <1>6, RequestFacts DEF Exists
    <3> QED
      BY <1>2, <1>4, <2>1, <2>2, <2>3, <3>1, <3>2, <3>3, <3>4 DEF AnswersOf
  <2>4. CASE ~awaited(t)
    BY <1>2, <1>4, <1>6, <2>1, <2>2, <2>4 DEF AnswersOf, Exists
  <2> QED
    BY <2>3, <2>4
<1> QED
  BY <1>2, <1>3, <1>6, <1>7 DEF TypeOK, RequestsOwned, Answers, PutRequest

(* Appending the commit of a transaction that ran on the newest state keeps *)
(* the log contiguous, replayable and monotone.                             *)
LEMMA AppendLog ==
    ASSUME IInv, NEW v \in Versions, ~Exists(v),
           v # 0 => v - 1 \in Versions /\ Exists(v - 1),
           NEW c \in Commit, NEW b \in TableState, b = StateBefore(state, v),
           Serial!RanOn(b, c),
           log' = [log EXCEPT ![v] = c],
           state' = [state EXCEPT ![v] = ReplayCommit(b, c)]
    PROVE  /\ Contiguous' /\ Replayed' /\ Monotone'
           /\ (log \in [Versions -> Commit \cup {NoCommit}])'
           /\ (state \in [Versions -> TableState])'
<1> USE DEF IInv
<1>1. /\ log \in [Versions -> Commit \cup {NoCommit}]
      /\ state \in [Versions -> TableState]
      /\ MaxVersion \in Nat /\ NoCommit \notin Commit
      /\ v \in Nat
  BY TableLogAssumption DEF TypeOK, Versions
<1>2. /\ c.app \in Apps /\ c.appVersion \in Nat /\ c.rows \in Nat
      /\ c.highWaterMark \in Nat \cup {-1} /\ c.ict \in Nat
      /\ b.apps \in [Apps -> Nat] /\ b.highWaterMark \in Nat \cup {-1}
      /\ b.ict \in Nat \cup {-1}
  BY DEF Commit, TableState
<1>3. ReplayCommit(b, c) \in TableState
  BY <1>2 DEF ReplayCommit, TableState
<1>4. /\ (log \in [Versions -> Commit \cup {NoCommit}])'
      /\ (state \in [Versions -> TableState])'
  BY <1>1, <1>3
<1>5. /\ Exists(v)' /\ log'[v] = c /\ state'[v] = ReplayCommit(b, c)
      /\ \A u \in Versions \ {v} : /\ log'[u] = log[u] /\ state'[u] = state[u]
                                   /\ Exists(u)' <=> Exists(u)
  BY <1>1 DEF Exists
<1>6. /\ \A u \in Versions : u < v => Exists(u)
      /\ \A u \in Versions : u > v => ~Exists(u)
  <2>1. ASSUME NEW u \in Versions, u < v PROVE Exists(u)
    <3>1. u \in Nat /\ v # 0 /\ (u = v - 1 \/ u < v - 1)
      BY <1>1, <2>1 DEF Versions
    <3> QED
      BY <3>1 DEF Contiguous
  <2>2. ASSUME NEW u \in Versions, u > v PROVE ~Exists(u)
    BY <1>1, <2>2 DEF Contiguous, Versions
  <2> QED
    BY <2>1, <2>2
<1>7. Contiguous'
  <2> SUFFICES ASSUME NEW u \in Versions, NEW w \in Versions, u < w, Exists(w)'
               PROVE  Exists(u)'
    BY DEF Contiguous, Versions
  <2>1. CASE w = v
    BY <1>1, <1>5, <1>6, <2>1 DEF Versions
  <2>2. CASE w # v
    BY <1>1, <1>5, <2>2 DEF Contiguous, Versions
  <2> QED
    BY <2>1, <2>2
<1>8. ASSUME NEW w \in Versions, Exists(w)'
      PROVE  w = v \/ (w < v /\ Exists(w))
  BY <1>1, <1>5, <1>6, <1>8 DEF Versions
<1>9. ASSUME NEW w \in Versions, Exists(w)'
      PROVE  StateBefore(state, w)' = StateBefore(state, w)
  <2>1. w \in Nat /\ w <= v
    BY <1>1, <1>8, <1>9 DEF Versions
  <2>2. w # 0 => w - 1 \in Versions \ {v}
    BY <1>1, <2>1 DEF Versions
  <2> QED
    BY <1>5, <2>2 DEF StateBefore
<1>10. Replayed'
  <2> SUFFICES ASSUME NEW w \in Versions, Exists(w)'
               PROVE  /\ Serial!RanOn(StateBefore(state, w), log[w])'
                      /\ state'[w] = ReplayCommit(StateBefore(state, w)', log'[w])
    BY DEF Replayed, Versions, ReplayCommit
  <2>1. StateBefore(state, w)' = StateBefore(state, w)
    BY <1>9
  <2>2. CASE w = v
    BY <1>5, <2>1, <2>2 DEF Serial!RanOn
  <2>3. CASE w # v
    BY <1>5, <1>8, <2>1, <2>3 DEF Replayed, Serial!RanOn
  <2> QED
    BY <2>2, <2>3
<1>11. Monotone'
  <2> SUFFICES ASSUME NEW u \in Versions, NEW w \in Versions, u < w, Exists(w)'
               PROVE  /\ \A a \in Apps : state'[u].apps[a] <= state'[w].apps[a]
                      /\ state'[u].highWaterMark <= state'[w].highWaterMark
                      /\ state'[u].ict < state'[w].ict
    BY DEF Monotone, Versions
  <2>1. CASE w # v
    <3>1. u # v /\ Exists(w)
      BY <1>1, <1>8, <2>1 DEF Versions
    <3> QED
      BY <1>5, <2>1, <3>1 DEF Monotone
  <2>2. CASE w = v
    <3>1. u \in Nat /\ u # v /\ v # 0 /\ (u = v - 1 \/ u < v - 1)
      BY <1>1, <2>2 DEF Versions
    <3>2. b = state[v - 1]
      BY <3>1 DEF StateBefore
    <3>3. /\ state[u].apps \in [Apps -> Nat] /\ state[u].ict \in Nat \cup {-1}
          /\ state[u].highWaterMark \in Nat \cup {-1}
      BY <1>1 DEF TableState
    <3>4. /\ \A a \in Apps : state[u].apps[a] <= b.apps[a]
          /\ state[u].highWaterMark <= b.highWaterMark
          /\ state[u].ict <= b.ict
      <4>1. CASE u = v - 1
        BY <3>2, <3>3, <4>1
      <4>2. CASE u < v - 1
        BY <1>2, <3>1, <3>2, <3>3, <4>2 DEF Monotone
      <4> QED
        BY <3>1, <4>1, <4>2
    <3>5. /\ \A a \in Apps : b.apps[a] <= state'[v].apps[a]
          /\ b.highWaterMark <= state'[v].highWaterMark
          /\ b.ict < state'[v].ict
          /\ state'[v].apps \in [Apps -> Nat] /\ state'[v].ict \in Nat
          /\ state'[v].highWaterMark \in Nat \cup {-1}
      BY <1>2, <1>5 DEF Serial!RanOn, ReplayCommit
    <3>6. state'[u] = state[u]
      BY <1>5, <3>1
    <3> QED
      BY <1>2, <2>2, <3>3, <3>4, <3>5, <3>6
  <2> QED
    BY <2>1, <2>2
<1> QED
  BY <1>4, <1>7, <1>10, <1>11

(* The storage writes the commit file: the invariant is preserved. *)
LEMMA PutAcceptedPreserves ==
    ASSUME IInv, NEW r \in puts, StoragePut(r), ~Exists(r.version)
    PROVE  IInv'
<1> USE DEF IInv
<1> DEFINE awaited(t) == txn[t].status = "committing" /\ txn[t].attempt = r.attempt
<1>1. PICK t \in Txns : t = r.id
  BY RequestFacts
<1>2. /\ txn \in [Txns -> Transaction] /\ txn[t] \in Transaction
      /\ txn[t].status \notin {"unused", "open"}
      /\ puts' = puts \ {r}
      /\ txn' = IF awaited(t) THEN [txn EXCEPT ![t].reply = "ok"] ELSE txn
  BY <1>1, RequestFacts DEF TypeOK, StoragePut, Exists
<1>3. /\ txn' \in [Txns -> Transaction]
      /\ \A s \in Txns \ {t} : txn'[s] = txn[s]
      /\ txn'[t] = IF awaited(t) THEN [txn[t] EXCEPT !.reply = "ok"] ELSE txn[t]
  BY <1>2 DEF Transaction
<1>4. /\ \A s \in Txns : /\ Staged(s)' = Staged(s)
                         /\ txn'[s].status = txn[s].status
                         /\ txn'[s].attempt = txn[s].attempt
      /\ txn'[t].reply = IF awaited(t) THEN "ok" ELSE txn[t].reply
  BY <1>2, <1>3 DEF Staged, Transaction
<1>5. PICK v \in Versions : v = r.version
  BY RequestFacts
<1>6. PICK c \in Commit : c = r.commit
  BY RequestFacts
<1>7. PICK b \in TableState : b = StateBefore(state, v)
  BY <1>5, RequestFacts
<1>8. /\ ~Exists(v) /\ v = get_commit_version(t) /\ c.id = t
      /\ v # 0 => v - 1 \in Versions /\ Exists(v - 1)
      /\ Serial!RanOn(b, c)
      /\ log' = [log EXCEPT ![v] = c]
      /\ state' = [state EXCEPT ![v] = ReplayCommit(b, c)]
  BY <1>1, <1>5, <1>6, <1>7, RequestFacts DEF StoragePut, Exists
<1>9. /\ Contiguous' /\ Replayed' /\ Monotone'
      /\ (log \in [Versions -> Commit \cup {NoCommit}])'
      /\ (state \in [Versions -> TableState])'
  BY <1>7, <1>8, AppendLog
<1>10. /\ Exists(v)' /\ log'[v] = c
       /\ \A u \in Versions \ {v} : /\ log'[u] = log[u] /\ state'[u] = state[u]
                                    /\ Exists(u)' <=> Exists(u)
  BY <1>8, TableLogAssumption DEF Exists, TypeOK
<1>11. ASSUME NEW s \in Txns
       PROVE  /\ txn'[s].read = txn[s].read /\ txn'[s].operation = txn[s].operation
              /\ txn'[s].timestamp = txn[s].timestamp /\ txn'[s].app = txn[s].app
              /\ txn'[s].appVersion = txn[s].appVersion /\ txn'[s].rows = txn[s].rows
              /\ get_commit_version(s)' = get_commit_version(s)
              /\ is_create_table(s)' = is_create_table(s)
  BY <1>4 DEF Staged, get_commit_version, wrapping_add, is_create_table
<1>12. ASSUME NEW s \in Txns, txn[s].status # "unused"
       PROVE  ReadState(s)' = ReadState(s) /\ CommitOf(s)' = CommitOf(s)
  <2>1. txn[s].read = PRE_COMMIT_VERSION \/ txn[s].read \in Versions \ {v}
    BY <1>2, <1>8, <1>12 DEF ReadsExist, Transaction
  <2>2. ReadState(s)' = ReadState(s)
    BY <1>10, <1>11, <2>1 DEF ReadState, PRE_COMMIT_VERSION
  <2> QED
    BY <1>11, <2>2 DEF CommitOf, get_in_commit_timestamp
<1>13. ReadsExist'
  <2> SUFFICES ASSUME NEW s \in Txns, txn'[s].status # "unused"
               PROVE  /\ is_create_table(s)' <=> txn'[s].read = PRE_COMMIT_VERSION
                      /\ ~is_create_table(s)' => txn'[s].read < MaxVersion /\ Exists(txn[s].read)'
                      /\ txn'[s].appVersion = ReadState(s)'.apps[txn'[s].app] + 1
    BY DEF ReadsExist, PRE_COMMIT_VERSION
  <2>1. txn[s].status # "unused"
    BY <1>4
  <2>2. ~is_create_table(s) => Exists(txn[s].read)'
    <3>1. ~is_create_table(s) => txn[s].read \in Versions \ {v} /\ Exists(txn[s].read)
      BY <1>2, <1>8, <2>1 DEF ReadsExist, Transaction
    <3> QED
      BY <1>10, <1>11, <3>1 DEF Exists
  <2> QED
    BY <1>11, <1>12, <2>1, <2>2 DEF ReadsExist
<1>14. RequestsOwned'
  <2> SUFFICES ASSUME NEW q \in puts PROVE OwnedRequest(q)'
    BY <1>2 DEF RequestsOwned
  <2>1. q.id \in Txns /\ OwnedRequest(q)
    BY DEF RequestsOwned, TypeOK, PutRequest
  <2>2. txn[q.id].status # "unused"
    BY <2>1 DEF OwnedRequest
  <2> QED
    BY <1>4, <1>11, <1>12, <2>1, <2>2 DEF OwnedRequest
<1>15. FilesOwned'
  <2> SUFFICES ASSUME NEW w \in Versions, Exists(w)'
               PROVE  /\ txn'[log'[w].id].status \notin {"unused", "open"}
                      /\ w = get_commit_version(log[w].id)'
    BY DEF FilesOwned
  <2>1. CASE w = v
    <3>1. get_commit_version(log[w].id)' = get_commit_version(t)'
      BY <1>8, <1>10, <2>1 DEF get_commit_version, wrapping_add
    <3> QED
      BY <1>2, <1>4, <1>8, <1>10, <1>11, <2>1, <3>1
  <2>2. CASE w # v
    <3>1. Exists(w) /\ log'[w] = log[w] /\ log[w].id \in Txns
      BY <1>10, <2>2 DEF TypeOK, Commit, Exists
    <3>2. get_commit_version(log[w].id)' = get_commit_version(log[w].id)
      BY <1>11, <3>1 DEF get_commit_version, wrapping_add
    <3> QED
      BY <1>4, <3>1, <3>2 DEF FilesOwned
  <2> QED
    BY <2>1, <2>2
<1>16. ASSUME NEW s \in Txns PROVE AnswersOf(s)'
  <2>1. AnswersOf(s)
    BY DEF Answers
  <2>2. (/\ Exists(get_commit_version(s))
         /\ log[get_commit_version(s)].id = s
         /\ txn[s].status # "unused")
        => (Exists(get_commit_version(s)) /\ log[get_commit_version(s)].id = s)'
    <3> SUFFICES ASSUME Exists(get_commit_version(s)), txn[s].status # "unused",
                        log[get_commit_version(s)].id = s
                 PROVE  (Exists(get_commit_version(s)) /\ log[get_commit_version(s)].id = s)'
      OBVIOUS
    <3>1. get_commit_version(s) \in Versions \ {v}
      BY <1>8, CommitTarget
    <3> QED
      BY <1>10, <1>11, <3>1 DEF Exists
  <2>3. CASE s # t
    <3>1. NotInLog(s) => NotInLog(s)'
      BY <1>8, <1>10, <2>3 DEF NotInLog, Versions
    <3>2. txn'[s] = txn[s] /\ puts' \subseteq puts
      BY <1>2, <1>3, <2>3
    <3>3. txn[s].reply \in {"ok", "exists"} => txn[s].status # "unused"
      BY <2>1 DEF AnswersOf
    <3>4. txn[s].reply = "exists" => Exists(get_commit_version(s))'
      <4>1. txn[s].reply = "exists" => get_commit_version(s) \in Versions \ {v}
        BY <1>8, <2>1, <3>3, CommitTarget DEF AnswersOf
      <4> QED
        BY <1>10, <1>11, <2>1, <4>1 DEF AnswersOf, Exists
    <3> QED
      BY <2>1, <2>2, <3>1, <3>2, <3>3, <3>4 DEF AnswersOf
  <2>4. CASE s = t
    <3>1. Exists(get_commit_version(t))' /\ log'[get_commit_version(t)'].id = t
      BY <1>8, <1>10, <1>11
    <3>2. CASE awaited(t)
      <4>1. \A q \in puts' : q.id = t => q.attempt # txn'[t].attempt
        BY <1>1, <1>2, <1>4, <3>2, OneRequestPerAttempt
      <4>2. txn'[t].reply = "ok" /\ txn'[t].status = "committing"
        BY <1>4, <3>2
      <4>3. txn'[t].attempt = txn[t].attempt
        BY <1>4
      <4> QED
        BY <2>1, <2>4, <3>1, <3>2, <4>1, <4>2, <4>3 DEF AnswersOf
    <3>3. CASE ~awaited(t)
      <4>1. txn'[t] = txn[t] /\ puts' \subseteq puts
        BY <1>2, <1>3, <3>3
      <4>2. ~(txn[t].attempt = 1 /\ txn[t].status = "committing" /\ txn[t].reply = "none")
        <5> SUFFICES ASSUME txn[t].attempt = 1, txn[t].status = "committing" PROVE FALSE
          OBVIOUS
        <5>1. r.attempt \in 1..1
          BY <1>1 DEF RequestsOwned, OwnedRequest
        <5>2. r.attempt = 1
          BY <5>1
        <5> QED
          BY <3>3, <5>2
      <4>3. ~(/\ txn[t].attempt = 1 /\ txn[t].status \in {"committing", "conflicted"}
              /\ txn[t].reply = "exists")
        BY <1>1, <2>1, <2>4 DEF AnswersOf
      <4> QED
        BY <2>1, <2>4, <3>1, <4>1, <4>2, <4>3 DEF AnswersOf
    <3> QED
      BY <3>2, <3>3
  <2> QED
    BY <2>3, <2>4
<1> QED
  BY <1>2, <1>3, <1>9, <1>13, <1>14, <1>15, <1>16 DEF TypeOK, Answers, PutRequest

----------------------------------------------------------------------------

(* The invariant holds before there is a table.                             *)
LEMMA InitEstablishes == Init => IInv
<1> SUFFICES ASSUME Init PROVE IInv
  OBVIOUS
<1>1. /\ log = [v \in Versions |-> NoCommit]
      /\ state = [v \in Versions |-> EmptyState]
      /\ txn = [t \in Txns |-> UnusedTxn]
      /\ puts = {}
  BY DEF Init
<1>2. \A v \in Versions : ~Exists(v)
  BY <1>1 DEF Exists
<1>3. (CHOOSE a \in Apps : TRUE) \in Apps /\ EmptyState \in TableState
  BY TableLogAssumption DEF EmptyState, TableState
<1>4. 0 \in Versions
  BY TableLogAssumption DEF Versions
<1>5. UnusedTxn \in Transaction
  BY <1>3, <1>4 DEF UnusedTxn, Transaction, Statuses
<1>6. \A t \in Txns : /\ txn[t].status = "unused" /\ txn[t].attempt = 0
                      /\ txn[t].reply = "none"
  BY <1>1 DEF UnusedTxn
<1>7. TypeOK
  BY <1>1, <1>3, <1>5 DEF TypeOK
<1>8. Answers
  BY <1>6 DEF Answers, AnswersOf
<1> QED
  BY <1>1, <1>2, <1>6, <1>7, <1>8
  DEF IInv, Contiguous, Replayed, Monotone, ReadsExist, RequestsOwned, FilesOwned

(* Every step keeps the invariant.                                          *)
LEMMA NextPreserves ==
    ASSUME NoRogueCreate, IInv, [Next]_vars
    PROVE  IInv'
<1>1. CASE UNCHANGED vars
  <2>1. UNCHANGED <<log, state>> /\ txn' = txn /\ puts' = puts
    BY <1>1 DEF vars
  <2>2. \A s \in Txns : Staged(s)' = Staged(s)
    BY <2>1 DEF Staged
  <2>3. \A s \in Txns : /\ is_create_table(s)' = is_create_table(s)
                        /\ get_commit_version(s)' = get_commit_version(s)
                        /\ ReadState(s)' = ReadState(s)
                        /\ CommitOf(s)' = CommitOf(s)
    BY <2>1, <2>2, StagedFrame
  <2>4. TypeOK'
    BY <2>1 DEF IInv, TypeOK
  <2>5. ReadsExist'
    BY <2>1, <2>3 DEF IInv, ReadsExist, Exists, PRE_COMMIT_VERSION
  <2>6. RequestsOwned'
    BY <2>1, <2>3 DEF IInv, RequestsOwned, OwnedRequest, TypeOK, PutRequest
  <2>7. FilesOwned'
    <3> SUFFICES ASSUME NEW v \in Versions, Exists(v)
                 PROVE  /\ txn[log[v].id].status \notin {"unused", "open"}
                        /\ v = get_commit_version(log[v].id)'
      BY <2>1 DEF FilesOwned, Exists
    <3>2. get_commit_version(log[v].id)' = get_commit_version(log[v].id)
      BY <2>1 DEF get_commit_version, wrapping_add
    <3> QED
      BY <3>2 DEF IInv, FilesOwned
  <2>8. Answers'
    BY <2>1, <2>3 DEF IInv, Answers, AnswersOf, NotInLog, Exists
  <2> QED
    BY <2>1, <2>4, <2>5, <2>6, <2>7, <2>8, LogFrame DEF IInv
<1>2. ASSUME NEW t \in Txns, CreateTable(t) PROVE IInv'
  <2>1. PICK app \in Apps, rows \in RowCounts :
          Open(t, PRE_COMMIT_VERSION, "CREATE TABLE", app, 1, rows)
    BY <1>2 DEF CreateTable
  <2>2. OpensAt(PRE_COMMIT_VERSION, "CREATE TABLE", app, 1) /\ rows \in Nat
    BY CommitProtocolAssumption DEF OpensAt
  <2> QED
    BY <2>1, <2>2, OpenPreserves
<1>3. ASSUME NEW t \in Txns, StartTransaction(t) PROVE IInv'
  <2>1. PICK read \in Versions \ {MaxVersion} :
          /\ log[read] # NoCommit
          /\ \E operation \in Operations, app \in Apps, rows \in RowCounts :
               Open(t, read, operation, app, state[read].apps[app] + 1, rows)
    BY <1>3 DEF StartTransaction
  <2>2. PICK operation \in Operations, app \in Apps, rows \in RowCounts :
          Open(t, read, operation, app, state[read].apps[app] + 1, rows)
    BY <2>1
  <2>3. PICK appVersion : appVersion = state[read].apps[app] + 1
    OBVIOUS
  <2>4. read \in Versions /\ read < MaxVersion
    BY TableLogAssumption DEF Versions
  <2>5. OpensAt(read, operation, app, appVersion) /\ rows \in Nat
    BY <2>1, <2>3, <2>4, CommitProtocolAssumption DEF OpensAt, Exists, NoRogueCreate
  <2>6. Open(t, read, operation, app, appVersion, rows)
    BY <2>2, <2>3
  <2> QED
    BY <2>5, <2>6, OpenPreserves
<1>4. ASSUME NEW t \in Txns, CommitStart(t) PROVE IInv'
  BY <1>4, CommitStartPreserves
<1>5. ASSUME NEW t \in Txns,
             CommitReply(t) \/ CommitIoError(t) \/ CommitError(t) \/ Crash(t)
      PROVE  IInv'
  BY <1>5, CommitEndPreserves
<1>6. ASSUME NEW r \in puts, StoragePut(r) PROVE IInv'
  BY <1>6, PutRefusedPreserves, PutAcceptedPreserves
<1> QED
  BY <1>1, <1>2, <1>3, <1>4, <1>5, <1>6 DEF Next

(* The inductive invariant holds in every reachable state. *)
THEOREM Invariance == ASSUME NoRogueCreate PROVE Spec => []IInv
<1>1. Init => IInv
  BY InitEstablishes
<1>2. IInv /\ [Next]_vars => IInv'
  BY NextPreserves
<1> QED
  BY <1>1, <1>2, PTL DEF Spec

(* Every value the commit path computes stays in its type: versions wrap    *)
(* only for a table that is being created, row ids and timestamps never go  *)
(* below their defaults.                                                    *)
THEOREM TypeCorrect == ASSUME NoRogueCreate PROVE Spec => []TypeOK
<1>1. IInv => TypeOK
  BY DEF IInv
<1> QED
  BY <1>1, Invariance, PTL

(* What one version hands to every later one. *)
LEMMA EarlierVersion ==
    ASSUME IInv, NEW u \in Versions, NEW v \in Versions, u < v, Exists(u), Exists(v)
    PROVE  /\ log[u] \in Commit /\ log[v] \in Commit
           /\ state[u] \in TableState /\ StateBefore(state, v) \in TableState
           /\ Serial!RanOn(StateBefore(state, u), log[u])
           /\ Serial!RanOn(StateBefore(state, v), log[v])
           /\ state[u].apps[log[u].app] = log[u].appVersion
           /\ state[u].highWaterMark = log[u].highWaterMark
           /\ state[u].ict = log[u].ict
           /\ \A a \in Apps : state[u].apps[a] <= StateBefore(state, v).apps[a]
           /\ state[u].highWaterMark <= StateBefore(state, v).highWaterMark
           /\ state[u].ict <= StateBefore(state, v).ict
<1> USE DEF IInv
<1>1. /\ u \in Nat /\ v \in Nat /\ v # 0 /\ v - 1 \in Versions
      /\ (u = v - 1 \/ u < v - 1) /\ v - 1 < v
  BY TableLogAssumption DEF Versions
<1>2. Exists(v - 1)
  BY <1>1 DEF Contiguous
<1>3. StateBefore(state, v) = state[v - 1]
  BY <1>1 DEF StateBefore
<1>4. /\ state[u] \in TableState /\ state[v - 1] \in TableState
      /\ log[u] \in Commit /\ log[v] \in Commit
  BY <1>1 DEF TypeOK, Exists
<1>5. /\ state[u].apps \in [Apps -> Nat] /\ state[u].ict \in Nat \cup {-1}
      /\ state[u].highWaterMark \in Nat \cup {-1}
      /\ state[v - 1].ict \in Nat \cup {-1}
  BY <1>4 DEF TableState
<1>6. /\ \A a \in Apps : state[u].apps[a] <= state[v - 1].apps[a]
      /\ state[u].highWaterMark <= state[v - 1].highWaterMark
      /\ state[u].ict <= state[v - 1].ict
  <2>1. CASE u = v - 1
    BY <1>5, <2>1
  <2>2. CASE u < v - 1
    <3>1. /\ \A a \in Apps : state[u].apps[a] <= state[v - 1].apps[a]
          /\ state[u].highWaterMark <= state[v - 1].highWaterMark
          /\ state[u].ict < state[v - 1].ict
      BY <1>1, <1>2, <2>2 DEF Monotone
    <3>2. state[u].ict <= state[v - 1].ict
      BY <1>5, <3>1
    <3> QED
      BY <3>1, <3>2
  <2> QED
    BY <1>1, <2>1, <2>2
<1>7. StateBefore(state, u).apps \in [Apps -> Nat]
  <2>1. u # 0 => u - 1 \in Versions
    BY TableLogAssumption DEF Versions
  <2>2. state \in [Versions -> TableState]
    BY DEF TypeOK
  <2> QED
    BY <2>1, <2>2 DEF StateBefore, EmptyState, TableState
<1>8. /\ Serial!RanOn(StateBefore(state, u), log[u])
      /\ Serial!RanOn(StateBefore(state, v), log[v])
      /\ state[u] = ReplayCommit(StateBefore(state, u), log[u])
  BY DEF Replayed
<1>9. log[u].app \in Apps
  BY <1>4 DEF Commit
<1>10. /\ state[u].apps = [StateBefore(state, u).apps EXCEPT ![log[u].app] = log[u].appVersion]
       /\ state[u].highWaterMark = log[u].highWaterMark
       /\ state[u].ict = log[u].ict
  BY <1>8 DEF ReplayCommit
<1>11. state[u].apps[log[u].app] = log[u].appVersion
  BY <1>7, <1>9, <1>10
<1> QED
  BY <1>3, <1>4, <1>6, <1>8, <1>10, <1>11

(* The invariant implies the safety properties.                             *)
LEMMA IInvImplies ==
    ASSUME IInv
    PROVE  /\ ExactlyOnce /\ AtMostOneVersionPerTxn /\ IctIncreasing
           /\ RowIdsDisjoint /\ ReportsAreTrue
<1>1. ExactlyOnce
  <2> SUFFICES ASSUME NEW u \in Versions, NEW v \in Versions, u < v,
                      Exists(u), Exists(v), log[u].app = log[v].app
               PROVE  log[u].appVersion < log[v].appVersion
    BY DEF ExactlyOnce, Exists
  <2>1. /\ log[u].app \in Apps /\ log[u].appVersion \in Nat
        /\ log[v].app \in Apps /\ log[v].appVersion \in Nat
        /\ StateBefore(state, v).apps \in [Apps -> Nat]
    BY EarlierVersion DEF Commit, TableState
  <2>2. log[v].appVersion = StateBefore(state, v).apps[log[v].app] + 1
    BY EarlierVersion DEF Serial!RanOn
  <2>4. state[u].apps[log[u].app] = log[u].appVersion
    BY EarlierVersion
  <2>5. state[u].apps[log[u].app] <= StateBefore(state, v).apps[log[u].app]
    BY <2>1, EarlierVersion
  <2> QED
    BY <2>1, <2>2, <2>4, <2>5
<1>2. AtMostOneVersionPerTxn
  BY DEF AtMostOneVersionPerTxn, IInv, FilesOwned, Exists
<1>3. IctIncreasing
  <2> SUFFICES ASSUME NEW u \in Versions, NEW v \in Versions, u < v, Exists(u), Exists(v)
               PROVE  log[u].ict < log[v].ict
    BY DEF IctIncreasing, Exists
  <2>1. /\ log[u].ict \in Nat /\ log[v].ict \in Nat
        /\ StateBefore(state, v).ict \in Nat \cup {-1}
    BY EarlierVersion DEF Commit, TableState
  <2>2. state[u].ict = log[u].ict
    BY EarlierVersion
  <2>3. state[u].ict <= StateBefore(state, v).ict /\ log[v].ict > StateBefore(state, v).ict
    BY EarlierVersion DEF Serial!RanOn
  <2> QED
    BY <2>1, <2>2, <2>3
<1>4. RowIdsDisjoint
  <2> SUFFICES ASSUME NEW u \in Versions, NEW v \in Versions, u < v, Exists(u), Exists(v)
               PROVE  log[u].baseRowId + log[u].rows <= log[v].baseRowId
    BY DEF RowIdsDisjoint, Exists
  <2>1. /\ log[u].baseRowId \in Nat /\ log[u].rows \in Nat /\ log[v].baseRowId \in Nat
        /\ log[u].highWaterMark \in Nat \cup {-1}
        /\ StateBefore(state, v).highWaterMark \in Nat \cup {-1}
    BY EarlierVersion DEF Commit, TableState
  <2>2. StateBefore(state, u).highWaterMark \in Nat \cup {-1}
    <3>1. u # 0 => u - 1 \in Versions
      BY TableLogAssumption DEF Versions
    <3>2. state \in [Versions -> TableState]
      BY DEF IInv, TypeOK
    <3> QED
      BY <3>1, <3>2 DEF StateBefore, EmptyState, TableState
  <2>3. /\ log[u].baseRowId = StateBefore(state, u).highWaterMark + 1
        /\ log[u].highWaterMark = StateBefore(state, u).highWaterMark + log[u].rows
        /\ log[v].baseRowId = StateBefore(state, v).highWaterMark + 1
    BY EarlierVersion DEF Serial!RanOn
  <2>4. state[u].highWaterMark = log[u].highWaterMark
    BY EarlierVersion
  <2>5. state[u].highWaterMark <= StateBefore(state, v).highWaterMark
    BY EarlierVersion
  <2>6. log[u].baseRowId + log[u].rows = log[u].highWaterMark + 1
    BY <2>1, <2>2, <2>3
  <2>7. log[u].highWaterMark + 1 <= log[v].baseRowId
    BY <2>1, <2>3, <2>4, <2>5
  <2> QED
    BY <2>6, <2>7
<1>5. ReportsAreTrue
  <2> SUFFICES ASSUME NEW t \in Txns
               PROVE  /\ txn[t].status = "committed" =>
                           Exists(get_commit_version(t)) /\ log[get_commit_version(t)].id = t
                      /\ txn[t].status = "conflicted" =>
                           /\ Exists(get_commit_version(t))
                           /\ log[get_commit_version(t)].id # t =>
                                /\ NotInLog(t)
                                /\ \A r \in puts : r.id = t => Exists(r.version)
                           /\ txn[t].attempt = 1 => log[get_commit_version(t)].id # t
    BY DEF ReportsAreTrue, NotInLog, Exists
  <2>1. AnswersOf(t)
    BY DEF IInv, Answers
  <2>2. /\ \A v \in Versions : Exists(v) /\ log[v].id = t => v = get_commit_version(t)
        /\ \A r \in puts : r.id = t => r.version = get_commit_version(t)
    BY DEF IInv, FilesOwned, RequestsOwned, OwnedRequest
  <2>3. txn[t].status = "conflicted" => get_commit_version(t) \in Versions
    BY CommitTarget DEF IInv
  <2> QED
    BY <2>1, <2>2, <2>3 DEF AnswersOf, NotInLog
<1> QED
  BY <1>1, <1>2, <1>3, <1>4, <1>5

(* Transaction::commit never applies a batch of an idempotent writer twice, *)
(* whatever requests are delayed, retried or left behind by a crash.        *)
THEOREM IdempotentWrites == ASSUME NoRogueCreate PROVE Spec => []ExactlyOnce
<1>1. IInv => ExactlyOnce
  BY IInvImplies
<1> QED
  BY <1>1, Invariance, PTL

(* A Transaction object produces at most one version however often its      *)
(* commit is retried.                                                       *)
THEOREM OneVersionPerTransaction == ASSUME NoRogueCreate PROVE Spec => []AtMostOneVersionPerTxn
<1>1. IInv => AtMostOneVersionPerTxn
  BY IInvImplies
<1> QED
  BY <1>1, Invariance, PTL

(* The in-commit timestamps of Transaction::get_in_commit_timestamp         *)
(* strictly increase along the log, whatever the clocks of the writers.     *)
THEOREM TimestampsIncrease == ASSUME NoRogueCreate PROVE Spec => []IctIncreasing
<1>1. IInv => IctIncreasing
  BY IInvImplies
<1> QED
  BY <1>1, Invariance, PTL

(* The row ids that RowTrackingVisitor assigns in different commits never   *)
(* overlap.                                                                 *)
THEOREM RowIdsUnique == ASSUME NoRogueCreate PROVE Spec => []RowIdsDisjoint
<1>1. IInv => RowIdsDisjoint
  BY IInvImplies
<1> QED
  BY <1>1, Invariance, PTL

(* CommitResult says what the log holds.                                    *)
THEOREM ReportsTruthful == ASSUME NoRogueCreate PROVE Spec => []ReportsAreTrue
<1>1. IInv => ReportsAreTrue
  BY IInvImplies
<1> QED
  BY <1>1, Invariance, PTL

(* The serial table is about the same versions, commits and states. *)
LEMMA SameTable ==
    /\ Serial!Versions = Versions /\ Serial!Commit = Commit
    /\ Serial!EmptyState = EmptyState
    /\ \A st, v : Serial!StateBefore(st, v) = StateBefore(st, v)
    /\ \A b, c : Serial!ReplayCommit(b, c) = ReplayCommit(b, c)
BY DEF Serial!Versions, Versions, Serial!Commit, Commit, Serial!EmptyState, EmptyState,
       Serial!StateBefore, StateBefore, Serial!ReplayCommit, ReplayCommit

(* A step of the protocol is a step of the serial table, or leaves it       *)
(* alone.                                                                   *)
LEMMA StepRefines ==
    ASSUME IInv, [Next]_vars
    PROVE  [Serial!Next]_<<log, state>>
<1>1. ASSUME NEW r \in puts, StoragePut(r), ~Exists(r.version)
      PROVE  Serial!Next
  <2>1. /\ r.version \in Versions /\ r.commit \in Commit /\ r.commit.id = r.id
        /\ r.version = get_commit_version(r.id)
        /\ Serial!RanOn(StateBefore(state, r.version), r.commit)
        /\ r.version # 0 => Exists(r.version - 1)
    BY RequestFacts
  <2>2. /\ log' = [log EXCEPT ![r.version] = r.commit]
        /\ state' = [state EXCEPT ![r.version] =
                       ReplayCommit(StateBefore(state, r.version), r.commit)]
    BY <1>1 DEF StoragePut, Exists
  <2>3. log'[r.version] = r.commit
    BY <2>1, <2>2 DEF IInv, TypeOK
  <2>4. \A u \in Versions : log[u] # NoCommit => log[u].id # r.id
    BY <1>1, <2>1 DEF IInv, FilesOwned, Exists
  <2>5. Serial!Append(r.version)
    <3>1. /\ log[r.version] = NoCommit
          /\ r.version # 0 => log[r.version - 1] # NoCommit
          /\ log'[r.version] \in Serial!Commit
          /\ Serial!RanOn(Serial!StateBefore(state, r.version), log'[r.version])
      BY <1>1, <2>1, <2>3, SameTable DEF Exists
    <3>2. \A u \in Serial!Versions : log[u] # NoCommit => log[u].id # log'[r.version].id
      BY <2>1, <2>3, <2>4, SameTable
    <3>3. log' = [log EXCEPT ![r.version] = log'[r.version]]
      BY <2>2, <2>3
    <3>4. state' = [state EXCEPT ![r.version] =
                      Serial!ReplayCommit(Serial!StateBefore(state, r.version),
                                          log'[r.version])]
      BY <2>2, <2>3, SameTable
    <3> QED
      BY <3>1, <3>2, <3>3, <3>4 DEF Serial!Append
  <2> QED
    BY <2>1, <2>5, SameTable DEF Serial!Next
<1>2. ASSUME NEW r \in puts, StoragePut(r), Exists(r.version)
      PROVE  UNCHANGED <<log, state>>
  BY <1>2 DEF StoragePut, Exists
<1>3. ASSUME NEW t \in Txns,
             \/ CreateTable(t) \/ StartTransaction(t) \/ CommitStart(t) \/ CommitReply(t)
             \/ CommitIoError(t) \/ CommitError(t) \/ Crash(t)
      PROVE  UNCHANGED <<log, state>>
  BY <1>3 DEF CreateTable, StartTransaction, Open, CommitStart, CommitReply,
              CommitIoError, CommitError, Crash
<1>4. CASE UNCHANGED vars
  BY <1>4 DEF vars
<1> QED
  BY <1>1, <1>2, <1>3, <1>4 DEF Next

(* Optimistic commits are serialisable: the log that Transaction::commit    *)
(* and put-if-absent build is one that transactions running alone, one      *)
(* after the other, could have written.                                     *)
THEOREM Serialisable == ASSUME NoRogueCreate PROVE Spec => ImplementsSerialTable
<1>1. Init => Serial!Init
  BY SameTable DEF Init, Serial!Init
<1>2. IInv /\ [Next]_vars => [Serial!Next]_<<log, state>>
  BY StepRefines
<1> QED
  BY <1>1, <1>2, Invariance, PTL DEF Spec, ImplementsSerialTable, Serial!Spec

=============================================================================
