------------------------------ MODULE EngineIo ------------------------------
(* The default engine as its callers see it: synchronous calls over          *)
(* asynchronous input and output. A call moves a future onto an executor and  *)
(* blocks until the result comes back through a channel. Reading files is a   *)
(* stream that is polled once per call; writing a Parquet file is a call      *)
(* whose future makes calls itself.                                           *)
(* Source: kernel/src/engine/default (executor.rs, mod.rs, file_stream.rs,    *)
(* json.rs, parquet.rs, filesystem.rs). Tokio and the object store are        *)
(* external.                                                                  *)
EXTENDS Naturals, SequencesExt

CONSTANTS
    Callers,      \* threads outside the runtime that use the engine
    Setups,       \* [flavor, op, reads]: the executor, and what each caller does
    Fates,        \* what becomes of the files that are read, in order
    BufferSize,   \* DEFAULT_BUFFER_SIZE, readahead
    Capacity,     \* of the channel of the background executor
    Workers,      \* worker_threads
    MaxBlocking,  \* max_blocking_threads
    MaxErrors     \* bound: errors after which a reader gives up

VARIABLES
    setup,    \* one of Setups
    fate,     \* one of Fates
    stream,   \* stream[c]: the stream behind the iterator of c
    caller,   \* caller[c]: what c is doing and what it has received
    task,     \* task[c][level]: the future of a call
    thread,   \* thread[c]: the thread that polls c's write_parquet_file
    channel,  \* futures sent to the background thread
    pool,     \* jobs waiting for a thread of the blocking pool
    cores,    \* cores of the runtime that have a thread
    object    \* object[c]: the file that c has written

vars == <<setup, fate, stream, caller, task, thread, channel, pool, cores, object>>

NumFiles == Len(fate)

-----------------------------------------------------------------------------
(* Streams                                                                    *)

Err == [file |-> 0, batch |-> 0]

(* What the reader of a file yields: open_json_file, open_parquet_file and    *)
(* PresignedUrlOpener fail to open a missing file. A reader ends after the    *)
(* first batch that cannot be decoded, but for that of a JSON file which the  *)
(* store gives as a stream of bytes ("garbled"): it yields its error again.   *)
Results(f) ==
    CASE fate[f] = "ok"      -> <<[file |-> f, batch |-> 1], [file |-> f, batch |-> 2]>>
      [] fate[f] = "empty"   -> <<>>
      [] fate[f] = "missing" -> <<Err>>
      [] fate[f] \in {"corrupt", "garbled"} -> <<[file |-> f, batch |-> 1], Err>>

Repeats(f, item) == fate[f] = "garbled" /\ item = Err

(* opened: the requests that the storage has answered, in that order.         *)
NewStream == [state |-> "Idle", started |-> 0, opened |-> <<>>, current |-> 0, pos |-> 0]

Opened(s, f) == \E i \in DOMAIN s.opened : s.opened[i] = f

Pending(s) == [stream |-> s, poll |-> "pending", item |-> Err]
Some(s, item) == [stream |-> s, poll |-> "some", item |-> item]
None(s) == [stream |-> s, poll |-> "none", item |-> Err]

(* `.buffered(n).try_flatten()`, of read_json_files, read_parquet_files and   *)
(* read_files: opens files ahead, at most n at a time, and yields the results *)
(* of one file after the other; a file that cannot be opened yields an error. *)
RECURSIVE PollBuffered(_)
PollBuffered(s) ==
    IF s.current > 0 /\ s.pos < Len(Results(s.current))
    THEN LET item == Results(s.current)[s.pos + 1]
         IN  Some([s EXCEPT !.pos = IF Repeats(s.current, item) THEN @ ELSE @ + 1], item)
    ELSE LET filled == [s EXCEPT !.started = Max({@, Min({NumFiles, s.current + BufferSize})})]
         IN  IF s.current = NumFiles THEN None(s)
             ELSE IF Opened(s, s.current + 1)
             THEN PollBuffered([filled EXCEPT !.current = @ + 1, !.pos = 0])
             ELSE Pending(filled)

StartNextFile(s) == [s EXCEPT !.started = Min({NumFiles, @ + 1})]

(* FileStream::poll_inner, used for presigned URLs with OnError::Fail: opens  *)
(* the next file while it reads the current one, and ends at the first error. *)
RECURSIVE PollFileStream(_)
PollFileStream(s) ==
    CASE s.state = "Idle" ->
            IF s.started = NumFiles THEN None(s)
            ELSE PollFileStream([StartNextFile(s) EXCEPT !.state = "Open"])
      [] s.state = "Open" ->
            IF ~Opened(s, s.current + 1) THEN Pending(s)
            ELSE LET next == [s EXCEPT !.current = @ + 1, !.pos = 0]
                 IN  IF fate[next.current] = "missing"
                     THEN Some([next EXCEPT !.state = "Error"], Err)
                     ELSE PollFileStream([StartNextFile(next) EXCEPT !.state = "Scan"])
      [] s.state = "Scan" ->
            IF s.pos < Len(Results(s.current))
            THEN LET item == Results(s.current)[s.pos + 1]
                 IN  Some([s EXCEPT !.pos = @ + 1,
                                    !.state = IF item = Err THEN "Error" ELSE @], item)
            ELSE IF s.current < s.started
            THEN PollFileStream([s EXCEPT !.state = "Open"])
            ELSE None(s)
      [] s.state = "Error" -> None(s)

Listed(f) == [file |-> f, batch |-> 0]

Sorted_AsListed(names) == names

(* items.sort_unstable()                                                      *)
Sorted(names) == SortSeq(names, LAMBDA f, g : f < g)

(* list_from on a store whose listings are not ordered: all of it is          *)
(* collected, which fails if an entry does, and sorted before any is yielded. *)
PollListing(s) ==
    LET asked == [s EXCEPT !.started = NumFiles]
    IN  IF Len(s.opened) < NumFiles THEN Pending(asked)
        ELSE IF s.state = "Error" \/ s.pos = NumFiles THEN None(s)
        ELSE IF \E f \in 1..NumFiles : fate[f] = "missing"
        THEN Some([s EXCEPT !.state = "Error"], Err)
        ELSE Some([s EXCEPT !.pos = @ + 1], Listed(Sorted(s.opened)[s.pos + 1]))

PollNext(c) ==
    CASE setup.reads[c] = "buffered"    -> PollBuffered(stream[c])
      [] setup.reads[c] = "file_stream" -> PollFileStream(stream[c])
      [] setup.reads[c] = "listing"     -> PollListing(stream[c])

-----------------------------------------------------------------------------
(* Executors                                                                  *)

(* TokioBackgroundExecutor has one core, on a thread of its own;              *)
(* TokioMultiThreadExecutor has worker_threads of them, on threads of the     *)
(* blocking pool, whose size is raised by their number (external).            *)
Cores == IF setup.flavor = "background" THEN 1 ELSE Workers
ThreadCap == Cores + MaxBlocking
OwnThreads == {c \in Callers : thread[c] = "own"}
FreeCores == cores - Cardinality({c \in Callers : thread[c] = "core"})
FreeThread == cores + Cardinality(OwnThreads) < ThreadCap

(* send_future tries until the channel has room; Handle::spawn always has.    *)
MaySpawn == setup.flavor = "background" => Len(channel) < Capacity
Spawned(t) == IF setup.flavor = "background" THEN Append(channel, t) ELSE channel
SpawnedStatus == IF setup.flavor = "background" THEN "channel" ELSE "runnable"

SendJob(c, level) == [kind |-> "send", caller |-> c, level |-> level]
CoreJob(c) == [kind |-> "core", caller |-> c, level |-> "write"]

Init ==
    /\ setup \in Setups /\ fate \in Fates
    /\ stream = [c \in Callers |-> NewStream]
    /\ caller = [c \in Callers |->
                   [pc |-> IF setup.op[c] = "idle" THEN "finished" ELSE "ready",
                    call |-> IF setup.op[c] = "write_parquet" THEN "write" ELSE "next",
                    got |-> <<>>, reply |-> "pending", item |-> Err]]
    /\ task = [c \in Callers |-> [level \in {"next", "write"} |-> "none"]]
    /\ thread = [c \in Callers |-> "none"]
    /\ channel = <<>> /\ pool = <<>> /\ cores = Cores
    /\ object = [c \in Callers |-> <<>>]

(* block_on, from a thread outside the runtime: BlockingStreamIterator::next  *)
(* (the first call also builds the stream), write_json_file after it has      *)
(* drained its iterator, or write_parquet_file.                               *)
BlockOn(c) ==
    /\ caller[c].pc = "ready" /\ MaySpawn
    /\ channel' = Spawned(<<c, caller[c].call>>)
    /\ task' = [task EXCEPT ![c][caller[c].call] = SpawnedStatus]
    /\ caller' = [caller EXCEPT ![c].pc = "blocked"]
    /\ UNCHANGED <<setup, fate, stream, thread, pool, cores, object>>

(* The loop of the background thread: receiver.recv() and tokio::task::spawn. *)
ReceiveTask ==
    /\ channel # <<>> /\ FreeCores > 0
    /\ task' = [task EXCEPT ![Head(channel)[1]][Head(channel)[2]] = "runnable"]
    /\ channel' = Tail(channel)
    /\ UNCHANGED <<setup, fate, stream, caller, thread, pool, cores, object>>

(* A core polls stream.next(); when it is ready the result is sent from a     *)
(* thread of the blocking pool.                                               *)
PollStream(c) ==
    /\ task[c]["next"] = "runnable" /\ FreeCores > 0
    /\ LET p == PollNext(c)
       IN  /\ stream' = [stream EXCEPT ![c] = p.stream]
           /\ IF p.poll = "pending"
              THEN /\ task' = [task EXCEPT ![c]["next"] = "waiting"]
                   /\ UNCHANGED <<caller, pool>>
              ELSE /\ task' = [task EXCEPT ![c]["next"] = "replying"]
                   /\ caller' = [caller EXCEPT ![c].reply = p.poll, ![c].item = p.item]
                   /\ pool' = Append(pool, SendJob(c, "next"))
    /\ UNCHANGED <<setup, fate, thread, channel, cores, object>>

(* The storage answers a request to open file f, in any order (external).     *)
StorageOpen(c, f) ==
    /\ f <= stream[c].started /\ ~Opened(stream[c], f)
    /\ stream' = [stream EXCEPT ![c].opened = Append(@, f)]
    /\ task' = [task EXCEPT ![c]["next"] = IF @ = "waiting" THEN "runnable" ELSE @]
    /\ UNCHANGED <<setup, fate, caller, thread, channel, pool, cores, object>>

(* A free or new thread of the blocking pool takes the oldest job: a core     *)
(* that was given up, or the result of a call (external).                     *)
RunJob ==
    /\ pool # <<>> /\ FreeThread
    /\ pool' = Tail(pool)
    /\ LET job == Head(pool)
       IN  \/ /\ job.kind = "core"
              /\ cores' = cores + 1
              /\ UNCHANGED task
           \/ /\ job.kind = "send"
              /\ task' = [task EXCEPT ![job.caller][job.level] = "replied"]
              /\ UNCHANGED cores
    /\ UNCHANGED <<setup, fate, stream, caller, thread, channel, object>>

Errors(items) == {i \in DOMAIN items : items[i] = Err}

Received(c) == IF caller[c].reply = "some" THEN Append(caller[c].got, caller[c].item) ELSE caller[c].got

(* A call of next returns. A reader may go on after an error; to_json_bytes   *)
(* does not.                                                                  *)
ReturnNext(c) ==
    /\ caller[c].pc = "blocked" /\ caller[c].call = "next" /\ task[c]["next"] = "replied"
    /\ LET back == [caller EXCEPT ![c].pc = "ready", ![c].got = Received(c)]
           ended == caller[c].reply = "none"
           failed == caller[c].reply = "some" /\ caller[c].item = Err
       IN  \/ /\ ended /\ setup.op[c] = "read"
              /\ caller' = [back EXCEPT ![c].pc = "finished"]
           \/ /\ ended /\ setup.op[c] = "write_json"
              /\ caller' = [back EXCEPT ![c].call = "write"]
           \/ /\ failed
              /\ caller' = [back EXCEPT ![c].pc = "finished"]
           \/ /\ ~ended /\ (failed => setup.op[c] = "read" /\ Cardinality(Errors(Received(c))) < MaxErrors)
              /\ caller' = back
    /\ task' = [task EXCEPT ![c]["next"] = "none"]
    /\ UNCHANGED <<setup, fate, stream, thread, channel, pool, cores, object>>

(* The future of write_json_file puts its buffer; that of write_parquet_file  *)
(* starts on its body, on the thread of the core that polls it.               *)
PollWrite(c) ==
    /\ task[c]["write"] = "runnable" /\ FreeCores > 0
    /\ IF setup.op[c] = "write_json"
       THEN /\ task' = [task EXCEPT ![c]["write"] = "putting"]
            /\ UNCHANGED thread
       ELSE /\ task' = [task EXCEPT ![c]["write"] = "running"]
            /\ thread' = [thread EXCEPT ![c] = "core"]
    /\ UNCHANGED <<setup, fate, stream, caller, channel, pool, cores, object>>

GivesUpCore_Never(c) == FALSE

(* block_in_place gives up the core of the thread, if it has one: a job of    *)
(* the blocking pool will run it on another thread.                           *)
GivesUpCore(c) == setup.flavor = "multi" /\ thread[c] = "core"

(* data.next() in the body of write_parquet_file: block_on within the runtime.*)
NestedBlockOn(c) ==
    /\ task[c]["write"] = "running" /\ MaySpawn
    /\ channel' = Spawned(<<c, "next">>)
    /\ task' = [task EXCEPT ![c] = [next |-> SpawnedStatus, write |-> "in_place"]]
    /\ IF GivesUpCore(c)
       THEN /\ thread' = [thread EXCEPT ![c] = "own"]
            /\ cores' = cores - 1
            /\ pool' = Append(pool, CoreJob(c))
       ELSE UNCHANGED <<thread, cores, pool>>
    /\ UNCHANGED <<setup, fate, stream, caller, object>>

AfterNext_IgnoresErrors(c) == IF caller[c].reply = "none" \/ caller[c].item = Err THEN "putting" ELSE "running"

(* What the body does with the result: it returns at the first error or if    *)
(* there is no data at all, finishes the file at the end of the data, and     *)
(* asks for more otherwise.                                                   *)
AfterNext(c) ==
    IF caller[c].reply = "none"
    THEN IF caller[c].got = <<>> THEN "replying" ELSE "putting"
    ELSE IF caller[c].item = Err THEN "replying" ELSE "running"

(* The nested call returns. Its thread takes its core back if no thread has   *)
(* taken it over (external), and is given up when the body awaits or returns. *)
NestedReturn(c) ==
    /\ task[c]["write"] = "in_place" /\ task[c]["next"] = "replied"
    /\ LET next == AfterNext(c)
           waits == CoreJob(c) \in Range(pool)
           left == IF waits THEN Remove(pool, CoreJob(c)) ELSE pool
       IN  /\ task' = [task EXCEPT ![c] = [next |-> "none", write |-> next]]
           /\ cores' = IF waits THEN cores + 1 ELSE cores
           /\ pool' = IF next = "replying" THEN Append(left, SendJob(c, "write")) ELSE left
           /\ thread' = [thread EXCEPT ![c] =
                            IF next # "running" THEN "none" ELSE IF waits THEN "core" ELSE @]
    /\ caller' = [caller EXCEPT ![c].got = Received(c)]
    /\ UNCHANGED <<setup, fate, stream, channel, object>>

(* The storage writes the file, or fails to (external); the future then sends *)
(* the result.                                                                *)
StoragePut(c) ==
    /\ task[c]["write"] = "putting"
    /\ \E ok \in BOOLEAN : object' = IF ok THEN [object EXCEPT ![c] = <<caller[c].got>>] ELSE object
    /\ task' = [task EXCEPT ![c]["write"] = "put"]
    /\ UNCHANGED <<setup, fate, stream, caller, thread, channel, pool, cores>>

PollPut(c) ==
    /\ task[c]["write"] = "put" /\ FreeCores > 0
    /\ task' = [task EXCEPT ![c]["write"] = "replying"]
    /\ pool' = Append(pool, SendJob(c, "write"))
    /\ UNCHANGED <<setup, fate, stream, caller, thread, channel, cores, object>>

ReturnWrite(c) ==
    /\ caller[c].pc = "blocked" /\ caller[c].call = "write" /\ task[c]["write"] = "replied"
    /\ caller' = [caller EXCEPT ![c].pc = "finished"]
    /\ task' = [task EXCEPT ![c]["write"] = "none"]
    /\ UNCHANGED <<setup, fate, stream, thread, channel, pool, cores, object>>

CallerStep(c) ==
    \/ BlockOn(c) \/ ReturnNext(c) \/ ReturnWrite(c)
    \/ NestedBlockOn(c) \/ NestedReturn(c)

RuntimeStep(c) == PollStream(c) \/ PollWrite(c) \/ PollPut(c)

Next ==
    \/ \E c \in Callers : CallerStep(c) \/ RuntimeStep(c) \/ StoragePut(c)
    \/ \E c \in Callers, f \in 1..NumFiles : StorageOpen(c, f)
    \/ ReceiveTask \/ RunJob

(* Threads run, the runtime polls every task that is woken and the storage    *)
(* answers every request.                                                     *)
Fairness ==
    /\ \A c \in Callers :
         /\ WF_vars(CallerStep(c)) /\ WF_vars(RuntimeStep(c)) /\ WF_vars(StoragePut(c))
         /\ WF_vars(\E f \in 1..NumFiles : StorageOpen(c, f))
    /\ WF_vars(ReceiveTask) /\ WF_vars(RunJob)

Spec == Init /\ [][Next]_vars /\ Fairness

-----------------------------------------------------------------------------
(* What the files hold, in the order in which they are asked for.             *)
Expected(c) ==
    IF setup.reads[c] = "listing"
    THEN IF \E f \in 1..NumFiles : fate[f] = "missing" THEN <<Err>>
         ELSE [f \in 1..NumFiles |-> Listed(f)]
    ELSE FlattenSeq([f \in 1..NumFiles |-> Results(f)])

UpToError(items) == IF Errors(items) = {} THEN items ELSE SubSeq(items, 1, Min(Errors(items)))

(* An iterator yields what its files hold, in the order of the files, up to   *)
(* the first error, however the storage orders its answers and however many   *)
(* files are opened ahead; and when it ends without an error it has yielded   *)
(* everything (BlockingStreamIterator over buffered, FileStream, list_from).  *)
IteratorsAreInOrder ==
    \A c \in Callers :
        LET got == caller[c].got
        IN  /\ IsPrefix(UpToError(got), UpToError(Expected(c)))
            /\ caller[c].reply = "none" /\ Errors(got) = {} => got = Expected(c)

(* A file that is written holds everything its data iterator had to yield: an *)
(* error in the data, or in a file it is read from, leaves no file behind     *)
(* (write_json_file, write_parquet_file).                                     *)
NoPartialFiles ==
    \A c \in Callers :
        object[c] # <<>> => Errors(Expected(c)) = {} /\ object[c] = <<Expected(c)>>

(* A Parquet file is written with at least one thread of the blocking pool    *)
(* left for the results ("If concurrent `block_on` calls exceed Tokio's       *)
(* `max_blocking_threads`, this can deadlock"), and not on the background     *)
(* executor, on which the call from within the call waits for itself;         *)
(* Snapshot::checkpoint asks for the multi-threaded one.                      *)
Supported ==
    LET nested == {c \in Callers : setup.op[c] = "write_parquet"}
    IN  IF setup.flavor = "background" THEN nested = {} ELSE Cardinality(nested) < MaxBlocking

(* Every call returns, also those made while the runtime polls another one,   *)
(* and when the channel to the background thread is full: TaskExecutor's      *)
(* block_on, send_future and block_in_place, for the uses that are Supported. *)
CallsReturn ==
    \A c \in Callers : Supported => <>(caller[c].pc = "finished")

=============================================================================
