# learn_netlib in TLA+

`learn_netlib` is a C++11 library of server building blocks (thread pools, a small REST
server on top of cpp-netlib, a log database on LevelDB, monitoring, streams, sorted tables,
an HTTP parser, containers).  This directory holds TLA+ models of its core, the TLC
configurations that check them on small instances, and proofs, checked by TLAPS, that the
main safety properties hold for instances of every size.

    tlc -workers 2 -config MCPoolOwner.cfg MCSimpleThreadPool     # a run
    tlapm SimpleThreadPoolProofs.tla                              # the proofs of a module

`PROJECT.json` lists components, runs, mutants (each property with a plausible bug that
breaks it), the source lines behind every definition, hazards, findings and theorems.

## 1. Inventory

Paths are relative to `src/`.

| component | source | state | operations | talks to |
|---|---|---|---|---|
| SimpleThreadPoolBase | `base/thread/simple_thread_pool.h` | `pending_`, `waiters_`, `exiting_` under `mu_`; a `Waiter` on each worker's stack | constructor, `Schedule`, `WorkerLoop`, destructor | condition variables; closures may call `Schedule` |
| Barrier | `base/thread/device_thread_pool.h` | atomic `state_` (count and a waiter bit), `mu_`, `cv_`, `notified_` | `Notify`, `Wait`, destructor | lives on the stack of its waiter |
| DeviceThreadPool, ThreadPool | `base/thread/device_thread_pool.h`, `cost_model.h`, `base/threadpool.cc` | the block plan of one `ParallelFor` | `ParallelFor`, `HandleRange`, `Enqueue*` | pool, barrier, cost model |
| FilterChain | `server/handler_chain.h` | `container_` under `mu_` | `AddHandler`, `Execute` | called by every request on the server's threads |
| REST server | `server/` | routes; per request a `HandlerContext`, the reader, the writer | `RESTHandler`, `RequestReader`, `Dispatcher::Schedule`, `RoutedHandlerChain`, `ResponseWriter` | cpp-netlib calls back for reads and writes; filter chains |
| LeveldbDatabase | `log/` | the file; `contiguous_size_`, `sparse_entries_`, `id_by_hash_` under `lock_` | `CreateSequencedEntry`, lookups, `BuildIndex`, `InsertEntryMapping`, `ScanEntries` | LevelDB |
| Notification | `base/notification.h`, `base/platform/mutex.h` | `notified_` under `mu_` | `Notify`, `HasBeenNotified`, `WaitForNotification`, the wait with a timeout, destructor | its waiters, one of whom may destroy it |
| RefCounted, scoped_refptr | `base/ref_counted.h` | an atomic count per object | construct, copy, move, assign, swap, destroy | threads that hand pointers to each other |
| Monitoring | `base/monitoring/` | registry of metrics; per counter a map from labels to values | `RecordEvent`, `IncrementBy`, export | recording threads, an exporting thread |
| InputBuffer, BufferedInputStream, RandomAccessInputStream | `base/io/` | a buffer, a position in it, a position in the file | read, read a line or a varint, skip, seek, tell, reset | a file whose reads fail or come short |
| ZlibInputStream, ZlibOutputBuffer | `base/io/zlib_*` | an input and an output buffer, `z_stream` | read, skip, reset; append, flush, sync, close | zlib; a file |
| Sorted tables | `base/io/table/` | blocks with restart points, an index of separators, a footer | `Add`, `Flush`, `Finish`, `Abandon`; `Open`, `InternalGet`, the iterator's `Seek`, `SeekToFirst`, `Next` | a file |
| Containers | `base/gtl/` | `InlinedVector`: inline or heap storage; `TopN`: one of three layouts | insert, erase, resize, assign, swap; push, peek, extract; edit distance | |
| Arena, Bitmap, Histogram, WeightedPicker | `base/arena.cc`, `bitmap.cc`, `histogram.cc`, `base/random/weighted_picker.cc` | blocks and a free pointer; words; buckets; a tree of sums | allocate, reset; set, clear, find; add, percentile; set weights, resize, pick | |
| HTTP parser | `base/http/http_parser.cc` | `state`, `header_state`, `flags`, `content_length`, `http_errno`; during a call the marks into the caller's buffer | `http_parser_execute`, `http_parser_pause`, `http_parser_init` | its user, who gives it buffers and is called back |
| URL parser | `base/http/http_parser.cc` | none | `http_parser_parse_url` | its caller |
| generators, codings, strings, hashes | `base/random/`, `base/` | pure functions | | |
| Env, file systems, Encryptor, INI, Status, generated code | `base/platform/`, `base/ini/`, ... | operating system or vendored | | |

What is hard in this code, and what makes each part right:

* **Pool.** Tasks travel through critical sections of different threads (`pending_`, a
  waiter's slot, a local variable), wake-ups may be spurious, and the destructor competes
  with workers that park.  Every scheduled closure is to run exactly once before the
  destructor returns; no thread is to sleep on a condition that holds.
* **Barrier.** Lock-free countdown first, mutex only for the last `Notify` that saw the
  waiter's bit; the barrier dies with its waiter's stack frame.  No lost wake-up, no early
  return, no touch after destruction.
* **ParallelFor.** The barrier's count is computed by a division, the notifications come
  from the leaves of a recursive halving: the two have to agree for every size, cost and
  alignment, or the caller hangs or its frame dies too early.
* **Filter chain.** A vector that grows at its front while others iterate over it.
* **REST server.** A request is a chain of callbacks: reads of any size in whatever order,
  then writes that continue after `Schedule` has returned.  Bodies are bounded and handed
  over once, responses go out whole and in order, every chain of callbacks ends.
* **Log.** File and index change one after the other; a crash may fall between; the index
  is rebuilt in the order of keys from what was inserted in any order; one lookup does not
  take the lock.  Acknowledged entries are never replaced, nobody sees a wrong answer.
* **Notification.** Whoever has seen the flag may destroy the object while the notifier is
  still inside `Notify`: only the mutex, held beyond `notify_all`, keeps it from that.
* **RefCounted.** `Unref` reads the count and then decrements it, with other threads in
  between; exactly one of them deletes, after the last reference.
* **Monitoring.** Sum and count are two counters, read one after the other by an exporter
  that does not take the lock under which both are written.
* **HTTP parser.** Input is cut anywhere, callbacks may fail or pause the parser at any
  point, and ranges that span buffers are reported piecemeal from marks that die with each
  call.  Callbacks come in the order of a message, every byte is reported once, bodies are
  whole, and a byte handed from case to case is consumed in the end.
* **URL parser.** Two loops with state machines of their own cut one URL; fields must be
  inside the buffer, in order, and leave out only delimiters.
* **Streams.** Refills come short, fail half way, or bring the last bytes together with the
  end; seeks and skips go past what is buffered; compression adds bytes held inside zlib.
  Every reader is one stream of bytes, nothing written is lost or written twice.
* **Tables.** Keys are stored without the prefix they share, index keys are shortened, and
  a search meets them at three levels.  What was added is found, in order, and a block that
  cannot be read leaves an error behind.
* **Containers and the like.** Sequences of legal calls through several representations
  (inline and heap, unsorted and heap, partly used blocks and trees), where a wrong boundary
  shows many calls later.

## 2. Modules

| module | what it models |
|---|---|
| `TaskPool` | abstract: submitted tasks run once; closed only when all have run |
| `SimpleThreadPool` | the pool; implements `TaskPool` |
| `SimpleThreadPoolProofs` | proofs |
| `Barrier` | the barrier, with its inductive invariant, which serves the barrier by itself and the one inside `ParallelFor` |
| `ParallelFor` | `ParallelFor`, composed of `Barrier` (instantiated, its actions are conjuncts of the caller's and workers' steps) and the promise of `TaskPool` |
| `HandlerSequence` | abstract: a request passes all registered handlers in one step |
| `FilterChain` | the chain; implements `HandlerSequence` |
| `RestServer`, `RestServerProofs` | the server; a chain's execution is one step of it, which is what `FilterChain`'s refinement justifies |
| `EntryLog` | abstract: a set of entries with unique numbers, lookups on it |
| `LeveldbDatabase` | the log database with crashes; implements `EntryLog` |
| `HttpBytes` | the character classes of the HTTP parser |
| `HttpParser` | `http_parser_execute` and its callbacks |
| `HttpUrl` | `http_parser_parse_url` |
| `Notification`, `RefCounted`, `Monitoring` | the small objects threads share |
| `ByteStream` | abstract: a file read as one stream of bytes |
| `RandomAccessFile`, `ReadBuffer` | the file below, and what the two readers have in common |
| `InputBuffer`, `BufferedInputStream`, `ZlibInputStream` | the readers; each implements `ByteStream` |
| `Readers` | the first two over the same variables, and `Table` over its own |
| `ZlibOutputBuffer` | the writer |
| `SortedMap` | abstract: a cursor in a sorted sequence of keys |
| `Block`, `Table` | blocks as operators on records; the builder of a table and its reader, which implements `SortedMap` |
| `VectorPair`, `InlinedVector` | abstract: two `std::vector`s; the class, which implements them |
| `TopN`, `Arena`, `Bitmap`, `Histogram`, `WeightedPicker`, `EditDistance` | one class or algorithm each, beside a history of what it was told |
| `MC*` | instances for TLC; `MCSync`, `MCStorage` and `MCContainers` hold several independent ones |
| `SyncProofs` | proofs about `Barrier`, `ParallelFor`, `Notification`, `RefCounted`, `Monitoring` and `FilterChain`, for the specification of `MCSync` |
| `ReaderProofs` | proofs about `InputBuffer`, `BufferedInputStream` and `Table`, on the module `Readers` |
| `StorageProofs` | proofs about `LeveldbDatabase` and `ZlibOutputBuffer`, for the specification of `MCStorage`, and what `ReaderProofs` gives for it |
| `ContainerProofs` | proofs about `Bitmap`, `Arena`, `Histogram`, `InlinedVector`, `WeightedPicker` and `EditDistance`, for the specification of `MCContainers` |
| `HttpParserProofs` | proofs about `HttpParser`: what each case of the switch keeps, that a call ends, and what the callbacks have told |

Names follow the source (`container_` is `container`, `contiguous_size_` is
`contiguous_size_`).  Operators under a comment that begins with `Fault:` are no part of a
specification: each is a definition with a bug, and is used to see that a property notices.

### SimpleThreadPool
One action per critical section of `mu_`, because every section ends at a `cv.wait`, at the
unlock around `ExecuteTask` or at a return.  `asleep` is the set of threads blocked in a
wait: notify removes a thread, `SpuriousWakeup` may, and a thread outside it tests its
predicate again.  `Schedule` is `Schedule` (the owner) and `NestedSchedule` (a running
closure), both with `Enqueue` as the section; `WorkerLoop` is `LoopTurn` (`LeaveLoop`, `Park`,
`TakePending`), `Resleep`, `TakeHandoff`, `WokenToExit` and `ExecuteTask`; the destructor is
`Destroy`, `DestroyWoken` and `Join`.  `Parent` says which closure schedules which.  Because
the Waiters are on the workers' stacks, `Enqueue` on a worker that has left records
`dangling` and writes nothing.  `NumThreads` and `CurrentThreadId` read a constant.

### Barrier
`state_` is split into `count` and `waiting`; one action per atomic operation and per
critical section, with the points between `fetch_sub` and `lock` and between `lock` and
`unlock` as states.  Callers make at most `total` notifications, as the assertion demands.

### ParallelFor
`Sequential`, `CallNullAlign` and `ChooseBlock` are the beginning of `ParallelFor`,
`Coarsen` one turn of the search for larger blocks, `Start` the construction of the barrier,
`HandleLeaf`/`NotifyBarrier`/`ScheduleUpper`/`ScheduleLower` are `HandleRange`, `Take` is a
worker taking a closure, `WaitBarrier`, `WaitStep` and `Return` the end.  `Index` is an int
and sums wrap at `IntMax`.  Efficiencies, doubles in the code, are exact fractions, and the
comparison with 0.01 is multiplied out.

### FilterChain and RestServer
`Execute` is `Lock`, `HandleOne` for each handler, `Complete`; null handlers are skipped, an
empty chain returns at once.  In `RestServer`, `RestHandler` is `RESTHandler::operator()`,
`ReadFails`/`ReadEmpty`/`ReadPiece` are the outcomes of one read in
`RequestReader::operator()`, `Filters`, `Route`, `Respond` and `Return` are
`Dispatcher::Schedule`, and `Transmit` (cpp-netlib) alternates with `HandleChunk`.  Bodies
and responses are their lengths.  `context` says whether the `Dispatcher`'s `HandlerContext`
still exists.  cpp-netlib is external: what it does with a connection is an outcome of a
read or a write.

### LeveldbDatabase
The constructor is one `IndexNext` per key and `IndexDone`; `CreateSequencedEntry` is `Get`,
`Put` and `Map` (`InsertEntryMapping` and the unlock) under `lock_`; the lookups are one step
each; `ScanEntries` and `GetNextEntry` work on a snapshot of the file.  `Crash` may happen in any state: the file stays, everything else goes.  `failing`
says whether LevelDB may report errors, which the code answers with an abort
(`PutFails`, `LookupFails`), in `Get` with a refusal, and in iterations by taking the error for
the end (`IndexDone`, `GetNextEntry`; `partial` marks an index cut short).  LevelDB is external: a map iterated
in the order of keys, and keys of `IndexToKey` order as their numbers.

### HttpParser and HttpUrl
The parser is a state machine over bytes, and the model keeps that shape: `StatusLineEdges`,
`RequestLineEdges`, `ChunkLineEdges` and `UrlEdges` hold the cases that only move on, and every other case
of the switch is an action (`HeaderValue` is `case s_header_value:` and so on).  `call` holds
the locals of one `http_parser_execute`; `left` is the distance to the end of the buffer, a mark is
the `left` at which it was set.  `NextByte` is the `break` at the end of a case, `SameByte`
is `goto reexecute_byte`; `Notify`, `Data` and `Space` are the callback macros, whose
user may answer with success, an error or a pause.  `EndOfBuffer` is what follows the loop,
`Pause` and `Reinit` what the user does between calls.  `told` is an observer: what the
callbacks have said so far, and how many bytes of a range or body are still to be reported.

Bytes are representatives of the classes the code tells apart (a tab is a space, bytes above
127 are letters of a URL and are left out, as is `*`).  `parser->index` (how far a method, a
header name or "chunked" has matched), version and status digits and `nread` are left open:
wherever the code tests them the model takes both ways, so the model has every behaviour of
the code and some more.  `header_state` is reset when a header ends, because the next name
sets it before it is read.  `HttpUrl` has the two loops of `http_parser_parse_url` as folds
over the buffer, which `AppendByte` builds up; its result starts zeroed, as each caller in the
repository has it.

### Notification, RefCounted, Monitoring
`Notify` is `NotifyLock`, `SetFlag`, `NotifyUnlock`; both waits are `Enter` and `TestFlag`, the
timed one also `Expire` and `TestExpired`.  `Unref` is `BeginUnref`, `LoadCount` (the load that
finds the last reference without writing), `FetchSub`, `Delete`; the other actions are the
operations of `scoped_refptr`.  `RecordEvent` is `RecordEvent` (the lock), `AddTotal`,
`AddCount` (and the unlock); `Export` copies the registry and `PopulateMetricFamily` reads one
counter.  A comparison of exported numbers is made at the moment of the last read.

### Streams
`ReadBuffer` has what the code of `InputBuffer` and `BufferedInputStream` repeats: counting
loops and lines over a buffer.  A call is an action, each turn of its loop another, each with
one refill; `FileRead` is what the operating system may answer: all, a part with an error,
or the rest with `OUT_OF_RANGE`.  zlib is external.  For reading, a file is a sequence of tokens, each with what
it inflates to: `inflate` takes tokens while their output fits and keeps the rest
(`held`), as `z_stream` does.  For writing, a unit of compressed data stands for a byte of the
caller's, which `deflate` may keep inside.

### Tables
Keys are sequences of bytes, since prefixes and separators are what the code is about.  A
file is a sequence of units (a block, its trailer, the footer), cut off where an
append failed or the process died.  `EntryBytes` and `CurrentSizeEstimate` keep the arithmetic that decides when a
block is full.  `Step` has the operations of the two-level iterator; one turn of
`SkipEmptyDataBlocksForward` is one step.  Snappy only changes the contents' bytes and is left out.

### Containers
In `InlinedVector` the cells of both storages say what they hold: an element, nothing
(`Raw`), or what is left of a storage that was given back (`Freed`).  An argument of `insert`
and `resize` is a value or a reference to an element.  `Arena` keeps addresses modulo the
largest alignment.  `Histogram` computes with exact fractions, and a word of `Bitmap` is the
set of its bits.

## 3. Runs

| run | instance | states | what it shows |
|---|---|---|---|
| `pool_owner` | 3 workers, 3 tasks of the owner | 20,834 | no use of a dead Waiter; implements `TaskPool`, so no closure is left when the destructor returns; every closure runs, an entered destructor returns |
| `pool_fork` | 3 workers, one closure that schedules two more | 2,002 | no duplication; `WakeupsOK`: no idle worker beside a queued task, no lost wake-up, `waiters_` valid, with nested scheduling against the destructor |
| `pool_fork_destroy` | 2 workers, nested scheduling | (violation) | finding 1 |
| `sync` | six parts: Barrier (3 notifiers, 2 waiters, counts 0..4), `ParallelFor` (2 workers, sizes up to 12), the chain (3 handlers, one null, 3 requests), Notification (3 waiters), RefCounted (2 threads, 2 pointers each, 2 objects), EventMetric (3 recorders, 2 label sets, 2 exports) | 67,459 | nobody returns early, sleeps on or touches what is destroyed; every index once and the count of the barrier equal to the leaves to come; `FilterChain` implements `HandlerSequence`; deletion with the last reference; sum and count agree; all who wait come back |
| `parallel_for_null` | no `block_align` | (violation) | finding 2 |
| `rest_server` | 1 connection, all methods, body limit 4, chunks of 2 | 38,139 | chunks in order, responses complete, bodies handed over once; both chains of callbacks end |
| `storage` | six parts: `InputBuffer` and `BufferedInputStream` (files up to 3 bytes, buffer of 2), zlib's reader and writer (buffers of 2 and 3), tables (4 keys, up to 4 entries, several blocks), the log (2 writers, 5 entries, 2 hashes) | 149,311 | the three readers implement `ByteStream`; nothing written is lost; a table finds what was added and its iterator implements `SortedMap`; the index stands for the file and the log implements `EntryLog` |
| `log_negative` | a negative number | (violation) | finding 3 |
| `zlib_raw` | streams without a checksum | (violation) | finding 4 |
| `http_parser` | buffers of 1 to 3 bytes, `INT64_MAX` as 31; URLs of up to 5 bytes, with and without `C://` in front | 373,298 | asserts and integer ranges, order of the callbacks, every byte reported once, bodies whole, every call returns; fields of a URL partition it, CONNECT takes host:port |
| `containers` | seven parts, each a class of `gtl`, the arena, the bitmap, the histogram, the picker | 40,306 | vectors are sequences, TopN holds the greatest, memory is handed out apart and aligned, percentiles stay within what was added, picks cover the weights, edit distance is the least, bits are those set |
| `vector_alias` | arguments that alias the vector | (violation) | finding 5 |

In `sync`, `storage` and `containers` the initial state chooses one part and the others stand
still; the properties of a part say nothing of the others' behaviours.  The parts do not
know each other in the code either, except where a module composes them (`ParallelFor`
with `Barrier`, a table's builder with its reader).

Why the bounds are enough to be interesting:

* Three workers are the least number at which one parks, one runs and one is handed a task
  at the same moment; three tasks fill `pending_` beyond one, so that the destructor both
  waits and is woken.  Workers are interchangeable, so the run without liveness uses symmetry.
* Counts 0..4 of the barrier include none, one and more notifications than threads; with two
  waiters a wake-up has to reach both.
* The sizes, costs and alignments of `ParallelFor` were chosen so that all outcomes of the
  plan occur: one leaf, leaves of unequal size, accepted and refused coarsening, an alignment
  larger than a block.  Overflow of `divup` near the largest `int` is in the model: with
  `IntMax = 31` and sizes 28..31 instead, a sum in `divup` wraps and the search for coarser
  blocks divides by a block size of 0.  No document promises anything for such sizes, so no
  run is kept for it.
* The body limit 4 and pieces of 1 to 3 bytes meet the declared length exactly, fall short,
  overshoot it, and meet or overshoot the limit; responses of 0 to 9 bytes in chunks of 2 are
  empty, whole, and several chunks with an odd rest.  Connections share nothing but the pool,
  the chains and the routes, and one thread is the tightest pool.
* In the log part of `storage` two entries compete for number 1, one hash occurs three times, and numbers 0 to 3
  can arrive in every order, so that every shape of the gap and the run behind it occurs.
* In `http_parser` a buffer of 3 bytes can hold the end of one range, a delimiter and the start of
  the next, and since every state can be reached at the end of a buffer, longer input adds
  only more of the same.  With `LengthMax = 31` both overflow checks refuse and accept some
  number (a digit is at most 2 or 14, so that two digits fit and three may not), and a body
  can be shorter than, as long as, and longer than a buffer.  The fast-forwards pass over 1
  and 2 bytes instead of 4 and 11.  Five bytes of URL after a schema hold user, host and port
  or host, path and query.  That a call returns is `ExecuteAdvances`, a variant that every
  turn of the loop decreases, rather than a liveness property: it needs no fairness.

* A Notification needs a second notifier only as a thread that never calls; one untimed and
  two timed waits meet every order of flag, timeout and destruction.  Two threads that share
  two objects reach every pair of a load and a decrement; three recorders are one recording,
  one blocked and one to come.
* Files of 0 to 3 bytes around a buffer of 2 end before, at and behind the end of a
  buffer, and every length from -1 to 4 is asked for.  A varint has at most 2 bytes there
  instead of 5, so that both an end in the middle and one too long occur.
* Tables have blocks of 24 bytes and two entries between restart points: values of 1 and 50 bytes
  make blocks of one and of several entries, and keys that are prefixes of each other or
  end in the largest byte meet every case of the separators.
* The vectors hold 2 elements inline and up to 4; two to four buckets with gaps are enough for an
  empty one between two others; five elements of the picker are three levels, with unused
  leaves; up to three words of 3 bits have whole ones and a partial one.

`CHECK_DEADLOCK FALSE` is used where the system really may stop: when all requests are done.
It is also used in `sync`, `storage` and `containers`, whose bounded parts end; that threads of the
former do not hang is what its liveness properties say.  In the other models the end is a
stuttering action (`Terminated`, `Finished`).

### Fairness
Only weak fairness, per thread.  The operating system runs every thread that is not blocked,
and user code (closures, handlers, `f`) returns; nothing obliges the owner of a pool to
schedule or destroy, a thread to call `Notify` or `Wait` in the first place, or the operating
system to wake anyone spuriously.  A mutex held for one action needs no more: in `Barrier` a
waiter's lock attempt is retried in the same action, and the critical sections that can
exclude it are finitely many.  In `ParallelFor` some worker takes a queued closure, which is
`EveryTaskRuns` of the pool.  In `RestServer` cpp-netlib calls back for each outstanding read
and write: the peer goes on or the connection breaks.  `LeveldbDatabase` has no liveness
property: a crash may happen at any time, and LevelDB may always fail.

## 4. Proofs

For all values of the constants that satisfy the named assumptions:

* `PoolAssumption`: a non-empty finite set of workers, distinct from the client.
  `PoolInvariant` proves `PoolInv`.  The checked properties are not inductive alone: that no
  closure is in two places needs to know which program points own a slot or a local task,
  which is `Control` (a slot is filled only for a woken worker no longer in `waiters_`, a
  local task exists exactly while running).  From it: `TypeCorrect`, `TasksNotDuplicated`,
  `WakeupProtocol` (`WakeupsOK`: `WorkConserving`, `NoLostWakeup`, `WaitersValid`,
  `WokenEmptyOnlyToExit`).  Under `OwnerOnly`, that no closure schedules another, `OwnerInv`
  (`exiting_` means nothing is pending and no Waiter dangles) is inductive too, and gives
  `OwnerSafety` and the refinement `PoolImplementsTaskPool`.  Finding 1 shows that the
  condition cannot be dropped.
* `RestServerAssumption`: at least one path, methods among the known ones, lengths natural,
  chunk size positive.  Every step but `AddRoute` belongs to one connection, so
  `RestServerInv` is a predicate per connection: the phase of the request (`PhaseOK`), where
  its Content-Length comes from (`HeaderOK`), and offset + remainder = response size for the
  outstanding write (`ChunksOK`).  From it `RestServerChunksInOrder`,
  `RestServerResponseComplete` and `RestServerHandedOver` follow.

`SyncProofs`, `StorageProofs`, `ContainerProofs` and the two modules on the HTTP parser extend the modules the
runs check, so their theorems are about the same specifications and the same formulas.  A behaviour of `MCSync`, `MCStorage` or `MCContainers` is
one of a single part, and each proof is an inductive invariant of that part's own `Next`.

* `BarrierSafety`, from `BarrierAssumption` (`Nobody` is no thread) and at least one waiter.
  `BarrierInv` adds to the properties that the mutex is held exactly between lock and unlock,
  and that from the moment a `Notify` is bound for the critical section until it has left it
  some waiter is still inside `Wait` (`Blocked`): this is why the owner cannot have destroyed
  the barrier.
* `ParallelForAlwaysSafe`, from `ParallelForAssumption` (the pool is finite and the caller not
  in it) and `NoOverflow`: n can be added to a block, to what block_align rounds to and to
  the number of threads without leaving `int`.  Beyond that the code's `divup` overflows, which
  C++ leaves undefined, so no property can hold of it.  `ForInv` has three parts.
  `PlanOK` describes the search for the block size: the size is n or a multiple of the
  alignment, `block_count` is n divided by it and rounded up, and `max_efficiency` is no worse
  than the first choice and at most 1% better than the accepted one.  `WorkOK` describes the
  ranges: they begin at multiples of the block size (`RangesOK`), no two have an index
  in common (`Apart`), an index is in one exactly if f was not called on it
  (`CoveredOrOpen`), and the barrier expects as many `Notify` calls as there are multiples
  of the block size in the ranges whose `Notify` is still to come.  Halving, in whatever order,
  leaves the set of those multiples alone, and a leaf takes one out; so no induction over
  the halving is needed, and that the division agrees with the number of leaves is one
  bijection at the start (`BlocksOfAll`).  `mid` is inside a range that does not fit
  (`MidInside`), which is why the halving ends; `CoarseningAdvances` says the same of the
  search, which the code asserts.  The third part is `BarrierInv` of the
  caller's barrier: when `Wait` has returned its count is 0, so no multiple, hence no range
  is left, and no thread is inside `Notify`.
* `NotifierHasLeftAlways`, from `NotificationAssumption` (no wait is both timed and untimed).
  `NotificationInv` adds that the holder of `mu_` is the one thread inside `Notify` and that
  the flag is set from its `SetFlag` on.
* `DeletedWithTheLastAlways` (no assumption): the count of an object is the cardinality of
  its references, which are the pointers to it and the `Unref`s that have not subtracted yet.
  With the types (`RefInv`) it is inductive as it stands: the work is to show of each step that
  it adds or removes exactly one reference.
* `SumAndCountAgreeAlways` (`MonitoringAssumption`: an event adds something).  The property
  divides a sum by what an event adds and counts recorders in the middle of an event; steps are
  not described by either.  `MetricInv` says instead that there is a number k of events per
  label with sum = k events and count = k, less one while an event is half added
  (`Counted`), and that an export half done has read no more than what is there now
  (`ExportedBefore`: values only grow, and the sum is read before the count).
* `FilterChainImplements`: a request passes the chain of the moment at which it takes
  `mu_`.  `ChainInv` is `IteratorValid` (an iterator is one of the thread that holds `mu_`,
  and what it has run are the non-null handlers in front of it) with the bounds of the
  iterator and that no handler is registered twice.
* `IndexAlwaysOK` and `LogImplements`, from `LeveldbDatabaseAssumption` (the entries are
  finitely many and `NoEntry` is none of them) and `NumbersNatural` (no sequence number is
  negative).  The latter cannot be dropped: a negative number is stored under the key of
  0, which is finding 3.  `IndexOK` is not inductive.  `InsertEntryMapping` keeps it only for a
  number that is not yet indexed, and that this is so needs to know that an entry is stored
  under its own key (`StoredUnderOwnKey`), that the writer inserting it is the only one past
  `lock_` (`WritersOK`), and that during `BuildIndex` the index covers exactly the keys
  passed (`IndexSound`, `IndexComplete`).  That `contiguous_size_` moves past a run of
  sparse numbers to the first gap is an argument about the least number missing
  (`FiniteSetTheorems` and `WellFoundedInduction` give that there is one).  The refinement also
  needs that what an open iterator has before it is still stored as it was (`ScanOK`).

* `NothingEverLost`, from `ZlibOutputBufferAssumption` (sizes and lengths are natural, the flush
  mode is not `Z_FINISH`).  In the middle of a call `NothingLost` depends on what the point of the
  call implies: `DeflateBuffered` that has succeeded leaves no input (`AddToInputBuffer` writes at
  the start of the buffer on the strength of that), with a flush nothing is held back in
  zlib, and only `Z_FINISH` may produce the end of the stream.  `WriterInv` states this for each
  point (`CallOK`, `EndOK`, `FlushOK`), with `NothingMissing` for the order of the bytes and
  `InputFits` for the window.  Concatenation occurs under the name `Join`, of which only
  associativity, lengths and the empty sequence are used.
* `InputBufferReadsAStream` and `BufferedReadsAStream`, from `BufferedInputStreamAssumption` (files are
  sequences of bytes, counts integers, a buffer and a piece hold at least a byte).  `ReaderInv` says
  that the buffer holds the bytes of the file in front of the position of the stream below, so that
  `Tell` is where the next byte comes from, and that `got` holds the bytes from `from`, where the
  call began, up to `Tell`; a refill at the end of the file or after an error empties the buffer
  and keeps this.  Each turn of a loop is then a stutter or the answer `ByteStream` gives.
  `BufferedInv` adds the skips and seeks of the stream below, which have given up the buffer and
  have `left` to go.  The text of a line is a recursive function over the bytes: it exists
  (`Iteration`), is unique, and grows by a byte a turn; `Induction` is a fact about sets of numbers, which
  `WellFoundedInduction` gives without an operator as parameter.
* `TableLookupsFind`, from `TableAssumption` (keys are words of bytes, sizes natural, a block has
  restart points, and no failure is called `OK`).  `LookupsFind` looks into blocks that a builder wrote long
  before, so `TableInv` describes a builder by the entries added so far (`WellBuilt`): the blocks in
  its file hold them in order, cut at c[1], c[2], ... (`Blocks`); every two blocks have an index
  key between them (`Separates`) except behind the block written last, whose index entry waits for
  the next key (`Awaits`); what is left is in the data block (`RestHolds`).  A file without a footer
  does not open; with one it holds everything (`Completed`), whichever `Append` failed.  A block of
  entries with shared prefixes is compared with the keys that it stands for (`Encodes`), an iterator
  with the entry that it is at (`At`).  `Block::Iter::Seek` is a binary search among restart points
  (`SearchFinds`) and a linear one behind (`ScanIs`) and ends at the first key at or past the target
  (`FirstPast`); done in the index and then in the block this finds the key (`GetIs`), because a
  separator parts the entries up to its block from those behind (`SeparatorSplits`).  The three
  loops of `Block` are recursive functions, which have values by `Iteration`.
* `BitmapHoldsTheBits`, from `BitmapAssumption` (a word has bits).  The invariant says that a bit
  is in its word exactly if it was set; that `FirstUnset` is right follows from it in any
  state, by the order of places: an index is its word and its position, and both are
  determined by it (`Division`, `DivisionUnique`).
* `ArenaHandsOutApart`, from `ArenaAssumption` (sizes natural, alignments positive).  With the types
  `HandedOutApart` is inductive.  A new block is aligned because its alignment is a multiple of
  the one asked for (`CommonMultiple`, with Euclid's facts on `Gcd`), and `SatisfyAlignment` takes
  off `remaining_` what it adds to `freestart_` (`AlignedSkips`).
* `HistogramPercentilesFit`, from `HistogramAssumption` (limits rise strictly, a sample is greater
  than the stand-in for `-DBL_MAX`, percentiles are 0 to 100).  `HistogramInv` says that bucket b
  holds as many samples as lie from limit b - 1 on and below limit b, hence that the buckets up to b
  hold those below limit b (`Count`); that all are below the last limit, which the code does not
  ensure (see the observations); and that `min_` and `max_` are the least and the greatest of them.
  Interpolation then is between two ends, cut off at `min_` and `max_`, of a bucket that is not empty,
  so it divides by no zero; that the result never falls with p is shown with the fractions multiplied out.
* `InlinedVectorsAreSequences`, from `InlinedVectorAssumption` (sizes are natural, a vector may be
  longer than what fits into the object, raw storage is no value), without arguments that alias
  (with them, finding 5).  `VectorsInv` says that a vector holds some sequence s (`Holds`): its storage is s and behind it
  raw cells.  There is a lemma per operation that gives the sequence held after it, and the
  refinement is that the operations of `VectorPair` on these sequences give the same.  That
  `Grow` finds a capacity at all, and that `operator=` has pushed the first n elements after
  n turns, are inductions over recursive functions (`Iteration`, `Induction`).
* `PickerPicksWhatIsCovered`, from `WeightedPickerAssumption` (weights and the bound on the elements
  are natural).  `PickerInv` says that the leaves are the weights and then zeroes (`Padded`), and
  that every other node is the sum of the two below it (`TreeOf`).  The zeroes are what lets
  `Resize` leave the tree alone, and what keeps `PickAt` off a leaf without an element.  Down the tree
  the index stays what lies left of the node plus `position` (`At`, `DownHolds`), because the sums
  over one level are every other sum over the next (`LevelSums`).  The loops are recursive
  functions on 1..k; that each has its values, and that they are where its steps lead, is
  shown once (`Turns`, `Ascent`, `Descent`).  Weights and sums are unbounded here; the code's are `int32`.
* `EditDistanceIsLeast`, without any assumption.  No step changes the two words, so the invariant says
  only that they are sequences; the theorem is about the algorithm.  Entry j of row i is the least
  cost of a pairing of the first i elements with the first j (`IsLeast`, `LeastStep`), because a pairing
  either pairs the two last elements or leaves one of them alone (`LastPair`).  `RowIs` and `RowsAre` are
  the two loops.  That the words may change places is `LeastFlips`; that equal words have distance 0
  is no case of the loops in the code, so `SameLeast` shows that the loops would say the same.
  Distances are unbounded here; the code's are `int64`.
* The four theorems on `HttpParser` need only `HttpParserAssumption` (a buffer holds at least a byte,
  numbers go up to 16 at least, the longer fast-forward is longer than the other), so they
  hold for buffers of any size and any cut of the input.
  - `AssertionsAlwaysHold`.  That at most one range is open at the end of a buffer is not a fact about
    one case: `ParserInv` says of every state which range may be open there (`Marked`; the
    table `MarkStates` is `InSpan` read backwards), and what the state implies for flags, length and
    header state (`StateOK`), also for the states that lead to those with an assert: a length
    that is positive in `body_identity` has to be so from `headers_done` on.
    There is a lemma for each macro of the callbacks and each case of the switch.
  - `CallbackOrderAlways` and `BytesAlwaysReported`.  The order is one of callbacks, the parser moves by
    states: `ReportInv` says for every state and flags which callback may have been the last
    (`Heard`, `LastOK`), that a URL, name or value in progress has its mark while a call
    runs (`MarkedOK`), that what is due of a range is what its mark spans, and that what is owed
    of a body is the parser's `content_length` plus what the mark spans (`BytesOK`).
    A pause or an error keeps all of it, because each macro moves the state before it calls.
  - `ExecuteAlwaysAdvances`.  The variant (bytes left, then `Rank` of the state) decreases with
    each turn.  Runs of body bytes take at least one byte because `ParserInv` keeps the
    length positive there.

tlapm takes an operator of `FiniteSets` seen through an instance (`RC!Cardinality`) for
another than that of the library's theorems; `SameCounting` states that they are equal.

Only model-checked:

* all liveness properties (fairness and ENABLED are outside the proof system's reach), hence
  also `PoolImplementsTaskPool`'s counterpart with fairness and `ExecuteReturns`;
* what is computed by a RECURSIVE operator or by a fold: the folds of `HttpUrl` and of
  `ZlibInputStream`, the sorts of `TopN`;
* the properties of `storage` and `containers` that have no theorem yet (see the plan), among
  them that the two levels of a table's iterator are a `SortedMap`.

## 5. Findings

1. **Schedule during destruction** (`simple_thread_pool.h:37`, run `pool_fork_destroy`).  The
   destructor sets `exiting_` as soon as `pending_` is empty, while closures run; one that
   then schedules another leaves it in `pending_` with no worker to take it, or gives it to a
   worker in `waiters_` that has returned.  The destructor returns with the closure unrun,
   against "delete thread_pool;  // Wait for all closures to finish"
   (`notification_unittest.cc:60`).
2. **Null block_align** (`device_thread_pool.h:163`, run `parallel_for_null`).  The guard of the
   first call tests `block_size` and not `block_align`, so `ThreadPool::ParallelFor` throws
   whenever there is enough work to split.  Its test is disabled.
3. **Negative sequence number** (`leveldb_database.cc:32`, run `log_negative`).  It is stored
   under the key of 0 and acknowledged; the CHECK at line 189 then aborts every restart.
4. **Raw deflate streams** (`zlib_inputstream.cc:141`, run `zlib_raw`).  When all input is
   consumed the reader goes to the file below before it asks `inflate` again; at the end of the
   file it answers `OUT_OF_RANGE` although `inflate` holds more.  Formats with a checksum at their end do not
   show it.
5. **Aliased argument of resize** (`inlined_vector.h:441`, run `vector_alias`).  `resize(n, v[i])`
   that grows reads the element after its storage was given back; `push_back` takes care of
   the same case.

Observations that contradict no line of the repository, or only in passing; none has a run:

* **Empty read** (`request_reader.cc:32`).  A read that completes without data or error hands
  over an incomplete body, which the comment at `http_server.cc:46` excludes.
  `BodyCompleteAtDispatch` in `RestServer` states what does not hold.
* **Flush of ZlibOutputBuffer** writes everything only with `SYNC_FLUSH`: with the default mode
  `deflate` keeps what it likes, and `FlushWritesEverything` does not hold
  (`zlib_outputbuffer.h` says "writes all output to file").  After an append that failed,
  `next_in` may be left in the caller's data (`NextInInBuffer`).
* **BufferedInputStream** counts on the stream below to deliver nothing with an error.  With
  one that delivers a part, `ReadsTheNextBytes` does not hold: the part is lost and later
  reads are at the wrong offset.
* **Arena**: `assert(remaining_ <= block_size_)` (`arena.h:46`) does not hold after a block whose
  size was rounded up (`RemainingWithinBlockSize`).
* **Histogram::Add** of a value at or past the last custom limit adds to a bucket behind the
  end of `buckets_` (`histogram.cc:63-66`); the model adds smaller values only.
* **Table::InternalGet** of a key in the gap between the last key of a block and its separator
  finds the wrong block, hence nothing, which is right, since no such key exists.
* **InlinedVector::insert** of a reference to an element behind the position stores the
  shifted element; `ScopedLatency` records again after it has been moved from; `p = new X` on a
  `scoped_refptr` keeps one count too many; `ZlibInputStream::Reset` initialises without
  `inflateEnd`.
* After a CR without LF in a header value `header_almost_done` goes back to
  `header_value` without a mark (`http_parser.cc:1728`): the rest of the value in that buffer is
  not reported, while in the next buffer it is.  `BytesReported` exempts such a value.
* The fast-forward after an opening quote (`http_parser.cc:1624`) passes over backslashes, so
  whether a CR after one ends the value depends on how much input follows in the buffer.
* "CONNECT requests can only contain hostname:port" (`http_parser.cc:2317`) is tested on the
  set of fields found: `@host:port` and `host:port?#` pass too.  `UrlSplit` states exactly
  what passes.
* `http_parser_execute` lets a CONNECT have a path after its host, which
  `http_parser_parse_url` then refuses.
* For a URL that is only a schema, `http_parse_host` reads the offset and length of a host that was
  never set; the callers zero the result first.

## 6. Not modelled, and why

* In the log: a power failure that loses Puts written without sync.
* The `ResponseWriter`'s reference to a context that is gone once `Schedule` has returned:
  `garbled` marks writes from it, but nothing in the repository states the lifetime, so there
  is no property.
* In `ParallelFor`: nested calls from `f`, and the conversion of costs beyond the range of
  `int64`/`int`; `Enqueue*` only bind arguments.
* A handler that calls back into its own chain, which would block on `mu_`.
* In the HTTP parser: `http_should_keep_alive`, `http_method_str`, `http_errno_name` and
  `http_errno_description`, which change no state; strict mode, which is not built; how `index` advances.
  `base/http/c` is the C version of the same code.
* `rest_async_server.cc`, the single-file prototype of `server/`.
* Metrics published from the base class's constructor (`metric.h:74`): a matter of C++ object
  lifetimes, about which the repository says nothing.  Registration, gauges and `Latency`.
* Averages and deviations of `Histogram`, the floating-point distributions and the generators of
  `base/random`: arithmetic on doubles or 64 bits without state to get wrong between calls.
* Codings, `base/strings`, hashes: pure conversions.  The varint that matters, cut by the
  end of a buffer, is in `InputBuffer`.
* Operating-system wrappers, vendored and generated code, OpenSSL: no protocol of their own.
  Together with the unit tests and the C copy of the HTTP parser they are most of the
  repository's lines.

## 7. Plan

What is left is to prove what is now only checked, in this order:

1. `Table` as a `SortedMap`: `TableInv` with, of an open iterator, the entry it stands at and, while
   it skips blocks, the entry the call is looking for.
2. `TopN`: what it keeps, drops and answers are permutations of what was pushed, sorted by
   `SortSeq`, of which the provers' library states nothing.
