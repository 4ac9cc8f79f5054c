# A verification of waltier

waltier keeps a totally ordered log in one small object of an object store (the
*WAL image*), which every append rewrites with a compare-and-swap on its ETag.
Old entries are folded into immutable snapshot objects by background threads.
There is no leader and no lock: correctness rests on the order of conditional
PUTs, on what each handle believes about the image it last saw, and on never
deleting a snapshot that some image can still name. This directory holds TLA+
modules of that protocol, of the stores under it and of the examples on top of
it, TLC runs of small instances, and TLAPS proofs for all instances of the core.

Contents: [inventory](#inventory) · [modules and the code](#modules-and-the-code) ·
[runs](#runs) · [proofs](#proofs) · [only model-checked](#what-is-only-model-checked) ·
[not modelled](#what-is-not-modelled) · [plan](#plan) · [using it](#using-it)

## Inventory

| Component | State | Operations | Hard behaviours |
|---|---|---|---|
| WAL image (`src/image.rs`) | optional snapshot reference, live entries; LSNs are implied | `first_lsn`, `next_lsn`, `entries_from`, `encode_view`, `decode` | off-by-one between fold LSN, positions and LSNs; limits; LSN exhaustion at `u64::MAX` |
| `Core` (`src/wal.rs`) | image, ETag, application state, cache | `open`, `refresh` | a snapshot disappears between the GET of the WAL and its own GET; entries folded away before the handle saw them |
| `WalTier` writer (`src/wal.rs`) | `Core`, compaction status with a ready fold, delete queue | `write`, `write_batch`, `refresh`, `flush`, `close`, `compact_now`, `wait_for_compaction`, `compaction_status`, `take_compaction_error`, `collect_garbage`, drop | lost CAS and reconciliation; PUTs without an answer; a fold that was installed although its PUT reported failure; a full delete queue |
| `Replica` (`src/wal.rs`) | `Core` | `open`, `refresh` | opened before the WAL exists; lagging behind several folds |
| Compactor thread (`run_compaction`) | base key, copied entries | fetch base, `compact`, create-only upload | outlives its handle; base deleted by another writer; upload without an answer |
| Object store contract (`src/store.rs`, `src/error.rs`) | objects and ETags | conditional GET, conditional and create-only PUT, DELETE | ETags that repeat with the content; mutations applied after their failure was reported |
| `MemoryStore` (`src/store.rs`) | map, ETag counter | the same under a mutex | `put` draws its ETag outside the lock |
| `FsStore` (`src/store.rs`) | files, root marker, lock, mutex | `new`, the same with temp file and rename | competing processes; a crash or power loss between two file operations |
| `S3Store` (`src/s3.rs`) | credentials, HTTP agent, limits | the same over HTTP | which status is a definite rejection; deadlines; oversized bodies |
| Cache (`src/cache.rs`) | cached image and snapshots on disk | load, save, retain, remove, `write_atomic` | stale or foreign records offered at open; threads and restarted processes sharing temporary names |
| Application callbacks (`src/lib.rs`) | application state | `apply`, `restore`, `compact`, `should_compact`, `reconcile`, `reconcile_batch` | any decision at any time; an abort after rewrites; failure of `compact` |
| Simulated store (`src/sim.rs`) | fault plan, counters | inject faults around another store | a fault must say whether the operation happened |
| Group commit (`examples/group_commit.rs`) | bounded channel, stop flag, writer thread, receipts | submit, batch, stop, drain | a submission that races the stop; shutdown with work queued; blocked producers |
| Key-value and batch examples (`examples/kv.rs`, `examples/batch.rs`) | map; next id | callbacks of two applications | folds of folds; dependent entries after a conflict |

Handles never talk to each other. They share the WAL object (through
conditional PUT) and the snapshot objects (created by compactors, read by
everyone, deleted by writers). A writer and its compactor share one channel, on
which the compactor sends its outcome. Callers see return values and `state()`.

What makes each part correct:

* image: a fold and a batch change neither the LSN nor the content of any
  entry, and the image a writer edits in place is the one it sent;
* open and refresh: the state is the replay of a committed prefix, it never
  steps back, and a lost race is not reported as corruption;
* append: an acknowledged LSN keeps its entry for ever; `NotApplied` is true
  for good; nothing is committed twice;
* compaction and cleanup: a snapshot that can still be named is never deleted;
  a snapshot out of use is deleted, tracked or counted;
* cache: a published record is whole and true, a record of another log is a miss,
  and a warm open is as current as a cold one;
* stores: a result is that of one moment within the call, an error says whether
  the mutation may have happened, and equal ETags mean equal bytes; a directory
  is reopened under its own identity or refused;
* codec: an image is written only if it can be read back, and only bytes that
  some writer would write are read;
* group commit: every accepted entry is answered once and truly; what a producer
  has in the log is an initial part of what it submitted;
* all methods: they return, and every cache write ends.

## Modules and the code

| Module | Models |
|---|---|
| `WalImage` | `src/image.rs` without the byte layout: images, LSN arithmetic, `entries_from`, `encode_view`, and the in-place edits of `install_pending_fold` and `append` |
| `WalTier` | `src/wal.rs` over the store contract: handles, compactors, the store, late requests |
| `AppendLog` | the abstract specification: one growing log, committed prefixes, acknowledgements |
| `MCWalTier` | the instances for TLC: symmetry |
| `Cache` | `src/cache.rs` and what `Core` and the compactor do with it, over a reduced store |
| `MCCache` | its instances for TLC |
| `StoreOps`, `ObjectStore` | the vocabulary of the store interface, and what the `ObjectStore` trait promises, as an abstract specification |
| `S3Store` | `src/s3.rs` between its callers and an external server |
| `SimStore` | `src/sim.rs` around `MemoryStore` |
| `FsStore` | `FsStore` of `src/store.rs`, file operation by file operation |
| `ImageCodec`, `MCImageCodec` | the bytes of `src/image.rs`, with smaller integers |
| `GroupCommit` | `examples/group_commit.rs` and the default `reconcile_batch` |
| `Allocator` | `examples/batch.rs` |
| `WalTierProofs` | the operators of `WalImage`, types, the precondition of `try_install`, no ABA on the ETag chain; durability, committed prefixes, garbage, no false corruption; the ledger of entries and the refinement of `AppendLog` |
| `ImageCodecProofs` | decode accepts exactly what encode writes |
| `FsStoreProofs`, `SimStoreProofs`, `S3StoreProofs` | the invariants of the stores and the refinements of `ObjectStore` |
| `GroupCommitProofs` | truth of the receipts, the backlog, the report, the order of commit |
| `AllocatorProofs` | dependent batches always fit |
| `CacheProofs` | whole frames, true records, true and fresh views |

### Granularity

One step is one call to the store together with the code up to the next call:
exactly the points at which the world can change under a thread. `pc[h]` names
the call that a handle makes next. `refresh` is thus two steps when it needs a
snapshot, `append` is one step per CAS, per refresh and per reconciliation
decision. Code that runs between two calls (`record_image_put`,
`install_pending_fold`, `discard_superseded_fold`, `queue_obsolete`, the
re-check of the fold) belongs to the action of the call before it.

| Code | Definitions |
|---|---|
| `Core::open` | `OpenGet`, `OpenPut`, `OpenSnap` |
| `Core::refresh`, `WalTier::refresh`, `Replica::refresh` | `Refresh`, `RefreshGet`, `RefreshSnap`, `Adopt`, `Proceed` |
| `record_missing_snapshot` | `MissingSnapshot` |
| `append`, `try_install` | `Write`, `TryInstall`, `AppendAccepted`, `PutRejected`, `PutFailed`, `PutUnknown`, `Reconcile` |
| `flush`, `close` | `StartMaintenance`, `WaitForCompaction`, `FlushStep`, `FlushAccepted`, then the steps of `collect_garbage` |
| `collect_garbage` | `GcDelete`, `GcDone` |
| `sync_compaction`, `integrate_compaction`, `finish_compaction`, `discard_superseded_fold` | `SyncCompaction`, `Integrated`, `DiscardSuperseded`, `DiscardedKey` |
| `compact_now`, `maybe_trigger_compaction`, `spawn_compaction` | `CompactNow`, `MayCompact`, `SpawnCompaction` |
| `run_compaction`, `publish_snapshot` | `JobFetch`, `JobPublish` |
| drop of a handle, death of its process | `Drop` |

### How the data is abstracted

* **ETags are images.** The contract in `src/store.rs` lets an ETag repeat for
  identical content. Taking the content itself as the ETag is the weakest
  validator the contract allows: a stale CAS succeeds whenever the bytes are the
  expected ones again. `MemoryStore` and `FsStore` have stronger ones.
* **Payloads are numbers**, all different, in the order in which callers submit
  them, so that properties can tell entries apart. A reconciliation that
  replaces a batch submits new ones.
* **A snapshot key** `snap/<lsn>-<random>` is the record `[lsn, id]`, where the
  id is the number of the compaction. Fresh names are therefore distinct; a
  collision of random names is one of the answers a PUT can get.
* **The application state** is the sequence of applied entries. `compact` is
  concatenation and `restore` its inverse: the contract of `WalApp`, for the
  application that forgets nothing.
* **Callbacks** may decide anything: `should_compact` either way,
  `reconcile_batch` abort, retry or replace by any number of entries.
* **Limits**: the live-entry limit stands for the limits on an image, which are
  checked at the same place with the same effect. All handles have the same
  options.

### Failures

`Fault` marks a step in which the store fails, or chooses an answer it is free
to choose. A PUT that fails definitely ends the method with `NotApplied`
(`PutFailed`). A PUT without an answer (`PutUnknown`) is put into `inflight`,
and `LatePut` carries it out at any later time at which its ETag matches, or
never. Unanswered DELETEs and uploads are treated alike (`doomed`, `LateDelete`;
job state `"unknown"`, `LateUpload`). A 409 is a rejection although the ETag is
current (`PutRejected`), or although there is no object yet (`OpenPut`). A failed GET ends `open` and `refresh`; after a
rejected CAS that is still `NotApplied`. A compactor fails because its base is
gone, its callback fails, its names collide too often or its upload fails.
`Drop` ends a handle at any point with the request it was sending on its way;
its compactor goes on, or never takes another step.

The result of a compactor is taken over as soon as the writer looks. That
`try_recv` may miss a result that has just been sent changes nothing: the send
can be counted as later, and no other step depends on it.

The observers `history`, `acked`, `denied`, `corrupt` and `lossy` record what
the store accepted and what callers were told; no guard reads them.

### The local cache

`WalTier` leaves the cache out; `Cache` models it over a store reduced to the
versions of each WAL object, because what the cache can get wrong is which bytes
it serves for which log, key and ETag. It has several logs (`Wals`: namespace and
WAL key, the identity of a record) whose handles share one directory. Version n
of every WAL has ETag n, snapshot keys occur in several stores, and `NameOf` may
send all keys to one file, so that nothing but the identity in the record tells
logs and keys apart.

`write_atomic` is one step per system call: exclusive creation of the temporary
file (retried under the next number), header, body, rename, or a failure that
removes the temporary file. Two threads of a handle, `main` and `job`, are in it
at the same time. `Crash` leaves temporary files behind, and the next process has
the same id and a fresh `NEXT`: the worst case. A checksum is modelled by what it
tells: a file is accepted iff it is one header followed by the body it was made
for. That a damaged frame never has the right checksum by chance is an
assumption. `Damage` is damage from outside, within a bound; it leaves `Torn`,
which no step of `write_atomic` writes, so that an empty or half written file is
told from a damaged one. A handle is opened again when its detached compactor has
ended; a compactor beside a newer handle is the case of two handles of a process.

| Code | Definitions |
|---|---|
| `write_atomic_with` | `CreateTemp`, `WriteChunk`, `Rename`, `WriteFails` |
| `read_checked`, `load`, `load_wal`, `load_snapshot` | `Checked`, `Load`, `LoadWal`, `LoadSnapshot` |
| `save`, `save_wal`, `save_snapshot` | `Save`, `SaveWal`, `SaveSnapshot` |
| `remove_snapshot`, `retain_snapshot` | `RemoveSnapshot`, `RetainSnapshot` (the sweep is one step) |
| `fetch_snapshot` | `Fetch`, `Gone` |
| `Core::open` with the cache | `Open`, `OpenGet`, `OpenCreate`, `OpenMissing`, `Restore`, `OpenAgain`, `Opened` |
| `record_image_put`, `checkpoint_cache` | `RecordImagePut`, `CheckpointCache` |
| `Core::refresh` | `RefreshGet`, `NotModified`, `Restore`, `RefreshAgain`, `Adopt` |
| `run_compaction`, `discard_superseded_fold` | `JobBase`, `JobUpload`, `JobFails`, `Discard` |
| `try_install`, `install_pending_fold` | `Commit`, `CommitUnanswered`, `Installed`; `Encoded` is what is sent and `Edited` what the handle keeps |

The budgets of the retry loops and the race of two creators are in `WalTier`;
here a retry may go on or give up. `Remote` and `Collect` are writers on other
machines. Every failure of the cache is a miss: no action of the store depends
on one.

### The stores

`ObjectStore` states the contract that `WalTier` builds on. A call of a client is
open until it takes effect (`Serve`) and then served until it is answered. An
answer other than an error is the result of the moment of `Serve`; `NotApplied`
and `PreconditionFailed` are only said of calls that had no effect and will have
none; after `Unknown` the request may be in `late` and take effect at any time.
An ETag that a key has had before must come with the same body. The failure
actions of `WalTier` are this contract seen from its caller. Each store has the
property `KeepsContract`: its specification implies this one, with its objects as
`obj`.

* `S3Store`. The server is external and may do anything that HTTP lets it do
  except serve a request twice: serve it now or late, answer truly, without an
  ETag, with an error after serving, with an error, a redirect, a 409 or a stray
  304 without serving, or not at all. That nothing between client and server
  repeats a PUT is an assumption (an unconditional PUT is not protected from it;
  a conditional one is). The agent's connection reuse is part of it. ETags are
  those of the content. Deadlines are the step `GiveUp`, possible at any time.
* `SimStore` with `MemoryStore` inside. `MemoryStore`'s critical sections are one
  step each; `put` is two, since it draws its ETag before it takes the lock. The
  random generator is a choice while faults are switched on; the one-shot fault
  names a key.
* `FsStore`. `new` is one step each for opening the marker, locking, reading and
  writing it; an operation is lock, read, temporary file, rename, return. A file
  operation may fail, a process may crash (its OS lock is released, and a marker
  being written may be cut short), and the power may fail, after which the marker
  is missing, empty, cut short or intact, and an object is gone, cut short, or
  any version that its file has held since the power last failed (`kept`: what one
  failure took does not come back with the next). The code does not
  sync and promises no durability then, so in `KeepsContract` the power failure
  itself is the one step that need not be a step of the contract; every step
  before and after it must. What must survive is that no root is taken for another
  (`IdentityHolds`) and no cut file for an object (`ReadsTrue`). The frame of an
  object is recognised by its length field, so a file with the right length and
  other bytes is outside the model.

| Code | Definitions |
|---|---|
| `cas_matches`, `get_if_changed` | `CasMatches`, `CondGet` |
| `send_put`, `Upload::read`, `read_body` | `Send`, `GiveUp`, `Receive` |
| `get_if_changed`, `put_if_match`, `put`, `delete`, `etag_of`, `store_error` of S3 | `ClassifyGet`, `ClassifyPut`, `ClassifyDelete`, `WithETag`, `StoreError` |
| `roll_clean_fault`, `roll_ambiguous_fault`, `count` | `RollCleanFault`, `RollAmbiguousFault`, `Count` |
| `MemoryStore` | `MemoryGet`, `MemoryPutIfMatch`, `MemoryFreshEtag`, `MemoryPut`, `MemoryDelete` |
| `FsStore::new` | `OpenMarker`, `TryLock`, `ReadMarker`, `WriteMarker` |
| `read_object`, `write_object` | `ReadObject`, `Read`, `WriteTemp`, `Rename` |

### The bytes of an image

`ImageCodec` keeps every check of `encode_view` and `decode` in their order and
scales the integers: a cell has `Base` values instead of 256, a `u32` has `W32`
cells, a `u64` has `W64`, and the magic is one cell. Narrowing casts drop high
cells as in the code. The WAL object starts as *any* string of cells; a handle
that can decode it goes on to append and fold, and edits its image in place as
`install_pending_fold` and `append` do. The abstract image of `WalImage` has the
same operations on entries. Early returns are `IF` chains: several refusals can
apply at once, and the first one counts.

### Group commit

Producers, channel, writer and receipts are as in the example: the flag is read
before the channel is reached, `try_submit` falls back to `submit`, the writer
takes what is there up to `max_batch`, and a failed batch raises the flag before
its receipts are answered. `write_batch` is seen through its store calls on a log
that another process also writes: accepted, rejected (also spuriously), failed,
or unanswered with the request landing now, later or never. A producer that gets
an error either ends, as in `main`, or goes on, as the tests do. A callback may
panic, before or after the commit: the thread unwinds and the channel goes with
it. The run lets `reconcile` replace or abort, entry by entry: a retried entry
differs from a replaced one only in its revision, which no guard reads. `main`'s
own exit after a producer's panic ends the process and is left out;
so is the error of the final `close`, which replaces the report.

| Code | Definitions |
|---|---|
| `prepare`, `submit`, `try_submit` | `Prepare`, `Send`, `TrySend` |
| producers of `main` | `StartSubmit`, `FallBack`, `Receive`, `Finish` |
| `run_writer` | `Take`, `StartWrite`, `Commit`, `Fail`, `Reply`, `Close` |
| `write_batch` as the adapter sees it | `Commit`, `WriteFails`, `WriteUnanswered`, `Conflict`, `Reconcile` |
| `WalApp::reconcile_batch` | `ReconcileBatch` |

### Dependent batches

`Allocator` is the batch example: ids are dependent, `apply` asserts that each is
the next one, and `reconcile_batch` rebuilds the whole batch. The log is the
abstract one, with conditional PUTs that may land late.

## Runs

The runs of `WalTier` and `Cache` check for deadlock. The others stop when the
bound on calls is reached; there the liveness properties say that nobody is left
waiting. One run asks everything that its instance can answer.

| Run | Instance | Checks |
|---|---|---|
| `two_writers` | 2 writers, 3 entries, at most 2 live, 3 compactions, delete queue of 1, no faults | `TypeOK`, `AckedDurable`, `FoldFits`, `ViewsAreCommitted`, `NeverCorrupt`, `WalAdvances` |
| `unanswered` | 2 writers, 2 entries, 3 compactions, delete queue of 1, 1 fault | `Recoverable`, `GarbageStaysDead`, `NotAppliedNeverLands`, `AppliedOnce`, `DebtReported` |
| `crashes` | 1 writer, 1 replica, batches of up to 2, 2 compactions, 1 fault, 1 drop | `KeepsPromise` |
| `progress` | 2 writers, 2 entries, 1 compaction, 1 fault, fair | `MethodsReturn` |
| `group_faults` | 2 producers with 2 entries, channel of 1, batches of 2, window of 2, 2 attempts, 1 foreign write, 1 fault, 1 panic, fair | `ReceiptsTrue`, `ErrorsShowTheAttempt`, `PrefixCommitted`, `BoundedBacklog`, `DrainedAtEnd`, `ShutsDown` |
| `bytes` | cells of 4 values, counts up to 3, LSNs up to 15, objects of up to 10 cells, images of up to 9 cells and 2 entries | `CanonicalBytes`, `EditedAsWritten`, `NoOverflow`, `EncodeIffReadable` |
| `s3_server` | 2 clients, 1 key, 3 bodies of which 1 is too large, 3 calls, fair clients, no assumption on the server | `BodiesBounded`, `KeepsContract`, `CallsReturn` |
| `sim_faults` | 2 threads, 2 keys, 2 bodies, 3 calls, 1 targeted fault | `StatsAccount`, `KeepsContract`, `AmbiguousMeansExecuted` |
| `fs_faults` | 2 processes with 2 threads, 1 key, 3 opens, 2 calls, 1 failed operation, 1 crash, 2 power losses, fair | `Reopenable`, `IdentityHolds`, `ReadsTrue`, `KeepsContract`, `OperationsReturn` |
| `allocations` | 2 writers, batches of up to 2, 5 ids, 2 requests on the way | `EveryIdIsNext` |
| `cache_threads` | 1 writer with `OnFlush`, 3 versions, 2 keys with one file name, 1 compaction, 1 crash or drop, 1 damaged file, fair | `FilesWhole`, `RecordsTrue`, `FreshViews`, `SavesEnd` |
| `cache_shared` | 2 replicas of 2 logs, one with each policy, up to 4 versions of a log and 6 in all, 2 keys with one file name | `TrueViews` |

* `two_writers` shows that the CAS fences stale writers while folds ride on
  appends: an LSN that was returned keeps its entry, a ready fold always
  matches the image it is installed in, and the WAL object never returns to an
  earlier image (without which a stale ETag could match again). Each writer also
  reads between the GET of the WAL and the GET of the snapshot while the other's
  folds and cleanups go by: three rounds (`MaxRaces`) and three folds are needed
  for a reader to miss two *different* snapshots, the case that
  `record_missing_snapshot` must not confuse with corruption.
* `unanswered` is about the store's uncertain answers. The decisive case is a
  fold whose PUT lands although it was reported as a failure: treating it as
  superseded would delete the live snapshot (the mutant of `GarbageStaysDead`
  does so). With three folds more snapshots fall out of use than the queue can
  hold, also while a deletion has failed or is under way (`DebtReported`).
* `crashes` checks the refinement of `AppendLog`: with `log` the state that a
  cold open would rebuild and `view` what each handle shows, every step is a
  step of the abstract log or changes nothing there. Folds, cleanup, crashes
  and late requests are invisible to callers.
* `progress` shows that methods return under the fairness below: two writers
  lose CAS races to each other and to a store that refuses without reason, and
  a compaction fails or is not answered under a waiting `flush`. With one
  compaction no snapshot goes missing under a reader. That loop ends because
  each round counts towards `MaxRaces`; a run with a bound on compactions bounds
  it in any case and could not tell. `two_writers` has the states of that loop.
* `cache_threads` interleaves the system calls of a writer and its compactor,
  through a crash and a restart: exclusive creation keeps their frames apart, a
  checkpoint of an image that the handle edited itself is the version its ETag
  names, and the conditional GET makes a warm start current. The lost answer of
  a CAS (`CommitUnanswered`) leaves an image and a fold that the next refresh
  must sort out.
* `cache_shared` lets two logs overwrite, sweep and read each other's files. Four
  versions are needed for a snapshot to be replaced and collected while a replica
  is about to fetch it; with six in all the other log has two or three.
* `group_faults` shows that a receipt's answer is true and stays true: the LSN is
  that of its own entry although foreign entries and retries shift batches, and
  an entry answered `NotApplied` after the stop is not in the log and cannot get
  there, although the batch that failed before it may still land. Each producer's
  entries in the log are an initial part of its submissions, in order.
  All threads end, also when the writer has stopped or panicked with producers
  blocked on the channel.
* `bytes` starts from every string of up to ten cells. With four values a cell,
  every check of `encode_view` and `decode` fails on some string and passes on
  another, a key and an entry of four cells do not fit their length, and the LSNs
  run out after 16.
* `s3_server`, `sim_faults` and `fs_faults` check the refinement of
  `ObjectStore`. Two or three calls of two clients are enough for a
  compare-and-swap that another one overtakes, and for a call after an uncertain
  one. Calls return though the server is silent, and an operation that failed or
  a thread that died does not keep the mutex.
* `fs_faults` opens a root three times, by two processes, around a crash and two
  power losses, the second of which meets what the first has left. One body is
  enough: each version has its own ETag.
* `allocations` commits late batches between the prepare and the CAS of others.

Bounds. Two writers are enough for each pairwise race; the third party, where
there is one, is a late request or a compactor, both of which act on their own.
Two folds are needed for a fold to replace another's snapshot, three for a
reader to miss two and for a queue of one to overflow. One fault suffices for
each single uncertain answer followed by arbitrary correct steps. `MaxAttempts`
and `MaxRaces` are at least two where retries matter, so that both the retry
and the exhausted budget occur.

Fairness. A method that has begun is scheduled and its store calls return, with
an answer or an error (`WF` of the steps of a running method); a compactor
thread is scheduled (`WF` of its steps). The code has the same assumptions: it
runs on OS threads, and the HTTP agent has timeouts. There is no fairness for
beginning a method, for late requests, for drops or for faults, and only weak
fairness is used: a CAS may lose every time. `MethodsReturn` therefore rests on
the budgets of the loops and on the compactor's end reaching `flush`. `SavesEnd`
assumes that a thread inside `write_atomic` is scheduled and nothing else: a
crash ends its writes too. `group_faults` assumes weak fairness of each
producer thread and of the writer thread, whose store calls return.
`s3_server` assumes that callers run and that a deadline expires, for which
the connect timeout, the agent's timeout and `Upload` stand, and nothing about
the server; that an executing system call can overrun a deadline, as the code
says, only delays it. `fs_faults` assumes that a thread inside the store is
scheduled, and needs no strong fairness of the mutex: with finitely many calls a
thread that waits for it is let in at last.

Mutants. Every property is paired with a plausible bug of the code (a skipped
entry, a forgotten re-check, a lost precondition, an uncertain answer taken for
a definite one) under which the same run reports its violation; the operators
marked `mutant` are used for nothing else.

## Proofs

The proofs hold for every set of writers, replicas and producers, every limit and
every number of entries, compactions, faults, panics and drops. They assume only
the named assumptions of the modules: `None` is no image, no handle is both a
writer and a replica, and the options are natural numbers, positive where
`Options::validate` asks for it; in the examples, that a batch, the channel and the
attempts have at least one element and that the number of entries of a producer
is a natural number; in the stores, that the markers for nothing, an empty, a torn
and a broken file are different from each other and from what is stored, that the
bodies over the limit are bodies, and for the counters of `SimStore` that the
clients are finitely many.

* `WalTierProofs`, on images. `EntriesFromProperties` and `EncodeViewProperties` say which
  entry each position of the result holds and which LSNs it spans.
  `InstallMatchesView`: popping the folded entries, swapping the reference and
  pushing the batch yields exactly the image that `encode_view` built. This is
  what allows the code to keep its image instead of decoding what it sent.
* `WalTierProofs`, on types: **`TypeCorrect`** (`Spec => []TypeOK`) and **`FoldAlwaysFits`**
  (`Spec => []FoldFits`). Types are not inductive by themselves: a candidate
  image is well formed only if the fold in it covers live entries, and a restored
  state only if the image whose snapshot is fetched was read. The invariant
  `TypeInv` adds three facts: a ready fold *always* applies to its handle's
  image, not just when a PUT is prepared (`ReadyApplies`: each method that moves
  the image re-checks it); a handle that fetches a snapshot knows for which
  image (`GotKnown`); a handle that is being opened has no fold
  (`OpeningIdle`). `FoldFits` follows from the first.
* `WalTierProofs`, on the chain: **`ChainAdvances`** (`Spec => WalAdvances`). The invariant
  `ChainInv`: a handle that holds an ETag holds the image it stands for
  (`ViewHeld`, by `InstallMatchesView`); a PUT is prepared only with entries or
  with a fold (`CasMoves`); a request on its way moves forward from the image it
  expects (`LateMoves`). With `TypeInv`, each PUT that succeeds, at once or
  late, is strictly newer than the image it replaces.

* `WalTierProofs`: **`AlwaysRecoverable`**, **`AcksAreDurable`**,
  **`HandlesShowPrefixes`**, **`GarbageIsDead`** and **`NeverReportsCorrupt`**,
  all from one invariant, `SafeInv`. None of the five is inductive: that the WAL's
  snapshot is stored depends on what compactors have published, what is queued
  for deletion and what a late PUT may still install. `SafeInv` says:
  * every image that a handle, a fetch or a request holds was the WAL's at some
    time (`Past`): it agrees with `history` entry by entry and names the
    current snapshot or one that is behind it for good;
  * a snapshot object holds the prefix of `history` that its key names;
  * a snapshot is *dead* once the WAL names another at or above its LSN; only dead
    ones are queued or on their way to deletion, and what may still be installed
    (a ready fold, the data of an unanswered PUT) is stored or dead (`Kept`).
    As references only move forward, dead stays dead: the step from there to
    "never deleted too early";
  * a handle whose fetch failed remembers an image whose snapshot is dead, so
    that the next image it reads is another one, which is why
    `record_missing_snapshot` cannot see the same one twice;
  * a request continues the image it expects by what it carries.

  The parts are predicates of the values they speak of (history, WAL object,
  names of the snapshots), and one lemma says which changes of these keep them, so
  that each action only argues about what it assigns.
* `WalTierProofs`, on what callers see: **`CommittedOnce`**, **`DeniedNeverLands`** and the refinement
  **`PromiseKept`** (`Spec => KeepsPromise`, the specification of `AppendLog`
  under the mapping of `WalTier`). `LedgerInv` adds to `SafeInv` that
  each submitted entry is in at most one of the history, the denied ones, the
  batch of one running method and one unanswered request. For the refinement each
  action either settles what its method owns (a commit, a denial) and leaves the
  views alone, or shows one handle a later prefix; both are steps of
  `AppendLog`, and all others leave the mapped variables as they are.
* `WalTierProofs`, on the accounting of garbage: **`DebtsAreReported`**
  (`Spec => []DebtReported`). `Untracked` accepts a snapshot because an idle writer's
  stale image names it, and that writer may go away, so it cannot be counted step by
  step. `DebtInv` counts more: every snapshot out of use (`Spent`) that is in no queue,
  not on its way to deletion, no compaction's fold and not the base of a fold
  that is ready (`Loose`). A step of a handle adds to them at most what it counts
  in `garbage_overflowed` (`Turns`, `QueuePays`). The other parts say why no other
  step adds any: a compactor has an owner that waits for its fold (`JobsOwned`), a
  running fold is named nowhere else and its id is new (`FoldsPrivate`, `IdsIssued`),
  and an unanswered PUT that can land and installs a fold has its writer waiting
  with that fold and the image it replaces (`LateOwned`), which is why
  the handle must keep the fold after `MutationOutcome::Unknown`.
* `GroupCommitProofs`: **`AnswersStayTrue`**, **`ErrorsCarryTheAttempt`**,
  **`BacklogIsBounded`**, **`EndsDrained`** and **`CommitsInOrder`**. `TruthInv`: an accepted id is in
  exactly one of the channel, the writer's batch and the answered ones while the
  writer lives, and in at most one after (`PlacesOK`, which needs that each
  producer's ids are below its counter, `NumbersOK`); what may still be answered
  `NotApplied` is neither in the log nor in an unanswered request (`DenialsOK`);
  a handle whose version is current has the length of the log (`ViewOK`), hence the
  range of a committed batch is where its entries are (`RangeOK`); the open
  receipts of a batch are its last entries (`Aligned`). `BacklogInv` follows from
  the places while the writer receives and stays afterwards because nothing is
  accepted or answered any more; `CountInv` ties the report to the answers
  given and the receipts of the batch still open. For the order of commit,
  `OrderInv`: while the adapter runs, log, batch and queue are one line that holds
  everything accepted, and in which whatever was accepted before an entry from the
  same producer stands in front of it (`Fits`); after the stop only
  the one unanswered batch can land, and only behind the log it was meant for.
* `ImageCodecProofs`: **`AcceptsOnlyWritten`**, **`EditsAsWritten`**,
  **`LsnsStayInRange`** and **`WritesOnlyReadable`**, for every base above two, every
  width, all limits that `Options::validate` admits, and objects of any length. The invariant
  `CodecInv` is short: the object is a string of cells, and an open handle's image is
  what it decodes to. The work is in two lemmas about all byte strings and all
  images. `DecodedAt`: what decode accepts is the layout of what it returns.
  `EncodedRead`: the layout of an image that passes the checks of `encode_view` is
  accepted and returns the image. Both speak of what stands at a position of the
  object (`At`), piece by piece, and rest on the facts that `to_le_bytes` and
  `from_le_bytes` undo each other on numbers that fit (`ReadsBack`, `WritesBack`).
  The module's recursive functions (powers, sums of cells, the entries one behind
  the other, the ends of entries) are shown to exist and to obey their equations by
  induction on a set of naturals (`Induct`, from the library's well-foundedness of `<`;
  a set needs no operator parameter). Assumed of the constants besides
  the options: payloads are strings of cells, and the names of snapshots are
  UTF-8, as a `String` is.
* `AllocatorProofs`: **`IdsAreNext`**. A batch is right for one length of the log,
  the one its writer saw or its PUT is conditional on (`AllocInv`).
* `CacheProofs`: **`WholeFrames`**, **`CacheTellsTruth`**, **`ViewsAreTrue`** and
  **`ViewsAreFresh`**, from the invariant `CacheInv`. A thread past the exclusive
  creation of its temporary file is the only one with that name, also against
  files that dead processes left, and the file holds what its stage of
  `write_atomic` has written (`WriteOK`, `DiskOK`): so a rename publishes a whole
  frame. A record is true when a write of it begins (`TrueRec`) and, as versions
  are never rewritten, stays true; for `checkpoint_cache` this needs that the edit
  of the handle's own image comes to the image the CAS published
  (`EditIsEncode`). What a handle has read is a version of its own log at or
  after the one the call began with, and what it restored is a snapshot that one
  of the versions up to there names (`HandleOK`). The proofs also assume what
  the module says of its constants: a cached snapshot never has the name of
  the WAL file, and `None` is no key. Two keys, also of two logs, may share a name.
* `FsStoreProofs`: **`IdentityKept`**, **`NeverLockedAway`**, **`ReadsAreTrue`** and
  the refinement **`FsKeepsContract`**, from `FsInv`. Who is past the lock is its
  holder, an identity is written only into a root without objects, and who has the
  store open has the marker's identity (`HandlesOK`); objects are of the identity
  of the root, those included that the next power failure could bring back
  (`RootOK`, `FilesOK`); a thread inside has the mutex, hence what `put_if_match`
  compared still holds when it renames (`CallOK`). In an earlier version of
  the model a power failure could bring back versions that an earlier one had
  taken, and `RootOK` was not inductive; `kept` is the correction.
* `SimStoreProofs`: **`SimKeepsContract`**, **`StatsAddUp`** and
  **`UnknownMeansExecuted`**, from `SimInv`. A `put` that has drawn its ETag and
  not yet stored its body is overtaken by others; its ETag is below the counter,
  not stored and not drawn by another call (`Drawn`). The counters differ from the
  answers by the mutations that were executed and wait for their answer, a sum
  over finite sets of clients.
* `S3StoreProofs`: **`S3KeepsContract`** and **`BodiesStayBounded`**, from `S3Inv`.
  What the client makes of each possible answer on the wire is honest
  (`Honest`): of a served request it is the result it had or an error, of
  one turned away an error or, for a conditional put, a refusal. What the
  server does is left open, except that it serves a request at most once.

  In the three refinements the linearization point is the step that
  serves the call (the rename, the critical section, the server's step); the others
  leave the abstract store as it is.

Each proof has one case per action of `Next`, on lemmas for the parts that
actions share (returning, adopting an image, a round of append, a winning PUT).
TLC has checked each of these invariants on small instances before it was proved.

## What is only model-checked

Liveness (`MethodsReturn`, `SavesEnd`, `ShutsDown`, `CallsReturn`,
`OperationsReturn`) is beyond the prover. Every invariant, action property and
refinement of the runs is proved.

## What is not modelled

* The byte budgets of cache reads, and a directory that cannot be created (the
  cache is then disabled, which is `WalTier`).
* `usize` overflow while the size of an image is computed: its parts are in
  memory already, so no state of the program reaches it.
* S3 signing, URLs and HTTP parsing; the path that `FsStore` makes of a key (hex,
  hence injective); latency and byte counters of the simulated store; the
  statistics and `tip`, `garbage_status`, `keys` and the like, which only read.
* Options that `validate` refuses, and the capping of budgets to
  `max_object_bytes`.
* Handles with different limits, except that objects may be larger than a
  reader's limit in `S3Store` and `ImageCodec`; objects removed by others (the
  contract reserves the keys), for which `Corrupt` is the intended answer.
* `examples/kv.rs`: it shows the callbacks on a map, without concurrency of its
  own. `WalTier` has them for an application that forgets nothing.
* Benchmarks and scripts.
* Wording of errors, `garbage_error`, statistics.

## Plan

1. `WalImage`, `WalTier`, `AppendLog`: done, with the refinement.
2. `GroupCommit`, `Allocator`: done.
3. `Cache`: done.
4. `FsStore`, `SimStore`, `S3Store`: done, with the refinements of `ObjectStore`.
5. `ImageCodec`: done, with the proof that encode and decode are inverse.
6. `DebtReported`: done. Left to TLC: liveness.

## Using it

`tlc -config TwoWriters.cfg MCWalTier` runs one instance; `PROJECT.json` lists the
runs, their properties, and for every definition the lines of the code it
models. `tlapm WalTierProofs.tla` checks the proofs of one module.
