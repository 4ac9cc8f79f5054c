------------------------------- MODULE Cache -------------------------------
(* The local tier: one cache directory shared by handles of several logs.    *)
(*                                                                           *)
(* WalTier models what a handle does to the object store with the cache      *)
(* disabled.  This module models what it does to the directory: the records  *)
(* of the WAL image and of snapshots, published through temporary files by   *)
(* the handle's own thread and by its compactor, loaded on a warm start, and *)
(* swept.  The store is reduced to the versions of each WAL object and the   *)
(* snapshot objects; version n of a WAL has ETag n, so the ETags of two logs *)
(* coincide.  Remote and Collect stand for handles on other machines.        *)
EXTENDS Naturals, Sequences, FiniteSetsExt

CONSTANTS
  None,         \* no snapshot, record, file or write
  Wals,         \* identities: backend namespace and WAL key
  Handles,      \* writers and replicas using the directory
  Replicas,     \* the read-only ones
  WalOf,        \* the log of a handle
  Procs,        \* process ids
  ProcOf,       \* the process of a handle
  Policy,       \* the CachePolicy of a handle
  Keys,         \* snapshot keys; two backends may use the same one
  Names,        \* file names of cached snapshots
  NameOf,       \* snap_path: its checksum may send two keys to one name
  WalName,      \* the file wal.cache
  MaxVersions,  \* bound on the versions of one WAL object
  MaxCommits,   \* bound on the versions of all of them
  MaxJobs,      \* bound on compactions started
  MaxEnds,      \* bound on crashes and drops
  MaxDamage     \* bound on files damaged outside the program

ASSUME CacheAssumption ==
  /\ Replicas \subseteq Handles
  /\ WalOf \in [Handles -> Wals]
  /\ ProcOf \in [Handles -> Procs]
  /\ Policy \in [Handles -> {"EveryCommit", "OnFlush"}]
  /\ NameOf \in [Keys -> Names]
  /\ WalName \notin Names
  /\ None \notin Keys
  /\ {MaxVersions, MaxCommits, MaxJobs, MaxEnds, MaxDamage} \subseteq Nat

VARIABLES
  log,      \* log[i][n]: the image that version n of WAL object i holds
  objects,  \* the snapshot objects in the store of log i
  issued,   \* the snapshot keys ever drawn for log i
  files,    \* the published cache files
  temps,    \* temporary files by process and number; 0 is the preferred name
  next,     \* NEXT of write_atomic_with, one per process
  io,       \* the write_atomic a thread is in
  main,     \* where the handle's own thread is, and what it has read
  view,     \* the handle's etag, image and the snapshot it restored
  dirty,    \* cache_dirty
  job,      \* the compactor of the handle and its fold
  jobs,     \* compactions started so far
  ends,     \* crashes and drops so far
  damage    \* files damaged so far

store == <<log, objects, issued>>
disk == <<files, temps, next, io>>
bounds == <<jobs, ends, damage>>
vars == <<store, disk, main, view, dirty, job, bounds>>

-----------------------------------------------------------------------------
(* Images, records and files                                                 *)

\* An image is abstracted to its snapshot and its LSNs, first to next - 1.
Empty(i) == [wal |-> i, snap |-> None, first |-> 0, next |-> 0]

Latest(i) == log[i][Len(log[i])]

\* The bounds allow another version.
Room(i) ==
  /\ Len(log[i]) < MaxVersions
  /\ MapThenSumSet(LAMBDA j: Len(log[j]), Wals) < MaxCommits

\* The bytes of a snapshot object: a key names one immutable object per store.
Bytes(i, k) == [wal |-> i, key |-> k]

WalRecord(i, etag, image) ==
  [id |-> i, key |-> None, etag |-> etag, body |-> image]

SnapRecord(i, k) == [id |-> i, key |-> k, etag |-> 0, body |-> Bytes(i, k)]

\* A frame reaches its file in two writes: the header with checksum, length
\* and identity, then the body. What read_checked accepts: one header and the
\* body it was computed over.
Checked(content) ==
  /\ content # None
  /\ Len(content) = 2
  /\ content[1].part = "head"
  /\ content[2] = [part |-> "body", rec |-> content[1].rec]

\* The bytes of a file damaged from outside, of which no checksum is right.
Torn == <<[part |-> "torn", rec |-> None]>>

\* mutant: the checksum alone makes a record trusted.
LoadAny(h, name, key) ==
  IF Checked(files[name]) /\ (files[name][1].rec.key = None <=> key = None)
  THEN files[name][1].rec ELSE None

Load(h, name, key) ==
  IF /\ Checked(files[name])
     /\ files[name][1].rec.id = WalOf[h]
     /\ files[name][1].rec.key = key
  THEN files[name][1].rec
  ELSE None

LoadWal(h) == Load(h, WalName, None)

LoadSnapshot(h, k) == Load(h, NameOf[k], k)

Threads == Handles \X {"main", "job"}

\* Enter write_atomic: the preferred temporary name is tried first.
Save(t, name, rec) ==
  io' = [io EXCEPT ![t] = [stage |-> "create", temp |-> <<ProcOf[t[1]], 0>>,
                           name |-> name, rec |-> rec]]

SaveWal(h, etag, image) ==
  Save(<<h, "main">>, WalName, WalRecord(WalOf[h], etag, image))

SaveSnapshot(t, k) == Save(t, NameOf[k], SnapRecord(WalOf[t[1]], k))

RemoveSnapshot(k) == files' = [files EXCEPT ![NameOf[k]] = None]

\* Every other cached snapshot goes, whichever handle saved it.
RetainSnapshot(keep) ==
  files' = [f \in DOMAIN files |->
              IF f \in Names /\ ~(keep # None /\ NameOf[keep] = f)
              THEN None ELSE files[f]]

-----------------------------------------------------------------------------
(* write_atomic: every failure is a cache miss later and nothing else        *)

Advance(t, stage) == io' = [io EXCEPT ![t].stage = stage]

Without(n) == [m \in DOMAIN temps \ {n} |-> temps[m]]

\* mutant: an existing temporary file is opened and truncated.
CreateShared(t) ==
  /\ io[t] # None /\ io[t].stage = "create"
  /\ temps' = [n \in DOMAIN temps \cup {io[t].temp} |->
                 IF n = io[t].temp THEN <<>> ELSE temps[n]]
  /\ Advance(t, "head")
  /\ UNCHANGED <<store, files, next, main, view, dirty, job, bounds>>

\* mutant: the number of the next temporary name stays what it is.
CreateUncounted(t) ==
  /\ io[t] # None /\ io[t].stage = "create"
  /\ IF io[t].temp \in DOMAIN temps
     THEN /\ io' = [io EXCEPT ![t].temp = <<ProcOf[t[1]], next[ProcOf[t[1]]] + 1>>]
          /\ UNCHANGED temps
     ELSE /\ temps' = [n \in DOMAIN temps \cup {io[t].temp} |->
                         IF n = io[t].temp THEN <<>> ELSE temps[n]]
          /\ Advance(t, "head")
  /\ UNCHANGED <<store, files, next, main, view, dirty, job, bounds>>

\* Exclusive creation, retried under a numbered name.
CreateTemp(t) ==
  /\ io[t] # None /\ io[t].stage = "create"
  /\ IF io[t].temp \in DOMAIN temps
     THEN LET p == ProcOf[t[1]] IN
            /\ io' = [io EXCEPT ![t].temp = <<p, next[p] + 1>>]
            /\ next' = [next EXCEPT ![p] = @ + 1]
            /\ UNCHANGED temps
     ELSE /\ temps' = [n \in DOMAIN temps \cup {io[t].temp} |->
                         IF n = io[t].temp THEN <<>> ELSE temps[n]]
          /\ Advance(t, "head")
          /\ UNCHANGED next
  /\ UNCHANGED <<store, files, main, view, dirty, job, bounds>>

WriteChunk(t, part, then) ==
  /\ io[t] # None /\ io[t].stage = part
  /\ temps' = [n \in DOMAIN temps |->
                 IF n = io[t].temp
                 THEN Append(temps[n], [part |-> part, rec |-> io[t].rec])
                 ELSE temps[n]]
  /\ Advance(t, then)
  /\ UNCHANGED <<store, files, next, main, view, dirty, job, bounds>>

Rename(t) ==
  /\ io[t] # None /\ io[t].stage = "rename" /\ io[t].temp \in DOMAIN temps
  /\ files' = [files EXCEPT ![io[t].name] = temps[io[t].temp]]
  /\ temps' = Without(io[t].temp)
  /\ io' = [io EXCEPT ![t] = None]
  /\ UNCHANGED <<store, next, main, view, dirty, job, bounds>>

\* A failed create leaves nothing; a failed write or rename removes the
\* temporary file.
WriteFails(t) ==
  /\ io[t] # None
  /\ temps' = IF io[t].stage = "create" THEN temps ELSE Without(io[t].temp)
  /\ io' = [io EXCEPT ![t] = None]
  /\ UNCHANGED <<store, files, next, main, view, dirty, job, bounds>>

WriteStep(t) ==
  \/ CreateTemp(t)
  \/ WriteChunk(t, "head", "body")
  \/ WriteChunk(t, "body", "rename")
  \/ Rename(t)

-----------------------------------------------------------------------------
(* Core::open                                                                *)

Closed == [pc |-> "closed", cached |-> None, etag |-> 0, image |-> None,
           restored |-> None, began |-> 0]

At(h, pc) == main[h].pc = pc /\ io[<<h, "main">>] = None

Goto(h, pc) == main' = [main EXCEPT ![h].pc = pc]

\* A cached image is only a candidate: the conditional GET decides.  The job
\* of an earlier handle in this place must have ended.
Open(h) ==
  /\ At(h, "closed") /\ job[h] = None /\ view[h] = None
  /\ main' = [main EXCEPT ![h] =
                [Closed EXCEPT !.pc = "get", !.cached = LoadWal(h),
                               !.began = Len(log[WalOf[h]])]]
  /\ UNCHANGED <<store, disk, view, dirty, job, bounds>>

\* Record the version that this pass of open works on.
Got(h, etag, image) ==
  main' = [main EXCEPT ![h].etag = etag, ![h].image = image,
                       ![h].restored = None,
                       ![h].pc = IF image.snap = None THEN "restored"
                                                      ELSE "snapshot"]

\* mutant: a cached image is opened without asking the store.
OpenGetTrusting(h) ==
  /\ At(h, "get") /\ log[WalOf[h]] # <<>>
  /\ IF main[h].cached # None
     THEN Got(h, main[h].cached.etag, main[h].cached.body)
     ELSE Got(h, Len(log[WalOf[h]]), Latest(WalOf[h]))
  /\ UNCHANGED <<store, disk, view, dirty, job, bounds>>

\* get_if_changed with the ETag of the cached image.
OpenGet(h) ==
  LET i == WalOf[h]
      n == Len(log[i])
      cached == main[h].cached
  IN /\ At(h, "get") /\ n > 0
     /\ IF cached # None /\ cached.etag = n
        THEN Got(h, cached.etag, cached.body)
        ELSE Got(h, n, Latest(i))
     /\ UNCHANGED <<store, disk, view, dirty, job, bounds>>

\* There is no WAL object: a writer creates it.
OpenCreate(h) ==
  LET i == WalOf[h]
  IN /\ At(h, "get") /\ log[i] = <<>> /\ h \notin Replicas
     /\ log' = [log EXCEPT ![i] = <<Empty(i)>>]
     /\ Got(h, 1, Empty(i))
     /\ UNCHANGED <<objects, issued, disk, view, dirty, job, bounds>>

\* A replica opens on the empty log without ETag, and caches nothing.
OpenMissing(h) ==
  LET i == WalOf[h]
  IN /\ At(h, "get") /\ log[i] = <<>> /\ h \in Replicas
     /\ view' = [view EXCEPT ![h] = [etag |-> 0, image |-> Empty(i), restored |-> None]]
     /\ RetainSnapshot(None)
     /\ Goto(h, "idle")
     /\ UNCHANGED <<store, temps, next, io, dirty, job, bounds>>

\* fetch_snapshot: the directory first, then the store, filling the directory.
Fetch(t, k, hit, stored) ==
  LET h == t[1]
      rec == LoadSnapshot(h, k)
  IN \/ rec # None /\ hit /\ UNCHANGED io
     \/ rec = None /\ k \in objects[WalOf[h]] /\ stored /\ SaveSnapshot(t, k)

Gone(h, k) == LoadSnapshot(h, k) = None /\ k \notin objects[WalOf[h]]

\* The snapshot of the image being opened or rebuilt from.
Restore(h, from, to) ==
  LET k == main[h].image.snap
      with(bytes) == main' = [main EXCEPT ![h].restored = bytes, ![h].pc = to]
  IN /\ At(h, from)
     /\ Fetch(<<h, "main">>, k, with(LoadSnapshot(h, k).body), with(Bytes(WalOf[h], k)))
     /\ UNCHANGED <<store, files, temps, next, view, dirty, job, bounds>>

\* The snapshot was collected meanwhile: read the WAL again with the same
\* candidate, or give up (WalTier models the budget and the errors).
OpenAgain(h) ==
  /\ At(h, "snapshot") /\ Gone(h, main[h].image.snap)
  /\ \/ Goto(h, "get")
     \/ main' = [main EXCEPT ![h] = Closed]
  /\ UNCHANGED <<store, disk, view, dirty, job, bounds>>

\* record_image_put: save at once or remember to.
RecordImagePut(h, etag, image) ==
  /\ IF Policy[h] = "EveryCommit" THEN SaveWal(h, etag, image) ELSE UNCHANGED io
  /\ dirty' = [dirty EXCEPT ![h] = Policy[h] = "OnFlush"]

Opened(h) ==
  LET m == main[h]
  IN /\ At(h, "restored")
     /\ RetainSnapshot(m.image.snap)
     /\ view' = [view EXCEPT ![h] = [etag |-> m.etag, image |-> m.image,
                                     restored |-> m.restored]]
     /\ RecordImagePut(h, m.etag, m.image)
     /\ Goto(h, "idle")
     /\ UNCHANGED <<store, temps, next, job, bounds>>

-----------------------------------------------------------------------------
(* Core::refresh, the compactor and the CAS, as far as they touch the cache  *)

\* The handle's fold is ready, and the image has not moved past it.
Ready(h) == job[h] # None /\ job[h].pc = "ready" /\ io[<<h, "job">>] = None

Applies(h) == Ready(h) /\ job[h].lsn >= view[h].image.first

\* A method may go on: its preamble has discarded a superseded fold.
Idle(h) == At(h, "idle") /\ (Ready(h) => Applies(h))

\* discard_superseded_fold: an own fold that is installed keeps its file.
Discard(h) ==
  /\ At(h, "idle") /\ Ready(h) /\ ~Applies(h)
  /\ job' = [job EXCEPT ![h] = None]
  /\ IF view[h].image.snap = job[h].key THEN UNCHANGED files
                                        ELSE RemoveSnapshot(job[h].key)
  /\ UNCHANGED <<store, temps, next, io, main, view, dirty, bounds>>

\* get_if_changed of refresh: the state is rebuilt only when entries it never
\* applied were folded away.
RefreshGet(h) ==
  LET i == WalOf[h]
  IN /\ Idle(h) /\ view[h].etag < Len(log[i])
     /\ main' = [main EXCEPT ![h].began = Len(log[i]), ![h].etag = Len(log[i]),
                             ![h].image = Latest(i),
                             ![h].restored = view[h].restored,
                             ![h].pc = IF Latest(i).first <= view[h].image.next
                                       THEN "adopt" ELSE "rebuild"]
     /\ UNCHANGED <<store, disk, view, dirty, job, bounds>>

NotModified(h) == Idle(h) /\ view[h].etag = Len(log[WalOf[h]]) /\ UNCHANGED vars

\* Its snapshot was collected meanwhile: refresh reads again or gives up.
RefreshAgain(h) ==
  /\ At(h, "rebuild") /\ Gone(h, main[h].image.snap)
  /\ main' = [main EXCEPT ![h].pc = "idle", ![h].began = view[h].etag]
  /\ UNCHANGED <<store, disk, view, dirty, job, bounds>>

\* The new image replaces the old one, whose snapshot leaves the directory.
Adopt(h) ==
  LET m == main[h]
      old == view[h].image.snap
  IN /\ At(h, "adopt")
     /\ IF old # None /\ old # m.image.snap THEN RemoveSnapshot(old)
                                            ELSE UNCHANGED files
     /\ view' = [view EXCEPT ![h] = [etag |-> m.etag, image |-> m.image,
                                     restored |-> m.restored]]
     /\ RecordImagePut(h, m.etag, m.image)
     /\ Goto(h, "idle")
     /\ UNCHANGED <<store, temps, next, job, bounds>>

\* spawn_compaction: the thread has the base and the live entries of now.
SpawnCompaction(h) ==
  LET img == view[h].image
  IN /\ Idle(h) /\ h \notin Replicas /\ job[h] = None /\ img.first < img.next
     /\ jobs < MaxJobs
     /\ jobs' = jobs + 1
     /\ job' = [job EXCEPT ![h] =
                  [pc |-> IF img.snap = None THEN "upload" ELSE "base",
                   base |-> img.snap, key |-> None, lsn |-> img.next - 1]]
     /\ UNCHANGED <<store, disk, main, view, dirty, ends, damage>>

JobAt(h, pc) == job[h] # None /\ job[h].pc = pc /\ io[<<h, "job">>] = None

JobBase(h) ==
  LET go == job' = [job EXCEPT ![h].pc = "upload"]
  IN /\ JobAt(h, "base")
     /\ Fetch(<<h, "job">>, job[h].base, go, go)
     /\ UNCHANGED <<store, files, temps, next, main, view, dirty, bounds>>

\* Confirmed publication, then the save; the fold is ready when that is over.
JobUpload(h) ==
  LET i == WalOf[h]
  IN /\ JobAt(h, "upload")
     /\ \E k \in Keys \ issued[i]:
          /\ issued' = [issued EXCEPT ![i] = @ \cup {k}]
          /\ objects' = [objects EXCEPT ![i] = @ \cup {k}]
          /\ job' = [job EXCEPT ![h].pc = "ready", ![h].key = k]
          /\ SaveSnapshot(<<h, "job">>, k)
     /\ UNCHANGED <<log, files, temps, next, main, view, dirty, bounds>>

\* The base is gone, or the callback or the upload fails.
JobFails(h) ==
  /\ \/ JobAt(h, "base") /\ Gone(h, job[h].base)
     \/ JobAt(h, "upload")
  /\ job' = [job EXCEPT ![h] = None]
  /\ UNCHANGED <<store, disk, main, view, dirty, bounds>>

\* encode_view: the fold replaces the snapshot and the entries it covers.
Encoded(h, extra) ==
  LET img == view[h].image
  IN IF Applies(h)
     THEN [img EXCEPT !.snap = job[h].key, !.first = job[h].lsn + 1, !.next = @ + extra]
     ELSE [img EXCEPT !.next = @ + extra]

\* mutant: one folded entry too few leaves the handle's image.
EditedShort(h, extra) ==
  LET img == view[h].image
      popped == IF Applies(h) THEN job[h].lsn - img.first ELSE 0
  IN [img EXCEPT !.first = @ + popped, !.next = @ + extra,
                 !.snap = IF Applies(h) THEN job[h].key ELSE @]

\* install_pending_fold and append: the handle edits its own image.
Edited(h, extra) ==
  LET img == view[h].image
      popped == IF Applies(h) THEN job[h].lsn - img.first + 1 ELSE 0
  IN [img EXCEPT !.first = @ + popped, !.next = @ + extra,
                 !.snap = IF Applies(h) THEN job[h].key ELSE @]

\* try_install wins: one entry, or none for a flush with a fold.  The old
\* snapshot leaves the directory once the WAL record is saved.
Commit(h) ==
  LET i == WalOf[h]
      n == Len(log[i])
  IN /\ Idle(h) /\ h \notin Replicas /\ view[h].etag = n /\ Room(i)
     /\ \E extra \in 0..1:
          /\ extra = 0 => Applies(h)
          /\ log' = [log EXCEPT ![i] = Append(@, Encoded(h, extra))]
          /\ view' = [view EXCEPT ![h].etag = n + 1, ![h].image = Edited(h, extra)]
          /\ RecordImagePut(h, n + 1, Encoded(h, extra))
     /\ IF Applies(h)
        THEN /\ main' = [main EXCEPT ![h].pc = "installed",
                                     ![h].image = view[h].image]
             /\ job' = [job EXCEPT ![h] = None]
        ELSE UNCHANGED <<main, job>>
     /\ UNCHANGED <<objects, issued, files, temps, next, bounds>>

\* The CAS is applied and its answer lost: the handle keeps image and fold.
CommitUnanswered(h) ==
  LET i == WalOf[h]
      n == Len(log[i])
  IN /\ Idle(h) /\ h \notin Replicas /\ view[h].etag = n /\ Room(i)
     /\ log' = [log EXCEPT ![i] = Append(@, Encoded(h, 1))]
     /\ UNCHANGED <<objects, issued, disk, main, view, dirty, job, bounds>>

Installed(h) ==
  LET old == main[h].image.snap
  IN /\ At(h, "installed")
     /\ IF old = None THEN UNCHANGED files ELSE RemoveSnapshot(old)
     /\ Goto(h, "idle")
     /\ UNCHANGED <<store, temps, next, io, view, dirty, job, bounds>>

\* checkpoint_cache encodes the handle's image again under its ETag.
CheckpointCache(h) ==
  /\ At(h, "idle") /\ dirty[h]
  /\ SaveWal(h, view[h].etag, view[h].image)
  /\ dirty' = [dirty EXCEPT ![h] = FALSE]
  /\ UNCHANGED <<store, files, temps, next, main, view, job, bounds>>

-----------------------------------------------------------------------------
(* Ends of handles and processes, damage, other machines                     *)

Reset(H) ==
  /\ main' = [h \in Handles |-> IF h \in H THEN Closed ELSE main[h]]
  /\ view' = [h \in Handles |-> IF h \in H THEN None ELSE view[h]]
  /\ dirty' = [h \in Handles |-> h \notin H /\ dirty[h]]
  /\ ends' = ends + 1

\* A plain drop detaches the compactor, which goes on; its fold is lost.
Drop(h) ==
  /\ ends < MaxEnds /\ At(h, "idle")
  /\ Reset({h})
  /\ UNCHANGED <<store, disk, job, jobs, damage>>

\* A detached compactor has nobody to report to.
Detached(h) ==
  /\ view[h] = None /\ Ready(h)
  /\ job' = [job EXCEPT ![h] = None]
  /\ UNCHANGED <<store, disk, main, view, dirty, bounds>>

\* A process dies with its threads; its temporary files stay, and the next
\* process may get the same id and counts its names from the start.
Crash(p) ==
  LET H == {h \in Handles: ProcOf[h] = p}
  IN /\ ends < MaxEnds
     /\ Reset(H)
     /\ job' = [h \in Handles |-> IF h \in H THEN None ELSE job[h]]
     /\ io' = [t \in Threads |-> IF t[1] \in H THEN None ELSE io[t]]
     /\ next' = [next EXCEPT ![p] = 0]
     /\ UNCHANGED <<store, files, temps, jobs, damage>>

\* Files are not synced: a power loss or a bad disk leaves torn bytes.
Damage(f) ==
  /\ damage < MaxDamage /\ files[f] \notin {None, Torn}
  /\ files' = [files EXCEPT ![f] = Torn]
  /\ damage' = damage + 1
  /\ UNCHANGED <<store, temps, next, io, main, view, dirty, job, jobs, ends>>

\* A writer with another directory creates the WAL, appends, or folds with a
\* new snapshot.
Remote(i) ==
  LET img == Latest(i)
      publish(new) == log' = [log EXCEPT ![i] = Append(@, new)]
  IN /\ Room(i)
     /\ \/ log[i] = <<>> /\ publish(Empty(i)) /\ UNCHANGED <<objects, issued>>
        \/ /\ log[i] # <<>> /\ publish([img EXCEPT !.next = @ + 1])
           /\ UNCHANGED <<objects, issued>>
        \/ /\ log[i] # <<>>
           /\ \E k \in Keys \ issued[i], lsn \in img.first..img.next - 1, extra \in 0..1:
                /\ publish([img EXCEPT !.snap = k, !.first = lsn + 1, !.next = @ + extra])
                /\ issued' = [issued EXCEPT ![i] = @ \cup {k}]
                /\ objects' = [objects EXCEPT ![i] = @ \cup {k}]
     /\ UNCHANGED <<disk, main, view, dirty, job, bounds>>

\* collect_garbage of some writer: never the live snapshot or a fold that can
\* still be installed (GarbageStaysDead of WalTier).
Collect(i, k) ==
  /\ k \in objects[i] /\ log[i] # <<>> /\ Latest(i).snap # k
  /\ \A h \in Handles: WalOf[h] = i /\ job[h] # None => job[h].key # k
  /\ objects' = [objects EXCEPT ![i] = @ \ {k}]
  /\ UNCHANGED <<log, issued, disk, main, view, dirty, job, bounds>>

-----------------------------------------------------------------------------

Init ==
  /\ log = [i \in Wals |-> <<>>]
  /\ objects = [i \in Wals |-> {}]
  /\ issued = [i \in Wals |-> {}]
  /\ files = [f \in Names \cup {WalName} |-> None]
  /\ temps = <<>>
  /\ next = [p \in Procs |-> 0]
  /\ io = [t \in Threads |-> None]
  /\ main = [h \in Handles |-> Closed]
  /\ view = [h \in Handles |-> None]
  /\ dirty = [h \in Handles |-> FALSE]
  /\ job = [h \in Handles |-> None]
  /\ jobs = 0
  /\ ends = 0
  /\ damage = 0

HandleStep(h) ==
  \/ Open(h) \/ OpenGet(h) \/ OpenCreate(h) \/ OpenMissing(h)
  \/ Restore(h, "snapshot", "restored") \/ OpenAgain(h) \/ Opened(h)
  \/ Discard(h) \/ RefreshGet(h) \/ NotModified(h) \/ RefreshAgain(h)
  \/ Restore(h, "rebuild", "adopt") \/ Adopt(h)
  \/ SpawnCompaction(h) \/ JobBase(h) \/ JobUpload(h) \/ JobFails(h)
  \/ Commit(h) \/ CommitUnanswered(h) \/ Installed(h) \/ CheckpointCache(h)
  \/ Drop(h) \/ Detached(h)

Next ==
  \/ \E h \in Handles: HandleStep(h)
  \/ \E t \in Threads: WriteStep(t) \/ WriteFails(t)
  \/ \E p \in Procs: Crash(p)
  \/ \E f \in Names \cup {WalName}: Damage(f)
  \/ \E i \in Wals: Remote(i)
  \/ \E i \in Wals, k \in Keys: Collect(i, k)

Spec == Init /\ [][Next]_vars

\* A thread in write_atomic keeps being scheduled.
FairSpec == Spec /\ \A t \in Threads: WF_vars(WriteStep(t))

-----------------------------------------------------------------------------
(* Properties                                                                *)

\* Only whole frames of one writer are ever published: whatever threads and
\* restarted processes share temporary names, a file that was not damaged from
\* outside passes the checksum; none is published empty or half written.
FilesWhole ==
  \A f \in DOMAIN files: files[f] \in {None, Torn} \/ Checked(files[f])

\* A record that passes the checksum tells the truth about its own log: the
\* image is the one the store holds under that ETag, also when checkpoint_cache
\* encoded an image that the handle had edited itself.
RecordsTrue ==
  \A f \in DOMAIN files:
    Checked(files[f]) =>
      LET rec == files[f][1].rec
      IN IF rec.key = None
         THEN /\ rec.etag \in 1..Len(log[rec.id])
              /\ rec.body = log[rec.id][rec.etag]
         ELSE rec.body = Bytes(rec.id, rec.key)

\* A handle holds the image of its own log under the ETag it holds, and its
\* state was restored from a snapshot that log has referenced, although
\* directory, file names, keys and ETags are shared with other logs.
TrueViews ==
  \A h \in Handles:
    view[h] # None =>
      /\ view[h].etag = 0 \/ view[h].image = log[WalOf[h]][view[h].etag]
      /\ view[h].restored # None =>
           \E n \in 1..view[h].etag:
             view[h].restored = Bytes(WalOf[h], log[WalOf[h]][n].snap)

\* A stale checkpoint is never served: when open or refresh is over, the handle
\* is at least at the version the WAL object had when the call began.
FreshViews ==
  \A h \in Handles:
    main[h].pc = "idle" => view[h].etag >= main[h].began

\* Every cache write ends, however many temporary files dead processes left
\* under the names it tries.
SavesEnd == \A t \in Threads: io[t] # None ~> io[t] = None

=============================================================================
