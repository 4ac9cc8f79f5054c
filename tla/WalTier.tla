------------------------------- MODULE WalTier -------------------------------
(* Writers, replicas and background compactors of one waltier log, and the   *)
(* object store they share (src/wal.rs over src/store.rs).                   *)
(*                                                                           *)
(* Every call to the store is one step; the code a handle runs between two   *)
(* calls belongs to the step of the first.  Other handles, compactor threads *)
(* and late answers of the store interleave at those points.                 *)
(*                                                                           *)
(* ETags are the images themselves.  This is the weakest validator the       *)
(* ObjectStore contract allows ("may repeat for identical content, as on     *)
(* S3"): a CAS succeeds whenever the bytes are the expected ones again.      *)
(*                                                                           *)
(* The application is the one that remembers everything: its state is the    *)
(* sequence of applied entries, apply appends, compact concatenates and      *)
(* restore is their inverse, which is the contract of WalApp.                *)
EXTENDS WalImage, FiniteSets, Functions

CONSTANTS
  Writers,            \* WalTier handles
  Replicas,           \* Replica handles
  MaxRaces,           \* MAX_RACES: rounds of open, refresh, publish_snapshot
  MaxAttempts,        \* Options::max_write_attempts
  MaxLive,            \* Options::max_live_entries
  MaxPendingDeletes,  \* Options::max_pending_deletes
  \* bounds of the exploration
  MaxBatch,           \* entries of one batch
  MaxEntries,         \* entries submitted by all callers together
  MaxJobs,            \* compactions started
  MaxFaults,          \* failed or unanswered calls
  MaxDrops            \* handles dropped, by the program or by a crash

ASSUME HandlesAssumption == Writers \cap Replicas = {}

\* Options::validate asks for positive budgets, but not for the delete queue.
ASSUME OptionsAssumption ==
  /\ MaxRaces \in Nat \ {0} /\ MaxAttempts \in Nat \ {0}
  /\ MaxLive \in Nat \ {0} /\ MaxPendingDeletes \in Nat

ASSUME BoundsAssumption ==
  /\ MaxBatch \in Nat /\ MaxEntries \in Nat /\ MaxJobs \in Nat
  /\ MaxFaults \in Nat /\ MaxDrops \in Nat

Handles == Writers \cup Replicas
JobIds  == 1 .. MaxJobs

VARIABLES
  \* the object store
  wal,        \* the WAL object, None until it is created
  snaps,      \* snapshot objects: their key -> their content
  inflight,   \* WAL PUTs without an answer, which may still be carried out
  doomed,     \* snapshot DELETEs without an answer, likewise
  \* compactor threads
  jobs,       \* what each compactor does, by the order they were started
  spawned,    \* how many were started
  \* handles
  pc,         \* where the handle is: the store call it makes next
  call,       \* the locals of the public method that runs
  image,      \* Core.image
  etag,       \* Core.etag
  state,      \* Core.state
  comp,       \* WalTier.compaction and the fold it carries
  garbage,    \* WalTier.garbage and WalTier.garbage_overflowed
  \* the environment
  submitted,  \* entries the callers produced so far
  faults, drops,
  \* observers: no action's guard reads them
  history,    \* the entries accepted by the WAL object, in LSN order
  acked,      \* <<lsn, entry>> reported as appended
  denied,     \* entries reported NotApplied, or replaced during reconciliation
  corrupt,    \* some operation reported WalError::Corrupt
  lossy       \* a handle ended while it still tracked objects

storeVars  == <<wal, snaps, inflight, doomed>>
jobVars    == <<jobs, spawned>>
coreVars   == <<image, etag, state>>
writerVars == <<comp, garbage>>
envVars    == <<submitted, drops>>
obsVars    == <<history, acked, denied, corrupt, lossy>>
vars == <<storeVars, jobVars, pc, call, coreVars, writerVars, envVars, faults, obsVars>>

Ops == {"open", "refresh", "write", "write_batch", "wait", "flush", "close", "gc"}

Pcs == {"down",                        \* no such handle
        "openGet", "openPut", "openSnap",  \* in Core::open
        "idle",                        \* no method runs
        "get", "snap",                 \* in Core::refresh
        "cas",                         \* in try_install, before the PUT
        "reconcile",                   \* in append, after a lost CAS
        "wait", "flush", "gc"}         \* in flush and collect_garbage

\* Locals of the running method: its name, the image whose snapshot is being
\* fetched, the rounds lost to races, the image (its ETag and its key) whose
\* snapshot was missing before, the CAS attempts made and the pending batch.
NoCall == [op |-> "open", got |-> None, races |-> 0, missing |-> None,
           attempt |-> 0, batch |-> << >>]

NoFold    == [st |-> "idle", fold |-> NoSnap]
NoGarbage == [queue |-> << >>, overflowed |-> 0]
NoJob     == [st |-> "none", lsn |-> 0, base |-> NoSnap, body |-> << >>, tries |-> 0]
-----------------------------------------------------------------------------
(* The object store.                                                         *)

\* mutant: the precondition is lost on the way (an unconditional put).
PutUnconditionally(expect, data) ==
  /\ expect # None \/ wal = None
  /\ wal' = data
  /\ history' = history \o EntriesFrom(data, Len(history))

\* cas_matches and put_if_match on the WAL key: expect is None for create-only.
PutIfMatch(expect, data) ==
  /\ wal = expect
  /\ wal' = data
  /\ history' = history \o EntriesFrom(data, Len(history))

PutSnapshot(key, body) ==
  snaps' = [k \in DOMAIN snaps \cup {key} |-> IF k = key THEN body ELSE snaps[k]]

DeleteSnapshot(key) == snaps' = Restrict(snaps, DOMAIN snaps \ {key})

\* A call that fails, or is answered in a way the store is free to choose.
Fault    == faults < MaxFaults /\ faults' = faults + 1
NoFault  == UNCHANGED faults

\* A PUT whose answer was lost is carried out: MutationOutcome::Unknown.
LatePut(r) ==
  /\ inflight' = inflight \ {r}
  /\ PutIfMatch(r.expect, r.data)
  /\ NoFault
  /\ UNCHANGED <<snaps, doomed, jobVars, pc, call, coreVars, writerVars, envVars,
                 acked, denied, corrupt, lossy>>

\* A DELETE whose answer was lost is carried out.
LateDelete(key) ==
  /\ DeleteSnapshot(key)
  /\ doomed' = doomed \ {key}
  /\ NoFault
  /\ UNCHANGED <<wal, inflight, jobVars, pc, call, coreVars, writerVars, envVars, obsVars>>
-----------------------------------------------------------------------------
(* The cleanup queue and the pending fold: local computations.               *)

\* mutant: candidates beyond the limit are forgotten without being counted.
QueueWithoutDebt(g, key) ==
  IF key = NoSnap \/ key \in Range(g.queue) \/ Len(g.queue) = MaxPendingDeletes THEN g
  ELSE [g EXCEPT !.queue = Append(@, key)]

\* mutant: an absent previous snapshot is queued like any other.
QueueAnything(g, key) ==
  IF key \in Range(g.queue) THEN g
  ELSE IF Len(g.queue) = MaxPendingDeletes THEN [g EXCEPT !.overflowed = @ + 1]
  ELSE [g EXCEPT !.queue = Append(@, key)]

\* queue_obsolete; NoSnap stands for "nothing to queue".
QueueObsolete(g, key) ==
  IF key = NoSnap \/ key \in Range(g.queue) THEN g
  ELSE IF Len(g.queue) = MaxPendingDeletes THEN [g EXCEPT !.overflowed = @ + 1]
  ELSE [g EXCEPT !.queue = Append(@, key)]

\* mutant: the fold is kept although the image moved past it.
NeverDiscard(c, img) == c

\* mutant: an installation that was reported as a failure is taken for a loss.
DiscardEvenInstalled(c, img) ==
  IF c.st # "ready" \/ AppliesTo(c.fold, img) THEN c
  ELSE [st |-> "superseded", fold |-> NoSnap]

\* discard_superseded_fold: what becomes of the fold on this image ...
DiscardSuperseded(c, img) ==
  IF c.st # "ready" \/ AppliesTo(c.fold, img) THEN c
  ELSE [st |-> IF img.snap = c.fold THEN "installed" ELSE "superseded", fold |-> NoSnap]

\* ... and the snapshot it queues for deletion, if any.
DiscardedKey(c, img) ==
  IF DiscardSuperseded(c, img).st = "superseded" THEN c.fold ELSE NoSnap

\* mutant: an upload that was not answered never ends the compaction.
IntegrateAnswered(c) ==
  IF c.st # "running" THEN c
  ELSE CASE jobs[c.fold.id].st = "done"   -> [c EXCEPT !.st = "ready"]
         [] jobs[c.fold.id].st = "failed" -> [st |-> "failed", fold |-> NoSnap]
         [] OTHER                         -> c

\* integrate_compaction, finish_compaction: take over a finished compaction.
Integrated(c) ==
  IF c.st # "running" THEN c
  ELSE CASE jobs[c.fold.id].st = "done"                  -> [c EXCEPT !.st = "ready"]
         [] jobs[c.fold.id].st \in {"failed", "unknown"} -> [st |-> "failed", fold |-> NoSnap]
         [] OTHER                                        -> c

\* sync_compaction, the preamble of the public methods.
Synced(w) == DiscardSuperseded(Integrated(comp[w]), image[w])

SyncedGarbage(w) ==
  QueueObsolete(garbage[w], DiscardedKey(Integrated(comp[w]), image[w]))

SyncCompaction(w) ==
  /\ comp' = [comp EXCEPT ![w] = Synced(w)]
  /\ garbage' = [garbage EXCEPT ![w] = SyncedGarbage(w)]

\* The fold that rides on the next PUT.
ReadyFold(c) == IF c.st = "ready" THEN c.fold ELSE NoSnap

\* The candidate image of try_install.
Candidate(w, c, extra) == EncodeView(image[w], ReadyFold(c), extra)

\* spawn_compaction: the compactor gets the base key and copies of the live
\* entries; its thread may fail to start.
SpawnCompaction(w, img) ==
  \/ /\ spawned < MaxJobs
     /\ NoFault
     /\ spawned' = spawned + 1
     /\ jobs' = [jobs EXCEPT ![spawned + 1] =
                   [NoJob EXCEPT !.st   = IF img.snap = NoSnap THEN "publish" ELSE "fetch",
                                 !.lsn  = NextLsn(img) - 1,
                                 !.base = img.snap,
                                 !.body = img.entries]]
     /\ comp' = [comp EXCEPT ![w] = [st   |-> "running",
                                     fold |-> [lsn |-> NextLsn(img) - 1, id |-> spawned + 1]]]
  \/ /\ Fault
     /\ comp' = [comp EXCEPT ![w] = [st |-> "failed", fold |-> NoSnap]]
     /\ UNCHANGED jobVars
-----------------------------------------------------------------------------
(* How a method ends.                                                        *)

\* The handle's objects that only it keeps track of.
Tracks(w) ==
  garbage[w] # NoGarbage \/ comp[w].st \in {"running", "ready"}

\* The handle is consumed or lost; a running compactor is detached.
Forget(h) ==
  /\ pc' = [pc EXCEPT ![h] = "down"]
  /\ call' = [call EXCEPT ![h] = NoCall]
  /\ image' = [image EXCEPT ![h] = EmptyImage]
  /\ etag' = [etag EXCEPT ![h] = None]
  /\ state' = [state EXCEPT ![h] = << >>]
  /\ comp' = [comp EXCEPT ![h] = NoFold]
  /\ garbage' = [garbage EXCEPT ![h] = NoGarbage]
  /\ lossy' = (lossy \/ (h \in Writers /\ Tracks(h)))

\* The method returns; close and a failed open leave no handle behind.
Return(h) ==
  IF call[h].op \in {"open", "close"} THEN Forget(h)
  ELSE /\ pc' = [pc EXCEPT ![h] = "idle"]
       /\ call' = [call EXCEPT ![h] = NoCall]
       /\ UNCHANGED <<coreVars, writerVars, lossy>>

\* The method returns an error that says nothing of its batch was applied.
ReturnNotApplied(h) ==
  /\ denied' = denied \cup Range(call[h].batch)
  /\ Return(h)

\* mutant: a second missing snapshot is Corrupt even when it is another one.
MissingTwice(h, again) ==
  LET c == call[h]
      broken == c.missing # None
  IN  /\ corrupt' = (corrupt \/ broken)
      /\ IF broken \/ c.races + 1 = MaxRaces THEN ReturnNotApplied(h)
         ELSE /\ pc' = [pc EXCEPT ![h] = again]
              /\ call' = [call EXCEPT ![h] = [c EXCEPT !.races = @ + 1,
                                                       !.missing = c.got, !.got = None]]
              /\ UNCHANGED <<coreVars, writerVars, denied, lossy>>

\* record_missing_snapshot and the next round of the loop around it: a second
\* look at the same missing snapshot is Corrupt, the last round Contention.
MissingSnapshot(h, again) ==
  LET c == call[h]
      broken == c.missing = c.got
  IN  /\ corrupt' = (corrupt \/ broken)
      /\ IF broken \/ c.races + 1 = MaxRaces THEN ReturnNotApplied(h)
         ELSE /\ pc' = [pc EXCEPT ![h] = again]
              /\ call' = [call EXCEPT ![h] = [c EXCEPT !.races = @ + 1,
                                                       !.missing = c.got, !.got = None]]
              /\ UNCHANGED <<coreVars, writerVars, denied, lossy>>
-----------------------------------------------------------------------------
(* Core::open                                                                *)

Opened(h, img, tag, st) ==
  /\ pc' = [pc EXCEPT ![h] = "idle"]
  /\ call' = [call EXCEPT ![h] = NoCall]
  /\ image' = [image EXCEPT ![h] = img]
  /\ etag' = [etag EXCEPT ![h] = tag]
  /\ state' = [state EXCEPT ![h] = st]
  /\ UNCHANGED <<writerVars, denied, lossy>>

\* The GET of the WAL object.
OpenGet(h) ==
  /\ pc[h] \in {"down", "openGet"}
  /\ \/ Fault /\ ReturnNotApplied(h)
     \/ /\ NoFault
        /\ wal = None /\ h \in Replicas
        /\ Opened(h, EmptyImage, None, << >>)
     \/ /\ NoFault
        /\ wal = None /\ h \in Writers
        /\ pc' = [pc EXCEPT ![h] = "openPut"]
        /\ UNCHANGED <<call, coreVars, writerVars, denied, lossy>>
     \/ /\ NoFault
        /\ wal # None /\ wal.snap = NoSnap
        /\ Opened(h, wal, wal, wal.entries)
     \/ /\ NoFault
        /\ wal # None /\ wal.snap # NoSnap
        /\ pc' = [pc EXCEPT ![h] = "openSnap"]
        /\ call' = [call EXCEPT ![h].got = wal]
        /\ UNCHANGED <<coreVars, writerVars, denied, lossy>>
  /\ UNCHANGED <<storeVars, jobVars, envVars, history, acked, corrupt>>

\* The create-only PUT of an empty image; a refusal, also one by a store that
\* holds no image yet, reads again.
OpenPut(w) ==
  /\ pc[w] = "openPut"
  /\ \/ /\ NoFault
        /\ PutIfMatch(None, EmptyImage)
        /\ Opened(w, EmptyImage, EmptyImage, << >>)
        /\ UNCHANGED inflight
     \/ /\ IF wal = None THEN Fault ELSE NoFault
        /\ IF call[w].races + 1 = MaxRaces THEN ReturnNotApplied(w)
           ELSE /\ pc' = [pc EXCEPT ![w] = "openGet"]
                /\ call' = [call EXCEPT ![w].races = @ + 1]
                /\ UNCHANGED <<coreVars, writerVars, denied, lossy>>
        /\ UNCHANGED <<wal, history, inflight>>
     \/ /\ Fault
        /\ ReturnNotApplied(w)
        /\ inflight' = inflight \cup {[expect |-> None, data |-> EmptyImage]}
        /\ UNCHANGED <<wal, history>>
  /\ UNCHANGED <<snaps, doomed, jobVars, envVars, acked, corrupt>>

\* The GET of the snapshot, the replay of the live entries.
OpenSnap(h) ==
  /\ pc[h] = "openSnap"
  /\ LET got == call[h].got IN
     \/ Fault /\ ReturnNotApplied(h) /\ UNCHANGED corrupt
     \/ /\ NoFault
        /\ got.snap \in DOMAIN snaps
        /\ Opened(h, got, got, snaps[got.snap] \o EntriesFrom(got, FirstLsn(got)))
        /\ UNCHANGED corrupt
     \/ /\ NoFault
        /\ got.snap \notin DOMAIN snaps
        /\ MissingSnapshot(h, "openGet")
  /\ UNCHANGED <<storeVars, jobVars, envVars, history, acked>>
-----------------------------------------------------------------------------
(* Core::refresh, alone or after a rejected CAS.                             *)

\* WalTier::refresh, Replica::refresh
Refresh(h) ==
  /\ pc[h] = "idle"
  /\ SyncCompaction(h)
  /\ pc' = [pc EXCEPT ![h] = "get"]
  /\ call' = [call EXCEPT ![h].op = "refresh"]
  /\ NoFault
  /\ UNCHANGED <<storeVars, jobVars, coreVars, envVars, obsVars>>

\* Where the caller of refresh goes on.
Proceed(h) ==
  LET c == call[h]
      kept == [NoCall EXCEPT !.op = c.op, !.attempt = c.attempt, !.batch = c.batch]
  IN  /\ pc' = [pc EXCEPT ![h] = CASE c.op = "refresh"             -> "idle"
                                   [] c.op \in {"flush", "close"}  -> "flush"
                                   [] OTHER                        -> "reconcile"]
      /\ call' = [call EXCEPT ![h] = IF c.op = "refresh" THEN NoCall ELSE kept]

\* The snapshot the handle's image leaves behind: only a writer collects it.
SupersededKey(h, img) ==
  IF h \in Writers /\ image[h].snap # img.snap THEN image[h].snap ELSE NoSnap

\* The newer image is taken over; then discard_superseded_fold and
\* queue_superseded.
Adopt(h, img, st) ==
  /\ image' = [image EXCEPT ![h] = img]
  /\ etag' = [etag EXCEPT ![h] = img]
  /\ state' = [state EXCEPT ![h] = st]
  /\ comp' = [comp EXCEPT ![h] = DiscardSuperseded(comp[h], img)]
  /\ garbage' = [garbage EXCEPT ![h] =
                   QueueObsolete(QueueObsolete(@, DiscardedKey(comp[h], img)),
                                 SupersededKey(h, img))]
  /\ Proceed(h)
  /\ UNCHANGED <<denied, lossy>>

\* The conditional GET of the WAL object.  That the object never disappears
\* from under a held ETag is part of NeverCorrupt below.
RefreshGet(h) ==
  /\ pc[h] = "get"
  /\ \/ Fault /\ ReturnNotApplied(h)
     \/ /\ NoFault
        /\ wal = etag[h]
        /\ Proceed(h)
        /\ UNCHANGED <<coreVars, writerVars, denied, lossy>>
     \/ /\ NoFault
        /\ wal \notin {None, etag[h]}
        /\ FirstLsn(wal) <= NextLsn(image[h])
        /\ Adopt(h, wal, state[h] \o EntriesFrom(wal, NextLsn(image[h])))
     \/ /\ NoFault
        /\ wal \notin {None, etag[h]}
        /\ FirstLsn(wal) > NextLsn(image[h])
        /\ pc' = [pc EXCEPT ![h] = "snap"]
        /\ call' = [call EXCEPT ![h].got = wal]
        /\ UNCHANGED <<coreVars, writerVars, denied, lossy>>
  /\ UNCHANGED <<storeVars, jobVars, envVars, history, acked, corrupt>>

\* The GET of a snapshot that covers entries this handle never applied.
RefreshSnap(h) ==
  /\ pc[h] = "snap"
  /\ LET got == call[h].got IN
     \/ Fault /\ ReturnNotApplied(h) /\ UNCHANGED corrupt
     \/ /\ NoFault
        /\ got.snap \in DOMAIN snaps
        /\ Adopt(h, got, snaps[got.snap] \o EntriesFrom(got, got.snap.lsn + 1))
        /\ UNCHANGED corrupt
     \/ /\ NoFault
        /\ got.snap \notin DOMAIN snaps
        /\ MissingSnapshot(h, "get")
  /\ UNCHANGED <<storeVars, jobVars, envVars, history, acked>>
-----------------------------------------------------------------------------
(* WalTier::append                                                           *)

Batch(n) == [i \in 1 .. n |-> submitted + i]

Submit(n) == submitted + n <= MaxEntries /\ submitted' = submitted + n

\* One round of append up to its PUT: an empty batch is done, one that would
\* overfill the image is refused.  lost: entries given up in this round.
TryInstall(w, op, c, batch, attempt, lost) ==
  LET full == Len(Candidate(w, c, batch).entries) > MaxLive
      stop == batch = << >> \/ full
  IN  /\ denied' = denied \cup lost
                     \cup (IF full THEN Range(batch) ELSE {})
      /\ pc' = [pc EXCEPT ![w] = IF stop THEN "idle" ELSE "cas"]
      /\ call' = [call EXCEPT ![w] =
                    IF stop THEN NoCall
                    ELSE [NoCall EXCEPT !.op = op, !.attempt = attempt, !.batch = batch]]

\* write (one entry) and write_batch (any number)
Write(w) ==
  /\ pc[w] = "idle"
  /\ \E n \in 0 .. MaxBatch, op \in {"write", "write_batch"} :
       /\ op = "write" => n = 1
       /\ Submit(n)
       /\ TryInstall(w, op, Synced(w), Batch(n), 1, {})
  /\ SyncCompaction(w)
  /\ NoFault
  /\ UNCHANGED <<storeVars, jobVars, coreVars, drops, history, acked, corrupt, lossy>>

\* The part of a winning PUT common to append and flush: record_image_put and
\* install_pending_fold; the caller pushes the batch.
Accepted(w) ==
  LET batch == call[w].batch
      fold  == ReadyFold(comp[w])
      base  == IF fold = NoSnap THEN image[w] ELSE Folded(image[w], fold)
      old   == IF fold # NoSnap /\ image[w].snap # fold THEN image[w].snap ELSE NoSnap
  IN  /\ PutIfMatch(etag[w], Candidate(w, comp[w], batch))
      /\ etag' = [etag EXCEPT ![w] = Candidate(w, comp[w], batch)]
      /\ image' = [image EXCEPT ![w] = Pushed(base, batch)]
      /\ state' = [state EXCEPT ![w] = @ \o batch]
      /\ garbage' = [garbage EXCEPT ![w] = QueueObsolete(@, old)]

Installed(c) == IF c.st = "ready" THEN [st |-> "installed", fold |-> NoSnap] ELSE c

\* The guard of maybe_trigger_compaction; should_compact may answer either way.
MayCompact(c, img) == c.st \notin {"running", "ready", "failed"} /\ img.entries # << >>

\* The PUT of an append wins: the batch is acknowledged, and a compaction may
\* be triggered.
AppendAccepted(w) ==
  /\ pc[w] = "cas" /\ call[w].op \in {"write", "write_batch"}
  /\ Accepted(w)
  /\ acked' = acked \cup {<<NextLsn(image[w]) + i - 1, call[w].batch[i]>> :
                            i \in DOMAIN call[w].batch}
  /\ pc' = [pc EXCEPT ![w] = "idle"]
  /\ call' = [call EXCEPT ![w] = NoCall]
  /\ \/ /\ comp' = [comp EXCEPT ![w] = Installed(@)]
        /\ NoFault
        /\ UNCHANGED jobVars
     \/ /\ MayCompact(Installed(comp[w]), image'[w])
        /\ SpawnCompaction(w, image'[w])
  /\ UNCHANGED <<snaps, inflight, doomed, envVars, denied, corrupt, lossy>>

\* The PUT of a flush wins: only a fold was installed.
FlushAccepted(w) ==
  /\ pc[w] = "cas" /\ call[w].op \in {"flush", "close"}
  /\ Accepted(w)
  /\ comp' = [comp EXCEPT ![w] = Installed(@)]
  /\ pc' = [pc EXCEPT ![w] = "flush"]
  /\ NoFault
  /\ UNCHANGED <<snaps, inflight, doomed, jobVars, call, envVars, acked, denied,
                 corrupt, lossy>>

\* The PUT is rejected, because the WAL moved on or (409) for a conflict of
\* the store's own: refresh.
PutRejected(w) ==
  /\ pc[w] = "cas"
  /\ IF wal = etag[w] THEN Fault ELSE NoFault
  /\ pc' = [pc EXCEPT ![w] = "get"]
  /\ UNCHANGED <<storeVars, jobVars, call, coreVars, writerVars, envVars, obsVars>>

\* The request of the PUT at "cas".
Request(w) == [expect |-> etag[w], data |-> Candidate(w, comp[w], call[w].batch)]

\* The PUT fails; the store knows that it was not applied.
PutFailed(w) ==
  /\ pc[w] = "cas"
  /\ Fault
  /\ ReturnNotApplied(w)
  /\ UNCHANGED <<storeVars, jobVars, envVars, history, acked, corrupt>>

\* mutant: an unanswered PUT is reported as not applied.
PutUnknownDenied(w) ==
  /\ pc[w] = "cas"
  /\ Fault
  /\ inflight' = inflight \cup {Request(w)}
  /\ ReturnNotApplied(w)
  /\ UNCHANGED <<wal, snaps, doomed, jobVars, envVars, history, acked, corrupt>>

\* mutant: an unanswered PUT is refreshed and tried again like a rejected one.
PutUnknownRetried(w) ==
  /\ pc[w] = "cas"
  /\ Fault
  /\ inflight' = inflight \cup {Request(w)}
  /\ pc' = [pc EXCEPT ![w] = "get"]
  /\ UNCHANGED <<wal, snaps, doomed, jobVars, call, coreVars, writerVars, envVars, obsVars>>

\* The PUT is not answered: the caller gets MutationOutcome::Unknown, the
\* handle keeps its image and its ready fold.
PutUnknown(w) ==
  /\ pc[w] = "cas"
  /\ Fault
  /\ inflight' = inflight \cup {Request(w)}
  /\ Return(w)
  /\ UNCHANGED <<wal, snaps, doomed, jobVars, envVars, history, acked, denied, corrupt>>

\* append after a lost CAS: the attempt budget, then reconcile_batch.
Reconcile(w) ==
  LET c == call[w]
      pending == Range(c.batch)
  IN  /\ pc[w] = "reconcile"
      /\ \/ /\ c.attempt = MaxAttempts            \* Contention
            /\ ReturnNotApplied(w)
            /\ UNCHANGED submitted
         \/ /\ c.attempt < MaxAttempts            \* Abort
            /\ ReturnNotApplied(w)
            /\ UNCHANGED submitted
         \/ /\ c.attempt < MaxAttempts            \* Retry
            /\ TryInstall(w, c.op, comp[w], c.batch, c.attempt + 1, {})
            /\ UNCHANGED <<submitted, coreVars, writerVars, lossy>>
         \/ /\ c.attempt < MaxAttempts            \* Replace
            /\ \E n \in 0 .. MaxBatch :
                 /\ Submit(n)
                 /\ IF c.op = "write" /\ n # 1    \* InvalidReplacement
                    THEN /\ denied' = denied \cup pending \cup Range(Batch(n))
                         /\ Return(w)
                    ELSE /\ TryInstall(w, c.op, comp[w], Batch(n), c.attempt + 1, pending)
                         /\ UNCHANGED <<coreVars, writerVars, lossy>>
      /\ NoFault
      /\ UNCHANGED <<storeVars, jobVars, drops, history, acked, corrupt>>
-----------------------------------------------------------------------------
(* flush, close, wait_for_compaction, collect_garbage                        *)

StartMaintenance(w) ==
  /\ pc[w] = "idle"
  /\ \E op \in {"wait", "flush", "close", "gc"} :
       /\ pc' = [pc EXCEPT ![w] = IF op = "gc" THEN "gc" ELSE "wait"]
       /\ call' = [call EXCEPT ![w].op = op]
  /\ NoFault
  /\ UNCHANGED <<storeVars, jobVars, coreVars, writerVars, envVars, obsVars>>

\* wait_for_compaction blocks while the compactor runs.
WaitForCompaction(w) ==
  /\ pc[w] = "wait"
  /\ Integrated(comp[w]).st # "running"
  /\ SyncCompaction(w)
  /\ pc' = [pc EXCEPT ![w] = IF call[w].op = "wait" THEN "idle" ELSE "flush"]
  /\ call' = [call EXCEPT ![w] = IF @.op = "wait" THEN NoCall ELSE @]
  /\ NoFault
  /\ UNCHANGED <<storeVars, jobVars, coreVars, envVars, obsVars>>

\* The loop of flush: a failed compaction and an exhausted budget are errors;
\* a ready fold is installed; then the garbage is collected.
FlushStep(w) ==
  /\ pc[w] = "flush"
  /\ \/ /\ \/ comp[w].st = "failed"
           \/ comp[w].st = "ready" /\ call[w].attempt = MaxAttempts
        /\ Return(w)
     \/ /\ comp[w].st = "ready" /\ call[w].attempt < MaxAttempts
        /\ pc' = [pc EXCEPT ![w] = "cas"]
        /\ call' = [call EXCEPT ![w].attempt = @ + 1]
        /\ UNCHANGED <<coreVars, writerVars, lossy>>
     \/ /\ comp[w].st \notin {"failed", "ready"}
        /\ pc' = [pc EXCEPT ![w] = "gc"]
        /\ UNCHANGED <<call, coreVars, writerVars, lossy>>
  /\ NoFault
  /\ UNCHANGED <<storeVars, jobVars, envVars, history, acked, denied, corrupt>>

\* One DELETE of collect_garbage; a failed one stays queued and ends the call.
GcDelete(w) ==
  /\ pc[w] = "gc" /\ garbage[w].queue # << >>
  /\ LET key == Head(garbage[w].queue) IN
     \/ /\ NoFault
        /\ DeleteSnapshot(key)
        /\ garbage' = [garbage EXCEPT ![w].queue = Tail(@)]
        /\ UNCHANGED <<doomed, pc, call, coreVars, comp, lossy>>
     \/ /\ Fault
        /\ doomed' \in {doomed, doomed \cup {key}}
        /\ Return(w)
        /\ UNCHANGED snaps
  /\ UNCHANGED <<wal, inflight, jobVars, envVars, history, acked, denied, corrupt>>

GcDone(w) ==
  /\ pc[w] = "gc" /\ garbage[w].queue = << >>
  /\ Return(w)
  /\ NoFault
  /\ UNCHANGED <<storeVars, jobVars, envVars, history, acked, denied, corrupt>>

\* compact_now that starts a compaction; it clears an earlier failure.
CompactNow(w) ==
  /\ pc[w] = "idle"
  /\ Synced(w).st \notin {"running", "ready"}
  /\ image[w].entries # << >>
  /\ SpawnCompaction(w, image[w])
  /\ garbage' = [garbage EXCEPT ![w] = SyncedGarbage(w)]
  /\ UNCHANGED <<storeVars, pc, call, coreVars, envVars, obsVars>>

\* compaction_status; compact_now when it starts nothing; and
\* take_compaction_error when there is none to take.
CompactionStatus(w) ==
  /\ pc[w] = "idle"
  /\ SyncCompaction(w)
  /\ NoFault
  /\ UNCHANGED <<storeVars, jobVars, pc, call, coreVars, envVars, obsVars>>

\* take_compaction_error
TakeCompactionError(w) ==
  /\ pc[w] = "idle"
  /\ Synced(w).st = "failed"
  /\ comp' = [comp EXCEPT ![w] = NoFold]
  /\ NoFault
  /\ UNCHANGED <<storeVars, jobVars, pc, call, coreVars, garbage, envVars, obsVars>>
-----------------------------------------------------------------------------
(* run_compaction, on its own thread                                         *)

EndJob(i, st) ==
  jobs' = [jobs EXCEPT ![i] = [NoJob EXCEPT !.st = st, !.lsn = jobs[i].lsn]]

\* fetch_snapshot of the base, then WalApp::compact.
JobFetch(i) ==
  /\ jobs[i].st = "fetch"
  /\ \/ /\ NoFault
        /\ jobs[i].base \in DOMAIN snaps
        /\ jobs' = [jobs EXCEPT ![i] = [jobs[i] EXCEPT
                          !.st = "publish", !.base = NoSnap,
                          !.body = snaps[jobs[i].base] \o jobs[i].body]]
     \/ NoFault /\ jobs[i].base \notin DOMAIN snaps /\ EndJob(i, "failed")
     \/ Fault /\ EndJob(i, "failed")
  /\ UNCHANGED <<storeVars, spawned, pc, call, coreVars, writerVars, envVars, obsVars>>

JobKey(i) == [lsn |-> jobs[i].lsn, id |-> i]

\* publish_snapshot: create-only, under a fresh random name.  A colliding name
\* is tried again; an upload without an answer may still arrive.
JobPublish(i) ==
  /\ jobs[i].st = "publish"
  /\ \/ /\ NoFault
        /\ PutSnapshot(JobKey(i), jobs[i].body)
        /\ EndJob(i, "done")
     \/ /\ Fault
        /\ IF jobs[i].tries + 1 = MaxRaces THEN EndJob(i, "failed")
           ELSE jobs' = [jobs EXCEPT ![i].tries = @ + 1]
        /\ UNCHANGED snaps
     \/ Fault /\ EndJob(i, "failed") /\ UNCHANGED snaps
     \/ Fault /\ jobs' = [jobs EXCEPT ![i].st = "unknown"] /\ UNCHANGED snaps
  /\ UNCHANGED <<wal, inflight, doomed, spawned, pc, call, coreVars, writerVars, envVars,
                 obsVars>>

\* An upload whose answer was lost is carried out: the orphan named in the error.
LateUpload(i) ==
  /\ jobs[i].st = "unknown"
  /\ PutSnapshot(JobKey(i), jobs[i].body)
  /\ EndJob(i, "failed")
  /\ NoFault
  /\ UNCHANGED <<wal, inflight, doomed, spawned, pc, call, coreVars, writerVars, envVars,
                 obsVars>>
-----------------------------------------------------------------------------
\* The handle is dropped, or its process dies, at any point; the request it
\* was sending may be on its way.
Drop(h) ==
  /\ pc[h] # "down"
  /\ drops < MaxDrops
  /\ drops' = drops + 1
  /\ inflight' \in
       {inflight} \cup
       (IF pc[h] = "cas" THEN {inflight \cup {Request(h)}} ELSE {}) \cup
       (IF pc[h] = "openPut" THEN {inflight \cup {[expect |-> None, data |-> EmptyImage]}}
        ELSE {})
  /\ doomed' \in
       {doomed} \cup
       (IF pc[h] = "gc" /\ garbage[h].queue # << >>
        THEN {doomed \cup {Head(garbage[h].queue)}} ELSE {})
  /\ Forget(h)
  /\ NoFault
  /\ UNCHANGED <<wal, snaps, jobVars, submitted, history, acked, denied, corrupt>>

Init ==
  /\ wal = None
  /\ snaps = << >>
  /\ inflight = {} /\ doomed = {}
  /\ jobs = [i \in JobIds |-> NoJob]
  /\ spawned = 0
  /\ pc = [h \in Handles |-> "down"]
  /\ call = [h \in Handles |-> NoCall]
  /\ image = [h \in Handles |-> EmptyImage]
  /\ etag = [h \in Handles |-> None]
  /\ state = [h \in Handles |-> << >>]
  /\ comp = [h \in Handles |-> NoFold]
  /\ garbage = [h \in Handles |-> NoGarbage]
  /\ submitted = 0 /\ faults = 0 /\ drops = 0
  /\ history = << >> /\ acked = {} /\ denied = {} /\ corrupt = FALSE /\ lossy = FALSE

\* The steps of a method that a handle has begun.
HandleStep(h) ==
  \/ OpenGet(h) \/ OpenSnap(h) \/ RefreshGet(h) \/ RefreshSnap(h)

WriterStep(w) ==
  \/ OpenPut(w)
  \/ AppendAccepted(w) \/ FlushAccepted(w) \/ PutRejected(w) \/ PutFailed(w) \/ PutUnknown(w)
  \/ Reconcile(w) \/ WaitForCompaction(w) \/ FlushStep(w) \/ GcDelete(w) \/ GcDone(w)

JobStep(i) == JobFetch(i) \/ JobPublish(i)

Next ==
  \/ \E h \in Handles : HandleStep(h) \/ Refresh(h) \/ Drop(h)
  \/ \E w \in Writers : \/ WriterStep(w) \/ Write(w) \/ StartMaintenance(w)
                        \/ CompactNow(w) \/ CompactionStatus(w) \/ TakeCompactionError(w)
  \/ \E i \in JobIds : JobStep(i) \/ LateUpload(i)
  \/ \E r \in inflight : LatePut(r)
  \/ \E k \in doomed : LateDelete(k)

Spec == Init /\ [][Next]_vars
-----------------------------------------------------------------------------
(* Properties                                                                *)

Requests == [expect : Image \cup {None}, data : Image]

Calls == [op : Ops, got : Image \cup {None}, races : Nat, missing : Image \cup {None},
          attempt : Nat, batch : Seq(Entry)]

Jobs == [st : {"none", "fetch", "publish", "unknown", "failed", "done"},
         lsn : Nat, base : SnapRef, body : Seq(Entry), tries : Nat]

Comps == [st : {"idle", "running", "ready", "installed", "superseded", "failed"},
          fold : SnapRef]

Garbage == [queue : Seq(Key), overflowed : Nat]

StoreTypeOK ==
  /\ wal \in Image \cup {None}
  /\ DOMAIN snaps \subseteq Key /\ \A k \in DOMAIN snaps : snaps[k] \in Seq(Entry)
  /\ inflight \subseteq Requests
  /\ doomed \subseteq Key

JobTypeOK == jobs \in [JobIds -> Jobs] /\ spawned \in 0 .. MaxJobs

HandleTypeOK ==
  /\ pc \in [Handles -> Pcs] /\ call \in [Handles -> Calls]
  /\ image \in [Handles -> Image] /\ etag \in [Handles -> Image \cup {None}]
  /\ state \in [Handles -> Seq(Entry)]
  /\ comp \in [Handles -> Comps] /\ garbage \in [Handles -> Garbage]

OtherTypeOK ==
  /\ submitted \in Nat /\ faults \in Nat /\ drops \in Nat
  /\ history \in Seq(Entry) /\ acked \subseteq Nat \X Entry /\ denied \subseteq Entry
  /\ corrupt \in BOOLEAN /\ lossy \in BOOLEAN

\* Every variable has its type; in particular only names of snapshots are
\* ever queued for deletion (queue_obsolete), and no candidate image is cut
\* out of the entries by a fold that does not fit them (try_install).
TypeOK == StoreTypeOK /\ JobTypeOK /\ HandleTypeOK /\ OtherTypeOK

\* What opening the log now would rebuild: Core::open on the stored objects.
Rebuilt ==
  IF wal = None THEN << >>
  ELSE (IF wal.snap = NoSnap THEN << >> ELSE snaps[wal.snap]) \o wal.entries

\* A cold open at any moment succeeds and rebuilds every accepted entry in LSN
\* order: the WAL object never names a snapshot that was deleted or not yet
\* uploaded, its entries fit the limits decode enforces, and folding entries
\* into snapshots neither loses, repeats nor reorders one.
Recoverable ==
  /\ wal # None => /\ wal.snap # NoSnap => wal.snap \in DOMAIN snaps
                   /\ Len(wal.entries) <= MaxLive
  /\ Rebuilt = history

\* An LSN returned by write or write_batch holds that entry for ever, across
\* other writers' CAS, folds, crashes and late PUTs.
AckedDurable ==
  \A p \in acked : p[1] < Len(Rebuilt) /\ Rebuilt[p[1] + 1] = p[2]

\* The unanswered PUTs that the store would still accept.
CanLand == {r \in inflight : r.expect = wal}

\* WriteError with outcome NotApplied is the truth for good: no entry of such
\* a batch, and none that reconciliation replaced, is in the log or in a PUT
\* that may still be carried out.
NotAppliedNeverLands ==
  /\ denied \cap Range(history) = {}
  /\ \A r \in CanLand : denied \cap Range(r.data.entries) = {}

\* No entry is committed twice: an uncertain PUT is never retried by append
\* itself, and a rejected one never lands besides its retry.
AppliedOnce == IsInjective(history)

\* What a handle shows is a committed prefix: the image it edits by itself
\* after a CAS (install_pending_fold, push_back) equals the image it sent
\* (encode_view), and its state is the replay of exactly that many entries.
ViewsAreCommitted ==
  \A h \in Handles :
    /\ etag[h] # None => image[h] = etag[h]
    /\ NextLsn(image[h]) <= Len(history)
    /\ state[h] = SubSeq(history, 1, NextLsn(image[h]))

\* Snapshots that a queued or unanswered DELETE may remove.
Reclaimable == doomed \cup UNION {Range(garbage[h].queue) : h \in Handles}

\* Snapshots that the WAL names, or that a PUT can still make it name: one on
\* its way, or the next one of a writer that holds the current ETag.
Installable ==
  (IF wal = None THEN {} ELSE {wal.snap})
    \cup {r.data.snap : r \in CanLand}
    \cup {ReadyFold(comp[h]) : h \in {g \in Handles : etag[g] # None /\ etag[g] = wal}}

\* queue_obsolete only takes snapshots that no WAL PUT can ever name again,
\* and everything that can be named is there.
GarbageStaysDead ==
  /\ Reclaimable \cap Installable = {}
  /\ Installable \ {NoSnap} \subseteq DOMAIN snaps

\* WalError::Corrupt is never reported by a healthy store: readers that lose
\* races against folds and deletions see changing references, not the same
\* missing snapshot twice, and the WAL never disappears from under an ETag.
NeverCorrupt ==
  /\ ~corrupt
  /\ \A h \in Handles : etag[h] # None => wal # None

\* The debug_assert of try_install: whenever a PUT is prepared, a ready fold
\* covers live entries of the handle's image.  Otherwise f.lsn + 1 - first_lsn
\* underflows.
FoldFits ==
  \A h \in Handles : pc[h] = "cas" /\ comp[h].st = "ready" => AppliesTo(comp[h].fold, image[h])

\* A strict order on images, by what is committed and what is folded.
Newer(new, old) ==
  \/ NextLsn(new) > NextLsn(old) /\ FirstLsn(new) >= FirstLsn(old)
  \/ NextLsn(new) = NextLsn(old) /\ FirstLsn(new) > FirstLsn(old)

\* The CAS chain has no ABA: every change of the WAL object moves it to an
\* image that it never held, although ETags may repeat with the content.
WalAdvances == [][wal' # wal /\ wal # None => Newer(wal', wal)]_vars

\* Uploaded snapshots that the WAL does not name and no writer knows of.
Untracked ==
  {k \in DOMAIN snaps :
     /\ jobs[k.id].st = "done"
     /\ wal = None \/ wal.snap # k
     /\ \A h \in Writers : comp[h].fold # k /\ image[h].snap # k
     /\ k \notin Reclaimable}

\* What garbage_overflowed counts, over all writers: one element per candidate.
Debts == UNION {{w} \X (1 .. garbage[w].overflowed) : w \in Writers}

\* Every uploaded snapshot that fell out of use is known to some writer, as a
\* fold, as the reference of a stale image or as a queued deletion, or it is
\* counted in garbage_overflowed; unless a handle ended before it had finished
\* its maintenance, or the upload was reported as failed.
DebtReported == lossy \/ Cardinality(Untracked) <= Cardinality(Debts)
-----------------------------------------------------------------------------
(* Progress.  A thread that has begun a method, and a compactor thread, are  *)
(* scheduled, and the calls of the store return, with an answer or an error. *)

\* A step of the method that runs; not the choice to begin one.
Progress(h) ==
  /\ pc[h] \notin {"down", "idle"}
  /\ HandleStep(h) \/ (h \in Writers /\ WriterStep(h))

Fairness ==
  /\ \A h \in Handles : WF_vars(Progress(h))
  /\ \A i \in JobIds : WF_vars(JobStep(i))

FairSpec == Spec /\ Fairness

\* Every method returns, however often it loses its races, and whatever
\* becomes of the compactor it waits for: no loop of open, refresh, append and
\* flush is unbounded, and a failed compaction does not leave flush waiting.
MethodsReturn ==
  \A h \in Handles : pc[h] \notin {"down", "idle"} ~> pc[h] \in {"down", "idle"}

\* The callers' view of the log: the refinement of AppendLog.
Promise == INSTANCE AppendLog WITH
  Closed <- None,
  log    <- Rebuilt,
  view   <- [h \in Handles |->
               IF pc[h] \in {"down", "openGet", "openPut", "openSnap"} THEN None ELSE state[h]]

\* The implementation keeps the promise: whatever the writers, compactors and
\* late answers do, callers see one growing log through committed prefixes
\* that never step back, and a fold is invisible.
KeepsPromise == Promise!Spec
=============================================================================
