----------------------------- MODULE CacheProofs -----------------------------
(* The cache directory only ever serves the truth, for any number of logs,   *)
(* handles, processes, file names and crashes.                               *)
(*                                                                           *)
(* A thread that is past the exclusive creation of its temporary file is the *)
(* only one to write it, so that the file holds what the thread has written. *)
(* Hence published frames are whole, and what was true of a version when its *)
(* record was built stays true: versions are never rewritten.                *)
EXTENDS Cache, SequenceTheorems, TLAPS

Files == Names \cup {WalName}

Images == {img \in [wal : Wals, snap : Keys \cup {None}, first : Nat, next : Nat] :
             img.snap = None => img.first = 0}

Snapshots == [wal : Wals, key : Keys]

WalRecords  == [id : Wals, key : {None}, etag : Nat, body : Images]
SnapRecords == [id : Wals, key : Keys, etag : {0}, body : Snapshots]
Records     == WalRecords \cup SnapRecords

Writes == [stage : {"create", "head", "body", "rename"}, temp : Procs \X Nat,
           name : Files, rec : Records]

Mains == [pc : {"closed", "get", "snapshot", "restored", "idle", "adopt", "rebuild", "installed"},
          cached : WalRecords \cup {None}, etag : Nat, image : Images \cup {None},
          restored : Snapshots \cup {None}, began : Nat]

Views == [etag : Nat, image : Images, restored : Snapshots \cup {None}]

Folds == [pc : {"base", "upload", "ready"}, base : Keys \cup {None},
          key : Keys \cup {None}, lsn : Nat]

TypeInv ==
  /\ log \in [Wals -> Seq(Images)]
  /\ objects \in [Wals -> SUBSET Keys]
  /\ DOMAIN files = Files
  /\ next \in [Procs -> Nat]
  /\ io \in [Threads -> Writes \cup {None}]
  /\ main \in [Handles -> Mains]
  /\ view \in [Handles -> Views \cup {None}]
  /\ dirty \in [Handles -> BOOLEAN]
  /\ job \in [Handles -> Folds \cup {None}]
-----------------------------------------------------------------------------
(* The invariant.  Its parts are predicates of the values they speak of; L   *)
(* is the log, the versions of every WAL object.                             *)

\* The record says what the store holds, or held, for its log.
TrueRec(rec, L) ==
  IF rec.key = None
  THEN rec.etag \in 1 .. Len(L[rec.id]) /\ rec.body = L[rec.id][rec.etag]
  ELSE rec.body = Bytes(rec.id, rec.key)

Chunk(part, rec) == [part |-> part, rec |-> rec]

\* What a thread has written at each stage of write_atomic.
Written(stage, rec) ==
  CASE stage = "head" -> << >>
    [] stage = "body" -> <<Chunk("head", rec)>>
    [] stage = "rename" -> <<Chunk("head", rec), Chunk("body", rec)>>

FileOK(content, L) ==
  \/ content \in {None, Torn}
  \/ LET rec == content[1].rec
     IN  /\ rec \in Records /\ TrueRec(rec, L)
         /\ content = Written("rename", rec)

Owns(w) == w # None /\ w.stage # "create"

WriteOK(w, T, L) ==
  w # None => /\ TrueRec(w.rec, L)
              /\ w.stage # "create" => w.temp \in DOMAIN T /\ T[w.temp] = Written(w.stage, w.rec)

DiskOK(F, T, W, L) ==
  /\ \A f \in Files : FileOK(F[f], L)
  /\ \A t \in Threads : WriteOK(W[t], T, L)
  /\ \A t, u \in Threads : t # u /\ Owns(W[t]) /\ Owns(W[u]) => W[t].temp # W[u].temp

\* Version etag of the log is the image.
Version(etag, image, V) == etag \in 1 .. Len(V) /\ image = V[etag]

\* A state restored from a snapshot that one of the first versions names.
Restored(bytes, i, etag, V) == bytes # None => \E n \in 1 .. etag : bytes = Bytes(i, V[n].snap)

\* What a handle has read, and what it shows; V is the log of the handle.
HandleOK(h, m, v, d, V) ==
  /\ m.pc \in {"closed", "get", "snapshot", "restored"} => v = None /\ ~d
  /\ m.cached # None => m.cached.id = WalOf[h] /\ Version(m.cached.etag, m.cached.body, V)
  /\ m.pc = "get" => m.began <= Len(V)
  /\ m.pc \in {"snapshot", "restored", "adopt", "rebuild"} =>
       Version(m.etag, m.image, V) /\ m.began <= m.etag
  /\ m.pc \in {"snapshot", "rebuild"} => m.image.snap # None
  /\ m.pc \in {"restored", "adopt"} => Restored(m.restored, WalOf[h], m.etag, V)
  /\ m.pc = "installed" => m.image \in Images
  /\ m.pc \in {"idle", "adopt", "rebuild", "installed"} =>
       /\ v \in Views
       /\ v.etag = 0 \/ Version(v.etag, v.image, V)
       /\ Restored(v.restored, WalOf[h], v.etag, V)
       /\ d => v.etag # 0
  /\ m.pc \in {"rebuild", "adopt"} => v.etag <= m.etag
  /\ m.pc \in {"idle", "installed"} => m.began <= v.etag

\* A fold has its snapshot's name when it is ready.
FoldOK(j) ==
  j # None => /\ j.pc = "base" => j.base # None
              /\ j.pc = "ready" => j.key # None

CacheInv ==
  /\ DiskOK(files, temps, io, log)
  /\ \A h \in Handles : HandleOK(h, main[h], view[h], dirty[h], log[WalOf[h]]) /\ FoldOK(job[h])
-----------------------------------------------------------------------------
(* Versions are never rewritten                                              *)

Longer(V, W) == Len(V) <= Len(W) /\ \A n \in 1 .. Len(V) : W[n] = V[n]

Logs == [Wals -> Seq(Images)]

Extends(L, M) == \A i \in Wals : Longer(L[i], M[i])

LEMMA SameLonger == ASSUME NEW V \in Seq(Images) PROVE Longer(V, V)
BY DEF Longer

LEMMA SameExtends == ASSUME NEW L \in Logs PROVE Extends(L, L)
BY SameLonger DEF Logs, Extends

LEMMA AppendExtends ==
  ASSUME NEW L \in Logs, NEW i \in Wals, NEW img \in Images
  PROVE  LET M == [L EXCEPT ![i] = Append(@, img)]
         IN  /\ M \in Logs /\ Extends(L, M)
             /\ Version(Len(L[i]) + 1, img, M[i])
             /\ M[i] = Append(L[i], img)
<1> DEFINE M == [L EXCEPT ![i] = Append(@, img)]
<1>1. L[i] \in Seq(Images) /\ Len(L[i]) \in Nat
  BY DEF Logs
<1>2. /\ Append(L[i], img) \in Seq(Images) /\ Len(Append(L[i], img)) = Len(L[i]) + 1
      /\ Append(L[i], img)[Len(L[i]) + 1] = img
      /\ \A n \in 1 .. Len(L[i]) : Append(L[i], img)[n] = L[i][n]
  BY <1>1, AppendProperties
<1>3. M[i] = Append(L[i], img) /\ \A j \in Wals : j # i => M[j] = L[j]
  BY DEF Logs
<1>4. M \in Logs
  BY <1>2 DEF Logs
<1>5. Longer(L[i], M[i])
  BY <1>1, <1>2, <1>3 DEF Longer
<1>6. \A j \in Wals : j # i => Longer(L[j], M[j])
  BY <1>3, SameLonger DEF Logs
<1>7. Version(Len(L[i]) + 1, img, M[i])
  BY <1>1, <1>2, <1>3 DEF Version
<1>8. QED
  BY <1>3, <1>4, <1>5, <1>6, <1>7 DEF Extends

LEMMA VersionStays ==
  ASSUME NEW V \in Seq(Images), NEW W \in Seq(Images), Longer(V, W), NEW etag, NEW image,
         Version(etag, image, V)
  PROVE  Version(etag, image, W)
<1>1. Len(V) \in Nat /\ Len(W) \in Nat /\ Len(V) <= Len(W)
  BY DEF Longer
<1>2. QED
  BY <1>1 DEF Version, Longer

LEMMA RestoredStays ==
  ASSUME NEW V \in Seq(Images), NEW W \in Seq(Images), Longer(V, W), NEW i, NEW bytes,
         NEW etag \in Nat, NEW later \in Nat, etag <= Len(V), etag <= later,
         Restored(bytes, i, etag, V)
  PROVE  Restored(bytes, i, later, W)
<1> SUFFICES ASSUME bytes # None PROVE \E n \in 1 .. later : bytes = Bytes(i, W[n].snap)
  BY DEF Restored
<1>1. PICK n \in 1 .. etag : bytes = Bytes(i, V[n].snap)
  BY DEF Restored
<1>2. n \in 1 .. later /\ n \in 1 .. Len(V)
  <2>1. Len(V) \in Nat
    OBVIOUS
  <2>2. QED
    BY <2>1
<1>3. QED
  BY <1>1, <1>2 DEF Longer

LEMMA TrueStays ==
  ASSUME NEW L \in Logs, NEW M \in Logs, Extends(L, M), NEW rec \in Records, TrueRec(rec, L)
  PROVE  TrueRec(rec, M)
<1>1. rec.id \in Wals
  BY DEF Records, WalRecords, SnapRecords
<1>2. L[rec.id] \in Seq(Images) /\ M[rec.id] \in Seq(Images) /\ Longer(L[rec.id], M[rec.id])
  BY <1>1 DEF Logs, Extends
<1>3. CASE rec.key = None
  <2>1. Version(rec.etag, rec.body, L[rec.id])
    BY <1>3 DEF TrueRec, Version
  <2>2. Version(rec.etag, rec.body, M[rec.id])
    BY <1>2, <2>1, VersionStays
  <2>3. QED
    BY <1>3, <2>2 DEF TrueRec, Version
<1>4. CASE rec.key # None
  BY <1>4 DEF TrueRec
<1>5. QED
  BY <1>3, <1>4

LEMMA HandleStays ==
  ASSUME NEW h \in Handles, NEW m \in Mains, NEW v, NEW d,
         NEW V \in Seq(Images), NEW W \in Seq(Images), Longer(V, W), HandleOK(h, m, v, d, V)
  PROVE  HandleOK(h, m, v, d, W)
<1>1. Len(V) \in Nat /\ Len(W) \in Nat /\ Len(V) <= Len(W) /\ m.etag \in Nat /\ m.began \in Nat
  BY DEF Longer, Mains
<1>2. \A etag, image : Version(etag, image, V) => Version(etag, image, W)
  BY VersionStays
<1>3. m.pc = "get" => m.began <= Len(W)
  BY <1>1 DEF HandleOK
<1>4. m.pc \in {"restored", "adopt"} => Restored(m.restored, WalOf[h], m.etag, W)
  <2> SUFFICES ASSUME m.pc \in {"restored", "adopt"}
               PROVE  Restored(m.restored, WalOf[h], m.etag, W)
    OBVIOUS
  <2>1. Restored(m.restored, WalOf[h], m.etag, V) /\ Version(m.etag, m.image, V)
    BY DEF HandleOK
  <2>2. m.etag <= Len(V) /\ m.etag <= m.etag
    BY <1>1, <2>1 DEF Version
  <2>3. QED
    BY <1>1, <2>1, <2>2, RestoredStays
<1>5. m.pc \in {"idle", "adopt", "rebuild", "installed"} =>
        Restored(v.restored, WalOf[h], v.etag, W)
  <2> SUFFICES ASSUME m.pc \in {"idle", "adopt", "rebuild", "installed"}
               PROVE  Restored(v.restored, WalOf[h], v.etag, W)
    OBVIOUS
  <2>1. /\ v \in Views /\ Restored(v.restored, WalOf[h], v.etag, V)
        /\ v.etag = 0 \/ Version(v.etag, v.image, V)
    BY DEF HandleOK
  <2>2. v.etag \in Nat
    BY <2>1 DEF Views
  <2>3. v.etag <= Len(V) /\ v.etag <= v.etag
    BY <1>1, <2>1, <2>2 DEF Version
  <2>4. QED
    BY <2>1, <2>2, <2>3, RestoredStays
<1>6. QED
  BY <1>2, <1>3, <1>4, <1>5 DEF HandleOK
-----------------------------------------------------------------------------
(* The directory under the steps of a handle                                 *)

\* A sweep only removes files; a record enters write_atomic when it is true.
Sweeps == /\ DOMAIN files' = Files
          /\ \A f \in Files : files'[f] \in {files[f], None, Torn}
          /\ temps' = temps /\ next' = next

Saves == \/ io' = io
         \/ \E t \in Threads, name \in Files, rec \in Records :
              TrueRec(rec, log') /\ Save(t, name, rec)

Grows == log' \in Logs /\ Extends(log, log') /\ objects' \in [Wals -> SUBSET Keys]

LEMMA FileStays ==
  ASSUME NEW L \in Logs, NEW M \in Logs, Extends(L, M), NEW content, FileOK(content, L)
  PROVE  FileOK(content, M)
<1>1. CASE content \in {None, Torn}
  BY <1>1 DEF FileOK
<1>2. CASE content \notin {None, Torn}
  <2>1. content[1].rec \in Records /\ TrueRec(content[1].rec, L) /\ content = Written("rename", content[1].rec)
    BY <1>2 DEF FileOK
  <2>2. TrueRec(content[1].rec, M)
    BY <2>1, TrueStays
  <2>3. QED
    BY <2>1, <2>2 DEF FileOK
<1>3. QED
  BY <1>1, <1>2

LEMMA WriteStays ==
  ASSUME NEW L \in Logs, NEW M \in Logs, Extends(L, M), NEW w \in Writes \cup {None}, NEW T, WriteOK(w, T, L)
  PROVE  WriteOK(w, T, M)
<1> SUFFICES ASSUME w # None PROVE WriteOK(w, T, M)
  BY DEF WriteOK
<1>1. w.rec \in Records
  BY DEF Writes
<1>2. TrueRec(w.rec, M)
  BY <1>1, TrueStays DEF WriteOK
<1>3. QED
  BY <1>2 DEF WriteOK

LEMMA DiskMoves ==
  ASSUME TypeInv, CacheInv, Grows, Sweeps, Saves
  PROVE  DiskOK(files', temps', io', log') /\ io' \in [Threads -> Writes \cup {None}]
<1>1. log \in Logs /\ log' \in Logs /\ Extends(log, log') /\ io \in [Threads -> Writes \cup {None}]
  BY DEF TypeInv, Logs, Grows
<1>2. ASSUME NEW f \in Files PROVE FileOK(files'[f], log')
  <2>1. FileOK(files[f], log)
    BY DEF CacheInv, DiskOK
  <2>2. FileOK(files[f], log')
    BY <1>1, <2>1, FileStays
  <2>3. FileOK(None, log') /\ FileOK(Torn, log')
    BY DEF FileOK
  <2>4. QED
    BY <2>2, <2>3 DEF Sweeps
<1>3. ASSUME NEW t \in Threads PROVE WriteOK(io[t], temps', log')
  <2>1. WriteOK(io[t], temps, log) /\ io[t] \in Writes \cup {None}
    BY <1>1 DEF CacheInv, DiskOK
  <2>2. QED
    BY <1>1, <2>1, WriteStays DEF Sweeps
<1>4. \A t, u \in Threads : t # u /\ Owns(io[t]) /\ Owns(io[u]) => io[t].temp # io[u].temp
  BY DEF CacheInv, DiskOK
<1>5. CASE io' = io
  BY <1>1, <1>2, <1>3, <1>4, <1>5 DEF DiskOK
<1>6. ASSUME NEW t \in Threads, NEW name \in Files, NEW rec \in Records,
             TrueRec(rec, log'), Save(t, name, rec)
      PROVE  DiskOK(files', temps', io', log') /\ io' \in [Threads -> Writes \cup {None}]
  <2> DEFINE w == [stage |-> "create", temp |-> <<ProcOf[t[1]], 0>>, name |-> name, rec |-> rec]
  <2>1. t[1] \in Handles
    BY DEF Threads
  <2>2. <<ProcOf[t[1]], 0>> \in Procs \X Nat
    BY <2>1, CacheAssumption
  <2>3. w \in Writes
    BY <2>2 DEF Writes
  <2>4. WriteOK(w, temps', log') /\ ~Owns(w)
    BY <1>6 DEF WriteOK, Owns
  <2>5. io' = [io EXCEPT ![t] = w]
    BY <1>6 DEF Save
  <2> HIDE DEF w
  <2>6. io' \in [Threads -> Writes \cup {None}] /\ io'[t] = w /\ \A u \in Threads : u # t => io'[u] = io[u]
    BY <1>1, <2>3, <2>5
  <2>7. \A u \in Threads : WriteOK(io'[u], temps', log')
    BY <1>3, <2>4, <2>6
  <2>8. \A u, x \in Threads : u # x /\ Owns(io'[u]) /\ Owns(io'[x]) => io'[u].temp # io'[x].temp
    BY <1>4, <2>4, <2>6
  <2>9. QED
    BY <1>2, <2>6, <2>7, <2>8 DEF DiskOK
<1>7. QED
  BY <1>5, <1>6 DEF Saves
-----------------------------------------------------------------------------
(* The handles under the steps of one of them                                *)

LEMMA LogOf ==
  ASSUME NEW h \in Handles, TypeInv
  PROVE  /\ WalOf[h] \in Wals /\ log[WalOf[h]] \in Seq(Images) /\ Len(log[WalOf[h]]) \in Nat
         /\ main[h] \in Mains /\ view[h] \in Views \cup {None}
         /\ dirty[h] \in BOOLEAN /\ job[h] \in Folds \cup {None}
         /\ io \in [Threads -> Writes \cup {None}]
<1>1. WalOf[h] \in Wals
  BY CacheAssumption
<1>2. log[WalOf[h]] \in Seq(Images)
  BY <1>1 DEF TypeInv
<1>3. QED
  BY <1>1, <1>2 DEF TypeInv

\* The handle goes on with these values, and no other handle moves.
Goes(h, m, v, d, j) ==
  /\ m \in Mains /\ main' = [main EXCEPT ![h] = m]
  /\ v \in Views \cup {None} /\ view' = [view EXCEPT ![h] = v]
  /\ d \in BOOLEAN /\ dirty' = [dirty EXCEPT ![h] = d]
  /\ j \in Folds \cup {None} /\ job' = [job EXCEPT ![h] = j]
  /\ HandleOK(h, m, v, d, log'[WalOf[h]]) /\ FoldOK(j)

LEMMA HandleMoves ==
  ASSUME TypeInv, CacheInv, Grows, Sweeps, Saves, NEW h \in Handles,
         NEW m, NEW v, NEW d, NEW j, Goes(h, m, v, d, j)
  PROVE  TypeInv' /\ CacheInv'
<1>1. DiskOK(files', temps', io', log') /\ io' \in [Threads -> Writes \cup {None}]
  BY DiskMoves
<1>2. /\ main \in [Handles -> Mains] /\ view \in [Handles -> Views \cup {None}]
      /\ dirty \in [Handles -> BOOLEAN] /\ job \in [Handles -> Folds \cup {None}]
  BY DEF TypeInv
<1>3. /\ main' \in [Handles -> Mains] /\ view' \in [Handles -> Views \cup {None}]
      /\ dirty' \in [Handles -> BOOLEAN] /\ job' \in [Handles -> Folds \cup {None}]
  BY <1>2 DEF Goes
<1>4. TypeInv'
  BY <1>1, <1>3 DEF TypeInv, Grows, Sweeps, Logs
<1>5. ASSUME NEW g \in Handles
      PROVE  HandleOK(g, main'[g], view'[g], dirty'[g], log'[WalOf[g]]) /\ FoldOK(job'[g])
  <2>1. CASE g = h
    <3>1. main'[g] = m /\ view'[g] = v /\ dirty'[g] = d /\ job'[g] = j
      BY <1>2, <2>1 DEF Goes
    <3>2. QED
      BY <2>1, <3>1 DEF Goes
  <2>2. CASE g # h
    <3>1. main'[g] = main[g] /\ view'[g] = view[g] /\ dirty'[g] = dirty[g] /\ job'[g] = job[g]
      BY <1>2, <2>2 DEF Goes
    <3>2. WalOf[g] \in Wals /\ log[WalOf[g]] \in Seq(Images) /\ main[g] \in Mains
      BY LogOf
    <3>3. log'[WalOf[g]] \in Seq(Images) /\ Longer(log[WalOf[g]], log'[WalOf[g]])
      BY <3>2 DEF Grows, Logs, Extends
    <3>4. HandleOK(g, main[g], view[g], dirty[g], log[WalOf[g]]) /\ FoldOK(job[g])
      BY DEF CacheInv
    <3>5. QED
      BY <3>1, <3>2, <3>3, <3>4, HandleStays
  <2>3. QED
    BY <2>1, <2>2
<1>6. QED
  BY <1>1, <1>4, <1>5 DEF CacheInv

LEMMA StoreMoves ==
  ASSUME TypeInv, CacheInv, Grows, Sweeps, Saves, UNCHANGED <<main, view, dirty, job>>
  PROVE  TypeInv' /\ CacheInv'
<1>1. DiskOK(files', temps', io', log') /\ io' \in [Threads -> Writes \cup {None}]
  BY DiskMoves
<1>2. TypeInv'
  BY <1>1 DEF TypeInv, Grows, Sweeps, Logs
<1>3. ASSUME NEW g \in Handles
      PROVE  HandleOK(g, main'[g], view'[g], dirty'[g], log'[WalOf[g]]) /\ FoldOK(job'[g])
  <2>1. WalOf[g] \in Wals /\ log[WalOf[g]] \in Seq(Images) /\ main[g] \in Mains
    BY LogOf
  <2>2. log'[WalOf[g]] \in Seq(Images) /\ Longer(log[WalOf[g]], log'[WalOf[g]])
    BY <2>1 DEF Grows, Logs, Extends
  <2>3. HandleOK(g, main[g], view[g], dirty[g], log[WalOf[g]]) /\ FoldOK(job[g])
    BY DEF CacheInv
  <2>4. QED
    BY <2>1, <2>2, <2>3, HandleStays
<1>4. QED
  BY <1>1, <1>2, <1>3 DEF CacheInv
-----------------------------------------------------------------------------
(* write_atomic                                                              *)

\* A step of one write leaves logs and handles alone.
OnDisk == UNCHANGED <<store, main, view, dirty, job>>

LEMMA DiskOnly ==
  ASSUME TypeInv, CacheInv, OnDisk, DOMAIN files' = Files, next' \in [Procs -> Nat],
         io' \in [Threads -> Writes \cup {None}], DiskOK(files', temps', io', log)
  PROVE  TypeInv' /\ CacheInv'
BY DEF OnDisk, TypeInv, CacheInv, store

\* One thread moves; the temporary files of the others stay.
LEMMA WriteMoves ==
  ASSUME NEW F, NEW T, NEW U, NEW W \in [Threads -> Writes \cup {None}], NEW L, NEW t \in Threads,
         DiskOK(F, T, W, L), NEW w \in Writes \cup {None}, WriteOK(w, U, L),
         \A n \in DOMAIN T : (~Owns(W[t]) \/ n # W[t].temp) => n \in DOMAIN U /\ U[n] = T[n],
         Owns(w) => w.temp \notin DOMAIN T \/ (Owns(W[t]) /\ w.temp = W[t].temp)
  PROVE  DiskOK(F, U, [W EXCEPT ![t] = w], L)
<1> DEFINE X == [W EXCEPT ![t] = w]
<1>1. X[t] = w /\ \A u \in Threads : u # t => X[u] = W[u]
  OBVIOUS
<1> HIDE DEF X
<1>2. \A f \in Files : FileOK(F[f], L)
  BY DEF DiskOK
<1>3. ASSUME NEW u \in Threads, u # t PROVE WriteOK(W[u], U, L)
  <2> SUFFICES ASSUME W[u] # None PROVE WriteOK(W[u], U, L)
    BY DEF WriteOK
  <2>1. WriteOK(W[u], T, L)
    BY DEF DiskOK
  <2>2. CASE W[u].stage # "create"
    <3>1. W[u].temp \in DOMAIN T /\ T[W[u].temp] = Written(W[u].stage, W[u].rec)
      BY <2>1, <2>2 DEF WriteOK
    <3>2. ~Owns(W[t]) \/ W[u].temp # W[t].temp
      BY <1>3, <2>2 DEF DiskOK, Owns
    <3>3. QED
      BY <2>1, <3>1, <3>2 DEF WriteOK
  <2>3. CASE W[u].stage = "create"
    BY <2>1, <2>3 DEF WriteOK
  <2>4. QED
    BY <2>2, <2>3
<1>4. \A u \in Threads : WriteOK(X[u], U, L)
  BY <1>1, <1>3
<1>5. ASSUME NEW u \in Threads, u # t, Owns(w), Owns(W[u]) PROVE w.temp # W[u].temp
  <2>1. W[u].temp \in DOMAIN T
    BY <1>5 DEF DiskOK, WriteOK, Owns
  <2>2. Owns(W[t]) => W[t].temp # W[u].temp
    BY <1>5 DEF DiskOK
  <2>3. QED
    BY <1>5, <2>1, <2>2
<1>6. \A u, x \in Threads : u # x /\ Owns(X[u]) /\ Owns(X[x]) => X[u].temp # X[x].temp
  <2>1. \A u, x \in Threads : u # x /\ Owns(W[u]) /\ Owns(W[x]) => W[u].temp # W[x].temp
    BY DEF DiskOK
  <2>2. QED
    BY <1>1, <1>5, <2>1
<1>7. DiskOK(F, U, X, L)
  BY <1>2, <1>4, <1>6 DEF DiskOK
<1>8. QED
  BY <1>7 DEF X

LEMMA CreateStep ==
  ASSUME TypeInv, CacheInv, NEW t \in Threads, CreateTemp(t) PROVE TypeInv' /\ CacheInv'
<1> DEFINE p == ProcOf[t[1]]
<1>1. io \in [Threads -> Writes \cup {None}] /\ next \in [Procs -> Nat] /\ DOMAIN files = Files
  BY DEF TypeInv
<1>2. io[t] \in Writes /\ io[t] # None /\ io[t].stage = "create" /\ ~Owns(io[t])
  BY <1>1 DEF CreateTemp, Owns
<1>3. p \in Procs
  BY CacheAssumption DEF Threads
<1>4. DiskOK(files, temps, io, log) /\ OnDisk /\ files' = files
  BY DEF CacheInv, CreateTemp, OnDisk
<1>5. TrueRec(io[t].rec, log)
  BY <1>2, <1>4 DEF DiskOK, WriteOK
<1>6. CASE io[t].temp \in DOMAIN temps
  <2> DEFINE w == [io[t] EXCEPT !.temp = <<p, next[p] + 1>>]
  <2>1. next[p] + 1 \in Nat
    BY <1>1, <1>3
  <2>2. /\ io' = [io EXCEPT ![t] = w] /\ temps' = temps
        /\ next' = [next EXCEPT ![p] = next[p] + 1]
    BY <1>6 DEF CreateTemp
  <2>3. w \in Writes /\ w.stage = "create" /\ w.rec = io[t].rec
    BY <1>2, <1>3, <2>1 DEF Writes
  <2>4. next' \in [Procs -> Nat]
    BY <1>1, <2>1, <2>2
  <2>5. WriteOK(w, temps, log) /\ ~Owns(w)
    BY <1>5, <2>3 DEF WriteOK, Owns
  <2> HIDE DEF w
  <2>6. DiskOK(files, temps, [io EXCEPT ![t] = w], log)
    BY <1>1, <1>4, <2>3, <2>5, WriteMoves
  <2>7. io' \in [Threads -> Writes \cup {None}]
    BY <1>1, <2>2, <2>3
  <2>8. QED
    BY <1>1, <1>4, <2>2, <2>4, <2>6, <2>7, DiskOnly
<1>7. CASE io[t].temp \notin DOMAIN temps
  <2> DEFINE w == [io[t] EXCEPT !.stage = "head"]
             U == [n \in DOMAIN temps \cup {io[t].temp} |->
                     IF n = io[t].temp THEN <<>> ELSE temps[n]]
  <2>1. io' = [io EXCEPT ![t] = w] /\ temps' = U /\ next' = next
    BY <1>7 DEF CreateTemp, Advance
  <2>2. w \in Writes /\ w.stage = "head" /\ w.rec = io[t].rec /\ w.temp = io[t].temp
    BY <1>2 DEF Writes
  <2>3. /\ w.temp \in DOMAIN U /\ U[w.temp] = << >>
        /\ \A n \in DOMAIN temps : n \in DOMAIN U /\ U[n] = temps[n]
    BY <1>7, <2>2
  <2>4. Written("head", w.rec) = << >>
    BY Zenon DEF Written
  <2> HIDE DEF w, U
  <2>5. WriteOK(w, U, log)
    BY <1>5, <2>2, <2>3, <2>4 DEF WriteOK
  <2>6. DiskOK(files, U, [io EXCEPT ![t] = w], log)
    BY <1>1, <1>4, <1>7, <2>2, <2>3, <2>5, WriteMoves
  <2>7. io' \in [Threads -> Writes \cup {None}]
    BY <1>1, <2>1, <2>2
  <2>8. QED
    BY <1>1, <1>4, <2>1, <2>6, <2>7, DiskOnly
<1>8. QED
  BY <1>6, <1>7

LEMMA AppendPair ==
  ASSUME NEW a, NEW b PROVE Append(<< >>, a) = <<a>> /\ Append(<<a>>, b) = <<a, b>>
<1>1. << >> \in Seq({a, b}) /\ <<a>> \in Seq({a, b}) /\ <<a, b>> \in Seq({a, b})
  OBVIOUS
<1>2. /\ Len(<< >>) = 0 /\ Len(<<a>>) = 1 /\ Len(<<a, b>>) = 2
      /\ <<a>>[1] = a /\ <<a, b>>[1] = a /\ <<a, b>>[2] = b
  OBVIOUS
<1>3. /\ Append(<< >>, a) \in Seq({a, b}) /\ Len(Append(<< >>, a)) = 1 /\ Append(<< >>, a)[1] = a
      /\ Append(<<a>>, b) \in Seq({a, b}) /\ Len(Append(<<a>>, b)) = 2
      /\ Append(<<a>>, b)[1] = a /\ Append(<<a>>, b)[2] = b
  BY <1>1, <1>2, AppendProperties
<1>4. \A s, u \in Seq({a, b}) : Len(s) = Len(u) /\ (\A n \in 1 .. Len(s) : s[n] = u[n]) => s = u
  BY SeqEqual
<1>5. /\ \A n \in 1 .. 1 : Append(<< >>, a)[n] = <<a>>[n]
      /\ \A n \in 1 .. 2 : Append(<<a>>, b)[n] = <<a, b>>[n]
  <2>1. \A n \in 1 .. 2 : n = 1 \/ n = 2
    OBVIOUS
  <2>2. \A n \in 1 .. 1 : n = 1
    OBVIOUS
  <2>3. QED
    BY <1>2, <1>3, <2>1, <2>2, Zenon
<1>6. Append(<< >>, a) = <<a>>
  BY <1>1, <1>2, <1>3, <1>4, <1>5
<1>7. Append(<<a>>, b) = <<a, b>>
  BY <1>1, <1>2, <1>3, <1>4, <1>5
<1>8. QED
  BY <1>6, <1>7

LEMMA ChunkStep ==
  ASSUME TypeInv, CacheInv, NEW t \in Threads, NEW part, NEW then, WriteChunk(t, part, then),
         (part = "head" /\ then = "body") \/ (part = "body" /\ then = "rename")
  PROVE  TypeInv' /\ CacheInv'
<1>1. io \in [Threads -> Writes \cup {None}] /\ next \in [Procs -> Nat] /\ DOMAIN files = Files
  BY DEF TypeInv
<1>2. io[t] \in Writes /\ io[t] # None /\ io[t].stage = part /\ Owns(io[t])
  BY <1>1 DEF WriteChunk, Owns
<1>3. DiskOK(files, temps, io, log) /\ OnDisk /\ files' = files /\ next' = next
  BY DEF CacheInv, WriteChunk, OnDisk
<1>4. /\ TrueRec(io[t].rec, log) /\ io[t].temp \in DOMAIN temps
      /\ temps[io[t].temp] = Written(part, io[t].rec)
  BY <1>2, <1>3 DEF DiskOK, WriteOK, Owns
<1> DEFINE w == [io[t] EXCEPT !.stage = then]
           U == [n \in DOMAIN temps |->
                   IF n = io[t].temp
                   THEN Append(temps[n], Chunk(part, io[t].rec))
                   ELSE temps[n]]
<1>5. io' = [io EXCEPT ![t] = w] /\ temps' = U
  BY DEF WriteChunk, Advance, Chunk
<1>6. w \in Writes /\ w.stage = then /\ w.rec = io[t].rec /\ w.temp = io[t].temp
  BY <1>2 DEF Writes
<1>7. /\ w.temp \in DOMAIN U /\ U[w.temp] = Append(Written(part, w.rec), Chunk(part, w.rec))
      /\ \A n \in DOMAIN temps : n # io[t].temp => n \in DOMAIN U /\ U[n] = temps[n]
  BY <1>4, <1>6
<1>8. Append(Written(part, w.rec), Chunk(part, w.rec)) = Written(then, w.rec)
  <2>1. /\ Written("head", w.rec) = << >>
        /\ Written("body", w.rec) = <<Chunk("head", w.rec)>>
        /\ Written("rename", w.rec) = <<Chunk("head", w.rec), Chunk("body", w.rec)>>
    BY Zenon DEF Written
  <2> HIDE DEF w, U
  <2>2. QED
    BY <2>1, AppendPair
<1> HIDE DEF w, U
<1>9. WriteOK(w, U, log)
  BY <1>4, <1>6, <1>7, <1>8 DEF WriteOK
<1>10. DiskOK(files, U, [io EXCEPT ![t] = w], log)
  <2>1. \A n \in DOMAIN temps : (~Owns(io[t]) \/ n # io[t].temp) => n \in DOMAIN U /\ U[n] = temps[n]
    BY <1>2, <1>7
  <2>2. Owns(io[t]) /\ w.temp = io[t].temp /\ w \in Writes \cup {None}
    BY <1>2, <1>6
  <2>3. QED
    BY <1>1, <1>3, <1>9, <2>1, <2>2, WriteMoves
<1>11. io' \in [Threads -> Writes \cup {None}]
  BY <1>1, <1>5, <1>6
<1>12. QED
  BY <1>1, <1>3, <1>5, <1>10, <1>11, DiskOnly

LEMMA FailStep ==
  ASSUME TypeInv, CacheInv, NEW t \in Threads, WriteFails(t) PROVE TypeInv' /\ CacheInv'
<1>1. io \in [Threads -> Writes \cup {None}] /\ next \in [Procs -> Nat] /\ DOMAIN files = Files
  BY DEF TypeInv
<1>2. /\ DiskOK(files, temps, io, log) /\ OnDisk /\ files' = files /\ next' = next
      /\ io' = [io EXCEPT ![t] = None] /\ io[t] # None
  BY DEF CacheInv, WriteFails, OnDisk
<1>3. \A n \in DOMAIN temps : (~Owns(io[t]) \/ n # io[t].temp) => n \in DOMAIN temps' /\ temps'[n] = temps[n]
  BY <1>2 DEF WriteFails, Owns, Without
<1>4. WriteOK(None, temps', log) /\ ~Owns(None)
  BY DEF WriteOK, Owns
<1>5. DiskOK(files, temps', [io EXCEPT ![t] = None], log)
  BY <1>1, <1>2, <1>3, <1>4, WriteMoves
<1>6. io' \in [Threads -> Writes \cup {None}]
  BY <1>1, <1>2
<1>7. QED
  BY <1>1, <1>2, <1>5, <1>6, DiskOnly

LEMMA RenameStep ==
  ASSUME TypeInv, CacheInv, NEW t \in Threads, Rename(t) PROVE TypeInv' /\ CacheInv'
<1>1. io \in [Threads -> Writes \cup {None}] /\ next \in [Procs -> Nat] /\ DOMAIN files = Files
  BY DEF TypeInv
<1>2. /\ DiskOK(files, temps, io, log) /\ OnDisk /\ next' = next
      /\ io' = [io EXCEPT ![t] = None] /\ io[t] # None /\ io[t].stage = "rename"
      /\ files' = [files EXCEPT ![io[t].name] = temps[io[t].temp]]
  BY DEF CacheInv, Rename, OnDisk
<1>3. /\ io[t].rec \in Records /\ TrueRec(io[t].rec, log)
      /\ temps[io[t].temp] = Written("rename", io[t].rec)
  BY <1>1, <1>2 DEF DiskOK, WriteOK, Writes
<1>4. FileOK(Written("rename", io[t].rec), log)
  <2> DEFINE r == io[t].rec
  <2>1. Written("rename", r) = <<Chunk("head", r), Chunk("body", r)>>
    BY Zenon DEF Written
  <2>2. Written("rename", r)[1].rec = r
    BY <2>1 DEF Chunk
  <2>3. QED
    BY <1>3, <2>2 DEF FileOK
<1>5. \A f \in Files : FileOK(files'[f], log)
  <2>1. \A f \in Files : FileOK(files[f], log)
    BY <1>2 DEF DiskOK
  <2>2. QED
    BY <1>1, <1>2, <1>3, <1>4, <2>1
<1>6. \A n \in DOMAIN temps : n # io[t].temp => n \in DOMAIN temps' /\ temps'[n] = temps[n]
  BY DEF Rename, Without
<1>7. WriteOK(None, temps', log) /\ ~Owns(None) /\ Owns(io[t])
  BY <1>2 DEF WriteOK, Owns
<1>8. DiskOK(files, temps', [io EXCEPT ![t] = None], log)
  BY <1>1, <1>2, <1>6, <1>7, WriteMoves
<1>9. DiskOK(files', temps', io', log)
  BY <1>2, <1>5, <1>8 DEF DiskOK
<1>10. io' \in [Threads -> Writes \cup {None}] /\ DOMAIN files' = Files
  BY <1>1, <1>2
<1>11. QED
  BY <1>1, <1>2, <1>9, <1>10, DiskOnly
-----------------------------------------------------------------------------
(* What the steps of a handle have in common                                 *)

LEMMA SameStore == ASSUME TypeInv, UNCHANGED <<log, objects>> PROVE Grows
BY SameExtends DEF TypeInv, Logs, Grows

LEMMA SameFiles == ASSUME TypeInv, UNCHANGED <<files, temps, next>> PROVE Sweeps
BY DEF TypeInv, Sweeps

LEMMA RemoveSweeps ==
  ASSUME TypeInv, NEW k, RemoveSnapshot(k), UNCHANGED <<temps, next>> PROVE Sweeps
BY DEF TypeInv, Sweeps, RemoveSnapshot

LEMMA RetainSweeps ==
  ASSUME TypeInv, NEW k, RetainSnapshot(k), UNCHANGED <<temps, next>> PROVE Sweeps
BY DEF TypeInv, Sweeps, RetainSnapshot

\* The bytes of a snapshot object are its record's whenever it is saved.
LEMMA SnapSaves ==
  ASSUME NEW t \in Threads, NEW k \in Keys, SaveSnapshot(t, k) PROVE Saves
<1>1. WalOf[t[1]] \in Wals /\ NameOf[k] \in Files /\ k # None
  BY CacheAssumption DEF Threads, Files
<1> DEFINE rec == SnapRecord(WalOf[t[1]], k)
<1>2. rec \in Records
  BY <1>1 DEF SnapRecord, Records, SnapRecords, Snapshots, Bytes
<1>3. rec.key = k /\ rec.id = WalOf[t[1]] /\ rec.body = Bytes(WalOf[t[1]], k)
  BY DEF SnapRecord
<1>4. Save(t, NameOf[k], rec)
  BY DEF SaveSnapshot
<1> HIDE DEF rec
<1>5. TrueRec(rec, log')
  BY <1>1, <1>3 DEF TrueRec
<1>6. QED
  BY <1>1, <1>2, <1>4, <1>5 DEF Saves

LEMMA ImageSaves ==
  ASSUME NEW h \in Handles, NEW etag \in Nat, NEW image \in Images,
         Version(etag, image, log'[WalOf[h]]), SaveWal(h, etag, image)
  PROVE  Saves
<1>1. WalOf[h] \in Wals /\ WalName \in Files /\ <<h, "main">> \in Threads
  BY CacheAssumption DEF Threads, Files
<1> DEFINE rec == WalRecord(WalOf[h], etag, image)
<1>2. rec \in Records
  BY <1>1 DEF WalRecord, Records, WalRecords
<1>3. rec.key = None /\ rec.id = WalOf[h] /\ rec.body = image /\ rec.etag = etag
  BY DEF WalRecord
<1>4. Save(<<h, "main">>, WalName, rec)
  BY DEF SaveWal
<1> HIDE DEF rec
<1>5. TrueRec(rec, log')
  BY <1>1, <1>3 DEF TrueRec, Version
<1>6. QED
  BY <1>1, <1>2, <1>4, <1>5 DEF Saves

LEMMA PutSaves ==
  ASSUME NEW h \in Handles, NEW etag \in Nat, NEW image \in Images,
         Version(etag, image, log'[WalOf[h]]), RecordImagePut(h, etag, image)
  PROVE  Saves /\ dirty' = [dirty EXCEPT ![h] = Policy[h] = "OnFlush"]
<1>1. Saves
  BY ImageSaves DEF RecordImagePut, Saves
<1>2. QED
  BY <1>1 DEF RecordImagePut

\* What passes the checks of a load is true, and of the handle's own log.
LEMMA Loaded ==
  ASSUME TypeInv, CacheInv, NEW h \in Handles, NEW name \in Files, NEW key, NEW rec,
         rec = Load(h, name, key), rec # None
  PROVE  rec \in Records /\ rec.id = WalOf[h] /\ rec.key = key /\ TrueRec(rec, log)
<1>1. /\ rec = files[name][1].rec /\ rec.id = WalOf[h] /\ rec.key = key
      /\ files[name] # None /\ Len(files[name]) = 2
  BY DEF Load, Checked
<1>2. files[name] # Torn
  BY <1>1 DEF Torn
<1>3. FileOK(files[name], log)
  BY DEF CacheInv, DiskOK
<1>4. QED
  BY <1>1, <1>2, <1>3 DEF FileOK

LEMMA LoadedImage ==
  ASSUME TypeInv, CacheInv, NEW h \in Handles, LoadWal(h) # None
  PROVE  /\ LoadWal(h) \in WalRecords /\ LoadWal(h).id = WalOf[h]
         /\ Version(LoadWal(h).etag, LoadWal(h).body, log[WalOf[h]])
<1> DEFINE rec == LoadWal(h)
<1>1. WalName \in Files /\ None \notin Keys
  BY CacheAssumption DEF Files
<1>2. rec = Load(h, WalName, None) /\ rec # None
  BY DEF LoadWal
<1> HIDE DEF rec
<1>3. rec \in Records /\ rec.id = WalOf[h] /\ rec.key = None /\ TrueRec(rec, log)
  BY <1>1, <1>2, Loaded
<1>4. rec \in WalRecords
  BY <1>1, <1>3 DEF Records, SnapRecords
<1>5. Version(rec.etag, rec.body, log[WalOf[h]])
  BY <1>3 DEF TrueRec, Version
<1>6. QED
  BY <1>3, <1>4, <1>5 DEF rec

LEMMA LoadedSnapshot ==
  ASSUME TypeInv, CacheInv, NEW h \in Handles, NEW k \in Keys, LoadSnapshot(h, k) # None
  PROVE  LoadSnapshot(h, k).body = Bytes(WalOf[h], k)
<1> DEFINE rec == LoadSnapshot(h, k)
<1>1. NameOf[k] \in Files /\ k # None
  BY CacheAssumption DEF Files
<1>2. rec = Load(h, NameOf[k], k) /\ rec # None
  BY DEF LoadSnapshot
<1> HIDE DEF rec
<1>3. rec.id = WalOf[h] /\ rec.key = k /\ TrueRec(rec, log)
  BY <1>1, <1>2, Loaded
<1>4. rec.body = Bytes(WalOf[h], k)
  BY <1>1, <1>3 DEF TrueRec
<1>5. QED
  BY <1>4 DEF rec

\* A function is its own update.
LEMMA Kept ==
  ASSUME TypeInv, NEW h \in Handles
  PROVE  /\ main = [main EXCEPT ![h] = main[h]] /\ view = [view EXCEPT ![h] = view[h]]
         /\ dirty = [dirty EXCEPT ![h] = dirty[h]] /\ job = [job EXCEPT ![h] = job[h]]
BY DEF TypeInv

LEMMA HandleFacts ==
  ASSUME CacheInv, NEW h \in Handles
  PROVE  HandleOK(h, main[h], view[h], dirty[h], log[WalOf[h]]) /\ FoldOK(job[h])
BY DEF CacheInv

LEMMA VersionTyped ==
  ASSUME NEW V \in Seq(Images), NEW etag, NEW image, Version(etag, image, V)
  PROVE  etag \in Nat /\ etag > 0 /\ etag <= Len(V) /\ image \in Images
<1>1. Len(V) \in Nat /\ etag \in 1 .. Len(V)
  BY DEF Version
<1>2. V[etag] \in Images
  BY <1>1
<1>3. QED
  BY <1>1, <1>2 DEF Version

LEMMA LatestVersion ==
  ASSUME TypeInv, NEW i \in Wals, log[i] # << >>
  PROVE  Version(Len(log[i]), Latest(i), log[i]) /\ Latest(i) \in Images
<1>1. log[i] \in Seq(Images)
  BY DEF TypeInv
<1>2. Len(log[i]) \in Nat /\ Len(log[i]) # 0
  BY <1>1, EmptySeq
<1>3. Version(Len(log[i]), Latest(i), log[i])
  BY <1>2 DEF Version, Latest
<1>4. QED
  BY <1>1, <1>3, VersionTyped
-----------------------------------------------------------------------------
(* Core::open                                                                *)

LEMMA OpenStep ==
  ASSUME TypeInv, CacheInv, NEW h \in Handles, Open(h) PROVE TypeInv' /\ CacheInv'
<1> DEFINE c == LoadWal(h)
           m == [Closed EXCEPT !.pc = "get", !.cached = c, !.began = Len(log[WalOf[h]])]
<1>1. HandleOK(h, main[h], view[h], dirty[h], log[WalOf[h]]) /\ FoldOK(job[h])
  BY HandleFacts
<1>2. c # None => c \in WalRecords /\ c.id = WalOf[h] /\ Version(c.etag, c.body, log[WalOf[h]])
  BY LoadedImage
<1>3. main' = [main EXCEPT ![h] = m]
  BY DEF Open
<1>4. /\ UNCHANGED <<log, objects, files, temps, next, io, view, dirty, job>>
      /\ main[h].pc = "closed"
  BY DEF Open, At, store, disk
<1>5. view[h] = None /\ ~dirty[h]
  BY <1>1, <1>4 DEF HandleOK
<1> HIDE DEF c
<1>6. m \in Mains /\ m.pc = "get" /\ m.cached = c /\ m.began = Len(log[WalOf[h]])
  BY <1>2, LogOf DEF Mains, Closed
<1> HIDE DEF m
<1>7. HandleOK(h, m, view[h], dirty[h], log'[WalOf[h]])
  BY <1>2, <1>4, <1>5, <1>6, LogOf DEF HandleOK
<1>8. Grows /\ Sweeps /\ Saves
  BY <1>4, SameStore, SameFiles DEF Saves
<1>9. Goes(h, m, view[h], dirty[h], job[h])
  BY <1>1, <1>3, <1>4, <1>6, <1>7, Kept, LogOf DEF Goes
<1>10. QED
  BY <1>8, <1>9, HandleMoves

\* Every way to a version leads on with that version.
LEMMA GotStep ==
  ASSUME TypeInv, CacheInv, NEW h \in Handles, main[h].pc = "get", NEW etag, NEW image,
         Got(h, etag, image), Grows, UNCHANGED <<disk, view, dirty, job>>,
         Version(etag, image, log'[WalOf[h]]), Len(log[WalOf[h]]) <= etag
  PROVE  TypeInv' /\ CacheInv'
<1> DEFINE m == [main[h] EXCEPT !.etag = etag, !.image = image, !.restored = None,
                                !.pc = IF image.snap = None THEN "restored" ELSE "snapshot"]
<1>1. HandleOK(h, main[h], view[h], dirty[h], log[WalOf[h]]) /\ FoldOK(job[h])
  BY HandleFacts
<1>2. /\ log[WalOf[h]] \in Seq(Images) /\ log'[WalOf[h]] \in Seq(Images)
      /\ Longer(log[WalOf[h]], log'[WalOf[h]]) /\ main[h] \in Mains
  BY LogOf DEF Grows, Logs, Extends
<1>3. etag \in Nat /\ image \in Images
  BY <1>2, VersionTyped
<1>4. main' = [main EXCEPT ![h] = m]
  BY <1>2 DEF Got, TypeInv, Mains
<1>5. /\ m \in Mains /\ m.etag = etag /\ m.image = image /\ m.restored = None
      /\ m.cached = main[h].cached /\ m.began = main[h].began
      /\ m.pc = IF image.snap = None THEN "restored" ELSE "snapshot"
  BY <1>2, <1>3 DEF Mains
<1> HIDE DEF m
<1>6. view[h] = None /\ ~dirty[h] /\ main[h].began <= Len(log[WalOf[h]])
  BY <1>1 DEF HandleOK
<1>7. m.began <= etag
  BY <1>2, <1>3, <1>5, <1>6, LogOf DEF Mains
<1>8. m.cached # None => m.cached.id = WalOf[h] /\ Version(m.cached.etag, m.cached.body, log'[WalOf[h]])
  BY <1>1, <1>2, <1>5, VersionStays DEF HandleOK
<1>9. Restored(m.restored, WalOf[h], m.etag, log'[WalOf[h]])
  BY <1>5 DEF Restored
<1>10. HandleOK(h, m, view[h], dirty[h], log'[WalOf[h]])
  BY <1>5, <1>6, <1>7, <1>8, <1>9 DEF HandleOK
<1>11. Sweeps /\ Saves
  BY SameFiles DEF Saves, disk
<1>12. view' = view /\ dirty' = dirty /\ job' = job
  OBVIOUS
<1>13. Goes(h, m, view[h], dirty[h], job[h])
  BY <1>1, <1>4, <1>5, <1>10, <1>12, Kept, LogOf DEF Goes
<1>14. QED
  BY <1>11, <1>13, HandleMoves

LEMMA OpenGetStep ==
  ASSUME TypeInv, CacheInv, NEW h \in Handles, OpenGet(h) PROVE TypeInv' /\ CacheInv'
<1> DEFINE V == log[WalOf[h]]
           cached == main[h].cached
<1>1. /\ main[h].pc = "get" /\ Len(V) > 0 /\ UNCHANGED <<log, objects>>
      /\ UNCHANGED <<disk, view, dirty, job>>
      /\ IF cached # None /\ cached.etag = Len(V)
         THEN Got(h, cached.etag, cached.body) ELSE Got(h, Len(V), Latest(WalOf[h]))
  BY DEF OpenGet, At, store
<1>2. V # << >> /\ WalOf[h] \in Wals /\ Len(V) \in Nat
  BY <1>1, LogOf
<1>3. Version(Len(V), Latest(WalOf[h]), V)
  BY <1>2, LatestVersion
<1>4. cached # None => Version(cached.etag, cached.body, V)
  BY HandleFacts DEF HandleOK
<1>5. Grows
  BY <1>1, SameStore
<1>6. CASE cached # None /\ cached.etag = Len(V)
  BY <1>1, <1>2, <1>4, <1>5, <1>6, GotStep
<1>7. CASE ~(cached # None /\ cached.etag = Len(V))
  BY <1>1, <1>2, <1>3, <1>5, <1>7, GotStep
<1>8. QED
  BY <1>6, <1>7

LEMMA EmptyImage == ASSUME NEW i \in Wals PROVE Empty(i) \in Images
BY DEF Empty, Images

LEMMA OpenCreateStep ==
  ASSUME TypeInv, CacheInv, NEW h \in Handles, OpenCreate(h) PROVE TypeInv' /\ CacheInv'
<1> DEFINE i == WalOf[h]
<1>1. /\ main[h].pc = "get" /\ log[i] = << >> /\ objects' = objects
      /\ UNCHANGED <<disk, view, dirty, job>> /\ Got(h, 1, Empty(i))
      /\ log' = [log EXCEPT ![i] = <<Empty(i)>>]
  BY DEF OpenCreate, At
<1>2. i \in Wals /\ log \in Logs /\ Len(log[i]) = 0
  BY <1>1, LogOf DEF TypeInv, Logs
<1>3. <<Empty(i)>> = Append(log[i], Empty(i))
  BY <1>1, AppendPair
<1>4. log' = [log EXCEPT ![i] = Append(@, Empty(i))]
  BY <1>1, <1>3
<1>5. log' \in Logs /\ Extends(log, log') /\ Version(Len(log[i]) + 1, Empty(i), log'[i])
  BY <1>2, <1>4, EmptyImage, AppendExtends
<1>6. Grows
  BY <1>1, <1>5 DEF Grows, TypeInv
<1>7. QED
  BY <1>1, <1>2, <1>5, <1>6, GotStep

LEMMA OpenMissingStep ==
  ASSUME TypeInv, CacheInv, NEW h \in Handles, OpenMissing(h) PROVE TypeInv' /\ CacheInv'
<1> DEFINE i == WalOf[h]
           m == [main[h] EXCEPT !.pc = "idle"]
           v == [etag |-> 0, image |-> Empty(i), restored |-> None]
<1>1. /\ main[h].pc = "get" /\ log[i] = << >> /\ UNCHANGED <<log, objects>>
      /\ UNCHANGED <<temps, next, io, dirty, job>> /\ RetainSnapshot(None)
      /\ main' = [main EXCEPT ![h] = m] /\ view' = [view EXCEPT ![h] = v]
  BY DEF OpenMissing, At, store, Goto
<1>2. HandleOK(h, main[h], view[h], dirty[h], log[i]) /\ FoldOK(job[h])
  BY HandleFacts
<1>3. i \in Wals /\ main[h] \in Mains
  BY LogOf
<1>4. /\ m \in Mains /\ m.pc = "idle" /\ m.cached = main[h].cached /\ m.began = main[h].began
      /\ v \in Views /\ v.etag = 0 /\ v.restored = None
  BY <1>3, EmptyImage DEF Mains, Views
<1> HIDE DEF m, v
<1>5. m.began <= v.etag /\ ~dirty[h]
  BY <1>1, <1>2, <1>4 DEF HandleOK
<1>6. Restored(v.restored, i, v.etag, log[i])
  BY <1>4 DEF Restored
<1>7. HandleOK(h, m, v, dirty[h], log'[i])
  BY <1>1, <1>2, <1>4, <1>5, <1>6 DEF HandleOK
<1>8. Grows /\ Sweeps /\ Saves
  BY <1>1, SameStore, RetainSweeps DEF Saves
<1>9. Goes(h, m, v, dirty[h], job[h])
  BY <1>1, <1>2, <1>4, <1>7, Kept, LogOf DEF Goes
<1>10. QED
  BY <1>8, <1>9, HandleMoves

\* fetch_snapshot answers with the bytes of the key, from wherever they come.
LEMMA FetchSaves ==
  ASSUME NEW t \in Threads, NEW k \in Keys, NEW hit, NEW stored, Fetch(t, k, hit, stored)
  PROVE  Saves /\ ((LoadSnapshot(t[1], k) # None /\ hit) \/ stored)
BY SnapSaves DEF Fetch, Saves

LEMMA RestoreStep ==
  ASSUME TypeInv, CacheInv, NEW h \in Handles, NEW from, NEW to, Restore(h, from, to),
         (from = "snapshot" /\ to = "restored") \/ (from = "rebuild" /\ to = "adopt")
  PROVE  TypeInv' /\ CacheInv'
<1> DEFINE i == WalOf[h]
           V == log[i]
           k == main[h].image.snap
           bytes == Bytes(i, k)
           m == [main[h] EXCEPT !.restored = bytes, !.pc = to]
<1>1. HandleOK(h, main[h], view[h], dirty[h], V) /\ FoldOK(job[h])
  BY HandleFacts
<1>2. /\ i \in Wals /\ V \in Seq(Images) /\ main[h] \in Mains
      /\ main[h].pc = from /\ <<h, "main">> \in Threads /\ <<h, "main">>[1] = h
      /\ UNCHANGED <<log, objects, files, temps, next, view, dirty, job>>
  BY LogOf DEF Restore, At, store, Threads
<1>3. Version(main[h].etag, main[h].image, V) /\ main[h].began <= main[h].etag /\ k # None
  BY <1>1, <1>2 DEF HandleOK
<1>4. k \in Keys /\ main[h].etag \in 1 .. main[h].etag
  <2>1. main[h].image \in Images /\ main[h].etag \in Nat /\ main[h].etag > 0
    BY <1>2, <1>3, VersionTyped
  <2>2. QED
    BY <1>3, <2>1 DEF Images
<1>5. /\ Saves
      /\ \/ LoadSnapshot(h, k) # None /\ main' = [main EXCEPT ![h].restored = LoadSnapshot(h, k).body, ![h].pc = to]
         \/ main' = [main EXCEPT ![h].restored = bytes, ![h].pc = to]
  <2>1. Fetch(<<h, "main">>, k,
              main' = [main EXCEPT ![h].restored = LoadSnapshot(h, k).body, ![h].pc = to],
              main' = [main EXCEPT ![h].restored = bytes, ![h].pc = to])
    BY DEF Restore
  <2>2. QED
    BY <1>2, <1>4, <2>1, FetchSaves
<1>6. LoadSnapshot(h, k) # None => LoadSnapshot(h, k).body = bytes
  BY <1>4, LoadedSnapshot
<1>7. bytes \in Snapshots
  BY <1>2, <1>4 DEF Bytes, Snapshots
<1>8. Restored(bytes, i, main[h].etag, V)
  BY <1>3, <1>4 DEF Restored, Version
<1> HIDE DEF bytes
<1>9. main' = [main EXCEPT ![h] = m]
  BY <1>2, <1>5, <1>6 DEF TypeInv, Mains
<1>10. /\ m \in Mains /\ m.restored = bytes /\ m.pc = to /\ m.cached = main[h].cached
       /\ m.etag = main[h].etag /\ m.image = main[h].image /\ m.began = main[h].began
  BY <1>2, <1>7 DEF Mains
<1> HIDE DEF m, k
<1>11. HandleOK(h, m, view[h], dirty[h], V)
  BY <1>1, <1>2, <1>3, <1>8, <1>10 DEF HandleOK
<1>12. Goes(h, m, view[h], dirty[h], job[h])
  BY <1>1, <1>2, <1>9, <1>10, <1>11, Kept, LogOf DEF Goes
<1>13. Grows /\ Sweeps
  BY <1>2, SameStore, SameFiles
<1>14. QED
  BY <1>5, <1>12, <1>13, HandleMoves

LEMMA ClosedOK ==
  ASSUME NEW h \in Handles, NEW V
  PROVE  Closed \in Mains /\ HandleOK(h, Closed, None, FALSE, V)
<1>1. /\ Closed.pc = "closed" /\ Closed.cached = None /\ Closed \in Mains
  BY DEF Closed, Mains
<1>2. QED
  BY <1>1 DEF HandleOK

LEMMA OpenAgainStep ==
  ASSUME TypeInv, CacheInv, NEW h \in Handles, OpenAgain(h) PROVE TypeInv' /\ CacheInv'
<1> DEFINE V == log[WalOf[h]]
           m == [main[h] EXCEPT !.pc = "get"]
<1>1. HandleOK(h, main[h], view[h], dirty[h], V) /\ FoldOK(job[h])
  BY HandleFacts
<1>2. /\ V \in Seq(Images) /\ Len(V) \in Nat /\ main[h] \in Mains /\ main[h].pc = "snapshot"
      /\ UNCHANGED <<log, objects, files, temps, next, io, view, dirty, job>>
  BY LogOf DEF OpenAgain, At, store, disk
<1>3. /\ view[h] = None /\ ~dirty[h] /\ main[h].began <= main[h].etag
      /\ Version(main[h].etag, main[h].image, V)
  BY <1>1, <1>2 DEF HandleOK
<1>4. main[h].began <= Len(V)
  BY <1>2, <1>3, VersionTyped DEF Mains
<1>5. m \in Mains /\ m.pc = "get" /\ m.cached = main[h].cached /\ m.began = main[h].began
  BY <1>2 DEF Mains
<1>6. main' = [main EXCEPT ![h] = m] \/ main' = [main EXCEPT ![h] = Closed]
  BY DEF OpenAgain, Goto
<1> HIDE DEF m
<1>7. HandleOK(h, m, view[h], dirty[h], V)
  BY <1>1, <1>3, <1>4, <1>5 DEF HandleOK
<1>8. Closed \in Mains /\ HandleOK(h, Closed, view[h], dirty[h], V)
  <2>1. dirty[h] = FALSE
    BY <1>3, LogOf
  <2>2. QED
    BY <1>3, <2>1, ClosedOK
<1>9. Goes(h, m, view[h], dirty[h], job[h]) \/ Goes(h, Closed, view[h], dirty[h], job[h])
  BY <1>1, <1>2, <1>5, <1>6, <1>7, <1>8, Kept, LogOf DEF Goes
<1>10. Grows /\ Sweeps /\ Saves
  BY <1>2, SameStore, SameFiles DEF Saves
<1>11. QED
  BY <1>9, <1>10, HandleMoves

\* Opened and Adopt: what the call has read becomes what the handle shows.
LEMMA ShownStep ==
  ASSUME TypeInv, CacheInv, NEW h \in Handles, main[h].pc \in {"restored", "adopt"}, Sweeps,
         view' = [view EXCEPT ![h] = [etag |-> main[h].etag, image |-> main[h].image,
                                      restored |-> main[h].restored]],
         RecordImagePut(h, main[h].etag, main[h].image), Goto(h, "idle"),
         UNCHANGED <<log, objects, job>>
  PROVE  TypeInv' /\ CacheInv'
<1> DEFINE V == log[WalOf[h]]
           m == [main[h] EXCEPT !.pc = "idle"]
           v == [etag |-> main[h].etag, image |-> main[h].image, restored |-> main[h].restored]
           d == Policy[h] = "OnFlush"
<1>1. HandleOK(h, main[h], view[h], dirty[h], V) /\ FoldOK(job[h])
  BY HandleFacts
<1>2. V \in Seq(Images) /\ main[h] \in Mains
  BY LogOf
<1>3. /\ Version(main[h].etag, main[h].image, V) /\ main[h].began <= main[h].etag
      /\ Restored(main[h].restored, WalOf[h], main[h].etag, V)
  BY <1>1 DEF HandleOK
<1>4. main[h].etag \in Nat /\ main[h].etag > 0 /\ main[h].image \in Images
  BY <1>2, <1>3, VersionTyped
<1>5. Saves /\ dirty' = [dirty EXCEPT ![h] = d]
  BY <1>3, <1>4, PutSaves
<1>6. /\ m \in Mains /\ m.pc = "idle" /\ m.cached = main[h].cached /\ m.began = main[h].began
      /\ v \in Views /\ v.etag = main[h].etag /\ v.image = main[h].image /\ v.restored = main[h].restored
      /\ d \in BOOLEAN
  BY <1>2, <1>4 DEF Mains, Views
<1>7. main' = [main EXCEPT ![h] = m] /\ view' = [view EXCEPT ![h] = v]
  BY DEF Goto
<1> HIDE DEF m, v, d
<1>8. HandleOK(h, m, v, d, V)
  BY <1>1, <1>3, <1>4, <1>6 DEF HandleOK
<1>9. Goes(h, m, v, d, job[h])
  BY <1>1, <1>5, <1>6, <1>7, <1>8, Kept, LogOf DEF Goes
<1>10. Grows
  BY SameStore
<1>11. QED
  BY <1>5, <1>9, <1>10, HandleMoves

LEMMA OpenedStep ==
  ASSUME TypeInv, CacheInv, NEW h \in Handles, Opened(h) PROVE TypeInv' /\ CacheInv'
<1>1. Sweeps
  BY RetainSweeps DEF Opened
<1>2. QED
  BY <1>1, ShownStep DEF Opened, At, store

LEMMA AdoptStep ==
  ASSUME TypeInv, CacheInv, NEW h \in Handles, Adopt(h) PROVE TypeInv' /\ CacheInv'
<1>1. Sweeps
  BY RemoveSweeps, SameFiles DEF Adopt
<1>2. QED
  BY <1>1, ShownStep DEF Adopt, At, store
-----------------------------------------------------------------------------
(* Core::refresh                                                             *)

LEMMA DiscardStep ==
  ASSUME TypeInv, CacheInv, NEW h \in Handles, Discard(h) PROVE TypeInv' /\ CacheInv'
<1>1. HandleOK(h, main[h], view[h], dirty[h], log[WalOf[h]])
  BY HandleFacts
<1>2. /\ UNCHANGED <<log, objects, temps, next, io, main, view, dirty>>
      /\ job' = [job EXCEPT ![h] = None]
      /\ UNCHANGED files \/ RemoveSnapshot(job[h].key)
  BY DEF Discard, store
<1>3. Goes(h, main[h], view[h], dirty[h], None)
  BY <1>1, <1>2, Kept, LogOf DEF Goes, FoldOK
<1>4. Grows /\ Sweeps /\ Saves
  BY <1>2, SameStore, SameFiles, RemoveSweeps DEF Saves
<1>5. QED
  BY <1>3, <1>4, HandleMoves

LEMMA RefreshGetStep ==
  ASSUME TypeInv, CacheInv, NEW h \in Handles, RefreshGet(h) PROVE TypeInv' /\ CacheInv'
<1> DEFINE i == WalOf[h]
           V == log[i]
           n == Len(V)
           pc == IF Latest(i).first <= view[h].image.next THEN "adopt" ELSE "rebuild"
           m == [main[h] EXCEPT !.began = n, !.etag = n, !.image = Latest(i),
                                !.restored = view[h].restored, !.pc = pc]
<1>1. HandleOK(h, main[h], view[h], dirty[h], V) /\ FoldOK(job[h])
  BY HandleFacts
<1>2. i \in Wals /\ V \in Seq(Images) /\ n \in Nat /\ main[h] \in Mains
  BY LogOf
<1>3. /\ main[h].pc = "idle" /\ view[h].etag < n
      /\ UNCHANGED <<log, objects, files, temps, next, io, view, dirty, job>>
      /\ main' = [main EXCEPT ![h].began = n, ![h].etag = n, ![h].image = Latest(i),
                              ![h].restored = view[h].restored, ![h].pc = pc]
  BY DEF RefreshGet, Idle, At, store, disk
<1>4. main' = [main EXCEPT ![h] = m]
  BY <1>2, <1>3 DEF TypeInv, Mains
<1>5. /\ view[h] \in Views /\ (view[h].etag = 0 \/ Version(view[h].etag, view[h].image, V))
      /\ Restored(view[h].restored, i, view[h].etag, V) /\ (dirty[h] => view[h].etag # 0)
  BY <1>1, <1>3 DEF HandleOK
<1>6. view[h].etag \in Nat /\ view[h].image \in Images /\ view[h].restored \in Snapshots \cup {None}
  BY <1>5 DEF Views
<1>7. V # << >>
  BY <1>2, <1>3, <1>6
<1>8. Version(n, Latest(i), V) /\ Latest(i) \in Images
  BY <1>2, <1>7, LatestVersion
<1>9. pc = "rebuild" => Latest(i).snap # None
  BY <1>6, <1>8 DEF Images
<1>10. Restored(view[h].restored, i, n, V)
  BY <1>2, <1>3, <1>5, <1>6, SameLonger, RestoredStays
<1>11. /\ m \in Mains /\ m.began = n /\ m.etag = n /\ m.image = Latest(i)
       /\ m.restored = view[h].restored /\ m.pc = pc /\ m.cached = main[h].cached
       /\ pc \in {"adopt", "rebuild"}
  BY <1>2, <1>6, <1>8 DEF Mains
<1>12. n <= n /\ view[h].etag <= n
  BY <1>2, <1>3, <1>6
<1> HIDE DEF m, pc, n
<1>13. HandleOK(h, m, view[h], dirty[h], V)
  BY <1>1, <1>5, <1>8, <1>9, <1>10, <1>11, <1>12 DEF HandleOK
<1>14. Goes(h, m, view[h], dirty[h], job[h])
  BY <1>1, <1>3, <1>4, <1>11, <1>13, Kept, LogOf DEF Goes
<1>15. Grows /\ Sweeps /\ Saves
  BY <1>3, SameStore, SameFiles DEF Saves
<1>16. QED
  BY <1>14, <1>15, HandleMoves

LEMMA RefreshAgainStep ==
  ASSUME TypeInv, CacheInv, NEW h \in Handles, RefreshAgain(h) PROVE TypeInv' /\ CacheInv'
<1> DEFINE m == [main[h] EXCEPT !.pc = "idle", !.began = view[h].etag]
<1>1. HandleOK(h, main[h], view[h], dirty[h], log[WalOf[h]]) /\ FoldOK(job[h])
  BY HandleFacts
<1>2. /\ main[h].pc = "rebuild" /\ main[h] \in Mains
      /\ UNCHANGED <<log, objects, files, temps, next, io, view, dirty, job>>
      /\ main' = [main EXCEPT ![h].pc = "idle", ![h].began = view[h].etag]
  BY LogOf DEF RefreshAgain, At, store, disk
<1>3. view[h] \in Views
  BY <1>1, <1>2 DEF HandleOK
<1>4. view[h].etag \in Nat
  BY <1>3 DEF Views
<1>5. main' = [main EXCEPT ![h] = m]
  BY <1>2 DEF TypeInv, Mains
<1>6. m \in Mains /\ m.pc = "idle" /\ m.began = view[h].etag /\ m.cached = main[h].cached
  BY <1>2, <1>4 DEF Mains
<1> HIDE DEF m
<1>7. HandleOK(h, m, view[h], dirty[h], log[WalOf[h]])
  BY <1>1, <1>2, <1>4, <1>6 DEF HandleOK
<1>8. Goes(h, m, view[h], dirty[h], job[h])
  BY <1>1, <1>2, <1>5, <1>6, <1>7, Kept, LogOf DEF Goes
<1>9. Grows /\ Sweeps /\ Saves
  BY <1>2, SameStore, SameFiles DEF Saves
<1>10. QED
  BY <1>8, <1>9, HandleMoves
-----------------------------------------------------------------------------
(* The compactor                                                             *)

\* Only the fold moves, and true records are saved.
LEMMA FoldMoves ==
  ASSUME TypeInv, CacheInv, NEW h \in Handles, NEW j \in Folds \cup {None}, FoldOK(j),
         job' = [job EXCEPT ![h] = j], Grows, Saves, log' = log,
         UNCHANGED <<files, temps, next, main, view, dirty>>
  PROVE  TypeInv' /\ CacheInv'
<1>1. HandleOK(h, main[h], view[h], dirty[h], log[WalOf[h]])
  BY HandleFacts
<1>2. Goes(h, main[h], view[h], dirty[h], j)
  BY <1>1, Kept, LogOf DEF Goes
<1>3. Sweeps
  BY SameFiles
<1>4. QED
  BY <1>2, <1>3, HandleMoves

LEMMA SpawnStep ==
  ASSUME TypeInv, CacheInv, NEW h \in Handles, SpawnCompaction(h) PROVE TypeInv' /\ CacheInv'
<1> DEFINE img == view[h].image
           j == [pc |-> IF img.snap = None THEN "upload" ELSE "base",
                 base |-> img.snap, key |-> None, lsn |-> img.next - 1]
<1>1. /\ main[h].pc = "idle" /\ img.first < img.next /\ job' = [job EXCEPT ![h] = j]
      /\ UNCHANGED <<log, objects, files, temps, next, io, main, view, dirty>>
  BY DEF SpawnCompaction, Idle, At, store, disk
<1>2. view[h] \in Views
  BY <1>1, HandleFacts DEF HandleOK
<1>3. img \in Images /\ img.snap \in Keys \cup {None} /\ img.first \in Nat /\ img.next \in Nat
  BY <1>2 DEF Views, Images
<1>4. img.next - 1 \in Nat
  BY <1>1, <1>3
<1>5. j \in Folds /\ FoldOK(j)
  BY <1>3, <1>4 DEF Folds, FoldOK
<1> HIDE DEF j
<1>6. Grows /\ Saves
  BY <1>1, SameStore DEF Saves
<1>7. QED
  BY <1>1, <1>5, <1>6, FoldMoves

LEMMA JobBaseStep ==
  ASSUME TypeInv, CacheInv, NEW h \in Handles, JobBase(h) PROVE TypeInv' /\ CacheInv'
<1> DEFINE j == [job[h] EXCEPT !.pc = "upload"]
<1>1. /\ job[h] # None /\ job[h].pc = "base"
      /\ UNCHANGED <<log, objects, files, temps, next, main, view, dirty>>
      /\ Fetch(<<h, "job">>, job[h].base, job' = [job EXCEPT ![h] = j], job' = [job EXCEPT ![h] = j])
  BY DEF JobBase, JobAt, store
<1>2. job[h] \in Folds /\ job[h].base # None /\ <<h, "job">> \in Threads
  BY <1>1, LogOf, HandleFacts DEF FoldOK, Threads
<1>3. job[h].base \in Keys
  BY <1>2 DEF Folds
<1>4. Saves /\ job' = [job EXCEPT ![h] = j]
  BY <1>1, <1>2, <1>3, FetchSaves
<1>5. j \in Folds /\ FoldOK(j)
  BY <1>2 DEF Folds, FoldOK
<1> HIDE DEF j
<1>6. QED
  BY <1>1, <1>4, <1>5, SameStore, FoldMoves

LEMMA JobUploadStep ==
  ASSUME TypeInv, CacheInv, NEW h \in Handles, JobUpload(h) PROVE TypeInv' /\ CacheInv'
<1>1. PICK k \in Keys \ issued[WalOf[h]] :
        /\ objects' = [objects EXCEPT ![WalOf[h]] = @ \cup {k}]
        /\ job' = [job EXCEPT ![h].pc = "ready", ![h].key = k]
        /\ SaveSnapshot(<<h, "job">>, k)
  BY DEF JobUpload
<1>2. /\ job[h] # None /\ UNCHANGED <<log, files, temps, next, main, view, dirty>>
  BY DEF JobUpload, JobAt
<1> DEFINE j == [job[h] EXCEPT !.pc = "ready", !.key = k]
<1>3. job[h] \in Folds /\ <<h, "job">> \in Threads
  BY <1>2, LogOf DEF Threads
<1>4. j \in Folds
  BY <1>3 DEF Folds
<1>5. job' = [job EXCEPT ![h] = j]
  BY <1>1, <1>3 DEF TypeInv, Folds
<1>6. FoldOK(j)
  <2>1. j.pc = "ready" /\ j.key = k
    BY <1>3 DEF Folds
  <2>2. k # None
    BY CacheAssumption
  <2>3. QED
    BY <2>1, <2>2 DEF FoldOK
<1> HIDE DEF j
<1>7. Saves
  BY <1>1, <1>3, SnapSaves
<1>8. objects' \in [Wals -> SUBSET Keys]
  BY <1>1 DEF TypeInv
<1>9. Grows
  BY <1>2, <1>8, SameExtends DEF Grows, TypeInv, Logs
<1>10. QED
  BY <1>2, <1>4, <1>5, <1>6, <1>7, <1>9, FoldMoves

LEMMA JobEndStep ==
  ASSUME TypeInv, CacheInv, NEW h \in Handles, JobFails(h) \/ Detached(h)
  PROVE  TypeInv' /\ CacheInv'
<1>1. /\ job' = [job EXCEPT ![h] = None]
      /\ UNCHANGED <<log, objects, files, temps, next, io, main, view, dirty>>
  BY DEF JobFails, Detached, store, disk
<1>2. None \in Folds \cup {None} /\ FoldOK(None) /\ Grows /\ Saves
  BY <1>1, SameStore DEF FoldOK, Saves
<1>3. QED
  BY <1>1, <1>2, FoldMoves
-----------------------------------------------------------------------------
(* The commit                                                                *)

\* What the CAS publishes is an image, and the edit of the handle's own image
\* comes to the same one.
LEMMA EditIsEncode ==
  ASSUME TypeInv, CacheInv, NEW h \in Handles, main[h].pc = "idle", NEW extra \in 0 .. 1
  PROVE  Encoded(h, extra) \in Images /\ Edited(h, extra) = Encoded(h, extra)
<1> DEFINE img == view[h].image
<1>1. view[h] \in Views
  BY HandleFacts DEF HandleOK
<1>2. img \in Images /\ img.first \in Nat /\ img.next \in Nat /\ img.next + extra \in Nat
  BY <1>1 DEF Views, Images
<1>3. CASE Applies(h)
  <2>1. job[h] \in Folds /\ job[h].key # None
    BY <1>3, LogOf, HandleFacts DEF Applies, Ready, FoldOK
  <2>2. job[h].key \in Keys /\ job[h].lsn \in Nat
    BY <2>1 DEF Folds
  <2>3. img.first + (job[h].lsn - img.first + 1) = job[h].lsn + 1 /\ job[h].lsn + 1 \in Nat
    BY <1>2, <2>2
  <2>4. Encoded(h, extra) = [img EXCEPT !.snap = job[h].key, !.first = job[h].lsn + 1, !.next = img.next + extra]
    BY <1>2, <1>3 DEF Encoded, Images
  <2>5. Edited(h, extra) = [img EXCEPT !.first = img.first + (job[h].lsn - img.first + 1),
                                       !.next = img.next + extra, !.snap = job[h].key]
    BY <1>2, <1>3 DEF Edited, Images
  <2>6. Edited(h, extra) = [img EXCEPT !.first = job[h].lsn + 1,
                                       !.next = img.next + extra, !.snap = job[h].key]
    BY <2>3, <2>5
  <2>7. QED
    BY <1>2, <2>1, <2>2, <2>3, <2>4, <2>6 DEF Images
<1>4. CASE ~Applies(h)
  <2>1. Encoded(h, extra) = [img EXCEPT !.next = img.next + extra]
    BY <1>2, <1>4 DEF Encoded, Images
  <2>2. img.first + 0 = img.first
    BY <1>2
  <2>3. Edited(h, extra) = [img EXCEPT !.first = img.first + 0, !.next = img.next + extra, !.snap = img.snap]
    BY <1>2, <1>4 DEF Edited, Images
  <2>4. Edited(h, extra) = [img EXCEPT !.next = img.next + extra]
    BY <1>2, <2>2, <2>3 DEF Images
  <2>5. [img EXCEPT !.next = img.next + extra] \in Images
    BY <1>2 DEF Images
  <2>6. QED
    BY <2>1, <2>4, <2>5
<1>5. QED
  BY <1>3, <1>4

LEMMA CommitStep ==
  ASSUME TypeInv, CacheInv, NEW h \in Handles, Commit(h) PROVE TypeInv' /\ CacheInv'
<1> DEFINE i == WalOf[h]
           n == Len(log[i])
<1>1. PICK extra \in 0 .. 1 :
        /\ log' = [log EXCEPT ![i] = Append(@, Encoded(h, extra))]
        /\ view' = [view EXCEPT ![h].etag = n + 1, ![h].image = Edited(h, extra)]
        /\ RecordImagePut(h, n + 1, Encoded(h, extra))
  BY DEF Commit
<1>2. /\ main[h].pc = "idle" /\ view[h].etag = n
      /\ UNCHANGED <<objects, files, temps, next>>
      /\ IF Applies(h)
         THEN /\ main' = [main EXCEPT ![h].pc = "installed", ![h].image = view[h].image]
              /\ job' = [job EXCEPT ![h] = None]
         ELSE UNCHANGED <<main, job>>
  BY DEF Commit, Idle, At
<1>3. HandleOK(h, main[h], view[h], dirty[h], log[i]) /\ FoldOK(job[h])
  BY HandleFacts
<1>4. i \in Wals /\ log[i] \in Seq(Images) /\ n \in Nat /\ log \in Logs /\ main[h] \in Mains
  BY LogOf DEF TypeInv, Logs
<1> DEFINE e == Encoded(h, extra)
<1>5. e \in Images /\ Edited(h, extra) = e
  BY <1>2, EditIsEncode
<1> HIDE DEF e
<1>6. log' \in Logs /\ Extends(log, log') /\ Version(n + 1, e, log'[i])
  BY <1>1, <1>4, <1>5, AppendExtends DEF e
<1>7. Longer(log[i], log'[i]) /\ log'[i] \in Seq(Images)
  BY <1>4, <1>6 DEF Extends, Logs
<1>8. /\ view[h] \in Views /\ Restored(view[h].restored, i, n, log[i]) /\ main[h].began <= n
      /\ main[h].cached # None => main[h].cached.id = i /\ Version(main[h].cached.etag, main[h].cached.body, log[i])
  BY <1>2, <1>3 DEF HandleOK
<1> DEFINE v == [view[h] EXCEPT !.etag = n + 1, !.image = e]
           d == Policy[h] = "OnFlush"
           x == [main[h] EXCEPT !.pc = "installed", !.image = view[h].image]
           m == IF Applies(h) THEN x ELSE main[h]
           j == IF Applies(h) THEN None ELSE job[h]
<1>9. n + 1 \in Nat /\ n + 1 # 0 /\ n <= n /\ n <= n + 1
  BY <1>4
<1>10. /\ v \in Views /\ v.etag = n + 1 /\ v.image = e /\ v.restored = view[h].restored
       /\ d \in BOOLEAN
  BY <1>5, <1>8, <1>9 DEF Views
<1>11. view' = [view EXCEPT ![h] = v]
  BY <1>1, <1>5, <1>8 DEF TypeInv, Views
<1>12. Saves /\ dirty' = [dirty EXCEPT ![h] = d]
  BY <1>1, <1>5, <1>6, <1>9, PutSaves DEF e
<1>13. view[h].image \in Images
  BY <1>8 DEF Views
<1>14. /\ x \in Mains /\ x.pc = "installed" /\ x.image = view[h].image
       /\ x.cached = main[h].cached /\ x.began = main[h].began
  BY <1>4, <1>13 DEF Mains
<1>15. Applies(h) => main' = [main EXCEPT ![h] = x]
  BY <1>2, <1>4 DEF TypeInv, Mains
<1> HIDE DEF v, d, x
<1>16. /\ m \in Mains /\ m.cached = main[h].cached /\ m.began = main[h].began
       /\ m.pc = "idle" \/ (m.pc = "installed" /\ m.image \in Images)
  BY <1>2, <1>4, <1>13, <1>14
<1>17. main' = [main EXCEPT ![h] = m] /\ job' = [job EXCEPT ![h] = j]
  BY <1>2, <1>15, Kept
<1>18. j \in Folds \cup {None} /\ FoldOK(j)
  BY <1>3, LogOf DEF FoldOK
<1> HIDE DEF m, j
<1>19. Restored(v.restored, i, n + 1, log'[i])
  BY <1>4, <1>7, <1>8, <1>9, <1>10, RestoredStays
<1>20. m.cached # None => m.cached.id = i /\ Version(m.cached.etag, m.cached.body, log'[i])
  BY <1>4, <1>7, <1>8, <1>16, VersionStays
<1>21. m.began <= n + 1
  BY <1>4, <1>8, <1>16 DEF Mains
<1>22. HandleOK(h, m, v, d, log'[i])
  BY <1>6, <1>9, <1>10, <1>16, <1>19, <1>20, <1>21 DEF HandleOK
<1>23. Goes(h, m, v, d, j)
  BY <1>10, <1>11, <1>12, <1>16, <1>17, <1>18, <1>22 DEF Goes
<1>24. Grows /\ Sweeps
  BY <1>2, <1>6, SameFiles DEF Grows, TypeInv
<1>25. QED
  BY <1>12, <1>23, <1>24, HandleMoves

LEMMA UnansweredStep ==
  ASSUME TypeInv, CacheInv, NEW h \in Handles, CommitUnanswered(h) PROVE TypeInv' /\ CacheInv'
<1>1. /\ main[h].pc = "idle" /\ UNCHANGED <<objects, files, temps, next, io, main, view, dirty, job>>
      /\ log' = [log EXCEPT ![WalOf[h]] = Append(@, Encoded(h, 1))]
  BY DEF CommitUnanswered, Idle, At, disk
<1>2. WalOf[h] \in Wals /\ log \in Logs
  BY LogOf DEF TypeInv, Logs
<1>3. Encoded(h, 1) \in Images
  BY <1>1, EditIsEncode
<1>4. log' \in Logs /\ Extends(log, log')
  BY <1>1, <1>2, <1>3, AppendExtends
<1>5. Grows /\ Sweeps /\ Saves
  BY <1>1, <1>4, SameFiles DEF Grows, TypeInv, Saves
<1>6. QED
  BY <1>1, <1>5, StoreMoves

LEMMA InstalledStep ==
  ASSUME TypeInv, CacheInv, NEW h \in Handles, Installed(h) PROVE TypeInv' /\ CacheInv'
<1> DEFINE m == [main[h] EXCEPT !.pc = "idle"]
<1>1. HandleOK(h, main[h], view[h], dirty[h], log[WalOf[h]]) /\ FoldOK(job[h])
  BY HandleFacts
<1>2. /\ main[h].pc = "installed" /\ main[h] \in Mains
      /\ UNCHANGED <<log, objects, temps, next, io, view, dirty, job>>
      /\ UNCHANGED files \/ RemoveSnapshot(main[h].image.snap)
      /\ main' = [main EXCEPT ![h] = m]
  BY LogOf DEF Installed, At, store, Goto
<1>3. m \in Mains /\ m.pc = "idle" /\ m.began = main[h].began /\ m.cached = main[h].cached
  BY <1>2 DEF Mains
<1> HIDE DEF m
<1>4. HandleOK(h, m, view[h], dirty[h], log[WalOf[h]])
  BY <1>1, <1>2, <1>3 DEF HandleOK
<1>5. Goes(h, m, view[h], dirty[h], job[h])
  BY <1>1, <1>2, <1>3, <1>4, Kept, LogOf DEF Goes
<1>6. Grows /\ Sweeps /\ Saves
  BY <1>2, SameStore, SameFiles, RemoveSweeps DEF Saves
<1>7. QED
  BY <1>5, <1>6, HandleMoves

LEMMA CheckpointStep ==
  ASSUME TypeInv, CacheInv, NEW h \in Handles, CheckpointCache(h) PROVE TypeInv' /\ CacheInv'
<1>1. HandleOK(h, main[h], view[h], dirty[h], log[WalOf[h]]) /\ FoldOK(job[h])
  BY HandleFacts
<1>2. /\ main[h].pc = "idle" /\ dirty[h] /\ UNCHANGED <<log, objects, files, temps, next, main, view, job>>
      /\ SaveWal(h, view[h].etag, view[h].image) /\ dirty' = [dirty EXCEPT ![h] = FALSE]
  BY DEF CheckpointCache, At, store
<1>3. view[h] \in Views /\ Version(view[h].etag, view[h].image, log[WalOf[h]])
  BY <1>1, <1>2 DEF HandleOK
<1>4. view[h].etag \in Nat /\ view[h].image \in Images
  BY <1>3 DEF Views
<1>5. Saves
  BY <1>2, <1>3, <1>4, ImageSaves
<1>6. HandleOK(h, main[h], view[h], FALSE, log[WalOf[h]])
  BY <1>1 DEF HandleOK
<1>7. Goes(h, main[h], view[h], FALSE, job[h])
  BY <1>1, <1>2, <1>6, Kept, LogOf DEF Goes
<1>8. Grows /\ Sweeps
  BY <1>2, SameStore, SameFiles
<1>9. QED
  BY <1>5, <1>7, <1>8, HandleMoves
-----------------------------------------------------------------------------
(* Ends, damage, other machines                                              *)

LEMMA DropStep ==
  ASSUME TypeInv, CacheInv, NEW h \in Handles, Drop(h) PROVE TypeInv' /\ CacheInv'
<1>1. UNCHANGED <<log, objects, files, temps, next, io, job>> /\ Reset({h})
  BY DEF Drop, store, disk
<1>2. /\ main' = [main EXCEPT ![h] = Closed] /\ view' = [view EXCEPT ![h] = None]
      /\ dirty' = [dirty EXCEPT ![h] = FALSE]
  <2>1. /\ main \in [Handles -> Mains] /\ view \in [Handles -> Views \cup {None}]
        /\ dirty \in [Handles -> BOOLEAN]
    BY DEF TypeInv
  <2>2. /\ main' = [g \in Handles |-> IF g \in {h} THEN Closed ELSE main[g]]
        /\ view' = [g \in Handles |-> IF g \in {h} THEN None ELSE view[g]]
        /\ dirty' = [g \in Handles |-> g \notin {h} /\ dirty[g]]
    BY <1>1 DEF Reset
  <2>3. \A g \in Handles : (g \notin {h} /\ dirty[g]) = IF g = h THEN FALSE ELSE dirty[g]
    BY <2>1, Zenon
  <2>4. dirty' = [g \in Handles |-> IF g = h THEN FALSE ELSE dirty[g]]
    BY <2>2, <2>3, Zenon
  <2>5. QED
    BY <2>1, <2>2, <2>4
<1>3. FoldOK(job[h]) /\ Closed \in Mains /\ HandleOK(h, Closed, None, FALSE, log'[WalOf[h]])
  BY HandleFacts, ClosedOK
<1>4. Goes(h, Closed, None, FALSE, job[h])
  BY <1>1, <1>2, <1>3, Kept, LogOf DEF Goes
<1>5. Grows /\ Sweeps /\ Saves
  BY <1>1, SameStore, SameFiles DEF Saves
<1>6. QED
  BY <1>4, <1>5, HandleMoves

LEMMA CrashStep ==
  ASSUME TypeInv, CacheInv, NEW p \in Procs, Crash(p) PROVE TypeInv' /\ CacheInv'
<1> DEFINE H == {h \in Handles : ProcOf[h] = p}
<1>1. /\ UNCHANGED <<log, objects, files, temps>>
      /\ main' = [h \in Handles |-> IF h \in H THEN Closed ELSE main[h]]
      /\ view' = [h \in Handles |-> IF h \in H THEN None ELSE view[h]]
      /\ dirty' = [h \in Handles |-> h \notin H /\ dirty[h]]
      /\ job' = [h \in Handles |-> IF h \in H THEN None ELSE job[h]]
      /\ io' = [t \in Threads |-> IF t[1] \in H THEN None ELSE io[t]]
      /\ next' = [next EXCEPT ![p] = 0]
  BY DEF Crash, Reset, store
<1>2. /\ log \in [Wals -> Seq(Images)] /\ objects \in [Wals -> SUBSET Keys] /\ DOMAIN files = Files
      /\ next \in [Procs -> Nat] /\ io \in [Threads -> Writes \cup {None}]
      /\ main \in [Handles -> Mains] /\ view \in [Handles -> Views \cup {None}]
      /\ dirty \in [Handles -> BOOLEAN] /\ job \in [Handles -> Folds \cup {None}]
  BY DEF TypeInv
<1> HIDE DEF H
<1>3. /\ \A h \in Handles : h \in H => main'[h] = Closed /\ view'[h] = None /\ dirty'[h] = FALSE /\ job'[h] = None
      /\ \A h \in Handles : h \notin H => /\ main'[h] = main[h] /\ view'[h] = view[h]
                                           /\ dirty'[h] = dirty[h] /\ job'[h] = job[h]
      /\ \A t \in Threads : io'[t] = None \/ io'[t] = io[t]
  <2>1. \A h \in Handles : dirty'[h] = (h \notin H /\ dirty[h])
    BY <1>1, Zenon
  <2>2. \A h \in Handles : (h \in H => dirty'[h] = FALSE) /\ (h \notin H => dirty'[h] = dirty[h])
    BY <1>2, <2>1, Zenon
  <2>3. QED
    BY <1>1, <2>2
<1>4. \A h \in Handles : HandleOK(h, main'[h], view'[h], dirty'[h], log'[WalOf[h]]) /\ FoldOK(job'[h])
  <2> SUFFICES ASSUME NEW h \in Handles
               PROVE  HandleOK(h, main'[h], view'[h], dirty'[h], log'[WalOf[h]]) /\ FoldOK(job'[h])
    OBVIOUS
  <2>1. CASE h \in H
    <3>1. HandleOK(h, Closed, None, FALSE, log'[WalOf[h]]) /\ FoldOK(None)
      BY ClosedOK DEF FoldOK
    <3>2. QED
      BY <1>3, <2>1, <3>1
  <2>2. CASE h \notin H
    BY <1>1, <1>3, <2>2, HandleFacts
  <2>3. QED
    BY <2>1, <2>2
<1>5. DiskOK(files', temps', io', log')
  <2>1. DiskOK(files, temps, io, log)
    BY DEF CacheInv
  <2>2. WriteOK(None, temps, log) /\ ~Owns(None)
    BY DEF WriteOK, Owns
  <2>3. \A t \in Threads : WriteOK(io'[t], temps, log)
    BY <1>3, <2>1, <2>2 DEF DiskOK
  <2>4. \A t, u \in Threads : t # u /\ Owns(io'[t]) /\ Owns(io'[u]) => io'[t].temp # io'[u].temp
    BY <1>3, <2>1, <2>2 DEF DiskOK
  <2>5. QED
    BY <1>1, <2>1, <2>3, <2>4 DEF DiskOK
<1>6. /\ main' \in [Handles -> Mains] /\ view' \in [Handles -> Views \cup {None}]
      /\ job' \in [Handles -> Folds \cup {None}]
      /\ io' \in [Threads -> Writes \cup {None}] /\ next' \in [Procs -> Nat]
  <2>1. Closed \in Mains
    BY DEF Closed, Mains
  <2>2. QED
    BY <1>1, <1>2, <2>1
<1>7. dirty' \in [Handles -> BOOLEAN]
  BY <1>1, Zenon
<1>8. QED
  BY <1>1, <1>2, <1>4, <1>5, <1>6, <1>7 DEF TypeInv, CacheInv

LEMMA DamageStep ==
  ASSUME TypeInv, CacheInv, NEW f, Damage(f) PROVE TypeInv' /\ CacheInv'
<1>1. /\ UNCHANGED <<log, objects, temps, next, io, main, view, dirty, job>>
      /\ files' = [files EXCEPT ![f] = Torn]
  BY DEF Damage, store
<1>2. Grows /\ Sweeps /\ Saves
  BY <1>1, SameStore DEF Sweeps, Saves, TypeInv
<1>3. QED
  BY <1>1, <1>2, StoreMoves

LEMMA RemoteStep ==
  ASSUME TypeInv, CacheInv, NEW i \in Wals, Remote(i) PROVE TypeInv' /\ CacheInv'
<1> DEFINE img == Latest(i)
<1>1. UNCHANGED <<files, temps, next, io, main, view, dirty, job>>
  BY DEF Remote, disk
<1>2. log \in Logs /\ objects \in [Wals -> SUBSET Keys]
  BY DEF TypeInv, Logs
<1>3. log[i] # << >> => img \in Images
  BY LatestVersion
<1>4. /\ objects' \in [Wals -> SUBSET Keys]
      /\ \E new \in Images : log' = [log EXCEPT ![i] = Append(@, new)]
  <2>1. CASE log[i] = << >> /\ log' = [log EXCEPT ![i] = Append(@, Empty(i))] /\ UNCHANGED objects
    BY <1>2, <2>1, EmptyImage
  <2>2. CASE log[i] # << >> /\ log' = [log EXCEPT ![i] = Append(@, [img EXCEPT !.next = @ + 1])] /\ UNCHANGED objects
    <3>1. img \in Images /\ img.next + 1 \in Nat
      BY <1>3, <2>2 DEF Images
    <3>2. [img EXCEPT !.next = @ + 1] \in Images
      BY <3>1 DEF Images
    <3>3. QED
      BY <1>2, <2>2, <3>2
  <2>3. ASSUME NEW k \in Keys, NEW lsn \in img.first .. img.next - 1, NEW extra \in 0 .. 1, log[i] # << >>,
               log' = [log EXCEPT ![i] = Append(@, [img EXCEPT !.snap = k, !.first = lsn + 1, !.next = @ + extra])],
               objects' = [objects EXCEPT ![i] = @ \cup {k}]
        PROVE  /\ objects' \in [Wals -> SUBSET Keys]
               /\ \E new \in Images : log' = [log EXCEPT ![i] = Append(@, new)]
    <3>1. img \in Images /\ k # None
      BY <1>3, <2>3, CacheAssumption
    <3>2. img.first \in Nat /\ img.next \in Nat
      BY <3>1 DEF Images
    <3>3. lsn + 1 \in Nat /\ img.next + extra \in Nat
      BY <3>2
    <3>4. [img EXCEPT !.snap = k, !.first = lsn + 1, !.next = @ + extra] \in Images
      BY <3>1, <3>3 DEF Images
    <3>5. objects' \in [Wals -> SUBSET Keys]
      BY <1>2, <2>3
    <3>6. QED
      BY <2>3, <3>4, <3>5
  <2>4. QED
    BY <2>1, <2>2, <2>3 DEF Remote
<1>5. Grows
  <2>1. PICK new \in Images : log' = [log EXCEPT ![i] = Append(@, new)]
    BY <1>4
  <2>2. log' \in Logs /\ Extends(log, log')
    BY <1>2, <2>1, AppendExtends
  <2>3. QED
    BY <1>4, <2>2 DEF Grows
<1>6. Sweeps /\ Saves
  BY <1>1, SameFiles DEF Saves
<1>7. QED
  BY <1>1, <1>5, <1>6, StoreMoves

LEMMA CollectStep ==
  ASSUME TypeInv, CacheInv, NEW i \in Wals, NEW k \in Keys, Collect(i, k) PROVE TypeInv' /\ CacheInv'
<1>1. /\ UNCHANGED <<log, files, temps, next, io, main, view, dirty, job>>
      /\ objects' = [objects EXCEPT ![i] = @ \ {k}]
  BY DEF Collect, disk
<1>2. objects' \in [Wals -> SUBSET Keys]
  BY <1>1 DEF TypeInv
<1>3. Grows /\ Sweeps /\ Saves
  BY <1>1, <1>2, SameExtends, SameFiles DEF Grows, Saves, TypeInv, Logs
<1>4. QED
  BY <1>1, <1>3, StoreMoves
-----------------------------------------------------------------------------
(* The invariant of the specification                                        *)

LEMMA CacheStarts == Init => TypeInv /\ CacheInv
<1> SUFFICES ASSUME Init PROVE TypeInv /\ CacheInv
  OBVIOUS
<1>1. Closed \in Mains
  BY DEF Closed, Mains
<1>2. TypeInv
  BY <1>1 DEF Init, TypeInv, Files
<1>3. \A h \in Handles : HandleOK(h, main[h], view[h], dirty[h], log[WalOf[h]]) /\ FoldOK(job[h])
  BY ClosedOK DEF Init, FoldOK
<1>4. (\A f \in Files : files[f] = None) /\ (\A t \in Threads : io[t] = None)
  BY DEF Init, Files
<1>5. DiskOK(files, temps, io, log)
  BY <1>4 DEF DiskOK, FileOK, WriteOK, Owns
<1>6. QED
  BY <1>2, <1>3, <1>5 DEF CacheInv

LEMMA CacheStep == TypeInv /\ CacheInv /\ [Next]_vars => TypeInv' /\ CacheInv'
<1> SUFFICES ASSUME TypeInv, CacheInv, [Next]_vars PROVE TypeInv' /\ CacheInv'
  OBVIOUS
<1>1. ASSUME NEW h \in Handles, HandleStep(h) PROVE TypeInv' /\ CacheInv'
  <2>1. CASE Open(h) \/ OpenGet(h) \/ OpenCreate(h) \/ OpenMissing(h)
    BY <2>1, OpenStep, OpenGetStep, OpenCreateStep, OpenMissingStep
  <2>2. CASE Restore(h, "snapshot", "restored") \/ OpenAgain(h) \/ Opened(h)
    BY <2>2, RestoreStep, OpenAgainStep, OpenedStep
  <2>3. CASE Discard(h) \/ RefreshGet(h) \/ RefreshAgain(h)
    BY <2>3, DiscardStep, RefreshGetStep, RefreshAgainStep
  <2>4. CASE NotModified(h)
    BY <2>4 DEF NotModified, vars, store, disk, TypeInv, CacheInv
  <2>5. CASE Restore(h, "rebuild", "adopt") \/ Adopt(h)
    BY <2>5, RestoreStep, AdoptStep
  <2>6. CASE SpawnCompaction(h) \/ JobBase(h) \/ JobUpload(h) \/ JobFails(h) \/ Detached(h)
    BY <2>6, SpawnStep, JobBaseStep, JobUploadStep, JobEndStep
  <2>7. CASE Commit(h) \/ CommitUnanswered(h) \/ Installed(h) \/ CheckpointCache(h)
    BY <2>7, CommitStep, UnansweredStep, InstalledStep, CheckpointStep
  <2>8. CASE Drop(h)
    BY <2>8, DropStep
  <2>9. QED
    BY <1>1, <2>1, <2>2, <2>3, <2>4, <2>5, <2>6, <2>7, <2>8 DEF HandleStep
<1>2. ASSUME NEW t \in Threads, WriteStep(t) \/ WriteFails(t) PROVE TypeInv' /\ CacheInv'
  BY <1>2, CreateStep, ChunkStep, RenameStep, FailStep DEF WriteStep
<1>3. ASSUME NEW p \in Procs, Crash(p) PROVE TypeInv' /\ CacheInv'
  BY <1>3, CrashStep
<1>4. ASSUME NEW f \in Names \cup {WalName}, Damage(f) PROVE TypeInv' /\ CacheInv'
  BY <1>4, DamageStep
<1>5. ASSUME NEW i \in Wals, Remote(i) PROVE TypeInv' /\ CacheInv'
  BY <1>5, RemoteStep
<1>6. ASSUME NEW i \in Wals, NEW k \in Keys, Collect(i, k) PROVE TypeInv' /\ CacheInv'
  BY <1>6, CollectStep
<1>7. CASE UNCHANGED vars
  BY <1>7 DEF vars, store, disk, TypeInv, CacheInv
<1>8. QED
  BY <1>1, <1>2, <1>3, <1>4, <1>5, <1>6, <1>7 DEF Next

LEMMA CacheHolds == Spec => [](TypeInv /\ CacheInv)
BY CacheStarts, CacheStep, PTL DEF Spec
-----------------------------------------------------------------------------
(* Theorems                                                                  *)

\* However threads, processes and crashes share temporary names, write_atomic
\* publishes whole frames only, and read_checked accepts each of them.
THEOREM WholeFrames == Spec => []FilesWhole
<1>1. TypeInv /\ CacheInv => FilesWhole
  <2> SUFFICES ASSUME TypeInv, CacheInv, NEW f \in Files, files[f] \notin {None, Torn}
               PROVE  Checked(files[f])
    BY DEF TypeInv, FilesWhole
  <2> DEFINE c == files[f]
             r == c[1].rec
  <2>1. c = Written("rename", r)
    BY DEF CacheInv, DiskOK, FileOK
  <2>2. Written("rename", r) = <<Chunk("head", r), Chunk("body", r)>>
    BY Zenon DEF Written
  <2>3. /\ Len(c) = 2 /\ c[1] = Chunk("head", r) /\ c[2] = Chunk("body", r)
    BY <2>1, <2>2
  <2>4. c[1].part = "head" /\ c[2] = [part |-> "body", rec |-> r]
    BY <2>3 DEF Chunk
  <2>5. QED
    BY <2>3, <2>4 DEF Checked
<1>2. QED
  BY <1>1, CacheHolds, PTL

\* A cache file that passes its checksum holds what the store holds for the
\* log it names: a cached image is the version of its ETag, also when
\* checkpoint_cache encoded it from an image the handle edited itself.
THEOREM CacheTellsTruth == Spec => []RecordsTrue
<1>1. TypeInv /\ CacheInv => RecordsTrue
  <2> SUFFICES ASSUME TypeInv, CacheInv, NEW f \in Files, Checked(files[f])
               PROVE  TrueRec(files[f][1].rec, log)
    BY DEF TypeInv, RecordsTrue, TrueRec
  <2>1. files[f] # None /\ files[f] # Torn
    BY DEF Checked, Torn
  <2>2. FileOK(files[f], log)
    BY DEF CacheInv, DiskOK
  <2>3. QED
    BY <2>1, <2>2 DEF FileOK
<1>2. QED
  BY <1>1, CacheHolds, PTL

\* Open and refresh show a handle the image of its own log under the ETag it
\* holds, on a state restored from a snapshot of that log, although directory,
\* file names, snapshot keys and ETags are shared with other logs.
THEOREM ViewsAreTrue == Spec => []TrueViews
<1>1. TypeInv /\ CacheInv => TrueViews
  <2> SUFFICES ASSUME TypeInv, CacheInv, NEW h \in Handles, view[h] # None
               PROVE  /\ view[h].etag = 0 \/ view[h].image = log[WalOf[h]][view[h].etag]
                      /\ view[h].restored # None =>
                           \E n \in 1 .. view[h].etag :
                             view[h].restored = Bytes(WalOf[h], log[WalOf[h]][n].snap)
    BY DEF TrueViews
  <2>1. main[h].pc \in {"idle", "adopt", "rebuild", "installed"}
    BY LogOf, HandleFacts DEF Mains, HandleOK
  <2>2. QED
    BY <2>1, HandleFacts DEF HandleOK, Version, Restored
<1>2. QED
  BY <1>1, CacheHolds, PTL

\* A warm start serves no stale checkpoint: when open or refresh is over the
\* handle is at least at the version the WAL object had when the call began.
THEOREM ViewsAreFresh == Spec => []FreshViews
<1>1. TypeInv /\ CacheInv => FreshViews
  <2> SUFFICES ASSUME TypeInv, CacheInv, NEW h \in Handles, main[h].pc = "idle"
               PROVE  view[h].etag >= main[h].began
    BY DEF FreshViews
  <2>1. main[h] \in Mains /\ view[h] \in Views /\ main[h].began <= view[h].etag
    BY LogOf, HandleFacts DEF HandleOK
  <2>2. QED
    BY <2>1 DEF Mains, Views
<1>2. QED
  BY <1>1, CacheHolds, PTL
=============================================================================
