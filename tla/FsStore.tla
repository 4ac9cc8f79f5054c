------------------------------ MODULE FsStore ------------------------------
(* FsStore: processes open one root directory, identified by the marker file *)
(* they also lock, and their threads call the store under its mutex.  Every  *)
(* file operation may fail, a process may crash between any two of them, and *)
(* the power may fail, which loses what was not yet on disk: nothing is ever *)
(* synced.  Temporary files live beside their object and are never read; how *)
(* write_atomic names them is in Cache.                                      *)
EXTENDS StoreOps

CONSTANTS
  Procs, Threads,
  Blank, Torn,     \* marker files without content, with a part of an identity
  Broken,          \* an object file whose frame is not whole
  MaxOpens,        \* bound: calls of FsStore::new
  MaxCalls,        \* bound: calls of the store
  MaxFaults,       \* bound: file operations that fail
  MaxCrashes,      \* bound: crashes of a process
  MaxLosses        \* bound: power failures

ASSUME FsAssumption ==
  /\ None \notin Procs \cup Threads
  /\ \A x \in {None, Blank, Torn} : x \notin Nat
  /\ Blank \notin {None, Torn} /\ Torn # None
  /\ \A x \in {None, Broken} : x \notin [etag : Nat, data : Data]
  /\ Broken # None
  /\ MaxLosses \in Nat

Clients == Procs \X Threads

VARIABLES
  marker,    \* .waltier-store: None, Blank, Torn or an identity
  dirs,      \* the objects directory exists
  legacy,    \* the root holds files of an older layout
  file,      \* the object files
  kept,      \* what each object file has held since the power last failed
  born,      \* the identity under which each object file was written
  holder,    \* the process that holds the lock of the marker file
  handle,    \* FsStore::new and the open store of each process
  mutex,     \* the thread inside each store
  pc, call, minted,
  ids,       \* unique_id
  opens, calls, faults, crashes, losses

vars == <<marker, dirs, legacy, file, kept, born, holder, handle, mutex, pc, call, minted, ids,
          opens, calls, faults, crashes, losses>>

rootVars == <<marker, dirs, legacy, holder, handle>>
diskVars == <<marker, dirs, file, kept, born, legacy>>
opVars == <<file, kept, born, mutex, pc, call, minted>>
bounds == <<opens, calls, faults, crashes, losses>>

NoHandle == [st |-> "none", ns |-> None]

Init ==
  /\ marker = None /\ dirs = FALSE /\ legacy \in BOOLEAN
  /\ file = [k \in Keys |-> None] /\ kept = [k \in Keys |-> {}]
  /\ born = [k \in Keys |-> None]
  /\ holder = None
  /\ handle = [p \in Procs |-> NoHandle]
  /\ mutex = [p \in Procs |-> None]
  /\ pc = [c \in Clients |-> "idle"]
  /\ call = [c \in Clients |-> NoCall]
  /\ minted = [k \in Keys |-> {}]
  /\ ids = 0
  /\ opens = 0 /\ calls = 0 /\ faults = 0 /\ crashes = 0 /\ losses = 0

Fault == faults < MaxFaults /\ faults' = faults + 1
-----------------------------------------------------------------------------
(* FsStore::new                                                              *)

At(p, st) == handle' = [handle EXCEPT ![p].st = st]

\* The root exists and the marker file is opened, created when it is missing.
OpenMarker(p) ==
  /\ handle[p].st = "none"
  /\ opens < MaxOpens
  /\ opens' = opens + 1
  /\ marker' = IF marker = None THEN Blank ELSE marker
  /\ At(p, "opened")
  /\ UNCHANGED <<dirs, legacy, holder, opVars, ids, calls, faults, crashes, losses>>

\* mutant: the lock is not kept with the store
TryLockBriefly(p) ==
  /\ handle[p].st = "opened"
  /\ At(p, IF holder = None THEN "locked" ELSE "none")
  /\ UNCHANGED <<marker, dirs, legacy, holder, opVars, ids, bounds>>

\* try_lock never waits.
TryLock(p) ==
  /\ handle[p].st = "opened"
  /\ \/ /\ holder = None
        /\ holder' = p
        /\ At(p, "locked")
     \/ /\ holder # None
        /\ At(p, "none")
        /\ UNCHANGED holder
  /\ UNCHANGED <<marker, dirs, legacy, opVars, ids, bounds>>

\* new returns an error: the file is dropped and with it the lock.
Refuse(p) ==
  /\ handle' = [handle EXCEPT ![p] = NoHandle]
  /\ holder' = IF holder = p THEN None ELSE holder

\* mutant: an empty marker is taken for a fresh root
ReadMarkerTrusting(p) ==
  /\ handle[p].st = "locked"
  /\ \/ /\ marker \notin {Blank, Torn}
        /\ handle' = [handle EXCEPT ![p] = [st |-> "open", ns |-> marker]]
        /\ UNCHANGED holder
     \/ marker = Torn /\ Refuse(p)
     \/ /\ marker = Blank
        /\ At(p, "naming")
        /\ UNCHANGED holder
  /\ UNCHANGED <<marker, dirs, legacy, opVars, ids, bounds>>

\* An identity opens the store, an empty marker in an otherwise empty root
\* asks for a new one, and everything else is refused.
ReadMarker(p) ==
  /\ handle[p].st = "locked"
  /\ \/ /\ marker \notin {Blank, Torn}
        /\ handle' = [handle EXCEPT ![p] = [st |-> "open", ns |-> marker]]
        /\ UNCHANGED <<holder, faults>>
     \/ marker = Torn /\ Refuse(p) /\ UNCHANGED faults   \* "invalid FsStore identity"
     \/ /\ marker = Blank
        /\ \/ (dirs \/ legacy) /\ Refuse(p)               \* "unrecognized/legacy"
           \/ ~dirs /\ ~legacy /\ At(p, "naming") /\ UNCHANGED holder
        /\ UNCHANGED faults
     \/ Fault /\ Refuse(p)                              \* marker or root unreadable
  /\ UNCHANGED <<marker, dirs, legacy, opVars, ids, opens, calls, crashes, losses>>

\* mutant: the handle is given out when the identity could not be written
WriteMarkerAnyway(p) ==
  /\ handle[p].st = "naming"
  /\ ids' = ids + 1
  /\ handle' = [handle EXCEPT ![p] = [st |-> "open", ns |-> ids]]
  /\ \/ marker' = ids /\ UNCHANGED faults
     \/ Fault /\ marker' = Torn
  /\ UNCHANGED <<dirs, legacy, holder, opVars, opens, calls, crashes, losses>>

\* The identity is written; a failed write may leave a part of it.
WriteMarker(p) ==
  /\ handle[p].st = "naming"
  /\ ids' = ids + 1
  /\ \/ /\ marker' = ids
        /\ handle' = [handle EXCEPT ![p] = [st |-> "open", ns |-> ids]]
        /\ UNCHANGED <<holder, faults>>
     \/ /\ Fault
        /\ marker' \in {Blank, Torn}
        /\ Refuse(p)
  /\ UNCHANGED <<dirs, legacy, opVars, opens, calls, crashes, losses>>

\* The last Arc<FsStore> is dropped.
Drop(p) ==
  /\ handle[p].st = "open"
  /\ \A t \in Threads : pc[<<p, t>>] = "idle"
  /\ Refuse(p)
  /\ UNCHANGED <<marker, dirs, legacy, opVars, ids, bounds>>
-----------------------------------------------------------------------------
(* The store's operations, each under the mutex of the store                 *)

Invoke(c) ==
  /\ pc[c] = "idle"
  /\ handle[c[1]].st = "open"
  /\ calls < MaxCalls
  /\ calls' = calls + 1
  /\ \E r \in Requests({v.etag : v \in UNION {minted[k] : k \in Keys}}, calls) :
       call' = [call EXCEPT ![c] = [NoCall EXCEPT !.st = "open", !.req = r]]
  /\ pc' = [pc EXCEPT ![c] = "lock"]
  /\ UNCHANGED <<diskVars, holder, handle, mutex, minted, ids, opens, faults, crashes, losses>>

Lock(c) ==
  /\ pc[c] = "lock"
  /\ mutex[c[1]] = None
  /\ mutex' = [mutex EXCEPT ![c[1]] = c[2]]
  /\ pc' = [pc EXCEPT ![c] = "read"]
  /\ UNCHANGED <<rootVars, file, kept, born, call, minted, ids, bounds>>

To(c, place) == pc' = [pc EXCEPT ![c] = place] /\ UNCHANGED call

Done(c, res) ==
  /\ pc' = [pc EXCEPT ![c] = "done"]
  /\ call' = [call EXCEPT ![c].st = "served", ![c].res = res]

\* mutant: the length in the frame is not compared
ReadObjectUnchecked(k) ==
  IF file[k] = Broken THEN Version(ids, Broken) ELSE file[k]

\* read_object: a file whose frame is not whole is an error, never an object.
ReadObject(k) == file[k]

\* Which operations read, which go on to write, and which are done.
Read(c) ==
  LET r == call[c].req
      found == ReadObject(r.key)
      reads == r.op \in {"get", "cas"}
  IN  /\ pc[c] = "read"
      /\ \/ reads /\ found = Broken /\ To(c, "failed") /\ UNCHANGED <<faults, file>>
         \/ reads /\ Fault /\ To(c, "failed") /\ UNCHANGED file
         \/ /\ r.op = "get" /\ found # Broken
            /\ Done(c, CondGet(found, r.expect))
            /\ UNCHANGED <<faults, file>>
         \/ /\ r.op = "cas" /\ found # Broken
            /\ IF CasMatches(found, r.expect) THEN To(c, "write") ELSE Done(c, Refused)
            /\ UNCHANGED <<faults, file>>
         \/ r.op = "put" /\ To(c, "write") /\ UNCHANGED <<faults, file>>
         \/ /\ r.op = "delete"
            /\ \/ /\ file' = [file EXCEPT ![r.key] = None]
                  /\ Done(c, Result("ok", None))
                  /\ UNCHANGED faults
               \/ Fault /\ To(c, "failed") /\ UNCHANGED file
      /\ UNCHANGED <<rootVars, kept, born, mutex, minted, ids, opens, calls, crashes, losses>>

\* write_object: the directories, then the temporary file with its new ETag.
WriteTemp(c) ==
  /\ pc[c] = "write"
  /\ \/ dirs' = TRUE /\ To(c, "rename") /\ UNCHANGED faults
     \/ Fault /\ dirs' \in {dirs, TRUE} /\ To(c, "failed")
  /\ UNCHANGED <<marker, legacy, holder, handle, file, kept, born, mutex, minted, ids,
                 opens, calls, crashes, losses>>

\* The rename publishes the object.
Rename(c) ==
  LET r == call[c].req
      v == Version(ids, r.data)
  IN  /\ pc[c] = "rename"
      /\ ids' = ids + 1
      /\ \/ /\ file' = [file EXCEPT ![r.key] = v]
            /\ kept' = [kept EXCEPT ![r.key] = @ \cup {v}]
            /\ born' = [born EXCEPT ![r.key] = handle[c[1]].ns]
            /\ minted' = [minted EXCEPT ![r.key] = @ \cup {v}]
            /\ Done(c, Result("ok", ids))
            /\ UNCHANGED faults
         \/ Fault /\ To(c, "failed") /\ UNCHANGED <<file, kept, born, minted>>
      /\ UNCHANGED <<rootVars, mutex, opens, calls, crashes, losses>>

Answer(c) == IF pc[c] = "failed" THEN Unknown ELSE call[c].res

\* mutant: an operation that failed keeps the mutex
ReturnLocked(c) ==
  /\ pc[c] \in {"done", "failed"}
  /\ mutex' = IF pc[c] = "failed" THEN mutex ELSE [mutex EXCEPT ![c[1]] = None]
  /\ pc' = [pc EXCEPT ![c] = "idle"]
  /\ call' = [call EXCEPT ![c] = [NoCall EXCEPT !.res = Answer(c)]]
  /\ UNCHANGED <<rootVars, file, kept, born, minted, ids, bounds>>

\* The guard is dropped and the call returns.
Return(c) ==
  /\ pc[c] \in {"done", "failed"}
  /\ mutex' = [mutex EXCEPT ![c[1]] = None]
  /\ pc' = [pc EXCEPT ![c] = "idle"]
  /\ call' = [call EXCEPT ![c] = [NoCall EXCEPT !.res = Answer(c)]]
  /\ UNCHANGED <<rootVars, file, kept, born, minted, ids, bounds>>
-----------------------------------------------------------------------------
(* Crashes                                                                   *)

\* Processes die: their locks are released and their calls never answered.
Die(P) ==
  /\ handle' = [p \in Procs |-> IF p \in P THEN NoHandle ELSE handle[p]]
  /\ holder' = IF holder \in P THEN None ELSE holder
  /\ mutex' = [p \in Procs |-> IF p \in P THEN None ELSE mutex[p]]
  /\ pc' = [c \in Clients |-> IF c[1] \in P THEN "idle" ELSE pc[c]]
  /\ call' = [c \in Clients |-> IF c[1] \in P /\ pc[c] # "idle" THEN NoCall ELSE call[c]]

\* A process that dies inside write_all of the marker may leave a part of it.
Crash(p) ==
  /\ handle[p].st # "none"
  /\ crashes < MaxCrashes
  /\ crashes' = crashes + 1
  /\ Die({p})
  /\ marker' \in IF handle[p].st = "naming" THEN {Blank, Torn, ids} ELSE {marker}
  /\ ids' = ids + 1
  /\ UNCHANGED <<dirs, legacy, file, kept, born, minted, opens, calls, faults, losses>>

\* Nothing was synced: the marker may be cut short or gone again, an object
\* may be gone, cut short, or an earlier version of itself.  What a power
\* failure has taken does not come back with the next one.
PowerLoss ==
  /\ losses < MaxLosses
  /\ losses' = losses + 1
  /\ Die(Procs)
  /\ marker' \in {marker, Torn, Blank, None}
  /\ file' \in [Keys -> {None, Broken} \cup UNION {kept[k] : k \in Keys}]
  /\ \A k \in Keys : file'[k] \in {None} \cup kept[k] \/ (file'[k] = Broken /\ kept[k] # {})
  /\ kept' = [k \in Keys |-> {file'[k]} \ {None}]
  /\ dirs' \in {dirs, \E k \in Keys : file'[k] # None}
  /\ UNCHANGED <<legacy, born, minted, ids, opens, calls, faults, crashes>>

NewStep(p) == TryLock(p) \/ ReadMarker(p) \/ WriteMarker(p)

OpStep(c) == Lock(c) \/ Read(c) \/ WriteTemp(c) \/ Rename(c) \/ Return(c)

Next ==
  \/ \E p \in Procs : OpenMarker(p) \/ NewStep(p) \/ Drop(p) \/ Crash(p)
  \/ \E c \in Clients : Invoke(c) \/ OpStep(c)
  \/ PowerLoss

Spec == Init /\ [][Next]_vars

\* Threads inside the store are scheduled.
FairSpec == Spec /\ \A c \in Clients : WF_vars(OpStep(c))
-----------------------------------------------------------------------------
(* Properties                                                                *)

Contract == INSTANCE ObjectStore WITH obj <- file, late <- {}

\* An FsStore keeps the promise of the ObjectStore trait through crashes,
\* failing file operations and competing processes: every step is one of the
\* contract, except that a power failure may lose objects.
KeepsContract == Contract!Init /\ [][losses' = losses => Contract!Next]_(Contract!vars)

\* The identity given out for a root is the one its objects were written
\* under: a cache filled under another identity is never trusted for them.
IdentityHolds ==
  \A p \in Procs : handle[p].st = "open" =>
    /\ ~legacy
    /\ \A k \in Keys : file[k] # None => born[k] = handle[p].ns

\* Crashes and failures never lock objects away: as long as the power held, a
\* root with an object has its identity and can be opened.
Reopenable ==
  losses = 0 /\ (\E k \in Keys : file[k] # None) => marker \notin {None, Blank, Torn}

\* A read returns a version that was stored whole, under its own ETag, also
\* after a power failure.
ReadsTrue ==
  \A c \in Clients : call[c].res.kind = "changed" =>
    call[c].res.val \in UNION {minted[k] : k \in Keys}

\* Every operation returns, also when others failed, unless its process died.
OperationsReturn == \A c \in Clients : pc[c] # "idle" ~> pc[c] = "idle"
=============================================================================
