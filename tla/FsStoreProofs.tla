---------------------------- MODULE FsStoreProofs ----------------------------
(* FsStore keeps its contract and its identity, for any number of processes, *)
(* threads, keys, failures, crashes and power failures.                      *)
(*                                                                           *)
(* One thread at a time is inside the store: the lock of the marker lets one *)
(* process have it open, the mutex one thread of that process in.  Hence     *)
(* what put_if_match compared is still there when it renames.  An identity   *)
(* is only ever given to a root without objects, and stays until the power   *)
(* fails.                                                                    *)
EXTENDS FsStore, TLAPS

Versions == [etag : Nat, data : Data]

Reqs == [op : {"get", "cas", "put", "delete"}, key : Keys, expect : Nat \cup {None},
         data : Data \cup {None}, n : Nat]

Results == [kind : {"none", "error", "refused", "missing", "notmodified", "changed", "ok"},
            val : Versions \cup Nat \cup {None, "NotApplied", "Unknown"}]

Calls == [st : {"idle", "open", "served"}, req : Reqs \cup {NoRequest}, res : Results]

HandleSet == [st : {"none", "opened", "locked", "naming", "open"}, ns : Nat \cup {None}]

RootType ==
  /\ marker \in Nat \cup {None, Blank, Torn}
  /\ dirs \in BOOLEAN /\ legacy \in BOOLEAN
  /\ holder \in Procs \cup {None}
  /\ handle \in [Procs -> HandleSet]
  /\ ids \in Nat /\ calls \in Nat /\ losses \in Nat

FileType ==
  /\ file \in [Keys -> Versions \cup {None, Broken}]
  /\ kept \in [Keys -> SUBSET (Versions \cup {Broken})]
  /\ born \in [Keys -> Nat \cup {None}]
  /\ minted \in [Keys -> SUBSET Versions]

CallType ==
  /\ mutex \in [Procs -> Threads \cup {None}]
  /\ pc \in [Clients -> {"idle", "lock", "read", "write", "rename", "done", "failed"}]
  /\ call \in [Clients -> Calls]

TypeInv == RootType /\ FileType /\ CallType
-----------------------------------------------------------------------------
(* The invariant                                                             *)

\* Who has got past the lock is its holder, and who has the store open has the
\* identity of the marker.
HandlesOK ==
  \A p \in Procs :
    /\ handle[p].st # "none" => marker # None
    /\ handle[p].st \in {"locked", "naming", "open"} => holder = p
    /\ handle[p].st = "naming" => marker = Blank /\ ~dirs /\ ~legacy
    /\ handle[p].st = "open" => handle[p].ns = marker /\ marker \in Nat

\* Objects are in the directory and of the identity of the root, those that a
\* power failure could bring back included.
RootOK ==
  /\ \A k \in Keys : kept[k] # {} => dirs
  /\ marker \in Nat => ~legacy /\ \A k \in Keys : kept[k] # {} => born[k] = marker
  /\ losses = 0 /\ dirs => marker \in Nat

\* What a file holds was stored since the power last failed, whole or cut.
FilesOK ==
  \A k \in Keys :
    /\ file[k] \in kept[k] \cup {None}
    /\ kept[k] \subseteq minted[k] \cup {Broken}
    /\ \A v \in minted[k] : v.etag < ids

\* A thread in the store has the mutex, and what it compared still holds.
CallOK(c) ==
  /\ pc[c] # "idle" => handle[c[1]].st = "open" /\ call[c].req \in Reqs
  /\ pc[c] \notin {"idle", "lock"} => mutex[c[1]] = c[2]
  /\ pc[c] = "idle" => call[c].st = "idle"
  /\ pc[c] \in {"lock", "read", "write", "rename", "failed"} => call[c].st = "open"
  /\ pc[c] = "done" => call[c].st = "served"
  /\ pc[c] = "rename" => dirs
  /\ call[c].req.op \in {"cas", "put"} => call[c].req.data \in Data
  /\ pc[c] \in {"write", "rename"} =>
       /\ call[c].req.op \in {"cas", "put"}
       /\ call[c].req.op = "cas" => CasMatches(file[call[c].req.key], call[c].req.expect)
  /\ call[c].res.kind = "changed" => call[c].res.val \in UNION {minted[k] : k \in Keys}

CallsOK == \A c \in Clients : CallOK(c)

FsInv == HandlesOK /\ RootOK /\ FilesOK /\ CallsOK
-----------------------------------------------------------------------------
(* One thread at a time                                                      *)

LEMMA ClientParts ==
  ASSUME NEW c \in Clients
  PROVE  c[1] \in Procs /\ c[2] \in Threads /\ c = <<c[1], c[2]>>
BY DEF Clients

Inside(c) == pc[c] \notin {"idle", "lock"}

LEMMA Alone ==
  ASSUME TypeInv, FsInv, NEW c \in Clients, NEW d \in Clients, Inside(c), Inside(d)
  PROVE  c = d
<1>1. c[1] \in Procs /\ d[1] \in Procs /\ c = <<c[1], c[2]>> /\ d = <<d[1], d[2]>>
  BY ClientParts
<1>2. /\ handle[c[1]].st = "open" /\ handle[d[1]].st = "open"
      /\ mutex[c[1]] = c[2] /\ mutex[d[1]] = d[2]
  BY DEF FsInv, CallsOK, CallOK, Inside
<1>3. c[1] = d[1]
  BY <1>1, <1>2 DEF FsInv, HandlesOK
<1>4. QED
  BY <1>1, <1>2, <1>3

\* What a step of one thread may change without touching what others rely on.
LEMMA OthersStay ==
  ASSUME TypeInv, FsInv, NEW c \in Clients,
         \A d \in Clients : d # c => pc'[d] = pc[d] /\ call'[d] = call[d],
         UNCHANGED handle, dirs => dirs',
         \A k \in Keys : minted[k] \subseteq minted'[k],
         Inside(c) \/ UNCHANGED file,
         \A p \in Procs : p # c[1] => mutex'[p] = mutex[p],
         UNCHANGED mutex \/ Inside(c) \/ mutex[c[1]] = None,
         CallOK(c)'
  PROVE  CallsOK'
<1> SUFFICES ASSUME NEW d \in Clients, d # c PROVE CallOK(d)'
  BY DEF CallsOK
<1>1. pc'[d] = pc[d] /\ call'[d] = call[d] /\ CallOK(d)
  BY DEF FsInv, CallsOK
<1>2. Inside(d) => ~Inside(c)
  BY Alone
<1>3. c[1] \in Procs /\ d[1] \in Procs /\ d[2] \in Threads
  BY ClientParts
<1>4. Inside(d) => mutex'[d[1]] = d[2]
  <2> SUFFICES ASSUME Inside(d) PROVE mutex'[d[1]] = d[2]
    OBVIOUS
  <2>1. mutex[d[1]] = d[2] /\ d[2] # None
    BY <1>1, <1>3, FsAssumption DEF CallOK, Inside
  <2>2. QED
    BY <1>2, <1>3, <2>1
<1>5. call[d].res.kind = "changed" => call[d].res.val \in UNION {minted'[k] : k \in Keys}
  BY <1>1 DEF CallOK
<1>6. pc[d] \in {"write", "rename"} => UNCHANGED file
  BY <1>2 DEF Inside
<1>7. QED
  BY <1>1, <1>4, <1>5, <1>6 DEF CallOK, Inside
-----------------------------------------------------------------------------
(* FsStore::new                                                              *)

\* Steps of new and drop leave objects and calls alone.
LEMMA RootSteps ==
  ASSUME TypeInv, FsInv, UNCHANGED <<dirs, legacy, opVars, losses>>, RootType',
         ids <= ids', HandlesOK',
         \A q \in Procs : handle[q].st = "open" =>
            handle'[q].st = "open" \/ \A t \in Threads : pc[<<q, t>>] = "idle",
         marker' \in Nat => marker' = marker \/ (~dirs /\ ~legacy),
         marker \in Nat => marker' = marker
  PROVE  TypeInv' /\ FsInv'
<1>1. UNCHANGED <<file, kept, born, minted, mutex, pc, call>>
  BY DEF opVars
<1>2. TypeInv'
  BY <1>1 DEF TypeInv, FileType, CallType
<1>3. RootOK'
  BY <1>1 DEF FsInv, RootOK
<1>4. FilesOK'
  <2> SUFFICES ASSUME NEW k \in Keys, NEW v \in minted[k] PROVE v.etag < ids'
    BY <1>1 DEF FsInv, FilesOK
  <2>1. v.etag < ids /\ v \in Versions
    BY DEF FsInv, FilesOK, TypeInv, FileType
  <2>2. v.etag \in Nat /\ ids \in Nat /\ ids' \in Nat
    BY <2>1 DEF Versions, TypeInv, RootType
  <2>3. QED
    BY <2>1, <2>2
<1>5. CallsOK'
  <2> SUFFICES ASSUME NEW c \in Clients PROVE CallOK(c)'
    BY DEF CallsOK
  <2>1. CallOK(c) /\ c[1] \in Procs /\ c[2] \in Threads /\ c = <<c[1], c[2]>>
    BY ClientParts DEF FsInv, CallsOK
  <2>2. pc[c] # "idle" => handle'[c[1]].st = "open"
    BY <2>1 DEF CallOK
  <2>3. QED
    BY <1>1, <2>1, <2>2 DEF CallOK
<1>6. QED
  BY <1>2, <1>3, <1>4, <1>5 DEF FsInv

LEMMA OpenMarkerStep ==
  ASSUME TypeInv, FsInv, NEW p \in Procs, OpenMarker(p) PROVE TypeInv' /\ FsInv'
<1>1. /\ UNCHANGED <<dirs, legacy, holder, opVars, ids, calls, losses>>
      /\ marker' = IF marker = None THEN Blank ELSE marker
      /\ handle' = [handle EXCEPT ![p].st = "opened"] /\ handle[p].st = "none"
  BY DEF OpenMarker, At
<1>2. handle \in [Procs -> HandleSet] /\ marker \in Nat \cup {None, Blank, Torn} /\ ids \in Nat
  BY DEF TypeInv, RootType
<1>3. /\ handle' \in [Procs -> HandleSet] /\ handle'[p].st = "opened"
      /\ \A q \in Procs : q # p => handle'[q] = handle[q]
  BY <1>1, <1>2 DEF HandleSet
<1>4. RootType'
  BY <1>1, <1>3 DEF TypeInv, RootType
<1>5. HandlesOK'
  BY <1>1, <1>2, <1>3, FsAssumption DEF FsInv, HandlesOK
<1>6. /\ marker' \in Nat => marker' = marker
      /\ marker \in Nat => marker' = marker
      /\ ids <= ids'
  BY <1>1, <1>2, FsAssumption
<1>7. QED
  BY <1>1, <1>3, <1>4, <1>5, <1>6, RootSteps

LEMMA TryLockStep ==
  ASSUME TypeInv, FsInv, NEW p \in Procs, TryLock(p) PROVE TypeInv' /\ FsInv'
<1>1. /\ UNCHANGED <<marker, dirs, legacy, opVars, ids, calls, losses>> /\ handle[p].st = "opened"
      /\ \/ holder = None /\ holder' = p /\ handle' = [handle EXCEPT ![p].st = "locked"]
         \/ holder' = holder /\ handle' = [handle EXCEPT ![p].st = "none"]
  BY DEF TryLock, At, bounds
<1>2. handle \in [Procs -> HandleSet] /\ ids \in Nat
  BY DEF TypeInv, RootType
<1>3. /\ handle' \in [Procs -> HandleSet]
      /\ \/ holder = None /\ holder' = p /\ handle'[p].st = "locked"
         \/ holder' = holder /\ handle'[p].st = "none"
      /\ \A q \in Procs : q # p => handle'[q] = handle[q]
  BY <1>1, <1>2 DEF HandleSet
<1>4. RootType'
  BY <1>1, <1>3 DEF TypeInv, RootType
<1>5. HandlesOK'
  BY <1>1, <1>3, FsAssumption DEF FsInv, HandlesOK
<1>6. ids <= ids'
  BY <1>1, <1>2
<1>7. QED
  BY <1>1, <1>3, <1>4, <1>5, <1>6, RootSteps

\* The lock goes with the file that is dropped.
LEMMA RefuseHandles ==
  ASSUME TypeInv, FsInv, NEW p \in Procs, Refuse(p), UNCHANGED <<dirs, legacy>>,
         handle[p].st \in {"locked", "naming", "open"},
         marker' = marker \/ (handle[p].st = "naming" /\ marker' \in {Blank, Torn})
  PROVE  /\ HandlesOK' /\ handle' \in [Procs -> HandleSet] /\ holder' \in Procs \cup {None}
         /\ \A q \in Procs : q # p => handle'[q] = handle[q]
<1>1. /\ handle' = [handle EXCEPT ![p] = NoHandle] /\ holder' = IF holder = p THEN None ELSE holder
      /\ handle \in [Procs -> HandleSet] /\ holder \in Procs \cup {None}
  BY DEF Refuse, TypeInv, RootType
<1>2. NoHandle \in HandleSet /\ NoHandle.st = "none"
  BY DEF NoHandle, HandleSet
<1>3. /\ handle' \in [Procs -> HandleSet] /\ handle'[p].st = "none"
      /\ \A q \in Procs : q # p => handle'[q] = handle[q]
  BY <1>1, <1>2
<1>4. holder = p
  BY DEF FsInv, HandlesOK
<1>5. \A q \in Procs : q # p => handle[q].st \notin {"locked", "naming", "open"}
  BY <1>4 DEF FsInv, HandlesOK
<1>6. HandlesOK'
  BY <1>1, <1>3, <1>4, <1>5, FsAssumption DEF FsInv, HandlesOK
<1>7. QED
  BY <1>1, <1>3, <1>6

LEMMA ReadMarkerStep ==
  ASSUME TypeInv, FsInv, NEW p \in Procs, ReadMarker(p) PROVE TypeInv' /\ FsInv'
<1>1. UNCHANGED <<marker, dirs, legacy, opVars, ids, calls, losses>> /\ handle[p].st = "locked"
  BY DEF ReadMarker
<1>2. /\ handle \in [Procs -> HandleSet] /\ ids \in Nat /\ marker \in Nat \cup {None, Blank, Torn}
      /\ holder = p /\ marker # None
  BY <1>1 DEF TypeInv, RootType, FsInv, HandlesOK
<1>3. ids <= ids'
  BY <1>1, <1>2
<1>4. CASE Refuse(p)
  <2>1. /\ HandlesOK' /\ handle' \in [Procs -> HandleSet] /\ holder' \in Procs \cup {None}
        /\ \A q \in Procs : q # p => handle'[q] = handle[q]
    BY <1>1, <1>4, RefuseHandles
  <2>2. RootType'
    BY <1>1, <2>1 DEF TypeInv, RootType
  <2>3. QED
    BY <1>1, <1>3, <2>1, <2>2, RootSteps
<1>5. CASE /\ marker \notin {Blank, Torn} /\ UNCHANGED holder
           /\ handle' = [handle EXCEPT ![p] = [st |-> "open", ns |-> marker]]
  <2>1. marker \in Nat
    BY <1>2, <1>5
  <2>2. /\ handle' \in [Procs -> HandleSet] /\ handle'[p].st = "open" /\ handle'[p].ns = marker
        /\ \A q \in Procs : q # p => handle'[q] = handle[q]
    BY <1>2, <1>5, <2>1 DEF HandleSet
  <2>3. RootType'
    BY <1>1, <1>5, <2>2 DEF TypeInv, RootType
  <2>4. HandlesOK'
    BY <1>1, <1>2, <1>5, <2>1, <2>2, FsAssumption DEF FsInv, HandlesOK
  <2>5. QED
    BY <1>1, <1>3, <2>2, <2>3, <2>4, RootSteps
<1>6. CASE marker = Blank /\ ~dirs /\ ~legacy /\ At(p, "naming") /\ UNCHANGED holder
  <2>1. /\ handle' \in [Procs -> HandleSet] /\ handle'[p].st = "naming"
        /\ \A q \in Procs : q # p => handle'[q] = handle[q]
    BY <1>2, <1>6 DEF HandleSet, At
  <2>2. RootType'
    BY <1>1, <1>6, <2>1 DEF TypeInv, RootType
  <2>3. HandlesOK'
    BY <1>1, <1>2, <1>6, <2>1, FsAssumption DEF FsInv, HandlesOK
  <2>4. QED
    BY <1>1, <1>3, <2>1, <2>2, <2>3, RootSteps
<1>7. QED
  BY <1>4, <1>5, <1>6 DEF ReadMarker

LEMMA WriteMarkerStep ==
  ASSUME TypeInv, FsInv, NEW p \in Procs, WriteMarker(p) PROVE TypeInv' /\ FsInv'
<1>1. UNCHANGED <<dirs, legacy, opVars, calls, losses>> /\ handle[p].st = "naming" /\ ids' = ids + 1
  BY DEF WriteMarker
<1>2. /\ handle \in [Procs -> HandleSet] /\ ids \in Nat /\ holder = p
      /\ marker = Blank /\ ~dirs /\ ~legacy
  BY <1>1 DEF TypeInv, RootType, FsInv, HandlesOK
<1>3. ids <= ids' /\ ids' \in Nat /\ marker \notin Nat
  BY <1>1, <1>2, FsAssumption
<1>4. CASE Refuse(p) /\ marker' \in {Blank, Torn}
  <2>1. /\ HandlesOK' /\ handle' \in [Procs -> HandleSet] /\ holder' \in Procs \cup {None}
        /\ \A q \in Procs : q # p => handle'[q] = handle[q]
    BY <1>1, <1>4, RefuseHandles
  <2>2. RootType'
    BY <1>1, <1>3, <1>4, <2>1 DEF TypeInv, RootType
  <2>3. QED
    BY <1>1, <1>2, <1>3, <2>1, <2>2, RootSteps
<1>5. CASE marker' = ids /\ UNCHANGED holder /\ handle' = [handle EXCEPT ![p] = [st |-> "open", ns |-> ids]]
  <2>1. /\ handle' \in [Procs -> HandleSet] /\ handle'[p].st = "open" /\ handle'[p].ns = ids
        /\ \A q \in Procs : q # p => handle'[q] = handle[q]
    BY <1>2, <1>5 DEF HandleSet
  <2>2. RootType'
    BY <1>1, <1>2, <1>3, <1>5, <2>1 DEF TypeInv, RootType
  <2>3. \A q \in Procs : q # p => handle[q].st \notin {"locked", "naming", "open"}
    BY <1>2 DEF FsInv, HandlesOK
  <2>4. HandlesOK'
    BY <1>1, <1>2, <1>5, <2>1, <2>3, FsAssumption DEF FsInv, HandlesOK
  <2>5. QED
    BY <1>1, <1>2, <1>3, <2>1, <2>2, <2>4, RootSteps
<1>6. QED
  BY <1>4, <1>5 DEF WriteMarker

LEMMA DropStep ==
  ASSUME TypeInv, FsInv, NEW p \in Procs, Drop(p) PROVE TypeInv' /\ FsInv'
<1>1. /\ UNCHANGED <<marker, dirs, legacy, opVars, ids, calls, losses>> /\ handle[p].st = "open"
      /\ Refuse(p) /\ \A t \in Threads : pc[<<p, t>>] = "idle"
  BY DEF Drop, bounds
<1>2. /\ HandlesOK' /\ handle' \in [Procs -> HandleSet] /\ holder' \in Procs \cup {None}
      /\ \A q \in Procs : q # p => handle'[q] = handle[q]
  BY <1>1, RefuseHandles
<1>3. RootType' /\ ids <= ids'
  BY <1>1, <1>2 DEF TypeInv, RootType
<1>4. QED
  BY <1>1, <1>2, <1>3, RootSteps
-----------------------------------------------------------------------------
(* The operations                                                            *)

\* A step of a call that stores nothing.
LEMMA QuietSteps ==
  ASSUME TypeInv, FsInv, NEW c \in Clients, NEW x, NEW y,
         UNCHANGED <<rootVars, kept, born, minted, ids, losses>>, calls' \in Nat,
         pc' = [pc EXCEPT ![c] = x], call' = [call EXCEPT ![c] = y],
         x \in {"idle", "lock", "read", "write", "rename", "done", "failed"}, y \in Calls,
         UNCHANGED mutex \/ mutex' = [mutex EXCEPT ![c[1]] = c[2]] \/ mutex' = [mutex EXCEPT ![c[1]] = None],
         UNCHANGED mutex \/ Inside(c) \/ mutex[c[1]] = None,
         UNCHANGED file \/ (Inside(c) /\ file' = [file EXCEPT ![call[c].req.key] = None]),
         CallOK(c)'
  PROVE  TypeInv' /\ FsInv'
<1>1. UNCHANGED <<marker, dirs, legacy, holder, handle>>
  BY DEF rootVars
<1>2. c[1] \in Procs /\ c[2] \in Threads
  BY ClientParts
<1>3. /\ pc \in [Clients -> {"idle", "lock", "read", "write", "rename", "done", "failed"}]
      /\ call \in [Clients -> Calls] /\ mutex \in [Procs -> Threads \cup {None}]
      /\ file \in [Keys -> Versions \cup {None, Broken}]
  BY DEF TypeInv, CallType, FileType
<1>4. CallType' /\ \A d \in Clients : d # c => pc'[d] = pc[d] /\ call'[d] = call[d]
  BY <1>2, <1>3 DEF CallType
<1>5. /\ file' \in [Keys -> Versions \cup {None, Broken}]
      /\ \A k \in Keys : file'[k] = file[k] \/ file'[k] = None
  BY <1>3
<1>6. TypeInv'
  BY <1>1, <1>4, <1>5 DEF TypeInv, RootType, FileType
<1>7. HandlesOK' /\ RootOK'
  BY <1>1 DEF FsInv, HandlesOK, RootOK
<1>8. FilesOK'
  BY <1>5 DEF FsInv, FilesOK
<1>9. \A p \in Procs : p # c[1] => mutex'[p] = mutex[p]
  BY <1>3
<1>10. CallsOK'
  BY <1>1, <1>4, <1>9, OthersStay
<1>11. QED
  BY <1>6, <1>7, <1>8, <1>10 DEF FsInv

LEMMA CallFacts ==
  ASSUME TypeInv, FsInv, NEW c \in Clients
  PROVE  /\ CallOK(c) /\ c[1] \in Procs /\ c[2] \in Threads /\ call[c] \in Calls
         /\ pc[c] \in {"idle", "lock", "read", "write", "rename", "done", "failed"}
         /\ call \in [Clients -> Calls] /\ pc \in [Clients -> {"idle", "lock", "read", "write", "rename", "done", "failed"}]
         /\ mutex \in [Procs -> Threads \cup {None}]
         /\ call = [call EXCEPT ![c] = call[c]]
BY ClientParts DEF FsInv, CallsOK, TypeInv, CallType

LEMMA RequestTyped ==
  ASSUME NEW tags \in SUBSET Nat, NEW n \in Nat, NEW r \in Requests(tags, n)
  PROVE  r \in Reqs /\ (r.op \in {"cas", "put"} => r.data \in Data)
<1>1. CASE r \in {Request("get", k, e, None, n) : k \in Keys, e \in tags \cup {None}}
  <2>1. PICK k \in Keys, e \in tags \cup {None} : r = Request("get", k, e, None, n)
    BY <1>1
  <2>2. QED
    BY <2>1 DEF Request, Reqs
<1>2. CASE r \in {Request("cas", k, e, d, n) : k \in Keys, e \in tags \cup {None}, d \in Data}
  <2>1. PICK k \in Keys, e \in tags \cup {None}, d \in Data : r = Request("cas", k, e, d, n)
    BY <1>2
  <2>2. QED
    BY <2>1 DEF Request, Reqs
<1>3. CASE r \in {Request("put", k, None, d, n) : k \in Keys, d \in Data}
  <2>1. PICK k \in Keys, d \in Data : r = Request("put", k, None, d, n)
    BY <1>3
  <2>2. QED
    BY <2>1 DEF Request, Reqs
<1>4. CASE r \in {Request("delete", k, None, None, n) : k \in Keys}
  <2>1. PICK k \in Keys : r = Request("delete", k, None, None, n)
    BY <1>4
  <2>2. QED
    BY <2>1 DEF Request, Reqs
<1>5. QED
  BY <1>1, <1>2, <1>3, <1>4 DEF Requests

LEMMA InvokeStep ==
  ASSUME TypeInv, FsInv, NEW c \in Clients, Invoke(c) PROVE TypeInv' /\ FsInv'
<1> DEFINE tags == {v.etag : v \in UNION {minted[k] : k \in Keys}}
<1>1. tags \in SUBSET Nat /\ calls \in Nat
  BY DEF TypeInv, RootType, FileType, Versions
<1>2. PICK r \in Requests(tags, calls) : call' = [call EXCEPT ![c] = [NoCall EXCEPT !.st = "open", !.req = r]]
  BY DEF Invoke
<1>3. r \in Reqs /\ (r.op \in {"cas", "put"} => r.data \in Data)
  BY <1>1, <1>2, RequestTyped
<1> DEFINE y == [NoCall EXCEPT !.st = "open", !.req = r]
<1>4. /\ y \in Calls /\ y.st = "open" /\ y.req = r /\ y.res.kind = "none"
  BY <1>3 DEF NoCall, Calls, Results, Result
<1>5. /\ pc[c] = "idle" /\ handle[c[1]].st = "open" /\ calls' = calls + 1
      /\ pc' = [pc EXCEPT ![c] = "lock"] /\ call' = [call EXCEPT ![c] = y]
      /\ UNCHANGED <<rootVars, kept, born, minted, ids, losses, file, mutex>>
  BY <1>2 DEF Invoke, diskVars, rootVars
<1> HIDE DEF y, tags
<1>6. pc'[c] = "lock" /\ call'[c] = y /\ handle' = handle
  BY <1>5, CallFacts DEF rootVars
<1>7. CallOK(c)'
  BY <1>3, <1>4, <1>5, <1>6 DEF CallOK
<1>8. calls' \in Nat
  BY <1>1, <1>5
<1>9. QED
  BY <1>4, <1>5, <1>7, <1>8, QuietSteps

LEMMA LockStep ==
  ASSUME TypeInv, FsInv, NEW c \in Clients, Lock(c) PROVE TypeInv' /\ FsInv'
<1>1. /\ pc[c] = "lock" /\ mutex[c[1]] = None /\ mutex' = [mutex EXCEPT ![c[1]] = c[2]]
      /\ pc' = [pc EXCEPT ![c] = "read"] /\ call' = call
      /\ UNCHANGED <<rootVars, kept, born, minted, ids, losses, file>> /\ calls' = calls
  BY DEF Lock, bounds
<1>2. pc'[c] = "read" /\ mutex'[c[1]] = c[2] /\ call' = [call EXCEPT ![c] = call[c]]
  BY <1>1, CallFacts
<1>3. CallOK(c)'
  BY <1>1, <1>2, CallFacts DEF CallOK, rootVars
<1>4. calls' \in Nat
  BY <1>1 DEF TypeInv, RootType
<1>5. QED
  BY <1>1, <1>2, <1>3, <1>4, CallFacts, QuietSteps

\* What a call is once it is served.
ServedAs(x, res) == [x EXCEPT !.st = "served", !.res = res]

LEMMA DoneCall ==
  ASSUME TypeInv, FsInv, NEW c \in Clients, NEW res \in Results, Done(c, res)
  PROVE  /\ pc' = [pc EXCEPT ![c] = "done"] /\ call' = [call EXCEPT ![c] = ServedAs(call[c], res)]
         /\ ServedAs(call[c], res) \in Calls /\ ServedAs(call[c], res).st = "served"
         /\ ServedAs(call[c], res).res = res /\ ServedAs(call[c], res).req = call[c].req
         /\ pc'[c] = "done" /\ call'[c] = ServedAs(call[c], res)
<1>1. call[c] \in Calls /\ call \in [Clients -> Calls]
  BY CallFacts
<1> DEFINE y == ServedAs(call[c], res)
<1>2. y \in Calls /\ y.st = "served" /\ y.res = res /\ y.req = call[c].req
  BY <1>1 DEF Calls, ServedAs
<1>3. call' = [call EXCEPT ![c] = y]
  BY <1>1 DEF Done, Calls, ServedAs
<1> HIDE DEF y
<1>4. pc' = [pc EXCEPT ![c] = "done"] /\ pc'[c] = "done" /\ call'[c] = y
  BY <1>1, <1>3, CallFacts DEF Done
<1>5. QED
  BY <1>2, <1>3, <1>4 DEF y

LEMMA ReadStep ==
  ASSUME TypeInv, FsInv, NEW c \in Clients, Read(c) PROVE TypeInv' /\ FsInv'
<1> DEFINE r == call[c].req
           found == file[r.key]
<1>1. /\ pc[c] = "read" /\ UNCHANGED <<rootVars, kept, born, minted, ids, losses, mutex>> /\ calls' = calls
  BY DEF Read
<1>2. /\ CallOK(c) /\ r \in Reqs /\ Inside(c) /\ calls' \in Nat
      /\ UNCHANGED <<handle, dirs>>
  BY <1>1, CallFacts DEF CallOK, Inside, TypeInv, RootType, rootVars
<1>3. r.key \in Keys /\ found \in Versions \cup {None, Broken}
  BY <1>2 DEF Reqs, TypeInv, FileType
<1>4. ASSUME NEW place \in {"failed", "write"}, To(c, place), UNCHANGED file,
             place = "write" => /\ r.op \in {"cas", "put"}
                                /\ r.op = "cas" => CasMatches(found, r.expect)
      PROVE  TypeInv' /\ FsInv'
  <2>1. /\ pc' = [pc EXCEPT ![c] = place] /\ call' = [call EXCEPT ![c] = call[c]]
        /\ pc'[c] = place /\ call' = call
    BY <1>4, CallFacts DEF To
  <2>2. CallOK(c)'
    BY <1>1, <1>2, <1>4, <2>1 DEF CallOK
  <2>3. QED
    BY <1>1, <1>2, <1>4, <2>1, <2>2, CallFacts, QuietSteps
<1>5. ASSUME NEW res \in Results, Done(c, res),
             UNCHANGED file \/ file' = [file EXCEPT ![r.key] = None],
             res.kind = "changed" => res.val \in UNION {minted[k] : k \in Keys}
      PROVE  TypeInv' /\ FsInv'
  <2> DEFINE y == ServedAs(call[c], res)
  <2>1. /\ pc' = [pc EXCEPT ![c] = "done"] /\ call' = [call EXCEPT ![c] = y]
        /\ y \in Calls /\ y.st = "served" /\ y.res = res /\ y.req = call[c].req
        /\ pc'[c] = "done" /\ call'[c] = y
    BY <1>5, DoneCall
  <2> HIDE DEF y
  <2>2. CallOK(c)'
    BY <1>1, <1>2, <1>5, <2>1 DEF CallOK
  <2>3. QED
    BY <1>1, <1>2, <1>5, <2>1, <2>2, QuietSteps
<1>6. CASE To(c, "failed") /\ UNCHANGED file
  BY <1>4, <1>6
<1>7. CASE r.op = "get" /\ found # Broken /\ Done(c, CondGet(found, r.expect)) /\ UNCHANGED file
  <2>1. found # None => found \in minted[r.key]
    BY <1>3, <1>7 DEF FsInv, FilesOK
  <2>2. CondGet(found, r.expect) \in Results
    BY <1>3, <1>7 DEF CondGet, Result, Results
  <2>3. CondGet(found, r.expect).kind = "changed" => found # None /\ CondGet(found, r.expect).val = found
    BY DEF CondGet, Result
  <2>4. CondGet(found, r.expect).kind = "changed" =>
          CondGet(found, r.expect).val \in UNION {minted[k] : k \in Keys}
    BY <1>3, <2>1, <2>3
  <2>5. QED
    BY <1>5, <1>7, <2>2, <2>4
<1>8. Refused \in Results /\ Refused.kind # "changed" /\ Result("ok", None) \in Results /\ Result("ok", None).kind # "changed"
  BY DEF Refused, Result, Results
<1>9. CASE /\ r.op = "cas" /\ UNCHANGED file
           /\ IF CasMatches(found, r.expect) THEN To(c, "write") ELSE Done(c, Refused)
  BY <1>4, <1>5, <1>8, <1>9
<1>10. CASE r.op = "put" /\ To(c, "write") /\ UNCHANGED file
  BY <1>4, <1>10
<1>11. CASE r.op = "delete" /\ file' = [file EXCEPT ![r.key] = None] /\ Done(c, Result("ok", None))
  BY <1>5, <1>8, <1>11
<1>12. QED
  BY <1>6, <1>7, <1>9, <1>10, <1>11 DEF Read, ReadObject

LEMMA WriteTempStep ==
  ASSUME TypeInv, FsInv, NEW c \in Clients, WriteTemp(c) PROVE TypeInv' /\ FsInv'
<1>1. /\ pc[c] = "write"
      /\ UNCHANGED <<marker, legacy, holder, handle, file, kept, born, mutex, minted, ids, calls, losses>>
      /\ dirs' = TRUE \/ dirs' = dirs
  BY DEF WriteTemp
<1>2. PICK place \in {"rename", "failed"} : To(c, place) /\ (place = "rename" => dirs' = TRUE)
  BY DEF WriteTemp
<1>3. /\ CallOK(c) /\ Inside(c) /\ dirs \in BOOLEAN /\ c[1] \in Procs
  BY <1>1, CallFacts DEF Inside, TypeInv, RootType
<1>4. /\ pc' = [pc EXCEPT ![c] = place] /\ call' = call /\ pc'[c] = place
      /\ \A d \in Clients : d # c => pc'[d] = pc[d]
      /\ pc' \in [Clients -> {"idle", "lock", "read", "write", "rename", "done", "failed"}]
  BY <1>2, CallFacts DEF To
<1>5. dirs' \in BOOLEAN /\ (dirs => dirs')
  BY <1>1, <1>3
<1>6. TypeInv'
  BY <1>1, <1>4, <1>5 DEF TypeInv, RootType, FileType, CallType
<1>7. handle[c[1]].st = "open" /\ marker \in Nat /\ holder = c[1]
  BY <1>1, <1>3 DEF CallOK, FsInv, HandlesOK
<1>8. HandlesOK'
  BY <1>1, <1>7, FsAssumption DEF FsInv, HandlesOK
<1>9. RootOK' /\ FilesOK'
  BY <1>1, <1>5, <1>7 DEF FsInv, RootOK, FilesOK
<1>10. CallOK(c)'
  BY <1>1, <1>2, <1>3, <1>4 DEF CallOK
<1>11. CallsOK'
  BY <1>1, <1>4, <1>5, <1>10, OthersStay
<1>12. QED
  BY <1>6, <1>8, <1>9, <1>11 DEF FsInv

LEMMA RenameStep ==
  ASSUME TypeInv, FsInv, NEW c \in Clients, Rename(c) PROVE TypeInv' /\ FsInv'
<1> DEFINE r == call[c].req
           v == Version(ids, r.data)
           k == r.key
<1>1. /\ pc[c] = "rename" /\ ids' = ids + 1 /\ UNCHANGED <<rootVars, mutex, losses>> /\ calls' = calls
      /\ UNCHANGED <<marker, dirs, legacy, holder, handle>>
  BY DEF Rename, rootVars
<1>2. /\ CallOK(c) /\ Inside(c) /\ c[1] \in Procs /\ r \in Reqs /\ r.data \in Data /\ dirs
      /\ handle[c[1]].st = "open"
  BY <1>1, CallFacts DEF Inside, CallOK
<1>3. k \in Keys /\ ids \in Nat /\ ids' \in Nat /\ v \in Versions /\ v.etag = ids
  BY <1>1, <1>2 DEF Reqs, TypeInv, RootType, Versions, Version
<1>4. marker \in Nat /\ handle[c[1]].ns = marker
  BY <1>2 DEF FsInv, HandlesOK
<1>5. RootType' /\ HandlesOK'
  BY <1>1, <1>3 DEF TypeInv, RootType, FsInv, HandlesOK
<1>6. /\ file \in [Keys -> Versions \cup {None, Broken}] /\ kept \in [Keys -> SUBSET (Versions \cup {Broken})]
      /\ born \in [Keys -> Nat \cup {None}] /\ minted \in [Keys -> SUBSET Versions]
  BY DEF TypeInv, FileType
<1>7. \A i \in Keys : \A u \in minted[i] : u.etag < ids'
  <2> SUFFICES ASSUME NEW i \in Keys, NEW u \in minted[i] PROVE u.etag < ids'
    OBVIOUS
  <2>1. u.etag < ids /\ u \in Versions
    BY <1>6 DEF FsInv, FilesOK
  <2>2. u.etag \in Nat
    BY <2>1 DEF Versions
  <2>3. QED
    BY <1>1, <1>3, <2>1, <2>2
<1>8. CASE /\ file' = [file EXCEPT ![k] = v] /\ kept' = [kept EXCEPT ![k] = @ \cup {v}]
           /\ born' = [born EXCEPT ![k] = handle[c[1]].ns]
           /\ minted' = [minted EXCEPT ![k] = @ \cup {v}] /\ Done(c, Result("ok", ids))
  <2> DEFINE res == Result("ok", ids)
             y == ServedAs(call[c], res)
  <2>1. res \in Results /\ res.kind = "ok"
    BY <1>3 DEF Result, Results
  <2>2. /\ pc' = [pc EXCEPT ![c] = "done"] /\ call' = [call EXCEPT ![c] = y]
        /\ y \in Calls /\ y.st = "served" /\ y.res = res /\ y.req = call[c].req
        /\ pc'[c] = "done" /\ call'[c] = y
    BY <1>8, <2>1, DoneCall
  <2> HIDE DEF y, res, v, k
  <2>3. CallType' /\ \A d \in Clients : d # c => pc'[d] = pc[d] /\ call'[d] = call[d]
    BY <1>1, <2>2, CallFacts DEF CallType
  <2>4. FileType'
    BY <1>3, <1>4, <1>6, <1>8 DEF FileType
  <2>5. /\ file'[k] = v /\ kept'[k] = kept[k] \cup {v} /\ born'[k] = marker
        /\ minted'[k] = minted[k] \cup {v}
        /\ \A i \in Keys : i # k => /\ file'[i] = file[i] /\ kept'[i] = kept[i]
                                     /\ born'[i] = born[i] /\ minted'[i] = minted[i]
    BY <1>3, <1>4, <1>6, <1>8
  <2>6. RootOK'
    BY <1>1, <1>2, <1>4, <2>5 DEF FsInv, RootOK
  <2>7. ids < ids'
    BY <1>1, <1>3
  <2>8. FilesOK'
    <3>1. \A i \in Keys : i # k => (file[i] \in kept[i] \cup {None} /\ kept[i] \subseteq minted[i] \cup {Broken})
      BY DEF FsInv, FilesOK
    <3>2. kept[k] \subseteq minted[k] \cup {Broken}
      BY <1>3 DEF FsInv, FilesOK
    <3>3. \A i \in Keys : \A u \in minted'[i] : u.etag < ids'
      BY <1>3, <1>7, <2>5, <2>7
    <3>4. QED
      BY <2>5, <3>1, <3>2, <3>3 DEF FilesOK
  <2>9. CallOK(c)'
    BY <1>1, <1>2, <2>1, <2>2 DEF CallOK
  <2>10. CallsOK'
    <3>1. \A i \in Keys : minted[i] \subseteq minted'[i]
      BY <2>5
    <3>2. QED
      BY <1>1, <1>2, <2>3, <2>9, <3>1, OthersStay
  <2>11. QED
    BY <1>5, <2>3, <2>4, <2>6, <2>8, <2>10 DEF TypeInv, FsInv
<1>9. CASE To(c, "failed") /\ UNCHANGED <<file, kept, born, minted>>
  <2>1. pc' = [pc EXCEPT ![c] = "failed"] /\ call' = call /\ pc'[c] = "failed"
    BY <1>9, CallFacts DEF To
  <2>2. CallType' /\ \A d \in Clients : d # c => pc'[d] = pc[d]
    BY <1>1, <2>1, CallFacts DEF CallType
  <2>3. CallOK(c)'
    BY <1>1, <1>2, <1>9, <2>1 DEF CallOK
  <2>4. CallsOK'
    BY <1>1, <1>9, <2>1, <2>2, <2>3, OthersStay
  <2>5. RootOK' /\ FilesOK'
    BY <1>1, <1>7, <1>9 DEF FsInv, RootOK, FilesOK
  <2>6. FileType'
    BY <1>6, <1>9 DEF FileType
  <2>7. QED
    BY <1>5, <2>2, <2>4, <2>5, <2>6 DEF TypeInv, FsInv
<1>10. QED
  BY <1>8, <1>9 DEF Rename

LEMMA AnswerTyped ==
  ASSUME TypeInv, NEW c \in Clients
  PROVE  /\ Answer(c) \in Results
         /\ Answer(c).kind = "changed" => Answer(c) = call[c].res
<1>1. call[c].res \in Results
  BY DEF TypeInv, CallType, Calls
<1>2. Unknown \in Results /\ Unknown.kind = "error"
  BY DEF Unknown, Result, Results
<1>3. QED
  BY <1>1, <1>2 DEF Answer

LEMMA NoCallTyped ==
  ASSUME NEW res \in Results
  PROVE  LET y == [NoCall EXCEPT !.res = res]
         IN  y \in Calls /\ y.st = "idle" /\ y.res = res /\ y.req.op = "none"
BY DEF NoCall, Calls, NoRequest, Request

LEMMA ReturnStep ==
  ASSUME TypeInv, FsInv, NEW c \in Clients, Return(c) PROVE TypeInv' /\ FsInv'
<1> DEFINE y == [NoCall EXCEPT !.res = Answer(c)]
<1>1. /\ pc[c] \in {"done", "failed"} /\ mutex' = [mutex EXCEPT ![c[1]] = None]
      /\ pc' = [pc EXCEPT ![c] = "idle"] /\ call' = [call EXCEPT ![c] = y]
      /\ UNCHANGED <<rootVars, kept, born, minted, ids, losses, file>> /\ calls' = calls
  BY DEF Return, bounds
<1>2. y \in Calls /\ y.st = "idle" /\ y.res = Answer(c) /\ y.req.op = "none"
  BY AnswerTyped, NoCallTyped
<1> HIDE DEF y
<1>3. pc'[c] = "idle" /\ call'[c] = y /\ Inside(c)
  BY <1>1, CallFacts DEF Inside
<1>4. CallOK(c)'
  BY <1>1, <1>2, <1>3, CallFacts, AnswerTyped DEF CallOK
<1>5. calls' \in Nat
  BY <1>1 DEF TypeInv, RootType
<1>6. QED
  BY <1>1, <1>2, <1>3, <1>4, <1>5, QuietSteps
-----------------------------------------------------------------------------
(* Crashes                                                                   *)

\* What dying does to the store of each process and to each call.
LEMMA DieFacts ==
  ASSUME TypeInv, FsInv, NEW P \in SUBSET Procs, Die(P)
  PROVE  /\ handle' \in [Procs -> HandleSet] /\ holder' \in Procs \cup {None} /\ CallType'
         /\ \A p \in Procs : handle'[p] = IF p \in P THEN NoHandle ELSE handle[p]
         /\ \A p \in Procs : p \notin P => mutex'[p] = mutex[p]
         /\ \A c \in Clients : c[1] \in P => pc'[c] = "idle" /\ (call'[c] = NoCall \/ (pc[c] = "idle" /\ call'[c] = call[c]))
         /\ \A c \in Clients : c[1] \notin P => pc'[c] = pc[c] /\ call'[c] = call[c]
<1>1. /\ handle \in [Procs -> HandleSet] /\ holder \in Procs \cup {None}
      /\ mutex \in [Procs -> Threads \cup {None}] /\ call \in [Clients -> Calls]
      /\ pc \in [Clients -> {"idle", "lock", "read", "write", "rename", "done", "failed"}]
  BY DEF TypeInv, RootType, CallType
<1>2. NoHandle \in HandleSet
  BY DEF NoHandle, HandleSet
<1>3. NoCall \in Calls
  BY DEF NoCall, Calls, Results, Result
<1>4. handle' \in [Procs -> HandleSet] /\ \A p \in Procs : handle'[p] = IF p \in P THEN NoHandle ELSE handle[p]
  BY <1>1, <1>2 DEF Die
<1>5. holder' \in Procs \cup {None}
  BY <1>1 DEF Die
<1>6. mutex' \in [Procs -> Threads \cup {None}] /\ \A p \in Procs : p \notin P => mutex'[p] = mutex[p]
  BY <1>1 DEF Die
<1>7. /\ pc' \in [Clients -> {"idle", "lock", "read", "write", "rename", "done", "failed"}]
      /\ \A c \in Clients : pc'[c] = IF c[1] \in P THEN "idle" ELSE pc[c]
  BY <1>1 DEF Die
<1>8. /\ call' \in [Clients -> Calls]
      /\ \A c \in Clients : call'[c] = IF c[1] \in P /\ pc[c] # "idle" THEN NoCall ELSE call[c]
  BY <1>1, <1>3 DEF Die
<1>9. QED
  BY <1>4, <1>5, <1>6, <1>7, <1>8 DEF CallType

\* The answer of a call outlives it, the call itself does not.
LEMMA DeadCalls ==
  ASSUME TypeInv, FsInv, NEW P \in SUBSET Procs, Die(P), UNCHANGED minted,
         P = Procs \/ UNCHANGED <<dirs, file>>
  PROVE  CallsOK'
<1> SUFFICES ASSUME NEW c \in Clients PROVE CallOK(c)'
  BY DEF CallsOK
<1>1. CallOK(c) /\ c[1] \in Procs
  BY CallFacts
<1>2. NoCall.st = "idle" /\ NoCall.req.op = "none" /\ NoCall.res.kind = "none"
  BY DEF NoCall, NoRequest, Request, Result
<1>3. CASE c[1] \in P
  <2>1. pc'[c] = "idle" /\ (call'[c] = NoCall \/ (pc[c] = "idle" /\ call'[c] = call[c]))
    BY <1>3, DieFacts
  <2>2. QED
    BY <1>1, <1>2, <2>1 DEF CallOK
<1>4. CASE c[1] \notin P
  <2>1. pc'[c] = pc[c] /\ call'[c] = call[c] /\ handle'[c[1]] = handle[c[1]] /\ mutex'[c[1]] = mutex[c[1]]
    BY <1>1, <1>4, DieFacts
  <2>2. UNCHANGED <<dirs, file>>
    BY <1>1, <1>4
  <2>3. QED
    BY <1>1, <2>1, <2>2 DEF CallOK
<1>5. QED
  BY <1>3, <1>4

LEMMA CrashStep ==
  ASSUME TypeInv, FsInv, NEW p \in Procs, Crash(p) PROVE TypeInv' /\ FsInv'
<1>1. /\ UNCHANGED <<dirs, legacy, file, kept, born, minted, calls, losses>> /\ Die({p}) /\ ids' = ids + 1
      /\ marker' = marker \/ (handle[p].st = "naming" /\ marker' \in {Blank, Torn, ids})
      /\ handle[p].st # "none"
  BY DEF Crash
<1>2. /\ handle' \in [Procs -> HandleSet] /\ holder' \in Procs \cup {None} /\ CallType'
      /\ \A q \in Procs : handle'[q] = IF q \in {p} THEN NoHandle ELSE handle[q]
  BY <1>1, DieFacts
<1>3. /\ ids \in Nat /\ ids' \in Nat /\ marker \in Nat \cup {None, Blank, Torn}
      /\ holder' = (IF holder = p THEN None ELSE holder)
  BY <1>1 DEF TypeInv, RootType, Die
<1>4. marker' \in Nat \cup {None, Blank, Torn} /\ marker' # None
  BY <1>1, <1>3, FsAssumption DEF FsInv, HandlesOK
<1>5. TypeInv'
  BY <1>1, <1>2, <1>3, <1>4 DEF TypeInv, RootType, FileType
<1>6. handle[p].st = "naming" => marker = Blank /\ ~dirs /\ ~legacy /\ holder = p
  BY DEF FsInv, HandlesOK
<1>7. HandlesOK'
  <2> SUFFICES ASSUME NEW q \in Procs, q # p
      PROVE  /\ handle[q].st \in {"locked", "naming", "open"} => holder' = q /\ marker' = marker
    BY <1>1, <1>2, <1>4 DEF HandlesOK, FsInv, NoHandle
  <2>1. handle[q].st \in {"locked", "naming", "open"} => holder = q
    BY DEF FsInv, HandlesOK
  <2>2. QED
    BY <1>1, <1>3, <1>6, <2>1
<1>8. RootOK'
  BY <1>1, <1>3, <1>6, FsAssumption DEF FsInv, RootOK
<1>9. FilesOK'
  <2> SUFFICES ASSUME NEW k \in Keys, NEW v \in minted[k] PROVE v.etag < ids'
    BY <1>1 DEF FsInv, FilesOK
  <2>1. v.etag < ids /\ v \in Versions
    BY DEF FsInv, FilesOK, TypeInv, FileType
  <2>2. v.etag \in Nat
    BY <2>1 DEF Versions
  <2>3. QED
    BY <1>1, <1>3, <2>1, <2>2
<1>10. CallsOK'
  BY <1>1, DeadCalls
<1>11. QED
  BY <1>5, <1>7, <1>8, <1>9, <1>10 DEF FsInv

LEMMA PowerLossStep ==
  ASSUME TypeInv, FsInv, PowerLoss PROVE TypeInv' /\ FsInv'
<1>1. /\ losses' = losses + 1 /\ Die(Procs) /\ marker' \in {marker, Torn, Blank, None}
      /\ UNCHANGED <<legacy, born, minted, ids, calls>>
  BY DEF PowerLoss
<1>2. /\ file' \in [Keys -> {None, Broken} \cup UNION {kept[k] : k \in Keys}]
      /\ kept' = [k \in Keys |-> {file'[k]} \ {None}]
      /\ \A k \in Keys : file'[k] \in {None} \cup kept[k] \/ (file'[k] = Broken /\ kept[k] # {})
      /\ dirs' \in {dirs, \E k \in Keys : file'[k] # None}
  BY DEF PowerLoss
<1>3. /\ handle' \in [Procs -> HandleSet] /\ holder' \in Procs \cup {None} /\ CallType'
      /\ \A q \in Procs : handle'[q] = IF q \in Procs THEN NoHandle ELSE handle[q]
  BY <1>1, DieFacts
<1>4. /\ kept \in [Keys -> SUBSET (Versions \cup {Broken})] /\ losses \in Nat /\ dirs \in BOOLEAN
      /\ marker \in Nat \cup {None, Blank, Torn}
  BY DEF TypeInv, FileType, RootType
<1>5. /\ losses' \in Nat /\ losses' # 0 /\ marker' \in Nat \cup {None, Blank, Torn} /\ dirs' \in BOOLEAN
      /\ marker' \in Nat => marker' = marker
  <2>1. losses' \in Nat /\ losses' # 0
    BY <1>1, <1>4
  <2>2. dirs' \in BOOLEAN
    BY <1>2, <1>4
  <2>3. marker' \in Nat \cup {None, Blank, Torn} /\ (marker' \in Nat => marker' = marker)
    BY <1>1, <1>4, FsAssumption
  <2>4. QED
    BY <2>1, <2>2, <2>3
<1>6. file' \in [Keys -> Versions \cup {None, Broken}]
  BY <1>2, <1>4
<1>7. /\ kept' \in [Keys -> SUBSET (Versions \cup {Broken})]
      /\ \A k \in Keys : kept'[k] = {file'[k]} \ {None}
  BY <1>2, <1>6
<1>8. TypeInv'
  BY <1>1, <1>3, <1>5, <1>6, <1>7 DEF TypeInv, RootType, FileType
<1>9. HandlesOK'
  BY <1>3 DEF HandlesOK, NoHandle
<1>10. \A k \in Keys : kept'[k] # {} => file'[k] # None /\ kept[k] # {}
  BY <1>2, <1>7
<1>11. \A k \in Keys : kept'[k] # {} => dirs'
  BY <1>2, <1>10 DEF FsInv, RootOK
<1>12. RootOK'
  BY <1>1, <1>5, <1>10, <1>11 DEF FsInv, RootOK
<1>13. FilesOK'
  BY <1>1, <1>2, <1>7 DEF FsInv, FilesOK
<1>14. CallsOK'
  BY <1>1, DeadCalls
<1>15. QED
  BY <1>8, <1>9, <1>12, <1>13, <1>14 DEF FsInv
-----------------------------------------------------------------------------
(* The invariant holds                                                       *)

LEMMA FsStarts ==
  ASSUME Init PROVE TypeInv /\ FsInv
<1>1. /\ NoHandle \in HandleSet /\ NoHandle.st = "none"
      /\ NoCall.st = "idle" /\ NoCall.req.op = "none" /\ NoCall.res.kind = "none"
  BY DEF NoHandle, HandleSet, NoCall, NoRequest, Request, Result
<1>2. NoCall \in Calls
  BY DEF NoCall, Calls, Results, Result
<1>3. TypeInv
  BY <1>1, <1>2 DEF Init, TypeInv, RootType, FileType, CallType
<1>4. HandlesOK
  BY <1>1 DEF Init, HandlesOK
<1>5. RootOK /\ FilesOK
  BY FsAssumption DEF Init, RootOK, FilesOK
<1>6. CallsOK
  BY <1>1 DEF Init, CallsOK, CallOK
<1>7. QED
  BY <1>3, <1>4, <1>5, <1>6 DEF FsInv

LEMMA FsStep ==
  ASSUME TypeInv, FsInv, [Next]_vars PROVE TypeInv' /\ FsInv'
<1>1. ASSUME NEW p \in Procs, OpenMarker(p) \/ NewStep(p) \/ Drop(p) \/ Crash(p)
      PROVE  TypeInv' /\ FsInv'
  BY <1>1, OpenMarkerStep, TryLockStep, ReadMarkerStep, WriteMarkerStep, DropStep, CrashStep DEF NewStep
<1>2. ASSUME NEW c \in Clients, Invoke(c) \/ OpStep(c)
      PROVE  TypeInv' /\ FsInv'
  BY <1>2, InvokeStep, LockStep, ReadStep, WriteTempStep, RenameStep, ReturnStep DEF OpStep
<1>3. CASE UNCHANGED vars
  <2>1. /\ UNCHANGED <<marker, dirs, legacy, file, kept, born, holder, handle, mutex, pc, call, minted>>
        /\ UNCHANGED <<ids, calls, losses>>
    BY <1>3 DEF vars
  <2>2. TypeInv'
    BY <2>1 DEF TypeInv, RootType, FileType, CallType
  <2>3. FsInv'
    BY <2>1 DEF FsInv, HandlesOK, RootOK, FilesOK, CallsOK, CallOK
  <2>4. QED
    BY <2>2, <2>3
<1>4. QED
  BY <1>1, <1>2, <1>3, PowerLossStep DEF Next

\* The invariant of FsStore: one process past the lock, one thread past the
\* mutex, identities that only ever name empty roots.
THEOREM FsHolds == Spec => [](TypeInv /\ FsInv)
<1>1. Init => TypeInv /\ FsInv
  BY FsStarts
<1>2. TypeInv /\ FsInv /\ [Next]_vars => (TypeInv /\ FsInv)'
  BY FsStep
<1>3. QED
  BY <1>1, <1>2, PTL DEF Spec

\* A store that is open has the identity its objects were written under, those
\* that are left after power failures included: a cache filled under another
\* identity is never trusted for them.
THEOREM IdentityKept == Spec => []IdentityHolds
<1>1. ASSUME TypeInv, FsInv PROVE IdentityHolds
  <2> SUFFICES ASSUME NEW p \in Procs, handle[p].st = "open"
      PROVE  ~legacy /\ \A k \in Keys : file[k] # None => born[k] = handle[p].ns
    BY DEF IdentityHolds
  <2>1. handle[p].ns = marker /\ marker \in Nat
    BY <1>1 DEF FsInv, HandlesOK
  <2>2. ~legacy /\ \A k \in Keys : kept[k] # {} => born[k] = marker
    BY <1>1, <2>1 DEF FsInv, RootOK
  <2>3. \A k \in Keys : file[k] # None => kept[k] # {}
    BY <1>1 DEF FsInv, FilesOK
  <2>4. QED
    BY <2>1, <2>2, <2>3
<1>2. QED
  BY <1>1, FsHolds, PTL

\* While the power holds, a root that has an object has its identity: no crash
\* and no failed file operation locks objects away.
THEOREM NeverLockedAway == Spec => []Reopenable
<1>1. ASSUME TypeInv, FsInv PROVE Reopenable
  <2> SUFFICES ASSUME losses = 0, NEW k \in Keys, file[k] # None
      PROVE  marker \notin {None, Blank, Torn}
    BY DEF Reopenable
  <2>1. kept[k] # {}
    BY <1>1 DEF FsInv, FilesOK
  <2>2. marker \in Nat
    BY <1>1, <2>1 DEF FsInv, RootOK
  <2>3. QED
    BY <2>2, FsAssumption
<1>2. QED
  BY <1>1, FsHolds, PTL

\* What a read returns was stored whole, under its own ETag.
THEOREM ReadsAreTrue == Spec => []ReadsTrue
<1>1. ASSUME TypeInv, FsInv PROVE ReadsTrue
  BY <1>1 DEF FsInv, CallsOK, CallOK, ReadsTrue
<1>2. QED
  BY <1>1, FsHolds, PTL
-----------------------------------------------------------------------------
(* The contract of the ObjectStore trait                                     *)

\* The contract and this module speak of calls in the same words.
LEMMA SameWords ==
  /\ Contract!NoCall = NoCall /\ Contract!Unknown = Unknown /\ Contract!Refused = Refused
  /\ \A x, y : Contract!Result(x, y) = Result(x, y)
  /\ \A x, y : Contract!CondGet(x, y) = CondGet(x, y)
  /\ \A x, y : Contract!CasMatches(x, y) = CasMatches(x, y)
<1>1. \A x, y : Contract!Result(x, y) = Result(x, y)
  BY DEF Contract!Result, Result
<1>2. Contract!Unknown = Unknown /\ Contract!Refused = Refused
  BY <1>1 DEF Contract!Unknown, Unknown, Contract!Refused, Refused
<1>3. Contract!NoCall = NoCall
  BY <1>1 DEF Contract!NoCall, NoCall, Contract!NoRequest, NoRequest, Contract!Request, Request
<1>4. \A x, y : Contract!CondGet(x, y) = CondGet(x, y)
  BY <1>1 DEF Contract!CondGet, CondGet
<1>5. \A x, y : Contract!CasMatches(x, y) = CasMatches(x, y)
  BY DEF Contract!CasMatches, CasMatches, Contract!ETagOf, ETagOf
<1>6. QED
  BY <1>1, <1>2, <1>3, <1>4, <1>5

LEMMA Stutters ==
  ASSUME UNCHANGED <<file, minted, call>> PROVE UNCHANGED Contract!vars
BY DEF Contract!vars

LEMMA InvokeKeeps ==
  ASSUME TypeInv, FsInv, NEW c \in Clients, Invoke(c) PROVE Contract!Invoke(c)
<1> DEFINE tags == {v.etag : v \in UNION {minted[k] : k \in Keys}}
<1>1. tags \in SUBSET Nat /\ calls \in Nat
  BY DEF TypeInv, RootType, FileType, Versions
<1>2. PICK r \in Requests(tags, calls) : call' = [call EXCEPT ![c] = [NoCall EXCEPT !.st = "open", !.req = r]]
  BY DEF Invoke
<1>3. r \in Reqs
  BY <1>1, <1>2, RequestTyped
<1> HIDE DEF tags
<1>4. call[c].st = "idle" /\ UNCHANGED <<file, minted>> /\ r.key \in Keys
  BY <1>3, CallFacts DEF Invoke, CallOK, diskVars, Reqs
<1>5. call'[c] = [NoCall EXCEPT !.st = "open", !.req = r]
  BY <1>2, CallFacts
<1>6. call'[c].st = "open" /\ call'[c].req = r
  BY <1>5 DEF NoCall
<1>7. call' = [call EXCEPT ![c] = [Contract!NoCall EXCEPT !.st = "open", !.req = call'[c].req]]
  BY <1>2, <1>6, SameWords
<1>8. QED
  BY <1>4, <1>6, <1>7 DEF Contract!Invoke

\* A call that is done was served in the step that did it.
LEMMA DoneKeeps ==
  ASSUME TypeInv, FsInv, NEW c \in Clients, NEW res \in Results, Done(c, res),
         call[c].st = "open", Contract!Effect(call[c].req, res)
  PROVE  Contract!Serve(c)
<1>1. call'[c] = ServedAs(call[c], res) /\ ServedAs(call[c], res).st = "served" /\ ServedAs(call[c], res).res = res
  BY DoneCall
<1>2. call'[c].st = "served" /\ call'[c].res = res
  BY <1>1
<1>3. call' = [call EXCEPT ![c].st = "served", ![c].res = call'[c].res]
  BY <1>2 DEF Done
<1>4. QED
  BY <1>2, <1>3 DEF Contract!Serve

LEMMA ReadKeeps ==
  ASSUME TypeInv, FsInv, NEW c \in Clients, Read(c)
  PROVE  Contract!Serve(c) \/ UNCHANGED Contract!vars
<1> DEFINE r == call[c].req
           found == file[r.key]
<1>1. pc[c] = "read" /\ UNCHANGED minted
  BY DEF Read
<1>2. call[c].st = "open" /\ r \in Reqs
  BY <1>1, CallFacts DEF CallOK
<1>3. r.key \in Keys /\ found \in Versions \cup {None, Broken}
  BY <1>2 DEF Reqs, TypeInv, FileType
<1>4. ASSUME NEW place, To(c, place), UNCHANGED file PROVE UNCHANGED Contract!vars
  BY <1>1, <1>4, Stutters DEF To
<1>5. CASE r.op = "get" /\ found # Broken /\ Done(c, CondGet(found, r.expect)) /\ UNCHANGED file
  <2>1. CondGet(found, r.expect) \in Results
    BY <1>3, <1>5 DEF CondGet, Result, Results
  <2>2. Contract!Effect(call[c].req, CondGet(found, r.expect))
    BY <1>1, <1>5, SameWords DEF Contract!Effect
  <2>3. QED
    BY <1>2, <1>5, <2>1, <2>2, DoneKeeps
<1>6. Refused \in Results /\ Result("ok", None) \in Results
  BY DEF Refused, Result, Results
<1>7. CASE r.op = "cas" /\ UNCHANGED file /\ ~CasMatches(found, r.expect) /\ Done(c, Refused)
  <2>1. Contract!Effect(call[c].req, Refused)
    BY <1>1, <1>7, SameWords DEF Contract!Effect
  <2>2. QED
    BY <1>2, <1>6, <1>7, <2>1, DoneKeeps
<1>8. CASE r.op = "delete" /\ file' = [file EXCEPT ![r.key] = None] /\ Done(c, Result("ok", None))
  <2>1. Contract!Effect(call[c].req, Result("ok", None))
    BY <1>1, <1>8, SameWords DEF Contract!Effect
  <2>2. QED
    BY <1>2, <1>6, <1>8, <2>1, DoneKeeps
<1>9. QED
  BY <1>4, <1>5, <1>7, <1>8 DEF Read, ReadObject

\* The rename publishes what put_if_match compared against, under an ETag no
\* version had.
LEMMA RenameKeeps ==
  ASSUME TypeInv, FsInv, NEW c \in Clients, Rename(c)
  PROVE  Contract!Serve(c) \/ UNCHANGED Contract!vars
<1> DEFINE r == call[c].req
           v == Version(ids, r.data)
           k == r.key
<1>1. CASE To(c, "failed") /\ UNCHANGED <<file, kept, born, minted>>
  BY <1>1, Stutters DEF To
<1>2. CASE /\ file' = [file EXCEPT ![k] = v]
           /\ minted' = [minted EXCEPT ![k] = @ \cup {v}] /\ Done(c, Result("ok", ids))
  <2>1. /\ call[c].st = "open" /\ r \in Reqs /\ r.data \in Data /\ r.op \in {"cas", "put"}
        /\ r.op = "cas" => CasMatches(file[k], r.expect)
    BY CallFacts DEF Rename, CallOK
  <2>2. k \in Keys /\ ids \in Nat /\ v \in Versions /\ v.etag = ids /\ v.data = r.data
    BY <2>1 DEF Reqs, TypeInv, RootType, Versions, Version
  <2> HIDE DEF v
  <2>3. file'[k] = v /\ v # None
    BY <1>2, <2>2, FsAssumption DEF TypeInv, FileType, Versions
  <2>4. \A u \in minted[k] : u.etag # v.etag
    <3> SUFFICES ASSUME NEW u \in minted[k] PROVE u.etag # ids
      BY <2>2
    <3>1. u.etag < ids /\ u \in Versions
      BY <2>2 DEF FsInv, FilesOK, TypeInv, FileType
    <3>2. u.etag \in Nat
      BY <3>1 DEF Versions
    <3>3. QED
      BY <2>2, <3>1, <3>2
  <2>5. Contract!Stores(k, r.data)
    BY <1>2, <2>2, <2>3, <2>4 DEF Contract!Stores
  <2>6. Result("ok", ids) = Contract!Result("ok", file'[k].etag) /\ Result("ok", ids) \in Results
    BY <2>2, <2>3, SameWords DEF Results, Result
  <2>7. Contract!Effect(call[c].req, Result("ok", ids))
    BY <2>1, <2>5, <2>6, SameWords DEF Contract!Effect
  <2>8. QED
    BY <1>2, <2>1, <2>6, <2>7, DoneKeeps
<1>3. QED
  BY <1>1, <1>2 DEF Rename

LEMMA ReturnKeeps ==
  ASSUME TypeInv, FsInv, NEW c \in Clients, Return(c)
  PROVE  Contract!AnswerServed(c) \/ Contract!AnswerOpen(c)
<1>1. /\ pc[c] \in {"done", "failed"} /\ UNCHANGED <<file, minted>>
      /\ call' = [call EXCEPT ![c] = [NoCall EXCEPT !.res = Answer(c)]]
  BY DEF Return
<1>2. Contract!Answers(c, Answer(c))
  BY <1>1, SameWords DEF Contract!Answers
<1>3. CASE pc[c] = "done"
  <2>1. Answer(c) = call[c].res /\ call[c].st = "served"
    BY <1>3, CallFacts DEF Answer, CallOK
  <2>2. QED
    BY <1>1, <1>2, <2>1 DEF Contract!AnswerServed
<1>4. CASE pc[c] = "failed"
  <2>1. Answer(c) = Contract!Unknown /\ call[c].st = "open"
    BY <1>4, CallFacts, SameWords DEF Answer, CallOK
  <2>2. Contract!MayBeLate(c)
    BY DEF Contract!MayBeLate
  <2>3. QED
    BY <1>1, <1>2, <2>1, <2>2 DEF Contract!AnswerOpen
<1>5. QED
  BY <1>1, <1>3, <1>4

LEMMA CrashKeeps ==
  ASSUME TypeInv, FsInv, NEW p \in Procs, Crash(p)
  PROVE  \E C \in SUBSET Clients : Contract!Abandon(C)
<1> DEFINE C == {c \in Clients : c[1] = p /\ pc[c] # "idle"}
<1>1. /\ UNCHANGED <<file, minted>>
      /\ call' = [c \in Clients |-> IF c[1] \in {p} /\ pc[c] # "idle" THEN NoCall ELSE call[c]]
  BY DEF Crash, Die
<1>2. \A c \in C : call[c].st # "idle"
  BY DEF FsInv, CallsOK, CallOK, TypeInv, CallType
<1>3. call' = [c \in Clients |-> IF c \in C THEN Contract!NoCall ELSE call[c]]
  BY <1>1, SameWords
<1>4. Contract!Abandon(C)
  BY <1>1, <1>2, <1>3 DEF Contract!Abandon
<1>5. QED
  BY <1>4

LEMMA RootKeeps ==
  ASSUME NEW p \in Procs, OpenMarker(p) \/ NewStep(p) \/ Drop(p) PROVE UNCHANGED Contract!vars
<1>1. UNCHANGED opVars
  BY DEF OpenMarker, NewStep, TryLock, ReadMarker, WriteMarker, Drop
<1>2. QED
  BY <1>1, Stutters DEF opVars

\* Every step of an FsStore is one of the contract, or changes nothing the
\* contract speaks of, unless the power fails.
LEMMA StepKeeps ==
  ASSUME TypeInv, FsInv, [Next]_vars
  PROVE  [losses' = losses => Contract!Next]_(Contract!vars)
<1> SUFFICES ASSUME losses' = losses PROVE Contract!Next \/ UNCHANGED Contract!vars
  OBVIOUS
<1>1. ASSUME NEW p \in Procs, OpenMarker(p) \/ NewStep(p) \/ Drop(p) \/ Crash(p)
      PROVE  Contract!Next \/ UNCHANGED Contract!vars
  <2>1. CASE Crash(p)
    BY <2>1, CrashKeeps DEF Contract!Next
  <2>2. CASE OpenMarker(p) \/ NewStep(p) \/ Drop(p)
    BY <2>2, RootKeeps
  <2>3. QED
    BY <1>1, <2>1, <2>2
<1>2. ASSUME NEW c \in Clients, Invoke(c) \/ OpStep(c)
      PROVE  Contract!Next \/ UNCHANGED Contract!vars
  <2>1. CASE Lock(c) \/ WriteTemp(c)
    <3>1. UNCHANGED <<file, minted, call>>
      BY <2>1 DEF Lock, WriteTemp, To
    <3>2. QED
      BY <3>1, Stutters
  <2>2. CASE Invoke(c)
    BY <2>2, InvokeKeeps DEF Contract!Next
  <2>3. CASE Read(c) \/ Rename(c)
    BY <2>3, ReadKeeps, RenameKeeps DEF Contract!Next
  <2>4. CASE Return(c)
    BY <2>4, ReturnKeeps DEF Contract!Next
  <2>5. QED
    BY <1>2, <2>1, <2>2, <2>3, <2>4 DEF OpStep
<1>3. ~PowerLoss
  <2>1. losses \in Nat
    BY DEF TypeInv, RootType
  <2>2. PowerLoss => losses' = losses + 1
    BY DEF PowerLoss
  <2>3. QED
    BY <2>1, <2>2
<1>4. CASE UNCHANGED vars
  BY <1>4, Stutters DEF vars
<1>5. QED
  BY <1>1, <1>2, <1>3, <1>4 DEF Next

\* FsStore implements the contract of the trait: its calls take effect at one
\* moment, crashes, failing file operations and competing processes included;
\* only a power failure may lose objects.
THEOREM FsKeepsContract == Spec => KeepsContract
<1>1. Init => Contract!Init
  <2> SUFFICES ASSUME Init PROVE Contract!Init
    OBVIOUS
  <2>1. \A k \in Keys : minted[k] = {file[k]} \ {None}
    BY DEF Init
  <2>2. call = [c \in Clients |-> Contract!NoCall]
    BY SameWords DEF Init
  <2>3. QED
    BY <2>1, <2>2 DEF Contract!Init
<1>2. TypeInv /\ FsInv /\ [Next]_vars => [losses' = losses => Contract!Next]_(Contract!vars)
  BY StepKeeps
<1>3. QED
  BY <1>1, <1>2, FsHolds, PTL DEF Spec, KeepsContract
=============================================================================
