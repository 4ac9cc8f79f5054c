--------------------------- MODULE SimStoreProofs ---------------------------
(* SimStore around a MemoryStore keeps its contract and its counters add up, *)
(* for any number of clients, keys, calls and injected faults.               *)
(*                                                                           *)
(* A put that has drawn its ETag and not yet stored its body is the hard     *)
(* case: others draw and store theirs in between.  Its ETag stays unused     *)
(* because the counter never goes back and no two calls draw the same.       *)
EXTENDS SimStore, FiniteSetTheorems, TLAPS

Versions == [etag : Nat, data : Data]

Reqs == [op : {"get", "cas", "put", "delete"}, key : Keys, expect : Nat \cup {None},
         data : Data \cup {None}, n : Nat]

Results == [kind : {"none", "error", "refused", "missing", "notmodified", "changed", "ok"},
            val : Versions \cup Nat \cup {None, "NotApplied", "Unknown"}]

Calls == [st : {"idle", "open", "served"}, req : Reqs \cup {NoRequest}, res : Results]

Places == {"idle", "roll", "inner", "insert", "count", "ambiguous"}

MemType ==
  /\ obj \in [Keys -> Versions \cup {None}]
  /\ minted \in [Keys -> SUBSET Versions]
  /\ next_etag \in Nat
  /\ etag \in [Clients -> Nat \cup {None}]

CallType ==
  /\ call \in [Clients -> Calls]
  /\ pc \in [Clients -> Places]
  /\ calls \in Nat

StatsType ==
  /\ stats \in [gets : Nat, not_modified : Nat, puts : Nat, cas_failures : Nat, deletes : Nat,
                faults_injected : Nat]
  /\ told \in [ok : Nat, refused : Nat, clean : Nat, ambiguous : Nat]

TypeInv == MemType /\ CallType /\ StatsType
-----------------------------------------------------------------------------
(* The invariant                                                             *)

\* The ETag counter is ahead of every ETag that was stored.
Ahead == \A k \in Keys : \A v \in minted[k] : v.etag < next_etag

\* A drawn ETag belongs to its put alone, until it is stored.
Drawn(c) ==
  pc[c] = "insert" =>
    /\ etag[c] \in Nat /\ etag[c] < next_etag
    /\ \A k \in Keys : \A v \in minted[k] : v.etag # etag[c]
    /\ \A d \in Clients : d # c /\ pc[d] = "insert" => etag[d] # etag[c]

\* The kinds of result an operation has.
Fits(r, res) ==
  /\ res.kind \in IF r.op = "get" THEN {"missing", "notmodified", "changed"}
                  ELSE IF r.op = "cas" THEN {"refused", "ok"} ELSE {"ok"}
  /\ res.kind = "refused" => res = Refused

\* Where a call is and whether it took effect, and with which kinds of result.
CallOK(c) ==
  /\ pc[c] = "idle" => call[c].st = "idle"
  /\ pc[c] \in {"roll", "inner", "insert"} => call[c].st = "open"
  /\ pc[c] \in {"count", "ambiguous"} => call[c].st = "served"
  /\ pc[c] # "idle" => call[c].req \in Reqs
  /\ pc[c] # "idle" /\ call[c].req.op \in {"cas", "put"} => call[c].req.data \in Data
  /\ pc[c] = "insert" => call[c].req.op = "put"
  /\ pc[c] \in {"count", "ambiguous"} => Fits(call[c].req, call[c].res)
  /\ pc[c] = "ambiguous" => Mutation(call[c].req) /\ call[c].res # Refused

CallsOK == \A c \in Clients : CallOK(c) /\ Drawn(c)

\* Executed mutations whose callers have no answer yet.
Pending == {c \in Clients : pc[c] = "ambiguous"}

\* The counters against the answers, calls under way included.
Accounts ==
  /\ stats.faults_injected = told.clean + told.ambiguous
  /\ stats.cas_failures = told.refused
  /\ stats.gets + stats.not_modified + stats.puts + stats.deletes
       = told.ok + told.ambiguous + Cardinality(Pending)

SimInv == Ahead /\ CallsOK /\ Accounts
-----------------------------------------------------------------------------
(* Counting the executed mutations that are not answered yet                 *)

LEMMA PendingFinite == IsFiniteSet(Pending) /\ Cardinality(Pending) \in Nat
<1>1. Pending \subseteq Clients
  BY DEF Pending
<1>2. IsFiniteSet(Pending)
  BY <1>1, SimAssumption, FS_Subset
<1>3. QED
  BY <1>2, FS_CardinalityType

LEMMA PendingMoves ==
  ASSUME TypeInv, NEW c \in Clients, NEW x \in Places, pc' = [pc EXCEPT ![c] = x]
  PROVE  /\ x = "ambiguous" /\ pc[c] # "ambiguous" => Cardinality(Pending') = Cardinality(Pending) + 1
         /\ x # "ambiguous" /\ pc[c] = "ambiguous" => Cardinality(Pending') = Cardinality(Pending) - 1
         /\ x # "ambiguous" /\ pc[c] # "ambiguous" => Cardinality(Pending') = Cardinality(Pending)
<1>1. pc \in [Clients -> Places]
  BY DEF TypeInv, CallType
<1>2. pc'[c] = x /\ \A d \in Clients : d # c => pc'[d] = pc[d]
  BY <1>1
<1>3. CASE x = "ambiguous" /\ pc[c] # "ambiguous"
  <2>1. Pending' = Pending \cup {c} /\ c \notin Pending
    BY <1>2, <1>3 DEF Pending
  <2>2. Cardinality(Pending \cup {c}) = Cardinality(Pending) + 1
    BY <2>1, PendingFinite, FS_AddElement
  <2>3. QED
    BY <1>3, <2>1, <2>2
<1>4. CASE x # "ambiguous" /\ pc[c] = "ambiguous"
  <2>1. Pending' = Pending \ {c} /\ c \in Pending
    BY <1>2, <1>4 DEF Pending
  <2>2. Cardinality(Pending \ {c}) = Cardinality(Pending) - 1
    BY <2>1, PendingFinite, FS_RemoveElement
  <2>3. QED
    BY <1>4, <2>1, <2>2
<1>5. CASE x # "ambiguous" /\ pc[c] # "ambiguous"
  <2>1. Pending' = Pending
    BY <1>2, <1>5 DEF Pending
  <2>2. QED
    BY <1>5, <2>1
<1>6. QED
  BY <1>3, <1>4, <1>5

\* A step that counts nothing and answers nobody.
LEMMA NothingCounted ==
  ASSUME TypeInv, SimInv, NEW c \in Clients, NEW x \in Places, pc' = [pc EXCEPT ![c] = x],
         x # "ambiguous", pc[c] # "ambiguous", UNCHANGED <<stats, told>>
  PROVE  Accounts' /\ StatsType'
<1>1. Cardinality(Pending') = Cardinality(Pending)
  BY PendingMoves
<1>2. QED
  BY <1>1 DEF SimInv, Accounts, TypeInv, StatsType
-----------------------------------------------------------------------------
(* Calls and requests                                                        *)

LEMMA CallFacts ==
  ASSUME TypeInv, SimInv, NEW c \in Clients
  PROVE  /\ CallOK(c) /\ Drawn(c) /\ call[c] \in Calls /\ pc[c] \in Places
         /\ call \in [Clients -> Calls] /\ pc \in [Clients -> Places] /\ calls \in Nat
BY DEF SimInv, CallsOK, TypeInv, CallType

LEMMA RequestTyped ==
  ASSUME NEW tags \in SUBSET Nat, NEW n \in Nat, NEW r \in Requests(tags, n)
  PROVE  r \in Reqs /\ (r.op \in {"cas", "put"} => r.data \in Data)
<1>1. CASE r \in {Request("get", k, e, None, n) : k \in Keys, e \in tags \cup {None}}
  <2>1. PICK k \in Keys, e \in tags \cup {None} : r = Request("get", k, e, None, n)
    BY <1>1
  <2>2. QED
    BY <2>1 DEF Request, Reqs
<1>2. CASE r \in {Request("cas", k, e, d, n) : k \in Keys, e \in tags \cup {None}, d \in Data}
  <2>1. PICK k \in Keys, e \in tags \cup {None}, d \in Data : r = Request("cas", k, e, d, n)
    BY <1>2
  <2>2. QED
    BY <2>1 DEF Request, Reqs
<1>3. CASE r \in {Request("put", k, None, d, n) : k \in Keys, d \in Data}
  <2>1. PICK k \in Keys, d \in Data : r = Request("put", k, None, d, n)
    BY <1>3
  <2>2. QED
    BY <2>1 DEF Request, Reqs
<1>4. CASE r \in {Request("delete", k, None, None, n) : k \in Keys}
  <2>1. PICK k \in Keys : r = Request("delete", k, None, None, n)
    BY <1>4
  <2>2. QED
    BY <2>1 DEF Request, Reqs
<1>5. QED
  BY <1>1, <1>2, <1>3, <1>4 DEF Requests

\* The call a client makes is one of a typed request.
LEMMA InvokeFacts ==
  ASSUME TypeInv, SimInv, NEW c \in Clients, Invoke(c)
  PROVE  \E r \in Reqs :
           /\ r.op \in {"cas", "put"} => r.data \in Data
           /\ call' = [call EXCEPT ![c] = [NoCall EXCEPT !.st = "open", !.req = r]]
           /\ [NoCall EXCEPT !.st = "open", !.req = r] \in Calls
           /\ call'[c].st = "open" /\ call'[c].req = r
<1>1. 0 .. next_etag - 1 \in SUBSET Nat /\ calls \in Nat
  BY DEF TypeInv, MemType, CallType
<1>2. PICK r \in Requests(0 .. next_etag - 1, calls) :
        call' = [call EXCEPT ![c] = [NoCall EXCEPT !.st = "open", !.req = r]]
  BY DEF Invoke
<1>3. r \in Reqs /\ (r.op \in {"cas", "put"} => r.data \in Data)
  BY <1>1, <1>2, RequestTyped
<1> DEFINE y == [NoCall EXCEPT !.st = "open", !.req = r]
<1>4. y \in Calls /\ y.st = "open" /\ y.req = r
  BY <1>3 DEF NoCall, Calls, Results, Result
<1>5. call'[c] = y
  BY <1>2, CallFacts
<1>6. QED
  BY <1>2, <1>3, <1>4, <1>5

\* What a call is once it is served, and once it has returned.
ServedAs(x, res) == [x EXCEPT !.st = "served", !.res = res]
Returned(res) == [NoCall EXCEPT !.res = res]

LEMMA ServedCall ==
  ASSUME TypeInv, SimInv, NEW c \in Clients, NEW res \in Results, Served(c, res)
  PROVE  /\ pc' = [pc EXCEPT ![c] = "count"] /\ call' = [call EXCEPT ![c] = ServedAs(call[c], res)]
         /\ ServedAs(call[c], res) \in Calls
         /\ call'[c].st = "served" /\ call'[c].res = res /\ call'[c].req = call[c].req
<1>1. call[c] \in Calls /\ call \in [Clients -> Calls]
  BY CallFacts
<1> DEFINE y == ServedAs(call[c], res)
<1>2. y \in Calls /\ y.st = "served" /\ y.res = res /\ y.req = call[c].req
  BY <1>1 DEF Calls, ServedAs
<1>3. call' = [call EXCEPT ![c] = y]
  BY <1>1 DEF Served, Calls, ServedAs
<1> HIDE DEF y
<1>4. pc' = [pc EXCEPT ![c] = "count"] /\ call'[c] = y
  BY <1>1, <1>3 DEF Served
<1>5. QED
  BY <1>2, <1>3, <1>4 DEF y

LEMMA ReturnedCall ==
  ASSUME TypeInv, SimInv, NEW c \in Clients, NEW res \in Results, Return(c, res)
  PROVE  /\ pc' = [pc EXCEPT ![c] = "idle"] /\ call' = [call EXCEPT ![c] = Returned(res)]
         /\ Returned(res) \in Calls /\ call'[c].st = "idle" /\ call'[c].res = res
<1>1. call \in [Clients -> Calls]
  BY CallFacts
<1>2. Returned(res) \in Calls /\ Returned(res).st = "idle" /\ Returned(res).res = res
  BY DEF Returned, NoCall, Calls
<1>3. pc' = [pc EXCEPT ![c] = "idle"] /\ call' = [call EXCEPT ![c] = Returned(res)]
  BY DEF Return, Returned
<1>4. call'[c] = Returned(res)
  BY <1>1, <1>3
<1>5. QED
  BY <1>2, <1>3, <1>4
-----------------------------------------------------------------------------
(* A step of one client                                                      *)

\* A step that moves one call to a place other than "insert" and leaves the
\* MemoryStore alone, except that it may delete an object.
LEMMA QuietStep ==
  ASSUME TypeInv, SimInv, NEW c \in Clients, NEW x \in Places, NEW y \in Calls,
         pc' = [pc EXCEPT ![c] = x], call' = [call EXCEPT ![c] = y], x # "insert",
         UNCHANGED <<minted, next_etag, etag>>, obj' \in [Keys -> Versions \cup {None}],
         calls' \in Nat, CallOK(c)', StatsType', Accounts'
  PROVE  TypeInv' /\ SimInv'
<1>1. call \in [Clients -> Calls] /\ pc \in [Clients -> Places]
  BY CallFacts
<1>2. pc'[c] = x /\ \A d \in Clients : d # c => pc'[d] = pc[d] /\ call'[d] = call[d]
  BY <1>1
<1>3. TypeInv'
  BY <1>1 DEF TypeInv, MemType, CallType
<1>4. Ahead'
  BY DEF SimInv, Ahead
<1>5. CallsOK'
  <2> SUFFICES ASSUME NEW d \in Clients PROVE CallOK(d)' /\ Drawn(d)'
    BY DEF CallsOK
  <2>1. CallOK(d) /\ Drawn(d)
    BY CallFacts
  <2>2. CASE d = c
    BY <1>2, <2>2 DEF Drawn
  <2>3. CASE d # c
    <3>1. CallOK(d)'
      BY <1>2, <2>1, <2>3 DEF CallOK
    <3>2. \A e \in Clients : pc'[e] = "insert" => pc[e] = "insert"
      BY <1>2
    <3>3. Drawn(d)'
      BY <1>2, <2>1, <2>3, <3>2 DEF Drawn
    <3>4. QED
      BY <3>1, <3>3
  <2>4. QED
    BY <2>2, <2>3
<1>6. QED
  BY <1>3, <1>4, <1>5 DEF SimInv

\* A step that stores a version under an ETag that belongs to its call.
LEMMA InsertStep ==
  ASSUME TypeInv, SimInv, NEW c \in Clients, NEW e \in Nat,
         pc[c] \in {"inner", "insert"}, call[c].req.op \in {"cas", "put"},
         Insert(call[c].req.key, e, call[c].req.data), Served(c, Result("ok", e)),
         next_etag' \in Nat, next_etag <= next_etag', e < next_etag',
         etag' \in [Clients -> Nat \cup {None}], \A d \in Clients : d # c => etag'[d] = etag[d],
         \A d \in Clients : d # c /\ pc[d] = "insert" => etag[d] # e,
         UNCHANGED <<calls, stats, told>>
  PROVE  TypeInv' /\ SimInv'
<1> DEFINE res == Result("ok", e)
           r == call[c].req
           v == Version(e, r.data)
           k == r.key
<1>1. res \in Results /\ res.kind = "ok"
  BY DEF Result, Results
<1>2. /\ pc' = [pc EXCEPT ![c] = "count"] /\ call' = [call EXCEPT ![c] = ServedAs(call[c], res)]
      /\ ServedAs(call[c], res) \in Calls
      /\ call'[c].st = "served" /\ call'[c].res = res /\ call'[c].req = r
  BY <1>1, ServedCall
<1>3. r \in Reqs /\ r.data \in Data /\ pc[c] # "ambiguous"
  BY CallFacts DEF CallOK
<1>4. k \in Keys /\ v \in Versions /\ v.etag = e
  BY <1>3 DEF Reqs, Versions, Version
<1>5. obj' = [obj EXCEPT ![k] = v] /\ minted' = [minted EXCEPT ![k] = @ \cup {v}]
  BY DEF Insert
<1> HIDE DEF v, res
<1>6. obj \in [Keys -> Versions \cup {None}] /\ minted \in [Keys -> SUBSET Versions] /\ next_etag \in Nat
  BY DEF TypeInv, MemType
<1>7. /\ obj' \in [Keys -> Versions \cup {None}] /\ minted' \in [Keys -> SUBSET Versions]
      /\ \A i \in Keys : minted'[i] \subseteq minted[i] \cup {v}
  BY <1>4, <1>5, <1>6
<1>8. Accounts' /\ StatsType'
  BY <1>2, <1>3, NothingCounted DEF Places
<1>9. /\ call \in [Clients -> Calls] /\ pc \in [Clients -> Places]
      /\ pc'[c] = "count" /\ \A d \in Clients : d # c => pc'[d] = pc[d] /\ call'[d] = call[d]
  BY <1>2, CallFacts
<1>10. TypeInv'
  BY <1>2, <1>7, <1>8, <1>9 DEF TypeInv, MemType, CallType, Places
<1>11. Ahead'
  <2> SUFFICES ASSUME NEW i \in Keys, NEW u \in minted'[i] PROVE u.etag < next_etag'
    BY DEF Ahead
  <2>1. CASE u = v
    BY <1>4, <2>1
  <2>2. CASE u \in minted[i]
    <3>1. u.etag < next_etag /\ u.etag \in Nat
      BY <1>6, <2>2 DEF SimInv, Ahead, Versions
    <3>2. QED
      BY <1>6, <3>1
  <2>3. QED
    BY <1>7, <2>1, <2>2
<1>12. CallsOK'
  <2> SUFFICES ASSUME NEW d \in Clients PROVE CallOK(d)' /\ Drawn(d)'
    BY DEF CallsOK
  <2>1. CallOK(d) /\ Drawn(d)
    BY CallFacts
  <2>2. CASE d = c
    <3>1. CallOK(c)'
      BY <1>1, <1>2, <1>3, <1>9 DEF CallOK, Fits
    <3>2. QED
      BY <1>9, <2>2, <3>1 DEF Drawn
  <2>3. CASE d # c
    <3>1. CallOK(d)'
      BY <1>9, <2>1, <2>3 DEF CallOK
    <3>2. SUFFICES ASSUME pc[d] = "insert" PROVE Drawn(d)'
      BY <1>9, <2>3, <3>1 DEF Drawn
    <3>3. /\ etag[d] \in Nat /\ etag[d] < next_etag /\ etag'[d] = etag[d] /\ etag[d] # v.etag
          /\ \A i \in Keys : \A u \in minted[i] : u.etag # etag[d]
          /\ \A b \in Clients : b # d /\ pc[b] = "insert" => etag[b] # etag[d]
      BY <1>4, <2>1, <2>3, <3>2 DEF Drawn
    <3>4. etag[d] < next_etag'
      BY <1>6, <3>3
    <3>5. \A i \in Keys : \A u \in minted'[i] : u.etag # etag[d]
      BY <1>7, <3>3
    <3>6. \A b \in Clients : b # d /\ pc'[b] = "insert" => etag'[b] # etag[d]
      BY <1>9, <3>3
    <3>7. QED
      BY <3>3, <3>4, <3>5, <3>6 DEF Drawn
  <2>4. QED
    BY <2>2, <2>3
<1>13. QED
  BY <1>8, <1>10, <1>11, <1>12 DEF SimInv
-----------------------------------------------------------------------------
(* The actions                                                               *)

LEMMA InvokeStep ==
  ASSUME TypeInv, SimInv, NEW c \in Clients, Invoke(c) PROVE TypeInv' /\ SimInv'
<1>1. PICK r \in Reqs :
        /\ r.op \in {"cas", "put"} => r.data \in Data
        /\ call' = [call EXCEPT ![c] = [NoCall EXCEPT !.st = "open", !.req = r]]
        /\ [NoCall EXCEPT !.st = "open", !.req = r] \in Calls
        /\ call'[c].st = "open" /\ call'[c].req = r
  BY InvokeFacts
<1>2. /\ pc[c] = "idle" /\ pc' = [pc EXCEPT ![c] = "roll"] /\ calls' = calls + 1
      /\ UNCHANGED <<obj, minted, next_etag, etag, stats, told>>
  BY DEF Invoke, memVars
<1>3. pc'[c] = "roll" /\ calls' \in Nat
  BY <1>2, CallFacts
<1>4. CallOK(c)'
  BY <1>1, <1>3 DEF CallOK
<1>5. Accounts' /\ StatsType'
  BY <1>2, NothingCounted DEF Places
<1>6. obj' \in [Keys -> Versions \cup {None}] /\ "roll" \in Places
  BY <1>2 DEF TypeInv, MemType, Places
<1>7. QED
  BY <1>1, <1>2, <1>3, <1>4, <1>5, <1>6, QuietStep

\* An answer with this result: how it is counted among those told.
LEMMA ReturnStep ==
  ASSUME TypeInv, SimInv, NEW c \in Clients, NEW res \in Results, Return(c, res),
         UNCHANGED <<obj, minted, next_etag, etag, calls>>, StatsType', Accounts'
  PROVE  TypeInv' /\ SimInv'
<1>1. /\ pc' = [pc EXCEPT ![c] = "idle"] /\ call' = [call EXCEPT ![c] = Returned(res)]
      /\ Returned(res) \in Calls /\ call'[c].st = "idle" /\ call'[c].res = res
  BY ReturnedCall
<1>2. pc'[c] = "idle" /\ calls' \in Nat
  BY <1>1, CallFacts
<1>3. CallOK(c)'
  BY <1>1, <1>2 DEF CallOK
<1>4. obj' \in [Keys -> Versions \cup {None}] /\ "idle" \in Places
  BY DEF TypeInv, MemType, Places
<1>5. QED
  BY <1>1, <1>2, <1>3, <1>4, QuietStep

\* The answers that are told apart.
LEMMA Words ==
  /\ NotApplied \in Results /\ Unknown \in Results /\ Refused \in Results
  /\ NotApplied # Unknown /\ NotApplied # Refused /\ Unknown # Refused
  /\ NotApplied.kind = "error" /\ Unknown.kind = "error" /\ Refused.kind = "refused"
<1>1. NotApplied \in Results /\ Unknown \in Results /\ Refused \in Results
  BY DEF NotApplied, Unknown, Refused, Result, Results
<1>2. NotApplied.val = "NotApplied" /\ Unknown.val = "Unknown"
  BY DEF NotApplied, Unknown, Result
<1>3. NotApplied.kind = "error" /\ Unknown.kind = "error" /\ Refused.kind = "refused"
  BY DEF NotApplied, Unknown, Refused, Result
<1>4. QED
  BY <1>1, <1>2, <1>3

LEMMA RollStep ==
  ASSUME TypeInv, SimInv, NEW c \in Clients, RollCleanFault(c) PROVE TypeInv' /\ SimInv'
<1>1. pc[c] = "roll" /\ UNCHANGED <<obj, minted, next_etag, etag, calls>>
  BY DEF RollCleanFault, memVars
<1>2. CASE stats' = [stats EXCEPT !.faults_injected = @ + 1] /\ Return(c, NotApplied)
  <2>1. pc' = [pc EXCEPT ![c] = "idle"] /\ told' = [told EXCEPT !.clean = @ + 1]
    BY <1>2 DEF Return
  <2>2. Cardinality(Pending') = Cardinality(Pending)
    BY <1>1, <2>1, PendingMoves DEF Places
  <2>3. StatsType' /\ Accounts'
    BY <1>2, <2>1, <2>2, PendingFinite DEF SimInv, Accounts, TypeInv, StatsType
  <2>4. QED
    BY <1>1, <1>2, <2>3, Words, ReturnStep
<1>3. CASE pc' = [pc EXCEPT ![c] = "inner"] /\ UNCHANGED <<call, stats, told>>
  <2>1. /\ call' = [call EXCEPT ![c] = call[c]] /\ pc'[c] = "inner" /\ calls' \in Nat /\ call[c] \in Calls
    BY <1>1, <1>3, CallFacts
  <2>2. CallOK(c)'
    BY <1>1, <1>3, <2>1, CallFacts DEF CallOK
  <2>3. Accounts' /\ StatsType'
    BY <1>1, <1>3, NothingCounted DEF Places
  <2>4. obj' \in [Keys -> Versions \cup {None}] /\ "inner" \in Places
    BY <1>1 DEF TypeInv, MemType, Places
  <2>5. QED
    BY <1>1, <1>3, <2>1, <2>2, <2>3, <2>4, QuietStep
<1>4. QED
  BY <1>2, <1>3 DEF RollCleanFault

\* A call is served without storing anything.
LEMMA ServedStep ==
  ASSUME TypeInv, SimInv, NEW c \in Clients, NEW res \in Results, Served(c, res), pc[c] = "inner",
         UNCHANGED <<minted, next_etag, etag, calls, stats, told>>, obj' \in [Keys -> Versions \cup {None}],
         Fits(call[c].req, res)
  PROVE  TypeInv' /\ SimInv'
<1>1. /\ pc' = [pc EXCEPT ![c] = "count"] /\ call' = [call EXCEPT ![c] = ServedAs(call[c], res)]
      /\ ServedAs(call[c], res) \in Calls
      /\ call'[c].st = "served" /\ call'[c].res = res /\ call'[c].req = call[c].req
  BY ServedCall
<1>2. pc'[c] = "count" /\ calls' \in Nat /\ CallOK(c)
  BY <1>1, CallFacts
<1>3. CallOK(c)'
  BY <1>1, <1>2 DEF CallOK
<1>4. Accounts' /\ StatsType'
  BY <1>1, NothingCounted DEF Places
<1>5. "count" \in Places
  BY DEF Places
<1>6. QED
  BY <1>1, <1>2, <1>3, <1>4, <1>5, QuietStep

LEMMA GetResult ==
  ASSUME NEW found \in Versions \cup {None}, NEW expect
  PROVE  /\ CondGet(found, expect) \in Results
         /\ CondGet(found, expect).kind \in {"missing", "notmodified", "changed"}
BY DEF CondGet, Result, Results

LEMMA MemorySteps ==
  ASSUME TypeInv, SimInv, NEW c \in Clients,
         MemoryGet(c) \/ MemoryPutIfMatch(c) \/ MemoryPut(c) \/ MemoryDelete(c)
  PROVE  TypeInv' /\ SimInv'
<1> DEFINE r == call[c].req
<1>1. obj \in [Keys -> Versions \cup {None}] /\ next_etag \in Nat /\ etag \in [Clients -> Nat \cup {None}]
  BY DEF TypeInv, MemType
<1>2. pc[c] \in {"inner", "insert"} /\ UNCHANGED <<calls, stats, told>>
  BY DEF MemoryGet, MemoryPutIfMatch, MemoryPut, MemoryDelete, simVars
<1>3. r \in Reqs /\ r.key \in Keys
  BY <1>2, CallFacts DEF CallOK, Reqs
<1>4. CASE MemoryGet(c)
  <2>1. /\ pc[c] = "inner" /\ r.op = "get" /\ Served(c, CondGet(obj[r.key], r.expect))
        /\ UNCHANGED <<obj, minted, next_etag, etag>>
    BY <1>4 DEF MemoryGet, memVars
  <2>2. obj[r.key] \in Versions \cup {None}
    BY <1>1, <1>3
  <2>3. QED
    BY <1>1, <1>2, <2>1, <2>2, GetResult, ServedStep DEF Fits
<1>5. CASE MemoryPutIfMatch(c)
  <2>1. pc[c] = "inner" /\ r.op = "cas"
    BY <1>5 DEF MemoryPutIfMatch
  <2>2. CASE Served(c, Refused) /\ UNCHANGED memVars
    <3>1. UNCHANGED <<obj, minted, next_etag, etag>>
      BY <2>2 DEF memVars
    <3>2. QED
      BY <1>1, <1>2, <2>1, <2>2, <3>1, Words, ServedStep DEF Fits
  <2>3. CASE /\ Insert(r.key, next_etag, r.data) /\ next_etag' = next_etag + 1
             /\ Served(c, Result("ok", next_etag)) /\ UNCHANGED etag
    <3>1. next_etag' \in Nat /\ next_etag <= next_etag' /\ next_etag < next_etag'
      BY <1>1, <2>3
    <3>2. \A d \in Clients : d # c /\ pc[d] = "insert" => etag[d] # next_etag
      <4> SUFFICES ASSUME NEW d \in Clients, pc[d] = "insert" PROVE etag[d] # next_etag
        OBVIOUS
      <4>1. etag[d] < next_etag /\ etag[d] \in Nat
        BY CallFacts DEF Drawn
      <4>2. QED
        BY <1>1, <4>1
    <3>3. QED
      BY <1>1, <1>2, <2>1, <2>3, <3>1, <3>2, InsertStep
  <2>4. QED
    BY <1>5, <2>2, <2>3 DEF MemoryPutIfMatch
<1>6. CASE MemoryPut(c)
  <2>1. /\ pc[c] = "insert" /\ r.op = "put" /\ Insert(r.key, etag[c], r.data)
        /\ etag' = [etag EXCEPT ![c] = None] /\ Served(c, Result("ok", etag[c])) /\ next_etag' = next_etag
    BY <1>6 DEF MemoryPut
  <2>2. /\ etag[c] \in Nat /\ etag[c] < next_etag
        /\ \A d \in Clients : d # c /\ pc[d] = "insert" => etag[d] # etag[c]
    BY <2>1, CallFacts DEF Drawn
  <2>3. etag' \in [Clients -> Nat \cup {None}] /\ \A d \in Clients : d # c => etag'[d] = etag[d]
    BY <1>1, <2>1
  <2>4. next_etag <= next_etag' /\ next_etag' \in Nat /\ etag[c] < next_etag'
    BY <1>1, <2>1, <2>2
  <2>5. QED
    BY <1>2, <2>1, <2>2, <2>3, <2>4, InsertStep
<1>7. CASE MemoryDelete(c)
  <2>1. /\ pc[c] = "inner" /\ r.op = "delete" /\ obj' = [obj EXCEPT ![r.key] = None]
        /\ Served(c, Result("ok", None)) /\ UNCHANGED <<minted, next_etag, etag>>
    BY <1>7 DEF MemoryDelete
  <2>2. obj' \in [Keys -> Versions \cup {None}]
    BY <1>1, <2>1
  <2>3. Result("ok", None) \in Results /\ Result("ok", None).kind = "ok"
    BY DEF Result, Results
  <2>4. QED
    BY <1>2, <2>1, <2>2, <2>3, ServedStep DEF Fits
<1>8. QED
  BY <1>4, <1>5, <1>6, <1>7

LEMMA FreshEtagStep ==
  ASSUME TypeInv, SimInv, NEW c \in Clients, MemoryFreshEtag(c) PROVE TypeInv' /\ SimInv'
<1>1. /\ pc[c] = "inner" /\ call[c].req.op = "put" /\ etag' = [etag EXCEPT ![c] = next_etag]
      /\ next_etag' = next_etag + 1 /\ pc' = [pc EXCEPT ![c] = "insert"]
      /\ UNCHANGED <<obj, minted, call, calls, stats, told>>
  BY DEF MemoryFreshEtag, simVars
<1>2. /\ next_etag \in Nat /\ etag \in [Clients -> Nat \cup {None}] /\ pc \in [Clients -> Places]
      /\ minted \in [Keys -> SUBSET Versions]
  BY DEF TypeInv, MemType, CallType
<1>3. /\ next_etag' \in Nat /\ next_etag < next_etag' /\ etag' \in [Clients -> Nat \cup {None}]
      /\ etag'[c] = next_etag /\ pc'[c] = "insert" /\ pc' \in [Clients -> Places]
      /\ \A d \in Clients : d # c => etag'[d] = etag[d] /\ pc'[d] = pc[d]
  BY <1>1, <1>2 DEF Places
<1>4. Accounts' /\ StatsType'
  BY <1>1, NothingCounted DEF Places
<1>5. TypeInv'
  BY <1>1, <1>3, <1>4 DEF TypeInv, MemType, CallType
<1>6. \A k \in Keys : \A v \in minted[k] : v.etag \in Nat /\ v.etag < next_etag
  BY <1>2 DEF SimInv, Ahead, Versions
<1>7. Ahead'
  <2> SUFFICES ASSUME NEW k \in Keys, NEW v \in minted[k] PROVE v.etag < next_etag'
    BY <1>1 DEF Ahead
  <2>1. QED
    BY <1>2, <1>3, <1>6
<1>8. CallsOK'
  <2>1. ASSUME NEW d \in Clients PROVE CallOK(d)'
    <3>1. CallOK(d) /\ (pc'[d] = pc[d] \/ (d = c /\ pc'[d] = "insert"))
      BY <1>3, CallFacts
    <3>2. QED
      BY <1>1, <3>1 DEF CallOK
  <2>2. ASSUME NEW d \in Clients, pc[d] = "insert", d # c
        PROVE  /\ etag'[d] = etag[d] /\ etag[d] \in Nat /\ etag[d] < next_etag /\ etag[d] # next_etag
               /\ \A k \in Keys : \A v \in minted[k] : v.etag # etag[d]
               /\ \A b \in Clients : b # d /\ pc[b] = "insert" => etag[b] # etag[d]
    <3>1. /\ etag'[d] = etag[d] /\ etag[d] \in Nat /\ etag[d] < next_etag
          /\ \A k \in Keys : \A v \in minted[k] : v.etag # etag[d]
          /\ \A b \in Clients : b # d /\ pc[b] = "insert" => etag[b] # etag[d]
      BY <1>3, <2>2, CallFacts DEF Drawn
    <3>2. QED
      BY <1>2, <3>1
  <2>3. Drawn(c)'
    <3>1. \A k \in Keys : \A v \in minted'[k] : v.etag # next_etag
      BY <1>1, <1>2, <1>6
    <3>2. \A d \in Clients : d # c /\ pc'[d] = "insert" => etag'[d] # next_etag
      BY <1>3, <2>2
    <3>3. QED
      BY <1>2, <1>3, <3>1, <3>2 DEF Drawn
  <2>4. ASSUME NEW d \in Clients, d # c PROVE Drawn(d)'
    <3> SUFFICES ASSUME pc[d] = "insert" PROVE Drawn(d)'
      BY <1>3, <2>4 DEF Drawn
    <3>1. etag[d] < next_etag'
      BY <1>2, <1>3, <2>2, <2>4
    <3>2. \A b \in Clients : b # d /\ pc'[b] = "insert" => etag'[b] # etag[d]
      BY <1>3, <2>2, <2>4
    <3>3. QED
      BY <1>1, <2>2, <2>4, <3>1, <3>2 DEF Drawn
  <2>5. QED
    BY <2>1, <2>3, <2>4 DEF CallsOK
<1>9. QED
  BY <1>4, <1>5, <1>7, <1>8 DEF SimInv

\* Which counter a served call bumps.
LEMMA CounterFacts ==
  ASSUME NEW c \in Clients, Fits(call[c].req, call[c].res), call[c].req \in Reqs
  PROVE  /\ call[c].req.op = "get" => Counter(c) \in {"gets", "not_modified"}
         /\ call[c].res = Refused => Counter(c) = "cas_failures"
         /\ call[c].req.op # "get" /\ call[c].res # Refused => Counter(c) \in {"puts", "deletes"}
<1>1. CASE call[c].req.op = "get"
  BY <1>1, Words DEF Counter, Fits
<1>2. CASE call[c].req.op # "get"
  BY <1>2, Words DEF Counter, Fits
<1>3. QED
  BY <1>1, <1>2

\* Bumping a counter.
LEMMA Bumped ==
  ASSUME TypeInv, NEW f \in {"gets", "not_modified", "puts", "cas_failures", "deletes", "faults_injected"},
         stats' = [stats EXCEPT ![f] = @ + 1]
  PROVE  /\ stats' \in [gets : Nat, not_modified : Nat, puts : Nat, cas_failures : Nat, deletes : Nat,
                        faults_injected : Nat]
         /\ f \in {"gets", "not_modified", "puts", "deletes"} =>
              /\ stats'.gets + stats'.not_modified + stats'.puts + stats'.deletes
                   = stats.gets + stats.not_modified + stats.puts + stats.deletes + 1
              /\ stats'.cas_failures = stats.cas_failures /\ stats'.faults_injected = stats.faults_injected
         /\ f = "cas_failures" =>
              /\ stats'.gets + stats'.not_modified + stats'.puts + stats'.deletes
                   = stats.gets + stats.not_modified + stats.puts + stats.deletes
              /\ stats'.cas_failures = stats.cas_failures + 1 /\ stats'.faults_injected = stats.faults_injected
         /\ f = "faults_injected" =>
              /\ stats'.gets + stats'.not_modified + stats'.puts + stats'.deletes
                   = stats.gets + stats.not_modified + stats.puts + stats.deletes
              /\ stats'.cas_failures = stats.cas_failures /\ stats'.faults_injected = stats.faults_injected + 1
<1>1. stats \in [gets : Nat, not_modified : Nat, puts : Nat, cas_failures : Nat, deletes : Nat,
                 faults_injected : Nat]
  BY DEF TypeInv, StatsType
<1>2. CASE f = "gets"
  BY <1>1, <1>2
<1>3. CASE f = "not_modified"
  BY <1>1, <1>3
<1>4. CASE f = "puts"
  BY <1>1, <1>4
<1>5. CASE f = "cas_failures"
  BY <1>1, <1>5
<1>6. CASE f = "deletes"
  BY <1>1, <1>6
<1>7. CASE f = "faults_injected"
  BY <1>1, <1>7
<1>8. QED
  BY <1>2, <1>3, <1>4, <1>5, <1>6, <1>7

\* How an answer is counted among those told.
LEMMA ToldFacts ==
  ASSUME TypeInv, NEW c \in Clients, NEW res \in Results, Return(c, res)
  PROVE  /\ told' \in [ok : Nat, refused : Nat, clean : Nat, ambiguous : Nat]
         /\ res = Unknown => told' = [told EXCEPT !.ambiguous = @ + 1]
         /\ res = Refused => told' = [told EXCEPT !.refused = @ + 1]
         /\ res.kind \notin {"error", "refused"} => told' = [told EXCEPT !.ok = @ + 1]
<1>1. told \in [ok : Nat, refused : Nat, clean : Nat, ambiguous : Nat]
  BY DEF TypeInv, StatsType
<1>2. /\ [told EXCEPT !.clean = @ + 1] \in [ok : Nat, refused : Nat, clean : Nat, ambiguous : Nat]
      /\ [told EXCEPT !.ambiguous = @ + 1] \in [ok : Nat, refused : Nat, clean : Nat, ambiguous : Nat]
      /\ [told EXCEPT !.refused = @ + 1] \in [ok : Nat, refused : Nat, clean : Nat, ambiguous : Nat]
      /\ [told EXCEPT !.ok = @ + 1] \in [ok : Nat, refused : Nat, clean : Nat, ambiguous : Nat]
  BY <1>1
<1>3. QED
  BY <1>2, Words DEF Return

LEMMA CountStep ==
  ASSUME TypeInv, SimInv, NEW c \in Clients, Count(c) PROVE TypeInv' /\ SimInv'
<1> DEFINE r == call[c].req
           res == call[c].res
<1>1. /\ pc[c] = "count" /\ stats' = [stats EXCEPT ![Counter(c)] = @ + 1]
      /\ UNCHANGED <<obj, minted, next_etag, etag, calls>>
  BY DEF Count, memVars
<1>2. CallOK(c) /\ Fits(r, res) /\ r \in Reqs /\ res \in Results /\ call[c] \in Calls
  BY <1>1, CallFacts DEF CallOK, Calls
<1>3. r.op \in {"get", "cas", "put", "delete"}
  BY <1>2 DEF Reqs
<1>4. /\ Cardinality(Pending) \in Nat
      /\ told \in [ok : Nat, refused : Nat, clean : Nat, ambiguous : Nat]
      /\ stats \in [gets : Nat, not_modified : Nat, puts : Nat, cas_failures : Nat, deletes : Nat,
                    faults_injected : Nat]
      /\ stats.faults_injected = told.clean + told.ambiguous
      /\ stats.cas_failures = told.refused
      /\ stats.gets + stats.not_modified + stats.puts + stats.deletes
           = told.ok + told.ambiguous + Cardinality(Pending)
  BY PendingFinite DEF TypeInv, StatsType, SimInv, Accounts
<1>5. CASE r.op = "get" \/ res = Refused
  <2>1. Return(c, res)
    BY <1>5 DEF Count, Mutation
  <2>2. pc' = [pc EXCEPT ![c] = "idle"]
    BY <2>1 DEF Return
  <2>3. Cardinality(Pending') = Cardinality(Pending)
    BY <1>1, <2>2, PendingMoves DEF Places
  <2>4. told' \in [ok : Nat, refused : Nat, clean : Nat, ambiguous : Nat]
    BY <1>2, <2>1, ToldFacts
  <2>5. CASE res = Refused
    <3>1. Counter(c) = "cas_failures"
      BY <1>2, <2>5, CounterFacts
    <3>2. told' = [told EXCEPT !.refused = @ + 1]
      BY <1>2, <2>1, <2>5, ToldFacts
    <3>3. StatsType'
      BY <1>1, <2>4, <3>1, Bumped DEF StatsType
    <3>4. /\ stats'.gets + stats'.not_modified + stats'.puts + stats'.deletes
               = stats.gets + stats.not_modified + stats.puts + stats.deletes
          /\ stats'.cas_failures = stats.cas_failures + 1 /\ stats'.faults_injected = stats.faults_injected
      BY <1>1, <3>1, Bumped
    <3>5. Accounts'
      BY <1>4, <2>3, <3>2, <3>4 DEF Accounts
    <3>6. QED
      BY <1>1, <1>2, <2>1, <3>3, <3>5, ReturnStep
  <2>6. CASE r.op = "get"
    <3>1. Counter(c) \in {"gets", "not_modified"}
      BY <1>2, <2>6, CounterFacts
    <3>2. told' = [told EXCEPT !.ok = @ + 1]
      BY <1>2, <2>1, <2>6, ToldFacts DEF Fits
    <3>3. StatsType'
      BY <1>1, <2>4, <3>1, Bumped DEF StatsType
    <3>4. /\ stats'.gets + stats'.not_modified + stats'.puts + stats'.deletes
               = stats.gets + stats.not_modified + stats.puts + stats.deletes + 1
          /\ stats'.cas_failures = stats.cas_failures /\ stats'.faults_injected = stats.faults_injected
      BY <1>1, <3>1, Bumped
    <3>5. Accounts'
      BY <1>4, <2>3, <3>2, <3>4 DEF Accounts
    <3>6. QED
      BY <1>1, <1>2, <2>1, <3>3, <3>5, ReturnStep
  <2>7. QED
    BY <1>5, <2>5, <2>6
<1>6. CASE r.op # "get" /\ res # Refused
  <2>1. Mutation(r) /\ pc' = [pc EXCEPT ![c] = "ambiguous"] /\ UNCHANGED <<call, told>>
    BY <1>3, <1>6 DEF Count, Mutation
  <2>2. Cardinality(Pending') = Cardinality(Pending) + 1
    BY <1>1, <2>1, PendingMoves DEF Places
  <2>3. Counter(c) \in {"puts", "deletes"}
    BY <1>2, <1>6, CounterFacts
  <2>4. StatsType'
    BY <1>1, <1>4, <2>1, <2>3, Bumped DEF StatsType
  <2>5. /\ stats'.gets + stats'.not_modified + stats'.puts + stats'.deletes
             = stats.gets + stats.not_modified + stats.puts + stats.deletes + 1
        /\ stats'.cas_failures = stats.cas_failures /\ stats'.faults_injected = stats.faults_injected
    BY <1>1, <2>3, Bumped
  <2>6. Accounts'
    BY <1>4, <2>1, <2>2, <2>5 DEF Accounts
  <2>7. call' = [call EXCEPT ![c] = call[c]] /\ pc'[c] = "ambiguous" /\ calls' \in Nat
    BY <1>1, <2>1, CallFacts
  <2>8. CallOK(c)'
    BY <1>1, <1>2, <1>6, <2>1, <2>7 DEF CallOK
  <2>9. obj' \in [Keys -> Versions \cup {None}] /\ "ambiguous" \in Places
    BY <1>1 DEF TypeInv, MemType, Places
  <2>10. QED
    BY <1>1, <1>2, <2>1, <2>4, <2>6, <2>7, <2>8, <2>9, QuietStep
<1>7. QED
  BY <1>5, <1>6

LEMMA RollAmbiguousStep ==
  ASSUME TypeInv, SimInv, NEW c \in Clients, RollAmbiguousFault(c) PROVE TypeInv' /\ SimInv'
<1>1. pc[c] = "ambiguous" /\ UNCHANGED <<obj, minted, next_etag, etag, calls>>
  BY DEF RollAmbiguousFault, memVars
<1>2. /\ Fits(call[c].req, call[c].res) /\ call[c].res \in Results
      /\ call[c].res.kind \notin {"error", "refused"}
  <2>1. /\ CallOK(c) /\ Fits(call[c].req, call[c].res) /\ call[c] \in Calls
        /\ Mutation(call[c].req) /\ call[c].res # Refused
    BY <1>1, CallFacts DEF CallOK
  <2>2. call[c].res \in Results /\ call[c].res.kind # "error"
    BY <2>1 DEF Calls, Fits
  <2>3. call[c].res.kind # "refused"
    BY <2>1 DEF Fits
  <2>4. QED
    BY <2>1, <2>2, <2>3
<1>3. /\ Cardinality(Pending) \in Nat
      /\ told \in [ok : Nat, refused : Nat, clean : Nat, ambiguous : Nat]
      /\ stats \in [gets : Nat, not_modified : Nat, puts : Nat, cas_failures : Nat, deletes : Nat,
                    faults_injected : Nat]
      /\ stats.faults_injected = told.clean + told.ambiguous
      /\ stats.cas_failures = told.refused
      /\ stats.gets + stats.not_modified + stats.puts + stats.deletes
           = told.ok + told.ambiguous + Cardinality(Pending)
  BY PendingFinite DEF TypeInv, StatsType, SimInv, Accounts
<1>4. PICK res \in Results : Return(c, res)
  BY <1>2, Words DEF RollAmbiguousFault
<1>5. Cardinality(Pending') = Cardinality(Pending) - 1
  <2>1. pc' = [pc EXCEPT ![c] = "idle"]
    BY <1>4 DEF Return
  <2>2. QED
    BY <1>1, <2>1, PendingMoves DEF Places
<1>6. CASE stats' = [stats EXCEPT !.faults_injected = @ + 1] /\ Return(c, Unknown)
  <2>1. /\ told' \in [ok : Nat, refused : Nat, clean : Nat, ambiguous : Nat]
        /\ told' = [told EXCEPT !.ambiguous = @ + 1]
    BY <1>6, Words, ToldFacts
  <2>2. StatsType' /\ Accounts'
    BY <1>3, <1>5, <1>6, <2>1 DEF StatsType, Accounts
  <2>3. QED
    BY <1>1, <1>6, <2>2, Words, ReturnStep
<1>7. CASE Return(c, call[c].res) /\ UNCHANGED stats
  <2>1. /\ told' \in [ok : Nat, refused : Nat, clean : Nat, ambiguous : Nat]
        /\ told' = [told EXCEPT !.ok = @ + 1]
    BY <1>2, <1>7, ToldFacts
  <2>2. StatsType' /\ Accounts'
    BY <1>3, <1>5, <1>7, <2>1 DEF StatsType, Accounts
  <2>3. QED
    BY <1>1, <1>2, <1>7, <2>2, ReturnStep
<1>8. QED
  BY <1>6, <1>7 DEF RollAmbiguousFault
-----------------------------------------------------------------------------
(* The invariant holds                                                       *)

LEMMA SimStarts ==
  ASSUME Init PROVE TypeInv /\ SimInv
<1>1. NoCall \in Calls /\ NoCall.st = "idle"
  BY DEF NoCall, Calls, Results, Result
<1>2. /\ stats = NoStats /\ told = [ok |-> 0, refused |-> 0, clean |-> 0, ambiguous |-> 0]
      /\ pc = [c \in Clients |-> "idle"] /\ call = [c \in Clients |-> NoCall]
      /\ minted = [k \in Keys |-> {}]
  BY DEF Init
<1>3. StatsType
  BY <1>2 DEF StatsType, NoStats
<1>4. TypeInv
  BY <1>1, <1>3 DEF Init, TypeInv, MemType, CallType, Places
<1>5. Pending = {}
  BY <1>2 DEF Pending
<1>6. Accounts
  BY <1>2, <1>5, FS_EmptySet DEF Accounts, NoStats
<1>7. Ahead /\ CallsOK
  BY <1>1, <1>2 DEF Ahead, CallsOK, CallOK, Drawn
<1>8. QED
  BY <1>4, <1>6, <1>7 DEF SimInv

\* Nothing the invariant speaks of changes.
LEMMA SimStays ==
  ASSUME TypeInv, SimInv,
         UNCHANGED <<obj, minted, next_etag, etag, call, pc, stats, calls, told>>
  PROVE  TypeInv' /\ SimInv'
<1>1. TypeInv'
  BY DEF TypeInv, MemType, CallType, StatsType
<1>2. Ahead' /\ CallsOK'
  BY DEF SimInv, Ahead, CallsOK, CallOK, Drawn
<1>3. Accounts'
  BY DEF SimInv, Accounts, Pending
<1>4. QED
  BY <1>1, <1>2, <1>3 DEF SimInv

LEMMA SimStep ==
  ASSUME TypeInv, SimInv, [Next]_vars PROVE TypeInv' /\ SimInv'
<1>1. ASSUME NEW c \in Clients, Invoke(c) \/ ClientStep(c) PROVE TypeInv' /\ SimInv'
  BY <1>1, InvokeStep, RollStep, MemorySteps, FreshEtagStep, CountStep, RollAmbiguousStep DEF ClientStep
<1>2. ASSUME NEW k \in Keys, FailNextMutationAmbiguously(k) PROVE TypeInv' /\ SimInv'
  BY <1>2, SimStays DEF FailNextMutationAmbiguously, memVars
<1>3. CASE SetFaults
  BY <1>3, SimStays DEF SetFaults, memVars
<1>4. CASE UNCHANGED vars
  BY <1>4, SimStays DEF vars
<1>5. QED
  BY <1>1, <1>2, <1>3, <1>4 DEF Next

\* The invariant of SimStore: drawn ETags are not used twice, and counters and
\* answers differ by the executed mutations that wait for their answer.
THEOREM SimHolds == Spec => [](TypeInv /\ SimInv)
<1>1. Init => TypeInv /\ SimInv
  BY SimStarts
<1>2. TypeInv /\ SimInv /\ [Next]_vars => (TypeInv /\ SimInv)'
  BY SimStep
<1>3. QED
  BY <1>1, <1>2, PTL DEF Spec

\* When no call is under way, the counters of SimStats account for every
\* answer that was given.
THEOREM StatsAddUp == Spec => []StatsAccount
<1>1. ASSUME TypeInv, SimInv PROVE StatsAccount
  <2> SUFFICES ASSUME \A c \in Clients : pc[c] = "idle"
      PROVE  /\ stats.faults_injected = told.clean + told.ambiguous
             /\ stats.cas_failures = told.refused
             /\ stats.gets + stats.not_modified + stats.puts + stats.deletes = told.ok + told.ambiguous
    BY DEF StatsAccount
  <2>1. Pending = {}
    BY DEF Pending
  <2>2. Cardinality(Pending) = 0
    BY <2>1, FS_EmptySet
  <2>3. told.ok \in Nat /\ told.ambiguous \in Nat
    BY <1>1 DEF TypeInv, StatsType
  <2>4. QED
    BY <1>1, <2>2, <2>3 DEF SimInv, Accounts
<1>2. QED
  BY <1>1, SimHolds, PTL
-----------------------------------------------------------------------------
(* Ambiguous means executed                                                  *)

AmbiguousIsServed ==
  \A c \in Clients :
    pc[c] # "idle" /\ pc'[c] = "idle" /\ call'[c].res = Unknown => call[c].st = "served"

\* Only roll_clean_fault answers a call that was not executed, and never with
\* Unknown.
LEMMA UnknownServed ==
  ASSUME TypeInv, SimInv, [Next]_vars PROVE AmbiguousIsServed
<1> SUFFICES ASSUME NEW d \in Clients, pc[d] # "idle", pc'[d] = "idle", call[d].st # "served"
    PROVE  call'[d].res # Unknown
  BY DEF AmbiguousIsServed
<1>1. /\ pc[d] \in {"roll", "inner", "insert"} /\ pc \in [Clients -> Places] /\ call \in [Clients -> Calls]
  BY CallFacts DEF CallOK, Places
<1>2. ASSUME NEW c \in Clients, NEW x, x # "idle", pc' = [pc EXCEPT ![c] = x] PROVE FALSE
  BY <1>1, <1>2
<1>3. ASSUME NEW c \in Clients, Invoke(c) \/ ClientStep(c) PROVE call'[d].res # Unknown
  <2>1. CASE Invoke(c)
    BY <1>2, <2>1 DEF Invoke
  <2>2. CASE MemoryGet(c) \/ MemoryPutIfMatch(c) \/ MemoryFreshEtag(c) \/ MemoryPut(c) \/ MemoryDelete(c)
    BY <1>2, <2>2 DEF MemoryGet, MemoryPutIfMatch, MemoryFreshEtag, MemoryPut, MemoryDelete, Served
  <2>3. CASE Count(c) \/ RollAmbiguousFault(c)
    <3>1. pc[c] \in {"count", "ambiguous"} /\ c # d
      BY <1>1, <2>3 DEF Count, RollAmbiguousFault
    <3>2. pc'[d] = pc[d]
      BY <1>1, <2>3, <3>1 DEF Count, RollAmbiguousFault, Return
    <3>3. QED
      BY <3>2
  <2>4. CASE RollCleanFault(c)
    <3>1. CASE Return(c, NotApplied)
      <4>1. pc' = [pc EXCEPT ![c] = "idle"] /\ call'[c].res = NotApplied
        BY <3>1, Words, ReturnedCall
      <4>2. c = d
        BY <1>1, <4>1
      <4>3. QED
        BY <4>1, <4>2, Words
    <3>2. QED
      BY <1>2, <2>4, <3>1 DEF RollCleanFault
  <2>5. QED
    BY <1>3, <2>1, <2>2, <2>3, <2>4 DEF ClientStep
<1>4. QED
  BY <1>3 DEF Next, vars, FailNextMutationAmbiguously, SetFaults

\* An Unknown is only said of a call that took effect.
THEOREM UnknownMeansExecuted == Spec => AmbiguousMeansExecuted
<1>1. TypeInv /\ SimInv /\ [Next]_vars =>
        [\A c \in Clients :
           pc[c] # "idle" /\ pc'[c] = "idle" /\ call'[c].res = Unknown => call[c].st = "served"]_vars
  BY UnknownServed DEF AmbiguousIsServed
<1>2. QED
  BY <1>1, SimHolds, PTL DEF Spec, AmbiguousMeansExecuted
-----------------------------------------------------------------------------
(* The contract of the ObjectStore trait                                     *)

\* The contract and this module speak of calls in the same words.
LEMMA SameWords ==
  /\ Contract!NoCall = NoCall /\ Contract!Unknown = Unknown /\ Contract!Refused = Refused
  /\ Contract!NotApplied = NotApplied
  /\ \A x, y : Contract!Result(x, y) = Result(x, y)
  /\ \A x, y : Contract!CondGet(x, y) = CondGet(x, y)
  /\ \A x, y : Contract!CasMatches(x, y) = CasMatches(x, y)
<1>1. \A x, y : Contract!Result(x, y) = Result(x, y)
  BY DEF Contract!Result, Result
<1>2. Contract!Unknown = Unknown /\ Contract!Refused = Refused /\ Contract!NotApplied = NotApplied
  BY <1>1 DEF Contract!Unknown, Unknown, Contract!Refused, Refused, Contract!NotApplied, NotApplied
<1>3. Contract!NoCall = NoCall
  BY <1>1 DEF Contract!NoCall, NoCall, Contract!NoRequest, NoRequest, Contract!Request, Request
<1>4. \A x, y : Contract!CondGet(x, y) = CondGet(x, y)
  BY <1>1 DEF Contract!CondGet, CondGet
<1>5. \A x, y : Contract!CasMatches(x, y) = CasMatches(x, y)
  BY DEF Contract!CasMatches, CasMatches, Contract!ETagOf, ETagOf
<1>6. QED
  BY <1>1, <1>2, <1>3, <1>4, <1>5

LEMMA Stutters ==
  ASSUME UNCHANGED <<obj, minted, call>> PROVE UNCHANGED Contract!vars
BY DEF Contract!vars

LEMMA InvokeKeeps ==
  ASSUME TypeInv, SimInv, NEW c \in Clients, Invoke(c) PROVE Contract!Invoke(c)
<1>1. PICK r \in Reqs :
        /\ call' = [call EXCEPT ![c] = [NoCall EXCEPT !.st = "open", !.req = r]]
        /\ call'[c].st = "open" /\ call'[c].req = r
  BY InvokeFacts
<1>2. call[c].st = "idle" /\ UNCHANGED <<obj, minted>> /\ r.key \in Keys
  BY CallFacts DEF Invoke, CallOK, memVars, Reqs
<1>3. call' = [call EXCEPT ![c] = [Contract!NoCall EXCEPT !.st = "open", !.req = call'[c].req]]
  BY <1>1, SameWords
<1>4. QED
  BY <1>1, <1>2, <1>3 DEF Contract!Invoke

LEMMA ServedKeeps ==
  ASSUME TypeInv, SimInv, NEW c \in Clients, NEW res \in Results, Served(c, res),
         call[c].st = "open", Contract!Effect(call[c].req, res)
  PROVE  Contract!Serve(c)
<1>1. call'[c].st = "served" /\ call'[c].res = res
  BY ServedCall
<1>2. call' = [call EXCEPT ![c].st = "served", ![c].res = call'[c].res]
  BY <1>1 DEF Served
<1>3. QED
  BY <1>1, <1>2 DEF Contract!Serve

\* Storing a body under an ETag no version of the key has.
LEMMA InsertKeeps ==
  ASSUME TypeInv, SimInv, NEW k \in Keys, NEW e \in Nat, NEW d \in Data, Insert(k, e, d),
         \A v \in minted[k] : v.etag # e
  PROVE  Contract!Stores(k, d) /\ obj'[k].etag = e
<1> DEFINE v == Version(e, d)
<1>1. v \in Versions /\ v.etag = e /\ v.data = d
  BY DEF Version, Versions
<1>2. obj' = [obj EXCEPT ![k] = v] /\ minted' = [minted EXCEPT ![k] = @ \cup {v}]
  BY DEF Insert
<1> HIDE DEF v
<1>3. obj'[k] = v /\ v # None
  BY <1>1, <1>2, SimAssumption DEF TypeInv, MemType, Versions
<1>4. QED
  BY <1>1, <1>2, <1>3 DEF Contract!Stores

LEMMA MemoryKeeps ==
  ASSUME TypeInv, SimInv, NEW c \in Clients,
         MemoryGet(c) \/ MemoryPutIfMatch(c) \/ MemoryPut(c) \/ MemoryDelete(c)
  PROVE  Contract!Serve(c)
<1> DEFINE r == call[c].req
<1>1. pc[c] \in {"inner", "insert"}
  BY DEF MemoryGet, MemoryPutIfMatch, MemoryPut, MemoryDelete
<1>2. /\ r \in Reqs /\ r.key \in Keys /\ call[c].st = "open"
      /\ r.op \in {"cas", "put"} => r.data \in Data
  BY <1>1, CallFacts DEF CallOK, Reqs
<1>3. obj[r.key] \in Versions \cup {None} /\ next_etag \in Nat
  BY <1>2 DEF TypeInv, MemType
<1>4. CASE MemoryGet(c)
  <2>1. r.op = "get" /\ Served(c, CondGet(obj[r.key], r.expect)) /\ UNCHANGED <<obj, minted>>
    BY <1>4 DEF MemoryGet, memVars
  <2>2. Contract!Effect(call[c].req, CondGet(obj[r.key], r.expect))
    BY <2>1, SameWords DEF Contract!Effect
  <2>3. QED
    BY <1>2, <1>3, <2>1, <2>2, GetResult, ServedKeeps
<1>5. CASE MemoryPutIfMatch(c)
  <2>1. r.op = "cas"
    BY <1>5 DEF MemoryPutIfMatch
  <2>2. CASE ~CasMatches(obj[r.key], r.expect) /\ Served(c, Refused) /\ UNCHANGED memVars
    <3>1. Contract!Effect(call[c].req, Refused)
      BY <2>1, <2>2, SameWords DEF Contract!Effect, memVars
    <3>2. QED
      BY <1>2, <2>2, <3>1, Words, ServedKeeps
  <2>3. CASE /\ CasMatches(obj[r.key], r.expect) /\ Insert(r.key, next_etag, r.data)
             /\ Served(c, Result("ok", next_etag))
    <3>1. \A v \in minted[r.key] : v.etag # next_etag
      <4> SUFFICES ASSUME NEW v \in minted[r.key] PROVE v.etag # next_etag
        OBVIOUS
      <4>1. v.etag < next_etag /\ v \in Versions
        BY <1>2 DEF SimInv, Ahead, TypeInv, MemType
      <4>2. v.etag \in Nat
        BY <4>1 DEF Versions
      <4>3. QED
        BY <1>3, <4>1, <4>2
    <3>2. Contract!Stores(r.key, r.data) /\ obj'[r.key].etag = next_etag
      BY <1>2, <1>3, <2>1, <2>3, <3>1, InsertKeeps
    <3>3. Contract!Effect(call[c].req, Result("ok", next_etag))
      BY <2>1, <2>3, <3>2, SameWords DEF Contract!Effect
    <3>4. Result("ok", next_etag) \in Results
      BY <1>3 DEF Result, Results
    <3>5. QED
      BY <1>2, <2>3, <3>3, <3>4, ServedKeeps
  <2>4. QED
    BY <1>5, <2>2, <2>3 DEF MemoryPutIfMatch
<1>6. CASE MemoryPut(c)
  <2>1. pc[c] = "insert" /\ r.op = "put" /\ Insert(r.key, etag[c], r.data) /\ Served(c, Result("ok", etag[c]))
    BY <1>6 DEF MemoryPut
  <2>2. etag[c] \in Nat /\ \A v \in minted[r.key] : v.etag # etag[c]
    BY <1>2, <2>1, CallFacts DEF Drawn
  <2>3. Contract!Stores(r.key, r.data) /\ obj'[r.key].etag = etag[c]
    BY <1>2, <2>1, <2>2, InsertKeeps
  <2>4. Contract!Effect(call[c].req, Result("ok", etag[c]))
    BY <2>1, <2>3, SameWords DEF Contract!Effect
  <2>5. Result("ok", etag[c]) \in Results
    BY <2>2 DEF Result, Results
  <2>6. QED
    BY <1>2, <2>1, <2>4, <2>5, ServedKeeps
<1>7. CASE MemoryDelete(c)
  <2>1. /\ r.op = "delete" /\ obj' = [obj EXCEPT ![r.key] = None] /\ Served(c, Result("ok", None))
        /\ UNCHANGED minted
    BY <1>7 DEF MemoryDelete
  <2>2. Contract!Effect(call[c].req, Result("ok", None)) /\ Result("ok", None) \in Results
    BY <2>1, SameWords DEF Contract!Effect, Result, Results
  <2>3. QED
    BY <1>2, <2>1, <2>2, ServedKeeps
<1>8. QED
  BY <1>4, <1>5, <1>6, <1>7

LEMMA AnswerKeeps ==
  ASSUME TypeInv, SimInv, NEW c \in Clients, NEW res, Return(c, res), UNCHANGED <<obj, minted>>,
         \/ call[c].st = "served" /\ res \in {call[c].res, Unknown}
         \/ call[c].st = "open" /\ res = NotApplied
  PROVE  Contract!AnswerServed(c) \/ Contract!AnswerOpen(c)
<1>1. Contract!Answers(c, res)
  BY SameWords DEF Return, Contract!Answers
<1>2. CASE call[c].st = "served" /\ res \in {call[c].res, Unknown}
  BY <1>1, <1>2, SameWords DEF Contract!AnswerServed
<1>3. CASE call[c].st = "open" /\ res = NotApplied
  BY <1>1, <1>3, SameWords DEF Contract!AnswerOpen
<1>4. QED
  BY <1>2, <1>3

LEMMA StepKeeps ==
  ASSUME TypeInv, SimInv, [Next]_vars PROVE [Contract!Next]_(Contract!vars)
<1>1. ASSUME NEW c \in Clients, Invoke(c) \/ ClientStep(c)
      PROVE  Contract!Next \/ UNCHANGED Contract!vars
  <2>1. CASE Invoke(c)
    BY <2>1, InvokeKeeps DEF Contract!Next
  <2>2. CASE MemoryGet(c) \/ MemoryPutIfMatch(c) \/ MemoryPut(c) \/ MemoryDelete(c)
    BY <2>2, MemoryKeeps DEF Contract!Next
  <2>3. CASE MemoryFreshEtag(c)
    BY <2>3, Stutters DEF MemoryFreshEtag
  <2>4. CASE RollCleanFault(c)
    <3>1. call[c].st = "open" /\ UNCHANGED <<obj, minted>>
      BY <2>4, CallFacts DEF RollCleanFault, CallOK, memVars
    <3>2. CASE Return(c, NotApplied)
      BY <3>1, <3>2, AnswerKeeps DEF Contract!Next
    <3>3. CASE UNCHANGED call
      BY <3>1, <3>3, Stutters
    <3>4. QED
      BY <2>4, <3>2, <3>3 DEF RollCleanFault
  <2>5. CASE Count(c) \/ RollAmbiguousFault(c)
    <3>1. call[c].st = "served" /\ UNCHANGED <<obj, minted>>
      BY <2>5, CallFacts DEF Count, RollAmbiguousFault, CallOK, memVars
    <3>2. CASE Return(c, call[c].res) \/ Return(c, Unknown)
      BY <3>1, <3>2, AnswerKeeps DEF Contract!Next
    <3>3. CASE UNCHANGED call
      BY <3>1, <3>3, Stutters
    <3>4. QED
      BY <2>5, <3>2, <3>3 DEF Count, RollAmbiguousFault
  <2>6. QED
    BY <1>1, <2>1, <2>2, <2>3, <2>4, <2>5 DEF ClientStep
<1>2. ASSUME NEW k \in Keys, FailNextMutationAmbiguously(k) PROVE UNCHANGED Contract!vars
  BY <1>2, Stutters DEF FailNextMutationAmbiguously, memVars
<1>3. CASE SetFaults
  BY <1>3, Stutters DEF SetFaults, memVars
<1>4. CASE UNCHANGED vars
  BY <1>4, Stutters DEF vars
<1>5. QED
  BY <1>1, <1>2, <1>3, <1>4 DEF Next

\* A SimStore around a MemoryStore implements the contract of the trait with
\* nothing ever late, whichever faults it injects.
THEOREM SimKeepsContract == Spec => KeepsContract
<1>1. Init => Contract!Init
  <2> SUFFICES ASSUME Init PROVE Contract!Init
    OBVIOUS
  <2>1. \A k \in Keys : minted[k] = {obj[k]} \ {None}
    BY DEF Init
  <2>2. call = [c \in Clients |-> Contract!NoCall]
    BY SameWords DEF Init
  <2>3. QED
    BY <2>1, <2>2 DEF Contract!Init
<1>2. TypeInv /\ SimInv /\ [Next]_vars => [Contract!Next]_(Contract!vars)
  BY StepKeeps
<1>3. QED
  BY <1>1, <1>2, SimHolds, PTL DEF Spec, KeepsContract, Contract!Spec
=============================================================================
