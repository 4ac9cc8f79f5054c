------------------------------ MODULE SimStore ------------------------------
(* SimStore around a MemoryStore, called by several threads: clean and       *)
(* ambiguous faults, the one-shot targeted fault, the counters, and the ETag *)
(* counter of MemoryStore, which put draws from before it takes the lock.    *)
(* Latency and the random generator are left out: a fault may happen at any  *)
(* roll while faults are switched on.                                        *)
EXTENDS StoreOps

CONSTANTS
  Clients,
  MaxCalls,   \* bound: calls
  MaxArms     \* bound: uses of fail_next_mutation_ambiguously

ASSUME SimAssumption ==
  /\ IsFiniteSet(Clients)
  /\ None \notin [etag : Nat, data : Data]

VARIABLES
  obj, minted, call,
  next_etag,
  pc,         \* where each call is
  etag,       \* the ETag each put has drawn
  faulty,     \* Faults are not zero
  targeted,   \* the key of the one-shot fault, None when it is not armed
  stats,      \* SimStats without the byte counters
  calls, arms,
  told        \* what the callers were told, by kind of answer

vars == <<obj, minted, call, next_etag, pc, etag, faulty, targeted, stats, calls, arms, told>>

memVars == <<obj, minted, next_etag, etag>>
simVars == <<faulty, targeted, stats, calls, arms>>

NoStats == [gets |-> 0, not_modified |-> 0, puts |-> 0, cas_failures |-> 0, deletes |-> 0,
            faults_injected |-> 0]

Init ==
  /\ obj = [k \in Keys |-> None]
  /\ minted = [k \in Keys |-> {}]
  /\ call = [c \in Clients |-> NoCall]
  /\ next_etag = 0
  /\ pc = [c \in Clients |-> "idle"]
  /\ etag = [c \in Clients |-> None]
  /\ faulty \in BOOLEAN
  /\ targeted = None
  /\ stats = NoStats
  /\ calls = 0 /\ arms = 0
  /\ told = [ok |-> 0, refused |-> 0, clean |-> 0, ambiguous |-> 0]

Mutation(r) == r.op \in {"cas", "put", "delete"}

Invoke(c) ==
  /\ pc[c] = "idle"
  /\ calls < MaxCalls
  /\ calls' = calls + 1
  /\ \E r \in Requests(0 .. next_etag - 1, calls) :
       call' = [call EXCEPT ![c] = [NoCall EXCEPT !.st = "open", !.req = r]]
  /\ pc' = [pc EXCEPT ![c] = "roll"]
  /\ UNCHANGED <<memVars, faulty, targeted, stats, arms, told>>

Return(c, res) ==
  /\ call' = [call EXCEPT ![c] = [NoCall EXCEPT !.res = res]]
  /\ pc' = [pc EXCEPT ![c] = "idle"]
  /\ told' = IF res = NotApplied THEN [told EXCEPT !.clean = @ + 1]
             ELSE IF res = Unknown THEN [told EXCEPT !.ambiguous = @ + 1]
             ELSE IF res = Refused THEN [told EXCEPT !.refused = @ + 1]
             ELSE [told EXCEPT !.ok = @ + 1]

\* mutant: the ambiguous fault is rolled before the call too
RollAmbiguousFirst(c) ==
  /\ pc[c] = "roll"
  /\ \/ /\ faulty
        /\ stats' = [stats EXCEPT !.faults_injected = @ + 1]
        /\ Return(c, NotApplied) \/ (Mutation(call[c].req) /\ Return(c, Unknown))
     \/ /\ pc' = [pc EXCEPT ![c] = "inner"]
        /\ UNCHANGED <<call, stats, told>>
  /\ UNCHANGED <<memVars, faulty, targeted, calls, arms>>

\* roll_clean_fault: before anything is done.
RollCleanFault(c) ==
  /\ pc[c] = "roll"
  /\ \/ /\ faulty
        /\ stats' = [stats EXCEPT !.faults_injected = @ + 1]
        /\ Return(c, NotApplied)
     \/ /\ pc' = [pc EXCEPT ![c] = "inner"]
        /\ UNCHANGED <<call, stats, told>>
  /\ UNCHANGED <<memVars, faulty, targeted, calls, arms>>

Served(c, res) ==
  /\ call' = [call EXCEPT ![c].st = "served", ![c].res = res]
  /\ pc' = [pc EXCEPT ![c] = "count"]

Insert(k, e, data) ==
  /\ obj' = [obj EXCEPT ![k] = Version(e, data)]
  /\ minted' = [minted EXCEPT ![k] = @ \cup {Version(e, data)}]

\* MemoryStore: get, put_if_match and delete are one critical section each.
MemoryGet(c) ==
  LET r == call[c].req
  IN  /\ pc[c] = "inner" /\ r.op = "get"
      /\ Served(c, CondGet(obj[r.key], r.expect))
      /\ UNCHANGED <<memVars, simVars, told>>

\* mutant: the ETag is compared before the lock is taken
MemoryPutIfMatchUnlocked(c) ==
  LET r == call[c].req
  IN  /\ r.op = "cas"
      /\ \/ /\ pc[c] = "inner" /\ CasMatches(obj[r.key], r.expect)
            /\ pc' = [pc EXCEPT ![c] = "insert"]
            /\ etag' = [etag EXCEPT ![c] = next_etag] /\ next_etag' = next_etag + 1
            /\ UNCHANGED <<call, obj, minted>>
         \/ /\ pc[c] = "insert"
            /\ Insert(r.key, etag[c], r.data)
            /\ Served(c, Result("ok", etag[c]))
            /\ UNCHANGED <<next_etag, etag>>
         \/ /\ pc[c] = "inner" /\ ~CasMatches(obj[r.key], r.expect)
            /\ Served(c, Refused)
            /\ UNCHANGED memVars
      /\ UNCHANGED <<simVars, told>>

MemoryPutIfMatch(c) ==
  LET r == call[c].req
  IN  /\ pc[c] = "inner" /\ r.op = "cas"
      /\ \/ /\ CasMatches(obj[r.key], r.expect)
            /\ Insert(r.key, next_etag, r.data)
            /\ next_etag' = next_etag + 1
            /\ Served(c, Result("ok", next_etag))
            /\ UNCHANGED etag
         \/ /\ ~CasMatches(obj[r.key], r.expect)
            /\ Served(c, Refused)
            /\ UNCHANGED memVars
      /\ UNCHANGED <<simVars, told>>

\* put draws its ETag, then takes the lock: a later ETag may be stored first.
MemoryFreshEtag(c) ==
  /\ pc[c] = "inner" /\ call[c].req.op = "put"
  /\ etag' = [etag EXCEPT ![c] = next_etag]
  /\ next_etag' = next_etag + 1
  /\ pc' = [pc EXCEPT ![c] = "insert"]
  /\ UNCHANGED <<obj, minted, call, simVars, told>>

MemoryPut(c) ==
  /\ pc[c] = "insert" /\ call[c].req.op = "put"
  /\ Insert(call[c].req.key, etag[c], call[c].req.data)
  /\ etag' = [etag EXCEPT ![c] = None]
  /\ Served(c, Result("ok", etag[c]))
  /\ UNCHANGED <<next_etag, simVars, told>>

MemoryDelete(c) ==
  /\ pc[c] = "inner" /\ call[c].req.op = "delete"
  /\ obj' = [obj EXCEPT ![call[c].req.key] = None]
  /\ Served(c, Result("ok", None))
  /\ UNCHANGED <<minted, next_etag, etag, simVars, told>>

\* mutant: every conditional PUT is counted as a PUT
CounterOfAttempts(c) ==
  CASE call[c].res.kind = "notmodified" -> "not_modified"
    [] call[c].req.op = "get" -> "gets"
    [] call[c].req.op = "delete" -> "deletes"
    [] OTHER -> "puts"

\* Which counter the outcome of the inner call bumps.
Counter(c) ==
  CASE call[c].res.kind = "notmodified" -> "not_modified"
    [] call[c].req.op = "get" -> "gets"
    [] call[c].res = Refused -> "cas_failures"
    [] call[c].req.op = "delete" -> "deletes"
    [] OTHER -> "puts"

Count(c) ==
  /\ pc[c] = "count"
  /\ stats' = [stats EXCEPT ![Counter(c)] = @ + 1]
  /\ IF Mutation(call[c].req) /\ call[c].res # Refused
     THEN /\ pc' = [pc EXCEPT ![c] = "ambiguous"]
          /\ UNCHANGED <<call, told>>
     ELSE Return(c, call[c].res)
  /\ UNCHANGED <<memVars, faulty, targeted, calls, arms>>

\* roll_ambiguous_fault: an executed mutation may be reported as failed.
RollAmbiguousFault(c) ==
  LET hit == targeted # None /\ targeted = call[c].req.key
  IN  /\ pc[c] = "ambiguous"
      /\ \/ /\ hit \/ faulty
            /\ targeted' = IF hit THEN None ELSE targeted
            /\ stats' = [stats EXCEPT !.faults_injected = @ + 1]
            /\ Return(c, Unknown)
         \/ /\ ~hit
            /\ Return(c, call[c].res)
            /\ UNCHANGED <<targeted, stats>>
      /\ UNCHANGED <<memVars, faulty, calls, arms>>

FailNextMutationAmbiguously(k) ==
  /\ arms < MaxArms
  /\ arms' = arms + 1
  /\ targeted' = k
  /\ UNCHANGED <<memVars, call, pc, faulty, stats, calls, told>>

SetFaults ==
  /\ faulty' = FALSE
  /\ faulty
  /\ UNCHANGED <<memVars, call, pc, targeted, stats, calls, arms, told>>

ClientStep(c) ==
  \/ RollCleanFault(c) \/ MemoryGet(c) \/ MemoryPutIfMatch(c) \/ MemoryFreshEtag(c)
  \/ MemoryPut(c) \/ MemoryDelete(c) \/ Count(c) \/ RollAmbiguousFault(c)

Next ==
  \/ \E c \in Clients : Invoke(c) \/ ClientStep(c)
  \/ \E k \in Keys : FailNextMutationAmbiguously(k)
  \/ SetFaults

Spec == Init /\ [][Next]_vars
-----------------------------------------------------------------------------
(* Properties                                                                *)

Contract == INSTANCE ObjectStore WITH late <- {}

\* A SimStore around a MemoryStore keeps the promise of the ObjectStore trait
\* with nothing ever arriving late, also when puts draw their ETags in another
\* order than they store them, and through every kind of injected fault.
KeepsContract == Contract!Spec

\* A clean failure means that nothing happened and an ambiguous one that the
\* mutation was executed: an Unknown is only said of a call that took effect.
AmbiguousMeansExecuted ==
  [][\A c \in Clients :
       pc[c] # "idle" /\ pc'[c] = "idle" /\ call'[c].res = Unknown
         => call[c].st = "served"]_vars

\* When no call is under way the counters account for every answer: each
\* injected fault is one error a caller saw, and the operations that were
\* executed are the answered ones and the ambiguous ones.
StatsAccount ==
  (\A c \in Clients : pc[c] = "idle") =>
    /\ stats.faults_injected = told.clean + told.ambiguous
    /\ stats.cas_failures = told.refused
    /\ stats.gets + stats.not_modified + stats.puts + stats.deletes = told.ok + told.ambiguous
=============================================================================
