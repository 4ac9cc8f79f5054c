--------------------------- MODULE AllocatorProofs ---------------------------
(* The assertion in the batch example's apply never fails, for any number of *)
(* writers, ids and unanswered PUTs.                                         *)
(*                                                                           *)
(* A batch is only right for one length of the log: the one its writer saw,  *)
(* or the one its PUT is conditional on.  That is the inductive invariant.   *)
EXTENDS Allocator, SequenceTheorems, TLAPS

\* The batch is what prepare or reconcile_batch builds on a log that is n long.
FitsAt(batch, n) == batch \in Seq(Nat) /\ \A i \in 1 .. Len(batch) : batch[i] = n + i - 1

AllocInv ==
  /\ log \in Seq(Nat) /\ FitsAt(log, 0)
  /\ seen \in [Writers -> Nat] /\ pending \in [Writers -> Seq(Nat)]
  /\ \A w \in Writers : FitsAt(pending[w], seen[w])
  /\ \A r \in late : r.at \in Nat /\ FitsAt(r.batch, r.at)

LEMMA AllocationsFit ==
  ASSUME NEW first \in Nat, NEW count \in Nat
  PROVE  FitsAt(Allocations(first, count), first)
<1> DEFINE b == Allocations(first, count)
<1>1. b \in [1 .. count -> Nat] /\ \A i \in 1 .. count : b[i] = first + i - 1
  BY DEF Allocations
<1> HIDE DEF b
<1>2. b \in Seq(Nat) /\ Len(b) = count
  BY <1>1, SeqDef, LenProperties
<1> QED
  BY <1>1, <1>2 DEF FitsAt, b

LEMMA NothingFits == ASSUME NEW n PROVE FitsAt(<< >>, n)
BY EmptySeq DEF FitsAt

\* A batch that fits the log's length continues it.
LEMMA AppendFits ==
  ASSUME NEW l \in Seq(Nat), FitsAt(l, 0), NEW batch, FitsAt(batch, Len(l))
  PROVE  l \o batch \in Seq(Nat) /\ FitsAt(l \o batch, 0) /\ Len(l \o batch) \in Nat
<1> DEFINE m == Len(l)
           n == Len(batch)
           t == l \o batch
<1>1. batch \in Seq(Nat) /\ \A i \in 1 .. n : batch[i] = m + i - 1
  BY DEF FitsAt
<1>2. /\ t \in Seq(Nat) /\ m \in Nat /\ n \in Nat /\ Len(t) = m + n
      /\ \A i \in 1 .. m : t[i] = l[i]
      /\ \A i \in 1 .. n : t[m + i] = batch[i]
  BY <1>1, ConcatProperties, LenProperties
<1>3. \A i \in 1 .. m : l[i] = 0 + i - 1
  BY DEF FitsAt
<1> HIDE DEF m, n, t
<1>4. ASSUME NEW i \in 1 .. m + n PROVE t[i] = 0 + i - 1
  <2>1. CASE i \in 1 .. m
    BY <1>2, <1>3, <2>1
  <2>2. CASE i \notin 1 .. m
    <3>1. i - m \in 1 .. n /\ m + (i - m) = i
      BY <1>2, <2>2
    <3>2. t[i] = batch[i - m] /\ batch[i - m] = m + (i - m) - 1
      BY <1>1, <1>2, <3>1
    <3> QED BY <1>2, <3>1, <3>2
  <2> QED BY <2>1, <2>2
<1> QED
  BY <1>2, <1>4 DEF FitsAt, t

LEMMA AllocInit == Init => AllocInv
BY EmptySeq, NothingFits DEF Init, AllocInv

\* One case per action of Next.
LEMMA AllocNext == AllocInv /\ [Next]_vars => AllocInv'
<1> SUFFICES ASSUME AllocInv, [Next]_vars PROVE AllocInv'
  OBVIOUS
<1>1. Len(log) \in Nat /\ log \in Seq(Nat)
  BY LenProperties DEF AllocInv
<1>2. ASSUME NEW w \in Writers, NEW batch, NEW n \in Nat, FitsAt(batch, n),
             pending' = [pending EXCEPT ![w] = batch], seen' = [seen EXCEPT ![w] = n]
      PROVE  /\ seen' \in [Writers -> Nat] /\ pending' \in [Writers -> Seq(Nat)]
             /\ \A v \in Writers : FitsAt(pending'[v], seen'[v])
  BY <1>2 DEF AllocInv, FitsAt
<1>3. CASE UNCHANGED vars
  BY <1>3 DEF vars, AllocInv
<1>4. ASSUME NEW w \in Writers, WriteBatch(w) PROVE AllocInv'
  <2>1. PICK n \in 1 .. MaxBatch :
           pending' = [pending EXCEPT ![w] = Allocations(NextId(seen[w]), n)]
    BY <1>4 DEF WriteBatch
  <2>2. n \in Nat /\ seen[w] \in Nat /\ NextId(seen[w]) = seen[w]
    BY BoundsAssumption DEF AllocInv, NextId
  <2>3. FitsAt(Allocations(NextId(seen[w]), n), seen[w])
    BY <2>2, AllocationsFit
  <2>4. seen' = [seen EXCEPT ![w] = seen[w]] /\ UNCHANGED <<log, late>>
    BY <1>4 DEF WriteBatch, AllocInv
  <2> QED BY <1>2, <2>1, <2>2, <2>3, <2>4 DEF AllocInv
<1>5. ASSUME NEW w \in Writers, Accepted(w) PROVE AllocInv'
  <2>1. /\ seen[w] = Len(log) /\ log' = log \o pending[w] /\ UNCHANGED late
        /\ seen' = [seen EXCEPT ![w] = Len(log')] /\ pending' = [pending EXCEPT ![w] = << >>]
    BY <1>5 DEF Accepted
  <2>2. log' \in Seq(Nat) /\ FitsAt(log', 0) /\ Len(log') \in Nat
    BY <2>1, AppendFits DEF AllocInv
  <2> QED BY <1>2, <2>1, <2>2, NothingFits DEF AllocInv
<1>6. ASSUME NEW w \in Writers, Refused(w) PROVE AllocInv'
  <2>1. PICK batch \in {ReconcileBatch(Len(log), pending[w]), << >>} :
           pending' = [pending EXCEPT ![w] = batch]
    BY <1>6 DEF Refused
  <2>2. Len(pending[w]) \in Nat
    BY LenProperties DEF AllocInv, FitsAt
  <2>3. FitsAt(batch, Len(log))
    BY <1>1, <2>1, <2>2, AllocationsFit, NothingFits DEF ReconcileBatch, NextId
  <2>4. seen' = [seen EXCEPT ![w] = Len(log)] /\ UNCHANGED <<log, late>>
    BY <1>6 DEF Refused
  <2> QED BY <1>1, <1>2, <2>1, <2>3, <2>4 DEF AllocInv
<1>7. ASSUME NEW w \in Writers, Unanswered(w) PROVE AllocInv'
  <2> DEFINE r == [at |-> seen[w], batch |-> pending[w]]
  <2>1. /\ late' = late \cup {r} /\ pending' = [pending EXCEPT ![w] = << >>]
        /\ seen' = [seen EXCEPT ![w] = seen[w]] /\ UNCHANGED log
    BY <1>7 DEF Unanswered, AllocInv
  <2>2. r.at \in Nat /\ FitsAt(r.batch, r.at) /\ seen[w] \in Nat
    BY DEF AllocInv
  <2> HIDE DEF r
  <2> QED BY <1>2, <2>1, <2>2, NothingFits DEF AllocInv
<1>8. ASSUME NEW w \in Writers, Refresh(w) PROVE AllocInv'
  <2>1. /\ pending[w] = << >> /\ seen' = [seen EXCEPT ![w] = Len(log)]
        /\ pending' = [pending EXCEPT ![w] = << >>] /\ UNCHANGED <<log, late>>
    BY <1>8 DEF Refresh, AllocInv
  <2> QED BY <1>1, <1>2, <2>1, NothingFits DEF AllocInv
<1>9. ASSUME Late PROVE AllocInv'
  <2>1. PICK r \in late : /\ late' = late \ {r} /\ UNCHANGED <<seen, pending>>
                          /\ \/ UNCHANGED log
                             \/ r.at = Len(log) /\ log' = log \o r.batch
    BY <1>9 DEF Late
  <2>2. log' \in Seq(Nat) /\ FitsAt(log', 0)
    BY <2>1, AppendFits DEF AllocInv
  <2> QED BY <2>1, <2>2 DEF AllocInv
<1> QED
  BY <1>3, <1>4, <1>5, <1>6, <1>7, <1>8, <1>9 DEF Next

\* apply's assertion holds for every entry of every log that the writers can
\* produce: a batch prepared on an older state never lands as it was.
THEOREM IdsAreNext == Spec => []EveryIdIsNext
<1>1. AllocInv => EveryIdIsNext
  BY LenProperties DEF AllocInv, FitsAt, EveryIdIsNext, NextId
<1> QED
  BY <1>1, AllocInit, AllocNext, PTL DEF Spec
=============================================================================
