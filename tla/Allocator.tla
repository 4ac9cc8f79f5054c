------------------------------ MODULE Allocator ------------------------------
(* The batch example: writers that append the ids they take from a shared    *)
(* log.  apply asserts that each entry is the next id, so a batch prepared on *)
(* an older state must be built again as a whole before it is committed.      *)
EXTENDS Integers, Sequences, FiniteSets

CONSTANTS
  Writers,
  MaxBatch,     \* bound: ids in a batch
  MaxIds,       \* bound: ids in the log
  MaxLost       \* bound: PUTs on their way without an answer

ASSUME BoundsAssumption == MaxBatch \in Nat \ {0} /\ MaxIds \in Nat /\ MaxLost \in Nat

VARIABLES
  log,       \* the ids committed
  seen,      \* seen[w]: the number of them that the state of w has applied
  pending,   \* pending[w]: the batch that w writes, << >> when it writes none
  late       \* unanswered PUTs [at, batch], conditional on the log being at long

vars == <<log, seen, pending, late>>

Init ==
  /\ log = << >> /\ late = {}
  /\ seen = [w \in Writers |-> 0]
  /\ pending = [w \in Writers |-> << >>]

Allocations(first, count) == [i \in 1 .. count |-> first + i - 1]

\* apply counts: the next id of a state is the number of ids it has applied.
NextId(n) == n

\* The caller prepares a batch on the state it sees and writes it.
WriteBatch(w) ==
  /\ pending[w] = << >>
  /\ \E n \in 1 .. MaxBatch : pending' = [pending EXCEPT ![w] = Allocations(NextId(seen[w]), n)]
  /\ UNCHANGED <<log, seen, late>>

\* The PUT finds the image that the state of w stands for.
Accepted(w) ==
  /\ pending[w] # << >> /\ seen[w] = Len(log)
  /\ Len(log) + Len(pending[w]) <= MaxIds
  /\ log' = log \o pending[w]
  /\ seen' = [seen EXCEPT ![w] = Len(log')]
  /\ pending' = [pending EXCEPT ![w] = << >>]
  /\ UNCHANGED late

\* mutant: the batch is retried as it was prepared
RetryBatch(n, batch) == batch

ReconcileBatch(n, batch) == Allocations(NextId(n), Len(batch))

\* The PUT is refused, also by a store that refuses one whose condition holds:
\* w applies what it had missed, then builds its batch again or has used up its
\* attempts.
Refused(w) ==
  /\ pending[w] # << >>
  /\ seen' = [seen EXCEPT ![w] = Len(log)]
  /\ \E batch \in {ReconcileBatch(Len(log), pending[w]), << >>} :
       pending' = [pending EXCEPT ![w] = batch]
  /\ UNCHANGED <<log, late>>

\* No answer: the caller gets an error and may write again.
Unanswered(w) ==
  /\ pending[w] # << >> /\ Cardinality(late) < MaxLost
  /\ late' = late \cup {[at |-> seen[w], batch |-> pending[w]]}
  /\ pending' = [pending EXCEPT ![w] = << >>]
  /\ UNCHANGED <<log, seen>>

\* An unanswered PUT reaches the store, where its condition may have failed.
Late ==
  \E r \in late :
    /\ late' = late \ {r}
    /\ \/ r.at # Len(log) /\ UNCHANGED log
       \/ r.at = Len(log) /\ Len(log) + Len(r.batch) <= MaxIds /\ log' = log \o r.batch
    /\ UNCHANGED <<seen, pending>>

Refresh(w) ==
  /\ pending[w] = << >> /\ seen[w] # Len(log)
  /\ seen' = [seen EXCEPT ![w] = Len(log)]
  /\ UNCHANGED <<log, pending, late>>

Next ==
  \/ \E w \in Writers : WriteBatch(w) \/ Accepted(w) \/ Refused(w) \/ Unanswered(w) \/ Refresh(w)
  \/ Late

Spec == Init /\ [][Next]_vars
-----------------------------------------------------------------------------
(* Properties                                                                *)

\* apply's assertion: whatever a state applies, in log order, is its next id.
\* No writer and no replica of the log panics, also when batches land late.
EveryIdIsNext == \A i \in DOMAIN log : log[i] = NextId(i - 1)
=============================================================================
