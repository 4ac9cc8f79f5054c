------------------------------ MODULE AppendLog ------------------------------
(* What waltier promises its callers: one log that only grows, by whole      *)
(* batches; handles that show committed prefixes and never step back; and    *)
(* acknowledgements that name the LSNs a batch took in the step that added   *)
(* it.  Folds, snapshots, ETags and cleanup do not appear.                   *)
EXTENDS Integers, Sequences

CONSTANTS Handles, Closed

VARIABLES
  log,    \* the committed entries; entry i has LSN i - 1
  view,   \* what each handle shows, Closed when there is no handle
  acked   \* <<lsn, entry>> acknowledged to a caller

vars == <<log, view, acked>>

Init == log = << >> /\ view = [h \in Handles |-> Closed] /\ acked = {}

\* The batch that a step adds to the log.
Added == SubSeq(log', Len(log) + 1, Len(log'))

Grow == Len(log') > Len(log) /\ log' = log \o Added

\* An append by a handle that shows the whole log: it learns the LSNs.
Append1(h) ==
  /\ view[h] = log
  /\ Grow
  /\ view' = [view EXCEPT ![h] = log']
  /\ acked' = acked \cup {<<Len(log) + i - 1, Added[i]>> : i \in DOMAIN Added}

\* An append whose caller does not learn of it.
AppendUnseen == Grow /\ UNCHANGED <<view, acked>>

\* A handle opens, or catches up: it shows a prefix, no shorter than before.
Observe(h) ==
  /\ \E n \in 0 .. Len(log) :
       /\ view[h] # Closed => n >= Len(view[h])
       /\ view' = [view EXCEPT ![h] = SubSeq(log, 1, n)]
  /\ UNCHANGED <<log, acked>>

Close(h) ==
  /\ view' = [view EXCEPT ![h] = Closed]
  /\ UNCHANGED <<log, acked>>

Next ==
  \/ AppendUnseen
  \/ \E h \in Handles : Append1(h) \/ Observe(h) \/ Close(h)

Spec == Init /\ [][Next]_vars
=============================================================================
