----------------------------- MODULE GroupCommit -----------------------------
(* The group commit adapter: producer threads put entries into a bounded     *)
(* channel; one writer thread takes what is there, appends it to the log as  *)
(* one batch and answers every producer through the entry's own receipt      *)
(* channel.  The first failed batch stops the adapter: later submissions are *)
(* refused, queued ones are answered NotApplied, and nothing is retried.     *)
(*                                                                           *)
(* write_batch is seen through its store calls: a CAS on the WAL object that *)
(* other processes also write, a refresh and reconcile_batch after a lost    *)
(* one, and an answer that may be missing while the request lands, now,      *)
(* later or never.  Producers are threads as in main, and callers as in the  *)
(* tests: one that meets an error either gives up its handle or goes on.     *)
EXTENDS Integers, Sequences, SequencesExt, FiniteSets

CONSTANTS
  Producers,     \* threads holding a Submitter
  PerProducer,   \* entries each producer has to submit
  Capacity,      \* of the channel
  MaxBatch,      \* entries of one write_batch
  Window,        \* receipts a producer keeps before it waits for the oldest
  MaxAttempts,   \* CAS attempts of one write_batch
  Reconciles,    \* decisions the application's reconcile may take
  MaxOthers,     \* bound: writes of other processes to the WAL object
  MaxFaults,     \* bound: store calls that fail or stay unanswered
  MaxPanics      \* bound: callbacks that panic

ASSUME ProducerAssumption == PerProducer \in Nat
ASSUME QueueAssumption == Capacity \in Nat \ {0}
ASSUME BatchAssumption == MaxBatch \in Nat \ {0}
ASSUME AttemptsAssumption == MaxAttempts \in Nat \ {0}
ASSUME ReconcilesAssumption == Reconciles \subseteq {"Retry", "Replace", "Abort"}

VARIABLES
  prod,      \* the producer threads
  queue,     \* requests in the channel, by the id of their entry
  reply,     \* what was sent into each entry's receipt channel
  accepted,  \* the ids each producer got a receipt for, in order
  stopped,   \* the flag shared by submitters and writer
  writer,    \* the writer thread and its WAL handle
  report,    \* the writer's counters
  log,       \* the committed entries; entry i has LSN i - 1
  ver,       \* the version of the WAL object
  late,      \* CAS requests reported Unknown that may still be carried out
  others, faults, panics

vars == <<prod, queue, reply, accepted, stopped, writer, report, log, ver, late,
          others, faults, panics>>

prodVars == <<prod, accepted>>
storeVars == <<log, ver, late>>
bounds == <<others, faults, panics>>

Id == Producers \X (1 .. PerProducer)

\* The bytes of an entry: whose they are and how often reconcile rewrote them.
Entry(id, rev) == [id |-> id, rev |-> rev]

Foreign == Entry(<< >>, 0)      \* an entry of another process

Init ==
  /\ prod = [p \in Producers |-> [pc |-> "idle", n |-> 0, pending |-> << >>]]
  /\ queue = << >>
  /\ reply = [id \in Id |-> << >>]
  /\ accepted = [p \in Producers |-> << >>]
  /\ stopped = FALSE
  /\ writer = [pc |-> "recv", ids |-> << >>, entries |-> << >>, attempted |-> << >>,
               attempt |-> 0, seen |-> 0, next |-> 0, outcome |-> "none"]
  /\ report = [acknowledged |-> 0, commits |-> 0, failed |-> 0]
  /\ log = << >> /\ ver = 0 /\ late = {}
  /\ others = 0 /\ faults = 0 /\ panics = 0
-----------------------------------------------------------------------------
(* Producers                                                                 *)

Receiving == writer.pc \notin {"ended", "panicked"}    \* rx is alive

\* The thread ends: it drops its Submitter and the receipts it still holds.
Leave(p) == prod' = [prod EXCEPT ![p].pc = "done", ![p].pending = << >>]

\* SubmissionError: main panics, the tests take the entry back and go on.
Rejected(p) ==
  /\ \/ Leave(p)
     \/ prod' = [prod EXCEPT ![p].pc = "idle", ![p].n = @ + 1]
  /\ UNCHANGED <<queue, accepted>>

\* prepare: an entry within the size limit passes unless the writer stopped.
Prepare(p, next) ==
  \/ Rejected(p)                                       \* "entry too large"
  \/ stopped /\ Rejected(p)                            \* "writer stopped"
  \/ /\ ~stopped
     /\ prod' = [prod EXCEPT ![p].pc = next]
     /\ UNCHANGED <<queue, accepted>>

\* The request is in the channel and its receipt in the producer's window.
Enqueue(p) ==
  LET id == <<p, prod[p].n + 1>>
      pending == Append(prod[p].pending, id)
  IN  /\ Receiving
      /\ Len(queue) < Capacity
      /\ queue' = Append(queue, id)
      /\ accepted' = [accepted EXCEPT ![p] = Append(@, id)]
      /\ prod' = [prod EXCEPT ![p] =
                   [pc |-> IF Len(pending) = Window THEN "wait" ELSE "idle",
                    n |-> @.n + 1, pending |-> pending]]

\* Both submissions check the flag first and reach the channel later.
StartSubmit(p) ==
  /\ prod[p].pc = "idle"
  /\ prod[p].n < PerProducer
  /\ Prepare(p, "try")

TrySend(p) ==
  /\ prod[p].pc = "try"
  /\ \/ Enqueue(p)
     \/ /\ Receiving
        /\ Len(queue) = Capacity                       \* "queue full"
        /\ prod' = [prod EXCEPT ![p].pc = "full"]
        /\ UNCHANGED <<queue, accepted>>
     \/ ~Receiving /\ Rejected(p)

\* main falls back to the blocking submit, which checks the flag again.
FallBack(p) ==
  /\ prod[p].pc = "full"
  /\ Prepare(p, "send")

Send(p) ==
  /\ prod[p].pc = "send"
  /\ Enqueue(p) \/ (~Receiving /\ Rejected(p))

\* recv on the oldest receipt, when the window is full or all is submitted.
\* An error, or a channel whose sender is gone, ends a thread of main.
Receive(p) ==
  LET st == prod[p]
      id == Head(st.pending)
      ok == reply[id] # << >> /\ Head(reply[id]).ok
  IN  /\ st.pc = "wait" \/ (st.pc = "idle" /\ st.n = PerProducer)
      /\ st.pending # << >>
      /\ reply[id] # << >> \/ ~Receiving
      /\ \/ prod' = [prod EXCEPT ![p].pc = "idle", ![p].pending = Tail(@)]
         \/ ~ok /\ Leave(p)
      /\ UNCHANGED <<queue, accepted>>

Finish(p) ==
  /\ prod[p].pc = "idle"
  /\ prod[p].n = PerProducer
  /\ prod[p].pending = << >>
  /\ Leave(p)
  /\ UNCHANGED <<queue, accepted>>

ProducerStep(p) ==
  /\ \/ StartSubmit(p) \/ TrySend(p) \/ FallBack(p) \/ Send(p)
     \/ Receive(p) \/ Finish(p)
  /\ UNCHANGED <<reply, stopped, writer, report, log, ver, late, others, faults, panics>>
-----------------------------------------------------------------------------
(* The writer thread                                                         *)

\* mutant: the batch takes whatever is queued
TakeAll ==
  /\ queue # << >>
  /\ writer.pc \in {"recv", "fill"}
  /\ queue' = Tail(queue)
  /\ writer' = [writer EXCEPT !.pc = "fill",
                              !.ids = Append(@, Head(queue)),
                              !.entries = Append(@, Entry(Head(queue), 0))]
  /\ UNCHANGED <<prodVars, reply, stopped, report, storeVars, bounds>>

\* recv takes the first request of a batch, try_recv up to MaxBatch in all.
Take ==
  /\ queue # << >>
  /\ \/ writer.pc = "recv"
     \/ writer.pc = "fill" /\ Len(writer.ids) < MaxBatch
  /\ queue' = Tail(queue)
  /\ writer' = [writer EXCEPT !.pc = "fill",
                              !.ids = Append(@, Head(queue)),
                              !.entries = Append(@, Entry(Head(queue), 0))]
  /\ UNCHANGED <<prodVars, reply, stopped, report, storeVars, bounds>>

\* The Err arm: the flag is raised before the receipts are answered.
Fail(outcome, entries) ==
  /\ stopped' = TRUE
  /\ report' = [report EXCEPT !.failed = @ + Len(writer.ids)]
  /\ writer' = [writer EXCEPT !.pc = "reply", !.outcome = outcome, !.entries = entries]

\* mutant: the flag is left to the submitters
StartWriteAnyway ==
  /\ writer.pc = "fill"
  /\ Len(writer.ids) = MaxBatch \/ queue = << >>
  /\ report' = [report EXCEPT !.commits = @ + 1]
  /\ writer' = [writer EXCEPT !.pc = "cas", !.attempt = 1, !.attempted = writer.entries]
  /\ UNCHANGED <<prodVars, queue, reply, stopped, storeVars, bounds>>

\* A batch taken after the stop is not attempted.
StartWrite ==
  /\ writer.pc = "fill"
  /\ Len(writer.ids) = MaxBatch \/ queue = << >>
  /\ \/ stopped /\ Fail("NotApplied", writer.entries)
     \/ /\ ~stopped
        /\ report' = [report EXCEPT !.commits = @ + 1]
        /\ writer' = [writer EXCEPT !.pc = "cas", !.attempt = 1, !.attempted = writer.entries]
        /\ UNCHANGED stopped
  /\ UNCHANGED <<prodVars, queue, reply, storeVars, bounds>>

Land(seen, entries) ==
  /\ ver = seen
  /\ log' = log \o entries
  /\ ver' = ver + 1

\* The CAS is accepted: the handle applies the batch and returns its range.
Commit ==
  /\ writer.pc = "cas"
  /\ Land(writer.seen, writer.entries)
  /\ report' = [report EXCEPT !.acknowledged = @ + Len(writer.ids)]
  /\ writer' = [writer EXCEPT !.pc = "reply", !.outcome = "Ok", !.seen = ver + 1,
                              !.next = @ + Len(writer.entries)]
  /\ UNCHANGED <<prodVars, queue, reply, stopped, late, bounds>>

\* A refused candidate, a request that never left, or a failed refresh.
WriteFails ==
  /\ writer.pc = "cas"
  /\ faults < MaxFaults
  /\ faults' = faults + 1
  /\ Fail("NotApplied", writer.entries)
  /\ UNCHANGED <<prodVars, queue, reply, storeVars, others, panics>>

\* mutant: an unanswered CAS is taken for one that did not happen
WriteUnansweredDenied ==
  /\ writer.pc = "cas"
  /\ faults < MaxFaults
  /\ faults' = faults + 1
  /\ Fail("NotApplied", writer.entries)
  /\ Land(writer.seen, writer.entries) /\ UNCHANGED late
  /\ UNCHANGED <<prodVars, queue, reply, others, panics>>

\* No answer: the request was carried out, or may be later.
WriteUnanswered ==
  /\ writer.pc = "cas"
  /\ faults < MaxFaults
  /\ faults' = faults + 1
  /\ Fail("Unknown", writer.entries)
  /\ \/ Land(writer.seen, writer.entries) /\ UNCHANGED late
     \/ /\ late' = late \cup {[seen |-> writer.seen, entries |-> writer.entries]}
        /\ UNCHANGED <<log, ver>>
  /\ UNCHANGED <<prodVars, queue, reply, others, panics>>

\* The CAS is rejected, also spuriously (409); the handle refreshes.
Conflict ==
  /\ writer.pc = "cas"
  /\ writer' = [writer EXCEPT !.pc = "conflict", !.seen = ver, !.next = Len(log)]
  /\ UNCHANGED <<prodVars, queue, reply, stopped, report, storeVars, bounds>>

Rewrite(e) == Entry(e.id, e.rev + 1)

\* mutant: rewrites made before an abort stay in the batch
ReconcileBatchInPlace(pending, decide) ==
  [abort |-> \E i \in DOMAIN pending : decide[i] = "Abort",
   entries |-> [i \in DOMAIN pending |->
                 IF decide[i] = "Replace" THEN Rewrite(pending[i]) ELSE pending[i]]]

\* The default reconcile_batch: one decision per entry; a single Abort leaves
\* the batch as it was, otherwise all rewrites are taken.
ReconcileBatch(pending, decide) ==
  LET abort == \E i \in DOMAIN pending : decide[i] = "Abort"
  IN  [abort |-> abort,
       entries |-> [i \in DOMAIN pending |->
                     IF ~abort /\ decide[i] = "Replace" THEN Rewrite(pending[i])
                                                        ELSE pending[i]]]

Reconcile ==
  /\ writer.pc = "conflict"
  /\ \/ writer.attempt = MaxAttempts /\ Fail("NotApplied", writer.entries)             \* Contention
     \/ /\ writer.attempt < MaxAttempts
        /\ \E decide \in [DOMAIN writer.entries -> Reconciles] :
             LET r == ReconcileBatch(writer.entries, decide)
             IN  \/ r.abort /\ Fail("NotApplied", r.entries)
                 \/ /\ ~r.abort
                    /\ writer' = [writer EXCEPT !.pc = "cas", !.attempt = @ + 1,
                                                !.entries = r.entries,
                                                !.attempted = r.entries]
                    /\ UNCHANGED <<stopped, report>>
  /\ UNCHANGED <<prodVars, queue, reply, storeVars, bounds>>

\* What the k-th receipt of the batch is told.
Answer(k) ==
  IF writer.outcome = "Ok"
  THEN [ok |-> TRUE, lsn |-> writer.next - Len(writer.entries) + k - 1]
  ELSE [ok |-> FALSE, outcome |-> writer.outcome, entries |-> writer.entries]

\* The receipts are answered one after the other; a dropped one is ignored.
Reply ==
  LET k == Len(writer.entries) - Len(writer.ids) + 1
  IN  /\ writer.pc = "reply"
      /\ \/ /\ writer.ids # << >>
            /\ reply' = [reply EXCEPT ![Head(writer.ids)] = Append(@, Answer(k))]
            /\ writer' = [writer EXCEPT !.ids = Tail(@)]
         \/ /\ writer.ids = << >>
            /\ writer' = [writer EXCEPT !.pc = "recv", !.entries = << >>, !.attempted = << >>,
                                        !.attempt = 0, !.outcome = "none"]
            /\ UNCHANGED reply
      /\ UNCHANGED <<prodVars, queue, stopped, report, storeVars, bounds>>

\* mutant: main keeps its own Submitter
NeverGone == FALSE

Gone == \A p \in Producers : prod[p].pc = "done"

\* mutant: the writer ends with the producers
CloseUndrained ==
  /\ writer.pc = "recv"
  /\ Gone
  /\ writer' = [writer EXCEPT !.pc = "ended"]
  /\ UNCHANGED <<prodVars, queue, reply, stopped, report, storeVars, bounds>>

\* recv fails when the channel is empty and every Submitter is dropped.
Close ==
  /\ writer.pc = "recv"
  /\ queue = << >>
  /\ Gone
  /\ writer' = [writer EXCEPT !.pc = "ended"]
  /\ UNCHANGED <<prodVars, queue, reply, stopped, report, storeVars, bounds>>

\* A callback panics, apply possibly after the commit: the thread unwinds and
\* drops the channel with all requests in it.
Panic ==
  /\ panics < MaxPanics
  /\ panics' = panics + 1
  /\ \/ writer.pc = "cas" /\ Land(writer.seen, writer.entries)
     \/ writer.pc = "conflict" /\ UNCHANGED <<log, ver>>
  /\ writer' = [writer EXCEPT !.pc = "panicked"]
  /\ queue' = << >>
  /\ UNCHANGED <<prodVars, reply, stopped, report, late, others, faults>>

WriterStep ==
  \/ Take \/ StartWrite \/ Commit \/ WriteFails \/ WriteUnanswered
  \/ Conflict \/ Reconcile \/ Reply \/ Close \/ Panic
-----------------------------------------------------------------------------
(* The store and other processes                                             *)

\* Another process appends an entry, or folds without appending.
Other ==
  /\ others < MaxOthers
  /\ others' = others + 1
  /\ \E batch \in {<< >>, <<Foreign>>} : Land(ver, batch)
  /\ UNCHANGED <<prodVars, queue, reply, stopped, writer, report, late, faults, panics>>

\* A CAS reported Unknown is carried out after all.
Late ==
  /\ \E r \in late : Land(r.seen, r.entries) /\ late' = late \ {r}
  /\ UNCHANGED <<prodVars, queue, reply, stopped, writer, report, bounds>>

Next == (\E p \in Producers : ProducerStep(p)) \/ WriterStep \/ Other \/ Late

Spec == Init /\ [][Next]_vars

\* Threads are scheduled and store calls return.
FairSpec == Spec /\ (\A p \in Producers : WF_vars(ProducerStep(p))) /\ WF_vars(WriterStep)
-----------------------------------------------------------------------------
(* Properties                                                                *)

Committed(id) == \E i \in DOMAIN log : log[i].id = id

\* A request that can still land and holds the entry.
MayLand(id) == \E r \in late : r.seen = ver /\ \E i \in DOMAIN r.entries : r.entries[i].id = id

\* A receipt is answered at most once, with the LSN of its own entry, or with
\* an outcome that stays true: an entry answered NotApplied is not in the log
\* and no request of the adapter can still bring it there.
ReceiptsTrue ==
  \A id \in Id :
    /\ Len(reply[id]) <= 1
    /\ \A a \in Range(reply[id]) :
         /\ a.ok => a.lsn + 1 \in DOMAIN log /\ log[a.lsn + 1].id = id
         /\ ~a.ok /\ a.outcome = "NotApplied" => ~Committed(id) /\ ~MayLand(id)

\* What an error hands back is the batch that was last attempted, and the entry
\* that it answers is in it.
ErrorsShowTheAttempt ==
  /\ writer.pc = "reply" /\ writer.attempt > 0 => writer.entries = writer.attempted
  /\ \A id \in Id : \A a \in Range(reply[id]) :
       ~a.ok => \E i \in DOMAIN a.entries : a.entries[i].id = id

\* Of the entries accepted from a producer the log holds an initial part, each
\* once and in the order of submission, through retries, a stop and a late
\* CAS: nothing is committed before, or without, an entry of the same producer
\* that was accepted earlier.
PrefixCommitted ==
  \A p \in Producers : \A i \in DOMAIN log :
    log[i].id # << >> /\ log[i].id[1] = p =>
      /\ \A j \in DOMAIN log : log[j].id = log[i].id => j = i
      /\ \E k \in DOMAIN accepted[p] :
           /\ accepted[p][k] = log[i].id
           /\ \A m \in 1 .. k - 1 : \E j \in 1 .. i - 1 : log[j].id = accepted[p][m]

Unanswered == {id \in Id : reply[id] = << >> /\ \E p \in Producers : id \in Range(accepted[p])}

\* The bound of the header: accepted entries without an answer are at most the
\* channel's capacity and one batch.
BoundedBacklog == Cardinality(Unanswered) <= Capacity + MaxBatch

\* Dropping all submitters drains what was accepted: when the writer returns,
\* every accepted entry has its answer and the report counts them all.
DrainedAtEnd ==
  writer.pc = "ended" =>
    /\ Unanswered = {}
    /\ report.acknowledged + report.failed
         = Cardinality({id \in Id : reply[id] # << >>})
    /\ report.acknowledged = Cardinality({id \in Id : reply[id] # << >> /\ Head(reply[id]).ok})

\* No producer stays blocked on the channel or on a receipt, and the writer
\* ends: it returns or it has panicked.
ShutsDown == <>(writer.pc \in {"ended", "panicked"} /\ \A p \in Producers : prod[p].pc = "done")
=============================================================================
