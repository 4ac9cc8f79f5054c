-------------------------- MODULE GroupCommitProofs --------------------------
(* The group commit adapter answers truthfully for any number of producers,  *)
(* entries, faults and foreign writers.                                      *)
(*                                                                           *)
(* An accepted entry is in the channel, in the writer's batch or answered,   *)
(* and in one of them only.  As long as it may still be answered NotApplied  *)
(* it is neither in the log nor in a request that may land.  Until the stop, *)
(* log, batch and queue are one line in which each producer's entries stand  *)
(* in the order of their acceptance; after it only one batch can land.       *)
EXTENDS GroupCommit, SequenceTheorems, FiniteSetTheorems, TLAPS

Own == [id : Id, rev : Nat]              \* an entry of a producer
LogEntry == [id : Id \cup {<< >>}, rev : Nat] \* an entry of the log

Good == [ok : {TRUE}, lsn : Int]
Bad  == [ok : {FALSE}, outcome : {"NotApplied", "Unknown"}, entries : Seq(Own)]

ProducersOK ==
  /\ prod \in [Producers -> [pc : {"idle", "try", "full", "send", "wait", "done"},
                             n : Nat, pending : Seq(Id)]]
  /\ \A p \in Producers : prod[p].pc \in {"try", "full", "send"} => prod[p].n < PerProducer
  /\ accepted \in [Producers -> Seq(Id)]

WriterTypeOK ==
  /\ writer \in [pc : {"recv", "fill", "cas", "conflict", "reply", "ended", "panicked"},
                 ids : Seq(Id), entries : Seq(Own), attempted : Seq(Own), attempt : Nat,
                 seen : Nat, next : Nat, outcome : {"none", "Ok", "NotApplied", "Unknown"}]
  /\ writer.pc = "reply" => writer.outcome # "none"

TypeInv ==
  /\ ProducersOK /\ WriterTypeOK
  /\ queue \in Seq(Id) /\ Len(queue) <= Capacity
  /\ reply \in [Id -> Seq(Good \cup Bad)]
  /\ report \in [acknowledged : Nat, commits : Nat, failed : Nat]
  /\ log \in Seq(LogEntry) /\ ver \in Nat
  /\ late \subseteq [seen : Nat, entries : Seq(Own)]

\* The ids that entries carry.
Ids(entries) == {entries[i].id : i \in DOMAIN entries}

\* What the log holds, and what unanswered requests may add to it.
Reached == Ids(log) \cup UNION {Ids(r.entries) : r \in late}

Told == {id \in Id : reply[id] # << >>}

Accepted == {id \in Id : \E p \in Producers : id \in Range(accepted[p])}

\* The ids at the end of the batch belong to the receipts not yet answered.
Aligned(ids, entries) ==
  /\ Len(ids) <= Len(entries)
  /\ \A i \in 1 .. Len(ids) : entries[Len(entries) - Len(ids) + i].id = ids[i]

BatchOK ==
  /\ writer.pc \in {"recv", "ended"} => writer.ids = << >>
  /\ writer.pc = "recv" => writer.entries = << >>
  /\ writer.pc \notin {"ended", "panicked"} => Aligned(writer.ids, writer.entries)
  /\ writer.pc \in {"fill", "cas", "conflict"} => Len(writer.ids) = Len(writer.entries)
  /\ Len(writer.ids) <= MaxBatch
  /\ writer.pc \in {"recv", "fill"} => writer.attempt = 0
  /\ writer.pc \in {"cas", "conflict"} => writer.entries = writer.attempted
  /\ writer.pc = "reply" /\ writer.attempt > 0 => writer.entries = writer.attempted

\* Nobody else has an id: each producer numbers its own entries.
NumbersOK ==
  \A p \in Producers : \A id \in Range(accepted[p]) : id[1] = p /\ id[2] <= prod[p].n

\* An accepted entry is in one place.
PlacesOK ==
  /\ IsInjective(queue) /\ IsInjective(writer.ids)
  /\ Range(queue) \cap Range(writer.ids) = {}
  /\ Range(queue) \cap Told = {} /\ Range(writer.ids) \cap Told = {}
  /\ Range(queue) \cup Range(writer.ids) \cup Told \cup (Reached \cap Id) \subseteq Accepted
  /\ Receiving => Accepted \subseteq Range(queue) \cup Range(writer.ids) \cup Told

\* The entries of a batch that may yet be answered NotApplied.
Risk ==
  IF \/ writer.pc \in {"fill", "cas", "conflict"}
     \/ writer.pc = "reply" /\ writer.outcome = "NotApplied"
  THEN Range(writer.ids) ELSE {}

Denied == {id \in Id : \E a \in Range(reply[id]) : ~a.ok /\ a.outcome = "NotApplied"}

DenialsOK == (Range(queue) \cup Risk \cup Denied) \cap Reached = {}

\* The handle's view is current when its version is.
ViewOK == writer.seen <= ver /\ (writer.seen = ver => writer.next = Len(log))

\* The LSNs that a committed batch took.
RangeOK ==
  writer.pc = "reply" /\ writer.outcome = "Ok" =>
    /\ Len(writer.entries) <= writer.next /\ writer.next <= Len(log)
    /\ \A i \in 1 .. Len(writer.entries) :
         log[writer.next - Len(writer.entries) + i].id = writer.entries[i].id

AnswersOK ==
  \A id \in Id :
    /\ Len(reply[id]) <= 1
    /\ \A a \in Range(reply[id]) :
         /\ a.ok => a.lsn + 1 \in DOMAIN log /\ log[a.lsn + 1].id = id
         /\ ~a.ok => id \in Ids(a.entries)

TruthInv ==
  /\ BatchOK /\ NumbersOK /\ PlacesOK /\ ViewOK /\ RangeOK /\ AnswersOK
  /\ DenialsOK

\* What waits is in the channel or in the batch, until the writer is gone.
BacklogInv ==
  /\ IsFiniteSet(Unanswered) /\ Cardinality(Unanswered) <= Capacity + MaxBatch
  /\ writer.pc = "ended" => Unanswered = {}

ToldGood == {id \in Id : reply[id] # << >> /\ Head(reply[id]).ok}

\* Receipts of a counted batch that are not answered yet.
Open     == IF writer.pc = "reply" THEN Len(writer.ids) ELSE 0
OpenGood == IF writer.pc = "reply" /\ writer.outcome = "Ok" THEN Len(writer.ids) ELSE 0

\* The report counts a batch when its outcome is known.
CountInv ==
  /\ IsFiniteSet(Told)
  /\ writer.pc # "panicked" =>
       /\ report.acknowledged = Cardinality(ToldGood) + OpenGood
       /\ report.acknowledged + report.failed = Cardinality(Told) + Open

-----------------------------------------------------------------------------
(* Types                                                                     *)

LEMMA TypeInit == Init => TypeInv
<1> SUFFICES ASSUME Init PROVE TypeInv
  OBVIOUS
<1>1. ProducersOK
  BY DEF Init, ProducersOK
<1>2. WriterTypeOK
  BY DEF Init, WriterTypeOK
<1>3. QED
  BY <1>1, <1>2, QueueAssumption DEF Init, TypeInv

LEMMA NewId ==
  ASSUME ProducersOK, NEW p \in Producers, prod[p].pc \in {"try", "full", "send"}
  PROVE  <<p, prod[p].n + 1>> \in Id
BY ProducerAssumption DEF ProducersOK, Id

LEMMA LeaveType ==
  ASSUME ProducersOK, NEW p \in Producers, Leave(p), UNCHANGED accepted
  PROVE  ProducersOK'
<1> DEFINE Rec == [pc : {"idle", "try", "full", "send", "wait", "done"},
                   n : Nat, pending : Seq(Id)]
           left == [prod[p] EXCEPT !.pc = "done", !.pending = << >>]
<1>1. prod \in [Producers -> Rec] /\ << >> \in Seq(Id)
  BY DEF ProducersOK
<1>2. left \in Rec /\ left.pc = "done"
  BY <1>1
<1>3. prod' = [prod EXCEPT ![p] = left]
  BY <1>1 DEF Leave
<1> HIDE DEF Rec, left
<1>4. prod' \in [Producers -> Rec] /\ \A q \in Producers : prod'[q] = IF q = p THEN left ELSE prod[q]
  BY <1>1, <1>2, <1>3
<1>5. QED
  BY <1>2, <1>4 DEF ProducersOK, Rec

LEMMA RejectedType ==
  ASSUME ProducersOK, NEW p \in Producers, Rejected(p)
  PROVE  ProducersOK'
<1>u. UNCHANGED accepted
  BY DEF Rejected
<1>1. CASE Leave(p)
  BY <1>u, <1>1, LeaveType
<1>2. CASE prod' = [prod EXCEPT ![p].pc = "idle", ![p].n = @ + 1]
  <2>1. prod[p].n + 1 \in Nat
    BY DEF ProducersOK
  <2>2. QED
    BY <1>u, <1>2, <2>1 DEF ProducersOK
<1>3. QED
  BY <1>1, <1>2 DEF Rejected

LEMMA PrepareType ==
  ASSUME ProducersOK, NEW p \in Producers, NEW next \in {"try", "send"},
         prod[p].n < PerProducer, Prepare(p, next)
  PROVE  ProducersOK' /\ UNCHANGED queue
<1>1. CASE Rejected(p)
  BY <1>1, RejectedType DEF Rejected
<1>2. CASE /\ prod' = [prod EXCEPT ![p].pc = next]
           /\ UNCHANGED <<queue, accepted>>
  BY <1>2 DEF ProducersOK
<1>3. QED
  BY <1>1, <1>2 DEF Prepare

LEMMA EnqueueType ==
  ASSUME TypeInv, NEW p \in Producers, prod[p].pc \in {"try", "full", "send"}, Enqueue(p)
  PROVE  ProducersOK' /\ queue' \in Seq(Id) /\ Len(queue') <= Capacity
<1> DEFINE id == <<p, prod[p].n + 1>>
<1>1. id \in Id
  BY NewId DEF TypeInv
<1>2. queue' = Append(queue, id) /\ Len(queue) < Capacity
  BY DEF Enqueue
<1>3. /\ accepted' = [accepted EXCEPT ![p] = Append(@, id)]
      /\ \E pc \in {"wait", "idle"} :
           prod' = [prod EXCEPT ![p] = [pc |-> pc, n |-> @.n + 1,
                                        pending |-> Append(prod[p].pending, id)]]
  BY DEF Enqueue
<1> HIDE DEF id
<1>4. accepted' \in [Producers -> Seq(Id)]
  BY <1>1, <1>3 DEF TypeInv, ProducersOK
<1>5. Append(prod[p].pending, id) \in Seq(Id) /\ prod[p].n + 1 \in Nat
  BY <1>1 DEF TypeInv, ProducersOK
<1>6. ProducersOK'
  BY <1>3, <1>4, <1>5 DEF TypeInv, ProducersOK
<1>7. queue' \in Seq(Id) /\ Len(queue') <= Capacity
  BY <1>1, <1>2, QueueAssumption DEF TypeInv
<1>8. QED
  BY <1>6, <1>7

LEMMA ProducerType ==
  ASSUME TypeInv, NEW p \in Producers, ProducerStep(p)
  PROVE  TypeInv'
<1>1. ProducersOK' /\ queue' \in Seq(Id) /\ Len(queue') <= Capacity
  <2> USE DEF TypeInv
  <2>1. CASE StartSubmit(p)
    BY <2>1, PrepareType DEF StartSubmit
  <2>2. CASE TrySend(p)
    <3>1. CASE Enqueue(p)
      BY <2>2, <3>1, EnqueueType DEF TrySend
    <3>2. CASE prod' = [prod EXCEPT ![p].pc = "full"] /\ UNCHANGED <<queue, accepted>>
      BY <2>2, <3>2 DEF TrySend, ProducersOK
    <3>3. CASE Rejected(p)
      BY <3>3, RejectedType DEF Rejected
    <3>4. QED
      BY <2>2, <3>1, <3>2, <3>3 DEF TrySend
  <2>3. CASE FallBack(p)
    BY <2>3, PrepareType DEF FallBack, ProducersOK
  <2>4. CASE Send(p)
    <3>1. CASE Enqueue(p)
      BY <2>4, <3>1, EnqueueType DEF Send
    <3>2. CASE Rejected(p)
      BY <3>2, RejectedType DEF Rejected
    <3>3. QED
      BY <2>4, <3>1, <3>2 DEF Send
  <2>5. CASE Receive(p)
    <3>1. prod[p].pending # << >> /\ UNCHANGED <<queue, accepted>>
      BY <2>5 DEF Receive
    <3>2. CASE prod' = [prod EXCEPT ![p].pc = "idle", ![p].pending = Tail(@)]
      <4>1. Tail(prod[p].pending) \in Seq(Id)
        BY <3>1 DEF ProducersOK
      <4>2. QED
        BY <3>1, <3>2, <4>1 DEF ProducersOK
    <3>3. CASE Leave(p)
      BY <3>1, <3>3, LeaveType
    <3>4. QED
      BY <2>5, <3>2, <3>3 DEF Receive
  <2>6. CASE Finish(p)
    BY <2>6, LeaveType DEF Finish
  <2>7. QED
    BY <2>1, <2>2, <2>3, <2>4, <2>5, <2>6 DEF ProducerStep
<1>2. QED
  BY <1>1 DEF TypeInv, WriterTypeOK, ProducerStep

\* A writer's step keeps the types of the parts it shares with nobody.
WriterPartsOK ==
  /\ WriterTypeOK
  /\ reply \in [Id -> Seq(Good \cup Bad)]
  /\ report \in [acknowledged : Nat, commits : Nat, failed : Nat]
  /\ queue \in Seq(Id) /\ Len(queue) <= Capacity
  /\ log \in Seq(LogEntry) /\ ver \in Nat
  /\ late \subseteq [seen : Nat, entries : Seq(Own)]

LEMMA OwnIsLogEntry == Own \subseteq LogEntry
BY DEF Own, LogEntry

LEMMA LandType ==
  ASSUME log \in Seq(LogEntry), ver \in Nat, NEW seen, NEW entries \in Seq(LogEntry),
         Land(seen, entries)
  PROVE  log' \in Seq(LogEntry) /\ ver' \in Nat
BY DEF Land

LEMMA OwnSeq == \A entries \in Seq(Own) : entries \in Seq(LogEntry)
BY OwnIsLogEntry, SeqMonotonic

LEMMA FailType ==
  ASSUME WriterPartsOK, NEW outcome \in {"NotApplied", "Unknown"}, NEW entries \in Seq(Own),
         Fail(outcome, entries)
  PROVE  WriterTypeOK' /\ report' \in [acknowledged : Nat, commits : Nat, failed : Nat]
<1>1. writer.ids \in Seq(Id) /\ report.failed + Len(writer.ids) \in Nat
  BY DEF WriterPartsOK, WriterTypeOK
<1>2. WriterTypeOK'
  BY DEF WriterPartsOK, WriterTypeOK, Fail
<1>3. QED
  BY <1>1, <1>2 DEF WriterPartsOK, Fail

LEMMA ReconcileKeeps ==
  ASSUME NEW pending \in Seq(Own), NEW decide
  PROVE  LET r == ReconcileBatch(pending, decide)
         IN  /\ r.entries \in Seq(Own)
             /\ Len(r.entries) = Len(pending)
             /\ \A i \in 1 .. Len(pending) : r.entries[i].id = pending[i].id
             /\ r.abort => r.entries = pending
<1> DEFINE r == ReconcileBatch(pending, decide)
           new(i) == IF ~r.abort /\ decide[i] = "Replace" THEN Rewrite(pending[i])
                                                          ELSE pending[i]
<1>1. r.entries = [i \in 1 .. Len(pending) |-> new(i)]
  BY DEF ReconcileBatch
<1>2. \A i \in 1 .. Len(pending) : new(i) \in Own /\ new(i).id = pending[i].id
  <2> SUFFICES ASSUME NEW i \in 1 .. Len(pending)
               PROVE  new(i) \in Own /\ new(i).id = pending[i].id
    OBVIOUS
  <2>1. pending[i] \in Own
    OBVIOUS
  <2>2. Rewrite(pending[i]) \in Own /\ Rewrite(pending[i]).id = pending[i].id
    BY <2>1 DEF Rewrite, Entry, Own
  <2>3. QED
    BY <2>1, <2>2
<1>3. r.abort => \A i \in 1 .. Len(pending) : new(i) = pending[i]
  OBVIOUS
<1> HIDE DEF new, r
<1>4. /\ r.entries \in Seq(Own)
      /\ Len(r.entries) = Len(pending)
      /\ \A i \in 1 .. Len(pending) : r.entries[i] = new(i)
  BY <1>1, <1>2
<1>5. r.abort => r.entries = pending
  BY <1>3, <1>4, SeqEqual
<1>6. QED
  BY <1>2, <1>4, <1>5 DEF r

LEMMA AnswerType ==
  ASSUME WriterTypeOK, writer.pc = "reply", NEW k \in Int
  PROVE  Answer(k) \in Good \cup Bad
<1>1. CASE writer.outcome = "Ok"
  BY <1>1 DEF WriterTypeOK, Answer, Good
<1>2. CASE writer.outcome # "Ok"
  BY <1>2 DEF WriterTypeOK, Answer, Bad
<1>3. QED
  BY <1>1, <1>2

LEMMA WriterType ==
  ASSUME WriterPartsOK, WriterStep
  PROVE  WriterPartsOK'
<1> DEFINE ReplyOK == reply \in [Id -> Seq(Good \cup Bad)]
           ReportOK == report \in [acknowledged : Nat, commits : Nat, failed : Nat]
           QueueOK == queue \in Seq(Id) /\ Len(queue) <= Capacity
           StoreOK == /\ log \in Seq(LogEntry) /\ ver \in Nat
                      /\ late \subseteq [seen : Nat, entries : Seq(Own)]
<1>w. /\ writer.ids \in Seq(Id) /\ writer.entries \in Seq(Own) /\ writer.seen \in Nat
      /\ writer.entries \in Seq(LogEntry) /\ Len(writer.ids) \in Nat
      /\ Len(writer.entries) \in Nat
  BY OwnSeq DEF WriterPartsOK, WriterTypeOK
<1>t. WriterTypeOK /\ ReplyOK /\ ReportOK /\ QueueOK /\ StoreOK
  BY DEF WriterPartsOK
<1>g. SUFFICES WriterTypeOK' /\ ReplyOK' /\ ReportOK' /\ QueueOK' /\ StoreOK'
  BY DEF WriterPartsOK
<1>1. CASE Take
  <2>1. /\ queue # << >> /\ queue' = Tail(queue)
        /\ writer' = [writer EXCEPT !.pc = "fill", !.ids = Append(@, Head(queue)),
                                    !.entries = Append(@, Entry(Head(queue), 0))]
    BY <1>1 DEF Take
  <2>2. Head(queue) \in Id /\ QueueOK'
    BY <1>t, <2>1, QueueAssumption
  <2>3. Entry(Head(queue), 0) \in Own
    BY <2>2 DEF Entry, Own
  <2>4. Append(writer.ids, Head(queue)) \in Seq(Id)
    BY <1>w, <2>2
  <2>5. Append(writer.entries, Entry(Head(queue), 0)) \in Seq(Own)
    BY <1>w, <2>3
  <2>6. WriterTypeOK'
    BY <1>t, <2>1, <2>4, <2>5 DEF WriterTypeOK
  <2>7. QED
    BY <1>1, <1>t, <2>2, <2>6 DEF Take, storeVars
<1>2. CASE StartWrite
  <2>1. CASE Fail("NotApplied", writer.entries)
    BY <1>2, <1>t, <1>w, <2>1, FailType DEF StartWrite, storeVars
  <2>2. CASE /\ report' = [report EXCEPT !.commits = @ + 1]
             /\ writer' = [writer EXCEPT !.pc = "cas", !.attempt = 1,
                                         !.attempted = writer.entries]
    <3>1. WriterTypeOK'
      BY <1>t, <1>w, <2>2 DEF WriterTypeOK
    <3>2. ReportOK'
      <4>1. report.commits + 1 \in Nat
        BY <1>t
      <4>2. QED
        BY <1>t, <2>2, <4>1
    <3>3. QED
      BY <1>2, <1>t, <3>1, <3>2 DEF StartWrite, storeVars
  <2>3. QED
    BY <1>2, <2>1, <2>2 DEF StartWrite
<1>3. CASE Commit
  <2>1. StoreOK'
    BY <1>3, <1>t, <1>w, LandType DEF Commit
  <2>2. ReportOK'
    <3>1. report.acknowledged + Len(writer.ids) \in Nat
      BY <1>t, <1>w
    <3>2. QED
      BY <1>3, <1>t, <3>1 DEF Commit
  <2>3. WriterTypeOK'
    <3>1. writer.next + Len(writer.entries) \in Nat /\ ver + 1 \in Nat
      BY <1>t, <1>w DEF WriterTypeOK
    <3>2. writer' = [writer EXCEPT !.pc = "reply", !.outcome = "Ok", !.seen = ver + 1,
                                   !.next = @ + Len(writer.entries)]
      BY <1>3 DEF Commit
    <3>3. QED
      BY <1>t, <3>1, <3>2 DEF WriterTypeOK
  <2>4. QED
    BY <1>3, <1>t, <2>1, <2>2, <2>3 DEF Commit
<1>4. CASE WriteFails
  BY <1>4, <1>t, <1>w, FailType DEF WriteFails, storeVars
<1>5. CASE WriteUnanswered
  <2>1. WriterTypeOK' /\ ReportOK'
    BY <1>5, <1>w, FailType DEF WriteUnanswered
  <2>2. StoreOK'
    BY <1>5, <1>t, <1>w, LandType DEF WriteUnanswered
  <2>3. QED
    BY <1>5, <1>t, <2>1, <2>2 DEF WriteUnanswered
<1>6. CASE Conflict
  <2>1. Len(log) \in Nat
    BY <1>t
  <2>2. WriterTypeOK'
    BY <1>6, <1>t, <2>1 DEF Conflict, WriterTypeOK
  <2>3. QED
    BY <1>6, <1>t, <2>2 DEF Conflict, storeVars
<1>7. CASE Reconcile
  <2>u. UNCHANGED <<queue, reply, storeVars>>
    BY <1>7 DEF Reconcile
  <2>1. CASE Fail("NotApplied", writer.entries)
    BY <1>t, <1>w, <2>u, <2>1, FailType DEF storeVars
  <2>2. ASSUME NEW decide, ReconcileBatch(writer.entries, decide).abort,
               Fail("NotApplied", ReconcileBatch(writer.entries, decide).entries)
        PROVE  Fail("NotApplied", writer.entries)
    BY <1>w, <2>2, ReconcileKeeps
  <2>3. ASSUME NEW r, r.entries \in Seq(Own),
               writer' = [writer EXCEPT !.pc = "cas", !.attempt = @ + 1,
                                        !.entries = r.entries, !.attempted = r.entries],
               UNCHANGED <<stopped, report>>
        PROVE  WriterTypeOK' /\ ReplyOK' /\ ReportOK' /\ QueueOK' /\ StoreOK'
    <3>1. writer.attempt + 1 \in Nat
      BY <1>t DEF WriterTypeOK
    <3>2. WriterTypeOK'
      BY <1>t, <2>3, <3>1 DEF WriterTypeOK
    <3>3. QED
      BY <1>t, <2>u, <2>3, <3>2 DEF storeVars
  <2>4. QED
    BY <1>7, <1>w, <2>1, <2>2, <2>3, ReconcileKeeps DEF Reconcile
<1>8. CASE Reply
  <2>1. CASE writer.ids # << >>
    <3> DEFINE a == Answer(Len(writer.entries) - Len(writer.ids) + 1)
    <3>1. /\ writer.pc = "reply"
          /\ reply' = [reply EXCEPT ![Head(writer.ids)] = Append(@, a)]
          /\ writer' = [writer EXCEPT !.ids = Tail(@)]
      BY <1>8, <2>1 DEF Reply
    <3>2. a \in Good \cup Bad
      <4>1. Len(writer.entries) - Len(writer.ids) + 1 \in Int
        BY <1>w
      <4>2. QED
        BY <1>t, <3>1, <4>1, AnswerType
    <3> HIDE DEF a
    <3>3. Head(writer.ids) \in Id /\ Tail(writer.ids) \in Seq(Id)
      BY <1>w, <2>1
    <3>4. ReplyOK'
      BY <1>t, <3>1, <3>2, <3>3
    <3>5. WriterTypeOK'
      BY <1>t, <3>1, <3>3 DEF WriterTypeOK
    <3>6. QED
      BY <1>8, <1>t, <3>4, <3>5 DEF Reply, storeVars
  <2>2. CASE writer.ids = << >>
    <3>1. /\ writer' = [writer EXCEPT !.pc = "recv", !.entries = << >>, !.attempted = << >>,
                                      !.attempt = 0, !.outcome = "none"]
          /\ UNCHANGED <<queue, reply, report, storeVars>>
      BY <1>8, <2>2 DEF Reply
    <3>2. << >> \in Seq(Own)
      OBVIOUS
    <3>3. WriterTypeOK'
      BY <1>t, <3>1, <3>2 DEF WriterTypeOK
    <3>4. QED
      BY <1>t, <3>1, <3>3 DEF storeVars
  <2>3. QED
    BY <2>1, <2>2
<1>9. CASE Close
  BY <1>9, <1>t DEF Close, storeVars, WriterTypeOK
<1>10. CASE Panic
  <2>1. StoreOK'
    BY <1>10, <1>t, <1>w, LandType DEF Panic
  <2>2. WriterTypeOK'
    BY <1>10, <1>t DEF Panic, WriterTypeOK
  <2>3. QueueOK'
    BY <1>10, QueueAssumption DEF Panic
  <2>4. QED
    BY <1>10, <1>t, <2>1, <2>2, <2>3 DEF Panic
<1>11. QED
  BY <1>1, <1>2, <1>3, <1>4, <1>5, <1>6, <1>7, <1>8, <1>9, <1>10 DEF WriterStep

LEMMA TypeNext == TypeInv /\ [Next]_vars => TypeInv'
<1> SUFFICES ASSUME TypeInv, [Next]_vars PROVE TypeInv'
  OBVIOUS
<1>1. ASSUME NEW p \in Producers, ProducerStep(p) PROVE TypeInv'
  BY <1>1, ProducerType
<1>2. CASE WriterStep
  <2>1. UNCHANGED prodVars
    BY <1>2 DEF WriterStep, Take, StartWrite, Commit, WriteFails, WriteUnanswered,
                Conflict, Reconcile, Reply, Close, Panic
  <2>2. WriterPartsOK'
    BY <1>2, WriterType DEF TypeInv, WriterPartsOK
  <2>3. QED
    BY <2>1, <2>2 DEF TypeInv, WriterPartsOK, prodVars, ProducersOK
<1>3. CASE Other
  <2>1. <<Foreign>> \in Seq(LogEntry) /\ << >> \in Seq(LogEntry)
    BY DEF Foreign, Entry, LogEntry
  <2>2. log' \in Seq(LogEntry) /\ ver' \in Nat
    BY <1>3, <2>1, LandType DEF Other, TypeInv
  <2>3. QED
    BY <1>3, <2>2 DEF Other, TypeInv, prodVars, ProducersOK, WriterTypeOK
<1>4. CASE Late
  <2>1. PICK r \in late : Land(r.seen, r.entries) /\ late' = late \ {r}
    BY <1>4 DEF Late
  <2>2. r.entries \in Seq(LogEntry)
    BY <2>1, OwnSeq DEF TypeInv
  <2>3. log' \in Seq(LogEntry) /\ ver' \in Nat
    BY <2>1, <2>2, LandType DEF TypeInv
  <2>4. QED
    BY <1>4, <2>1, <2>3 DEF Late, TypeInv, prodVars, ProducersOK, WriterTypeOK
<1>5. CASE UNCHANGED vars
  BY <1>5 DEF vars, TypeInv, ProducersOK, WriterTypeOK
<1>6. QED
  BY <1>1, <1>2, <1>3, <1>4, <1>5 DEF Next
-----------------------------------------------------------------------------
(* Sequences of ids and of entries                                           *)

LEMMA TailRange ==
  ASSUME NEW S, NEW s \in Seq(S), s # << >>
  PROVE  /\ Head(s) \in Range(s) /\ Range(s) = {Head(s)} \cup Range(Tail(s))
         /\ IsInjective(s) => IsInjective(Tail(s)) /\ Head(s) \notin Range(Tail(s))
<1> DEFINE t == Tail(s)
<1>1. /\ Len(s) \in Nat \ {0} /\ DOMAIN s = 1 .. Len(s) /\ Head(s) = s[1]
      /\ Len(t) = Len(s) - 1 /\ DOMAIN t = 1 .. Len(t)
      /\ \A i \in 1 .. Len(t) : t[i] = s[i + 1]
  OBVIOUS
<1> HIDE DEF t
<1>2. Head(s) \in Range(s) /\ Range(t) \subseteq Range(s)
  BY <1>1 DEF Range
<1>3. ASSUME NEW x \in Range(s), x # Head(s) PROVE x \in Range(t)
  <2>1. PICK i \in 1 .. Len(s) : x = s[i]
    BY <1>1 DEF Range
  <2>2. i - 1 \in 1 .. Len(t) /\ t[i - 1] = x
    BY <1>1, <1>3, <2>1
  <2>3. QED
    BY <1>1, <2>2 DEF Range
<1>4. ASSUME IsInjective(s) PROVE IsInjective(t) /\ Head(s) \notin Range(t)
  <2>1. \A i \in 1 .. Len(t) : i + 1 \in 1 .. Len(s) /\ i + 1 # 1
    BY <1>1
  <2>2. ASSUME NEW i \in 1 .. Len(t), NEW j \in 1 .. Len(t), t[i] = t[j] PROVE i = j
    <3>1. i + 1 = j + 1
      BY <1>1, <1>4, <2>1, <2>2 DEF IsInjective
    <3>2. QED
      BY <3>1
  <2>3. \A i \in 1 .. Len(t) : t[i] # Head(s)
    BY <1>1, <1>4, <2>1 DEF IsInjective
  <2>4. QED
    BY <1>1, <2>2, <2>3 DEF IsInjective, Range
<1>5. QED
  BY <1>2, <1>3, <1>4 DEF t

LEMMA AppendRange ==
  ASSUME NEW S, NEW s \in Seq(S), NEW e \in S
  PROVE  /\ Range(Append(s, e)) = Range(s) \cup {e}
         /\ IsInjective(s) /\ e \notin Range(s) => IsInjective(Append(s, e))
<1> DEFINE t == Append(s, e)
<1>1. /\ Len(s) \in Nat /\ DOMAIN s = 1 .. Len(s)
      /\ Len(t) = Len(s) + 1 /\ DOMAIN t = 1 .. Len(t)
      /\ t[Len(t)] = e /\ \A i \in 1 .. Len(s) : t[i] = s[i]
  OBVIOUS
<1> HIDE DEF t
<1>2. \A i \in 1 .. Len(t) : i = Len(t) \/ i \in 1 .. Len(s)
  BY <1>1
<1>3. Range(t) = Range(s) \cup {e}
  BY <1>1, <1>2 DEF Range
<1>4. ASSUME IsInjective(s), e \notin Range(s) PROVE IsInjective(t)
  BY <1>1, <1>2, <1>4 DEF IsInjective, Range
<1>5. QED
  BY <1>3, <1>4 DEF t

LEMMA EmptyRange == Range(<< >>) = {} /\ IsInjective(<< >>)
BY DEF Range, IsInjective

LEMMA IdsOfConcat ==
  ASSUME NEW S, NEW s \in Seq(S), NEW t \in Seq(S)
  PROVE  Ids(s \o t) = Ids(s) \cup Ids(t)
<1> DEFINE u == s \o t
<1>1. /\ Len(s) \in Nat /\ DOMAIN s = 1 .. Len(s) /\ Len(t) \in Nat /\ DOMAIN t = 1 .. Len(t)
      /\ DOMAIN u = 1 .. Len(s) + Len(t)
      /\ \A i \in 1 .. Len(s) : u[i] = s[i]
      /\ \A i \in 1 .. Len(s) + Len(t) : i > Len(s) => u[i] = t[i - Len(s)]
  OBVIOUS
<1> HIDE DEF u
<1>2. Ids(u) \subseteq Ids(s) \cup Ids(t)
  <2> SUFFICES ASSUME NEW i \in 1 .. Len(s) + Len(t) PROVE u[i].id \in Ids(s) \cup Ids(t)
    BY <1>1 DEF Ids
  <2>1. CASE i <= Len(s)
    BY <1>1, <2>1 DEF Ids
  <2>2. CASE i > Len(s)
    <3>1. i - Len(s) \in DOMAIN t /\ u[i] = t[i - Len(s)]
      BY <1>1, <2>2
    <3>2. QED
      BY <3>1 DEF Ids
  <2>3. QED
    BY <1>1, <2>1, <2>2
<1>3. Ids(s) \subseteq Ids(u)
  BY <1>1 DEF Ids
<1>4. Ids(t) \subseteq Ids(u)
  <2> SUFFICES ASSUME NEW i \in 1 .. Len(t) PROVE t[i].id \in Ids(u)
    BY <1>1 DEF Ids
  <2>1. Len(s) + i \in DOMAIN u /\ u[Len(s) + i] = t[i]
    BY <1>1
  <2>2. QED
    BY <2>1 DEF Ids
<1>5. QED
  BY <1>2, <1>3, <1>4 DEF u

LEMMA BatchIds ==
  ASSUME NEW ids \in Seq(Id), NEW entries \in Seq(Own), Aligned(ids, entries)
  PROVE  /\ Range(ids) \subseteq Ids(entries)
         /\ Len(ids) = Len(entries) => Ids(entries) = Range(ids)
<1>1. /\ Len(ids) \in Nat /\ DOMAIN ids = 1 .. Len(ids)
      /\ Len(entries) \in Nat /\ DOMAIN entries = 1 .. Len(entries)
  OBVIOUS
<1>2. Len(ids) <= Len(entries)
  BY DEF Aligned
<1>3. ASSUME NEW i \in 1 .. Len(ids) PROVE ids[i] \in Ids(entries)
  <2>1. Len(entries) - Len(ids) + i \in DOMAIN entries
    BY <1>1, <1>2
  <2>2. QED
    BY <2>1 DEF Aligned, Ids
<1>4. ASSUME Len(ids) = Len(entries), NEW i \in 1 .. Len(entries)
      PROVE  entries[i].id = ids[i]
  <2>1. Len(entries) - Len(ids) + i = i
    BY <1>1, <1>4
  <2>2. QED
    BY <1>4, <2>1 DEF Aligned
<1>5. QED
  BY <1>1, <1>3, <1>4 DEF Range, Ids

LEMMA NoEmptyId == << >> \notin Id
BY DEF Id
-----------------------------------------------------------------------------
(* What the steps have in common                                             *)

\* The log only grows.
Grows ==
  /\ Len(log) <= Len(log')
  /\ \A i \in 1 .. Len(log) : log'[i] = log[i]

\* The entries that a step puts into the log or into an unanswered request.
Adds(new) == Reached' \subseteq Reached \cup new

LEMMA SameStore ==
  ASSUME TypeInv, UNCHANGED <<log, late>>
  PROVE  Grows /\ Adds({})
BY DEF TypeInv, Grows, Adds, Reached

LEMMA Landed ==
  ASSUME TypeInv, NEW seen, NEW entries \in Seq(LogEntry), Land(seen, entries), late' \subseteq late
  PROVE  /\ Grows /\ Adds(Ids(entries))
         /\ Len(log') = Len(log) + Len(entries)
         /\ \A i \in 1 .. Len(entries) : log'[Len(log) + i] = entries[i]
<1>1. log \in Seq(LogEntry) /\ log' = log \o entries
  BY DEF TypeInv, Land
<1>2. Ids(log') = Ids(log) \cup Ids(entries)
  BY <1>1, IdsOfConcat
<1>3. Adds(Ids(entries))
  BY <1>2 DEF Adds, Reached
<1>4. Len(log) \in Nat /\ Len(entries) \in Nat
  BY <1>1
<1>5. Len(log') = Len(log) + Len(entries) /\ Grows
  BY <1>1, <1>4 DEF Grows
<1>6. ASSUME NEW i \in 1 .. Len(entries) PROVE log'[Len(log) + i] = entries[i]
  BY <1>1
<1>7. QED
  BY <1>3, <1>5, <1>6

LEMMA AnswersGrow ==
  ASSUME TypeInv, TypeInv', AnswersOK, Grows, UNCHANGED reply
  PROVE  AnswersOK'
<1>1. DOMAIN log \subseteq DOMAIN log' /\ \A i \in DOMAIN log : log'[i] = log[i]
  <2>1. log \in Seq(LogEntry) /\ log' \in Seq(LogEntry)
    BY DEF TypeInv
  <2>2. QED
    BY <2>1 DEF Grows
<1>2. QED
  BY <1>1 DEF AnswersOK

LEMMA RangeGrows ==
  ASSUME TypeInv, TypeInv', RangeOK, Grows,
         writer'.pc = "reply" /\ writer'.outcome = "Ok" =>
           /\ writer.pc = "reply" /\ writer.outcome = "Ok"
           /\ writer'.entries = writer.entries /\ writer'.next = writer.next
  PROVE  RangeOK'
<1> SUFFICES ASSUME writer'.pc = "reply", writer'.outcome = "Ok"
             PROVE  /\ Len(writer'.entries) <= writer'.next /\ writer'.next <= Len(log')
                    /\ \A i \in 1 .. Len(writer'.entries) :
                         log'[writer'.next - Len(writer'.entries) + i].id = writer'.entries[i].id
  BY DEF RangeOK
<1> DEFINE n == writer.next
           m == Len(writer.entries)
<1>1. /\ n \in Nat /\ m \in Nat /\ Len(log) \in Nat /\ Len(log') \in Nat
      /\ m <= n /\ n <= Len(log) /\ Len(log) <= Len(log')
      /\ \A i \in 1 .. m : log[n - m + i].id = writer.entries[i].id
  BY DEF RangeOK, Grows, TypeInv, WriterTypeOK
<1> HIDE DEF n, m
<1>2. \A i \in 1 .. m : n - m + i \in 1 .. Len(log)
  BY <1>1
<1>3. n <= Len(log') /\ \A i \in 1 .. m : log'[n - m + i].id = writer.entries[i].id
  BY <1>1, <1>2 DEF Grows
<1>4. QED
  BY <1>1, <1>3 DEF n, m

\* An accepted entry stays where it is; requests may be dropped with the queue.
LEMMA PlacesStay ==
  ASSUME TypeInv, PlacesOK, UNCHANGED <<reply, accepted>>, writer'.ids = writer.ids,
         queue' \in {queue, << >>}, Receiving' => Receiving /\ queue' = queue,
         Adds(Range(writer.ids) \cup {<< >>})
  PROVE  PlacesOK'
<1>1. Told' = Told /\ Accepted' = Accepted
  BY DEF Told, Accepted
<1>2. Range(queue') \subseteq Range(queue) /\ IsInjective(queue')
  BY EmptyRange DEF PlacesOK
<1>3. Reached' \cap Id \subseteq Accepted
  BY NoEmptyId DEF Adds, PlacesOK
<1>4. Receiving' => Range(queue') = Range(queue) /\ Receiving
  OBVIOUS
<1>5. Range(writer'.ids) = Range(writer.ids) /\ IsInjective(writer'.ids)
  BY DEF PlacesOK
<1> DEFINE Q == Range(queue)
           R == Range(queue')
           W == Range(writer.ids)
<1>6. /\ R \cap W = {} /\ R \cap Told = {} /\ W \cap Told = {}
      /\ R \cup W \cup Told \cup (Reached' \cap Id) \subseteq Accepted
      /\ Receiving' => Accepted \subseteq R \cup W \cup Told
  BY <1>2, <1>3, <1>4 DEF PlacesOK
<1>7. QED
  BY <1>1, <1>2, <1>5, <1>6 DEF PlacesOK

LEMMA DenialsStay ==
  ASSUME PlacesOK, DenialsOK, UNCHANGED reply, NEW new, Adds(new),
         Range(queue') \subseteq Range(queue),
         Risk' \subseteq Risk,
         (Range(queue) \cup Risk' \cup Denied) \cap new = {}
  PROVE  DenialsOK'
<1>1. Denied' = Denied
  BY DEF Denied
<1>2. QED
  BY <1>1 DEF DenialsOK, Adds

LEMMA DeniedIsTold == Denied \subseteq Told
BY DEF Denied, Told, Range

LEMMA NumbersStay ==
  ASSUME TypeInv, TypeInv', NumbersOK, UNCHANGED accepted,
         \A q \in Producers : prod[q].n <= prod'[q].n
  PROVE  NumbersOK'
<1> SUFFICES ASSUME NEW q \in Producers, NEW id \in Range(accepted[q])
             PROVE  id[1] = q /\ id[2] <= prod'[q].n
  BY DEF NumbersOK
<1>1. prod[q].n \in Nat /\ prod'[q].n \in Nat
  BY DEF TypeInv, ProducersOK
<1>2. id \in Id
  BY RangeOfSeq DEF TypeInv, ProducersOK
<1>3. id[2] \in Nat
  BY <1>2, ProducerAssumption DEF Id
<1>4. id[1] = q /\ id[2] <= prod[q].n
  BY DEF NumbersOK
<1>5. QED
  BY <1>1, <1>3, <1>4

\* A producer puts one new entry into the channel, or only moves on.
LEMMA ProducerMoves ==
  ASSUME TypeInv, NEW p \in Producers, ProducerStep(p)
  PROVE  \/ prod[p].pc \in {"try", "full", "send"} /\ Enqueue(p)
         \/ /\ UNCHANGED <<queue, accepted>>
            /\ \A q \in Producers : prod[q].n <= prod'[q].n
<1> DEFINE Moves == /\ UNCHANGED <<queue, accepted>>
                    /\ \A q \in Producers : prod[q].n <= prod'[q].n
           Rec == [pc : {"idle", "try", "full", "send", "wait", "done"},
                   n : Nat, pending : Seq(Id)]
<1>0. prod \in [Producers -> Rec] /\ \A q \in Producers : prod[q].n \in Nat
  BY DEF TypeInv, ProducersOK
<1>1. Leave(p) /\ UNCHANGED <<queue, accepted>> => Moves
  BY <1>0 DEF Leave
<1>2. \A next : prod' = [prod EXCEPT ![p].pc = next] /\ UNCHANGED <<queue, accepted>> => Moves
  BY <1>0
<1>3. /\ prod' = [prod EXCEPT ![p].pc = "idle", ![p].pending = Tail(@)]
      /\ UNCHANGED <<queue, accepted>>
      => Moves
  BY <1>0
<1>4. Rejected(p) => Moves
  <2>1. /\ prod' = [prod EXCEPT ![p].pc = "idle", ![p].n = @ + 1]
        /\ UNCHANGED <<queue, accepted>>
        => Moves
    BY <1>0
  <2>2. QED
    BY <1>1, <2>1 DEF Rejected
<1> HIDE DEF Moves
<1>5. \A next : Prepare(p, next) => Moves
  BY <1>2, <1>4 DEF Prepare
<1>6. CASE StartSubmit(p) \/ FallBack(p)
  BY <1>5, <1>6 DEF StartSubmit, FallBack, Moves
<1>7. CASE TrySend(p)
  BY <1>2, <1>4, <1>7 DEF TrySend, Moves
<1>8. CASE Send(p)
  BY <1>4, <1>8 DEF Send, Moves
<1>9. CASE Receive(p)
  BY <1>1, <1>3, <1>9 DEF Receive, Moves
<1>10. CASE Finish(p)
  BY <1>1, <1>10 DEF Finish, Moves
<1>11. QED
  BY <1>6, <1>7, <1>8, <1>9, <1>10 DEF ProducerStep
-----------------------------------------------------------------------------
(* Each step keeps the answers true                                          *)

LEMMA TruthInit == Init => TruthInv
<1> SUFFICES ASSUME Init PROVE TruthInv
  OBVIOUS
<1>1. BatchOK /\ ViewOK /\ RangeOK
  <2>1. writer.pc = "recv" /\ writer.ids = << >> /\ writer.entries = << >>
        /\ writer.attempt = 0 /\ writer.seen = 0 /\ writer.next = 0 /\ ver = 0 /\ log = << >>
    BY DEF Init
  <2>2. Aligned(<< >>, << >>) /\ Len(<< >>) = 0
    BY DEF Aligned
  <2>3. QED
    BY <2>1, <2>2, BatchAssumption DEF BatchOK, ViewOK, RangeOK
<1>2. queue = << >> /\ writer.ids = << >> /\ log = << >> /\ late = {}
  BY DEF Init
<1>3. Told = {} /\ Denied = {} /\ Accepted = {} /\ AnswersOK /\ NumbersOK
  <2>1. (\A id \in Id : reply[id] = << >>) /\ \A p \in Producers : accepted[p] = << >>
    BY DEF Init
  <2>2. QED
    BY <2>1, EmptyRange DEF Told, Denied, Accepted, AnswersOK, NumbersOK
<1>4. Reached = {} /\ Range(queue) = {} /\ Range(writer.ids) = {} /\ Risk = {}
  BY <1>2, EmptyRange DEF Reached, Ids, Risk
<1>5. PlacesOK
  BY <1>2, <1>3, <1>4, EmptyRange DEF PlacesOK
<1>6. DenialsOK
  BY <1>4 DEF DenialsOK
<1>7. QED
  BY <1>1, <1>3, <1>5, <1>6 DEF TruthInv

LEMMA MoveTruth ==
  ASSUME TypeInv, TypeInv', TruthInv, UNCHANGED <<queue, accepted, reply, writer, log, ver, late>>,
         \A q \in Producers : prod[q].n <= prod'[q].n
  PROVE  TruthInv'
<1>1. NumbersOK'
  BY NumbersStay DEF TruthInv
<1>2. PlacesOK' /\ DenialsOK'
  BY DEF TruthInv, PlacesOK, DenialsOK, Told, Reached, Accepted, Receiving, Risk, Denied
<1>3. BatchOK' /\ ViewOK' /\ RangeOK' /\ AnswersOK'
  BY DEF TruthInv, BatchOK, ViewOK, RangeOK, AnswersOK
<1>4. QED
  BY <1>1, <1>2, <1>3 DEF TruthInv

\* The new id is nobody's yet: a producer's ids are below its counter.
LEMMA EnqueueTruth ==
  ASSUME TypeInv, TypeInv', TruthInv, NEW p \in Producers,
         prod[p].pc \in {"try", "full", "send"}, Enqueue(p),
         UNCHANGED <<reply, writer, log, ver, late>>
  PROVE  TruthInv'
<1> DEFINE new == <<p, prod[p].n + 1>>
<1>1. new \in Id /\ new[1] = p /\ new[2] = prod[p].n + 1
  BY NewId DEF TypeInv
<1>2. /\ Receiving
      /\ queue' = Append(queue, new)
      /\ accepted' = [accepted EXCEPT ![p] = Append(@, new)]
      /\ prod'[p].n = prod[p].n + 1
      /\ \A q \in Producers : q # p => prod'[q] = prod[q]
  BY DEF Enqueue, TypeInv, ProducersOK
<1>3. new \notin Accepted
  <2> SUFFICES ASSUME NEW q \in Producers, new \in Range(accepted[q]) PROVE FALSE
    BY DEF Accepted
  <2>1. new[1] = q /\ new[2] <= prod[q].n
    BY DEF TruthInv, NumbersOK
  <2>2. prod[p].n \in Nat
    BY DEF TypeInv, ProducersOK
  <2>3. QED
    BY <1>1, <2>1, <2>2
<1> HIDE DEF new
<1>4. queue \in Seq(Id) /\ accepted \in [Producers -> Seq(Id)]
  BY DEF TypeInv, ProducersOK
<1>5. /\ Range(queue') = Range(queue) \cup {new}
      /\ IsInjective(queue) /\ new \notin Range(queue) => IsInjective(queue')
  BY <1>1, <1>2, <1>4, AppendRange
<1>6. \A q \in Producers : Range(accepted'[q]) = IF q = p THEN Range(accepted[q]) \cup {new}
                                                          ELSE Range(accepted[q])
  <2>1. Range(Append(accepted[p], new)) = Range(accepted[p]) \cup {new}
    BY <1>1, <1>4, AppendRange
  <2>2. \A q \in Producers : accepted'[q] = IF q = p THEN Append(accepted[p], new) ELSE accepted[q]
    BY <1>2, <1>4
  <2>3. QED
    BY <2>1, <2>2
<1>7. Accepted' = Accepted \cup {new}
  BY <1>1, <1>6 DEF Accepted
<1>8. Told' = Told /\ Reached' = Reached /\ Denied' = Denied /\ Risk' = Risk
  BY DEF Told, Reached, Denied, Risk
<1>9. NumbersOK'
  <2> SUFFICES ASSUME NEW q \in Producers, NEW id \in Range(accepted'[q])
               PROVE  id[1] = q /\ id[2] <= prod'[q].n
    BY DEF NumbersOK
  <2>1. CASE id \in Range(accepted[q])
    <3>1. id \in Id
      BY <1>4, <2>1, RangeOfSeq
    <3>2. id[2] \in Nat /\ prod[q].n \in Nat
      <4>1. id[2] \in Nat
        BY <3>1, ProducerAssumption DEF Id
      <4>2. QED
        BY <4>1 DEF TypeInv, ProducersOK
    <3>3. id[1] = q /\ id[2] <= prod[q].n
      BY <2>1 DEF TruthInv, NumbersOK
    <3>4. QED
      BY <1>2, <3>2, <3>3
  <2>2. CASE q = p /\ id = new
    <3>1. prod[p].n \in Nat
      BY DEF TypeInv, ProducersOK
    <3>2. QED
      BY <1>1, <1>2, <2>2, <3>1
  <2>3. QED
    BY <1>6, <2>1, <2>2
<1>10. /\ new \notin Range(queue) /\ new \notin Range(writer.ids)
       /\ new \notin Told /\ new \notin Reached
  BY <1>1, <1>3 DEF TruthInv, PlacesOK
<1>11. PlacesOK'
  <2>1. writer' = writer /\ IsInjective(queue') /\ (Receiving' => Receiving)
    BY <1>5, <1>10 DEF TruthInv, PlacesOK, Receiving
  <2> DEFINE Q == Range(queue)
             W == Range(writer.ids)
  <2>2. /\ (Q \cup {new}) \cap W = {} /\ (Q \cup {new}) \cap Told = {} /\ W \cap Told = {}
        /\ (Q \cup {new}) \cup W \cup Told \cup (Reached \cap Id) \subseteq Accepted \cup {new}
        /\ Accepted \cup {new} \subseteq (Q \cup {new}) \cup W \cup Told
    BY <1>2, <1>10 DEF TruthInv, PlacesOK
  <2>3. IsInjective(writer.ids)
    BY DEF TruthInv, PlacesOK
  <2>4. QED
    BY <1>5, <1>7, <1>8, <2>1, <2>2, <2>3 DEF PlacesOK
<1>12. DenialsOK'
  BY <1>5, <1>8, <1>10 DEF TruthInv, DenialsOK
<1>13. BatchOK' /\ ViewOK' /\ RangeOK' /\ AnswersOK'
  BY DEF TruthInv, BatchOK, ViewOK, RangeOK, AnswersOK
<1>14. QED
  BY <1>9, <1>11, <1>12, <1>13 DEF TruthInv

LEMMA TakeTruth ==
  ASSUME TypeInv, TypeInv', TruthInv, Take
  PROVE  TruthInv'
<1> DEFINE h == Head(queue)
<1>1. /\ queue # << >> /\ queue' = Tail(queue)
      /\ \/ writer.pc = "recv"
         \/ writer.pc = "fill" /\ Len(writer.ids) < MaxBatch
      /\ writer' = [writer EXCEPT !.pc = "fill", !.ids = Append(@, h),
                                  !.entries = Append(@, Entry(h, 0))]
      /\ UNCHANGED <<prod, accepted, reply, log, ver, late>>
  BY DEF Take, prodVars, storeVars
<1>2. queue \in Seq(Id) /\ writer.ids \in Seq(Id) /\ writer.entries \in Seq(Own) /\ h \in Id
  <2>1. queue \in Seq(Id) /\ writer.ids \in Seq(Id) /\ writer.entries \in Seq(Own)
    BY DEF TypeInv, WriterTypeOK
  <2>2. QED
    BY <1>1, <2>1
<1>3. /\ writer'.pc = "fill" /\ writer'.ids = Append(writer.ids, h)
      /\ writer'.entries = Append(writer.entries, Entry(h, 0))
      /\ writer'.attempt = writer.attempt /\ writer'.seen = writer.seen
      /\ writer'.next = writer.next
  BY <1>1 DEF TypeInv, WriterTypeOK
<1>4. Entry(h, 0) \in Own /\ Entry(h, 0).id = h
  BY <1>2 DEF Entry, Own
<1> HIDE DEF h
<1>5. BatchOK'
  <2>1. /\ Len(writer.ids) = Len(writer.entries) /\ writer.attempt = 0
        /\ Len(writer.ids) < MaxBatch /\ Aligned(writer.ids, writer.entries)
    <3>1. CASE writer.pc = "recv"
      BY <3>1, BatchAssumption DEF TruthInv, BatchOK
    <3>2. CASE writer.pc = "fill" /\ Len(writer.ids) < MaxBatch
      BY <3>2 DEF TruthInv, BatchOK
    <3>3. QED
      BY <1>1, <3>1, <3>2
  <2> DEFINE n == Len(writer.ids)
  <2>2. /\ n \in Nat /\ Len(writer'.ids) = n + 1 /\ Len(writer'.entries) = n + 1
        /\ \A i \in 1 .. n : writer'.ids[i] = writer.ids[i] /\ writer'.entries[i] = writer.entries[i]
        /\ writer'.ids[n + 1] = h /\ writer'.entries[n + 1].id = h
    BY <1>2, <1>3, <1>4, <2>1
  <2>3. \A i \in 1 .. n : writer.entries[i].id = writer.ids[i]
    BY <2>1, <2>2 DEF Aligned
  <2> HIDE DEF n
  <2>4. Aligned(writer'.ids, writer'.entries)
    BY <2>2, <2>3 DEF Aligned
  <2>5. Len(writer'.ids) <= MaxBatch
    BY <2>1, <2>2, BatchAssumption DEF n
  <2>6. QED
    BY <1>3, <2>1, <2>2, <2>4, <2>5 DEF BatchOK
<1>6. /\ Range(queue) = {h} \cup Range(queue') /\ h \notin Range(queue')
      /\ IsInjective(queue') /\ Range(writer'.ids) = Range(writer.ids) \cup {h}
      /\ h \notin Range(writer.ids) /\ IsInjective(writer'.ids)
  BY <1>1, <1>2, <1>3, TailRange, AppendRange DEF TruthInv, PlacesOK, h
<1>7. Told' = Told /\ Reached' = Reached /\ Denied' = Denied /\ Accepted' = Accepted
  BY <1>1 DEF Told, Reached, Denied, Accepted
<1>8. PlacesOK'
  <2>1. Receiving
    BY <1>1 DEF Receiving
  <2>2. /\ Range(queue') \cap Range(writer'.ids) = {}
        /\ Range(queue') \cap Told = {} /\ Range(writer'.ids) \cap Told = {}
        /\ Range(queue') \cup Range(writer'.ids) = Range(queue) \cup Range(writer.ids)
    BY <1>6 DEF TruthInv, PlacesOK
  <2>3. QED
    BY <1>6, <1>7, <2>1, <2>2 DEF TruthInv, PlacesOK
<1>9. DenialsOK'
  <2>1. Risk' \subseteq Range(writer.ids) \cup {h}
    BY <1>6 DEF Risk
  <2>2. Range(writer.ids) \subseteq Risk
    <3>1. CASE writer.pc = "recv"
      BY <3>1, EmptyRange DEF TruthInv, BatchOK
    <3>2. CASE writer.pc = "fill"
      BY <3>2 DEF Risk
    <3>3. QED
      BY <1>1, <3>1, <3>2
  <2>3. QED
    BY <1>6, <1>7, <2>1, <2>2 DEF TruthInv, DenialsOK
<1>10. NumbersOK' /\ AnswersOK'
  BY <1>1 DEF TruthInv, NumbersOK, AnswersOK
<1>11. ViewOK' /\ RangeOK'
  BY <1>1, <1>3 DEF TruthInv, ViewOK, RangeOK
<1>12. QED
  BY <1>5, <1>8, <1>9, <1>10, <1>11 DEF TruthInv

\* A batch that changes hands: its receipts stay, its entries keep their ids,
\* and what may be denied was deniable before and is not in what lands.
BatchSteps(new) ==
  /\ UNCHANGED <<prod, accepted, reply, queue>>
  /\ writer'.ids = writer.ids
  /\ Receiving' => Receiving
  /\ Grows /\ Adds(new)
  /\ Risk' \subseteq Risk

LEMMA BatchStepTruth ==
  ASSUME TypeInv, TypeInv', TruthInv, NEW new \in SUBSET (Range(writer.ids) \cup {<< >>}),
         BatchSteps(new), Risk' \cap new = {}
  PROVE  NumbersOK' /\ PlacesOK' /\ AnswersOK' /\ DenialsOK'
<1>1. NumbersOK'
  BY DEF BatchSteps, TruthInv, NumbersOK
<1>2. PlacesOK'
  <2>1. Adds(Range(writer.ids) \cup {<< >>})
    BY DEF BatchSteps, Adds
  <2>2. QED
    BY <2>1, PlacesStay DEF BatchSteps, TruthInv
<1>3. AnswersOK'
  BY AnswersGrow DEF BatchSteps, TruthInv
<1>4. DenialsOK'
  <2>1. Range(queue) \subseteq Id /\ Denied \subseteq Id
    <3>1. queue \in Seq(Id)
      BY DEF TypeInv
    <3>2. QED
      BY <3>1, RangeOfSeq DEF Denied
  <2>2. Range(queue) \cap Range(writer.ids) = {} /\ Denied \cap Range(writer.ids) = {}
    BY DeniedIsTold DEF TruthInv, PlacesOK
  <2>3. (Range(queue) \cup Risk' \cup Denied) \cap new = {}
    BY <2>1, <2>2, NoEmptyId
  <2>4. QED
    BY <2>3, DenialsStay DEF BatchSteps, TruthInv
<1>5. QED
  BY <1>1, <1>2, <1>3, <1>4

\* The error arm answers the batch that was attempted.
LEMMA FailFields ==
  ASSUME TypeInv, NEW outcome, NEW entries, Fail(outcome, entries)
  PROVE  /\ writer'.pc = "reply" /\ writer'.outcome = outcome /\ writer'.entries = entries
         /\ writer'.ids = writer.ids /\ writer'.attempt = writer.attempt
         /\ writer'.attempted = writer.attempted
         /\ writer'.seen = writer.seen /\ writer'.next = writer.next
BY DEF TypeInv, WriterTypeOK, Fail

LEMMA FailTruth ==
  ASSUME TypeInv, TypeInv', TruthInv, writer.pc \in {"fill", "cas", "conflict"},
         NEW outcome \in {"NotApplied", "Unknown"}, Fail(outcome, writer.entries)
  PROVE  /\ BatchOK' /\ RangeOK' /\ Receiving
         /\ Range(writer.ids) = Risk /\ Risk' = IF outcome = "NotApplied" THEN Risk ELSE {}
<1>1. BatchOK'
  <2>1. writer.attempt > 0 => writer.entries = writer.attempted
    BY DEF TruthInv, BatchOK
  <2>2. QED
    BY <2>1, FailFields DEF TruthInv, BatchOK
<1>2. RangeOK'
  BY FailFields DEF RangeOK
<1>3. Risk = Range(writer.ids)
  BY DEF Risk
<1>4. Risk' = IF outcome = "NotApplied" THEN Risk ELSE {}
  BY <1>3, FailFields DEF Risk
<1>5. Receiving
  BY DEF Receiving
<1>6. QED
  BY <1>1, <1>2, <1>3, <1>4, <1>5

\* Nothing of a batch that fails before its answer reaches the store.
LEMMA NotAppliedTruth ==
  ASSUME TypeInv, TypeInv', TruthInv, writer.pc \in {"fill", "cas", "conflict"},
         Fail("NotApplied", writer.entries), UNCHANGED <<prodVars, queue, reply, storeVars>>
  PROVE  TruthInv'
<1>1. BatchOK' /\ RangeOK' /\ Receiving /\ Risk' = Risk
  BY FailTruth
<1>2. UNCHANGED <<prod, accepted, reply, queue, log, ver, late>>
  BY DEF prodVars, storeVars
<1>3. Grows /\ Adds({})
  BY <1>2, SameStore
<1>4. BatchSteps({})
  BY <1>1, <1>2, <1>3, FailFields DEF BatchSteps
<1>5. NumbersOK' /\ PlacesOK' /\ AnswersOK' /\ DenialsOK'
  BY <1>4, BatchStepTruth
<1>6. ViewOK'
  BY <1>2, FailFields DEF TruthInv, ViewOK
<1>7. QED
  BY <1>1, <1>5, <1>6 DEF TruthInv

LEMMA StartWriteTruth ==
  ASSUME TypeInv, TypeInv', TruthInv, StartWrite
  PROVE  TruthInv'
<1>1. writer.pc = "fill" /\ UNCHANGED <<prodVars, queue, reply, storeVars>>
  BY DEF StartWrite
<1>2. CASE Fail("NotApplied", writer.entries)
  BY <1>1, <1>2, NotAppliedTruth
<1>3. CASE writer' = [writer EXCEPT !.pc = "cas", !.attempt = 1, !.attempted = writer.entries]
  <2>1. /\ writer'.pc = "cas" /\ writer'.ids = writer.ids /\ writer'.entries = writer.entries
        /\ writer'.attempt = 1 /\ writer'.attempted = writer.entries
        /\ writer'.seen = writer.seen /\ writer'.next = writer.next
    BY <1>3 DEF TypeInv, WriterTypeOK
  <2>2. UNCHANGED <<prod, accepted, reply, queue, log, ver, late>>
    BY <1>1 DEF prodVars, storeVars
  <2>3. Risk' = Risk /\ Receiving
    BY <1>1, <2>1 DEF Risk, Receiving
  <2>4. BatchSteps({})
    BY <2>1, <2>2, <2>3, SameStore DEF BatchSteps
  <2>5. NumbersOK' /\ PlacesOK' /\ AnswersOK' /\ DenialsOK'
    BY <2>4, BatchStepTruth
  <2>6. BatchOK'
    BY <1>1, <2>1 DEF TruthInv, BatchOK
  <2>7. ViewOK' /\ RangeOK'
    BY <2>1, <2>2 DEF TruthInv, ViewOK, RangeOK
  <2>8. QED
    BY <2>5, <2>6, <2>7 DEF TruthInv
<1>4. QED
  BY <1>2, <1>3 DEF StartWrite

\* The batch in flight is the set of its receipts.
LEMMA InFlight ==
  ASSUME TypeInv, TruthInv, writer.pc \in {"cas", "conflict"}
  PROVE  /\ writer.entries \in Seq(Own) /\ writer.entries \in Seq(LogEntry)
         /\ writer.ids \in Seq(Id) /\ Ids(writer.entries) = Range(writer.ids)
<1>1. writer.ids \in Seq(Id) /\ writer.entries \in Seq(Own)
  BY DEF TypeInv, WriterTypeOK
<1>2. Aligned(writer.ids, writer.entries) /\ Len(writer.ids) = Len(writer.entries)
  BY DEF TruthInv, BatchOK
<1>3. QED
  BY <1>1, <1>2, BatchIds, OwnSeq

LEMMA CommitTruth ==
  ASSUME TypeInv, TypeInv', TruthInv, Commit
  PROVE  TruthInv'
<1>1. /\ writer.pc = "cas" /\ Land(writer.seen, writer.entries)
      /\ UNCHANGED <<prod, accepted, queue, reply, late>>
  BY DEF Commit, prodVars
<1>2. /\ writer'.pc = "reply" /\ writer'.outcome = "Ok" /\ writer'.ids = writer.ids
      /\ writer'.entries = writer.entries /\ writer'.attempted = writer.attempted
      /\ writer'.attempt = writer.attempt
      /\ writer'.seen = ver + 1 /\ writer'.next = writer.next + Len(writer.entries)
  BY DEF Commit, TypeInv, WriterTypeOK
<1>3. Ids(writer.entries) = Range(writer.ids) /\ writer.entries \in Seq(LogEntry)
  BY <1>1, InFlight
<1>4. /\ Grows /\ Adds(Ids(writer.entries))
      /\ Len(log') = Len(log) + Len(writer.entries)
      /\ \A i \in 1 .. Len(writer.entries) : log'[Len(log) + i] = writer.entries[i]
  BY <1>1, <1>3, Landed
<1>5. Risk' = {} /\ Receiving
  BY <1>1, <1>2 DEF Risk, Receiving
<1>6. BatchSteps(Range(writer.ids))
  BY <1>1, <1>2, <1>3, <1>4, <1>5 DEF BatchSteps
<1>7. NumbersOK' /\ PlacesOK' /\ AnswersOK' /\ DenialsOK'
  BY <1>5, <1>6, BatchStepTruth
<1>8. BatchOK'
  BY <1>1, <1>2 DEF TruthInv, BatchOK
<1>9. writer.next = Len(log) /\ ver' = ver + 1
  BY <1>1 DEF Land, TruthInv, ViewOK
<1>10. ver \in Nat /\ Len(log) \in Nat /\ Len(writer.entries) \in Nat
  BY <1>3 DEF TypeInv
<1>11. ViewOK'
  BY <1>2, <1>4, <1>9, <1>10 DEF ViewOK
<1>12. RangeOK'
  <2> DEFINE m == Len(writer.entries)
             n == Len(log)
  <2>1. m \in Nat /\ n \in Nat /\ \A i \in 1 .. m : (n + m) - m + i = n + i
    BY <1>10
  <2> HIDE DEF m, n
  <2>2. m <= n + m /\ \A i \in 1 .. m : log'[(n + m) - m + i].id = writer.entries[i].id
    BY <1>4, <2>1 DEF m, n
  <2>3. writer'.next = n + m /\ Len(writer'.entries) = m /\ Len(log') = n + m
    BY <1>2, <1>4, <1>9 DEF m, n
  <2>4. QED
    BY <1>2, <2>1, <2>2, <2>3 DEF RangeOK
<1>13. QED
  BY <1>7, <1>8, <1>11, <1>12 DEF TruthInv

\* An unanswered batch is never denied, so it may land now, later or never.
LEMMA WriteUnansweredTruth ==
  ASSUME TypeInv, TypeInv', TruthInv, WriteUnanswered
  PROVE  TruthInv'
<1>1. /\ writer.pc = "cas" /\ Fail("Unknown", writer.entries)
      /\ UNCHANGED <<prod, accepted, queue, reply>>
  BY DEF WriteUnanswered, prodVars
<1>2. BatchOK' /\ RangeOK' /\ Receiving /\ Risk' = {}
  BY <1>1, FailTruth
<1>3. Ids(writer.entries) = Range(writer.ids) /\ writer.entries \in Seq(LogEntry)
  BY <1>1, InFlight
<1>4. writer'.ids = writer.ids /\ writer'.seen = writer.seen /\ writer'.next = writer.next
  BY <1>1, FailFields
<1>5. ver \in Nat /\ writer.seen \in Nat
  BY DEF TypeInv, WriterTypeOK
<1>6. Grows /\ Adds(Range(writer.ids)) /\ ViewOK'
  <2>1. CASE Land(writer.seen, writer.entries) /\ UNCHANGED late
    <3>1. Grows /\ Adds(Ids(writer.entries))
      BY <1>3, <2>1, Landed
    <3>2. ViewOK'
      BY <1>4, <1>5, <2>1 DEF ViewOK, Land
    <3>3. QED
      BY <1>3, <3>1, <3>2
  <2>2. CASE /\ late' = late \cup {[seen |-> writer.seen, entries |-> writer.entries]}
             /\ UNCHANGED <<log, ver>>
    <3>1. Adds(Ids(writer.entries))
      BY <2>2 DEF Adds, Reached
    <3>2. Grows
      BY <2>2 DEF Grows, TypeInv
    <3>3. ViewOK'
      BY <1>4, <2>2 DEF ViewOK, TruthInv
    <3>4. QED
      BY <1>3, <3>1, <3>2, <3>3
  <2>3. QED
    BY <2>1, <2>2 DEF WriteUnanswered
<1>7. BatchSteps(Range(writer.ids))
  BY <1>1, <1>2, <1>4, <1>6 DEF BatchSteps
<1>8. NumbersOK' /\ PlacesOK' /\ AnswersOK' /\ DenialsOK'
  BY <1>2, <1>7, BatchStepTruth
<1>9. QED
  BY <1>2, <1>6, <1>8 DEF TruthInv

LEMMA ConflictTruth ==
  ASSUME TypeInv, TypeInv', TruthInv, Conflict
  PROVE  TruthInv'
<1>1. writer.pc = "cas" /\ UNCHANGED <<prod, accepted, queue, reply, log, ver, late>>
  BY DEF Conflict, prodVars, storeVars
<1>2. /\ writer'.pc = "conflict" /\ writer'.ids = writer.ids /\ writer'.entries = writer.entries
      /\ writer'.attempted = writer.attempted /\ writer'.seen = ver /\ writer'.next = Len(log)
  BY DEF Conflict, TypeInv, WriterTypeOK
<1>3. Risk' = Risk /\ Receiving
  BY <1>1, <1>2 DEF Risk, Receiving
<1>4. BatchSteps({})
  BY <1>1, <1>2, <1>3, SameStore DEF BatchSteps
<1>5. NumbersOK' /\ PlacesOK' /\ AnswersOK' /\ DenialsOK'
  BY <1>4, BatchStepTruth
<1>6. BatchOK'
  BY <1>1, <1>2 DEF TruthInv, BatchOK
<1>7. ViewOK' /\ RangeOK'
  BY <1>1, <1>2 DEF TypeInv, ViewOK, RangeOK
<1>8. QED
  BY <1>5, <1>6, <1>7 DEF TruthInv

LEMMA ReconcileTruth ==
  ASSUME TypeInv, TypeInv', TruthInv, Reconcile
  PROVE  TruthInv'
<1>1. writer.pc = "conflict" /\ UNCHANGED <<prodVars, queue, reply, storeVars>>
  BY DEF Reconcile
<1>2. writer.entries \in Seq(Own)
  BY DEF TypeInv, WriterTypeOK
<1>3. CASE Fail("NotApplied", writer.entries)
  BY <1>1, <1>3, NotAppliedTruth
<1>4. ASSUME NEW decide, ReconcileBatch(writer.entries, decide).abort,
             Fail("NotApplied", ReconcileBatch(writer.entries, decide).entries)
      PROVE  Fail("NotApplied", writer.entries)
  BY <1>2, <1>4, ReconcileKeeps
<1>5. ASSUME NEW decide, NEW new, new = ReconcileBatch(writer.entries, decide).entries,
             writer' = [writer EXCEPT !.pc = "cas", !.attempt = @ + 1,
                                      !.entries = new, !.attempted = new]
      PROVE  TruthInv'
  <2>1. /\ writer'.pc = "cas" /\ writer'.ids = writer.ids /\ writer'.entries = new
        /\ writer'.attempted = new /\ writer'.seen = writer.seen /\ writer'.next = writer.next
    BY <1>5 DEF TypeInv, WriterTypeOK
  <2>2. UNCHANGED <<prod, accepted, reply, queue, log, ver, late>>
    BY <1>1 DEF prodVars, storeVars
  <2>3. Risk' = Risk /\ Receiving
    BY <1>1, <2>1 DEF Risk, Receiving
  <2>4. BatchSteps({})
    BY <2>1, <2>2, <2>3, SameStore DEF BatchSteps
  <2>5. NumbersOK' /\ PlacesOK' /\ AnswersOK' /\ DenialsOK'
    BY <2>4, BatchStepTruth
  <2>6. BatchOK'
    <3>1. /\ Len(new) = Len(writer.entries)
          /\ \A i \in 1 .. Len(writer.entries) : new[i].id = writer.entries[i].id
      BY <1>2, <1>5, ReconcileKeeps
    <3>2. /\ Len(writer.ids) = Len(writer.entries) /\ Aligned(writer.ids, writer.entries)
          /\ Len(writer.ids) <= MaxBatch
      BY <1>1 DEF TruthInv, BatchOK
    <3>3. Len(writer.entries) \in Nat
      BY <1>2
    <3>4. Aligned(writer.ids, new)
      BY <3>1, <3>2, <3>3 DEF Aligned
    <3>5. QED
      BY <2>1, <3>1, <3>2, <3>4 DEF BatchOK
  <2>7. ViewOK' /\ RangeOK'
    BY <2>1, <2>2 DEF TruthInv, ViewOK, RangeOK
  <2>8. QED
    BY <2>5, <2>6, <2>7 DEF TruthInv
<1>6. QED
  BY <1>3, <1>4, <1>5 DEF Reconcile

\* The answer that the oldest open receipt of the batch gets.
LEMMA AnswerTrue ==
  ASSUME TypeInv, TruthInv, writer.pc = "reply", writer.ids # << >>,
         NEW a, a = Answer(Len(writer.entries) - Len(writer.ids) + 1)
  PROVE  /\ a.ok => /\ writer.outcome = "Ok" /\ a.lsn + 1 \in DOMAIN log
                    /\ log[a.lsn + 1].id = Head(writer.ids)
         /\ ~a.ok => a.outcome = writer.outcome /\ Head(writer.ids) \in Ids(a.entries)
         /\ a.ok <=> writer.outcome = "Ok"
<1> DEFINE m == Len(writer.entries)
           n == Len(writer.ids)
           k == m - n + 1
<1>1. writer.ids \in Seq(Id) /\ writer.entries \in Seq(Own) /\ log \in Seq(LogEntry)
  BY DEF TypeInv, WriterTypeOK
<1>2. n <= m /\ \A i \in 1 .. n : writer.entries[m - n + i].id = writer.ids[i]
  BY DEF TruthInv, BatchOK, Aligned
<1>3. /\ n \in Nat \ {0} /\ m \in Nat /\ Head(writer.ids) = writer.ids[1]
      /\ DOMAIN writer.entries = 1 .. m /\ Len(log) \in Nat /\ DOMAIN log = 1 .. Len(log)
  BY <1>1
<1>4. writer.next \in Nat /\ a = Answer(k)
  BY DEF TypeInv, WriterTypeOK
<1> HIDE DEF m, n
<1>5. k \in 1 .. m /\ 1 \in 1 .. n
  BY <1>2, <1>3
<1>6. writer.entries[k].id = Head(writer.ids)
  BY <1>2, <1>3, <1>5
<1> HIDE DEF k
<1>7. CASE writer.outcome = "Ok"
  <2>1. /\ m <= writer.next /\ writer.next <= Len(log)
        /\ \A i \in 1 .. m : log[writer.next - m + i].id = writer.entries[i].id
    BY <1>7 DEF TruthInv, RangeOK, m
  <2> DEFINE lsn == writer.next - m + k - 1
  <2>2. a = [ok |-> TRUE, lsn |-> lsn]
    BY <1>4, <1>7, Zenon DEF Answer, m
  <2>3. lsn + 1 = writer.next - m + k /\ writer.next - m + k \in 1 .. Len(log)
    BY <1>3, <1>4, <1>5, <2>1
  <2> HIDE DEF lsn
  <2>4. log[lsn + 1].id = Head(writer.ids)
    BY <1>5, <1>6, <2>1, <2>3
  <2>5. a.ok = TRUE /\ a.lsn = lsn
    BY ONLY <2>2
  <2>6. lsn + 1 \in DOMAIN log
    BY <1>3, <2>3
  <2>7. QED
    BY <1>7, <2>4, <2>5, <2>6
<1>8. CASE writer.outcome # "Ok"
  <2>1. a.ok = FALSE /\ a.outcome = writer.outcome /\ a.entries = writer.entries
    BY <1>4, <1>8 DEF Answer
  <2>2. Head(writer.ids) \in Ids(writer.entries)
    BY <1>3, <1>5, <1>6 DEF Ids
  <2>3. QED
    BY <1>8, <2>1, <2>2
<1>9. QED
  BY <1>7, <1>8

LEMMA AnswerOne ==
  ASSUME TypeInv, TypeInv', TruthInv, Reply, writer.ids # << >>
  PROVE  TruthInv'
<1> DEFINE h == Head(writer.ids)
           a == Answer(Len(writer.entries) - Len(writer.ids) + 1)
<1>1. /\ writer.pc = "reply" /\ reply' = [reply EXCEPT ![h] = Append(@, a)]
      /\ writer' = [writer EXCEPT !.ids = Tail(@)]
      /\ UNCHANGED <<prod, accepted, queue, log, ver, late>>
  BY DEF Reply, prodVars, storeVars
<1>2. /\ writer'.pc = "reply" /\ writer'.ids = Tail(writer.ids) /\ writer'.entries = writer.entries
      /\ writer'.attempted = writer.attempted /\ writer'.attempt = writer.attempt
      /\ writer'.outcome = writer.outcome
      /\ writer'.seen = writer.seen /\ writer'.next = writer.next
  BY <1>1 DEF TypeInv, WriterTypeOK
<1>3. writer.ids \in Seq(Id) /\ writer.entries \in Seq(Own) /\ reply \in [Id -> Seq(Good \cup Bad)]
  BY DEF TypeInv, WriterTypeOK
<1>4. /\ h \in Id /\ h \in Range(writer.ids)
      /\ Range(writer.ids) = {h} \cup Range(writer'.ids)
      /\ IsInjective(writer'.ids) /\ h \notin Range(writer'.ids)
  <2>1. IsInjective(writer.ids)
    BY DEF TruthInv, PlacesOK
  <2>2. h \in Id
    BY <1>3
  <2>3. QED
    BY <1>2, <1>3, <2>1, <2>2, TailRange
<1>5. reply[h] = << >>
  BY <1>4 DEF TruthInv, PlacesOK, Told
<1>6. /\ a.ok => /\ writer.outcome = "Ok" /\ a.lsn + 1 \in DOMAIN log
                 /\ log[a.lsn + 1].id = h
      /\ ~a.ok => a.outcome = writer.outcome /\ h \in Ids(a.entries)
  BY <1>1, AnswerTrue
<1> HIDE DEF h, a
<1>7. reply'[h] = <<a>> /\ \A id \in Id : id # h => reply'[id] = reply[id]
  BY <1>1, <1>3, <1>4, <1>5
<1>8. Range(<<a>>) = {a} /\ Len(<<a>>) = 1 /\ <<a>> # << >>
  BY DEF Range
<1>9. AnswersOK'
  <2> SUFFICES ASSUME NEW id \in Id
               PROVE  /\ Len(reply'[id]) <= 1
                      /\ \A b \in Range(reply'[id]) :
                           /\ b.ok => b.lsn + 1 \in DOMAIN log' /\ log'[b.lsn + 1].id = id
                           /\ ~b.ok => id \in Ids(b.entries)
    BY DEF AnswersOK
  <2>1. CASE id = h
    <3>1. Range(reply'[id]) = {a} /\ Len(reply'[id]) <= 1 /\ log' = log
      <4>1. Len(reply'[id]) <= 1
        <5>1. Len(reply'[id]) = 1
          BY <1>7, <1>8, <2>1, Zenon
        <5>2. QED
          BY <5>1
      <4>2. QED
        BY <1>1, <1>7, <1>8, <2>1, <4>1, Zenon
    <3>2. QED
      BY <1>6, <2>1, <3>1
  <2>2. CASE id # h
    BY <1>1, <1>7, <2>2 DEF TruthInv, AnswersOK
  <2>3. QED
    BY <2>1, <2>2
<1>10. Told' = Told \cup {h} /\ Reached' = Reached /\ Accepted' = Accepted
  BY <1>1, <1>4, <1>7, <1>8 DEF Told, Reached, Accepted
<1>11. Denied' \subseteq Denied \cup (IF writer.outcome = "NotApplied" THEN {h} ELSE {})
  <2> SUFFICES ASSUME NEW id \in Id, NEW b \in Range(reply'[id]), ~b.ok, b.outcome = "NotApplied"
               PROVE  id \in Denied \cup (IF writer.outcome = "NotApplied" THEN {h} ELSE {})
    BY DEF Denied
  <2>1. CASE id = h
    BY <1>6, <1>7, <1>8, <2>1
  <2>2. CASE id # h
    BY <1>7, <2>2 DEF Denied
  <2>3. QED
    BY <2>1, <2>2
<1>12. PlacesOK'
  <2>1. Receiving' => Receiving
    BY <1>1 DEF Receiving
  <2>2. /\ Range(queue) \cap Range(writer'.ids) = {} /\ Range(queue) \cap (Told \cup {h}) = {}
        /\ Range(writer'.ids) \cap (Told \cup {h}) = {}
        /\ Range(writer'.ids) \cup (Told \cup {h}) = Range(writer.ids) \cup Told
    BY <1>4 DEF TruthInv, PlacesOK
  <2>3. queue' = queue
    BY <1>1
  <2>4. QED
    BY <1>4, <1>10, <2>1, <2>2, <2>3 DEF TruthInv, PlacesOK
<1>13. DenialsOK'
  <2>1. CASE writer.outcome = "NotApplied"
    <3>1. Risk = Range(writer.ids) /\ Risk' = Range(writer'.ids)
      BY <1>1, <1>2, <2>1 DEF Risk
    <3>2. QED
      BY <1>1, <1>4, <1>10, <1>11, <2>1, <3>1 DEF TruthInv, DenialsOK
  <2>2. CASE writer.outcome # "NotApplied"
    <3>1. Risk' = {}
      BY <1>2, <2>2 DEF Risk
    <3>2. QED
      BY <1>1, <1>10, <1>11, <2>2, <3>1 DEF TruthInv, DenialsOK
  <2>3. QED
    BY <2>1, <2>2
<1>14. BatchOK'
  <2> DEFINE n == Len(writer.ids)
             m == Len(writer.entries)
  <2>1. /\ Aligned(writer.ids, writer.entries) /\ n <= MaxBatch
        /\ writer.attempt > 0 => writer.entries = writer.attempted
    BY <1>1 DEF TruthInv, BatchOK
  <2>2. /\ n \in Nat \ {0} /\ m \in Nat /\ Len(writer'.ids) = n - 1
        /\ \A i \in 1 .. n - 1 : writer'.ids[i] = writer.ids[i + 1]
    BY <1>2, <1>3
  <2>3. n <= m /\ \A i \in 1 .. n : writer.entries[m - n + i].id = writer.ids[i]
    BY <2>1 DEF Aligned
  <2> HIDE DEF n, m
  <2>4. \A i \in 1 .. n - 1 : i + 1 \in 1 .. n /\ m - (n - 1) + i = m - n + (i + 1)
    BY <2>2
  <2>5. \A i \in 1 .. n - 1 : writer.entries[m - (n - 1) + i].id = writer'.ids[i]
    BY <2>2, <2>3, <2>4
  <2>6. Aligned(writer'.ids, writer'.entries)
    <3>1. n - 1 <= m
      BY <2>2, <2>3
    <3>2. Len(writer'.entries) = m /\ Len(writer'.ids) = n - 1 /\ writer'.entries = writer.entries
      BY <1>2, <2>2 DEF m
    <3>3. QED
      BY <2>5, <3>1, <3>2 DEF Aligned
  <2>7. Len(writer'.ids) <= MaxBatch
    BY <2>1, <2>2, BatchAssumption DEF n
  <2>8. QED
    BY <1>2, <2>1, <2>6, <2>7 DEF BatchOK
<1>15. NumbersOK' /\ ViewOK' /\ RangeOK'
  BY <1>1, <1>2 DEF TruthInv, NumbersOK, ViewOK, RangeOK
<1>16. QED
  BY <1>9, <1>12, <1>13, <1>14, <1>15 DEF TruthInv

LEMMA ReplyTruth ==
  ASSUME TypeInv, TypeInv', TruthInv, Reply
  PROVE  TruthInv'
<1>1. CASE writer.ids # << >>
  BY <1>1, AnswerOne
<1>2. CASE writer.ids = << >>
  <2>1. /\ writer.pc = "reply" /\ UNCHANGED <<prod, accepted, queue, reply, log, ver, late>>
        /\ writer' = [writer EXCEPT !.pc = "recv", !.entries = << >>, !.attempted = << >>,
                                    !.attempt = 0, !.outcome = "none"]
    BY <1>2 DEF Reply, prodVars, storeVars
  <2>2. /\ writer'.pc = "recv" /\ writer'.ids = writer.ids /\ writer'.entries = << >>
        /\ writer'.attempt = 0 /\ writer'.seen = writer.seen /\ writer'.next = writer.next
    BY <2>1 DEF TypeInv, WriterTypeOK
  <2>3. Risk' = {} /\ Receiving
    BY <2>1, <2>2 DEF Risk, Receiving
  <2>4. BatchSteps({})
    BY <2>1, <2>2, <2>3, SameStore DEF BatchSteps
  <2>5. NumbersOK' /\ PlacesOK' /\ AnswersOK' /\ DenialsOK'
    BY <2>4, BatchStepTruth
  <2>6. Aligned(<< >>, << >>) /\ Len(<< >>) = 0
    BY DEF Aligned
  <2>7. BatchOK'
    BY <1>2, <2>2, <2>6, BatchAssumption DEF BatchOK
  <2>8. ViewOK' /\ RangeOK'
    BY <2>1, <2>2 DEF TruthInv, ViewOK, RangeOK
  <2>9. QED
    BY <2>5, <2>7, <2>8 DEF TruthInv
<1>3. QED
  BY <1>1, <1>2

LEMMA CloseTruth ==
  ASSUME TypeInv, TypeInv', TruthInv, Close
  PROVE  TruthInv'
<1>1. /\ writer.pc = "recv" /\ UNCHANGED <<prod, accepted, queue, reply, log, ver, late>>
      /\ writer' = [writer EXCEPT !.pc = "ended"]
  BY DEF Close, prodVars, storeVars
<1>2. /\ writer'.pc = "ended" /\ writer'.ids = writer.ids
      /\ writer'.seen = writer.seen /\ writer'.next = writer.next
  BY <1>1 DEF TypeInv, WriterTypeOK
<1>3. Risk' = {} /\ Receiving
  BY <1>1, <1>2 DEF Risk, Receiving
<1>4. BatchSteps({})
  BY <1>1, <1>2, <1>3, SameStore DEF BatchSteps
<1>5. NumbersOK' /\ PlacesOK' /\ AnswersOK' /\ DenialsOK'
  BY <1>4, BatchStepTruth
<1>6. BatchOK'
  BY <1>1, <1>2 DEF TruthInv, BatchOK
<1>7. ViewOK' /\ RangeOK'
  BY <1>1, <1>2 DEF TruthInv, ViewOK, RangeOK
<1>8. QED
  BY <1>5, <1>6, <1>7 DEF TruthInv

\* A panic loses receipts: its batch, landed or not, is never answered.
LEMMA PanicTruth ==
  ASSUME TypeInv, TypeInv', TruthInv, Panic
  PROVE  TruthInv'
<1>1. /\ writer.pc \in {"cas", "conflict"} /\ UNCHANGED <<prod, accepted, reply, late>>
      /\ writer' = [writer EXCEPT !.pc = "panicked"] /\ queue' = << >>
  BY DEF Panic, prodVars
<1>2. /\ writer'.pc = "panicked" /\ writer'.ids = writer.ids
      /\ writer'.seen = writer.seen /\ writer'.next = writer.next
  BY <1>1 DEF TypeInv, WriterTypeOK
<1>3. Ids(writer.entries) = Range(writer.ids) /\ writer.entries \in Seq(LogEntry)
  BY <1>1, InFlight
<1>4. ver \in Nat /\ writer.seen \in Nat
  BY DEF TypeInv, WriterTypeOK
<1>5. Grows /\ Adds(Range(writer.ids)) /\ ViewOK'
  <2>1. CASE Land(writer.seen, writer.entries)
    <3>1. Grows /\ Adds(Ids(writer.entries))
      BY <1>1, <1>3, <2>1, Landed
    <3>2. ViewOK'
      BY <1>2, <1>4, <2>1 DEF ViewOK, Land
    <3>3. QED
      BY <1>3, <3>1, <3>2
  <2>2. CASE UNCHANGED <<log, ver>>
    <3>1. Grows /\ Adds({})
      BY <1>1, <2>2, SameStore
    <3>2. ViewOK'
      BY <1>2, <2>2 DEF ViewOK, TruthInv
    <3>3. QED
      BY <3>1, <3>2 DEF Adds
  <2>3. QED
    BY <2>1, <2>2 DEF Panic
<1>6. Risk' = {} /\ ~Receiving'
  BY <1>2 DEF Risk, Receiving
<1>7. PlacesOK'
  <2>1. Adds(Range(writer.ids) \cup {<< >>})
    BY <1>5 DEF Adds
  <2>2. QED
    BY <1>1, <1>2, <1>6, <2>1, PlacesStay DEF TruthInv
<1>8. DenialsOK'
  <2>1. Denied \cap Range(writer.ids) = {} /\ Denied' = Denied /\ Range(queue') = {}
    BY <1>1, DeniedIsTold, EmptyRange DEF TruthInv, PlacesOK, Denied
  <2>2. QED
    BY <1>5, <1>6, <2>1 DEF TruthInv, DenialsOK, Adds
<1>9. AnswersOK'
  BY <1>1, <1>5, AnswersGrow DEF TruthInv
<1>10. NumbersOK' /\ RangeOK' /\ BatchOK'
  BY <1>1, <1>2 DEF TruthInv, NumbersOK, RangeOK, BatchOK
<1>11. QED
  BY <1>5, <1>7, <1>8, <1>9, <1>10 DEF TruthInv

\* Other processes and late requests write the log behind the handle's back.
LEMMA StoreTruth ==
  ASSUME TypeInv, TypeInv', TruthInv, UNCHANGED <<prodVars, queue, reply, writer>>,
         Grows, Adds({<< >>}), ver' = ver + 1
  PROVE  TruthInv'
<1>1. UNCHANGED <<prod, accepted, queue, reply, writer>> /\ ver \in Nat /\ writer.seen \in Nat
  BY DEF prodVars, TypeInv, WriterTypeOK
<1>2. Risk' = Risk /\ (Receiving' => Receiving)
  BY <1>1 DEF Risk, Receiving
<1>3. Risk \cap {<< >>} = {}
  <2>1. writer.ids \in Seq(Id)
    BY DEF TypeInv, WriterTypeOK
  <2>2. QED
    BY <2>1, RangeOfSeq, NoEmptyId DEF Risk
<1>4. BatchSteps({<< >>})
  BY <1>1, <1>2 DEF BatchSteps
<1>5. NumbersOK' /\ PlacesOK' /\ AnswersOK' /\ DenialsOK'
  BY <1>2, <1>3, <1>4, BatchStepTruth
<1>6. BatchOK'
  BY <1>1 DEF TruthInv, BatchOK
<1>7. RangeOK'
  BY <1>1, RangeGrows DEF TruthInv
<1>8. ViewOK'
  BY <1>1 DEF TruthInv, ViewOK
<1>9. QED
  BY <1>5, <1>6, <1>7, <1>8 DEF TruthInv

LEMMA OtherTruth ==
  ASSUME TypeInv, TypeInv', TruthInv, Other
  PROVE  TruthInv'
<1>1. PICK batch \in {<< >>, <<Foreign>>} : Land(ver, batch)
  BY DEF Other
<1>2. batch \in Seq(LogEntry) /\ Ids(batch) \subseteq {<< >>}
  <2>1. Foreign \in LogEntry /\ Foreign.id = << >>
    BY DEF Foreign, Entry, LogEntry
  <2>2. DOMAIN <<Foreign>> = {1} /\ <<Foreign>>[1] = Foreign /\ DOMAIN << >> = {}
    OBVIOUS
  <2>3. << >> \in Seq(LogEntry) /\ <<Foreign>> \in Seq(LogEntry)
    BY <2>1
  <2>4. Ids(<< >>) = {} /\ Ids(<<Foreign>>) = {<< >>}
    BY <2>1, <2>2, Zenon DEF Ids
  <2>5. QED
    BY <2>3, <2>4
<1>3. Grows /\ Adds(Ids(batch))
  BY <1>1, <1>2, Landed DEF Other
<1>4. QED
  BY <1>1, <1>2, <1>3, StoreTruth DEF Other, Adds, Land

LEMMA LateTruth ==
  ASSUME TypeInv, TypeInv', TruthInv, Late
  PROVE  TruthInv'
<1>1. PICK r \in late : Land(r.seen, r.entries) /\ late' = late \ {r}
  BY DEF Late
<1>2. r.entries \in Seq(LogEntry) /\ Ids(r.entries) \subseteq Reached
  BY <1>1, OwnSeq DEF TypeInv, Reached
<1>3. Grows /\ Adds(Ids(r.entries))
  BY <1>1, <1>2, Landed
<1>4. Adds({<< >>}) /\ ver' = ver + 1
  BY <1>1, <1>2, <1>3 DEF Adds, Land
<1>5. QED
  BY <1>3, <1>4, StoreTruth DEF Late

LEMMA TruthNext == TypeInv /\ TypeInv' /\ TruthInv /\ [Next]_vars => TruthInv'
<1> SUFFICES ASSUME TypeInv, TypeInv', TruthInv, [Next]_vars PROVE TruthInv'
  OBVIOUS
<1>1. ASSUME NEW p \in Producers, ProducerStep(p) PROVE TruthInv'
  BY <1>1, ProducerMoves, EnqueueTruth, MoveTruth DEF ProducerStep
<1>2. CASE Take
  BY <1>2, TakeTruth
<1>3. CASE StartWrite
  BY <1>3, StartWriteTruth
<1>4. CASE Commit
  BY <1>4, CommitTruth
<1>5. CASE WriteFails
  BY <1>5, NotAppliedTruth DEF WriteFails
<1>6. CASE WriteUnanswered
  BY <1>6, WriteUnansweredTruth
<1>7. CASE Conflict
  BY <1>7, ConflictTruth
<1>8. CASE Reconcile
  BY <1>8, ReconcileTruth
<1>9. CASE Reply
  BY <1>9, ReplyTruth
<1>10. CASE Close
  BY <1>10, CloseTruth
<1>11. CASE Panic
  BY <1>11, PanicTruth
<1>12. CASE Other
  BY <1>12, OtherTruth
<1>13. CASE Late
  BY <1>13, LateTruth
<1>14. CASE UNCHANGED vars
  <2>1. UNCHANGED <<queue, accepted, reply, writer, log, ver, late, prod>>
    BY <1>14 DEF vars
  <2>2. \A q \in Producers : prod[q].n <= prod'[q].n
    BY <2>1 DEF TypeInv, ProducersOK
  <2>3. QED
    BY <2>1, <2>2, MoveTruth
<1>15. QED
  BY <1>1, <1>2, <1>3, <1>4, <1>5, <1>6, <1>7, <1>8, <1>9, <1>10, <1>11, <1>12, <1>13, <1>14
  DEF Next, WriterStep

LEMMA AlwaysTrue == Spec => [](TypeInv /\ TruthInv)
<1>1. Init => TypeInv /\ TruthInv
  BY TypeInit, TruthInit
<1>2. TypeInv /\ TruthInv /\ [Next]_vars => (TypeInv /\ TruthInv)'
  BY TypeNext, TruthNext
<1>3. QED
  BY <1>1, <1>2, PTL DEF Spec

\* A receipt is answered once, with its entry's own LSN or with an outcome
\* that stays true: write_batch, reconcile and the reply loop of the writer
\* never deny an entry that is committed or may still be.
THEOREM AnswersStayTrue == Spec => []ReceiptsTrue
<1>1. TruthInv => ReceiptsTrue
  <2> SUFFICES ASSUME TruthInv, NEW id \in Id
               PROVE  /\ Len(reply[id]) <= 1
                      /\ \A a \in Range(reply[id]) :
                           /\ a.ok => a.lsn + 1 \in DOMAIN log /\ log[a.lsn + 1].id = id
                           /\ ~a.ok /\ a.outcome = "NotApplied" => ~Committed(id) /\ ~MayLand(id)
    BY DEF ReceiptsTrue
  <2>1. Len(reply[id]) <= 1
    BY DEF TruthInv, AnswersOK
  <2>2. ASSUME NEW a \in Range(reply[id]), a.ok
        PROVE  a.lsn + 1 \in DOMAIN log /\ log[a.lsn + 1].id = id
    BY <2>2 DEF TruthInv, AnswersOK
  <2>3. ASSUME NEW a \in Range(reply[id]), ~a.ok, a.outcome = "NotApplied"
        PROVE  ~Committed(id) /\ ~MayLand(id)
    <3>1. id \in Denied
      BY <2>3 DEF Denied
    <3>2. id \notin Reached
      BY <3>1 DEF TruthInv, DenialsOK
    <3>3. id \notin Ids(log) /\ \A r \in late : id \notin Ids(r.entries)
      BY <3>2 DEF Reached
    <3>4. QED
      BY <3>3 DEF Committed, MayLand, Ids
  <2>4. QED
    BY <2>1, <2>2, <2>3
<1>2. QED
  BY <1>1, AlwaysTrue, PTL

\* An error hands back the batch as it was last attempted, with the answered
\* entry in it, through every rewrite and abort of reconcile_batch.
THEOREM ErrorsCarryTheAttempt == Spec => []ErrorsShowTheAttempt
<1>1. TruthInv => ErrorsShowTheAttempt
  BY DEF TruthInv, BatchOK, AnswersOK, Ids, ErrorsShowTheAttempt
<1>2. QED
  BY <1>1, AlwaysTrue, PTL
-----------------------------------------------------------------------------
(* The backlog and the report                                                *)

LEMMA RangeSize ==
  ASSUME NEW S, NEW s \in Seq(S)
  PROVE  IsFiniteSet(Range(s)) /\ Cardinality(Range(s)) <= Len(s)
         /\ Cardinality(Range(s)) \in Nat
<1>1. Len(s) \in Nat /\ DOMAIN s = 1 .. Len(s)
  OBVIOUS
<1>2. s \in Surjection(1 .. Len(s), Range(s))
  BY <1>1 DEF Surjection, Range
<1>3. IsFiniteSet(1 .. Len(s)) /\ Cardinality(1 .. Len(s)) = Len(s)
  BY <1>1, FS_Interval
<1>4. IsFiniteSet(Range(s)) /\ Cardinality(Range(s)) <= Len(s)
  BY <1>2, <1>3, FS_Surjection
<1>5. QED
  BY <1>4, FS_CardinalityType

\* While the writer receives, what waits is in the channel or in its batch.
LEMMA Waiting ==
  ASSUME TypeInv, TruthInv, Receiving
  PROVE  /\ Unanswered \subseteq Range(queue) \cup Range(writer.ids)
         /\ IsFiniteSet(Unanswered) /\ Cardinality(Unanswered) <= Capacity + MaxBatch
<1> DEFINE Q == Range(queue)
           W == Range(writer.ids)
<1>1. Unanswered \subseteq Q \cup W
  BY DEF TruthInv, PlacesOK, Unanswered, Accepted, Told
<1>2. queue \in Seq(Id) /\ writer.ids \in Seq(Id) /\ Len(queue) <= Capacity
  BY DEF TypeInv, WriterTypeOK
<1>3. Len(writer.ids) <= MaxBatch /\ Len(queue) \in Nat /\ Len(writer.ids) \in Nat
  BY <1>2 DEF TruthInv, BatchOK
<1>4. /\ IsFiniteSet(Q) /\ Cardinality(Q) <= Len(queue) /\ Cardinality(Q) \in Nat
      /\ IsFiniteSet(W) /\ Cardinality(W) <= Len(writer.ids) /\ Cardinality(W) \in Nat
  BY <1>2, RangeSize
<1> HIDE DEF Q, W
<1>5. /\ IsFiniteSet(Q \cup W) /\ IsFiniteSet(Q \cap W)
      /\ Cardinality(Q \cup W) = Cardinality(Q) + Cardinality(W) - Cardinality(Q \cap W)
  BY <1>4, FS_Union, FS_Intersection
<1>6. Cardinality(Q \cap W) \in Nat /\ Cardinality(Q \cup W) \in Nat
  BY <1>5, FS_CardinalityType
<1>7. IsFiniteSet(Unanswered) /\ Cardinality(Unanswered) <= Cardinality(Q \cup W)
  BY <1>1, <1>5, FS_Subset
<1>8. Cardinality(Unanswered) \in Nat
  BY <1>7, FS_CardinalityType
<1>9. Cardinality(Unanswered) <= Capacity + MaxBatch
  BY <1>2, <1>3, <1>4, <1>5, <1>6, <1>7, <1>8, QueueAssumption, BatchAssumption
<1>10. QED
  BY <1>1, <1>7, <1>9 DEF Q, W

LEMMA WaitingNow == TypeInv /\ TruthInv /\ Receiving => BacklogInv
<1> SUFFICES ASSUME TypeInv, TruthInv, Receiving PROVE BacklogInv
  OBVIOUS
<1>1. writer.pc # "ended"
  BY DEF Receiving
<1>2. QED
  BY <1>1, Waiting DEF BacklogInv

\* Nobody accepts or answers an entry once the writer is gone.
LEMMA GoneIsQuiet ==
  ASSUME TypeInv, [Next]_vars, ~Receiving'
  PROVE  /\ UNCHANGED <<reply, accepted>>
         /\ writer'.pc = "ended" => writer.pc = "ended" \/ Close
<1>1. ASSUME NEW p \in Producers, ProducerStep(p)
      PROVE  UNCHANGED <<reply, accepted, writer>>
  <2>1. UNCHANGED <<reply, writer>> /\ ~Receiving
    BY <1>1 DEF ProducerStep, Receiving
  <2>2. UNCHANGED accepted
    BY <1>1, <2>1, ProducerMoves DEF Enqueue
  <2>3. QED
    BY <2>1, <2>2
<1>2. CASE WriterStep
  <2>1. ~(Take \/ StartWrite \/ Commit \/ WriteFails \/ WriteUnanswered \/ Conflict
            \/ Reconcile \/ Reply)
    <3>1. ~Take
      BY DEF Take, Receiving, TypeInv, WriterTypeOK
    <3>2. \A outcome, entries : ~Fail(outcome, entries)
      BY FailFields DEF Receiving
    <3>3. ~StartWrite
      BY <3>2 DEF StartWrite, Receiving, TypeInv, WriterTypeOK
    <3>4. ~Commit
      BY DEF Commit, Receiving, TypeInv, WriterTypeOK
    <3>5. ~WriteFails /\ ~WriteUnanswered
      BY <3>2 DEF WriteFails, WriteUnanswered
    <3>6. ~Conflict
      BY DEF Conflict, Receiving, TypeInv, WriterTypeOK
    <3>7. ~Reconcile
      BY <3>2 DEF Reconcile, Receiving, TypeInv, WriterTypeOK
    <3>8. ~Reply
      BY DEF Reply, Receiving, TypeInv, WriterTypeOK
    <3>9. QED
      BY <3>1, <3>3, <3>4, <3>5, <3>6, <3>7, <3>8
  <2>2. CASE Close
    BY <2>2 DEF Close, prodVars
  <2>3. CASE Panic
    BY <2>3 DEF Panic, prodVars, TypeInv, WriterTypeOK
  <2>4. QED
    BY <1>2, <2>1, <2>2, <2>3 DEF WriterStep
<1>3. CASE Other \/ Late
  BY <1>3 DEF Other, Late, prodVars
<1>4. CASE UNCHANGED vars
  BY <1>4 DEF vars
<1>5. QED
  BY <1>1, <1>2, <1>3, <1>4 DEF Next

LEMMA BacklogNext ==
  TypeInv /\ TruthInv /\ TypeInv' /\ TruthInv' /\ BacklogInv /\ [Next]_vars => BacklogInv'
<1> SUFFICES ASSUME TypeInv, TruthInv, TypeInv', TruthInv', BacklogInv, [Next]_vars
             PROVE  BacklogInv'
  OBVIOUS
<1>1. CASE Receiving'
  <2>1. (TypeInv /\ TruthInv /\ Receiving => BacklogInv)'
    BY WaitingNow, PTL
  <2>2. QED
    BY <1>1, <2>1
<1>2. CASE ~Receiving'
  <2>1. /\ UNCHANGED <<reply, accepted>>
        /\ writer'.pc = "ended" => writer.pc = "ended" \/ Close
    BY <1>2, GoneIsQuiet
  <2>2. Unanswered' = Unanswered
    BY <2>1 DEF Unanswered
  <2>3. ASSUME Close PROVE Unanswered = {}
    <3>1. Receiving /\ queue = << >> /\ writer.ids = << >>
      BY <2>3 DEF Close, Receiving, TruthInv, BatchOK
    <3>2. QED
      BY <3>1, Waiting, EmptyRange
  <2>4. QED
    BY <2>1, <2>2, <2>3 DEF BacklogInv
<1>3. QED
  BY <1>1, <1>2

LEMMA CountStays ==
  ASSUME CountInv, UNCHANGED <<reply, report>>, Open' = Open, OpenGood' = OpenGood,
         writer'.pc # "panicked" => writer.pc # "panicked"
  PROVE  CountInv'
<1>1. Told' = Told /\ ToldGood' = ToldGood
  BY DEF Told, ToldGood
<1>2. QED
  BY <1>1 DEF CountInv

LEMMA FailCount ==
  ASSUME TypeInv, CountInv, UNCHANGED reply, writer.pc \in {"fill", "cas", "conflict"},
         NEW outcome \in {"NotApplied", "Unknown"}, NEW entries, Fail(outcome, entries)
  PROVE  CountInv'
<1>1. Told' = Told /\ ToldGood' = ToldGood
  BY DEF Told, ToldGood
<1>2. Open = 0 /\ OpenGood = 0 /\ Open' = Len(writer.ids) /\ OpenGood' = 0
  BY FailFields DEF Open, OpenGood
<1>3. /\ report'.failed = report.failed + Len(writer.ids)
      /\ report'.acknowledged = report.acknowledged
  BY DEF Fail, TypeInv
<1>4. /\ report.failed \in Nat /\ report.acknowledged \in Nat /\ Len(writer.ids) \in Nat
  <2>1. writer.ids \in Seq(Id)
    BY DEF TypeInv, WriterTypeOK
  <2>2. QED
    BY <2>1 DEF TypeInv
<1>5. IsFiniteSet(Told) /\ Cardinality(Told) \in Nat
  BY FS_CardinalityType DEF CountInv
<1>6. /\ report.acknowledged = Cardinality(ToldGood) + 0
      /\ report.acknowledged + report.failed = Cardinality(Told) + 0
  BY <1>2 DEF CountInv
<1>7. /\ report'.acknowledged = Cardinality(ToldGood) + 0
      /\ report'.acknowledged + report'.failed = Cardinality(Told) + Len(writer.ids)
  BY <1>3, <1>4, <1>5, <1>6
<1>8. QED
  BY <1>1, <1>2, <1>5, <1>7 DEF CountInv

LEMMA CommitCount ==
  ASSUME TypeInv, CountInv, Commit
  PROVE  CountInv'
<1>1. Told' = Told /\ ToldGood' = ToldGood
  BY DEF Told, ToldGood, Commit
<1>2. /\ writer'.pc = "reply" /\ writer'.outcome = "Ok" /\ writer'.ids = writer.ids
      /\ writer.pc = "cas"
  BY DEF Commit, TypeInv, WriterTypeOK
<1>3. Open = 0 /\ OpenGood = 0 /\ Open' = Len(writer.ids) /\ OpenGood' = Len(writer.ids)
  BY <1>2 DEF Open, OpenGood
<1>4. /\ report'.acknowledged = report.acknowledged + Len(writer.ids)
      /\ report'.failed = report.failed
  BY DEF Commit, TypeInv
<1>5. report.failed \in Nat /\ report.acknowledged \in Nat /\ Len(writer.ids) \in Nat
  <2>1. writer.ids \in Seq(Id)
    BY DEF TypeInv, WriterTypeOK
  <2>2. QED
    BY <2>1 DEF TypeInv
<1>6. /\ IsFiniteSet(Told) /\ Cardinality(Told) \in Nat
      /\ IsFiniteSet(ToldGood) /\ Cardinality(ToldGood) \in Nat
  <2>1. IsFiniteSet(Told) /\ ToldGood \subseteq Told
    BY DEF CountInv, Told, ToldGood
  <2>2. QED
    BY <2>1, FS_CardinalityType, FS_Subset
<1>7. /\ report.acknowledged = Cardinality(ToldGood) + 0
      /\ report.acknowledged + report.failed = Cardinality(Told) + 0
  BY <1>2, <1>3 DEF CountInv
<1>8. /\ report'.acknowledged = Cardinality(ToldGood) + Len(writer.ids)
      /\ report'.acknowledged + report'.failed = Cardinality(Told) + Len(writer.ids)
  BY <1>4, <1>5, <1>6, <1>7
<1>9. QED
  BY <1>1, <1>3, <1>6, <1>8 DEF CountInv

LEMMA ReplyCount ==
  ASSUME TypeInv, TruthInv, CountInv, Reply, writer.ids # << >>
  PROVE  CountInv'
<1> DEFINE h == Head(writer.ids)
           a == Answer(Len(writer.entries) - Len(writer.ids) + 1)
<1>1. /\ writer.pc = "reply" /\ reply' = [reply EXCEPT ![h] = Append(@, a)]
      /\ writer' = [writer EXCEPT !.ids = Tail(@)] /\ UNCHANGED report
  BY DEF Reply
<1>2. /\ writer'.pc = "reply" /\ writer'.ids = Tail(writer.ids)
      /\ writer'.outcome = writer.outcome
  BY <1>1 DEF TypeInv, WriterTypeOK
<1>3. writer.ids \in Seq(Id) /\ reply \in [Id -> Seq(Good \cup Bad)]
  BY DEF TypeInv, WriterTypeOK
<1>4. h \in Id /\ h \in Range(writer.ids)
  BY <1>3, TailRange
<1>5. reply[h] = << >>
  BY <1>4 DEF TruthInv, PlacesOK, Told
<1>6. a.ok <=> writer.outcome = "Ok"
  BY <1>1, AnswerTrue
<1>7. /\ Len(writer.ids) \in Nat \ {0} /\ Len(writer'.ids) = Len(writer.ids) - 1
  BY <1>2, <1>3
<1> HIDE DEF h, a
<1>8. reply'[h] = <<a>> /\ \A id \in Id : id # h => reply'[id] = reply[id]
  BY <1>1, <1>3, <1>4, <1>5
<1>9. <<a>> # << >> /\ Head(<<a>>) = a
  OBVIOUS
<1>10. h \notin Told /\ h \notin ToldGood
  BY <1>5 DEF Told, ToldGood
<1>11. Told' = Told \cup {h}
  BY <1>4, <1>8, <1>9 DEF Told
<1>12. ToldGood' = IF writer.outcome = "Ok" THEN ToldGood \cup {h} ELSE ToldGood
  <2>1. \A id \in Id : id # h => (id \in ToldGood' <=> id \in ToldGood)
    BY <1>8 DEF ToldGood
  <2>2. h \in ToldGood' <=> writer.outcome = "Ok"
    BY <1>4, <1>6, <1>8, <1>9 DEF ToldGood
  <2>3. ToldGood \subseteq Id /\ ToldGood' \subseteq Id
    BY DEF ToldGood
  <2>4. CASE writer.outcome = "Ok"
    BY <1>4, <2>1, <2>2, <2>3, <2>4
  <2>5. CASE writer.outcome # "Ok"
    BY <1>10, <2>1, <2>2, <2>3, <2>5
  <2>6. QED
    BY <2>4, <2>5
<1>13. /\ IsFiniteSet(Told) /\ Cardinality(Told) \in Nat
       /\ IsFiniteSet(ToldGood) /\ Cardinality(ToldGood) \in Nat
  <2>1. IsFiniteSet(Told) /\ ToldGood \subseteq Told
    BY DEF CountInv, Told, ToldGood
  <2>2. QED
    BY <2>1, FS_CardinalityType, FS_Subset
<1>14. /\ IsFiniteSet(Told \cup {h}) /\ Cardinality(Told \cup {h}) = Cardinality(Told) + 1
       /\ Cardinality(ToldGood \cup {h}) = Cardinality(ToldGood) + 1
  BY <1>10, <1>13, FS_AddElement
<1>15. /\ Open = Len(writer.ids) /\ Open' = Len(writer.ids) - 1
       /\ OpenGood = IF writer.outcome = "Ok" THEN Len(writer.ids) ELSE 0
       /\ OpenGood' = IF writer.outcome = "Ok" THEN Len(writer.ids) - 1 ELSE 0
  BY <1>1, <1>2, <1>7 DEF Open, OpenGood
<1>16. Cardinality(Told') + Open' = Cardinality(Told) + Open
  <2>1. Cardinality(Told') = Cardinality(Told) + 1
    BY <1>11, <1>14, Zenon
  <2>2. QED
    BY <1>7, <1>13, <1>15, <2>1
<1>17. Cardinality(ToldGood') + OpenGood' = Cardinality(ToldGood) + OpenGood
  <2>1. CASE writer.outcome = "Ok"
    BY <1>7, <1>12, <1>13, <1>14, <1>15, <2>1
  <2>2. CASE writer.outcome # "Ok"
    BY <1>12, <1>15, <2>2
  <2>3. QED
    BY <2>1, <2>2
<1>18. QED
  BY <1>1, <1>11, <1>14, <1>16, <1>17 DEF CountInv

LEMMA CountNext == TypeInv /\ TruthInv /\ CountInv /\ [Next]_vars => CountInv'
<1> SUFFICES ASSUME TypeInv, TruthInv, CountInv, [Next]_vars PROVE CountInv'
  OBVIOUS
<1>1. ASSUME NEW p \in Producers, ProducerStep(p) PROVE CountInv'
  BY <1>1, CountStays DEF ProducerStep, Open, OpenGood
<1>2. CASE Take
  <2>1. writer'.pc = "fill" /\ writer.pc \in {"recv", "fill"} /\ UNCHANGED <<reply, report>>
    BY <1>2 DEF Take, TypeInv, WriterTypeOK
  <2>2. QED
    BY <2>1, CountStays DEF Open, OpenGood
<1>3. CASE StartWrite
  <2>1. CASE Fail("NotApplied", writer.entries)
    BY <1>3, <2>1, FailCount DEF StartWrite
  <2>2. CASE /\ report' = [report EXCEPT !.commits = @ + 1]
             /\ writer' = [writer EXCEPT !.pc = "cas", !.attempt = 1,
                                         !.attempted = writer.entries]
    <3>1. writer'.pc = "cas" /\ writer.pc = "fill" /\ UNCHANGED reply
      BY <1>3, <2>2 DEF StartWrite, TypeInv, WriterTypeOK
    <3>2. report'.acknowledged = report.acknowledged /\ report'.failed = report.failed
      BY <2>2 DEF TypeInv
    <3>3. Told' = Told /\ ToldGood' = ToldGood /\ Open' = Open /\ OpenGood' = OpenGood
      BY <3>1 DEF Told, ToldGood, Open, OpenGood
    <3>4. QED
      BY <3>1, <3>2, <3>3 DEF CountInv
  <2>3. QED
    BY <1>3, <2>1, <2>2 DEF StartWrite
<1>4. CASE Commit
  BY <1>4, CommitCount
<1>5. CASE WriteFails
  BY <1>5, FailCount DEF WriteFails
<1>6. CASE WriteUnanswered
  BY <1>6, FailCount DEF WriteUnanswered
<1>7. CASE Conflict
  <2>1. writer'.pc = "conflict" /\ writer.pc = "cas" /\ UNCHANGED <<reply, report>>
    BY <1>7 DEF Conflict, TypeInv, WriterTypeOK
  <2>2. QED
    BY <2>1, CountStays DEF Open, OpenGood
<1>8. CASE Reconcile
  <2>1. writer.pc = "conflict" /\ UNCHANGED reply
    BY <1>8 DEF Reconcile
  <2>2. ASSUME NEW entries, Fail("NotApplied", entries) PROVE CountInv'
    BY <2>1, <2>2, FailCount
  <2>3. ASSUME NEW new, UNCHANGED <<stopped, report>>,
               writer' = [writer EXCEPT !.pc = "cas", !.attempt = @ + 1,
                                        !.entries = new, !.attempted = new]
        PROVE  CountInv'
    <3>1. writer'.pc = "cas"
      BY <2>3 DEF TypeInv, WriterTypeOK
    <3>2. QED
      BY <2>1, <2>3, <3>1, CountStays DEF Open, OpenGood
  <2>4. QED
    BY <1>8, <2>2, <2>3 DEF Reconcile
<1>9. CASE Reply
  <2>1. CASE writer.ids # << >>
    BY <1>9, <2>1, ReplyCount
  <2>2. CASE writer.ids = << >>
    <3>1. /\ writer.pc = "reply" /\ writer'.pc = "recv" /\ UNCHANGED <<reply, report>>
          /\ Len(writer.ids) = 0
      BY <1>9, <2>2 DEF Reply, TypeInv, WriterTypeOK
    <3>2. QED
      BY <3>1, CountStays DEF Open, OpenGood
  <2>3. QED
    BY <2>1, <2>2
<1>10. CASE Close
  <2>1. writer'.pc = "ended" /\ writer.pc = "recv" /\ UNCHANGED <<reply, report>>
    BY <1>10 DEF Close, TypeInv, WriterTypeOK
  <2>2. QED
    BY <2>1, CountStays DEF Open, OpenGood
<1>11. CASE Panic
  <2>1. /\ writer'.pc = "panicked" /\ writer.pc \in {"cas", "conflict"}
        /\ UNCHANGED <<reply, report>>
    BY <1>11 DEF Panic, TypeInv, WriterTypeOK
  <2>2. QED
    BY <2>1, CountStays DEF Open, OpenGood
<1>12. CASE Other \/ Late \/ UNCHANGED vars
  BY <1>12, CountStays DEF Other, Late, vars, Open, OpenGood
<1>13. QED
  BY <1>1, <1>2, <1>3, <1>4, <1>5, <1>6, <1>7, <1>8, <1>9, <1>10, <1>11, <1>12
  DEF Next, WriterStep

LEMMA CountInit == Init => BacklogInv /\ CountInv
<1> SUFFICES ASSUME Init PROVE BacklogInv /\ CountInv
  OBVIOUS
<1>1. Told = {} /\ ToldGood = {} /\ Unanswered = {}
  <2>1. (\A id \in Id : reply[id] = << >>) /\ \A p \in Producers : accepted[p] = << >>
    BY DEF Init
  <2>2. QED
    BY <2>1, EmptyRange DEF Told, ToldGood, Unanswered
<1>2. Open = 0 /\ OpenGood = 0 /\ report.acknowledged = 0 /\ report.failed = 0
  BY DEF Init, Open, OpenGood
<1>3. QED
  BY <1>1, <1>2, FS_EmptySet, QueueAssumption, BatchAssumption DEF BacklogInv, CountInv

LEMMA AlwaysCounted == Spec => [](TypeInv /\ TruthInv /\ BacklogInv /\ CountInv)
<1>1. Init => TypeInv /\ TruthInv /\ BacklogInv /\ CountInv
  BY TypeInit, TruthInit, CountInit
<1>2. TypeInv /\ TruthInv /\ BacklogInv /\ CountInv /\ [Next]_vars
      => (TypeInv /\ TruthInv /\ BacklogInv /\ CountInv)'
  BY TypeNext, TruthNext, BacklogNext, CountNext
<1>3. QED
  BY <1>1, <1>2, PTL DEF Spec

\* Accepted entries that wait for an answer never exceed the channel and one
\* batch, whatever try_submit, submit, a stop or a panic of the writer does.
THEOREM BacklogIsBounded == Spec => []BoundedBacklog
<1>1. BacklogInv => BoundedBacklog
  BY DEF BacklogInv, BoundedBacklog
<1>2. QED
  BY <1>1, AlwaysCounted, PTL

\* When the writer returns, every accepted entry has its answer and the report
\* of run_writer counts each answer once, by what it said.
THEOREM EndsDrained == Spec => []DrainedAtEnd
<1>1. TypeInv /\ BacklogInv /\ CountInv => DrainedAtEnd
  <2> SUFFICES ASSUME TypeInv, BacklogInv, CountInv, writer.pc = "ended"
               PROVE  /\ Unanswered = {}
                      /\ report.acknowledged + report.failed = Cardinality(Told)
                      /\ report.acknowledged = Cardinality(ToldGood)
    BY DEF DrainedAtEnd, Told, ToldGood
  <2>1. Open = 0 /\ OpenGood = 0
    BY DEF Open, OpenGood
  <2>2. Cardinality(Told) \in Nat /\ Cardinality(ToldGood) \in Nat
    <3>1. IsFiniteSet(Told) /\ ToldGood \subseteq Told
      BY DEF CountInv, Told, ToldGood
    <3>2. QED
      BY <3>1, FS_CardinalityType, FS_Subset
  <2>3. QED
    BY <2>1, <2>2 DEF BacklogInv, CountInv
<1>2. QED
  BY <1>1, AlwaysCounted, PTL

-----------------------------------------------------------------------------
(* The order of commit                                                       *)

\* An entry of the same producer with a lower number.
Before(x, y) == x[1] = y[1] /\ x[2] < y[2]

IdSeq(entries) == [i \in 1 .. Len(entries) |-> entries[i].id]

\* The ids can go behind those of base: each is new, and whatever was accepted
\* before it from the same producer is in base or stands in front of it.
Fits(acc, base, ids) ==
  \A i \in 1 .. Len(ids) : ids[i] \in Id =>
    /\ ids[i] \notin base
    /\ \A j \in 1 .. Len(ids) : ids[j] = ids[i] => j = i
    /\ \A x \in acc : Before(x, ids[i]) => x \in base \/ \E j \in 1 .. i - 1 : ids[j] = x

\* The batch on its way to the log.
Batch == IF writer.pc \in {"fill", "cas", "conflict"} THEN writer.ids ELSE << >>

Numbered ==
  \A p \in Producers : \A m, k \in DOMAIN accepted[p] :
    m < k => accepted[p][m][2] < accepted[p][k][2]

\* Until the stop the batch and the queue continue the log and hold the rest.
LineOK ==
  ~stopped /\ Receiving =>
    /\ Fits(Accepted, Ids(log), Batch)
    /\ Fits(Accepted, Ids(log) \cup Range(Batch), queue)
    /\ Accepted \subseteq Ids(log) \cup Range(Batch) \cup Range(queue)

\* After it only the unanswered batch can continue the log.
LateOK ==
  /\ late # {} => stopped
  /\ \A r \in late : /\ r.seen <= ver
                     /\ r.seen = ver => Fits(Accepted, Ids(log), IdSeq(r.entries))

OrderInv ==
  /\ writer.pc \in {"cas", "conflict"} => ~stopped
  /\ Fits(Accepted, {}, IdSeq(log))
  /\ Numbered /\ LineOK /\ LateOK

LEMMA IdSeqFacts ==
  ASSUME NEW S, NEW entries \in Seq(S)
  PROVE  /\ Len(entries) \in Nat /\ Len(IdSeq(entries)) = Len(entries)
         /\ \A i \in 1 .. Len(entries) : IdSeq(entries)[i] = entries[i].id
         /\ \A x : x \in Ids(entries) <=> \E i \in 1 .. Len(entries) : entries[i].id = x
<1>1. Len(entries) \in Nat /\ DOMAIN entries = 1 .. Len(entries)
  OBVIOUS
<1>2. Len(IdSeq(entries)) = Len(entries)
  <2>1. DOMAIN IdSeq(entries) = 1 .. Len(entries)
    BY DEF IdSeq
  <2>2. IdSeq(entries) \in Seq({entries[i].id : i \in 1 .. Len(entries)})
    BY <1>1 DEF IdSeq
  <2>3. QED
    BY <1>1, <2>1, <2>2
<1>3. QED
  BY <1>1, <1>2 DEF IdSeq, Ids

\* Entries that fit behind the log can land there.
LEMMA LandsInOrder ==
  ASSUME NEW acc, NEW s \in Seq(LogEntry), NEW t \in Seq(LogEntry),
         Fits(acc, {}, IdSeq(s)), Fits(acc, Ids(s), IdSeq(t))
  PROVE  Fits(acc, {}, IdSeq(s \o t))
<1> DEFINE u == s \o t
           m == Len(s)
           n == Len(t)
<1>1. /\ u \in Seq(LogEntry) /\ m \in Nat /\ n \in Nat /\ Len(u) = m + n
      /\ \A i \in 1 .. m : u[i] = s[i]
      /\ \A i \in 1 .. m + n : i > m => u[i] = t[i - m]
  OBVIOUS
<1>2. /\ Len(IdSeq(s)) = m /\ Len(IdSeq(t)) = n /\ Len(IdSeq(u)) = m + n
      /\ \A i \in 1 .. m : IdSeq(s)[i] = s[i].id
      /\ \A i \in 1 .. n : IdSeq(t)[i] = t[i].id
      /\ \A i \in 1 .. m + n : IdSeq(u)[i] = u[i].id
      /\ \A x : x \in Ids(s) <=> \E i \in 1 .. m : s[i].id = x
  BY <1>1, IdSeqFacts
<1> HIDE DEF u, m, n
<1> DEFINE a(i) == IdSeq(s)[i]
           b(i) == IdSeq(t)[i]
           c(i) == IdSeq(u)[i]
<1>3. /\ \A i \in 1 .. m : c(i) = a(i)
      /\ \A i \in 1 .. m + n : i > m => i - m \in 1 .. n /\ c(i) = b(i - m)
      /\ \A x : x \in Ids(s) <=> \E i \in 1 .. m : a(i) = x
  <2>1. \A i \in 1 .. m : i \in 1 .. m + n
    BY <1>1
  <2>2. \A i \in 1 .. m + n : i > m => i - m \in 1 .. n
    BY <1>1
  <2>3. \A i \in 1 .. m : c(i) = a(i)
    BY <1>1, <1>2, <2>1
  <2>4. ASSUME NEW i \in 1 .. m + n, i > m PROVE c(i) = b(i - m)
    <3>1. c(i) = u[i].id /\ b(i - m) = t[i - m].id
      BY <1>2, <2>2, <2>4
    <3>2. u[i] = t[i - m]
      BY <1>1, <2>4
    <3>3. QED
      BY <3>1, <3>2
  <2>5. \A x : x \in Ids(s) <=> \E i \in 1 .. m : a(i) = x
    BY <1>2
  <2>6. QED
    BY <2>2, <2>3, <2>4, <2>5
<1>4. \A i \in 1 .. m : a(i) \in Id =>
        /\ \A j \in 1 .. m : a(j) = a(i) => j = i
        /\ \A x \in acc : Before(x, a(i)) => \E j \in 1 .. i - 1 : a(j) = x
  BY <1>2 DEF Fits, m
<1>5. \A i \in 1 .. n : b(i) \in Id =>
        /\ b(i) \notin Ids(s)
        /\ \A j \in 1 .. n : b(j) = b(i) => j = i
        /\ \A x \in acc : Before(x, b(i)) => x \in Ids(s) \/ \E j \in 1 .. i - 1 : b(j) = x
  BY <1>2 DEF Fits, n
<1> HIDE DEF a, b, c
<1>6. ASSUME NEW i \in 1 .. m + n, c(i) \in Id
      PROVE  /\ \A j \in 1 .. m + n : c(j) = c(i) => j = i
             /\ \A x \in acc : Before(x, c(i)) => \E j \in 1 .. i - 1 : c(j) = x
  <2>0. \A j \in 1 .. m + n : j \in 1 .. m \/ j > m
    BY <1>1
  <2>1. CASE i \in 1 .. m
    <3>1. \A j \in 1 .. m + n : c(j) = c(i) => j = i
      <4> SUFFICES ASSUME NEW j \in 1 .. m + n, c(j) = c(i) PROVE j = i
        OBVIOUS
      <4>1. c(i) \in Ids(s)
        BY <1>3, <2>1
      <4>2. ~(j > m)
        BY <1>3, <1>5, <1>6, <4>1
      <4>3. QED
        BY <1>3, <1>4, <1>6, <2>0, <2>1, <4>2
    <3>2. ASSUME NEW x \in acc, Before(x, c(i)) PROVE \E j \in 1 .. i - 1 : c(j) = x
      <4>1. PICK j \in 1 .. i - 1 : a(j) = x
        BY <1>3, <1>4, <1>6, <2>1, <3>2
      <4>2. j \in 1 .. m
        BY <1>1, <2>1
      <4>3. QED
        BY <1>3, <4>1, <4>2
    <3>3. QED
      BY <3>1, <3>2
  <2>2. CASE i > m
    <3>1. i - m \in 1 .. n /\ c(i) = b(i - m)
      BY <1>3, <2>2
    <3>2. \A j \in 1 .. m + n : c(j) = c(i) => j = i
      <4> SUFFICES ASSUME NEW j \in 1 .. m + n, c(j) = c(i) PROVE j = i
        OBVIOUS
      <4>1. j > m
        BY <1>3, <1>5, <1>6, <2>0, <3>1
      <4>2. j - m \in 1 .. n /\ b(j - m) = b(i - m)
        BY <1>3, <3>1, <4>1
      <4>3. j - m = i - m
        BY <1>5, <1>6, <3>1, <4>2
      <4>4. QED
        BY <1>1, <4>3
    <3>3. ASSUME NEW x \in acc, Before(x, c(i)) PROVE \E j \in 1 .. i - 1 : c(j) = x
      <4>1. CASE x \in Ids(s)
        <5>1. PICK j \in 1 .. m : a(j) = x
          BY <1>3, <4>1
        <5>2. j \in 1 .. i - 1 /\ c(j) = x
          BY <1>1, <1>3, <2>2, <5>1
        <5>3. QED
          BY <5>2
      <4>2. CASE \E j \in 1 .. (i - m) - 1 : b(j) = x
        <5>1. PICK j \in 1 .. (i - m) - 1 : b(j) = x
          BY <4>2
        <5>2. m + j \in 1 .. i - 1 /\ m + j \in 1 .. m + n /\ m + j > m /\ (m + j) - m = j
          BY <1>1
        <5>3. c(m + j) = x
          BY <1>3, <5>1, <5>2
        <5>4. QED
          BY <5>2, <5>3
      <4>3. QED
        BY <1>5, <1>6, <3>1, <3>3, <4>1, <4>2
    <3>4. QED
      BY <3>2, <3>3
  <2>3. QED
    BY <2>0, <2>1, <2>2
<1>7. QED
  BY <1>2, <1>6 DEF Fits, c, u

\* The head of the queue moves to the end of the batch.
LEMMA HeadMoves ==
  ASSUME NEW acc, NEW base, NEW ids \in Seq(Id), NEW q \in Seq(Id), q # << >>,
         Fits(acc, base, ids), Fits(acc, base \cup Range(ids), q)
  PROVE  /\ Fits(acc, base, Append(ids, Head(q)))
         /\ Fits(acc, base \cup Range(Append(ids, Head(q))), Tail(q))
<1> DEFINE h == Head(q)
           w == Append(ids, h)
           t == Tail(q)
           n == Len(ids)
<1>1. /\ n \in Nat /\ Len(w) = n + 1 /\ w[n + 1] = h /\ h \in Id
      /\ \A i \in 1 .. n : w[i] = ids[i]
      /\ \A i \in 1 .. n + 1 : w[i] \in Id
  OBVIOUS
<1>2. /\ Len(q) \in Nat \ {0} /\ h = q[1] /\ Len(t) = Len(q) - 1
      /\ \A i \in 1 .. Len(t) : t[i] = q[i + 1] /\ i + 1 \in 1 .. Len(q)
      /\ \A i \in 1 .. Len(q) : q[i] \in Id
  OBVIOUS
<1>3. \A x : x \in Range(ids) <=> \E i \in 1 .. n : ids[i] = x
  BY DEF Range
<1>4. Range(w) = Range(ids) \cup {h}
  BY <1>1, AppendRange
<1>5. \A i \in 1 .. n :
        /\ ids[i] \notin base
        /\ \A j \in 1 .. n : ids[j] = ids[i] => j = i
        /\ \A x \in acc : Before(x, ids[i]) => x \in base \/ \E j \in 1 .. i - 1 : ids[j] = x
  BY DEF Fits
<1>6. \A i \in 1 .. Len(q) :
        /\ q[i] \notin base \cup Range(ids)
        /\ \A j \in 1 .. Len(q) : q[j] = q[i] => j = i
        /\ \A x \in acc : Before(x, q[i]) =>
             x \in base \cup Range(ids) \/ \E j \in 1 .. i - 1 : q[j] = x
  BY <1>2 DEF Fits
<1> HIDE DEF h, w, t, n
<1>7. /\ h \notin base /\ h \notin Range(ids)
      /\ \A x \in acc : Before(x, h) => x \in base \cup Range(ids)
  <2>1. 1 \in 1 .. Len(q) /\ 1 .. 1 - 1 = {}
    BY <1>2
  <2>2. QED
    BY <1>2, <1>6, <2>1
<1>8. ASSUME NEW i \in 1 .. n + 1
      PROVE  /\ w[i] \notin base
             /\ \A j \in 1 .. n + 1 : w[j] = w[i] => j = i
             /\ \A x \in acc : Before(x, w[i]) => x \in base \/ \E j \in 1 .. i - 1 : w[j] = x
  <2>0. \A j \in 1 .. n + 1 : j \in 1 .. n \/ j = n + 1
    BY <1>1
  <2>1. CASE i \in 1 .. n
    <3>1. \A j \in 1 .. n + 1 : w[j] = w[i] => j = i
      BY <1>1, <1>3, <1>5, <1>7, <2>0, <2>1
    <3>2. ASSUME NEW x \in acc, Before(x, w[i]) PROVE x \in base \/ \E j \in 1 .. i - 1 : w[j] = x
      <4>1. x \in base \/ \E j \in 1 .. i - 1 : ids[j] = x
        BY <1>1, <1>5, <2>1, <3>2
      <4>2. \A j \in 1 .. i - 1 : w[j] = ids[j]
        BY <1>1, <2>1
      <4>3. QED
        BY <4>1, <4>2
    <3>3. QED
      BY <1>1, <1>5, <2>1, <3>1, <3>2
  <2>2. CASE i = n + 1
    <3>1. w[i] = h /\ 1 .. i - 1 = 1 .. n
      BY <1>1, <2>2
    <3>2. \A j \in 1 .. n + 1 : w[j] = w[i] => j = i
      BY <1>1, <1>3, <1>7, <2>0, <2>2
    <3>3. \A x \in acc : Before(x, w[i]) => x \in base \/ \E j \in 1 .. i - 1 : w[j] = x
      BY <1>1, <1>3, <1>7, <3>1
    <3>4. QED
      BY <1>7, <3>1, <3>2, <3>3
  <2>3. QED
    BY <2>0, <2>1, <2>2
<1>9. Fits(acc, base, w)
  BY <1>1, <1>8 DEF Fits
<1>10. ASSUME NEW i \in 1 .. Len(t)
       PROVE  /\ t[i] \notin base \cup Range(w)
              /\ \A j \in 1 .. Len(t) : t[j] = t[i] => j = i
              /\ \A x \in acc : Before(x, t[i]) =>
                   x \in base \cup Range(w) \/ \E j \in 1 .. i - 1 : t[j] = x
  <2>1. i + 1 \in 1 .. Len(q) /\ t[i] = q[i + 1] /\ 1 \in 1 .. Len(q) /\ i + 1 # 1
    BY <1>2
  <2>2. t[i] # h /\ t[i] \notin base \cup Range(ids)
    BY <1>2, <1>6, <2>1
  <2>3. ASSUME NEW j \in 1 .. Len(t), t[j] = t[i] PROVE j = i
    <3>1. j + 1 \in 1 .. Len(q) /\ q[j + 1] = q[i + 1]
      BY <1>2, <2>1, <2>3
    <3>2. j + 1 = i + 1
      BY <1>6, <2>1, <3>1
    <3>3. QED
      BY <1>2, <3>2
  <2>4. ASSUME NEW x \in acc, Before(x, t[i])
        PROVE  x \in base \cup Range(w) \/ \E j \in 1 .. i - 1 : t[j] = x
    <3>1. CASE x \in base \cup Range(ids)
      BY <1>4, <3>1
    <3>2. CASE \E j \in 1 .. (i + 1) - 1 : q[j] = x
      <4>1. PICK j \in 1 .. (i + 1) - 1 : q[j] = x
        BY <3>2
      <4>2. CASE j = 1
        BY <1>2, <1>4, <4>1, <4>2
      <4>3. CASE j # 1
        <5>1. j - 1 \in 1 .. i - 1 /\ j - 1 \in 1 .. Len(t) /\ (j - 1) + 1 = j
          BY <1>2, <4>3
        <5>2. t[j - 1] = x
          BY <1>2, <4>1, <5>1
        <5>3. QED
          BY <5>1, <5>2
      <4>4. QED
        BY <4>2, <4>3
    <3>3. QED
      BY <1>6, <2>1, <2>4, <3>1, <3>2
  <2>5. QED
    BY <1>4, <2>2, <2>3, <2>4
<1>11. Fits(acc, base \cup Range(w), t)
  BY <1>10 DEF Fits
<1>12. QED
  BY <1>9, <1>11 DEF h, w, t

\* An entry accepted now comes after all that its producer had accepted.
LEMMA NewComesLast ==
  ASSUME NEW acc, NEW base, NEW ids, NEW new,
         \A i \in 1 .. Len(ids) : ids[i] \in Id => ids[i] \in acc,
         \A y \in acc : ~Before(new, y),
         Fits(acc, base, ids)
  PROVE  Fits(acc \cup {new}, base, ids)
<1> SUFFICES ASSUME NEW i \in 1 .. Len(ids), ids[i] \in Id
             PROVE  /\ ids[i] \notin base
                    /\ \A j \in 1 .. Len(ids) : ids[j] = ids[i] => j = i
                    /\ \A x \in acc \cup {new} : Before(x, ids[i]) =>
                         x \in base \/ \E j \in 1 .. i - 1 : ids[j] = x
  BY DEF Fits
<1>1. /\ ids[i] \notin base
      /\ \A j \in 1 .. Len(ids) : ids[j] = ids[i] => j = i
      /\ \A x \in acc : Before(x, ids[i]) => x \in base \/ \E j \in 1 .. i - 1 : ids[j] = x
  BY DEF Fits
<1>2. ids[i] \in acc
  OBVIOUS
<1>3. QED
  BY <1>1, <1>2

LEMMA NewFits ==
  ASSUME NEW acc, NEW base, NEW q \in Seq(Id), NEW new \in Id,
         Fits(acc, base, q), new \notin base \cup Range(q),
         ~Before(new, new), acc \subseteq base \cup Range(q) \cup {new}
  PROVE  Fits(acc, base, Append(q, new))
<1> DEFINE w == Append(q, new)
           n == Len(q)
<1>1. /\ n \in Nat /\ Len(w) = n + 1 /\ w[n + 1] = new
      /\ \A i \in 1 .. n : w[i] = q[i]
      /\ \A i \in 1 .. n + 1 : w[i] \in Id
  OBVIOUS
<1>2. \A x : x \in Range(q) <=> \E i \in 1 .. n : q[i] = x
  BY DEF Range
<1>3. \A i \in 1 .. n :
        /\ q[i] \notin base
        /\ \A j \in 1 .. n : q[j] = q[i] => j = i
        /\ \A x \in acc : Before(x, q[i]) => x \in base \/ \E j \in 1 .. i - 1 : q[j] = x
  BY DEF Fits
<1> HIDE DEF w, n
<1>4. ASSUME NEW i \in 1 .. n + 1
      PROVE  /\ w[i] \notin base
             /\ \A j \in 1 .. n + 1 : w[j] = w[i] => j = i
             /\ \A x \in acc : Before(x, w[i]) => x \in base \/ \E j \in 1 .. i - 1 : w[j] = x
  <2>0. \A j \in 1 .. n + 1 : j \in 1 .. n \/ j = n + 1
    BY <1>1
  <2>1. CASE i \in 1 .. n
    <3>1. \A j \in 1 .. n + 1 : w[j] = w[i] => j = i
      BY <1>1, <1>2, <1>3, <2>0, <2>1
    <3>2. ASSUME NEW x \in acc, Before(x, w[i]) PROVE x \in base \/ \E j \in 1 .. i - 1 : w[j] = x
      <4>1. x \in base \/ \E j \in 1 .. i - 1 : q[j] = x
        BY <1>1, <1>3, <2>1, <3>2
      <4>2. \A j \in 1 .. i - 1 : w[j] = q[j]
        BY <1>1, <2>1
      <4>3. QED
        BY <4>1, <4>2
    <3>3. QED
      BY <1>1, <1>3, <2>1, <3>1, <3>2
  <2>2. CASE i = n + 1
    <3>1. w[i] = new /\ 1 .. i - 1 = 1 .. n
      BY <1>1, <2>2
    <3>2. \A j \in 1 .. n + 1 : w[j] = w[i] => j = i
      BY <1>1, <1>2, <2>0, <2>2
    <3>3. \A x \in acc : Before(x, w[i]) => x \in base \/ \E j \in 1 .. i - 1 : w[j] = x
      BY <1>1, <1>2, <3>1
    <3>4. QED
      BY <3>1, <3>2, <3>3
  <2>3. QED
    BY <2>0, <2>1, <2>2
<1>5. QED
  BY <1>1, <1>4 DEF Fits, w

LEMMA BatchFits ==
  ASSUME NEW acc, NEW base, NEW ids \in Seq(Id), NEW entries \in Seq(Own),
         Aligned(ids, entries), Len(ids) = Len(entries), Fits(acc, base, ids)
  PROVE  Fits(acc, base, IdSeq(entries))
<1>1. Len(ids) \in Nat /\ \A i \in 1 .. Len(ids) : Len(entries) - Len(ids) + i = i
  OBVIOUS
<1>2. \A i \in 1 .. Len(ids) : entries[i].id = ids[i]
  BY <1>1 DEF Aligned
<1>3. Len(IdSeq(entries)) = Len(ids) /\ \A i \in 1 .. Len(ids) : IdSeq(entries)[i] = ids[i]
  BY <1>2, IdSeqFacts
<1>4. ASSUME NEW i \in 1 .. Len(ids), ids[i] \in Id
      PROVE  /\ ids[i] \notin base
             /\ \A j \in 1 .. Len(ids) : ids[j] = ids[i] => j = i
             /\ \A x \in acc : Before(x, ids[i]) =>
                  x \in base \/ \E j \in 1 .. i - 1 : IdSeq(entries)[j] = x
  <2>1. \A j \in 1 .. i - 1 : IdSeq(entries)[j] = ids[j]
    BY <1>1, <1>3
  <2>2. QED
    BY <1>4, <2>1 DEF Fits
<1>5. QED
  BY <1>3, <1>4 DEF Fits

LEMMA FitsEmpty == \A acc, base : Fits(acc, base, << >>) /\ Fits(acc, base, IdSeq(<< >>))
<1>1. Len(<< >>) = 0
  OBVIOUS
<1>2. Len(IdSeq(<< >>)) = 0
  <2>1. << >> \in Seq(Own)
    OBVIOUS
  <2>2. QED
    BY <1>1, <2>1, IdSeqFacts
<1>3. \A i \in 1 .. 0 : FALSE
  OBVIOUS
<1>4. QED
  BY <1>1, <1>2, <1>3 DEF Fits

\* Foreign entries stand in nobody's way.
LEMMA BaseGrows ==
  ASSUME NEW acc, NEW base, NEW more, NEW ids, Fits(acc, base, ids), base \subseteq more,
         \A x \in more : x \in Id => x \in base
  PROVE  Fits(acc, more, ids)
BY DEF Fits

LEMMA OrderInit == Init => OrderInv
<1> SUFFICES ASSUME Init PROVE OrderInv
  OBVIOUS
<1>1. /\ writer.pc = "recv" /\ log = << >> /\ late = {} /\ queue = << >> /\ Batch = << >>
      /\ \A p \in Producers : accepted[p] = << >>
  BY DEF Init, Batch
<1>2. Numbered
  <2>1. DOMAIN << >> = {}
    OBVIOUS
  <2>2. QED
    BY <1>1, <2>1 DEF Numbered
<1>3. Accepted = {}
  BY <1>1, EmptyRange DEF Accepted
<1>4. LineOK /\ LateOK
  BY <1>1, <1>3, FitsEmpty DEF LineOK, LateOK
<1>5. QED
  BY <1>1, <1>2, <1>4, FitsEmpty DEF OrderInv

\* Steps that leave the line of entries as it is.
LEMMA LineStays ==
  ASSUME OrderInv, UNCHANGED <<accepted, queue, log, ver, late, stopped>>,
         ~stopped /\ Receiving' => Receiving /\ Batch' = Batch,
         writer'.pc \in {"cas", "conflict"} => ~stopped'
  PROVE  OrderInv'
<1>1. Accepted' = Accepted /\ Numbered'
  BY DEF Accepted, OrderInv, Numbered
<1>2. LineOK'
  BY <1>1 DEF OrderInv, LineOK
<1>3. LateOK'
  BY <1>1 DEF OrderInv, LateOK
<1>4. QED
  BY <1>1, <1>2, <1>3 DEF OrderInv

\* A failed batch stops the adapter; nothing of it is in the store.
LEMMA StopOrder ==
  ASSUME TypeInv, OrderInv, UNCHANGED <<accepted, log, ver, late>>,
         NEW entries, Fail("NotApplied", entries)
  PROVE  OrderInv'
<1>1. stopped' = TRUE /\ writer'.pc = "reply"
  BY FailFields DEF Fail
<1>2. Accepted' = Accepted /\ Numbered'
  BY DEF Accepted, OrderInv, Numbered
<1>3. LineOK' /\ LateOK'
  BY <1>1, <1>2 DEF OrderInv, LineOK, LateOK
<1>4. QED
  BY <1>1, <1>2, <1>3 DEF OrderInv

\* What lands puts every other request out of date.
LEMMA LandOrder ==
  ASSUME TypeInv, OrderInv, UNCHANGED accepted, late' \subseteq late, stopped => stopped',
         NEW seen, NEW entries \in Seq(LogEntry), Land(seen, entries),
         Fits(Accepted, Ids(log), IdSeq(entries))
  PROVE  /\ Numbered' /\ LateOK' /\ Accepted' = Accepted /\ Fits(Accepted, {}, IdSeq(log'))
         /\ Ids(log') = Ids(log) \cup Ids(entries)
<1>1. log \in Seq(LogEntry) /\ log' = log \o entries /\ ver' = ver + 1
  BY DEF TypeInv, Land
<1>2. Accepted' = Accepted /\ Numbered'
  BY DEF Accepted, OrderInv, Numbered
<1>3. Fits(Accepted, {}, IdSeq(log'))
  BY <1>1, LandsInOrder DEF OrderInv
<1>4. LateOK'
  <2>1. ASSUME NEW r \in late' PROVE r.seen <= ver' /\ r.seen # ver'
    <3>1. r.seen \in Nat /\ ver \in Nat /\ r.seen <= ver
      BY <2>1 DEF TypeInv, OrderInv, LateOK
    <3>2. QED
      BY <1>1, <3>1
  <2>2. QED
    BY <2>1 DEF OrderInv, LateOK
<1>5. QED
  BY <1>1, <1>2, <1>3, <1>4, IdsOfConcat

\* The batch in flight fits behind the log.
LEMMA FlightFits ==
  ASSUME TypeInv, TruthInv, OrderInv, writer.pc \in {"cas", "conflict"}
  PROVE  /\ ~stopped /\ Batch = writer.ids /\ late = {}
         /\ Fits(Accepted, Ids(log), IdSeq(writer.entries))
         /\ Fits(Accepted, Ids(log) \cup Range(writer.ids), queue)
         /\ Accepted \subseteq Ids(log) \cup Range(writer.ids) \cup Range(queue)
<1>1. ~stopped /\ Receiving /\ Batch = writer.ids /\ late = {}
  BY DEF OrderInv, Receiving, Batch, LateOK
<1>2. /\ Fits(Accepted, Ids(log), writer.ids)
      /\ Fits(Accepted, Ids(log) \cup Range(writer.ids), queue)
      /\ Accepted \subseteq Ids(log) \cup Range(writer.ids) \cup Range(queue)
  BY <1>1 DEF OrderInv, LineOK
<1>3. /\ writer.ids \in Seq(Id) /\ writer.entries \in Seq(Own)
      /\ Aligned(writer.ids, writer.entries) /\ Len(writer.ids) = Len(writer.entries)
  BY DEF TypeInv, WriterTypeOK, TruthInv, BatchOK
<1>4. Fits(Accepted, Ids(log), IdSeq(writer.entries))
  BY <1>2, <1>3, BatchFits
<1>5. QED
  BY <1>1, <1>2, <1>4

LEMMA CommitOrder ==
  ASSUME TypeInv, TruthInv, OrderInv, Commit
  PROVE  OrderInv'
<1>1. /\ writer.pc = "cas" /\ Land(writer.seen, writer.entries)
      /\ UNCHANGED <<accepted, queue, stopped, late>>
  BY DEF Commit, prodVars
<1>2. writer'.pc = "reply"
  BY DEF Commit, TypeInv, WriterTypeOK
<1>3. Ids(writer.entries) = Range(writer.ids) /\ writer.entries \in Seq(LogEntry)
  BY <1>1, InFlight
<1>4. /\ ~stopped
      /\ Fits(Accepted, Ids(log), IdSeq(writer.entries))
      /\ Fits(Accepted, Ids(log) \cup Range(writer.ids), queue)
      /\ Accepted \subseteq Ids(log) \cup Range(writer.ids) \cup Range(queue)
  BY <1>1, FlightFits
<1>5. /\ Numbered' /\ LateOK' /\ Accepted' = Accepted /\ Fits(Accepted, {}, IdSeq(log'))
      /\ Ids(log') = Ids(log) \cup Range(writer.ids)
  BY <1>1, <1>3, <1>4, LandOrder
<1>6. Batch' = << >> /\ Range(Batch') = {}
  BY <1>2, EmptyRange DEF Batch
<1>7. Ids(log') \cup Range(Batch') = Ids(log) \cup Range(writer.ids)
  BY <1>5, <1>6
<1>8. LineOK'
  BY <1>1, <1>4, <1>5, <1>6, <1>7, FitsEmpty DEF LineOK
<1>9. QED
  BY <1>2, <1>5, <1>8 DEF OrderInv

LEMMA WriteUnansweredOrder ==
  ASSUME TypeInv, TruthInv, OrderInv, WriteUnanswered
  PROVE  OrderInv'
<1>1. /\ writer.pc = "cas" /\ Fail("Unknown", writer.entries) /\ UNCHANGED accepted
  BY DEF WriteUnanswered, prodVars
<1>2. stopped' = TRUE /\ writer'.pc = "reply"
  BY <1>1, FailFields DEF Fail
<1>3. LineOK'
  BY <1>2 DEF LineOK
<1>4. late = {} /\ Fits(Accepted, Ids(log), IdSeq(writer.entries))
  BY <1>1, FlightFits
<1>5. CASE Land(writer.seen, writer.entries) /\ UNCHANGED late
  <2>1. writer.entries \in Seq(LogEntry)
    BY <1>1, InFlight
  <2>2. Numbered' /\ LateOK' /\ Accepted' = Accepted /\ Fits(Accepted, {}, IdSeq(log'))
    BY <1>1, <1>2, <1>4, <1>5, <2>1, LandOrder
  <2>3. QED
    BY <1>2, <1>3, <2>2 DEF OrderInv
<1>6. CASE /\ late' = late \cup {[seen |-> writer.seen, entries |-> writer.entries]}
           /\ UNCHANGED <<log, ver>>
  <2>1. Accepted' = Accepted /\ Numbered'
    BY <1>1 DEF Accepted, OrderInv, Numbered
  <2>2. \A r \in late' : r.seen = writer.seen /\ r.entries = writer.entries
    BY <1>4, <1>6
  <2>3. writer.seen <= ver
    BY DEF TruthInv, ViewOK
  <2>4. LateOK'
    BY <1>2, <1>4, <1>6, <2>1, <2>2, <2>3 DEF LateOK
  <2>5. QED
    BY <1>2, <1>3, <1>6, <2>1, <2>4 DEF OrderInv
<1>7. QED
  BY <1>5, <1>6 DEF WriteUnanswered

LEMMA PanicOrder ==
  ASSUME TypeInv, TruthInv, OrderInv, Panic
  PROVE  OrderInv'
<1>1. /\ writer.pc \in {"cas", "conflict"} /\ UNCHANGED <<accepted, late, stopped>>
      /\ writer' = [writer EXCEPT !.pc = "panicked"]
  BY DEF Panic, prodVars
<1>2. writer'.pc = "panicked"
  BY <1>1 DEF TypeInv, WriterTypeOK
<1>3. LineOK'
  BY <1>2 DEF LineOK, Receiving
<1>4. CASE Land(writer.seen, writer.entries)
  <2>1. writer.entries \in Seq(LogEntry) /\ Fits(Accepted, Ids(log), IdSeq(writer.entries))
    BY <1>1, InFlight, FlightFits
  <2>2. Numbered' /\ LateOK' /\ Accepted' = Accepted /\ Fits(Accepted, {}, IdSeq(log'))
    BY <1>1, <1>4, <2>1, LandOrder
  <2>3. QED
    BY <1>2, <1>3, <2>2 DEF OrderInv
<1>5. CASE UNCHANGED <<log, ver>>
  <2>1. Accepted' = Accepted /\ Numbered'
    BY <1>1 DEF Accepted, OrderInv, Numbered
  <2>2. LateOK'
    BY <1>1, <1>5, <2>1 DEF OrderInv, LateOK
  <2>3. QED
    BY <1>2, <1>3, <1>5, <2>1, <2>2 DEF OrderInv
<1>6. QED
  BY <1>4, <1>5 DEF Panic

LEMMA OtherOrder ==
  ASSUME TypeInv, TruthInv, OrderInv, Other
  PROVE  OrderInv'
<1>1. PICK batch \in {<< >>, <<Foreign>>} : Land(ver, batch)
  BY DEF Other
<1>2. UNCHANGED <<accepted, queue, stopped, writer, late>>
  BY DEF Other, prodVars
<1>3. /\ batch \in Seq(LogEntry) /\ Ids(batch) \subseteq {<< >>}
      /\ \A i \in 1 .. Len(batch) : batch[i].id \notin Id
  <2>1. Foreign \in LogEntry /\ Foreign.id = << >>
    BY DEF Foreign, Entry, LogEntry
  <2>2. DOMAIN <<Foreign>> = {1} /\ <<Foreign>>[1] = Foreign /\ DOMAIN << >> = {}
    OBVIOUS
  <2>3. << >> \in Seq(LogEntry) /\ <<Foreign>> \in Seq(LogEntry)
    BY <2>1
  <2>4. Ids(<< >>) = {} /\ Ids(<<Foreign>>) = {<< >>}
    BY <2>1, <2>2, Zenon DEF Ids
  <2>5. batch \in Seq(LogEntry) /\ Ids(batch) \subseteq {<< >>}
    BY <2>3, <2>4
  <2>6. \A i \in 1 .. Len(batch) : batch[i].id \in Ids(batch)
    BY <2>5, IdSeqFacts
  <2>7. QED
    BY <2>5, <2>6, NoEmptyId
<1>4. Fits(Accepted, Ids(log), IdSeq(batch))
  BY <1>3, IdSeqFacts DEF Fits
<1>5. /\ Numbered' /\ LateOK' /\ Accepted' = Accepted /\ Fits(Accepted, {}, IdSeq(log'))
      /\ Ids(log') = Ids(log) \cup Ids(batch)
  BY <1>1, <1>2, <1>3, <1>4, LandOrder
<1>6. LineOK'
  <2> SUFFICES ASSUME ~stopped, Receiving
               PROVE  /\ Fits(Accepted, Ids(log'), Batch)
                      /\ Fits(Accepted, Ids(log') \cup Range(Batch), queue)
                      /\ Accepted \subseteq Ids(log') \cup Range(Batch) \cup Range(queue)
    BY <1>2, <1>5 DEF LineOK, Receiving, Batch
  <2>1. /\ Fits(Accepted, Ids(log), Batch)
        /\ Fits(Accepted, Ids(log) \cup Range(Batch), queue)
        /\ Accepted \subseteq Ids(log) \cup Range(Batch) \cup Range(queue)
    BY DEF OrderInv, LineOK
  <2>2. /\ Ids(log) \subseteq Ids(log') /\ \A x \in Ids(log') : x \in Id => x \in Ids(log)
    BY <1>3, <1>5, NoEmptyId
  <2>3. Fits(Accepted, Ids(log'), Batch)
    BY <2>1, <2>2, BaseGrows
  <2>4. Fits(Accepted, Ids(log') \cup Range(Batch), queue)
    <3> DEFINE A == Ids(log) \cup Range(Batch)
               B == Ids(log') \cup Range(Batch)
    <3>1. A \subseteq B /\ (\A x \in B : x \in Id => x \in A) /\ Fits(Accepted, A, queue)
      BY <2>1, <2>2
    <3> HIDE DEF A, B
    <3>2. Fits(Accepted, B, queue)
      BY <3>1, BaseGrows
    <3>3. QED
      BY <3>2 DEF B
  <2>5. QED
    BY <2>1, <2>2, <2>3, <2>4
<1>7. QED
  BY <1>2, <1>5, <1>6 DEF OrderInv

LEMMA LateOrder ==
  ASSUME TypeInv, OrderInv, Late
  PROVE  OrderInv'
<1>1. PICK r \in late : Land(r.seen, r.entries) /\ late' = late \ {r}
  BY DEF Late
<1>2. UNCHANGED <<accepted, stopped, writer>> /\ stopped
  BY <1>1 DEF Late, prodVars, OrderInv, LateOK
<1>3. r.entries \in Seq(LogEntry)
  BY <1>1, OwnSeq DEF TypeInv
<1>4. Fits(Accepted, Ids(log), IdSeq(r.entries))
  BY <1>1 DEF Land, OrderInv, LateOK
<1>5. Numbered' /\ LateOK' /\ Accepted' = Accepted /\ Fits(Accepted, {}, IdSeq(log'))
  BY <1>1, <1>2, <1>3, <1>4, LandOrder
<1>6. LineOK'
  BY <1>2 DEF LineOK
<1>7. QED
  BY <1>2, <1>5, <1>6 DEF OrderInv

LEMMA TakeOrder ==
  ASSUME TypeInv, TypeInv', TruthInv, OrderInv, Take
  PROVE  OrderInv'
<1>1. /\ queue # << >> /\ queue' = Tail(queue) /\ writer.pc \in {"recv", "fill"}
      /\ UNCHANGED <<accepted, stopped, log, ver, late>>
  BY DEF Take, prodVars, storeVars
<1>2. writer'.pc = "fill" /\ writer'.ids = Append(writer.ids, Head(queue))
  BY DEF Take, TypeInv, WriterTypeOK
<1>3. queue \in Seq(Id) /\ writer.ids \in Seq(Id)
  BY DEF TypeInv, WriterTypeOK
<1>4. Batch = writer.ids /\ Batch' = Append(writer.ids, Head(queue))
  BY <1>1, <1>2 DEF Batch, TruthInv, BatchOK
<1>5. Accepted' = Accepted /\ Numbered' /\ LateOK'
  BY <1>1 DEF Accepted, OrderInv, Numbered, LateOK
<1>6. LineOK'
  <2> SUFFICES ASSUME ~stopped
               PROVE  /\ Fits(Accepted, Ids(log), Batch')
                      /\ Fits(Accepted, Ids(log) \cup Range(Batch'), queue')
                      /\ Accepted \subseteq Ids(log) \cup Range(Batch') \cup Range(queue')
    BY <1>1, <1>5 DEF LineOK
  <2>1. /\ Fits(Accepted, Ids(log), writer.ids)
        /\ Fits(Accepted, Ids(log) \cup Range(writer.ids), queue)
        /\ Accepted \subseteq Ids(log) \cup Range(writer.ids) \cup Range(queue)
    BY <1>1, <1>4 DEF OrderInv, LineOK, Receiving
  <2>2. /\ Fits(Accepted, Ids(log), Batch')
        /\ Fits(Accepted, Ids(log) \cup Range(Batch'), queue')
    BY <1>1, <1>3, <1>4, <2>1, HeadMoves
  <2>3. Range(queue) = {Head(queue)} \cup Range(queue')
    BY <1>1, <1>3, TailRange
  <2>4. Range(Batch') = Range(writer.ids) \cup {Head(queue)}
    <3>1. Head(queue) \in Id
      BY <1>1, <1>3
    <3>2. QED
      BY <1>3, <1>4, <3>1, AppendRange
  <2>5. QED
    BY <2>1, <2>2, <2>3, <2>4
<1>7. QED
  BY <1>1, <1>2, <1>5, <1>6 DEF OrderInv

LEMMA EnqueueOrder ==
  ASSUME TypeInv, TypeInv', TruthInv, OrderInv, NEW p \in Producers,
         prod[p].pc \in {"try", "full", "send"}, Enqueue(p),
         UNCHANGED <<stopped, writer, log, ver, late>>
  PROVE  OrderInv'
<1> DEFINE new == <<p, prod[p].n + 1>>
           old == accepted[p]
<1>1. new \in Id /\ new[1] = p /\ new[2] = prod[p].n + 1 /\ prod[p].n \in Nat
  BY NewId DEF TypeInv, ProducersOK
<1>2. /\ Receiving /\ queue' = Append(queue, new)
      /\ accepted' = [accepted EXCEPT ![p] = Append(@, new)]
  BY DEF Enqueue
<1>3. accepted \in [Producers -> Seq(Id)] /\ queue \in Seq(Id)
  BY DEF TypeInv, ProducersOK
<1> HIDE DEF new
<1>4. \A q \in Producers : accepted'[q] = IF q = p THEN Append(old, new) ELSE accepted[q]
  BY <1>2, <1>3
<1>5. ASSUME NEW y \in Accepted PROVE y \in Id /\ y # new /\ ~Before(new, y)
  <2>1. PICK q \in Producers : y \in Range(accepted[q])
    BY <1>5 DEF Accepted
  <2>2. y \in Id /\ y[1] = q /\ y[2] <= prod[q].n
    BY <1>5, <2>1 DEF Accepted, TruthInv, NumbersOK
  <2>3. y[2] \in Nat
    BY <2>2, ProducerAssumption DEF Id
  <2>4. QED
    BY <1>1, <2>2, <2>3 DEF Before
<1>6. Accepted' = Accepted \cup {new}
  <2>1. Range(Append(old, new)) = Range(old) \cup {new}
    BY <1>1, <1>3, AppendRange
  <2>2. \A q \in Producers : Range(accepted'[q]) = IF q = p THEN Range(accepted[q]) \cup {new}
                                                            ELSE Range(accepted[q])
    BY <1>4, <2>1
  <2>3. QED
    BY <1>1, <2>2 DEF Accepted
<1>7. Numbered'
  <2> SUFFICES ASSUME NEW q \in Producers, NEW m \in DOMAIN accepted'[q],
                      NEW k \in DOMAIN accepted'[q], m < k
               PROVE  accepted'[q][m][2] < accepted'[q][k][2]
    BY DEF Numbered
  <2>1. CASE q # p
    BY <1>4, <2>1 DEF OrderInv, Numbered
  <2>2. CASE q = p
    <3>1. /\ old \in Seq(Id) /\ accepted'[q] = Append(old, new)
      BY <1>3, <1>4, <2>2
    <3> DEFINE n == Len(old)
               all == Append(old, new)
    <3>2. /\ n \in Nat /\ DOMAIN old = 1 .. n /\ DOMAIN all = 1 .. n + 1
          /\ all[n + 1] = new /\ \A i \in 1 .. n : all[i] = old[i]
      BY <1>1, <3>1
    <3>3. accepted'[q] = all
      BY <3>1
    <3> HIDE DEF n, all, old
    <3>4. m \in 1 .. n /\ (k \in 1 .. n \/ k = n + 1)
      BY <3>2, <3>3
    <3>5. CASE k \in 1 .. n
      <4>1. old[m][2] < old[k][2]
        BY <3>2, <3>4, <3>5 DEF OrderInv, Numbered, old
      <4>2. QED
        BY <3>2, <3>3, <3>4, <3>5, <4>1
    <3>6. CASE k = n + 1
      <4>1. old[m] \in Id /\ old[m] \in Range(old)
        BY <3>1, <3>2, <3>4 DEF Range
      <4>2. old[m][2] <= prod[p].n
        BY <4>1 DEF TruthInv, NumbersOK, old
      <4>3. old[m][2] \in Nat
        BY <4>1, ProducerAssumption DEF Id
      <4>4. old[m][2] < new[2]
        BY <1>1, <4>2, <4>3
      <4>5. QED
        BY <3>2, <3>3, <3>4, <3>6, <4>4
    <3>7. QED
      BY <3>4, <3>5, <3>6
  <2>3. QED
    BY <2>1, <2>2
<1>8. /\ \A x \in Ids(log) : x \in Id => x \in Accepted
      /\ \A r \in late : Ids(r.entries) \subseteq Accepted
      /\ Range(queue) \subseteq Accepted /\ Range(writer.ids) \subseteq Accepted
  <2>1. Range(queue) \cup Range(writer.ids) \cup (Reached \cap Id) \subseteq Accepted
    BY DEF TruthInv, PlacesOK
  <2>2. ASSUME NEW r \in late PROVE Ids(r.entries) \subseteq Id
    <3>1. r.entries \in Seq(Own)
      BY <2>2 DEF TypeInv
    <3>2. ASSUME NEW e \in Own PROVE e.id \in Id
      BY DEF Own
    <3>3. \A i \in 1 .. Len(r.entries) : r.entries[i] \in Own
      BY <3>1
    <3>4. \A i \in 1 .. Len(r.entries) : r.entries[i].id \in Id
      BY <3>2, <3>3
    <3>5. QED
      BY <3>1, <3>4, IdSeqFacts
  <2>3. QED
    BY <2>1, <2>2 DEF Reached
<1>9. ASSUME NEW entries \in Seq(LogEntry), NEW base, Fits(Accepted, base, IdSeq(entries)),
             \A x \in Ids(entries) : x \in Id => x \in Accepted
      PROVE  Fits(Accepted \cup {new}, base, IdSeq(entries))
  <2>1. \A i \in 1 .. Len(IdSeq(entries)) : IdSeq(entries)[i] \in Ids(entries)
    BY IdSeqFacts
  <2>2. QED
    BY <1>5, <1>9, <2>1, NewComesLast
<1>10. ASSUME NEW ids \in Seq(Id), NEW base, Fits(Accepted, base, ids), Range(ids) \subseteq Accepted
       PROVE  Fits(Accepted \cup {new}, base, ids)
  <2>1. \A i \in 1 .. Len(ids) : ids[i] \in Accepted
    BY <1>10 DEF Range
  <2>2. QED
    BY <1>5, <1>10, <2>1, NewComesLast
<1>11. Fits(Accepted', {}, IdSeq(log'))
  BY <1>6, <1>8, <1>9 DEF OrderInv, TypeInv
<1>12. LateOK'
  <2> SUFFICES ASSUME NEW r \in late, r.seen = ver
               PROVE  Fits(Accepted', Ids(log), IdSeq(r.entries))
    BY DEF OrderInv, LateOK
  <2>1. r.entries \in Seq(LogEntry) /\ Fits(Accepted, Ids(log), IdSeq(r.entries))
    BY OwnSeq DEF TypeInv, OrderInv, LateOK
  <2>2. QED
    BY <1>6, <1>8, <1>9, <2>1
<1>13. LineOK'
  <2> SUFFICES ASSUME ~stopped
               PROVE  /\ Fits(Accepted', Ids(log), Batch)
                      /\ Fits(Accepted', Ids(log) \cup Range(Batch), queue')
                      /\ Accepted' \subseteq Ids(log) \cup Range(Batch) \cup Range(queue')
    BY DEF LineOK, Batch
  <2>1. /\ Fits(Accepted, Ids(log), Batch)
        /\ Fits(Accepted, Ids(log) \cup Range(Batch), queue)
        /\ Accepted \subseteq Ids(log) \cup Range(Batch) \cup Range(queue)
    BY <1>2 DEF OrderInv, LineOK
  <2>2. Batch \in Seq(Id) /\ Range(Batch) \subseteq Accepted
    BY <1>8, EmptyRange DEF Batch, TypeInv, WriterTypeOK
  <2>3. Range(queue') = Range(queue) \cup {new}
    BY <1>1, <1>2, <1>3, AppendRange
  <2> DEFINE base == Ids(log) \cup Range(Batch)
  <2>4. new \notin base \cup Range(queue)
    BY <1>1, <1>5, <1>8, <2>2
  <2>5. Fits(Accepted', base, queue) /\ Fits(Accepted', Ids(log), Batch)
    BY <1>3, <1>6, <1>8, <1>10, <2>1, <2>2
  <2>6. Accepted' \subseteq base \cup Range(queue) \cup {new} /\ ~Before(new, new)
    BY <1>1, <1>6, <2>1 DEF Before
  <2> HIDE DEF base
  <2>7. Fits(Accepted', base, Append(queue, new))
    BY <1>1, <1>3, <2>4, <2>5, <2>6, NewFits
  <2>8. QED
    BY <1>2, <2>3, <2>5, <2>6, <2>7 DEF base
<1>14. QED
  BY <1>7, <1>11, <1>12, <1>13 DEF OrderInv

LEMMA ReconcileOrder ==
  ASSUME TypeInv, OrderInv, Reconcile
  PROVE  OrderInv'
<1>1. writer.pc = "conflict" /\ UNCHANGED <<accepted, queue, log, ver, late>>
  BY DEF Reconcile, prodVars, storeVars
<1>2. ASSUME NEW entries, Fail("NotApplied", entries) PROVE OrderInv'
  BY <1>1, <1>2, StopOrder
<1>3. ASSUME NEW entries,
             writer' = [writer EXCEPT !.pc = "cas", !.attempt = @ + 1,
                                      !.entries = entries, !.attempted = entries],
             UNCHANGED stopped
      PROVE  OrderInv'
  <2>1. writer'.pc = "cas" /\ writer'.ids = writer.ids /\ ~stopped
    BY <1>1, <1>3 DEF TypeInv, WriterTypeOK, OrderInv
  <2>2. Batch' = Batch /\ Receiving
    BY <1>1, <2>1 DEF Batch, Receiving
  <2>3. QED
    BY <1>1, <1>3, <2>1, <2>2, LineStays
<1>4. QED
  BY <1>2, <1>3 DEF Reconcile

LEMMA OrderNext == TypeInv /\ TypeInv' /\ TruthInv /\ OrderInv /\ [Next]_vars => OrderInv'
<1> SUFFICES ASSUME TypeInv, TypeInv', TruthInv, OrderInv, [Next]_vars PROVE OrderInv'
  OBVIOUS
<1>0. writer.pc \in {"cas", "conflict"} => ~stopped
  BY DEF OrderInv
<1>1. ASSUME NEW p \in Producers, ProducerStep(p) PROVE OrderInv'
  <2>1. UNCHANGED <<stopped, writer, log, ver, late>>
    BY <1>1 DEF ProducerStep
  <2>2. CASE prod[p].pc \in {"try", "full", "send"} /\ Enqueue(p)
    BY <2>1, <2>2, EnqueueOrder
  <2>3. CASE UNCHANGED <<queue, accepted>>
    BY <1>0, <2>1, <2>3, LineStays DEF Batch, Receiving
  <2>4. QED
    BY <1>1, <2>2, <2>3, ProducerMoves
<1>2. CASE Take
  BY <1>2, TakeOrder
<1>3. CASE StartWrite
  <2>1. writer.pc = "fill" /\ UNCHANGED <<accepted, queue, log, ver, late>>
    BY <1>3 DEF StartWrite, prodVars, storeVars
  <2>2. CASE Fail("NotApplied", writer.entries)
    BY <2>1, <2>2, StopOrder
  <2>3. CASE /\ ~stopped /\ UNCHANGED stopped
             /\ writer' = [writer EXCEPT !.pc = "cas", !.attempt = 1, !.attempted = writer.entries]
    <3>1. writer'.pc = "cas" /\ writer'.ids = writer.ids
      BY <2>3 DEF TypeInv, WriterTypeOK
    <3>2. QED
      BY <2>1, <2>3, <3>1, LineStays DEF Batch, Receiving
  <2>4. QED
    BY <1>3, <2>2, <2>3 DEF StartWrite
<1>4. CASE Commit
  BY <1>4, CommitOrder
<1>5. CASE WriteFails
  BY <1>5, StopOrder DEF WriteFails, prodVars, storeVars
<1>6. CASE WriteUnanswered
  BY <1>6, WriteUnansweredOrder
<1>7. CASE Conflict
  <2>1. writer.pc = "cas" /\ UNCHANGED <<accepted, queue, stopped, log, ver, late>>
    BY <1>7 DEF Conflict, prodVars, storeVars
  <2>2. writer'.pc = "conflict" /\ writer'.ids = writer.ids
    BY <1>7 DEF Conflict, TypeInv, WriterTypeOK
  <2>3. QED
    BY <1>0, <2>1, <2>2, LineStays DEF Batch, Receiving
<1>8. CASE Reconcile
  BY <1>8, ReconcileOrder
<1>9. CASE Reply
  <2>1. writer.pc = "reply" /\ UNCHANGED <<accepted, queue, stopped, log, ver, late>>
    BY <1>9 DEF Reply, prodVars, storeVars
  <2>2. writer'.pc \in {"reply", "recv"}
    BY <1>9 DEF Reply, TypeInv, WriterTypeOK
  <2>3. QED
    BY <2>1, <2>2, LineStays DEF Batch, Receiving
<1>10. CASE Close
  <2>1. writer'.pc = "ended" /\ UNCHANGED <<accepted, queue, stopped, log, ver, late>>
    BY <1>10 DEF Close, prodVars, storeVars, TypeInv, WriterTypeOK
  <2>2. QED
    BY <2>1, LineStays DEF Receiving
<1>11. CASE Panic
  BY <1>11, PanicOrder
<1>12. CASE Other
  BY <1>12, OtherOrder
<1>13. CASE Late
  BY <1>13, LateOrder
<1>14. CASE UNCHANGED vars
  <2>1. UNCHANGED <<accepted, queue, stopped, writer, log, ver, late>>
    BY <1>14 DEF vars
  <2>2. QED
    BY <1>0, <2>1, LineStays DEF Batch, Receiving
<1>15. QED
  BY <1>1, <1>2, <1>3, <1>4, <1>5, <1>6, <1>7, <1>8, <1>9, <1>10, <1>11, <1>12, <1>13, <1>14
  DEF Next, WriterStep

LEMMA AlwaysInOrder == Spec => [](TypeInv /\ TruthInv /\ OrderInv)
<1>1. Init => TypeInv /\ TruthInv /\ OrderInv
  BY TypeInit, TruthInit, OrderInit
<1>2. TypeInv /\ TruthInv /\ OrderInv /\ [Next]_vars => (TypeInv /\ TruthInv /\ OrderInv)'
  BY TypeNext, TruthNext, OrderNext
<1>3. QED
  BY <1>1, <1>2, PTL DEF Spec

\* Of what a producer got receipts for, the log holds an initial part, each
\* entry once and in the order of submission: the channel, the batches, the
\* retries after a lost CAS and the stop keep a producer's order.
THEOREM CommitsInOrder == Spec => []PrefixCommitted
<1>1. TypeInv /\ TruthInv /\ OrderInv => PrefixCommitted
  <2> SUFFICES ASSUME TypeInv, TruthInv, OrderInv, NEW p \in Producers, NEW i \in DOMAIN log,
                      log[i].id # << >>, log[i].id[1] = p
               PROVE  /\ \A j \in DOMAIN log : log[j].id = log[i].id => j = i
                      /\ \E k \in DOMAIN accepted[p] :
                           /\ accepted[p][k] = log[i].id
                           /\ \A m \in 1 .. k - 1 :
                                \E j \in 1 .. i - 1 : log[j].id = accepted[p][m]
    BY DEF PrefixCommitted
  <2> DEFINE id == log[i].id
             n == Len(log)
  <2>1. n \in Nat /\ DOMAIN log = 1 .. n /\ log \in Seq(LogEntry) /\ log[i] \in LogEntry
    BY DEF TypeInv
  <2>2. id \in Id /\ id \in Reached
    BY <2>1 DEF LogEntry, Reached, Ids
  <2>3. \A j \in 1 .. n : IdSeq(log)[j] = log[j].id /\ Len(IdSeq(log)) = n
    BY <2>1, IdSeqFacts
  <2> HIDE DEF n
  <2>4. /\ \A j \in 1 .. n : log[j].id = id => j = i
        /\ \A x \in Accepted : Before(x, id) => \E j \in 1 .. i - 1 : log[j].id = x
    <3>1. \A j \in 1 .. i - 1 : j \in 1 .. n
      BY <2>1
    <3>2. QED
      BY <2>1, <2>2, <2>3, <3>1 DEF OrderInv, Fits
  <2>5. PICK q \in Producers : id \in Range(accepted[q])
    BY <2>2 DEF TruthInv, PlacesOK, Accepted
  <2>6. q = p
    BY <2>5 DEF TruthInv, NumbersOK
  <2>7. PICK k \in DOMAIN accepted[p] : accepted[p][k] = id
    BY <2>5, <2>6 DEF Range
  <2>8. accepted[p] \in Seq(Id) /\ DOMAIN accepted[p] = 1 .. Len(accepted[p])
    BY DEF TypeInv, ProducersOK
  <2>9. ASSUME NEW m \in 1 .. k - 1 PROVE \E j \in 1 .. i - 1 : log[j].id = accepted[p][m]
    <3>1. m \in DOMAIN accepted[p] /\ m < k
      BY <2>7, <2>8
    <3>2. accepted[p][m][2] < id[2]
      BY <2>7, <3>1 DEF OrderInv, Numbered
    <3>3. accepted[p][m] \in Range(accepted[p]) /\ accepted[p][m] \in Id
      BY <2>8, <3>1 DEF Range
    <3>4. accepted[p][m][1] = p
      BY <3>3 DEF TruthInv, NumbersOK
    <3>5. accepted[p][m] \in Accepted /\ Before(accepted[p][m], id)
      BY <3>2, <3>3, <3>4 DEF Accepted, Before
    <3>6. QED
      BY <2>4, <3>5
  <2>10. QED
    BY <2>1, <2>4, <2>7, <2>9
<1>2. QED
  BY <1>1, AlwaysInOrder, PTL
=============================================================================
