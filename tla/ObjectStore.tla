---------------------------- MODULE ObjectStore ----------------------------
(* What the ObjectStore trait promises.  A call takes effect at one moment   *)
(* between its start and its answer, on the object as it is at that moment.  *)
(* An answer that is not an error is the result of that moment; NotApplied   *)
(* and PreconditionFailed mean there was none and will be none; after an     *)
(* Unknown there may have been one, or it may come at any later time.  Equal *)
(* ETags of a key imply equal bodies.                                        *)
EXTENDS StoreOps

CONSTANT Clients

VARIABLES
  obj,      \* the objects
  minted,   \* every version a key has had
  call,     \* the clients' calls
  late      \* requests answered Unknown that may still take effect

vars == <<obj, minted, call, late>>

Init ==
  /\ \A k \in Keys : minted[k] = {obj[k]} \ {None}
  /\ call = [c \in Clients |-> NoCall]
  /\ late = {}

\* The step that stores a body under an ETag of the store's choice.
Stores(k, data) ==
  LET v == obj'[k]
  IN  /\ v # None
      /\ v.data = data
      /\ \A u \in minted[k] : u.etag = v.etag => u.data = v.data
      /\ obj' = [obj EXCEPT ![k] = v]
      /\ minted' = [minted EXCEPT ![k] = @ \cup {v}]

\* A request takes effect with result res.
Effect(r, res) ==
  \/ /\ r.op = "get"
     /\ res = CondGet(obj[r.key], r.expect)
     /\ UNCHANGED <<obj, minted>>
  \/ /\ r.op = "cas"
     /\ CasMatches(obj[r.key], r.expect)
     /\ Stores(r.key, r.data)
     /\ res = Result("ok", obj'[r.key].etag)
  \/ /\ r.op = "cas"
     /\ ~CasMatches(obj[r.key], r.expect)
     /\ res = Refused
     /\ UNCHANGED <<obj, minted>>
  \/ /\ r.op = "put"
     /\ Stores(r.key, r.data)
     /\ res = Result("ok", obj'[r.key].etag)
  \/ /\ r.op = "delete"
     /\ obj' = [obj EXCEPT ![r.key] = None]
     /\ res = Result("ok", None)
     /\ UNCHANGED minted

Invoke(c) ==
  /\ call[c].st = "idle"
  /\ call'[c].st = "open"
  /\ call'[c].req.key \in Keys
  /\ call' = [call EXCEPT ![c] = [NoCall EXCEPT !.st = "open", !.req = call'[c].req]]
  /\ UNCHANGED <<obj, minted, late>>

Serve(c) ==
  /\ call[c].st = "open"
  /\ call'[c].st = "served"
  /\ Effect(call[c].req, call'[c].res)
  /\ call' = [call EXCEPT ![c].st = "served", ![c].res = call'[c].res]
  /\ UNCHANGED late

MayBeLate(c) == late' = late \/ late' = late \cup {call[c].req}

Answers(c, res) == call' = [call EXCEPT ![c] = [NoCall EXCEPT !.res = res]]

\* The result, or an error that leaves the outcome open.
AnswerServed(c) ==
  /\ call[c].st = "served"
  /\ Answers(c, call[c].res) \/ Answers(c, Unknown)
     \/ (call[c].req.op = "get" /\ Answers(c, NotApplied))
  /\ UNCHANGED <<obj, minted, late>>

\* A call that had no effect: it will have none, or its outcome is open.
AnswerOpen(c) ==
  /\ call[c].st = "open"
  /\ \/ Answers(c, NotApplied) /\ UNCHANGED late
     \/ call[c].req.op = "cas" /\ Answers(c, Refused) /\ UNCHANGED late
     \/ Answers(c, Unknown) /\ MayBeLate(c)
  /\ UNCHANGED <<obj, minted>>

\* The caller dies.
Abandon(C) ==
  /\ \A c \in C : call[c].st # "idle"
  /\ call' = [c \in Clients |-> IF c \in C THEN NoCall ELSE call[c]]
  /\ late' = late
  /\ UNCHANGED <<obj, minted>>

LateEffect(r) ==
  /\ late' = late \ {r}
  /\ \/ \E res \in {Refused, Result("ok", ETagOf(obj'[r.key]))} : Effect(r, res)
     \/ UNCHANGED <<obj, minted>>
  /\ UNCHANGED call

Next ==
  \/ \E c \in Clients : Invoke(c) \/ Serve(c) \/ AnswerServed(c) \/ AnswerOpen(c)
  \/ \E C \in SUBSET Clients : Abandon(C)
  \/ \E r \in late : LateEffect(r)

Spec == Init /\ [][Next]_vars
=============================================================================
