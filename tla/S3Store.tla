------------------------------ MODULE S3Store ------------------------------
(* S3Store between its callers and an HTTP server: what each call sends, how *)
(* it classifies status, ETag header and body of the answer, and when it     *)
(* gives up.  The server is external: it serves a request at most once, at   *)
(* some time after it was sent, and may answer with an error before or after *)
(* that, without an ETag, or never.  ETags are those of the content.         *)
EXTENDS StoreOps

CONSTANTS
  Clients,
  Big,        \* bodies beyond max_object_bytes
  MaxCalls    \* bound: calls

ASSUME S3Assumption ==
  /\ Big \subseteq Data
  /\ None \notin Data
  /\ None \notin [etag : Data, data : Data]

VARIABLES obj, minted, call, late, wire, calls

vars == <<obj, minted, call, late, wire, calls>>

ETag(data) == data

Response(status, etag, body) ==
  [at |-> "answer", status |-> status, etag |-> etag, body |-> body]

\* Where a call is before there is a response.
At(place) == [Response(0, None, None) EXCEPT !.at = place]

\* The bucket may hold an object of a writer with a larger limit.
Init ==
  /\ obj \in [Keys -> {None} \cup {Version(ETag(d), d) : d \in Big}]
  /\ minted = [k \in Keys |-> {obj[k]} \ {None}]
  /\ call = [c \in Clients |-> NoCall]
  /\ late = {}
  /\ wire = [c \in Clients |-> At("none")]
  /\ calls = 0

Invoke(c) ==
  /\ call[c].st = "idle"
  /\ calls < MaxCalls
  /\ calls' = calls + 1
  /\ \E r \in Requests(UNION {{v.etag : v \in minted[k]} : k \in Keys}, calls) :
       call' = [call EXCEPT ![c] = [NoCall EXCEPT !.st = "open", !.req = r]]
  /\ wire' = [wire EXCEPT ![c] = At("new")]
  /\ UNCHANGED <<obj, minted, late>>

Return(c, res) ==
  /\ call' = [call EXCEPT ![c] = [NoCall EXCEPT !.res = res]]
  /\ wire' = [wire EXCEPT ![c] = At("none")]

\* mutant: the size is left to the server
SendAll(c) ==
  /\ wire[c].at = "new"
  /\ wire' = [wire EXCEPT ![c] = At("sent")]
  /\ UNCHANGED <<obj, minted, late, call, calls>>

\* A body over the limit is refused before anything is sent.
Send(c) ==
  /\ wire[c].at = "new"
  /\ \/ call[c].req.data \in Big /\ Return(c, NotApplied)
     \/ /\ call[c].req.data \notin Big
        /\ wire' = [wire EXCEPT ![c] = At("sent")]
        /\ UNCHANGED call
  /\ UNCHANGED <<obj, minted, late, calls>>

\* What serving a request means at this moment, what it changes and what the
\* server answers.
Outcome(r) ==
  IF r.op = "get" THEN CondGet(obj[r.key], r.expect)
  ELSE IF r.op = "cas" /\ ~CasMatches(obj[r.key], r.expect) THEN Refused
  ELSE Result("ok", IF r.op = "delete" THEN None ELSE ETag(r.data))

Serves(r) ==
  LET v == IF r.op = "delete" THEN None ELSE Version(ETag(r.data), r.data)
  IN  IF Outcome(r).kind = "ok"
      THEN /\ obj' = [obj EXCEPT ![r.key] = v]
           /\ minted' = [minted EXCEPT ![r.key] = @ \cup ({v} \ {None})]
      ELSE UNCHANGED <<obj, minted>>

Reply(r) ==
  LET res == Outcome(r)
  IN  CASE res.kind = "missing"     -> Response(404, None, None)
        [] res.kind = "notmodified" -> Response(304, None, None)
        [] res.kind = "refused"     -> Response(412, None, None)
        [] res.kind = "changed"     -> Response(200, res.val.etag, res.val.data)
        [] r.op = "delete"          -> Response(IF obj[r.key] = None THEN 404 ELSE 204, None, None)
        [] OTHER                    -> Response(200, res.val, None)

\* The answer the client gets: the server's, one without the ETag header, or
\* an error in its place.
Garbled(resp) == {resp, [resp EXCEPT !.etag = None], Response(500, None, None)}

Serve(c) ==
  LET r == call[c].req
  IN  /\ wire[c].at = "sent"
      /\ Serves(r)
      /\ call' = [call EXCEPT ![c].st = "served", ![c].res = Outcome(r)]
      /\ \E got \in Garbled(Reply(r)) : wire' = [wire EXCEPT ![c] = got]
      /\ UNCHANGED <<late, calls>>

\* The server turns the request away: a concurrent conditional write (409), a
\* redirect, an error, or a 304 that nobody asked for.
TurnAway(c) ==
  LET r == call[c].req
  IN  /\ wire[c].at = "sent"
      /\ \E s \in {301, 500} \cup (IF r.op = "cas" THEN {409} ELSE {})
                  \cup (IF r.op = "get" /\ r.expect = None THEN {304} ELSE {}) :
           wire' = [wire EXCEPT ![c] = Response(s, None, None)]
      /\ UNCHANGED <<obj, minted, late, call, calls>>

\* An error of a GET never concerns a mutation; any other is uncertain.
StoreError(r) == IF r.op = "get" THEN NotApplied ELSE Unknown

\* etag_of: a success without an ETag is an error.
WithETag(r, resp, res) == IF resp.etag = None THEN StoreError(r) ELSE res

ClassifyGet(r, resp) ==
  CASE resp.status = 304 /\ r.expect # None -> Result("notmodified", None)
    [] resp.status = 404 -> Result("missing", None)
    [] resp.status = 200 /\ resp.body \notin Big ->
         WithETag(r, resp, Result("changed", Version(resp.etag, resp.body)))
    [] OTHER -> StoreError(r)

\* mutant: a conditional PUT that is not a clear success counts as refused
ClassifyPutRefused(r, resp) ==
  CASE resp.status = 200 /\ resp.etag # None -> Result("ok", resp.etag)
    [] r.op = "cas" -> Refused
    [] OTHER -> StoreError(r)

\* 409 and 412 reject the attempt of put_if_match and are errors for put.
ClassifyPut(r, resp) ==
  CASE resp.status = 200 -> WithETag(r, resp, Result("ok", resp.etag))
    [] r.op = "cas" /\ resp.status \in {409, 412} -> Refused
    [] OTHER -> StoreError(r)

ClassifyDelete(r, resp) ==
  IF resp.status \in {204, 404} THEN Result("ok", None) ELSE StoreError(r)

Classify(r, resp) ==
  CASE r.op = "get" -> ClassifyGet(r, resp)
    [] r.op = "delete" -> ClassifyDelete(r, resp)
    [] OTHER -> ClassifyPut(r, resp)

\* What may be left of a request that the server has not served: nothing, or
\* itself, on the way or behind the server that answered in its place.
Leaves(c) ==
  \/ UNCHANGED late
  \/ /\ call[c].st = "open" /\ call[c].req.op # "get"
     /\ late' = late \cup {call[c].req}

Receive(c) ==
  /\ wire[c].at = "answer"
  /\ Return(c, Classify(call[c].req, wire[c]))
  /\ IF wire[c].status = 500 THEN Leaves(c) ELSE UNCHANGED late
  /\ UNCHANGED <<obj, minted, calls>>

\* mutant: an upload does not look at its deadline
GiveUpReads(c) ==
  /\ wire[c].at \in {"sent", "answer"}
  /\ call[c].req.op \in {"get", "delete"}
  /\ Return(c, StoreError(call[c].req))
  /\ Leaves(c)
  /\ UNCHANGED <<obj, minted, calls>>

\* Connect or request deadline, broken connection, body that cannot be read.
GiveUp(c) ==
  /\ wire[c].at \in {"sent", "answer"}
  /\ Return(c, StoreError(call[c].req))
  /\ Leaves(c)
  /\ UNCHANGED <<obj, minted, calls>>

\* The server serves a request whose caller has left.
ServeLate(r) ==
  /\ Serves(r)
  /\ late' = late \ {r}
  /\ UNCHANGED <<call, wire, calls>>

ClientStep(c) == Send(c) \/ Receive(c) \/ GiveUp(c)

Next ==
  \/ \E c \in Clients : Invoke(c) \/ ClientStep(c) \/ Serve(c) \/ TurnAway(c)
  \/ \E r \in late : ServeLate(r)

Spec == Init /\ [][Next]_vars

\* Callers run and deadlines expire; nothing is assumed of the server.
FairSpec == Spec /\ \A c \in Clients : WF_vars(ClientStep(c))
-----------------------------------------------------------------------------
(* Properties                                                                *)

Contract == INSTANCE ObjectStore

\* S3Store keeps the promise of the ObjectStore trait, whatever the server
\* answers: a result is that of the moment the server served the request, and
\* NotApplied and PreconditionFailed are only said of requests never served.
KeepsContract == Contract!Spec

\* Every call returns, also when the server never answers.
CallsReturn == \A c \in Clients : wire[c].at # "none" ~> wire[c].at = "none"

\* No body over the limit reaches a caller or the server.
BodiesBounded ==
  /\ \A c \in Clients : call[c].st = "served" => call[c].req.data \notin Big
  /\ \A c \in Clients : call[c].st = "idle" /\ call[c].res.kind = "changed"
                         => call[c].res.val.data \notin Big
=============================================================================
