--------------------------- MODULE S3StoreProofs ---------------------------
(* S3Store keeps its contract whatever the server answers, for any number of *)
(* clients, keys, bodies and calls.                                          *)
(*                                                                           *)
(* The argument is about the answers on the wire: the one to a request that  *)
(* was served is classified as the result it had or as an error, the one to  *)
(* a request that was turned away as an error or a refusal, and only answers *)
(* that are errors are given of requests that the server may still serve.    *)
EXTENDS S3Store, TLAPS

\* ETags are those of the content.
Versions == {v \in [etag : Data, data : Data] : v.etag = v.data}

Reqs == [op : {"get", "cas", "put", "delete"}, key : Keys, expect : Data \cup {None},
         data : Data \cup {None}, n : Nat]

Results == [kind : {"none", "error", "refused", "missing", "notmodified", "changed", "ok"},
            val : Versions \cup Data \cup {None, "NotApplied", "Unknown"}]

Calls == [st : {"idle", "open", "served"}, req : Reqs \cup {NoRequest}, res : Results]

TypeInv ==
  /\ obj \in [Keys -> Versions \cup {None}]
  /\ minted \in [Keys -> SUBSET Versions]
  /\ call \in [Clients -> Calls]
  /\ late \in SUBSET Reqs
  /\ DOMAIN wire = Clients
  /\ calls \in Nat
-----------------------------------------------------------------------------
(* The invariant                                                             *)

\* What a request carries.
GoodReq(r) == r \in Reqs /\ (r.op \in {"cas", "put"} => r.data \in Data)

\* What the client makes of an answer, given whether its request was served.
Honest(y, said, status) ==
  /\ y.st = "served" => said \in {y.res, StoreError(y.req)}
  /\ y.st = "open" => said = StoreError(y.req) \/ (y.req.op = "cas" /\ said = Refused)
  /\ status = 500 => said = StoreError(y.req)

CallOK(y, w) ==
  /\ w.at \in {"none", "new", "sent", "answer"}
  /\ w.at = "none" => y.st = "idle"
  /\ w.at \in {"new", "sent"} => y.st = "open"
  /\ w.at = "answer" => y.st \in {"open", "served"} /\ Honest(y, Classify(y.req, w), w.status)
  /\ w.at # "none" => GoodReq(y.req)
  /\ w.at \in {"sent", "answer"} => y.req.data \notin Big
  /\ w.at = "none" /\ y.res.kind = "changed" => y.res.val.data \notin Big

CallsOK == \A c \in Clients : CallOK(call[c], wire[c])

LateOK == \A r \in late : GoodReq(r) /\ r.op # "get"

S3Inv == CallsOK /\ LateOK
-----------------------------------------------------------------------------
(* Requests and results                                                      *)

LEMMA Words ==
  /\ NotApplied \in Results /\ Unknown \in Results /\ Refused \in Results
  /\ NotApplied.kind = "error" /\ Unknown.kind = "error" /\ Refused.kind = "refused"
BY DEF NotApplied, Unknown, Refused, Result, Results

LEMMA ErrorWords ==
  ASSUME NEW r PROVE StoreError(r) \in Results /\ StoreError(r).kind = "error"
BY Words DEF StoreError

LEMMA VersionFacts ==
  ASSUME NEW d \in Data
  PROVE  /\ Version(ETag(d), d) \in Versions /\ Version(ETag(d), d) # None
         /\ Version(ETag(d), d).etag = d /\ Version(ETag(d), d).data = d
<1>1. Version(ETag(d), d) \in [etag : Data, data : Data]
  BY DEF Version, ETag
<1>2. Version(ETag(d), d).etag = d /\ Version(ETag(d), d).data = d
  BY DEF Version, ETag
<1>3. QED
  BY <1>1, <1>2, S3Assumption DEF Versions

LEMMA VersionParts ==
  ASSUME NEW v \in Versions
  PROVE  v.etag \in Data /\ v.data \in Data /\ v.etag = v.data /\ v = Version(v.etag, v.data) /\ v # None
BY S3Assumption DEF Versions, Version

LEMMA RequestTyped ==
  ASSUME NEW tags \in SUBSET Data, NEW n \in Nat, NEW r \in Requests(tags, n)
  PROVE  GoodReq(r)
<1>1. CASE r \in {Request("get", k, e, None, n) : k \in Keys, e \in tags \cup {None}}
  <2>1. PICK k \in Keys, e \in tags \cup {None} : r = Request("get", k, e, None, n)
    BY <1>1
  <2>2. QED
    BY <2>1 DEF Request, Reqs, GoodReq
<1>2. CASE r \in {Request("cas", k, e, d, n) : k \in Keys, e \in tags \cup {None}, d \in Data}
  <2>1. PICK k \in Keys, e \in tags \cup {None}, d \in Data : r = Request("cas", k, e, d, n)
    BY <1>2
  <2>2. QED
    BY <2>1 DEF Request, Reqs, GoodReq
<1>3. CASE r \in {Request("put", k, None, d, n) : k \in Keys, d \in Data}
  <2>1. PICK k \in Keys, d \in Data : r = Request("put", k, None, d, n)
    BY <1>3
  <2>2. QED
    BY <2>1 DEF Request, Reqs, GoodReq
<1>4. CASE r \in {Request("delete", k, None, None, n) : k \in Keys}
  <2>1. PICK k \in Keys : r = Request("delete", k, None, None, n)
    BY <1>4
  <2>2. QED
    BY <2>1 DEF Request, Reqs, GoodReq
<1>5. QED
  BY <1>1, <1>2, <1>3, <1>4 DEF Requests

LEMMA CallFacts ==
  ASSUME TypeInv, S3Inv, NEW c \in Clients
  PROVE  CallOK(call[c], wire[c]) /\ call[c] \in Calls /\ call[c].res \in Results
BY DEF S3Inv, CallsOK, TypeInv, Calls

LEMMA PlaceAt ==
  ASSUME NEW place PROVE At(place).at = place /\ At(place).status = 0
BY DEF At, Response

LEMMA ResponseParts ==
  ASSUME NEW s, NEW e, NEW b
  PROVE  /\ Response(s, e, b).at = "answer" /\ Response(s, e, b).status = s
         /\ Response(s, e, b).etag = e /\ Response(s, e, b).body = b
BY DEF Response
-----------------------------------------------------------------------------
(* What serving a request does                                               *)

\* The four ways a request can be served.
LEMMA OutcomeFacts ==
  ASSUME TypeInv, NEW r, GoodReq(r)
  PROVE  /\ Outcome(r) \in Results
         /\ r.op = "get" => Outcome(r) = CondGet(obj[r.key], r.expect)
         /\ r.op = "cas" /\ ~CasMatches(obj[r.key], r.expect) => Outcome(r) = Refused
         /\ r.op = "cas" /\ CasMatches(obj[r.key], r.expect) => Outcome(r) = Result("ok", r.data)
         /\ r.op = "put" => Outcome(r) = Result("ok", r.data)
         /\ r.op = "delete" => Outcome(r) = Result("ok", None)
         /\ Outcome(r).kind = "ok" => r.op \in {"cas", "put", "delete"}
<1>1. r.op \in {"get", "cas", "put", "delete"} /\ r.key \in Keys
  BY DEF GoodReq, Reqs
<1>2. obj[r.key] \in Versions \cup {None}
  BY <1>1 DEF TypeInv
<1>3. CASE r.op = "get"
  <2>1. CondGet(obj[r.key], r.expect) \in Results /\ CondGet(obj[r.key], r.expect).kind # "ok"
    BY <1>2 DEF CondGet, Result, Results
  <2>2. Outcome(r) = CondGet(obj[r.key], r.expect)
    BY <1>3 DEF Outcome
  <2>3. QED
    BY <1>3, <2>1, <2>2
<1>4. CASE r.op = "cas" /\ ~CasMatches(obj[r.key], r.expect)
  <2>1. Outcome(r) = Refused
    BY <1>4 DEF Outcome
  <2>2. QED
    BY <1>4, <2>1, Words
<1>5. CASE r.op = "put" \/ (r.op = "cas" /\ CasMatches(obj[r.key], r.expect))
  <2>1. Outcome(r) = Result("ok", r.data) /\ r.data \in Data
    BY <1>5 DEF Outcome, ETag, GoodReq
  <2>2. QED
    BY <1>5, <2>1 DEF Result, Results
<1>6. CASE r.op = "delete"
  <2>1. Outcome(r) = Result("ok", None)
    BY <1>6 DEF Outcome
  <2>2. QED
    BY <1>6, <2>1 DEF Result, Results
<1>7. QED
  BY <1>1, <1>3, <1>4, <1>5, <1>6

\* The objects afterwards.
LEMMA ServesTyped ==
  ASSUME TypeInv, NEW r, GoodReq(r), Serves(r)
  PROVE  obj' \in [Keys -> Versions \cup {None}] /\ minted' \in [Keys -> SUBSET Versions]
<1>1. obj \in [Keys -> Versions \cup {None}] /\ minted \in [Keys -> SUBSET Versions]
  BY DEF TypeInv
<1> DEFINE v == IF r.op = "delete" THEN None ELSE Version(ETag(r.data), r.data)
<1>2. CASE Outcome(r).kind = "ok"
  <2>1. v \in Versions \cup {None}
    BY <1>2, OutcomeFacts, VersionFacts DEF GoodReq
  <2>2. obj' = [obj EXCEPT ![r.key] = v] /\ minted' = [minted EXCEPT ![r.key] = @ \cup ({v} \ {None})]
    BY <1>2 DEF Serves
  <2> HIDE DEF v
  <2>3. QED
    BY <1>1, <2>1, <2>2
<1>3. CASE Outcome(r).kind # "ok"
  BY <1>1, <1>3 DEF Serves
<1>4. QED
  BY <1>2, <1>3

\* What the server answers to a request it served is classified as its result,
\* or as an error.
LEMMA ReplyHonest ==
  ASSUME TypeInv, NEW r, GoodReq(r), NEW got \in Garbled(Reply(r))
  PROVE  /\ Classify(r, got) \in {Outcome(r), StoreError(r)} /\ got.at = "answer"
         /\ got.status = 500 => Classify(r, got) = StoreError(r)
<1>1. r.op \in {"get", "cas", "put", "delete"} /\ r.key \in Keys /\ r.expect \in Data \cup {None}
  BY DEF GoodReq, Reqs
<1>2. obj[r.key] \in Versions \cup {None}
  BY <1>1 DEF TypeInv
<1>3. CASE got = Response(500, None, None)
  BY <1>1, <1>3, ResponseParts DEF Classify, ClassifyGet, ClassifyPut, ClassifyDelete
<1>4. ASSUME NEW s, NEW e, NEW b, Reply(r) = Response(s, e, b), got # Response(500, None, None)
      PROVE  got = Response(s, e, b) \/ got = Response(s, None, b)
  BY <1>4 DEF Garbled, Response
<1>5. CASE r.op = "get" /\ got # Response(500, None, None)
  <2>1. Classify(r, got) = ClassifyGet(r, got)
    BY <1>5 DEF Classify
  <2>2. CASE obj[r.key] = None
    <3>1. Outcome(r) = Result("missing", None)
      BY <1>5, <2>2, OutcomeFacts DEF CondGet
    <3>2. Reply(r) = Response(404, None, None)
      BY <1>5, <3>1 DEF Reply, Result
    <3>3. got.status = 404 /\ got.at = "answer"
      BY <1>4, <1>5, <3>2, ResponseParts
    <3>4. QED
      BY <2>1, <3>1, <3>3 DEF ClassifyGet
  <2>3. CASE obj[r.key] # None /\ obj[r.key].etag = r.expect
    <3>1. Outcome(r) = Result("notmodified", None)
      BY <1>5, <2>3, OutcomeFacts DEF CondGet
    <3>2. Reply(r) = Response(304, None, None)
      BY <1>5, <3>1 DEF Reply, Result
    <3>3. got.status = 304 /\ got.at = "answer"
      BY <1>4, <1>5, <3>2, ResponseParts
    <3>4. r.expect # None
      BY <1>2, <2>3, VersionParts, S3Assumption
    <3>5. QED
      BY <2>1, <3>1, <3>3, <3>4 DEF ClassifyGet
  <2>4. CASE obj[r.key] # None /\ obj[r.key].etag # r.expect
    <3> DEFINE v == obj[r.key]
    <3>1. Outcome(r) = Result("changed", v) /\ v \in Versions
      BY <1>2, <1>5, <2>4, OutcomeFacts DEF CondGet
    <3>2. Reply(r) = Response(200, v.etag, v.data)
      BY <1>5, <3>1 DEF Reply, Result
    <3>3. v.etag \in Data /\ v.etag # None /\ v = Version(v.etag, v.data)
      BY <3>1, VersionParts, S3Assumption
    <3> HIDE DEF v
    <3>4. got.status = 200 /\ got.at = "answer" /\ got.body = v.data /\ got.etag \in {v.etag, None}
      BY <1>4, <1>5, <3>2, ResponseParts
    <3>5. CASE got.body \in Big
      BY <2>1, <3>4, <3>5 DEF ClassifyGet
    <3>6. CASE got.body \notin Big
      <4>1. ClassifyGet(r, got) = WithETag(r, got, Result("changed", Version(got.etag, got.body)))
        BY <3>4, <3>6 DEF ClassifyGet
      <4>2. QED
        BY <2>1, <3>1, <3>3, <3>4, <4>1 DEF WithETag
    <3>7. QED
      BY <3>5, <3>6
  <2>5. QED
    BY <2>2, <2>3, <2>4
<1>6. CASE r.op = "delete" /\ got # Response(500, None, None)
  <2>1. Outcome(r) = Result("ok", None)
    BY <1>6, OutcomeFacts
  <2>2. Reply(r) = Response(404, None, None) \/ Reply(r) = Response(204, None, None)
    BY <1>6, <2>1 DEF Reply, Result
  <2>3. got.status \in {204, 404} /\ got.at = "answer"
    BY <1>4, <1>6, <2>2, ResponseParts
  <2>4. Classify(r, got) = ClassifyDelete(r, got)
    BY <1>6 DEF Classify
  <2>5. QED
    BY <2>1, <2>3, <2>4 DEF ClassifyDelete
<1>7. CASE r.op \in {"cas", "put"} /\ got # Response(500, None, None)
  <2>1. Classify(r, got) = ClassifyPut(r, got)
    BY <1>7 DEF Classify
  <2>2. CASE Outcome(r) = Refused /\ r.op = "cas"
    <3>1. Reply(r) = Response(412, None, None)
      BY <2>2, Words DEF Reply
    <3>2. got.status = 412 /\ got.at = "answer"
      BY <1>4, <1>7, <3>1, ResponseParts
    <3>3. QED
      BY <2>1, <2>2, <3>2 DEF ClassifyPut
  <2>3. CASE Outcome(r) = Result("ok", r.data)
    <3>1. Reply(r) = Response(200, r.data, None)
      BY <1>7, <2>3 DEF Reply, Result
    <3>2. got.status = 200 /\ got.at = "answer" /\ got.etag \in {r.data, None}
      BY <1>4, <1>7, <3>1, ResponseParts
    <3>3. r.data # None
      BY <1>7, S3Assumption DEF GoodReq
    <3>4. ClassifyPut(r, got) = WithETag(r, got, Result("ok", got.etag))
      BY <3>2 DEF ClassifyPut
    <3>5. QED
      BY <2>1, <2>3, <3>2, <3>3, <3>4 DEF WithETag
  <2>4. QED
    BY <1>7, <2>2, <2>3, OutcomeFacts
<1>8. QED
  BY <1>1, <1>3, <1>5, <1>6, <1>7

\* The statuses that turn a request away.
Rejections(r) ==
  {301, 500} \cup (IF r.op = "cas" THEN {409} ELSE {})
    \cup (IF r.op = "get" /\ r.expect = None THEN {304} ELSE {})

\* An answer that turns a request away is an error or, to a conditional PUT, a
\* refusal.
LEMMA TurnedAwayHonest ==
  ASSUME NEW r, GoodReq(r), NEW s \in Rejections(r)
  PROVE  /\ \/ Classify(r, Response(s, None, None)) = StoreError(r)
            \/ r.op = "cas" /\ Classify(r, Response(s, None, None)) = Refused
         /\ s = 500 => Classify(r, Response(s, None, None)) = StoreError(r)
<1>1. r.op \in {"get", "cas", "put", "delete"}
  BY DEF GoodReq, Reqs
<1> DEFINE w == Response(s, None, None)
<1>2. w.status = s
  BY ResponseParts
<1> HIDE DEF w
<1>3. CASE r.op = "get"
  <2>1. s \in {301, 500} \/ (s = 304 /\ r.expect = None)
    BY <1>3 DEF Rejections
  <2>2. ClassifyGet(r, w) = StoreError(r)
    BY <1>2, <2>1 DEF ClassifyGet
  <2>3. Classify(r, w) = ClassifyGet(r, w)
    BY <1>3 DEF Classify
  <2>4. QED
    BY <1>3, <2>2, <2>3 DEF w
<1>4. CASE r.op = "delete"
  <2>1. s \in {301, 500}
    BY <1>4 DEF Rejections
  <2>2. ClassifyDelete(r, w) = StoreError(r)
    BY <1>2, <2>1 DEF ClassifyDelete
  <2>3. Classify(r, w) = ClassifyDelete(r, w)
    BY <1>4 DEF Classify
  <2>4. QED
    BY <1>4, <2>2, <2>3 DEF w
<1>5. CASE r.op \in {"cas", "put"}
  <2>1. s \in {301, 500} \/ (s = 409 /\ r.op = "cas")
    BY <1>5 DEF Rejections
  <2>2. s \in {301, 500} => ClassifyPut(r, w) = StoreError(r)
    BY <1>2 DEF ClassifyPut
  <2>3. s = 409 /\ r.op = "cas" => ClassifyPut(r, w) = Refused
    BY <1>2 DEF ClassifyPut
  <2>4. Classify(r, w) = ClassifyPut(r, w)
    BY <1>5 DEF Classify
  <2>5. QED
    BY <1>5, <2>1, <2>2, <2>3, <2>4 DEF w
<1>6. QED
  BY <1>1, <1>3, <1>4, <1>5

\* A body over the limit is never handed to a caller.
LEMMA ClassifyBounded ==
  ASSUME NEW r, NEW resp, Classify(r, resp).kind = "changed"
  PROVE  Classify(r, resp).val.data \notin Big
<1>1. StoreError(r).kind = "error" /\ Refused.kind = "refused"
  BY ErrorWords, Words
<1>2. \A x : Result("ok", x).kind = "ok" /\ Result("notmodified", x).kind = "notmodified"
             /\ Result("missing", x).kind = "missing" /\ Result("changed", x).val = x
  BY DEF Result
<1>3. CASE r.op = "get"
  <2>1. Classify(r, resp) = ClassifyGet(r, resp)
    BY <1>3 DEF Classify
  <2>2. ClassifyGet(r, resp) = Result("changed", Version(resp.etag, resp.body)) /\ resp.body \notin Big
    BY <1>1, <1>2, <2>1 DEF ClassifyGet, WithETag
  <2>3. Classify(r, resp).val = Version(resp.etag, resp.body)
    BY <1>2, <2>1, <2>2
  <2>4. QED
    BY <2>2, <2>3 DEF Version
<1>4. CASE r.op = "delete"
  <2>1. Classify(r, resp) = ClassifyDelete(r, resp)
    BY <1>4 DEF Classify
  <2>2. QED
    BY <1>1, <1>2, <2>1 DEF ClassifyDelete
<1>5. CASE r.op \notin {"get", "delete"}
  <2>1. Classify(r, resp) = ClassifyPut(r, resp)
    BY <1>5 DEF Classify
  <2>2. QED
    BY <1>1, <1>2, <2>1 DEF ClassifyPut, WithETag
<1>6. QED
  BY <1>3, <1>4, <1>5
-----------------------------------------------------------------------------
(* The actions                                                               *)

LEMMA OneCall ==
  ASSUME TypeInv, S3Inv, NEW c \in Clients, NEW y \in Calls, NEW w,
         call' = [call EXCEPT ![c] = y], wire' = [wire EXCEPT ![c] = w], CallOK(y, w),
         obj' \in [Keys -> Versions \cup {None}], minted' \in [Keys -> SUBSET Versions],
         late' \in SUBSET Reqs, LateOK', calls' \in Nat
  PROVE  TypeInv' /\ S3Inv' /\ call'[c] = y /\ wire'[c] = w
<1>1. call \in [Clients -> Calls] /\ DOMAIN wire = Clients
  BY DEF TypeInv
<1>2. /\ call' \in [Clients -> Calls] /\ DOMAIN wire' = Clients /\ call'[c] = y /\ wire'[c] = w
      /\ \A d \in Clients : d # c => call'[d] = call[d] /\ wire'[d] = wire[d]
  BY <1>1
<1>3. TypeInv'
  BY <1>2 DEF TypeInv
<1>4. CallsOK'
  <2> SUFFICES ASSUME NEW d \in Clients PROVE CallOK(call'[d], wire'[d])
    BY DEF CallsOK
  <2>1. CallOK(call[d], wire[d])
    BY CallFacts
  <2>2. QED
    BY <1>2, <2>1
<1>5. QED
  BY <1>2, <1>3, <1>4 DEF S3Inv

\* The stored objects, and what is late, as they were.
LEMMA Untouched ==
  ASSUME TypeInv, S3Inv
  PROVE  /\ obj \in [Keys -> Versions \cup {None}] /\ minted \in [Keys -> SUBSET Versions]
         /\ late \in SUBSET Reqs /\ LateOK /\ calls \in Nat
         /\ \A c \in Clients : call = [call EXCEPT ![c] = call[c]]
         /\ \A c \in Clients : GoodReq(call[c].req) /\ call[c].req.op # "get" =>
              /\ late \cup {call[c].req} \in SUBSET Reqs
              /\ \A r \in late \cup {call[c].req} : GoodReq(r) /\ r.op # "get"
BY DEF TypeInv, S3Inv, LateOK, GoodReq

\* The call a client makes is one of a good request.
LEMMA InvokeFacts ==
  ASSUME TypeInv, S3Inv, NEW c \in Clients, Invoke(c)
  PROVE  \E r : /\ GoodReq(r)
                /\ call' = [call EXCEPT ![c] = [NoCall EXCEPT !.st = "open", !.req = r]]
                /\ [NoCall EXCEPT !.st = "open", !.req = r] \in Calls
                /\ [NoCall EXCEPT !.st = "open", !.req = r].st = "open"
                /\ [NoCall EXCEPT !.st = "open", !.req = r].req = r
<1> DEFINE tags == UNION {{v.etag : v \in minted[k]} : k \in Keys}
<1>1. tags \in SUBSET Data /\ calls \in Nat
  <2>1. \A k \in Keys : \A v \in minted[k] : v.etag \in Data
    BY VersionParts DEF TypeInv
  <2>2. QED
    BY <2>1 DEF TypeInv
<1>2. PICK r \in Requests(tags, calls) : call' = [call EXCEPT ![c] = [NoCall EXCEPT !.st = "open", !.req = r]]
  BY DEF Invoke
<1> HIDE DEF tags
<1>3. GoodReq(r)
  BY <1>1, <1>2, RequestTyped
<1>4. /\ [NoCall EXCEPT !.st = "open", !.req = r] \in Calls
      /\ [NoCall EXCEPT !.st = "open", !.req = r].st = "open"
      /\ [NoCall EXCEPT !.st = "open", !.req = r].req = r
  BY <1>3 DEF NoCall, Calls, Results, Result, GoodReq
<1>5. QED
  BY <1>2, <1>3, <1>4

LEMMA InvokeStep ==
  ASSUME TypeInv, S3Inv, NEW c \in Clients, Invoke(c) PROVE TypeInv' /\ S3Inv'
<1>1. PICK r : /\ GoodReq(r)
               /\ call' = [call EXCEPT ![c] = [NoCall EXCEPT !.st = "open", !.req = r]]
               /\ [NoCall EXCEPT !.st = "open", !.req = r] \in Calls
               /\ [NoCall EXCEPT !.st = "open", !.req = r].st = "open"
               /\ [NoCall EXCEPT !.st = "open", !.req = r].req = r
  BY InvokeFacts
<1> DEFINE y == [NoCall EXCEPT !.st = "open", !.req = r]
<1>2. /\ y \in Calls /\ y.st = "open" /\ y.req = r /\ call' = [call EXCEPT ![c] = y]
  BY <1>1
<1> HIDE DEF y
<1>3. wire' = [wire EXCEPT ![c] = At("new")] /\ UNCHANGED <<obj, minted, late>> /\ calls' = calls + 1
  BY DEF Invoke
<1>4. CallOK(y, At("new"))
  BY <1>1, <1>2, PlaceAt DEF CallOK
<1>5. /\ obj' \in [Keys -> Versions \cup {None}] /\ minted' \in [Keys -> SUBSET Versions]
      /\ late' \in SUBSET Reqs /\ LateOK' /\ calls' \in Nat
  BY <1>3, Untouched DEF LateOK
<1>6. QED
  BY <1>2, <1>3, <1>4, <1>5, OneCall

Returned(res) == [NoCall EXCEPT !.res = res]

\* A call returns, and leaves its request behind or not.
LEMMA ReturnStep ==
  ASSUME TypeInv, S3Inv, NEW c \in Clients, NEW res \in Results, Return(c, res),
         res.kind = "changed" => res.val.data \notin Big,
         UNCHANGED <<obj, minted, calls>>, wire[c].at # "none", UNCHANGED late \/ Leaves(c)
  PROVE  TypeInv' /\ S3Inv'
<1>1. Returned(res) \in Calls /\ Returned(res).st = "idle" /\ Returned(res).res = res
  BY DEF Returned, NoCall, Calls
<1>2. call' = [call EXCEPT ![c] = Returned(res)] /\ wire' = [wire EXCEPT ![c] = At("none")]
  BY DEF Return, Returned
<1>3. CallOK(Returned(res), At("none"))
  BY <1>1, PlaceAt DEF CallOK
<1>4. /\ obj' \in [Keys -> Versions \cup {None}] /\ minted' \in [Keys -> SUBSET Versions] /\ calls' \in Nat
  BY Untouched
<1>5. late' \in SUBSET Reqs /\ LateOK'
  <2>1. CASE UNCHANGED late
    BY <2>1, Untouched DEF LateOK
  <2>2. CASE call[c].req.op # "get" /\ late' = late \cup {call[c].req}
    <3>1. GoodReq(call[c].req)
      BY CallFacts DEF CallOK
    <3>2. QED
      BY <2>2, <3>1, Untouched DEF LateOK
  <2>3. QED
    BY <2>1, <2>2 DEF Leaves
<1>6. QED
  BY <1>1, <1>2, <1>3, <1>4, <1>5, OneCall

LEMMA SendStep ==
  ASSUME TypeInv, S3Inv, NEW c \in Clients, Send(c) PROVE TypeInv' /\ S3Inv'
<1>1. wire[c].at = "new" /\ UNCHANGED <<obj, minted, late, calls>>
  BY DEF Send
<1>2. CASE Return(c, NotApplied)
  BY <1>1, <1>2, Words, ReturnStep
<1>3. CASE call[c].req.data \notin Big /\ wire' = [wire EXCEPT ![c] = At("sent")] /\ UNCHANGED call
  <2>1. CallOK(call[c], At("sent"))
    BY <1>1, <1>3, PlaceAt, CallFacts DEF CallOK
  <2>2. /\ obj' \in [Keys -> Versions \cup {None}] /\ minted' \in [Keys -> SUBSET Versions]
        /\ late' \in SUBSET Reqs /\ LateOK' /\ calls' \in Nat
    BY <1>1, Untouched DEF LateOK
  <2>3. call' = [call EXCEPT ![c] = call[c]]
    BY <1>3, Untouched
  <2>4. QED
    BY <1>3, <2>1, <2>2, <2>3, CallFacts, OneCall
<1>4. QED
  BY <1>2, <1>3 DEF Send

\* What a call is once it is served.
ServedAs(x, res) == [x EXCEPT !.st = "served", !.res = res]

LEMMA ServedCall ==
  ASSUME TypeInv, S3Inv, NEW c \in Clients, NEW res \in Results,
         call' = [call EXCEPT ![c].st = "served", ![c].res = res]
  PROVE  /\ call' = [call EXCEPT ![c] = ServedAs(call[c], res)]
         /\ ServedAs(call[c], res) \in Calls /\ ServedAs(call[c], res).st = "served"
         /\ ServedAs(call[c], res).res = res /\ ServedAs(call[c], res).req = call[c].req
<1>1. call[c] \in Calls /\ call \in [Clients -> Calls]
  BY CallFacts DEF TypeInv
<1>2. /\ ServedAs(call[c], res) \in Calls /\ ServedAs(call[c], res).st = "served"
      /\ ServedAs(call[c], res).res = res /\ ServedAs(call[c], res).req = call[c].req
  BY <1>1 DEF Calls, ServedAs
<1>3. call' = [call EXCEPT ![c] = ServedAs(call[c], res)]
  BY <1>1 DEF Calls, ServedAs
<1>4. QED
  BY <1>2, <1>3

LEMMA ServeStep ==
  ASSUME TypeInv, S3Inv, NEW c \in Clients, Serve(c) PROVE TypeInv' /\ S3Inv'
<1> DEFINE r == call[c].req
           res == Outcome(r)
           y == ServedAs(call[c], res)
<1>1. /\ wire[c].at = "sent" /\ Serves(r) /\ UNCHANGED <<late, calls>>
      /\ call' = [call EXCEPT ![c].st = "served", ![c].res = res]
  BY DEF Serve
<1>2. PICK got \in Garbled(Reply(r)) : wire' = [wire EXCEPT ![c] = got]
  BY DEF Serve
<1>3. GoodReq(r) /\ r.data \notin Big
  BY <1>1, CallFacts DEF CallOK
<1>4. res \in Results
  BY <1>3, OutcomeFacts
<1>5. call' = [call EXCEPT ![c] = y] /\ y \in Calls /\ y.st = "served" /\ y.res = res /\ y.req = r
  BY <1>1, <1>4, ServedCall
<1>6. /\ Classify(r, got) \in {res, StoreError(r)} /\ got.at = "answer"
      /\ got.status = 500 => Classify(r, got) = StoreError(r)
  BY <1>2, <1>3, ReplyHonest
<1> HIDE DEF y, res, r
<1>7. CallOK(y, got)
  BY <1>3, <1>5, <1>6 DEF CallOK, Honest
<1>8. /\ obj' \in [Keys -> Versions \cup {None}] /\ minted' \in [Keys -> SUBSET Versions]
      /\ late' \in SUBSET Reqs /\ LateOK' /\ calls' \in Nat
  BY <1>1, <1>3, ServesTyped, Untouched DEF LateOK
<1>9. QED
  BY <1>2, <1>5, <1>7, <1>8, OneCall

LEMMA TurnAwayStep ==
  ASSUME TypeInv, S3Inv, NEW c \in Clients, TurnAway(c) PROVE TypeInv' /\ S3Inv'
<1> DEFINE r == call[c].req
<1>1. wire[c].at = "sent" /\ UNCHANGED <<obj, minted, late, call, calls>>
  BY DEF TurnAway
<1>2. PICK s \in Rejections(r) : wire' = [wire EXCEPT ![c] = Response(s, None, None)]
  BY DEF TurnAway, Rejections
<1>3. GoodReq(r) /\ r.data \notin Big /\ call[c].st = "open"
  BY <1>1, CallFacts DEF CallOK
<1>4. /\ \/ Classify(r, Response(s, None, None)) = StoreError(r)
         \/ r.op = "cas" /\ Classify(r, Response(s, None, None)) = Refused
      /\ s = 500 => Classify(r, Response(s, None, None)) = StoreError(r)
  BY <1>2, <1>3, TurnedAwayHonest
<1>5. CallOK(call[c], Response(s, None, None))
  BY <1>3, <1>4, ResponseParts DEF CallOK, Honest
<1>6. /\ obj' \in [Keys -> Versions \cup {None}] /\ minted' \in [Keys -> SUBSET Versions]
      /\ late' \in SUBSET Reqs /\ LateOK' /\ calls' \in Nat /\ call' = [call EXCEPT ![c] = call[c]]
  BY <1>1, Untouched DEF LateOK
<1> DEFINE w == Response(s, None, None)
           y == call[c]
<1>7. wire' = [wire EXCEPT ![c] = w] /\ CallOK(y, w) /\ y \in Calls /\ call' = [call EXCEPT ![c] = y]
  BY <1>2, <1>5, <1>6, CallFacts
<1> HIDE DEF w, y
<1>8. QED
  BY <1>6, <1>7, OneCall

LEMMA ReceiveStep ==
  ASSUME TypeInv, S3Inv, NEW c \in Clients, Receive(c) PROVE TypeInv' /\ S3Inv'
<1> DEFINE res == Classify(call[c].req, wire[c])
<1>1. /\ wire[c].at = "answer" /\ Return(c, res) /\ UNCHANGED <<obj, minted, calls>>
      /\ Leaves(c) \/ UNCHANGED late
  BY DEF Receive
<1>2. res \in {call[c].res, StoreError(call[c].req), Refused}
  BY <1>1, CallFacts DEF CallOK, Honest
<1>3. res \in Results
  BY <1>2, CallFacts, ErrorWords, Words
<1>4. res.kind = "changed" => res.val.data \notin Big
  BY ClassifyBounded
<1> HIDE DEF res
<1>5. QED
  BY <1>1, <1>3, <1>4, ReturnStep

LEMMA GiveUpStep ==
  ASSUME TypeInv, S3Inv, NEW c \in Clients, GiveUp(c) PROVE TypeInv' /\ S3Inv'
<1>1. /\ wire[c].at # "none" /\ Return(c, StoreError(call[c].req)) /\ UNCHANGED <<obj, minted, calls>>
      /\ Leaves(c)
  BY DEF GiveUp
<1>2. QED
  BY <1>1, ErrorWords, ReturnStep

LEMMA ServeLateStep ==
  ASSUME TypeInv, S3Inv, NEW r \in late, ServeLate(r) PROVE TypeInv' /\ S3Inv'
<1>1. Serves(r) /\ late' = late \ {r} /\ UNCHANGED <<call, wire, calls>>
  BY DEF ServeLate
<1>2. GoodReq(r)
  BY DEF S3Inv, LateOK
<1>3. obj' \in [Keys -> Versions \cup {None}] /\ minted' \in [Keys -> SUBSET Versions]
  BY <1>1, <1>2, ServesTyped
<1>4. TypeInv'
  BY <1>1, <1>3 DEF TypeInv
<1>5. S3Inv'
  BY <1>1 DEF S3Inv, CallsOK, LateOK
<1>6. QED
  BY <1>4, <1>5
-----------------------------------------------------------------------------
(* The invariant holds                                                       *)

LEMMA S3Starts ==
  ASSUME Init PROVE TypeInv /\ S3Inv
<1>1. /\ NoCall \in Calls /\ NoCall.st = "idle" /\ NoCall.res.kind = "none"
  BY DEF NoCall, Calls, Results, Result
<1>2. obj \in [Keys -> Versions \cup {None}]
  <2>1. {Version(ETag(d), d) : d \in Big} \subseteq Versions
    BY VersionFacts, S3Assumption
  <2>2. QED
    BY <2>1 DEF Init
<1>3. minted \in [Keys -> SUBSET Versions]
  BY <1>2 DEF Init
<1>4. TypeInv
  BY <1>1, <1>2, <1>3 DEF Init, TypeInv
<1>5. CallOK(NoCall, At("none"))
  BY <1>1, PlaceAt DEF CallOK
<1>6. S3Inv
  BY <1>5 DEF Init, S3Inv, CallsOK, LateOK
<1>7. QED
  BY <1>4, <1>6

LEMMA S3Step ==
  ASSUME TypeInv, S3Inv, [Next]_vars PROVE TypeInv' /\ S3Inv'
<1>1. ASSUME NEW c \in Clients, Invoke(c) \/ ClientStep(c) \/ Serve(c) \/ TurnAway(c)
      PROVE  TypeInv' /\ S3Inv'
  BY <1>1, InvokeStep, SendStep, ReceiveStep, GiveUpStep, ServeStep, TurnAwayStep DEF ClientStep
<1>2. ASSUME NEW r \in late, ServeLate(r) PROVE TypeInv' /\ S3Inv'
  BY <1>2, ServeLateStep
<1>3. CASE UNCHANGED vars
  BY <1>3 DEF vars, TypeInv, S3Inv, CallsOK, LateOK
<1>4. QED
  BY <1>1, <1>2, <1>3 DEF Next

\* The invariant of S3Store: every answer on the wire is honest about whether
\* its request was served.
THEOREM S3Holds == Spec => [](TypeInv /\ S3Inv)
<1>1. Init => TypeInv /\ S3Inv
  BY S3Starts
<1>2. TypeInv /\ S3Inv /\ [Next]_vars => (TypeInv /\ S3Inv)'
  BY S3Step
<1>3. QED
  BY <1>1, <1>2, PTL DEF Spec

\* No body over max_object_bytes reaches the server or a caller.
THEOREM BodiesStayBounded == Spec => []BodiesBounded
<1>1. ASSUME TypeInv, S3Inv PROVE BodiesBounded
  <2>1. ASSUME NEW c \in Clients PROVE CallOK(call[c], wire[c])
    BY <1>1, CallFacts
  <2>2. ASSUME NEW c \in Clients, call[c].st = "served" PROVE call[c].req.data \notin Big
    BY <2>1, <2>2 DEF CallOK
  <2>3. ASSUME NEW c \in Clients, call[c].st = "idle", call[c].res.kind = "changed"
        PROVE  call[c].res.val.data \notin Big
    BY <2>1, <2>3 DEF CallOK
  <2>4. QED
    BY <2>2, <2>3 DEF BodiesBounded
<1>2. QED
  BY <1>1, S3Holds, PTL
-----------------------------------------------------------------------------
(* The contract of the ObjectStore trait                                     *)

\* The contract and this module speak of calls in the same words.
LEMMA SameWords ==
  /\ Contract!NoCall = NoCall /\ Contract!Unknown = Unknown /\ Contract!Refused = Refused
  /\ Contract!NotApplied = NotApplied
  /\ \A x, y : Contract!Result(x, y) = Result(x, y)
  /\ \A x, y : Contract!CondGet(x, y) = CondGet(x, y)
  /\ \A x, y : Contract!CasMatches(x, y) = CasMatches(x, y)
  /\ \A x : Contract!ETagOf(x) = ETagOf(x)
<1>1. \A x, y : Contract!Result(x, y) = Result(x, y)
  BY DEF Contract!Result, Result
<1>2. Contract!Unknown = Unknown /\ Contract!Refused = Refused /\ Contract!NotApplied = NotApplied
  BY <1>1 DEF Contract!Unknown, Unknown, Contract!Refused, Refused, Contract!NotApplied, NotApplied
<1>3. Contract!NoCall = NoCall
  BY <1>1 DEF Contract!NoCall, NoCall, Contract!NoRequest, NoRequest, Contract!Request, Request
<1>4. \A x, y : Contract!CondGet(x, y) = CondGet(x, y)
  BY <1>1 DEF Contract!CondGet, CondGet
<1>5. \A x : Contract!ETagOf(x) = ETagOf(x)
  BY DEF Contract!ETagOf, ETagOf
<1>6. \A x, y : Contract!CasMatches(x, y) = CasMatches(x, y)
  BY <1>5 DEF Contract!CasMatches, CasMatches
<1>7. QED
  BY <1>1, <1>2, <1>3, <1>4, <1>5, <1>6

LEMMA Stutters ==
  ASSUME UNCHANGED <<obj, minted, call, late>> PROVE UNCHANGED Contract!vars
BY DEF Contract!vars

LEMMA InvokeKeeps ==
  ASSUME TypeInv, S3Inv, NEW c \in Clients, Invoke(c) PROVE Contract!Invoke(c)
<1>1. PICK r : /\ GoodReq(r)
               /\ call' = [call EXCEPT ![c] = [NoCall EXCEPT !.st = "open", !.req = r]]
               /\ [NoCall EXCEPT !.st = "open", !.req = r].st = "open"
               /\ [NoCall EXCEPT !.st = "open", !.req = r].req = r
  BY InvokeFacts
<1>2. call[c].st = "idle" /\ UNCHANGED <<obj, minted, late>> /\ r.key \in Keys
  BY <1>1 DEF Invoke, GoodReq, Reqs
<1>3. call'[c] = [NoCall EXCEPT !.st = "open", !.req = r]
  BY <1>1 DEF TypeInv
<1>4. call'[c].st = "open" /\ call'[c].req = r
  BY <1>1, <1>3
<1>5. call' = [call EXCEPT ![c] = [Contract!NoCall EXCEPT !.st = "open", !.req = call'[c].req]]
  BY <1>1, <1>4, SameWords
<1>6. QED
  BY <1>2, <1>4, <1>5 DEF Contract!Invoke

\* A body is stored under the ETag of its content: equal ETags of a key imply
\* equal bodies.
LEMMA StoresKeeps ==
  ASSUME TypeInv, NEW r, GoodReq(r), r.op \in {"cas", "put"}, Serves(r), Outcome(r) = Result("ok", r.data)
  PROVE  Contract!Stores(r.key, r.data) /\ obj'[r.key].etag = r.data /\ obj'[r.key] # None
<1> DEFINE v == Version(ETag(r.data), r.data)
<1>1. r.key \in Keys /\ r.data \in Data
  BY DEF GoodReq, Reqs
<1>2. v \in Versions /\ v # None /\ v.etag = r.data /\ v.data = r.data
  BY <1>1, VersionFacts
<1>3. Outcome(r).kind = "ok" /\ r.op # "delete"
  BY DEF Result
<1>4. obj' = [obj EXCEPT ![r.key] = v] /\ minted' = [minted EXCEPT ![r.key] = @ \cup ({v} \ {None})]
  BY <1>3 DEF Serves
<1> HIDE DEF v
<1>5. minted' = [minted EXCEPT ![r.key] = @ \cup {v}]
  <2>1. {v} \ {None} = {v}
    BY <1>2
  <2>2. QED
    BY <1>4, <2>1
<1>6. obj'[r.key] = v
  BY <1>1, <1>4 DEF TypeInv
<1>7. \A u \in minted[r.key] : u.etag = v.etag => u.data = v.data
  BY <1>1, <1>2, VersionParts DEF TypeInv
<1>8. QED
  BY <1>2, <1>4, <1>5, <1>6, <1>7 DEF Contract!Stores

LEMMA EffectKeeps ==
  ASSUME TypeInv, NEW r, GoodReq(r), Serves(r)
  PROVE  /\ Contract!Effect(r, Outcome(r))
         /\ r.op # "get" => Outcome(r) \in {Refused, Result("ok", ETagOf(obj'[r.key]))}
<1>1. r.op \in {"get", "cas", "put", "delete"} /\ r.key \in Keys
  BY DEF GoodReq, Reqs
<1>2. CASE r.op = "get"
  <2>1. Outcome(r) = CondGet(obj[r.key], r.expect) /\ Outcome(r).kind # "ok"
    BY <1>2, OutcomeFacts
  <2>2. UNCHANGED <<obj, minted>>
    BY <2>1 DEF Serves
  <2>3. QED
    BY <1>2, <2>1, <2>2, SameWords DEF Contract!Effect
<1>3. CASE r.op = "cas" /\ ~CasMatches(obj[r.key], r.expect)
  <2>1. Outcome(r) = Refused /\ Outcome(r).kind # "ok"
    BY <1>3, OutcomeFacts, Words
  <2>2. UNCHANGED <<obj, minted>>
    BY <2>1 DEF Serves
  <2>3. QED
    BY <1>3, <2>1, <2>2, SameWords DEF Contract!Effect
<1>4. CASE r.op = "put" \/ (r.op = "cas" /\ CasMatches(obj[r.key], r.expect))
  <2>1. Outcome(r) = Result("ok", r.data)
    BY <1>4, OutcomeFacts
  <2>2. Contract!Stores(r.key, r.data) /\ obj'[r.key].etag = r.data /\ obj'[r.key] # None
    BY <1>4, <2>1, StoresKeeps
  <2>3. Outcome(r) = Contract!Result("ok", obj'[r.key].etag)
    BY <2>1, <2>2, SameWords
  <2>4. Contract!Effect(r, Outcome(r))
    BY <1>4, <2>2, <2>3, SameWords DEF Contract!Effect
  <2>5. QED
    BY <2>1, <2>2, <2>4 DEF ETagOf
<1>5. CASE r.op = "delete"
  <2>1. Outcome(r) = Result("ok", None) /\ Outcome(r).kind = "ok"
    BY <1>5, OutcomeFacts DEF Result
  <2>2. obj' = [obj EXCEPT ![r.key] = None] /\ minted' = [minted EXCEPT ![r.key] = @ \cup ({None} \ {None})]
    BY <1>5, <2>1 DEF Serves
  <2>3. UNCHANGED minted /\ obj'[r.key] = None
    BY <1>1, <2>2 DEF TypeInv
  <2>4. Contract!Effect(r, Outcome(r))
    BY <1>5, <2>1, <2>2, <2>3, SameWords DEF Contract!Effect
  <2>5. QED
    BY <2>1, <2>3, <2>4 DEF ETagOf
<1>6. QED
  BY <1>1, <1>2, <1>3, <1>4, <1>5

LEMMA ServeKeeps ==
  ASSUME TypeInv, S3Inv, NEW c \in Clients, Serve(c) PROVE Contract!Serve(c)
<1> DEFINE r == call[c].req
           res == Outcome(r)
<1>1. /\ wire[c].at = "sent" /\ Serves(r) /\ UNCHANGED late
      /\ call' = [call EXCEPT ![c].st = "served", ![c].res = res]
  BY DEF Serve
<1>2. GoodReq(r) /\ call[c].st = "open"
  BY <1>1, CallFacts DEF CallOK
<1>3. Contract!Effect(call[c].req, res) /\ res \in Results
  BY <1>1, <1>2, EffectKeeps, OutcomeFacts
<1> HIDE DEF res, r
<1>4. call'[c].st = "served" /\ call'[c].res = res
  <2> DEFINE y == ServedAs(call[c], res)
  <2>1. call' = [call EXCEPT ![c] = y] /\ y.st = "served" /\ y.res = res
    BY <1>1, <1>3, ServedCall
  <2> HIDE DEF y
  <2>2. call'[c] = y
    BY <2>1 DEF TypeInv
  <2>3. QED
    BY <2>1, <2>2
<1>5. QED
  BY <1>1, <1>2, <1>3, <1>4 DEF Contract!Serve

\* The answers a call may get, and what it may leave behind with them.
LEMMA AnswerKeeps ==
  ASSUME NEW c \in Clients, NEW res, Return(c, res), UNCHANGED <<obj, minted>>,
         \/ call[c].st = "served" /\ res \in {call[c].res, StoreError(call[c].req)} /\ UNCHANGED late
         \/ call[c].st = "open" /\ res = NotApplied /\ UNCHANGED late
         \/ call[c].st = "open" /\ call[c].req.op = "cas" /\ res = Refused /\ UNCHANGED late
         \/ call[c].st = "open" /\ res = StoreError(call[c].req) /\ Leaves(c)
  PROVE  Contract!AnswerServed(c) \/ Contract!AnswerOpen(c)
<1>1. Contract!Answers(c, res)
  BY SameWords DEF Return, Contract!Answers
<1>2. CASE call[c].st = "served" /\ res \in {call[c].res, StoreError(call[c].req)} /\ UNCHANGED late
  BY <1>1, <1>2, SameWords DEF Contract!AnswerServed, StoreError
<1>3. CASE call[c].st = "open" /\ res = NotApplied /\ UNCHANGED late
  BY <1>1, <1>3, SameWords DEF Contract!AnswerOpen
<1>4. CASE call[c].st = "open" /\ call[c].req.op = "cas" /\ res = Refused /\ UNCHANGED late
  BY <1>1, <1>4, SameWords DEF Contract!AnswerOpen
<1>5. CASE call[c].st = "open" /\ res = StoreError(call[c].req) /\ Leaves(c)
  <2>1. CASE call[c].req.op = "get"
    BY <1>1, <1>5, <2>1, SameWords DEF Contract!AnswerOpen, StoreError, Leaves
  <2>2. CASE call[c].req.op # "get"
    BY <1>1, <1>5, <2>2, SameWords DEF Contract!AnswerOpen, Contract!MayBeLate, StoreError, Leaves
  <2>3. QED
    BY <2>1, <2>2
<1>6. QED
  BY <1>2, <1>3, <1>4, <1>5

LEMMA ClientKeeps ==
  ASSUME TypeInv, S3Inv, NEW c \in Clients, ClientStep(c)
  PROVE  Contract!AnswerServed(c) \/ Contract!AnswerOpen(c) \/ UNCHANGED Contract!vars
<1>1. CASE Send(c)
  <2>1. call[c].st = "open" /\ UNCHANGED <<obj, minted, late>>
    BY <1>1, CallFacts DEF Send, CallOK
  <2>2. CASE Return(c, NotApplied)
    BY <2>1, <2>2, AnswerKeeps
  <2>3. CASE UNCHANGED call
    BY <2>1, <2>3, Stutters
  <2>4. QED
    BY <1>1, <2>2, <2>3 DEF Send
<1>2. CASE Receive(c)
  <2> DEFINE res == Classify(call[c].req, wire[c])
  <2>1. /\ wire[c].at = "answer" /\ Return(c, res) /\ UNCHANGED <<obj, minted>>
        /\ IF wire[c].status = 500 THEN Leaves(c) ELSE UNCHANGED late
    BY <1>2 DEF Receive
  <2>2. call[c].st \in {"open", "served"} /\ Honest(call[c], res, wire[c].status)
    BY <2>1, CallFacts DEF CallOK
  <2> HIDE DEF res
  <2>3. CASE call[c].st = "served"
    <3>1. UNCHANGED late /\ res \in {call[c].res, StoreError(call[c].req)}
      BY <2>1, <2>2, <2>3 DEF Leaves, Honest
    <3>2. QED
      BY <2>1, <2>3, <3>1, AnswerKeeps
  <2>4. CASE call[c].st = "open" /\ res = StoreError(call[c].req)
    <3>1. Leaves(c)
      BY <2>1 DEF Leaves
    <3>2. QED
      BY <2>1, <2>4, <3>1, AnswerKeeps
  <2>5. CASE call[c].st = "open" /\ res # StoreError(call[c].req)
    <3>1. call[c].req.op = "cas" /\ res = Refused /\ UNCHANGED late
      BY <2>1, <2>2, <2>5 DEF Honest
    <3>2. QED
      BY <2>1, <2>5, <3>1, AnswerKeeps
  <2>6. QED
    BY <2>2, <2>3, <2>4, <2>5
<1>3. CASE GiveUp(c)
  <2>1. /\ wire[c].at \in {"sent", "answer"} /\ Return(c, StoreError(call[c].req)) /\ Leaves(c)
        /\ UNCHANGED <<obj, minted>>
    BY <1>3 DEF GiveUp
  <2>2. call[c].st \in {"open", "served"}
    BY <2>1, CallFacts DEF CallOK
  <2>3. call[c].st = "served" => UNCHANGED late
    BY <2>1 DEF Leaves
  <2>4. QED
    BY <2>1, <2>2, <2>3, AnswerKeeps
<1>4. QED
  BY <1>1, <1>2, <1>3 DEF ClientStep

LEMMA LateKeeps ==
  ASSUME TypeInv, S3Inv, NEW r \in late, ServeLate(r) PROVE Contract!LateEffect(r)
<1>1. GoodReq(r) /\ r.op # "get" /\ Serves(r) /\ late' = late \ {r} /\ UNCHANGED call
  BY DEF S3Inv, LateOK, ServeLate
<1>2. /\ Contract!Effect(r, Outcome(r))
      /\ Outcome(r) \in {Contract!Refused, Contract!Result("ok", Contract!ETagOf(obj'[r.key]))}
  BY <1>1, EffectKeeps, SameWords
<1>3. QED
  BY <1>1, <1>2 DEF Contract!LateEffect

LEMMA StepKeeps ==
  ASSUME TypeInv, S3Inv, [Next]_vars PROVE [Contract!Next]_(Contract!vars)
<1>1. ASSUME NEW c \in Clients, Invoke(c) \/ ClientStep(c) \/ Serve(c) \/ TurnAway(c)
      PROVE  Contract!Next \/ UNCHANGED Contract!vars
  <2>1. CASE Invoke(c)
    BY <2>1, InvokeKeeps DEF Contract!Next
  <2>2. CASE ClientStep(c)
    BY <2>2, ClientKeeps DEF Contract!Next
  <2>3. CASE Serve(c)
    BY <2>3, ServeKeeps DEF Contract!Next
  <2>4. CASE TurnAway(c)
    BY <2>4, Stutters DEF TurnAway
  <2>5. QED
    BY <1>1, <2>1, <2>2, <2>3, <2>4
<1>2. ASSUME NEW r \in late, ServeLate(r) PROVE Contract!Next
  BY <1>2, LateKeeps DEF Contract!Next
<1>3. CASE UNCHANGED vars
  BY <1>3, Stutters DEF vars
<1>4. QED
  BY <1>1, <1>2, <1>3 DEF Next

\* S3Store implements the contract of the trait whatever the server answers,
\* and whenever a request that was given up takes effect.
THEOREM S3KeepsContract == Spec => KeepsContract
<1>1. Init => Contract!Init
  <2> SUFFICES ASSUME Init PROVE Contract!Init
    OBVIOUS
  <2>1. \A k \in Keys : minted[k] = {obj[k]} \ {None}
    BY DEF Init
  <2>2. call = [c \in Clients |-> Contract!NoCall] /\ late = {}
    BY SameWords DEF Init
  <2>3. QED
    BY <2>1, <2>2 DEF Contract!Init
<1>2. TypeInv /\ S3Inv /\ [Next]_vars => [Contract!Next]_(Contract!vars)
  BY StepKeeps
<1>3. QED
  BY <1>1, <1>2, S3Holds, PTL DEF Spec, KeepsContract, Contract!Spec
=============================================================================
