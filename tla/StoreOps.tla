------------------------------ MODULE StoreOps ------------------------------
(* The vocabulary of the object-store interface: versions, requests, results *)
(* and the two predicates every store shares.                                *)
EXTENDS Integers, FiniteSets

CONSTANTS
  Keys,
  Data,     \* bodies
  None      \* no object, no ETag, no value

\* Stored: a body and the ETag the store gave to it.
Version(etag, data) == [etag |-> etag, data |-> data]

ETagOf(found) == IF found = None THEN None ELSE found.etag

\* cas_matches: None on both sides is the create-only PUT of an absent object.
CasMatches(found, expect) == ETagOf(found) = expect

\* get (expect = None), get_if_changed, put_if_match, put and delete; n tells
\* apart the calls that ask for the same.
Request(op, key, expect, data, n) ==
  [op |-> op, key |-> key, expect |-> expect, data |-> data, n |-> n]

NoRequest == Request("none", None, None, None, 0)

\* The n-th call, with the ETags its caller may know.
Requests(tags, n) ==
  {Request("get", k, e, None, n) : k \in Keys, e \in tags \cup {None}}
    \cup {Request("cas", k, e, d, n) : k \in Keys, e \in tags \cup {None}, d \in Data}
    \cup {Request("put", k, None, d, n) : k \in Keys, d \in Data}
    \cup {Request("delete", k, None, None, n) : k \in Keys}

Result(kind, val) == [kind |-> kind, val |-> val]

NotApplied == Result("error", "NotApplied")
Unknown == Result("error", "Unknown")
Refused == Result("refused", None)            \* CondPut::PreconditionFailed

\* get_if_changed on what the key holds.
CondGet(found, expect) ==
  IF found = None THEN Result("missing", None)
  ELSE IF found.etag = expect THEN Result("notmodified", None)
  ELSE Result("changed", found)

\* A call of a client: idle, open (nothing decided) or served (it took effect).
NoCall == [st |-> "idle", req |-> NoRequest, res |-> Result("none", None)]
=============================================================================
