------------------------------ MODULE MCProxy ------------------------------
(* Small bundle directories and the bundles they load to. *)
EXTENDS Proxy, TLC

CONSTANT r1

MCVersions == {"v1", "v2", "v3"}
MCRoutes == {"POST /a", "GET /b", "PUT /c"}
MCSelValues == {"", "x"}
MCMessages == {"m1", "m2", "e1", "none"}
MCDescs == {"Empty", "d1", "d2"}
MCTargets == {"", "t1", "t9"}
MCUpstreams == {"", "t1"}

WithX == [NoSelectors EXCEPT !.profile = "x"]

Shape(m) ==
    [requestMessage |-> m, responseMessage |-> m, errorMessages |-> 404 :> "e1",
     strict |-> FALSE, requestOps |-> FALSE, responseOps |-> FALSE,
     errorResponseOps |-> {}, target |-> "", transformTarget |-> ""]

\* What the layers ship: v1 and a strict v2 that declares a 99, each binding POST /a and, without
\* a body, GET /b.  "changed" regenerates v1 with other fields, "newest" has v1
\* removed, "torn" is a layer caught half-written.
Shipped(id) ==
    IF id.route = "GET /b" THEN Shape("none")
    ELSE IF id.version = "v1" THEN Shape("m1")
    ELSE [Shape("m2") EXCEPT !.strict = TRUE, !.errorMessages = @ @@ 99 :> "e1"]

MessagesOf(ls) ==
    ("e1" :> "d1" @@ "m2" :> "d2" @@ "none" :> "Empty")
    @@ (IF ls = "newest" THEN <<>> ELSE "m1" :> (IF ls = "changed" THEN "d2" ELSE "d1"))

\* What resolution.yaml does to v1.  "chain": v2 serves it through transforms,
\* except to profile x, which is routed to t1.  "ops": its requests are
\* transformed in place.  "astray": it is routed to a target nobody configured.
Install(res, id) ==
    LET c == Shipped(id)
    IN  IF id.version # "v1" \/ res = "none" THEN c
        ELSE IF id.sel = WithX THEN [c EXCEPT !.target = "t1"]
        ELSE IF res = "astray" THEN [c EXCEPT !.target = "t9"]
        ELSE IF res = "ops" THEN [c EXCEPT !.requestOps = TRUE]
        ELSE [c EXCEPT !.responseOps = TRUE, !.errorResponseOps = {404},
                       !.transformTarget = "v2"]

IdsOf(res, ls) ==
    {Canonical(v, rt) : v \in IF ls = "newest" THEN {"v2"} ELSE {"v1", "v2"},
                        rt \in {"POST /a", "GET /b"}}
    \cup (IF res = "chain"
          THEN {[Canonical("v1", rt) EXCEPT !.sel = WithX] : rt \in {"POST /a", "GET /b"}}
          ELSE {})

LoadedBundle(res, ls) ==
    IF ls = "torn" \/ (ls = "newest" /\ res # "none") THEN LoadError
    ELSE LET c == [id \in IdsOf(res, ls) |-> Install(res, id)]
             canonical == {id \in DOMAIN c : selectorEmpty(id.sel)}
         IN  [ids |-> DOMAIN c, contract |-> c, messages |-> MessagesOf(ls),
              variants |-> [id \in canonical |->
                  IF [id EXCEPT !.sel = WithX] \in DOMAIN c
                  THEN <<[id EXCEPT !.sel = WithX]>> ELSE <<>>],
              chain |-> [id \in DOMAIN c |->
                  IF c[id].transformTarget = "" THEN <<id>>
                  ELSE <<id, Canonical(c[id].transformTarget, id.route)>>]]

\* Load is a function of the directory; as a constant it is computed once.
LoadedBundles ==
    [res \in {"none", "chain", "ops", "astray"}, ls \in {"both", "changed", "newest", "torn"} |->
        LoadedBundle(res, ls)]

MCLoadBundle(res, ls) == LoadedBundles[res, ls]

AllInputs ==
    {[preflight |-> FALSE, route |-> rt, version |-> v, sel |-> s, body |-> b] :
        rt \in MCRoutes, v \in {"v1", "v2", "v3", "unknown"}, s \in {NoSelectors, WithX},
        b \in {"none", "proto", "otherType", "declaredTooLarge", "chunkedTooLarge",
               "unreadable"}}
    \cup {[preflight |-> TRUE, route |-> "POST /a", version |-> "unknown",
           sel |-> NoSelectors, body |-> "none"]}

OneInput == [preflight |-> FALSE, route |-> "POST /a", version |-> "v1",
             sel |-> NoSelectors, body |-> "proto"]
SingleInput == {OneInput}

Boundaries == {99, 200, 203, 204, 205, 206, 208, 226, 299, 300, 399, 404, 429, 503}
TwoStatuses == {200, 404}
OneStatus == {200}
WithInvalid == {99, 200}
=============================================================================
