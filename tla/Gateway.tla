------------------------------ MODULE Gateway ------------------------------
(***************************************************************************)
(* What the data plane promises its clients (docs/protocol.md, "Error      *)
(* codes"; docs/operations.md, "Reload"), with nothing of how a request is *)
(* carried through: it is answered once or aborted, and one bundle, the    *)
(* one in force at some moment between its arrival and its answer, decides *)
(* what it may be answered with.  Preflights are outside that promise:     *)
(* they see no bundle and their answers carry none of its headers.         *)
(***************************************************************************)
EXTENDS Bundle

CONSTANTS
    Requests,   \* what clients ask, one exchange each
    Inputs,     \* what a client can send
    NoInput,    \* nothing sent yet
    Statuses,   \* what an upstream can answer
    Unknown,    \* no version named
    Bundles,    \* the bundles that can be published
    NoBundle    \* nothing published yet

VARIABLES
    bundle,     \* the bundle in force
    exchange    \* the exchanges with the clients

vars == <<bundle, exchange>>

\* An exchange is idle, open, answered or dropped.
Idle == [phase |-> "idle", in |-> NoInput, view |-> NoBundle, answer |-> <<>>]

Pending(in, view) == [phase |-> "open", in |-> in, view |-> view, answer |-> <<>>]

Answered(in, view, a) == [phase |-> "answered", in |-> in, view |-> view, answer |-> <<a>>]

Dropped(in, view) == [phase |-> "dropped", in |-> in, view |-> view, answer |-> <<>>]

-----------------------------------------------------------------------------
(* Answers *)

\* The status that goes with a code.  upstream_status carries the upstream's
\* own, transform_failed 422 for a request and 502 for a response.
StatusOf ==
    [unavailable |-> 503, unknown_route |-> 404, unsupported_media_type |-> 415,
     request_body_too_large |-> 413, decode_failed |-> 400,
     unsupported_contract_version |-> 400, upstream_timeout |-> 504,
     upstream_error |-> 502, internal_error |-> 500]

\* An error envelope echoes the version the client named.
Envelope(in, status, code) == [status |-> status, code |-> code, version |-> in.version]

Failure(in, code) == Envelope(in, StatusOf[code], code)

\* A typed response has no code.
Typed(in, status) == Envelope(in, status, "")

Choice(in, b) == Lookup(b, in.route, in.version, in.sel)

\* Why a request is refused before any upstream sees it: the first reason that
\* applies, in this order.  "" if none does.
Refusal(in, b) ==
    IF b = NoBundle THEN "unavailable"
    ELSE IF ~ LookupRoute(b, in.route) THEN "unknown_route"
    ELSE IF in.body = "otherType" THEN "unsupported_media_type"
    ELSE IF in.body \in {"declaredTooLarge", "chunkedTooLarge"} THEN "request_body_too_large"
    ELSE IF in.body = "unreadable" THEN "decode_failed"
    ELSE IF in.version = Unknown \/ Choice(in, b) = NoContract
         THEN "unsupported_contract_version"
    ELSE ""

Links(b, id) == {b.contract[b.chain[id][i]] : i \in DOMAIN b.chain[id]}

\* The statuses with an answer of their own under contract c.
Declared(c) == 200..205 \cup DOMAIN c.errorMessages

\* What an accepted request can be answered with under contract c of bundle b.
Outcomes(in, b, id) ==
    LET c == b.contract[id]
    IN  {Failure(in, code) : code \in {"decode_failed", "upstream_error", "upstream_timeout"}}
        \cup {Typed(in, s) : s \in Statuses \cap Declared(c)}
        \cup {Envelope(in, s, "upstream_status") :
                 s \in {t \in Statuses : ~ c.strict /\ t \notin Declared(c)
                                         /\ ~ IsCapabilityCeiling(t)}}
        \cup {Envelope(in, 422, "transform_failed") : l \in {k \in Links(b, id) : k.requestOps}}
        \cup {Envelope(in, 502, "transform_failed") :
                 l \in {k \in Links(b, id) : k.responseOps \/ k.errorResponseOps # {}}}

\* A preflight is relayed, or answered in plain text (http.go:530-560): without
\* X-Wavefront-Contract-Version and, when it fails, without X-Wavefront-Error and
\* envelope.  The documents make no exception of it (docs/protocol.md:187-195,
\* 338, docs/operations.md:86); this one is the code's.
PreflightAnswers ==
    {[status |-> s, code |-> "", version |-> ""] : s \in Statuses \cup {502}}

Answers(in, b) ==
    IF in.preflight THEN PreflightAnswers
    ELSE IF Refusal(in, b) # "" THEN {Failure(in, Refusal(in, b))}
    ELSE Outcomes(in, b, Choice(in, b))

\* net/http makes a 200 of a status it refuses to write.
Sent(a) == IF a.status \in 100..999 THEN a ELSE [a EXCEPT !.status = 200]

-----------------------------------------------------------------------------
(* Steps *)

\* A bundle is replaced by a bundle.
Publish ==
    /\ bundle' \in Bundles
    /\ UNCHANGED exchange

Turn(r, x) ==
    /\ exchange' = [exchange EXCEPT ![r] = x]
    /\ UNCHANGED bundle

Ask(r) ==
    /\ exchange[r].phase = "idle"
    /\ \E in \in Inputs : Turn(r, Pending(in, NoBundle))

Open(r) == exchange[r].phase = "open"

\* The bundle a request is decided under: the one it has seen, else the one in
\* force.  A preflight is nobody's contract.
View(x) == IF x.view # NoBundle \/ x.in.preflight THEN x.view ELSE bundle

Look(r) ==
    LET x == exchange[r]
    IN  /\ Open(r)
        /\ Turn(r, Pending(x.in, View(x)))

Reply(r) ==
    LET x == exchange[r]
    IN  /\ Open(r)
        /\ \E a \in Answers(x.in, View(x)) : Turn(r, Answered(x.in, View(x), Sent(a)))

\* The handler panicked before it had said anything.
Crash(r) ==
    LET x == exchange[r]
    IN  /\ Open(r)
        /\ Turn(r, Answered(x.in, x.view, Failure(x.in, "internal_error")))

\* The connection is dropped without a word.
Drop(r) ==
    LET x == exchange[r]
    IN  /\ Open(r)
        /\ Turn(r, Dropped(x.in, x.view))

Init ==
    /\ bundle = NoBundle
    /\ exchange = [r \in Requests |-> Idle]

Next ==
    \/ Publish
    \/ \E r \in Requests : Ask(r) \/ Look(r) \/ Reply(r) \/ Crash(r) \/ Drop(r)

Spec == Init /\ [][Next]_vars
=============================================================================
