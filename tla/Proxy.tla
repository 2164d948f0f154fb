-------------------------------- MODULE Proxy --------------------------------
(***************************************************************************)
(* The data plane: concurrent requests through Recover and proxy           *)
(* (internal/server/http.go, recover.go), the adapter that resolves        *)
(* messages through the server, and the SIGHUP goroutine of                *)
(* cmd/wavefront/main.go that swaps the live bundle under them.            *)
(*                                                                         *)
(* A request advances in the steps between which another goroutine, the    *)
(* client, the upstream or the clock can act.  Payloads are abstracted to  *)
(* what the pipeline decides on: whether bytes are present, typed, within  *)
(* the limit and decodable.  What is data-dependent (a body that does not  *)
(* parse, a stanza that does not apply) is a nondeterministic choice.      *)
(***************************************************************************)
EXTENDS Bundle

CONSTANTS
    Requests,          \* request goroutines
    Resolutions,       \* contents of resolution.yaml
    LayerSets,         \* contents of the layer directories
    LoadBundle(_, _),  \* bundle.Load on a resolution and the layers
    LoadError,         \* its error result
    NoBundle,          \* the nil bundle pointer
    Inputs,            \* what a client can send
    Statuses,          \* what the upstream can answer
    Upstreams,         \* the targets TargetURL knows
    Unknown,           \* versionUnknown
    MaxEdits,          \* bound on the edits of the directory
    MaxSignals         \* bound on the SIGHUPs sent

\* BundleLoad's LoadSound.
ASSUME LoadAssumption ==
    \A res \in Resolutions, ls \in LayerSets :
        \/ LoadBundle(res, ls) = LoadError
        \/ WellFormed(LoadBundle(res, ls)) /\ LoadBundle(res, ls) # NoBundle

ASSUME InputAssumption ==
    Inputs \subseteq
        [preflight : BOOLEAN, route : Routes, version : Versions \cup {Unknown},
         sel : Selectors,
         body : {"none", "proto", "otherType", "declaredTooLarge", "chunkedTooLarge",
                 "unreadable"}]

\* An HTTP client never hands a 1xx other than 101 to its caller.
ASSUME StatusAssumption == Statuses \subseteq (0..99 \cup {101} \cup 200..999)

ASSUME ProxyAssumption ==
    /\ "" \in Upstreams /\ Upstreams \subseteq Targets
    /\ Unknown \notin Versions /\ Unknown # ""
    /\ MaxEdits \in Nat /\ MaxSignals \in Nat

Bundles == {LoadBundle(res, ls) : res \in Resolutions, ls \in LayerSets} \ {LoadError}

VARIABLES
    disk,     \* the bundle directory
    live,     \* Server.bundle, the atomic pointer
    hup,      \* signals buffered in hupCh
    loader,   \* the SIGHUP goroutine
    edits,    \* edits of the directory so far
    signals,  \* SIGHUPs sent so far
    asked,    \* history: the directory the last SIGHUP was sent for, if unedited since
    req       \* the request goroutines

environment == <<disk, edits, signals>>

vars == <<disk, edits, signals, live, hup, loader, asked, req>>

HupCap == 1       \* make(chan os.Signal, 1)

NotAsked == [asked |-> FALSE]

-----------------------------------------------------------------------------
(* One request *)

NoHeader == [status |-> 0, code |-> "", version |-> ""]

NoInput == [preflight |-> FALSE, route |-> "", version |-> Unknown,
            sel |-> NoSelectors, body |-> "none"]

Fresh ==
    [pc |-> "idle", in |-> NoInput,
     ready    |-> FALSE,        \* history: /ready said so when the request arrived
     bundle   |-> NoBundle,     \* b, the pointer as the route gate read it
     id       |-> NoContract,   \* c
     version  |-> Unknown,      \* the metric and log label
     bodyless |-> FALSE,        \* the upstream call carries no body
     status   |-> 0,            \* upstreamStatus
     expired  |-> FALSE,        \* the request context's deadline has passed
     late     |-> FALSE,        \* history: the deadline cut the exchange off
     reads    |-> {},           \* history: the bundles the request has used
     unresolved |-> FALSE,      \* history: the resolver did not know a message
     up       |-> <<>>,         \* history: contracts whose request ops ran
     down     |-> <<>>,         \* history: contracts whose response ops ran
     outcome  |-> "ok",
     counted  |-> <<>>,         \* increments of wavefront_errors_total
     requests |-> 0,            \* increments of wavefront_requests_total
     span     |-> "none",
     panic    |-> "none",
     wrote    |-> FALSE,        \* responseTracker.wrote
     header   |-> NoHeader,     \* the response header map
     wire     |-> <<>>]         \* the responses whose status line is out

Step(r, q) == req' = [req EXCEPT ![r] = q] /\ UNCHANGED <<environment, live, hup, loader, asked>>

Contract(q) == q.bundle.contract[q.id]

\* The contracts along the chain captured at negotiation.
Links(q) == [i \in DOMAIN q.bundle.chain[q.id] |-> q.bundle.contract[q.bundle.chain[q.id][i]]]

\* Mutant: the metric label is echoed instead.
ResponseVersionIsLabel(q) == q.version

\* responseVersion: the negotiated version, else what the client sent.
ResponseVersion(q) == IF q.version # Unknown THEN q.version ELSE q.in.version

\* responseTracker.WriteHeader marks the response as started and then calls
\* net/http, which panics on a status outside 100..999.
WriteHeader(q, status, code, version) ==
    LET h  == [status |-> status, code |-> code, version |-> version]
        ok == status \in 100..999
    IN  [q EXCEPT !.wrote = TRUE, !.header = h, !.pc = "return",
                  !.wire = IF ok THEN Append(@, h) ELSE @,
                  !.panic = IF ok THEN @ ELSE "panic"]

\* Mutant: the errors counter is labelled with the raw client header.
FailRawLabel(q, code, status, tout) ==
    WriteHeader([q EXCEPT !.outcome = code,
                          !.counted = Append(@, [code |-> code, version |-> q.in.version, tout |-> tout])],
                status, code, ResponseVersion(q))

\* fail and writeError: outcome, counter, envelope.
Fail(q, code, status, tout) ==
    WriteHeader([q EXCEPT !.outcome = code,
                          !.counted = Append(@, [code |-> code, version |-> q.version, tout |-> tout])],
                status, code, ResponseVersion(q))

\* A typed response: contract version, no X-Wavefront-Error.
Answer(q, status) == WriteHeader(q, status, "", q.version)

-----------------------------------------------------------------------------
(* Recover, then the top of proxy *)

\* A preflight is set aside before tracing and metrics.
Arrive(r, input) ==
    /\ req[r].pc = "idle"
    /\ Step(r, [req[r] EXCEPT !.in = input, !.ready = live # NoBundle,
                              !.pc = IF input.preflight THEN "preflight" ELSE "gate",
                              !.span = IF input.preflight THEN "none" ELSE "open"])

\* The preflight goes to the default upstream, whose status is relayed; a
\* failure is a plain-text 502.  Neither carries a contract version nor an error
\* code, although docs/protocol.md:338 has the version on every response.
Preflight(r) ==
    LET q == req[r]
    IN  /\ q.pc = "preflight"
        /\ \/ \E s \in Statuses : Step(r, WriteHeader(q, s, "", ""))
           \/ Step(r, WriteHeader(q, 502, "", ""))

\* hasRequestBody and not isProtobufContentType.
UnsupportedMedia(in) == in.body = "otherType"

\* Mutant: the envelope is checked before the route.
GateEnvelopeFirst(r) ==
    LET q == [req[r] EXCEPT !.bundle = live, !.reads = {live} \ {NoBundle}]
    IN  /\ q.pc = "gate"
        /\ Step(r,
             IF live = NoBundle THEN Fail(q, "unavailable", 503, "")
             ELSE IF UnsupportedMedia(q.in) THEN Fail(q, "unsupported_media_type", 415, "")
             ELSE IF ~ LookupRoute(live, q.in.route) THEN Fail(q, "unknown_route", 404, "")
             ELSE IF q.in.body = "declaredTooLarge"
                  THEN Fail(q, "request_body_too_large", 413, "")
             ELSE [q EXCEPT !.pc = "body"])

\* The pointer is read; route gate and envelope checks use nothing shared.
Gate(r) ==
    LET q == [req[r] EXCEPT !.bundle = live, !.reads = {live} \ {NoBundle}]
    IN  /\ q.pc = "gate"
        /\ Step(r,
             IF live = NoBundle THEN Fail(q, "unavailable", 503, "")
             ELSE IF ~ LookupRoute(live, q.in.route) THEN Fail(q, "unknown_route", 404, "")
             ELSE IF UnsupportedMedia(q.in) THEN Fail(q, "unsupported_media_type", 415, "")
             ELSE IF q.in.body = "declaredTooLarge"
                  THEN Fail(q, "request_body_too_large", 413, "")
             ELSE [q EXCEPT !.pc = "body"])

ReadBody(r) ==
    LET q == req[r]
    IN  /\ q.pc = "body"
        /\ Step(r,
             IF q.in.body = "chunkedTooLarge" THEN Fail(q, "request_body_too_large", 413, "")
             ELSE IF q.in.body = "unreadable" THEN Fail(q, "decode_failed", 400, "")
             ELSE [q EXCEPT !.pc = "negotiate"])

\* Mutant: the pointer is read again to negotiate.
NegotiateLive(r) ==
    LET q  == req[r]
        id == Lookup(live, q.in.route, q.in.version, q.in.sel)
    IN  /\ q.pc = "negotiate"
        /\ Step(r,
             IF q.in.version = Unknown \/ id = NoContract
             THEN Fail(q, "unsupported_contract_version", 400, "")
             ELSE [q EXCEPT !.bundle = live, !.id = id, !.version = id.version,
                            !.pc = "decode"])

\* negotiate.Resolve against the bundle read at the gate.
Negotiate(r) ==
    LET q  == req[r]
        id == Lookup(q.bundle, q.in.route, q.in.version, q.in.sel)
    IN  /\ q.pc = "negotiate"
        /\ Step(r,
             IF q.in.version = Unknown \/ id = NoContract
             THEN Fail(q, "unsupported_contract_version", 400, "")
             ELSE [q EXCEPT !.id = id, !.version = id.version, !.pc = "decode"])

-----------------------------------------------------------------------------
(* The request direction *)

\* Server.Message, the adapter's resolver: it reads the pointer again, so the
\* descriptor is the live bundle's.
Message(q, name) ==
    [q EXCEPT !.reads = @ \cup {live}, !.unresolved = ~ Resolvable(live, name)]

\* A zero-field message makes the call bodyless; other bytes may or may not
\* decode, an absent body always does.
Decode(r) ==
    LET name == Contract(req[r]).requestMessage
        q    == Message(req[r], name)
    IN  /\ req[r].pc = "decode"
        /\ \/ /\ Resolvable(live, name)
              /\ Step(r, [q EXCEPT !.bodyless = live.messages[name] = Empty, !.pc = "reqops"])
           \/ /\ Resolvable(live, name) =>
                    live.messages[name] # Empty /\ req[r].in.body # "none"
              /\ Step(r, Fail(q, "decode_failed", 400, ""))

\* What transform.apply can return.  A contract without ops passes the body on
\* unparsed; one with ops wants a JSON object, which a bodyless call has not.
apply(hasOps, bodyless) ==
    IF ~ hasOps THEN {"applied"}
    ELSE IF bodyless THEN {"failed"}
    ELSE {"applied", "failed"}

\* The chain's request ops in order.
TransformRequest(r) ==
    LET q      == req[r]
        hasOps == \E i \in DOMAIN Links(q) : Links(q)[i].requestOps
    IN  /\ q.pc = "reqops"
        /\ \/ /\ "applied" \in apply(hasOps, q.bodyless)
              /\ Step(r, [q EXCEPT !.up = Links(q), !.pc = "dial"])
           \/ /\ "failed" \in apply(hasOps, q.bodyless)
              /\ Step(r, Fail(q, "transform_failed", 422, "request"))

\* The default upstream, or one of the named targets of the configuration.
TargetURL(name) == name \in Upstreams

\* The terminal's target names the upstream; the request may fail to build.
Dial(r) ==
    LET q        == req[r]
        terminal == Links(q)[Len(Links(q))]
    IN  /\ q.pc = "dial"
        /\ \/ /\ TargetURL(terminal.target)
              /\ Step(r, [q EXCEPT !.pc = "upstream"])
           \/ Step(r, Fail(q, "upstream_error", 502, ""))

-----------------------------------------------------------------------------
(* The upstream exchange *)

\* Mutant: the timeout covers client.Do only, not the body read.
DeadlineCoversHeadOnly(r) ==
    /\ req[r].pc = "upstream"
    /\ ~ req[r].expired
    /\ Step(r, [req[r] EXCEPT !.expired = TRUE])

\* context.WithTimeout(RequestTimeout) fires while the exchange is under way.
DeadlineExpires(r) ==
    /\ req[r].pc \in {"upstream", "upbody"}
    /\ ~ req[r].expired
    /\ Step(r, [req[r] EXCEPT !.expired = TRUE])

\* client.Do returns a response head.
UpstreamAnswers(r) ==
    /\ req[r].pc = "upstream" /\ ~ req[r].expired
    /\ \E s \in Statuses : Step(r, [req[r] EXCEPT !.status = s, !.pc = "upbody"])

\* client.Do fails: the deadline, or an unreachable upstream or a client gone.
UpstreamFails(r) ==
    LET q == req[r]
    IN  /\ q.pc = "upstream"
        /\ Step(r, IF q.expired
                   THEN Fail([q EXCEPT !.late = TRUE], "upstream_timeout", 504, "")
                   ELSE Fail(q, "upstream_error", 502, ""))

\* io.ReadAll(uresp.Body).  Bytes already buffered may still be read after the
\* deadline; a failed read is upstream_error whatever made it fail.
ReadUpstreamBody(r) ==
    LET q == req[r]
    IN  /\ q.pc = "upbody"
        /\ \/ Step(r, [q EXCEPT !.pc = "dispatch"])
           \/ Step(r, Fail([q EXCEPT !.late = q.expired], "upstream_error", 502, ""))

-----------------------------------------------------------------------------
(* The response direction *)

\* Mutant: every 2xx is a success.
IsSuccessAny2xx(s) == s \in 200..299

IsSuccess(s) == s \in 200..203

\* The status dispatch.
Dispatch(r) ==
    LET q == req[r]
        s == q.status
    IN  /\ q.pc = "dispatch"
        /\ Step(r,
             IF IsSuccess(s) THEN [q EXCEPT !.pc = "respops"]
             ELSE IF s \in {204, 205} THEN Answer(q, s)
             ELSE IF IsCapabilityCeiling(s) THEN Fail(q, "upstream_error", 502, "")
             ELSE IF s \in DOMAIN Contract(q).errorMessages THEN [q EXCEPT !.pc = "respops"]
             ELSE IF Contract(q).strict THEN Fail(q, "upstream_error", 502, "")
             ELSE Fail(q, "upstream_status", s, ""))

\* Mutant: the response direction walks the chain forwards.
TransformResponseForwards(r) ==
    /\ req[r].pc = "respops"
    /\ Step(r, [req[r] EXCEPT !.down = Links(req[r]), !.pc = "encode"])

\* Response ops for a success, the status's own ops for a declared error, from
\* the terminal back to the contract the client named.
TransformResponse(r) ==
    LET q      == req[r]
        n      == Len(Links(q))
        hasOps == \E i \in DOMAIN Links(q) :
                     IF IsSuccess(q.status) THEN Links(q)[i].responseOps
                     ELSE q.status \in Links(q)[i].errorResponseOps
    IN  /\ q.pc = "respops"
        /\ \/ /\ "applied" \in apply(hasOps, FALSE)
              /\ Step(r, [q EXCEPT !.down = [i \in 1..n |-> Links(q)[n + 1 - i]],
                                   !.pc = "encode"])
           \/ /\ "failed" \in apply(hasOps, FALSE)
              /\ Step(r, Fail(q, "transform_failed", 502, "response"))

\* EncodeResponse or EncodeError: the pointer is read once more.
Encode(r) ==
    LET c    == Contract(req[r])
        name == IF IsSuccess(req[r].status) THEN c.responseMessage
                ELSE c.errorMessages[req[r].status]
        q    == Message(req[r], name)
    IN  /\ req[r].pc = "encode"
        /\ \/ Resolvable(live, name) /\ Step(r, Answer(q, q.status))
           \/ /\ Resolvable(live, name) => live.messages[name] # Empty
              /\ Step(r, Fail(q, "upstream_error", 502, ""))

-----------------------------------------------------------------------------
(* Leaving proxy *)

InProxy == {"gate", "body", "negotiate", "decode", "reqops", "dial", "upstream",
            "upbody", "dispatch", "respops", "encode"}

\* Any step of the handler may panic, with http.ErrAbortHandler too.
Panics(r) ==
    /\ req[r].pc \in InProxy \cup {"preflight"}
    /\ \E kind \in {"panic", "abort"} :
          Step(r, [req[r] EXCEPT !.panic = kind, !.pc = "return"])

\* What net/http does once Recover has returned: a handler that wrote nothing
\* is answered 200 with whatever headers it had set.
Returned(q) ==
    IF q.wire # <<>> THEN [q EXCEPT !.pc = "done"]
    ELSE [q EXCEPT !.pc = "done", !.wire = Append(@, [q.header EXCEPT !.status = 200])]

\* proxy's deferred function: requests counter, log line, span.  A preflight
\* has not registered it.  The log handler may panic in turn: the span is then
\* never ended.
Deferred(r) ==
    LET q == req[r]
        after == [q EXCEPT !.requests = @ + 1,
                           !.span = IF q.outcome = "ok" THEN "ok" ELSE "error"]
        Leave(s) == IF s.panic = "none" THEN Returned(s) ELSE [s EXCEPT !.pc = "recover"]
    IN  /\ q.pc = "return"
        /\ \/ q.in.preflight /\ Step(r, Leave(q))
           \/ ~ q.in.preflight /\ Step(r, Leave(after))
           \/ /\ ~ q.in.preflight
              /\ Step(r, Leave([q EXCEPT !.requests = @ + 1, !.panic = "panic"]))

\* Mutant: the envelope is written whether or not a response has started.
RecoverAlwaysWrites(r) ==
    LET q == req[r]
    IN  /\ q.pc = "recover"
        /\ Step(r, IF q.panic = "abort" THEN [q EXCEPT !.pc = "aborted"]
                   ELSE Returned(Fail(q, "internal_error", 500, "")))

\* Mutant: a panic after the response has started returns before counting.
RecoverCountsLate(r) ==
    LET q == req[r]
    IN  /\ q.pc = "recover"
        /\ Step(r, IF q.panic = "abort" THEN [q EXCEPT !.pc = "aborted"]
                   ELSE IF q.wrote THEN Returned(q)
                   ELSE Returned(Fail(q, "internal_error", 500, "")))

\* Recover's own deferred function.
Recover(r) ==
    LET q == req[r]
        counted == [q EXCEPT !.counted =
                        Append(@, [code |-> "internal_error", version |-> Unknown, tout |-> ""])]
    IN  /\ q.pc = "recover"
        /\ Step(r,
             IF q.panic = "abort" THEN [q EXCEPT !.pc = "aborted"]
             ELSE IF q.wrote THEN Returned(counted)
             ELSE Returned(WriteHeader(counted, 500, "internal_error", q.in.version)))

-----------------------------------------------------------------------------
(* The bundle behind the requests *)

\* The operator edits resolution.yaml or a layer.
OperatorWrites ==
    /\ \/ \E res \in Resolutions : disk' = [disk EXCEPT !.resolution = res]
       \/ \E ls \in LayerSets : disk' = [disk EXCEPT !.layers = ls]
    /\ disk' # disk
    /\ edits < MaxEdits /\ edits' = edits + 1
    /\ asked' = NotAsked
    /\ UNCHANGED <<signals, live, hup, loader, req>>

\* main: the first Load, then SetBundle.  A directory that does not load ends
\* the process; one edited and started again boots later.  main serves after
\* SetBundle only; a Server embedded without it answers 503 until then.
Boot ==
    LET b == LoadBundle(disk.resolution, disk.layers)
    IN  /\ live = NoBundle /\ b # LoadError
        /\ live' = b
        /\ UNCHANGED <<environment, hup, loader, asked, req>>

\* Mutant: an unbuffered hupCh, which only takes a signal while the goroutine waits.
SighupUnbuffered ==
    /\ live # NoBundle
    /\ hup' = IF hup = 0 /\ loader.pc = "idle" THEN 1 ELSE hup
    /\ asked' = disk
    /\ signals < MaxSignals /\ signals' = signals + 1
    /\ UNCHANGED <<disk, edits, live, loader, req>>

\* Mutant: every signal is queued.
SighupUncapped ==
    /\ live # NoBundle
    /\ hup' = hup + 1
    /\ asked' = disk
    /\ signals < MaxSignals /\ signals' = signals + 1
    /\ UNCHANGED <<disk, edits, live, loader, req>>

\* signal.Notify does not block: a signal that finds hupCh full is dropped.
Sighup ==
    /\ live # NoBundle
    /\ hup' = IF hup < HupCap THEN hup + 1 ELSE hup
    /\ asked' = disk
    /\ signals < MaxSignals /\ signals' = signals + 1
    /\ UNCHANGED <<disk, edits, live, loader, req>>

\* ReloadBundle begins: Load reads resolution.yaml first ...
LoadStart ==
    /\ loader.pc = "idle" /\ hup > 0
    /\ hup' = hup - 1
    /\ loader' = [pc |-> "loading", resolution |-> disk.resolution]
    /\ UNCHANGED <<environment, live, asked, req>>

\* Mutant: a failed reload clears the pointer.
LoadFinishClears ==
    LET b == LoadBundle(loader.resolution, disk.layers)
    IN  /\ loader.pc = "loading"
        /\ live' = IF b = LoadError THEN NoBundle ELSE b
        /\ loader' = [loader EXCEPT !.pc = "idle"]
        /\ UNCHANGED <<environment, hup, asked, req>>

\* Mutant: only the descriptors are swapped, under the contracts of before.
LoadFinishDescriptorsOnly ==
    LET b == LoadBundle(loader.resolution, disk.layers)
    IN  /\ loader.pc = "loading"
        /\ live' = IF b = LoadError THEN live ELSE [live EXCEPT !.messages = b.messages]
        /\ loader' = [loader EXCEPT !.pc = "idle"]
        /\ UNCHANGED <<environment, hup, asked, req>>

\* ... and the layers after it.  An error keeps the previous bundle.
LoadFinish ==
    LET b == LoadBundle(loader.resolution, disk.layers)
    IN  /\ loader.pc = "loading"
        /\ live' = IF b = LoadError THEN live ELSE b
        /\ loader' = [loader EXCEPT !.pc = "idle"]
        /\ UNCHANGED <<environment, hup, asked, req>>

-----------------------------------------------------------------------------
Init ==
    /\ disk \in [resolution : Resolutions, layers : LayerSets]
    /\ edits = 0 /\ signals = 0
    /\ live = NoBundle
    /\ hup = 0
    /\ loader = [pc |-> "idle", resolution |-> disk.resolution]
    /\ asked = NotAsked
    /\ req = [r \in Requests |-> Fresh]

\* What the handler does by itself once it can.
Handler(r) ==
    \/ Gate(r) \/ ReadBody(r) \/ Negotiate(r) \/ Decode(r)
    \/ TransformRequest(r) \/ Dial(r) \/ Dispatch(r) \/ TransformResponse(r)
    \/ Encode(r) \/ Deferred(r) \/ Recover(r)

Request(r) ==
    \/ \E input \in Inputs : Arrive(r, input)
    \/ Preflight(r)
    \/ Handler(r)
    \/ UpstreamAnswers(r) \/ UpstreamFails(r) \/ ReadUpstreamBody(r)
    \/ DeadlineExpires(r) \/ Panics(r)

Reloader == LoadStart \/ LoadFinish

Next ==
    \/ \E r \in Requests : Request(r)
    \/ OperatorWrites \/ Boot \/ Sighup \/ Reloader

\* A handler runs as long as nothing has gone out to its client (the body's read
\* is bounded by ReadTimeout, client.Do and the upstream's body by the request
\* context, whose deadline fires), and the SIGHUP goroutine runs.  Once the
\* status line is out nothing is assumed: the handler writes to a client that
\* need not read, and server.go leaves WriteTimeout unset.  Nothing is assumed
\* of the upstream and the operator either.
Fairness ==
    /\ \A r \in Requests :
          /\ WF_vars(req[r].wire = <<>> /\ Handler(r))
          /\ WF_vars(Preflight(r))
          /\ WF_vars(DeadlineExpires(r))
          /\ WF_vars(req[r].expired /\ (UpstreamFails(r) \/ ReadUpstreamBody(r)))
    /\ WF_vars(LoadStart) /\ WF_vars(LoadFinish)

Spec == Init /\ [][Next]_vars

FairSpec == Spec /\ Fairness

-----------------------------------------------------------------------------
(* Properties *)

Codes == {"unsupported_contract_version", "decode_failed", "request_body_too_large",
          "upstream_timeout", "upstream_error", "upstream_status", "transform_failed",
          "internal_error", "unknown_route", "unsupported_media_type", "unavailable"}

PCs == InProxy \cup {"idle", "preflight", "return", "recover", "done", "aborted"}

TransformOutcomes == {"", "request", "response"}

Raisable == {"none", "panic", "abort"}

SpanStates == {"none", "open", "ok", "error"}

\* X-Wavefront-Error and X-Wavefront-Contract-Version, "" when not set.
WireCodes == Codes \cup {""}

WireVersions == Versions \cup {Unknown, ""}

Labels == [code : Codes, version : Versions \cup {Unknown}, tout : TransformOutcomes]

Responses == [status : Nat, code : WireCodes, version : WireVersions]

BoundContracts == UNION {{b.contract[id] : id \in b.ids} : b \in Bundles}

RequestStates ==
    [pc : PCs, in : Inputs \cup {NoInput}, ready : BOOLEAN,
     bundle : Bundles \cup {NoBundle}, id : ContractIds \cup {NoContract},
     version : Versions \cup {Unknown}, bodyless : BOOLEAN, status : Statuses \cup {0},
     expired : BOOLEAN, late : BOOLEAN, reads : SUBSET Bundles, unresolved : BOOLEAN,
     up : Seq(BoundContracts), down : Seq(BoundContracts),
     outcome : Codes \cup {"ok"}, counted : Seq(Labels), requests : Nat,
     span : SpanStates, panic : Raisable,
     wrote : BOOLEAN, header : Responses, wire : Seq(Responses)]

\* The types of the server's state and of a request's local variables: the
\* pointer is nil or a bundle Load returned, hupCh holds at most its capacity.
TypeOK ==
    /\ disk \in [resolution : Resolutions, layers : LayerSets]
    /\ edits \in 0..MaxEdits /\ signals \in 0..MaxSignals
    /\ live \in Bundles \cup {NoBundle}
    /\ hup \in 0..HupCap
    /\ loader \in [pc : {"idle", "loading"}, resolution : Resolutions]
    /\ asked \in [resolution : Resolutions, layers : LayerSets] \cup {NotAsked}
    /\ req \in [Requests -> RequestStates]

Ended(q) == q.pc \in {"done", "aborted"}

\* recover.go:104-115: whatever panics and whenever, a request never gets a
\* second status line, and one that was not aborted gets its one.
OneResponse ==
    \A r \in Requests :
        LET q == req[r]
        IN  Len(q.wire) <= 1 /\ (q.pc = "done" => Len(q.wire) = 1)

\* http.go:183-190, 579-582 and recover.go:103: one increment of the requests
\* counter per contract request, and the errors counter moves exactly once per
\* wavefront failure plus once per recovered panic; an X-Wavefront-Error the
\* client sees has been counted under its code.
CountersMatchWire ==
    \A r \in Requests :
        LET q == req[r]
        IN  Ended(q) =>
              /\ q.requests = IF q.in.preflight THEN 0 ELSE 1
              /\ Len(q.counted) = (IF q.outcome = "ok" THEN 0 ELSE 1)
                                  + (IF q.panic = "panic" THEN 1 ELSE 0)
              /\ \A i \in DOMAIN q.wire : q.wire[i].code # "" =>
                    \E k \in DOMAIN q.counted : q.counted[k].code = q.wire[i].code

\* http.go:162-171: a metric label is the version of a contract the request's
\* bundle binds or "unknown", whatever version the client named.
LabelsBounded ==
    \A r \in Requests :
        LET q == req[r]
        IN  \A label \in {q.version} \cup {q.counted[i].version : i \in DOMAIN q.counted} :
              \/ label = Unknown
              \/ q.bundle # NoBundle /\ \E id \in q.bundle.ids : id.version = label

\* A response without X-Wavefront-Error may have status s: the upstream's own,
\* a success or one the negotiated contract declares; or the 200 net/http makes
\* of a declared status it refuses to write (see NoFabricatedSuccess).
MayAnswer(q, s) ==
    LET declared == q.status \in DOMAIN Contract(q).errorMessages
    IN  \/ s = q.status /\ (IsSuccess(s) \/ s \in {204, 205} \/ declared)
        \/ s = 200 /\ declared /\ q.status \notin 100..999

\* http.go:442-502: a response without X-Wavefront-Error relays a status the
\* negotiated contract has an answer for; a capability ceiling is never passed
\* on, with or without an error code.
TypedResponsesDeclared ==
    \A r \in Requests :
        LET q == req[r]
        IN  ~ q.in.preflight => \A i \in DOMAIN q.wire :
              /\ ~ IsCapabilityCeiling(q.wire[i].status)
              /\ q.wire[i].code = "" => MayAnswer(q, q.wire[i].status)

\* http.go:349-361, 465-471, 504-510: an encoded answer went back through the
\* contracts the request went out through, last first, whatever was swapped
\* in meanwhile.
MirroredChain ==
    \A r \in Requests :
        LET q == req[r]
        IN  q.pc = "encode" =>
              /\ Len(q.up) > 0 /\ q.up[1] = Contract(q)
              /\ Len(q.down) = Len(q.up)
              /\ \A i \in DOMAIN q.up : q.down[i] = q.up[Len(q.up) + 1 - i]

\* server.go:160-168, 104-110, http.go:221-240: once /ready has said so, no
\* request is turned away for want of a bundle, however reloads go.
ReadyMeansServed ==
    \A r \in Requests :
        req[r].ready => \A i \in DOMAIN req[r].counted : req[r].counted[i].code # "unavailable"

\* bundle.go:553-576 with server.go:117-123: a message can only be unresolvable
\* at run time when the bundle was swapped under the request.
ResolvableUnlessSwapped ==
    \A r \in Requests :
        req[r].unresolved => \E b \in req[r].reads : b # req[r].bundle

\* main.go:48-60: a SIGHUP sent after the last edit of the directory leads to
\* that directory's bundle going live, if it loads, even when the signal
\* arrives during another reload.
SighupHonoured ==
    \A d \in [resolution : Resolutions, layers : LayerSets] :
        LET b == LoadBundle(d.resolution, d.layers)
        IN  b # LoadError => (asked = d ~> (asked # d \/ live = b))

\* http.go:358, recover.go:94-118: whatever the upstream does or fails to do, and
\* whatever panics, a request that entered the handler is answered or aborted;
\* how long the client then takes to read the answer is bounded by nothing.
EveryRequestAnswered ==
    \A r \in Requests :
        req[r].pc # "idle" ~> (req[r].wire # <<>> \/ req[r].pc = "aborted")

-----------------------------------------------------------------------------
\* A request as its client sees it.  One that ends without a response and was
\* not aborted would have no counterpart in module Gateway.
Exchange(q) ==
    [phase  |-> IF q.pc = "idle" THEN "idle"
                ELSE IF q.wire # <<>> THEN "answered"
                ELSE IF q.pc = "aborted" THEN "dropped"
                ELSE IF q.pc = "done" THEN "lost"
                ELSE "open",
     in     |-> q.in,
     view   |-> q.bundle,
     answer |-> q.wire]

Promise == INSTANCE Gateway WITH
    bundle   <- live,
    exchange <- [r \in Requests |-> Exchange(req[r])]

\* docs/protocol.md:199-214, http.go:221-400, recover.go:94-118: whatever is
\* reloaded, panics or runs late, a request gets one answer, once, and the bundle
\* in force at one moment of it decides which answers those can be: which refusal
\* comes first, the status of each code, what the contract chosen allows.  Of a
\* preflight it promises one answer and nothing of its headers or envelope.
KeepsPromise == Promise!Spec

-----------------------------------------------------------------------------
(* What the repository says of the code and the code does not do *)

\* server.go:102-103: "In-flight requests continue against the bundle they
\* observed at the start of the request".
OneBundlePerRequest ==
    \A r \in Requests : req[r].reads \subseteq {req[r].bundle}

\* wireerror.go:171: "the upstream exceeded WAVEFRONT_REQUEST_TIMEOUT_MS. 504."
LateUpstreamIsTimeout ==
    \A r \in Requests : req[r].late => req[r].outcome = "upstream_timeout"

\* recover.go:34-36: "any panic inside it is converted to a typed wavefront
\* wire-error response", so a 200 is always the upstream's own.
NoFabricatedSuccess ==
    \A r \in Requests :
        ~ req[r].in.preflight =>
            \A i \in DOMAIN req[r].wire : req[r].wire[i].status = 200 => req[r].status = 200
=============================================================================
