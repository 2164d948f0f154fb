---------------------------- MODULE Proxy_proofs ----------------------------
(***************************************************************************)
(* Proofs about the data plane, for every set of requests, bundles,        *)
(* inputs and upstream statuses and any number of edits and signals.       *)
(*                                                                         *)
(* The properties of a request are not inductive: what its deferred        *)
(* functions do depends on what the handler left behind.  Local(q) says    *)
(* what holds of one request at every point of its path; the only fact     *)
(* that ties a request to the rest of the server is Anchored, that the     *)
(* pointer is not nil once a request has passed the gate or was told the   *)
(* server is ready.                                                        *)
(***************************************************************************)
EXTENDS Proxy, BundleTheorems, SequenceTheorems

Negotiated == {"decode", "reqops", "dial", "upstream", "upbody", "dispatch",
               "respops", "encode"}

Serving == Negotiated \cup {"body", "negotiate"}

\* Before the handler returns, nothing has been written, counted or raised.
Quiet(q) ==
    q.pc \in InProxy \cup {"idle", "preflight"} =>
        /\ q.wire = <<>> /\ q.counted = <<>> /\ q.outcome = "ok"
        /\ q.panic = "none" /\ q.requests = 0 /\ ~ q.wrote /\ q.header = NoHeader

\* A request is of the kind its path is for.
Sorted(q) ==
    /\ q.pc # "idle" => q.in \in Inputs
    /\ q.pc = "preflight" => q.in.preflight
    /\ q.pc \in InProxy => ~ q.in.preflight

\* The upstream's status is one the contract has a message for.
Answerable(q) ==
    IsSuccess(q.status) \/ q.status \in DOMAIN Contract(q).errorMessages

\* The bundle is the one negotiated from, and names the contract.
Bound(q) ==
    /\ q.pc \in Serving => q.bundle \in Bundles
    /\ q.pc \in Negotiated => q.id \in q.bundle.ids /\ q.version = q.in.version
    /\ q.version # Unknown => q.version = q.in.version
    /\ q.pc \in {"respops", "encode"} => Answerable(q)

\* One response at most, and the tracker knows of it.
Tracked(q) ==
    /\ Len(q.wire) = 0 \/ Len(q.wire) = 1
    /\ Len(q.wire) = 1 => q.wrote
    /\ (q.pc = "return" /\ q.panic = "none") \/ q.pc = "done" => Len(q.wire) = 1

\* A panic is under way exactly where Recover expects one.
Raised(q) ==
    /\ q.pc = "recover" => q.panic # "none"
    /\ q.pc = "aborted" => q.panic = "abort"
    /\ q.pc = "done" => q.panic # "abort"

Failures(q) == IF q.outcome = "ok" THEN 0 ELSE 1

\* The two counters, between the handler's return and the end.
Counted(q) ==
    /\ q.pc = "return" => q.requests = 0
    /\ q.pc \in {"recover", "done", "aborted"} =>
          q.requests = IF q.in.preflight THEN 0 ELSE 1
    /\ q.pc \in {"return", "recover", "aborted"} => Len(q.counted) = Failures(q)
    /\ q.pc = "done" =>
          Len(q.counted) = Failures(q) + (IF q.panic = "panic" THEN 1 ELSE 0)

CodeCounted(q, code) ==
    code # "" => \E k \in DOMAIN q.counted : q.counted[k].code = code

\* A code on the wire, or in the headers net/http may still send, was counted.
CodesCounted(q) ==
    /\ CodeCounted(q, q.header.code)
    /\ \A i \in DOMAIN q.wire : CodeCounted(q, q.wire[i].code)

\* The same for the version echoed.
Echoed(q) ==
    ~ q.in.preflight =>
        /\ q.wrote => q.header.version = q.in.version
        /\ \A i \in DOMAIN q.wire : q.wire[i].version = q.in.version

IsLabel(q, label) ==
    \/ label = Unknown
    \/ q.bundle # NoBundle /\ \E id \in q.bundle.ids : id.version = label

Labelled(q) ==
    /\ IsLabel(q, q.version)
    /\ \A i \in DOMAIN q.counted : IsLabel(q, q.counted[i].version)

Served(q) == q.ready => \A i \in DOMAIN q.counted : q.counted[i].code # "unavailable"

SwapSeen(q) ==
    /\ q.unresolved => \E b \in q.reads : b # q.bundle
    /\ q.pc \in {"idle", "gate"} => ~ q.unresolved /\ q.version = Unknown

Local(q) ==
    /\ Quiet(q) /\ Sorted(q) /\ Bound(q) /\ Tracked(q) /\ Raised(q) /\ Counted(q)
    /\ CodesCounted(q) /\ Echoed(q) /\ Labelled(q) /\ Served(q) /\ SwapSeen(q)

Anchored(q) == q.pc \in Serving \/ q.ready => live # NoBundle

\* The inductive invariant.
IInv == TypeOK /\ \A r \in Requests : Local(req[r]) /\ Anchored(req[r])

-----------------------------------------------------------------------------
(* Facts about the constants *)

\* A bundle Load returns is well-formed and is not the nil pointer.
LEMMA BundleFacts ==
    ASSUME NEW b \in Bundles
    PROVE  WellFormed(b) /\ b # NoBundle
BY LoadAssumption DEF Bundles

\* The fields of what a client sends.
LEMMA InputFacts ==
    ASSUME NEW i \in Inputs \cup {NoInput}
    PROVE  /\ i.preflight \in BOOLEAN
           /\ i.version \in Versions \cup {Unknown}
           /\ i.sel \in Selectors
           /\ i \in Inputs => i.route \in Routes
<1>1. CASE i \in Inputs
  BY <1>1, InputAssumption
<1>2. CASE i = NoInput
  <2>1. NoSelectors \in Selectors
    BY BundleAssumption DEF NoSelectors, Selectors
  <2>2. i \in Inputs => i.route \in Routes
    BY InputAssumption
  <2> QED BY <1>2, <2>1, <2>2 DEF NoInput
<1> QED BY <1>1, <1>2

\* Upstream statuses are natural numbers.
LEMMA StatusFacts == Statuses \cup {0} \subseteq Nat
BY StatusAssumption

\* A sequence after one Append.
LEMMA AppendFacts ==
    ASSUME NEW S, NEW s \in Seq(S), NEW x \in S
    PROVE  /\ Append(s, x) \in Seq(S)
           /\ Len(Append(s, x)) = Len(s) + 1
           /\ DOMAIN s = 1..Len(s)
           /\ DOMAIN Append(s, x) = 1..(Len(s) + 1)
           /\ \A i \in DOMAIN s : Append(s, x)[i] = s[i]
           /\ Append(s, x)[Len(s) + 1] = x
           /\ Len(s) \in Nat
BY AppendProperties, LenProperties

\* The first Append.
LEMMA AppendToEmpty ==
    ASSUME NEW S, NEW s \in Seq(S), s = <<>>, NEW x \in S
    PROVE  /\ Append(s, x) \in Seq(S) /\ Len(Append(s, x)) = 1
           /\ DOMAIN Append(s, x) = {1} /\ Append(s, x)[1] = x
<1>1. Len(s) = 0
  OBVIOUS
<1>2. 1..1 = {1}
  OBVIOUS
<1> QED BY <1>1, <1>2, AppendFacts

\* The empty sequence.
LEMMA EmptyFacts ==
    ASSUME NEW s, s = <<>>
    PROVE  Len(s) = 0 /\ DOMAIN s = {}
OBVIOUS

\* A sequence of one element is not empty.
LEMMA NonEmptyFacts ==
    ASSUME NEW s, Len(s) = 1
    PROVE  s # <<>>
OBVIOUS

\* No X-Wavefront-Error is set before the first WriteHeader.
LEMMA NoHeaderCode == NoHeader.code = ""
BY DEF NoHeader

-----------------------------------------------------------------------------
(* Answers *)

\* p is q after its first call of WriteHeader, with header h.
HeaderSent(q, p, h) ==
    /\ p \in RequestStates
    /\ p.pc = "return" /\ p.wrote = TRUE /\ p.header = h
    /\ \/ /\ Len(p.wire) = 1 /\ DOMAIN p.wire = {1} /\ p.wire[1] = h
          /\ p.panic = q.panic
       \/ /\ Len(p.wire) = 0 /\ DOMAIN p.wire = {}
          /\ p.panic = "panic" /\ h.status \notin 100..999
    /\ p.in = q.in /\ p.ready = q.ready /\ p.bundle = q.bundle
    /\ p.id = q.id /\ p.version = q.version /\ p.status = q.status
    /\ p.reads = q.reads /\ p.unresolved = q.unresolved
    /\ p.outcome = q.outcome /\ p.counted = q.counted
    /\ p.requests = q.requests

\* responseTracker.WriteHeader on a response that has not started.
LEMMA WriteHeaderFields ==
    ASSUME NEW q \in RequestStates, q.wire = <<>>,
           NEW status \in Nat, NEW code \in WireCodes, NEW version \in WireVersions
    PROVE  HeaderSent(q, WriteHeader(q, status, code, version),
                      [status |-> status, code |-> code, version |-> version])
<1> DEFINE h == [status |-> status, code |-> code, version |-> version]
           ok == status \in 100..999
           w == IF ok THEN Append(q.wire, h) ELSE q.wire
           e == IF ok THEN q.panic ELSE "panic"
           p == [q EXCEPT !.wrote = TRUE, !.header = h, !.pc = "return",
                          !.wire = w, !.panic = e]
<1>1. h \in Responses
  BY DEF Responses
<1>2. q.wire \in Seq(Responses) /\ q.panic \in Raisable
  BY DEF RequestStates
<1>3. WriteHeader(q, status, code, version) = p
  BY DEF WriteHeader, RequestStates
<1> HIDE DEF h
<1>4. /\ w \in Seq(Responses) /\ e \in Raisable
      /\ \/ /\ Len(w) = 1 /\ DOMAIN w = {1} /\ w[1] = h /\ e = q.panic
         \/ /\ Len(w) = 0 /\ DOMAIN w = {} /\ e = "panic" /\ ~ ok
  <2>1. CASE ok
    <3>1. w = Append(q.wire, h) /\ e = q.panic
      BY <2>1, ZenonT(90)
    <3> HIDE DEF w, e
    <3>2. w \in Seq(Responses) /\ Len(w) = 1 /\ DOMAIN w = {1} /\ w[1] = h
      BY <1>1, <1>2, <3>1, AppendToEmpty
    <3> QED BY <1>2, <3>1, <3>2
  <2>2. CASE ~ ok
    <3>1. w = q.wire /\ e = "panic" /\ e \in Raisable
      BY <2>2 DEF Raisable
    <3> QED BY <1>2, <2>2, <3>1, EmptyFacts
  <2> QED BY <2>1, <2>2, ZenonT(90)
<1> HIDE DEF w, e
<1>5. "return" \in PCs
  BY DEF PCs
<1>6. p \in RequestStates
  BY <1>1, <1>4, <1>5, ZenonT(90) DEF RequestStates
<1>7. /\ p.pc = "return" /\ p.wrote = TRUE /\ p.header = h /\ p.wire = w /\ p.panic = e
      /\ p.in = q.in /\ p.ready = q.ready /\ p.bundle = q.bundle
      /\ p.id = q.id /\ p.version = q.version /\ p.status = q.status
      /\ p.reads = q.reads /\ p.unresolved = q.unresolved
      /\ p.outcome = q.outcome /\ p.counted = q.counted
      /\ p.requests = q.requests
  BY DEF RequestStates
<1> HIDE DEF p
<1> QED BY <1>3, <1>4, <1>6, <1>7 DEF h, HeaderSent

\* writeError and fail take a request on its way to its end.
LEMMA FailLocal ==
    ASSUME NEW q \in RequestStates, Local(q), q.pc \in InProxy,
           NEW code \in Codes, NEW status \in Nat,
           NEW tout \in TransformOutcomes,
           q.ready => code # "unavailable"
    PROVE  LET p == Fail(q, code, status, tout)
           IN  /\ p \in RequestStates /\ Local(p)
               /\ p.pc = "return" /\ p.ready = q.ready
<1> DEFINE label == [code |-> code, version |-> q.version, tout |-> tout]
           n == Append(q.counted, label)
           f == [q EXCEPT !.outcome = code, !.counted = n]
           h == [status |-> status, code |-> code, version |-> q.in.version]
           p == Fail(q, code, status, tout)
<1>1. /\ q.wire = <<>> /\ q.counted = <<>> /\ q.outcome = "ok" /\ q.panic = "none"
      /\ q.requests = 0 /\ ~ q.wrote /\ ~ q.in.preflight /\ q.in \in Inputs
  BY DEF Local, Quiet, Sorted, InProxy
<1>2. /\ q.in.version \in Versions \cup {Unknown} /\ q.version \in Versions \cup {Unknown}
      /\ q.version # Unknown => q.version = q.in.version
      /\ q.counted \in Seq(Labels)
  BY <1>1, InputFacts DEF Local, Bound, RequestStates
<1>3. label \in Labels /\ ResponseVersion(q) = q.in.version
  BY <1>2 DEF Labels, ResponseVersion
<1>4. label.code = code /\ label.version = q.version /\ h.code = code
      /\ h.version = q.in.version
  OBVIOUS
<1>5. p = WriteHeader(f, status, code, q.in.version)
  BY <1>3 DEF Fail
<1> HIDE DEF label
<1>6. n \in Seq(Labels) /\ Len(n) = 1 /\ DOMAIN n = {1} /\ n[1] = label
  BY <1>1, <1>2, <1>3, AppendToEmpty
<1> HIDE DEF n
<1>7. /\ f \in RequestStates
      /\ f.outcome = code /\ f.counted = n
      /\ f.wire = <<>> /\ f.panic = "none" /\ f.in = q.in /\ f.ready = q.ready
      /\ f.bundle = q.bundle /\ f.version = q.version /\ f.reads = q.reads
      /\ f.unresolved = q.unresolved /\ f.requests = 0
  BY <1>1, <1>6, ZenonT(90) DEF RequestStates
<1> HIDE DEF f, p
<1>8. /\ p \in RequestStates
      /\ p.outcome = code /\ p.counted = n /\ p.pc = "return" /\ p.wrote = TRUE
      /\ p.header = h
      /\ \/ Len(p.wire) = 1 /\ DOMAIN p.wire = {1} /\ p.wire[1] = h /\ p.panic = "none"
         \/ Len(p.wire) = 0 /\ DOMAIN p.wire = {} /\ p.panic = "panic"
      /\ p.in = q.in /\ p.ready = q.ready
      /\ p.bundle = q.bundle /\ p.version = q.version /\ p.reads = q.reads
      /\ p.unresolved = q.unresolved /\ p.requests = 0
  <2>1. code \in WireCodes /\ q.in.version \in WireVersions
    BY <1>2 DEF WireCodes, WireVersions
  <2>2. HeaderSent(f, p, h)
    BY <1>5, <1>7, <2>1, WriteHeaderFields
  <2> HIDE DEF h
  <2> QED BY <1>7, <2>2 DEF HeaderSent
<1> HIDE DEF h
<1>9. Quiet(p) /\ Sorted(p) /\ Bound(p) /\ Raised(p)
  BY <1>1, <1>2, <1>8 DEF Quiet, Sorted, Bound, Raised, InProxy, Serving, Negotiated
<1>10. Tracked(p) /\ Counted(p)
  <2>1. code # "ok"
    BY DEF Codes
  <2>2. Failures(p) = 1 /\ Len(p.counted) = 1
    BY <1>6, <1>8, <2>1 DEF Failures
  <2>3. Counted(p)
    BY <1>8, <2>2 DEF Counted
  <2>4. Tracked(p)
    BY <1>8 DEF Tracked
  <2> QED BY <2>3, <2>4
<1>11. CodesCounted(p) /\ Echoed(p)
  <2>1. CodeCounted(p, code)
    BY <1>4, <1>6, <1>8 DEF CodeCounted
  <2>2. CodesCounted(p)
    BY <1>4, <1>8, <2>1 DEF CodesCounted
  <2>3. Echoed(p)
    BY <1>4, <1>8 DEF Echoed
  <2> QED BY <2>2, <2>3
<1>12. Labelled(p)
  BY <1>4, <1>6, <1>8 DEF Labelled, IsLabel, Local
<1>13. Served(p) /\ SwapSeen(p)
  BY <1>4, <1>6, <1>8 DEF Served, SwapSeen, Local
<1> QED BY <1>8, <1>9, <1>10, <1>11, <1>12, <1>13 DEF Local, p

\* A typed response, from past the negotiation.
LEMMA AnswerLocal ==
    ASSUME NEW q \in RequestStates, Local(q), q.pc \in Negotiated, NEW status \in Nat
    PROVE  LET p == Answer(q, status)
           IN  /\ p \in RequestStates /\ Local(p)
               /\ p.pc = "return" /\ p.ready = q.ready
<1> DEFINE h == [status |-> status, code |-> "", version |-> q.version]
           p == Answer(q, status)
<1>1. q.pc \in InProxy
  BY DEF Negotiated, InProxy
<1>2. /\ q.wire = <<>> /\ q.counted = <<>> /\ q.outcome = "ok" /\ q.panic = "none"
      /\ q.requests = 0 /\ ~ q.in.preflight /\ q.in \in Inputs
  BY <1>1 DEF Local, Quiet, Sorted, InProxy
<1>3. q.version \in Versions \cup {Unknown} /\ q.version = q.in.version
  BY DEF Local, Bound, RequestStates
<1>4. "" \in WireCodes /\ q.version \in WireVersions
  BY <1>3 DEF WireCodes, WireVersions
<1>5. h.code = "" /\ h.version = q.in.version
  BY <1>3
<1>6. HeaderSent(q, p, h)
  BY <1>2, <1>4, WriteHeaderFields DEF Answer
<1>7. Len(q.counted) = 0 /\ DOMAIN q.counted = {}
  BY <1>2, EmptyFacts
<1> HIDE DEF p, h
<1>8. /\ p \in RequestStates
      /\ p.outcome = "ok" /\ p.counted = q.counted /\ p.pc = "return" /\ p.wrote = TRUE
      /\ p.header = h
      /\ \/ Len(p.wire) = 1 /\ DOMAIN p.wire = {1} /\ p.wire[1] = h /\ p.panic = "none"
         \/ Len(p.wire) = 0 /\ DOMAIN p.wire = {} /\ p.panic = "panic"
      /\ p.in = q.in /\ p.ready = q.ready
      /\ p.bundle = q.bundle /\ p.version = q.version /\ p.reads = q.reads
      /\ p.unresolved = q.unresolved /\ p.requests = 0
  BY <1>2, <1>6 DEF HeaderSent
<1>9. Quiet(p) /\ Sorted(p) /\ Bound(p) /\ Raised(p)
  BY <1>2, <1>3, <1>8 DEF Quiet, Sorted, Bound, Raised, InProxy, Serving, Negotiated
<1>10. Tracked(p)
  BY <1>8 DEF Tracked
<1>11. Counted(p)
  <2>1. Failures(p) = 0 /\ Len(p.counted) = 0
    BY <1>7, <1>8 DEF Failures
  <2> QED BY <1>8, <2>1 DEF Counted
<1>12. CodesCounted(p)
  BY <1>5, <1>8, ZenonT(90) DEF CodesCounted, CodeCounted
<1>13. Echoed(p)
  BY <1>5, <1>8, ZenonT(90) DEF Echoed
<1>14. Labelled(p)
  BY <1>8 DEF Labelled, IsLabel, Local
<1>15. Served(p) /\ SwapSeen(p)
  BY <1>8 DEF Served, SwapSeen, Local
<1> QED BY <1>8, <1>9, <1>10, <1>11, <1>12, <1>13, <1>14, <1>15 DEF Local, p

\* A step inside the handler that writes nothing.
LEMMA AdvanceLocal ==
    ASSUME NEW q \in RequestStates, Local(q), q.pc \in InProxy,
           NEW p \in RequestStates, p.pc \in InProxy,
           p.wire = q.wire, p.counted = q.counted, p.outcome = q.outcome,
           p.panic = q.panic, p.requests = q.requests, p.wrote = q.wrote,
           p.header = q.header, p.in = q.in, p.ready = q.ready,
           Bound(p), IsLabel(p, p.version), SwapSeen(p)
    PROVE  Local(p)
<1>1. Quiet(p) /\ Sorted(p)
  BY DEF Local, Quiet, Sorted, InProxy
<1>2. p.wire = <<>> /\ p.counted = <<>> /\ p.wrote = FALSE /\ p.header = NoHeader
  BY DEF Local, Quiet, RequestStates
<1>3. DOMAIN p.wire = {} /\ Len(p.wire) = 0 /\ DOMAIN p.counted = {}
  BY <1>2, EmptyFacts
<1>4. p.pc \notin {"return", "recover", "done", "aborted"}
  BY DEF InProxy
<1>5. Tracked(p)
  BY <1>3, <1>4 DEF Tracked
<1>6. Raised(p) /\ Counted(p)
  BY <1>4 DEF Raised, Counted
<1>7. CodesCounted(p)
  <2>1. p.header.code = ""
    BY <1>2, NoHeaderCode
  <2> QED BY <1>3, <2>1 DEF CodesCounted, CodeCounted
<1>8. Echoed(p)
  BY <1>2, <1>3 DEF Echoed
<1>9. Labelled(p) /\ Served(p)
  BY <1>3 DEF Labelled, Served
<1> QED BY <1>1, <1>5, <1>6, <1>7, <1>8, <1>9 DEF Local

-----------------------------------------------------------------------------
(* The way out *)

\* p is q handed back to net/http.
Finished(q, p) ==
    /\ p \in RequestStates /\ p.pc = "done"
    /\ \/ p.wire = q.wire /\ Len(q.wire) = 1
       \/ /\ Len(p.wire) = 1 /\ DOMAIN p.wire = {1}
          /\ p.wire[1].code = q.header.code /\ p.wire[1].version = q.header.version
    /\ p.in = q.in /\ p.ready = q.ready /\ p.bundle = q.bundle
    /\ p.version = q.version /\ p.reads = q.reads /\ p.unresolved = q.unresolved
    /\ p.outcome = q.outcome /\ p.counted = q.counted /\ p.requests = q.requests
    /\ p.wrote = q.wrote /\ p.header = q.header /\ p.panic = q.panic

\* What net/http does with a handler that returned, field by field.
LEMMA ReturnedFields ==
    ASSUME NEW q \in RequestStates, Len(q.wire) = 0 \/ Len(q.wire) = 1
    PROVE  Finished(q, Returned(q))
<1> DEFINE h == [q.header EXCEPT !.status = 200]
           w == Append(q.wire, h)
           p1 == [q EXCEPT !.pc = "done"]
           p0 == [q EXCEPT !.pc = "done", !.wire = w]
<1>1. q.wire \in Seq(Responses) /\ q.header \in Responses
  BY DEF RequestStates
<1>2. "done" \in PCs
  BY DEF PCs
<1>3. CASE Len(q.wire) = 1
  <2>1. q.wire # <<>>
    BY <1>3, NonEmptyFacts
  <2>2. Returned(q) = p1
    BY <2>1 DEF Returned
  <2>3. p1 \in RequestStates
    BY <1>2 DEF RequestStates
  <2>4. Finished(q, p1)
    BY <1>3, <2>3 DEF Finished, RequestStates
  <2> QED BY <2>2, <2>4
<1>4. CASE Len(q.wire) = 0
  <2>1. q.wire = <<>>
    BY <1>1, <1>4, EmptySeq
  <2>2. h \in Responses /\ h.code = q.header.code /\ h.version = q.header.version
    BY <1>1 DEF Responses
  <2>3. Returned(q) = p0
    BY <2>1 DEF Returned
  <2> HIDE DEF h
  <2>4. w \in Seq(Responses) /\ Len(w) = 1 /\ DOMAIN w = {1} /\ w[1] = h
    BY <1>1, <2>1, <2>2, AppendToEmpty
  <2> HIDE DEF w
  <2>5. p0 \in RequestStates /\ p0.wire = w /\ p0.pc = "done"
    BY <1>2, <2>4, ZenonT(90) DEF RequestStates
  <2>6. Finished(q, p0)
    BY <2>2, <2>4, <2>5 DEF Finished, RequestStates
  <2> QED BY <2>3, <2>6
<1> QED BY <1>3, <1>4

\* What must hold of a request whose middleware is about to return.
LEMMA FinishedLocal ==
    ASSUME NEW q \in RequestStates, NEW p, Finished(q, p),
           q.in \in Inputs, q.version # Unknown => q.version = q.in.version,
           q.wrote, q.panic # "abort",
           q.requests = IF q.in.preflight THEN 0 ELSE 1,
           Len(q.counted) = Failures(q) + (IF q.panic = "panic" THEN 1 ELSE 0),
           CodesCounted(q), Echoed(q), Labelled(q), Served(q),
           q.unresolved => \E b \in q.reads : b # q.bundle
    PROVE  p \in RequestStates /\ Local(p) /\ p.pc = "done" /\ p.ready = q.ready
<1>1. p \in RequestStates /\ p.pc = "done" /\ p.ready = q.ready
  BY DEF Finished
<1>2. Quiet(p) /\ Sorted(p) /\ Bound(p)
  BY DEF Finished, Quiet, Sorted, Bound, InProxy, Serving, Negotiated
<1>3. Tracked(p)
  BY DEF Finished, Tracked
<1>4. Raised(p) /\ SwapSeen(p)
  BY DEF Finished, Raised, SwapSeen
<1>5. Counted(p)
  <2>1. Failures(p) = Failures(q)
    BY DEF Finished, Failures
  <2> QED BY <2>1 DEF Finished, Counted
<1>6. CodesCounted(p)
  <2>1. \A code : CodeCounted(q, code) => CodeCounted(p, code)
    BY DEF Finished, CodeCounted
  <2>2. CodeCounted(p, p.header.code)
    BY <2>1 DEF Finished, CodesCounted
  <2>3. \A i \in DOMAIN p.wire : CodeCounted(p, p.wire[i].code)
    BY <2>1, <2>2 DEF Finished, CodesCounted
  <2> QED BY <2>2, <2>3 DEF CodesCounted
<1>7. Echoed(p)
  BY DEF Finished, Echoed
<1>8. Labelled(p) /\ Served(p)
  BY DEF Finished, Labelled, IsLabel, Served
<1> QED BY <1>1, <1>2, <1>3, <1>4, <1>5, <1>6, <1>7, <1>8 DEF Local

-----------------------------------------------------------------------------
(* The steps of a request *)

\* A step of one request keeps the invariant when the request's new state does.
LEMMA StepInv ==
    ASSUME IInv, NEW r \in Requests, NEW p \in RequestStates, Local(p),
           Anchored(p), Step(r, p)
    PROVE  IInv'
<1>1. /\ req' = [req EXCEPT ![r] = p] /\ req \in [Requests -> RequestStates]
      /\ live' = live
  BY DEF Step, IInv, TypeOK
<1>2. req' \in [Requests -> RequestStates]
  BY <1>1
<1>3. TypeOK'
  BY <1>2 DEF IInv, TypeOK, Step, environment
<1>4. ASSUME NEW x \in Requests
      PROVE  Local(req'[x]) /\ Anchored(req'[x])
  BY <1>1 DEF IInv
<1>5. \A x \in Requests : Local(req[x])' /\ Anchored(req[x])'
  BY <1>1, <1>4 DEF Anchored
<1> QED BY <1>3, <1>5 DEF IInv

\* What the invariant says of one request.
LEMMA OneRequest ==
    ASSUME IInv, NEW r \in Requests
    PROVE  req[r] \in RequestStates /\ Local(req[r]) /\ Anchored(req[r])
BY DEF IInv, TypeOK

\* A request inside the handler, possibly with this step's reads recorded.
CanFail(q) ==
    /\ q \in RequestStates /\ Local(q) /\ q.pc \in InProxy
    /\ q.ready => live # NoBundle

\* The arguments of fail; "unavailable" is for a server that never was ready.
MayFail(q, code, tout) ==
    code \in Codes /\ tout \in TransformOutcomes /\ (q.ready => code # "unavailable")

\* A failure answered from inside the handler.
LEMMA FailStep ==
    ASSUME IInv, NEW r \in Requests, NEW q, CanFail(q),
           NEW code, NEW status \in Nat, NEW tout, MayFail(q, code, tout),
           Step(r, Fail(q, code, status, tout))
    PROVE  IInv'
<1> DEFINE p == Fail(q, code, status, tout)
<1>1. p \in RequestStates /\ Local(p) /\ p.pc = "return" /\ p.ready = q.ready
  BY FailLocal DEF CanFail, MayFail
<1> HIDE DEF p
<1>2. Anchored(p)
  BY <1>1 DEF Anchored, Serving, Negotiated, CanFail
<1>3. Step(r, p)
  BY DEF p
<1> QED BY <1>1, <1>2, <1>3, StepInv

\* A typed answer.
LEMMA AnswerStep ==
    ASSUME IInv, NEW r \in Requests, NEW q \in RequestStates, Local(q),
           q.pc \in Negotiated, q.ready => live # NoBundle, NEW status \in Nat,
           Step(r, Answer(q, status))
    PROVE  IInv'
<1> DEFINE p == Answer(q, status)
<1>1. p \in RequestStates /\ Local(p) /\ p.pc = "return" /\ p.ready = q.ready
  BY AnswerLocal
<1> HIDE DEF p
<1>2. Anchored(p)
  BY <1>1 DEF Anchored, Serving, Negotiated
<1>3. Step(r, p)
  BY DEF p
<1> QED BY <1>1, <1>2, <1>3, StepInv

\* Each failure of the pipeline but unavailable is open to every request.
LEMMA FailureFacts ==
    ASSUME NEW q
    PROVE  /\ MayFail(q, "unknown_route", "") /\ MayFail(q, "unsupported_media_type", "")
           /\ MayFail(q, "request_body_too_large", "") /\ MayFail(q, "decode_failed", "")
           /\ MayFail(q, "unsupported_contract_version", "")
           /\ MayFail(q, "upstream_error", "") /\ MayFail(q, "upstream_timeout", "")
           /\ MayFail(q, "upstream_status", "")
           /\ MayFail(q, "transform_failed", "request")
           /\ MayFail(q, "transform_failed", "response")
BY DEF MayFail, Codes, TransformOutcomes

\* A step past the gate that leaves the negotiation's results alone.
LEMMA MoveStep ==
    ASSUME IInv, NEW r \in Requests, req[r].pc \in Serving,
           NEW p \in RequestStates, p.pc \in Serving,
           p.pc \in Negotiated => req[r].pc \in Negotiated,
           p.pc \in {"respops", "encode"} => Answerable(p),
           p.wire = req[r].wire, p.counted = req[r].counted, p.outcome = req[r].outcome,
           p.panic = req[r].panic, p.requests = req[r].requests,
           p.wrote = req[r].wrote, p.header = req[r].header, p.in = req[r].in,
           p.ready = req[r].ready, p.bundle = req[r].bundle, p.id = req[r].id,
           p.version = req[r].version, p.unresolved = req[r].unresolved,
           req[r].reads \subseteq p.reads, Step(r, p)
    PROVE  IInv'
<1> DEFINE q == req[r]
<1>1. q \in RequestStates /\ Local(q) /\ Anchored(q)
  BY OneRequest
<1>2. q.pc \in InProxy /\ p.pc \in InProxy /\ p.pc \notin {"idle", "gate"}
  BY DEF Serving, Negotiated, InProxy
<1> HIDE DEF q
<1>3. Bound(p)
  BY <1>1, <1>2 DEF Local, Bound, q
<1>4. IsLabel(p, p.version)
  BY <1>1 DEF Local, Labelled, IsLabel, q
<1>5. SwapSeen(p)
  BY <1>1, <1>2 DEF Local, SwapSeen, q
<1>6. Local(p)
  BY <1>1, <1>2, <1>3, <1>4, <1>5, AdvanceLocal DEF q
<1>7. Anchored(p)
  BY <1>1 DEF Anchored, q
<1> QED BY <1>6, <1>7, StepInv

\* The chain of a negotiated request is a non-empty sequence of contracts.
LEMMA LinksType ==
    ASSUME NEW q \in RequestStates, q.bundle \in Bundles, q.id \in q.bundle.ids
    PROVE  /\ Links(q) \in Seq(BoundContracts)
           /\ [i \in 1..Len(Links(q)) |-> Links(q)[Len(Links(q)) + 1 - i]]
                 \in Seq(BoundContracts)
<1> DEFINE ch == q.bundle.chain[q.id]
           n == Len(ch)
<1>1. ch \in Seq(q.bundle.ids)
  BY BundleFacts DEF WellFormed, SoundChains
<1> HIDE DEF ch
<1>2. n \in Nat /\ DOMAIN ch = 1..n /\ \A i \in 1..n : ch[i] \in q.bundle.ids
  BY <1>1, LenProperties, ElementOfSeq
<1> HIDE DEF n
<1>3. Links(q) = [i \in 1..n |-> q.bundle.contract[ch[i]]]
  BY <1>2 DEF Links, ch
<1>4. \A i \in 1..n : q.bundle.contract[ch[i]] \in BoundContracts
  BY <1>2 DEF BoundContracts
<1>5. Links(q) \in [1..n -> BoundContracts]
  BY <1>3, <1>4
<1>6. Links(q) \in Seq(BoundContracts) /\ Len(Links(q)) = n
  BY <1>2, <1>5, SeqDef, LenProperties
<1>7. [i \in 1..n |-> Links(q)[n + 1 - i]] \in [1..n -> BoundContracts]
  BY <1>2, <1>5
<1>8. [i \in 1..n |-> Links(q)[n + 1 - i]] \in Seq(BoundContracts)
  BY <1>2, <1>7, SeqDef
<1> QED BY <1>6, <1>8

\* A request arrives.
LEMMA ArriveInv ==
    ASSUME IInv, NEW r \in Requests, NEW input \in Inputs, Arrive(r, input)
    PROVE  IInv'
<1> DEFINE q == req[r]
           to == IF input.preflight THEN "preflight" ELSE "gate"
           sp == IF input.preflight THEN "none" ELSE "open"
           up == live # NoBundle
           p == [q EXCEPT !.in = input, !.ready = up, !.pc = to, !.span = sp]
<1>1. q \in RequestStates /\ Local(q) /\ q.pc = "idle" /\ Step(r, p)
  BY OneRequest DEF Arrive
<1>2. input.preflight \in BOOLEAN
  BY InputFacts
<1>3. /\ to \in PCs /\ sp \in SpanStates /\ up \in BOOLEAN
      /\ to = "preflight" => input.preflight
      /\ to = "gate" => ~ input.preflight
      /\ to \in {"preflight", "gate"}
  BY <1>2 DEF PCs, InProxy, SpanStates
<1>4. up = TRUE <=> live # NoBundle
  OBVIOUS
<1> HIDE DEF to, sp, up, q
<1>5. p \in RequestStates
  BY <1>1, <1>3 DEF RequestStates
<1>6. /\ p.in = input /\ p.ready = up /\ p.pc = to /\ p.wire = q.wire
      /\ p.counted = q.counted /\ p.outcome = q.outcome /\ p.panic = q.panic
      /\ p.requests = q.requests /\ p.wrote = q.wrote /\ p.header = q.header
      /\ p.version = q.version /\ p.bundle = q.bundle /\ p.unresolved = q.unresolved
  BY <1>1 DEF RequestStates
<1> HIDE DEF p
<1>7. /\ q.wire = <<>> /\ q.counted = <<>> /\ q.outcome = "ok" /\ q.panic = "none"
      /\ q.requests = 0 /\ ~ q.wrote /\ q.header = NoHeader
      /\ q.version = Unknown /\ ~ q.unresolved
  BY <1>1 DEF Local, Quiet, SwapSeen
<1>8. DOMAIN p.wire = {} /\ Len(p.wire) = 0 /\ DOMAIN p.counted = {}
  BY <1>6, <1>7, EmptyFacts
<1>9. Quiet(p)
  BY <1>6, <1>7 DEF Quiet
<1>10. Sorted(p) /\ Bound(p)
  BY <1>3, <1>6, <1>7 DEF Sorted, Bound, InProxy, Serving, Negotiated
<1>11. Tracked(p)
  BY <1>3, <1>6, <1>8 DEF Tracked
<1>12. Raised(p) /\ Counted(p)
  BY <1>3, <1>6 DEF Raised, Counted
<1>13. CodesCounted(p)
  <2>1. p.header.code = ""
    BY <1>6, <1>7, NoHeaderCode
  <2> QED BY <1>8, <2>1 DEF CodesCounted, CodeCounted
<1>14. Echoed(p)
  BY <1>6, <1>7, <1>8 DEF Echoed
<1>15. Labelled(p) /\ Served(p) /\ SwapSeen(p)
  BY <1>6, <1>7, <1>8 DEF Labelled, IsLabel, Served, SwapSeen
<1>16. Anchored(p)
  BY <1>3, <1>4, <1>6 DEF Anchored, Serving, Negotiated
<1>17. Local(p)
  BY <1>9, <1>10, <1>11, <1>12, <1>13, <1>14, <1>15 DEF Local
<1> QED BY <1>1, <1>5, <1>16, <1>17, StepInv DEF p, q

\* The preflight branch answers.
LEMMA PreflightInv ==
    ASSUME IInv, NEW r \in Requests, Preflight(r)
    PROVE  IInv'
<1> DEFINE q == req[r]
<1>1. q \in RequestStates /\ Local(q) /\ Anchored(q) /\ q.pc = "preflight"
  BY OneRequest DEF Preflight
<1>2. PICK s \in Nat : Step(r, WriteHeader(q, s, "", ""))
  <2>1. \A s \in Statuses : s \in Nat
    BY StatusFacts
  <2>2. 502 \in Nat
    OBVIOUS
  <2> QED BY <2>1, <2>2, ZenonT(90) DEF Preflight
<1> DEFINE p == WriteHeader(q, s, "", "")
           h == [status |-> s, code |-> "", version |-> ""]
<1>3. /\ q.wire = <<>> /\ q.counted = <<>> /\ q.outcome = "ok" /\ q.panic = "none"
      /\ q.requests = 0
      /\ q.in.preflight /\ q.in \in Inputs
  BY <1>1 DEF Local, Quiet, Sorted
<1>4. "" \in WireCodes /\ "" \in WireVersions
  BY DEF WireCodes, WireVersions
<1>5. HeaderSent(q, p, h)
  BY <1>1, <1>3, <1>4, WriteHeaderFields
<1>6. h.code = ""
  OBVIOUS
<1>7. Len(q.counted) = 0
  BY <1>3, EmptyFacts
<1> HIDE DEF p, h, q
<1>8. /\ p \in RequestStates
      /\ p.outcome = "ok" /\ p.counted = q.counted /\ p.pc = "return" /\ p.wrote = TRUE
      /\ p.header = h
      /\ \/ Len(p.wire) = 1 /\ DOMAIN p.wire = {1} /\ p.wire[1] = h /\ p.panic = "none"
         \/ Len(p.wire) = 0 /\ DOMAIN p.wire = {} /\ p.panic = "panic"
      /\ p.in = q.in /\ p.ready = q.ready
      /\ p.bundle = q.bundle /\ p.version = q.version /\ p.reads = q.reads
      /\ p.unresolved = q.unresolved /\ p.requests = 0
  BY <1>3, <1>5 DEF HeaderSent
<1>9. Quiet(p) /\ Sorted(p) /\ Bound(p) /\ Raised(p)
  BY <1>1, <1>3, <1>8 DEF Quiet, Sorted, Bound, Raised, InProxy, Serving, Negotiated, Local
<1>10. Tracked(p)
  BY <1>8 DEF Tracked
<1>11. Counted(p)
  <2>1. Failures(p) = 0 /\ Len(p.counted) = 0
    BY <1>7, <1>8 DEF Failures
  <2> QED BY <1>8, <2>1 DEF Counted
<1>12. CodesCounted(p)
  BY <1>6, <1>8, ZenonT(90) DEF CodesCounted, CodeCounted
<1>13. Echoed(p)
  BY <1>3, <1>8 DEF Echoed
<1>14. Labelled(p)
  BY <1>1, <1>8 DEF Labelled, IsLabel, Local
<1>15. Served(p) /\ SwapSeen(p)
  BY <1>1, <1>8 DEF Served, SwapSeen, Local
<1>16. Anchored(p)
  BY <1>1, <1>8 DEF Anchored, Serving, Negotiated
<1>17. Local(p)
  BY <1>9, <1>10, <1>11, <1>12, <1>13, <1>14, <1>15 DEF Local
<1> QED BY <1>2, <1>8, <1>16, <1>17, StepInv DEF p

\* The pointer as the gate reads it.
GateReads(q) == [q EXCEPT !.bundle = live, !.reads = {live} \ {NoBundle}]

\* Reading the pointer changes nothing a client sees.
LEMMA GateLocal ==
    ASSUME IInv, NEW r \in Requests, req[r].pc = "gate"
    PROVE  LET q == GateReads(req[r])
           IN  /\ CanFail(q) /\ q.pc = "gate" /\ q.in = req[r].in /\ q.bundle = live
               /\ q.version = Unknown /\ ~ q.unresolved
<1> DEFINE o == req[r]
           rd == {live} \ {NoBundle}
           q == [o EXCEPT !.bundle = live, !.reads = rd]
<1>1. /\ o \in RequestStates /\ Local(o) /\ Anchored(o) /\ live \in Bundles \cup {NoBundle}
  BY OneRequest DEF IInv, TypeOK
<1>2. rd \in SUBSET Bundles
  BY <1>1
<1>3. q.pc = "gate" /\ o.pc = "gate" /\ GateReads(req[r]) = q
  BY <1>1 DEF GateReads, RequestStates
<1> HIDE DEF rd, o
<1>4. q \in RequestStates
  BY <1>1, <1>2 DEF RequestStates
<1>5. /\ q.wire = o.wire /\ q.counted = o.counted /\ q.outcome = o.outcome
      /\ q.panic = o.panic /\ q.requests = o.requests /\ q.wrote = o.wrote
      /\ q.header = o.header /\ q.in = o.in /\ q.ready = o.ready /\ q.bundle = live
      /\ q.version = o.version /\ q.unresolved = o.unresolved /\ q.id = o.id
  BY <1>1 DEF RequestStates
<1> HIDE DEF q
<1>6. q.version = Unknown /\ ~ q.unresolved
  BY <1>1, <1>3, <1>5 DEF Local, SwapSeen
<1>7. Bound(q) /\ IsLabel(q, q.version) /\ SwapSeen(q)
  BY <1>3, <1>6 DEF Bound, IsLabel, SwapSeen, Serving, Negotiated
<1>8. q.pc \in InProxy /\ o.pc \in InProxy
  BY <1>3 DEF InProxy
<1>9. Local(q)
  BY <1>1, <1>4, <1>5, <1>7, <1>8, AdvanceLocal
<1>10. CanFail(q)
  BY <1>1, <1>4, <1>5, <1>8, <1>9 DEF Anchored, CanFail
<1> QED BY <1>3, <1>5, <1>6, <1>10 DEF o

\* The route gate and the envelope checks.
LEMMA GateInv ==
    ASSUME IInv, NEW r \in Requests, Gate(r)
    PROVE  IInv'
<1> DEFINE q == GateReads(req[r])
<1>1. req[r].pc = "gate"
  BY OneRequest DEF Gate, RequestStates
<1>2. /\ CanFail(q) /\ q.pc = "gate" /\ q.in = req[r].in /\ q.bundle = live
      /\ q.version = Unknown /\ ~ q.unresolved
  BY <1>1, GateLocal
<1>3. q \in RequestStates /\ Local(q) /\ q.pc \in InProxy /\ q.in \in Inputs
  BY <1>1, <1>2 DEF CanFail, Local, Sorted
<1>4. live \in Bundles \cup {NoBundle}
  BY DEF IInv, TypeOK
<1> HIDE DEF q
<1>5. CASE live = NoBundle
  <2>1. Step(r, Fail(q, "unavailable", 503, ""))
    BY <1>5 DEF Gate, GateReads, q
  <2>2. MayFail(q, "unavailable", "")
    BY <1>2, <1>5 DEF CanFail, MayFail, Codes, TransformOutcomes
  <2>3. 503 \in Nat
    OBVIOUS
  <2> QED BY <1>2, <2>1, <2>2, <2>3, FailStep, ZenonT(90)
<1>6. CASE live # NoBundle
  <2> DEFINE p == [q EXCEPT !.pc = "body"]
  <2>1. \/ Step(r, Fail(q, "unknown_route", 404, ""))
        \/ Step(r, Fail(q, "unsupported_media_type", 415, ""))
        \/ Step(r, Fail(q, "request_body_too_large", 413, ""))
        \/ Step(r, p)
    BY <1>6, Zenon DEF Gate, GateReads, q
  <2>2. CASE Step(r, p)
    <3>1. "body" \in PCs /\ "body" \in InProxy /\ "body" \in Serving
          /\ "body" \notin Negotiated
      BY DEF PCs, InProxy, Serving, Negotiated
    <3>2. p \in RequestStates /\ p.pc = "body"
      BY <1>3, <3>1, ZenonT(90) DEF RequestStates
    <3>3. /\ p.wire = q.wire /\ p.counted = q.counted /\ p.outcome = q.outcome
          /\ p.panic = q.panic /\ p.requests = q.requests /\ p.wrote = q.wrote
          /\ p.header = q.header /\ p.in = q.in /\ p.ready = q.ready
          /\ p.bundle = q.bundle /\ p.version = q.version /\ p.unresolved = q.unresolved
      BY <1>3 DEF RequestStates
    <3> HIDE DEF p
    <3>4. Bound(p)
      BY <1>2, <1>4, <1>6, <3>1, <3>2, <3>3 DEF Bound
    <3>5. IsLabel(p, p.version) /\ SwapSeen(p)
      BY <1>2, <3>2, <3>3 DEF IsLabel, SwapSeen
    <3>6. Local(p)
      BY <1>3, <3>1, <3>2, <3>3, <3>4, <3>5, AdvanceLocal
    <3>7. Anchored(p)
      BY <1>6 DEF Anchored
    <3> QED BY <2>2, <3>2, <3>6, <3>7, StepInv
  <2>3. 404 \in Nat /\ 413 \in Nat /\ 415 \in Nat
    OBVIOUS
  <2>4. /\ MayFail(q, "unknown_route", "") /\ MayFail(q, "unsupported_media_type", "")
        /\ MayFail(q, "request_body_too_large", "")
    BY FailureFacts
  <2>5. CASE Step(r, Fail(q, "unknown_route", 404, ""))
    BY <1>2, <2>3, <2>4, <2>5, FailStep, ZenonT(90)
  <2>6. CASE Step(r, Fail(q, "unsupported_media_type", 415, ""))
    BY <1>2, <2>3, <2>4, <2>6, FailStep, ZenonT(90)
  <2>7. CASE Step(r, Fail(q, "request_body_too_large", 413, ""))
    BY <1>2, <2>3, <2>4, <2>7, FailStep, ZenonT(90)
  <2> QED BY <2>1, <2>2, <2>5, <2>6, <2>7
<1> QED BY <1>5, <1>6

\* Past the gate a request has a bundle and the server still has one.
LEMMA ServingFacts ==
    ASSUME IInv, NEW r \in Requests, req[r].pc \in Serving
    PROVE  /\ req[r] \in RequestStates /\ CanFail(req[r])
           /\ live \in Bundles /\ req[r].bundle \in Bundles
           /\ req[r].pc \in Negotiated => req[r].id \in req[r].bundle.ids
<1>1. req[r] \in RequestStates /\ Local(req[r]) /\ Anchored(req[r])
  BY OneRequest
<1>2. req[r].pc \in InProxy
  BY DEF Serving, Negotiated, InProxy
<1>3. live # NoBundle /\ live \in Bundles
  BY <1>1 DEF Anchored, IInv, TypeOK
<1> QED BY <1>1, <1>2, <1>3 DEF CanFail, Local, Bound

\* A step that only moves on.
LEMMA MoveTo ==
    ASSUME IInv, NEW r \in Requests, req[r].pc \in Serving, NEW to \in Serving,
           to \in Negotiated => req[r].pc \in Negotiated,
           to \in {"respops", "encode"} => Answerable(req[r]),
           Step(r, [req[r] EXCEPT !.pc = to])
    PROVE  IInv'
<1> DEFINE q == req[r]
           p == [q EXCEPT !.pc = to]
<1>1. q \in RequestStates
  BY OneRequest
<1>2. to \in PCs
  BY DEF PCs, InProxy, Serving, Negotiated
<1> HIDE DEF q
<1>3. p \in RequestStates
  BY <1>1, <1>2 DEF RequestStates
<1>4. /\ p.pc = to /\ p.wire = q.wire /\ p.counted = q.counted /\ p.outcome = q.outcome
      /\ p.panic = q.panic /\ p.requests = q.requests /\ p.wrote = q.wrote
      /\ p.header = q.header /\ p.in = q.in /\ p.ready = q.ready
      /\ p.bundle = q.bundle /\ p.id = q.id /\ p.version = q.version
      /\ p.unresolved = q.unresolved /\ q.reads \subseteq p.reads
      /\ p.status = q.status
  BY <1>1 DEF RequestStates
<1>5. Step(r, p)
  BY DEF q
<1> HIDE DEF p
<1>6. p.pc \in {"respops", "encode"} => Answerable(p)
  BY <1>4 DEF q, Answerable, Contract
<1> QED BY <1>3, <1>4, <1>5, <1>6, MoveStep DEF q

\* The body read.
LEMMA ReadBodyInv ==
    ASSUME IInv, NEW r \in Requests, ReadBody(r)
    PROVE  IInv'
<1>1. req[r].pc = "body"
  BY DEF ReadBody
<1>2. /\ req[r].pc \in Serving /\ "negotiate" \in Serving /\ "negotiate" \notin Negotiated
      /\ "negotiate" \notin {"respops", "encode"} /\ 400 \in Nat /\ 413 \in Nat
  BY <1>1 DEF Serving, Negotiated
<1>3. CanFail(req[r])
  BY <1>2, ServingFacts
<1>4. MayFail(req[r], "request_body_too_large", "") /\ MayFail(req[r], "decode_failed", "")
  BY FailureFacts
<1>5. \/ Step(r, Fail(req[r], "request_body_too_large", 413, ""))
      \/ Step(r, Fail(req[r], "decode_failed", 400, ""))
      \/ Step(r, [req[r] EXCEPT !.pc = "negotiate"])
  BY Zenon DEF ReadBody
<1>6. CASE Step(r, Fail(req[r], "request_body_too_large", 413, ""))
  BY <1>2, <1>3, <1>4, <1>6, FailStep, ZenonT(90)
<1>7. CASE Step(r, Fail(req[r], "decode_failed", 400, ""))
  BY <1>2, <1>3, <1>4, <1>7, FailStep, ZenonT(90)
<1>8. CASE Step(r, [req[r] EXCEPT !.pc = "negotiate"])
  BY <1>2, <1>8, MoveTo, Zenon
<1> QED BY <1>5, <1>6, <1>7, <1>8

\* negotiate.Resolve.
LEMMA NegotiateInv ==
    ASSUME IInv, NEW r \in Requests, Negotiate(r)
    PROVE  IInv'
<1> DEFINE q == req[r]
           id == Lookup(q.bundle, q.in.route, q.in.version, q.in.sel)
           p == [q EXCEPT !.id = id, !.version = id.version, !.pc = "decode"]
<1>1. q.pc = "negotiate"
  BY DEF Negotiate
<1>2. q.pc \in Serving /\ q.pc \in InProxy /\ 400 \in Nat
  BY <1>1 DEF Serving, Negotiated, InProxy
<1>3. /\ q \in RequestStates /\ Local(q) /\ Anchored(q) /\ CanFail(q)
      /\ live \in Bundles /\ q.bundle \in Bundles
  BY <1>2, ServingFacts, OneRequest
<1>4. MayFail(q, "unsupported_contract_version", "")
  BY FailureFacts
<1>5. CASE q.in.version = Unknown \/ id = NoContract
  <2>1. Step(r, Fail(q, "unsupported_contract_version", 400, ""))
    BY <1>5, Zenon DEF Negotiate
  <2> QED BY <1>2, <1>3, <1>4, <2>1, FailStep, ZenonT(90)
<1>6. CASE ~ (q.in.version = Unknown \/ id = NoContract)
  <2>1. Step(r, p)
    BY <1>6 DEF Negotiate
  <2>2. q.in \in Inputs
    BY <1>1, <1>3 DEF Local, Sorted
  <2>3. q.in.version \in Versions /\ q.in.route \in Routes /\ q.in.sel \in Selectors
    BY <1>6, <2>2, InputFacts
  <2>4. id \in q.bundle.ids /\ id.version = q.in.version
    BY <1>3, <1>6, <2>3, LookupIsBound, BundleFacts
  <2>5. id \in ContractIds /\ q.bundle # NoBundle
    BY <1>3, <2>4, BundleFacts DEF WellFormed
  <2>6. /\ "decode" \in PCs /\ "decode" \in InProxy /\ "decode" \in Serving
        /\ "decode" \notin {"idle", "gate"}
    BY DEF PCs, InProxy, Serving, Negotiated
  <2> HIDE DEF id, q
  <2>7. p \in RequestStates
    BY <1>3, <2>3, <2>4, <2>5, <2>6 DEF RequestStates
  <2>8. /\ p.pc = "decode" /\ p.id = id /\ p.version = id.version
        /\ p.wire = q.wire /\ p.counted = q.counted /\ p.outcome = q.outcome
        /\ p.panic = q.panic /\ p.requests = q.requests /\ p.wrote = q.wrote
        /\ p.header = q.header /\ p.in = q.in /\ p.ready = q.ready
        /\ p.bundle = q.bundle /\ p.unresolved = q.unresolved /\ p.reads = q.reads
    BY <1>3 DEF RequestStates
  <2> HIDE DEF p
  <2>9. Bound(p)
    BY <1>3, <2>4, <2>8 DEF Bound
  <2>10. IsLabel(p, p.version)
    BY <2>4, <2>5, <2>8 DEF IsLabel
  <2>11. SwapSeen(p)
    BY <1>3, <2>6, <2>8 DEF Local, SwapSeen
  <2>12. Local(p)
    BY <1>2, <1>3, <2>6, <2>7, <2>8, <2>9, <2>10, <2>11, AdvanceLocal
  <2>13. Anchored(p)
    BY <1>2, <1>3 DEF Anchored
  <2> QED BY <2>1, <2>7, <2>12, <2>13, StepInv
<1> QED BY <1>5, <1>6

\* A message the negotiated contract names is in its own bundle.
LEMMA OwnMessages ==
    ASSUME IInv, NEW r \in Requests, req[r].pc \in Negotiated
    PROVE  /\ Resolvable(req[r].bundle, Contract(req[r]).requestMessage)
           /\ Resolvable(req[r].bundle, Contract(req[r]).responseMessage)
           /\ \A s \in DOMAIN Contract(req[r]).errorMessages :
                 Resolvable(req[r].bundle, Contract(req[r]).errorMessages[s])
<1>1. req[r].pc \in Serving
  BY DEF Serving
<1>2. req[r].bundle \in Bundles /\ req[r].id \in req[r].bundle.ids
  BY <1>1, ServingFacts
<1>3. SoundContracts(req[r].bundle)
  BY <1>2, BundleFacts DEF WellFormed
<1> QED BY <1>2, <1>3 DEF SoundContracts, Contract

\* Server.Message: only a swapped bundle lacks a message of the negotiated one.
LEMMA MessageLocal ==
    ASSUME IInv, NEW r \in Requests, req[r].pc \in Negotiated,
           NEW name, Resolvable(req[r].bundle, name)
    PROVE  LET q == Message(req[r], name)
           IN  /\ CanFail(q) /\ q.pc = req[r].pc /\ q.status = req[r].status
               /\ q.in = req[r].in /\ q.bundle = req[r].bundle /\ q.id = req[r].id
<1> DEFINE o == req[r]
           rd == o.reads \cup {live}
           un == ~ Resolvable(live, name)
           q == [o EXCEPT !.reads = rd, !.unresolved = un]
<1>1. o.pc \in Serving /\ o.pc \in InProxy /\ o.pc \notin {"idle", "gate"}
  BY DEF Serving, Negotiated, InProxy
<1>2. /\ o \in RequestStates /\ Local(o) /\ CanFail(o) /\ live \in Bundles
      /\ o.bundle \in Bundles
  BY <1>1, ServingFacts, OneRequest
<1>3. rd \in SUBSET Bundles /\ live \in rd
  BY <1>2 DEF RequestStates
<1>4. un \in BOOLEAN /\ (un => live # o.bundle)
  OBVIOUS
<1>5. Message(req[r], name) = q
  BY <1>2 DEF Message, RequestStates
<1> HIDE DEF rd, un, o
<1>6. q \in RequestStates
  BY <1>2, <1>3, <1>4 DEF RequestStates
<1>7. /\ q.pc = o.pc /\ q.wire = o.wire /\ q.counted = o.counted /\ q.outcome = o.outcome
      /\ q.panic = o.panic /\ q.requests = o.requests /\ q.wrote = o.wrote
      /\ q.header = o.header /\ q.in = o.in /\ q.ready = o.ready
      /\ q.bundle = o.bundle /\ q.id = o.id /\ q.version = o.version
      /\ q.unresolved = un /\ q.reads = rd /\ q.status = o.status
  BY <1>2 DEF RequestStates
<1> HIDE DEF q
<1>8. Bound(q) /\ IsLabel(q, q.version)
  BY <1>2, <1>7 DEF Local, Bound, Answerable, Contract, Labelled, IsLabel
<1>9. SwapSeen(q)
  BY <1>1, <1>3, <1>4, <1>7 DEF SwapSeen
<1>10. Local(q)
  BY <1>1, <1>2, <1>6, <1>7, <1>8, <1>9, AdvanceLocal
<1>11. CanFail(q)
  BY <1>1, <1>2, <1>6, <1>7, <1>10 DEF CanFail
<1> QED BY <1>5, <1>7, <1>11 DEF o

\* DecodeRequest, through the pointer as it is now.
LEMMA DecodeInv ==
    ASSUME IInv, NEW r \in Requests, Decode(r)
    PROVE  IInv'
<1> DEFINE name == Contract(req[r]).requestMessage
           q == Message(req[r], name)
           bl == live.messages[name] = Empty
           p == [q EXCEPT !.bodyless = bl, !.pc = "reqops"]
<1>1. req[r].pc = "decode" /\ "reqops" \in PCs /\ "reqops" \in InProxy
  BY DEF Decode, PCs, InProxy
<1>2. req[r].pc \in Negotiated /\ req[r].pc \in Serving /\ 400 \in Nat
  BY <1>1 DEF Negotiated, Serving
<1>3. /\ CanFail(q) /\ q.pc = req[r].pc
  BY <1>2, OwnMessages, MessageLocal
<1>4. live # NoBundle /\ bl \in BOOLEAN
  BY <1>2, ServingFacts, BundleFacts
<1>5. \/ Step(r, p)
      \/ Step(r, Fail(q, "decode_failed", 400, ""))
  BY Zenon DEF Decode
<1>6. CASE Step(r, Fail(q, "decode_failed", 400, ""))
  <2>1. MayFail(q, "decode_failed", "")
    BY FailureFacts
  <2> HIDE DEF q
  <2> QED BY <1>2, <1>3, <1>6, <2>1, FailStep, ZenonT(90)
<1>7. CASE Step(r, p)
  <2> HIDE DEF q, bl
  <2>1. q \in RequestStates /\ Local(q) /\ q.pc \in InProxy
    BY <1>3 DEF CanFail
  <2>2. p \in RequestStates
    BY <1>1, <1>4, <2>1 DEF RequestStates
  <2>3. /\ p.pc = "reqops" /\ p.wire = q.wire /\ p.counted = q.counted
        /\ p.outcome = q.outcome /\ p.panic = q.panic /\ p.requests = q.requests
        /\ p.wrote = q.wrote /\ p.header = q.header /\ p.in = q.in /\ p.ready = q.ready
        /\ p.bundle = q.bundle /\ p.id = q.id /\ p.version = q.version
        /\ p.unresolved = q.unresolved /\ p.reads = q.reads
    BY <2>1 DEF RequestStates
  <2> HIDE DEF p
  <2>4. Bound(p) /\ IsLabel(p, p.version)
    BY <1>2, <1>3, <2>1, <2>3 DEF Local, Bound, Labelled, IsLabel, Serving
  <2>5. SwapSeen(p)
    BY <2>1, <2>3 DEF Local, SwapSeen
  <2>6. Local(p)
    BY <1>1, <2>1, <2>2, <2>3, <2>4, <2>5, AdvanceLocal
  <2>7. Anchored(p)
    BY <1>4 DEF Anchored
  <2> QED BY <1>7, <2>2, <2>6, <2>7, StepInv
<1> QED BY <1>5, <1>6, <1>7

\* The request ops of the chain.
LEMMA TransformRequestInv ==
    ASSUME IInv, NEW r \in Requests, TransformRequest(r)
    PROVE  IInv'
<1> DEFINE q == req[r]
           p == [q EXCEPT !.up = Links(q), !.pc = "dial"]
<1>1. q.pc = "reqops" /\ "dial" \in PCs
  BY DEF TransformRequest, PCs, InProxy
<1>2. /\ q.pc \in Negotiated /\ q.pc \in Serving /\ 422 \in Nat
      /\ "dial" \in Negotiated /\ "dial" \in Serving
  BY <1>1 DEF Negotiated, Serving
<1>3. /\ q \in RequestStates /\ CanFail(q)
      /\ q.bundle \in Bundles /\ q.id \in q.bundle.ids
  BY <1>2, ServingFacts
<1>4. MayFail(q, "transform_failed", "request")
  BY FailureFacts
<1>5. Step(r, p) \/ Step(r, Fail(q, "transform_failed", 422, "request"))
  BY Zenon DEF TransformRequest
<1>6. CASE Step(r, Fail(q, "transform_failed", 422, "request"))
  BY <1>2, <1>3, <1>4, <1>6, FailStep, ZenonT(90)
<1>7. CASE Step(r, p)
  <2>1. Links(q) \in Seq(BoundContracts)
    BY <1>3, LinksType
  <2> HIDE DEF q
  <2>2. p \in RequestStates
    BY <1>1, <1>3, <2>1 DEF RequestStates
  <2>3. /\ p.pc = "dial" /\ p.wire = q.wire /\ p.counted = q.counted
        /\ p.outcome = q.outcome /\ p.panic = q.panic /\ p.requests = q.requests
        /\ p.wrote = q.wrote /\ p.header = q.header /\ p.in = q.in /\ p.ready = q.ready
        /\ p.bundle = q.bundle /\ p.id = q.id /\ p.version = q.version
        /\ p.unresolved = q.unresolved /\ q.reads \subseteq p.reads
    BY <1>3 DEF RequestStates
  <2> HIDE DEF p
  <2>4. p.pc \notin {"respops", "encode"}
    BY <2>3
  <2> QED BY <1>2, <1>7, <2>2, <2>3, <2>4, MoveStep DEF q
<1> QED BY <1>5, <1>6, <1>7

\* The upstream request is built.
LEMMA DialInv ==
    ASSUME IInv, NEW r \in Requests, Dial(r)
    PROVE  IInv'
<1>1. req[r].pc = "dial"
  BY DEF Dial
<1>2. /\ req[r].pc \in Negotiated /\ req[r].pc \in Serving /\ 502 \in Nat
      /\ "upstream" \in Serving /\ "upstream" \notin {"respops", "encode"}
  BY <1>1 DEF Negotiated, Serving
<1>3. CanFail(req[r]) /\ MayFail(req[r], "upstream_error", "")
  BY <1>2, ServingFacts, FailureFacts
<1>4. \/ Step(r, [req[r] EXCEPT !.pc = "upstream"])
      \/ Step(r, Fail(req[r], "upstream_error", 502, ""))
  BY Zenon DEF Dial
<1>5. CASE Step(r, [req[r] EXCEPT !.pc = "upstream"])
  BY <1>2, <1>5, MoveTo, Zenon
<1>6. CASE Step(r, Fail(req[r], "upstream_error", 502, ""))
  BY <1>2, <1>3, <1>6, FailStep, ZenonT(90)
<1> QED BY <1>4, <1>5, <1>6

\* The request's deadline passes.
LEMMA DeadlineExpiresInv ==
    ASSUME IInv, NEW r \in Requests, DeadlineExpires(r)
    PROVE  IInv'
<1> DEFINE q == req[r]
           p == [q EXCEPT !.expired = TRUE]
<1>1. /\ q.pc \in Negotiated /\ q.pc \in Serving /\ Step(r, p)
      /\ q.pc \notin {"respops", "encode"}
  BY DEF DeadlineExpires, Negotiated, Serving
<1>2. q \in RequestStates
  BY OneRequest
<1> HIDE DEF q
<1>3. p \in RequestStates
  BY <1>2 DEF RequestStates
<1>4. /\ p.pc = q.pc /\ p.wire = q.wire /\ p.counted = q.counted
      /\ p.outcome = q.outcome /\ p.panic = q.panic /\ p.requests = q.requests
      /\ p.wrote = q.wrote /\ p.header = q.header /\ p.in = q.in /\ p.ready = q.ready
      /\ p.bundle = q.bundle /\ p.id = q.id /\ p.version = q.version
      /\ p.unresolved = q.unresolved /\ q.reads \subseteq p.reads
  BY <1>2 DEF RequestStates
<1> HIDE DEF p
<1> QED BY <1>1, <1>3, <1>4, MoveStep DEF q

\* The upstream's response head arrives.
LEMMA UpstreamAnswersInv ==
    ASSUME IInv, NEW r \in Requests, UpstreamAnswers(r)
    PROVE  IInv'
<1> DEFINE q == req[r]
<1>1. PICK s \in Statuses : Step(r, [q EXCEPT !.status = s, !.pc = "upbody"])
  BY DEF UpstreamAnswers
<1> DEFINE p == [q EXCEPT !.status = s, !.pc = "upbody"]
<1>2. q.pc = "upstream" /\ "upbody" \in PCs
  BY DEF UpstreamAnswers, PCs, InProxy
<1>3. /\ q.pc \in Negotiated /\ q.pc \in Serving
      /\ "upbody" \in Negotiated /\ "upbody" \in Serving
  BY <1>2 DEF Negotiated, Serving
<1>4. q \in RequestStates
  BY OneRequest
<1> HIDE DEF q
<1>5. p \in RequestStates
  BY <1>2, <1>4 DEF RequestStates
<1>6. /\ p.pc = "upbody" /\ p.wire = q.wire /\ p.counted = q.counted
      /\ p.outcome = q.outcome /\ p.panic = q.panic /\ p.requests = q.requests
      /\ p.wrote = q.wrote /\ p.header = q.header /\ p.in = q.in /\ p.ready = q.ready
      /\ p.bundle = q.bundle /\ p.id = q.id /\ p.version = q.version
      /\ p.unresolved = q.unresolved /\ q.reads \subseteq p.reads
  BY <1>4 DEF RequestStates
<1>7. Step(r, p) /\ p.pc \notin {"respops", "encode"}
  BY <1>1, <1>6
<1> HIDE DEF p
<1> QED BY <1>3, <1>5, <1>6, <1>7, MoveStep DEF q

\* Recording that the deadline cut an exchange off changes nothing else.
LEMMA LateLocal ==
    ASSUME IInv, NEW r \in Requests, req[r].pc \in Serving, NEW v \in BOOLEAN
    PROVE  CanFail([req[r] EXCEPT !.late = v])
<1> DEFINE o == req[r]
           q == [o EXCEPT !.late = v]
<1>1. o \in RequestStates /\ Local(o) /\ CanFail(o)
  BY ServingFacts, OneRequest
<1>2. o.pc \notin {"idle", "gate"} /\ o.pc \in InProxy
  BY DEF Serving, Negotiated, InProxy
<1> HIDE DEF o
<1>3. q \in RequestStates
  BY <1>1 DEF RequestStates
<1>4. /\ q.pc = o.pc /\ q.wire = o.wire /\ q.counted = o.counted /\ q.outcome = o.outcome
      /\ q.panic = o.panic /\ q.requests = o.requests /\ q.wrote = o.wrote
      /\ q.header = o.header /\ q.in = o.in /\ q.ready = o.ready
      /\ q.bundle = o.bundle /\ q.id = o.id /\ q.version = o.version
      /\ q.unresolved = o.unresolved /\ q.reads = o.reads /\ q.status = o.status
  BY <1>1 DEF RequestStates
<1> HIDE DEF q
<1>5. Bound(q) /\ IsLabel(q, q.version)
  BY <1>1, <1>4 DEF Local, Bound, Answerable, Contract, Labelled, IsLabel
<1>6. SwapSeen(q)
  BY <1>1, <1>4 DEF Local, SwapSeen
<1>7. Local(q)
  BY <1>1, <1>2, <1>3, <1>4, <1>5, <1>6, AdvanceLocal
<1>8. CanFail(q)
  BY <1>1, <1>2, <1>3, <1>4, <1>7 DEF CanFail
<1> QED BY <1>8 DEF q, o

\* client.Do fails.
LEMMA UpstreamFailsInv ==
    ASSUME IInv, NEW r \in Requests, UpstreamFails(r)
    PROVE  IInv'
<1> DEFINE l == [req[r] EXCEPT !.late = TRUE]
<1>1. req[r].pc = "upstream"
  BY DEF UpstreamFails
<1>2. req[r].pc \in Serving /\ 502 \in Nat /\ 504 \in Nat
  BY <1>1 DEF Negotiated, Serving
<1>3. CanFail(req[r]) /\ CanFail(l)
  BY <1>2, ServingFacts, LateLocal
<1>4. MayFail(l, "upstream_timeout", "") /\ MayFail(req[r], "upstream_error", "")
  BY FailureFacts
<1>5. \/ Step(r, Fail(l, "upstream_timeout", 504, ""))
      \/ Step(r, Fail(req[r], "upstream_error", 502, ""))
  BY Zenon DEF UpstreamFails
<1> HIDE DEF l
<1>6. CASE Step(r, Fail(l, "upstream_timeout", 504, ""))
  BY <1>2, <1>3, <1>4, <1>6, FailStep, ZenonT(90)
<1>7. CASE Step(r, Fail(req[r], "upstream_error", 502, ""))
  BY <1>2, <1>3, <1>4, <1>7, FailStep, ZenonT(90)
<1> QED BY <1>5, <1>6, <1>7

\* The upstream's body is read, or is not.
LEMMA ReadUpstreamBodyInv ==
    ASSUME IInv, NEW r \in Requests, ReadUpstreamBody(r)
    PROVE  IInv'
<1> DEFINE v == req[r].expired
           l == [req[r] EXCEPT !.late = v]
<1>1. req[r].pc = "upbody"
  BY DEF ReadUpstreamBody
<1>2. /\ req[r].pc \in Negotiated /\ req[r].pc \in Serving /\ 502 \in Nat
      /\ "dispatch" \in Serving /\ "dispatch" \notin {"respops", "encode"}
  BY <1>1 DEF Negotiated, Serving
<1>3. v \in BOOLEAN
  BY OneRequest DEF RequestStates
<1>4. \/ Step(r, [req[r] EXCEPT !.pc = "dispatch"])
      \/ Step(r, Fail(l, "upstream_error", 502, ""))
  BY Zenon DEF ReadUpstreamBody
<1> HIDE DEF v
<1>5. CanFail(l) /\ MayFail(l, "upstream_error", "")
  BY <1>2, <1>3, LateLocal, FailureFacts
<1> HIDE DEF l
<1>6. CASE Step(r, [req[r] EXCEPT !.pc = "dispatch"])
  BY <1>2, <1>6, MoveTo, Zenon
<1>7. CASE Step(r, Fail(l, "upstream_error", 502, ""))
  BY <1>2, <1>5, <1>7, FailStep, ZenonT(90)
<1> QED BY <1>4, <1>6, <1>7

\* The status dispatch.
LEMMA DispatchInv ==
    ASSUME IInv, NEW r \in Requests, Dispatch(r)
    PROVE  IInv'
<1> DEFINE q == req[r]
           s == q.status
<1>1. q.pc = "dispatch"
  BY DEF Dispatch
<1>2. q.pc \in Negotiated /\ q.pc \in Serving /\ 502 \in Nat /\ "respops" \in Serving
  BY <1>1 DEF Negotiated, Serving
<1>3. q \in RequestStates /\ Local(q) /\ CanFail(q)
  BY <1>2, ServingFacts, OneRequest
<1>4. s \in Nat
  BY <1>3, StatusFacts DEF RequestStates
<1>5. MayFail(q, "upstream_error", "") /\ MayFail(q, "upstream_status", "")
  BY FailureFacts
<1>6. q.ready => live # NoBundle
  BY <1>3 DEF CanFail
<1>7. \/ Step(r, [q EXCEPT !.pc = "respops"]) /\ Answerable(q)
      \/ Step(r, Answer(q, s))
      \/ Step(r, Fail(q, "upstream_error", 502, ""))
      \/ Step(r, Fail(q, "upstream_status", s, ""))
  BY Zenon DEF Dispatch, Answerable
<1> HIDE DEF s
<1>8. CASE Step(r, [q EXCEPT !.pc = "respops"]) /\ Answerable(q)
  BY <1>2, <1>8, MoveTo, Zenon
<1>9. CASE Step(r, Answer(q, s))
  BY <1>2, <1>3, <1>4, <1>6, <1>9, AnswerStep, Zenon
<1>10. CASE Step(r, Fail(q, "upstream_error", 502, ""))
  BY <1>2, <1>3, <1>5, <1>10, FailStep, ZenonT(90)
<1>11. CASE Step(r, Fail(q, "upstream_status", s, ""))
  BY <1>3, <1>4, <1>5, <1>11, FailStep, Zenon
<1> QED BY <1>7, <1>8, <1>9, <1>10, <1>11

\* The response ops of the chain, backwards.
LEMMA TransformResponseInv ==
    ASSUME IInv, NEW r \in Requests, TransformResponse(r)
    PROVE  IInv'
<1> DEFINE q == req[r]
           back == [i \in 1..Len(Links(q)) |-> Links(q)[Len(Links(q)) + 1 - i]]
           p == [q EXCEPT !.down = back, !.pc = "encode"]
<1>1. q.pc = "respops" /\ "encode" \in PCs
  BY DEF TransformResponse, PCs, InProxy
<1>2. /\ q.pc \in Negotiated /\ q.pc \in Serving /\ 502 \in Nat
      /\ "encode" \in Negotiated /\ "encode" \in Serving
  BY <1>1 DEF Negotiated, Serving
<1>3. /\ q \in RequestStates /\ CanFail(q)
      /\ q.bundle \in Bundles /\ q.id \in q.bundle.ids
  BY <1>2, ServingFacts
<1>4. MayFail(q, "transform_failed", "response")
  BY FailureFacts
<1>5. Step(r, p) \/ Step(r, Fail(q, "transform_failed", 502, "response"))
  BY Zenon DEF TransformResponse
<1>6. CASE Step(r, Fail(q, "transform_failed", 502, "response"))
  BY <1>2, <1>3, <1>4, <1>6, FailStep, ZenonT(90)
<1>7. CASE Step(r, p)
  <2>1. back \in Seq(BoundContracts)
    BY <1>3, LinksType
  <2> HIDE DEF q, back
  <2>2. p \in RequestStates
    BY <1>1, <1>3, <2>1 DEF RequestStates
  <2>3. /\ p.pc = "encode" /\ p.wire = q.wire /\ p.counted = q.counted
        /\ p.outcome = q.outcome /\ p.panic = q.panic /\ p.requests = q.requests
        /\ p.wrote = q.wrote /\ p.header = q.header /\ p.in = q.in /\ p.ready = q.ready
        /\ p.bundle = q.bundle /\ p.id = q.id /\ p.version = q.version
        /\ p.unresolved = q.unresolved /\ q.reads \subseteq p.reads
    BY <1>3 DEF RequestStates
  <2>4. p.status = q.status
    BY <1>3 DEF RequestStates
  <2>5. Answerable(q)
    BY <1>1, OneRequest DEF Local, Bound, q
  <2> HIDE DEF p
  <2>6. Answerable(p)
    BY <2>3, <2>4, <2>5 DEF Answerable, Contract
  <2> QED BY <1>2, <1>7, <2>2, <2>3, <2>6, MoveStep DEF q
<1> QED BY <1>5, <1>6, <1>7

\* EncodeResponse and EncodeError, through the pointer as it is now.
LEMMA EncodeInv ==
    ASSUME IInv, NEW r \in Requests, Encode(r)
    PROVE  IInv'
<1> DEFINE c == Contract(req[r])
           name == IF IsSuccess(req[r].status) THEN c.responseMessage
                   ELSE c.errorMessages[req[r].status]
           q == Message(req[r], name)
           s == q.status
<1>1. req[r].pc = "encode"
  BY DEF Encode
<1>2. req[r].pc \in Negotiated /\ req[r].pc \in Serving /\ 502 \in Nat
  BY <1>1 DEF Negotiated, Serving
<1>3. Answerable(req[r])
  BY <1>1, OneRequest DEF Local, Bound
<1>4. Resolvable(req[r].bundle, name)
  BY <1>2, <1>3, OwnMessages DEF Answerable
<1>5. \/ Step(r, Answer(q, s))
      \/ Step(r, Fail(q, "upstream_error", 502, ""))
  BY Zenon DEF Encode
<1> HIDE DEF name
<1>6. CanFail(q) /\ q.pc = req[r].pc
  BY <1>2, <1>4, MessageLocal
<1>7. MayFail(q, "upstream_error", "")
  BY FailureFacts
<1> HIDE DEF q
<1>8. /\ q \in RequestStates /\ Local(q) /\ q.pc \in Negotiated
      /\ q.ready => live # NoBundle
  BY <1>2, <1>6 DEF CanFail
<1>9. s \in Nat
  BY <1>8, StatusFacts DEF RequestStates
<1> HIDE DEF s
<1>10. CASE Step(r, Answer(q, s))
  BY <1>8, <1>9, <1>10, AnswerStep, Zenon
<1>11. CASE Step(r, Fail(q, "upstream_error", 502, ""))
  BY <1>2, <1>6, <1>7, <1>11, FailStep, ZenonT(90)
<1> QED BY <1>5, <1>10, <1>11

\* A panic anywhere in the handler.
LEMMA PanicsInv ==
    ASSUME IInv, NEW r \in Requests, Panics(r)
    PROVE  IInv'
<1> DEFINE q == req[r]
<1>1. PICK kind \in {"panic", "abort"} :
            Step(r, [q EXCEPT !.panic = kind, !.pc = "return"])
  BY DEF Panics
<1> DEFINE p == [q EXCEPT !.panic = kind, !.pc = "return"]
<1>2. /\ q \in RequestStates /\ Local(q) /\ Anchored(q)
      /\ q.pc \in InProxy \cup {"preflight"}
  BY OneRequest DEF Panics
<1>3. /\ q.wire = <<>> /\ q.counted = <<>> /\ q.outcome = "ok" /\ q.requests = 0
      /\ ~ q.wrote /\ q.header = NoHeader /\ q.in \in Inputs
  BY <1>2 DEF Local, Quiet, Sorted, InProxy
<1>4. "return" \in PCs /\ kind \in Raisable /\ kind # "none"
  BY DEF PCs, Raisable
<1>5. /\ DOMAIN q.wire = {} /\ Len(q.wire) = 0
      /\ DOMAIN q.counted = {} /\ Len(q.counted) = 0
  BY <1>3, EmptyFacts
<1>6. Step(r, p)
  BY <1>1
<1> HIDE DEF q
<1>7. p \in RequestStates
  BY <1>2, <1>4 DEF RequestStates
<1>8. /\ p.pc = "return" /\ p.panic = kind /\ p.wire = q.wire /\ p.counted = q.counted
      /\ p.outcome = q.outcome /\ p.requests = q.requests /\ p.wrote = q.wrote
      /\ p.header = q.header /\ p.in = q.in /\ p.ready = q.ready
      /\ p.bundle = q.bundle /\ p.version = q.version /\ p.reads = q.reads
      /\ p.unresolved = q.unresolved
  BY <1>2 DEF RequestStates
<1> HIDE DEF p
<1>9. Quiet(p) /\ Sorted(p) /\ Raised(p)
  BY <1>3, <1>8 DEF Quiet, Sorted, Raised, InProxy
<1>10. Bound(p)
  BY <1>2, <1>8 DEF Bound, Serving, Negotiated, Local
<1>11. Tracked(p)
  <2>1. p.pc = "return" /\ p.panic # "none" /\ Len(p.wire) = 0
    BY <1>4, <1>5, <1>8
  <2> QED BY <2>1 DEF Tracked
<1>12. Counted(p)
  <2>1. Failures(p) = 0 /\ Len(p.counted) = 0
    BY <1>3, <1>5, <1>8 DEF Failures
  <2> QED BY <1>3, <1>8, <2>1 DEF Counted
<1>13. CodesCounted(p)
  <2>1. p.header.code = ""
    BY <1>3, <1>8, NoHeaderCode
  <2> QED BY <1>5, <1>8, <2>1 DEF CodesCounted, CodeCounted
<1>14. Echoed(p)
  BY <1>3, <1>5, <1>8 DEF Echoed
<1>15. Labelled(p) /\ Served(p)
  BY <1>2, <1>5, <1>8 DEF Labelled, IsLabel, Served, Local
<1>16. SwapSeen(p)
  BY <1>2, <1>8 DEF SwapSeen, Local
<1>17. Anchored(p)
  BY <1>2, <1>8 DEF Anchored, Serving, Negotiated
<1>18. Local(p)
  BY <1>9, <1>10, <1>11, <1>12, <1>13, <1>14, <1>15, <1>16 DEF Local
<1> QED BY <1>6, <1>7, <1>17, <1>18, StepInv

\* proxy's deferred function and, when a panic is under way, the way to Recover.
LEMMA LeaveLocal ==
    ASSUME NEW o \in RequestStates, Local(o), o.pc = "return",
           NEW q \in RequestStates, q.pc = "return",
           q.requests = IF o.in.preflight THEN 0 ELSE 1,
           q.panic = o.panic \/ q.panic = "panic",
           q.wire = o.wire, q.counted = o.counted, q.outcome = o.outcome,
           q.wrote = o.wrote, q.header = o.header, q.in = o.in, q.ready = o.ready,
           q.bundle = o.bundle, q.version = o.version, q.reads = o.reads,
           q.unresolved = o.unresolved
    PROVE  LET p == IF q.panic = "none" THEN Returned(q) ELSE [q EXCEPT !.pc = "recover"]
           IN  /\ p \in RequestStates /\ Local(p)
               /\ p.pc \in {"recover", "done"} /\ p.ready = o.ready
<1>1. /\ q.in \in Inputs /\ (q.version # Unknown => q.version = q.in.version)
      /\ Len(q.wire) = 0 \/ Len(q.wire) = 1
      /\ Len(q.wire) = 1 => q.wrote
      /\ q.panic = "none" => Len(q.wire) = 1
      /\ Len(q.counted) = Failures(q)
      /\ q.unresolved => \E b \in q.reads : b # q.bundle
  <2>1. o.pc # "idle" /\ o.pc \in {"return", "recover", "aborted"}
    OBVIOUS
  <2>2. q.in \in Inputs /\ (q.version # Unknown => q.version = q.in.version)
    BY <2>1 DEF Local, Sorted, Bound
  <2>3. /\ Len(q.wire) = 0 \/ Len(q.wire) = 1
        /\ Len(q.wire) = 1 => q.wrote
        /\ q.panic = "none" => Len(q.wire) = 1
    BY DEF Local, Tracked
  <2>4. Len(q.counted) = Failures(q)
    BY <2>1 DEF Local, Counted, Failures
  <2>5. q.unresolved => \E b \in q.reads : b # q.bundle
    BY DEF Local, SwapSeen
  <2> QED BY <2>2, <2>3, <2>4, <2>5
<1>2. CodesCounted(q)
  BY ZenonT(90) DEF Local, CodesCounted, CodeCounted
<1>3. Echoed(q)
  BY DEF Local, Echoed
<1>4. Labelled(q) /\ Served(q)
  BY DEF Local, Labelled, IsLabel, Served
<1>5. CASE q.panic = "none"
  <2> DEFINE p == Returned(q)
  <2>1. Finished(q, p)
    BY <1>1, ReturnedFields
  <2> HIDE DEF p
  <2>2. q.wrote /\ q.panic # "abort"
    BY <1>1, <1>5
  <2>3. Len(q.counted) = Failures(q) + (IF q.panic = "panic" THEN 1 ELSE 0)
    BY <1>1, <1>5 DEF Failures
  <2>4. q.requests = IF q.in.preflight THEN 0 ELSE 1
    OBVIOUS
  <2>5. p \in RequestStates /\ Local(p) /\ p.pc = "done" /\ p.ready = q.ready
    BY <1>1, <1>2, <1>3, <1>4, <2>1, <2>2, <2>3, <2>4, FinishedLocal
  <2> QED BY <1>5, <2>5 DEF p
<1>6. CASE q.panic # "none"
  <2> DEFINE p == [q EXCEPT !.pc = "recover"]
  <2>1. "recover" \in PCs
    BY DEF PCs
  <2>2. p \in RequestStates
    BY <2>1, ZenonT(90) DEF RequestStates
  <2>3. /\ p.pc = "recover" /\ p.panic = q.panic /\ p.wire = q.wire
        /\ p.counted = q.counted /\ p.outcome = q.outcome /\ p.requests = q.requests
        /\ p.wrote = q.wrote /\ p.header = q.header /\ p.in = q.in /\ p.ready = q.ready
        /\ p.bundle = q.bundle /\ p.version = q.version /\ p.reads = q.reads
        /\ p.unresolved = q.unresolved
    BY DEF RequestStates
  <2> HIDE DEF p
  <2>4. Quiet(p) /\ Sorted(p) /\ Bound(p)
    BY <1>1, <2>3 DEF Quiet, Sorted, Bound, InProxy, Serving, Negotiated
  <2>5. Tracked(p) /\ Raised(p)
    BY <1>1, <1>6, <2>3 DEF Tracked, Raised
  <2>6. Counted(p)
    <3>1. Failures(p) = Failures(q)
      BY <2>3 DEF Failures
    <3> QED BY <1>1, <2>3, <3>1 DEF Counted
  <2>7. CodesCounted(p)
    BY <1>2, <2>3, ZenonT(90) DEF CodesCounted, CodeCounted
  <2>8. Echoed(p)
    BY <1>3, <2>3 DEF Echoed
  <2>9. Labelled(p) /\ Served(p)
    BY <1>4, <2>3 DEF Labelled, IsLabel, Served
  <2>10. SwapSeen(p)
    BY <1>1, <2>3 DEF SwapSeen
  <2>11. Local(p)
    BY <2>4, <2>5, <2>6, <2>7, <2>8, <2>9, <2>10 DEF Local
  <2> QED BY <1>6, <2>2, <2>3, <2>11 DEF p
<1> QED BY <1>5, <1>6

\* The three ways through the deferred function.
LEMMA DeferredInv ==
    ASSUME IInv, NEW r \in Requests, Deferred(r)
    PROVE  IInv'
<1> DEFINE o == req[r]
           Leave(s) == IF s.panic = "none" THEN Returned(s) ELSE [s EXCEPT !.pc = "recover"]
           n == o.requests + 1
           sp == IF o.outcome = "ok" THEN "ok" ELSE "error"
           q1 == [o EXCEPT !.requests = n, !.span = sp]
           q2 == [o EXCEPT !.requests = n, !.panic = "panic"]
<1>1. /\ o \in RequestStates /\ Local(o) /\ Anchored(o) /\ o.pc = "return"
  BY OneRequest DEF Deferred
<1>2. o.requests = 0 /\ o.requests \in Nat
  BY <1>1 DEF Local, Counted, RequestStates
<1>3. n = 1 /\ n \in Nat /\ sp \in SpanStates /\ "panic" \in Raisable
  BY <1>2 DEF SpanStates, Raisable
<1>4. \/ o.in.preflight /\ Step(r, Leave(o))
      \/ ~ o.in.preflight /\ Step(r, Leave(q1))
      \/ ~ o.in.preflight /\ Step(r, Leave(q2))
  <2>1. /\ q1 = [o EXCEPT !.requests = @ + 1, !.span = sp]
        /\ q2 = [o EXCEPT !.requests = @ + 1, !.panic = "panic"]
    BY <1>1 DEF RequestStates
  <2> QED BY <2>1, Zenon DEF Deferred
<1> HIDE DEF n, sp
<1>5. ASSUME NEW q \in RequestStates, q.pc = "return",
             q.requests = IF o.in.preflight THEN 0 ELSE 1,
             q.panic = o.panic \/ q.panic = "panic",
             q.wire = o.wire, q.counted = o.counted, q.outcome = o.outcome,
             q.wrote = o.wrote, q.header = o.header, q.in = o.in, q.ready = o.ready,
             q.bundle = o.bundle, q.version = o.version, q.reads = o.reads,
             q.unresolved = o.unresolved, Step(r, Leave(q))
      PROVE  IInv'
  <2> DEFINE p == Leave(q)
  <2>1. /\ p \in RequestStates /\ Local(p)
        /\ p.pc \in {"recover", "done"} /\ p.ready = o.ready
    BY <1>1, <1>5, LeaveLocal
  <2>2. Step(r, p)
    BY <1>5
  <2> HIDE DEF p
  <2>3. Anchored(p)
    BY <1>1, <2>1 DEF Anchored, Serving, Negotiated
  <2> QED BY <2>1, <2>2, <2>3, StepInv
<1>6. CASE o.in.preflight /\ Step(r, Leave(o))
  <2>1. o.requests = IF o.in.preflight THEN 0 ELSE 1
    BY <1>2, <1>6
  <2> HIDE DEF o, Leave
  <2> QED BY <1>1, <1>5, <1>6, <2>1
<1>7. CASE ~ o.in.preflight /\ Step(r, Leave(q1))
  <2> HIDE DEF o, Leave
  <2>1. q1 \in RequestStates
    BY <1>1, <1>3, ZenonT(90) DEF RequestStates
  <2>2. /\ q1.pc = "return" /\ q1.requests = n /\ q1.panic = o.panic
        /\ q1.wire = o.wire /\ q1.counted = o.counted /\ q1.outcome = o.outcome
        /\ q1.wrote = o.wrote /\ q1.header = o.header /\ q1.in = o.in
        /\ q1.ready = o.ready /\ q1.bundle = o.bundle /\ q1.version = o.version
        /\ q1.reads = o.reads /\ q1.unresolved = o.unresolved
    BY <1>1 DEF RequestStates
  <2> HIDE DEF q1
  <2>3. q1.requests = IF o.in.preflight THEN 0 ELSE 1
    BY <1>3, <1>7, <2>2
  <2> QED BY <1>5, <1>7, <2>1, <2>2, <2>3
<1>8. CASE ~ o.in.preflight /\ Step(r, Leave(q2))
  <2> HIDE DEF o, Leave
  <2>1. q2 \in RequestStates
    BY <1>1, <1>3, ZenonT(90) DEF RequestStates
  <2>2. /\ q2.pc = "return" /\ q2.requests = n /\ q2.panic = "panic"
        /\ q2.wire = o.wire /\ q2.counted = o.counted /\ q2.outcome = o.outcome
        /\ q2.wrote = o.wrote /\ q2.header = o.header /\ q2.in = o.in
        /\ q2.ready = o.ready /\ q2.bundle = o.bundle /\ q2.version = o.version
        /\ q2.reads = o.reads /\ q2.unresolved = o.unresolved
    BY <1>1 DEF RequestStates
  <2> HIDE DEF q2
  <2>3. q2.requests = IF o.in.preflight THEN 0 ELSE 1
    BY <1>3, <1>8, <2>2
  <2> QED BY <1>5, <1>8, <2>1, <2>2, <2>3
<1> QED BY <1>4, <1>6, <1>7, <1>8

\* Recover's increment of the errors counter for the panic it caught.
RecoverCounts(q) ==
    [q EXCEPT !.counted =
        Append(@, [code |-> "internal_error", version |-> Unknown, tout |-> ""])]

\* Counting the panic keeps what holds of the request.
LEMMA RecoverCountsLocal ==
    ASSUME NEW q \in RequestStates, Local(q), q.pc = "recover", q.panic # "abort"
    PROVE  LET c == RecoverCounts(q)
           IN  /\ c \in RequestStates
               /\ c.in \in Inputs /\ (c.version # Unknown => c.version = c.in.version)
               /\ c.panic # "abort"
               /\ c.requests = IF c.in.preflight THEN 0 ELSE 1
               /\ Len(c.counted) = Failures(c) + (IF c.panic = "panic" THEN 1 ELSE 0)
               /\ CodesCounted(c) /\ CodeCounted(c, "internal_error")
               /\ Echoed(c) /\ Labelled(c) /\ Served(c)
               /\ c.unresolved => \E b \in c.reads : b # c.bundle
               /\ c.in = q.in /\ c.wire = q.wire /\ c.wrote = q.wrote
               /\ c.ready = q.ready /\ c.header = q.header
<1> DEFINE label == [code |-> "internal_error", version |-> Unknown, tout |-> ""]
           n == Append(q.counted, label)
           c == [q EXCEPT !.counted = n]
           k == Len(q.counted)
<1>1. label \in Labels /\ label.code = "internal_error" /\ label.version = Unknown
  BY DEF Labels, Codes, TransformOutcomes
<1>2. q.counted \in Seq(Labels) /\ q.panic \in Raisable /\ q.panic # "none"
  BY DEF RequestStates, Local, Raised
<1>3. q.panic = "panic"
  BY <1>2 DEF Raisable
<1>4. RecoverCounts(q) = c
  BY DEF RecoverCounts, RequestStates
<1> HIDE DEF label
<1>5. /\ n \in Seq(Labels) /\ Len(n) = k + 1 /\ DOMAIN q.counted = 1..k
      /\ DOMAIN n = 1..(k + 1) /\ n[k + 1] = label /\ k \in Nat
      /\ \A i \in DOMAIN q.counted : n[i] = q.counted[i]
  BY <1>1, <1>2, AppendFacts
<1>6. /\ k + 1 \in DOMAIN n /\ DOMAIN q.counted \subseteq DOMAIN n
      /\ \A i \in DOMAIN n : i = k + 1 \/ i \in DOMAIN q.counted
  BY <1>5
<1>7. k = Failures(q)
  BY DEF Local, Counted
<1> HIDE DEF n, k
<1>8. c \in RequestStates
  BY <1>5 DEF RequestStates
<1>9. /\ c.counted = n /\ c.in = q.in /\ c.wire = q.wire /\ c.wrote = q.wrote
      /\ c.ready = q.ready /\ c.header = q.header /\ c.version = q.version
      /\ c.panic = q.panic /\ c.requests = q.requests /\ c.outcome = q.outcome
      /\ c.unresolved = q.unresolved /\ c.reads = q.reads /\ c.bundle = q.bundle
  BY DEF RequestStates
<1> HIDE DEF c
<1>10. c.in \in Inputs /\ (c.version # Unknown => c.version = c.in.version)
  BY <1>9 DEF Local, Sorted, Bound
<1>11. c.requests = IF c.in.preflight THEN 0 ELSE 1
  BY <1>9 DEF Local, Counted
<1>12. Len(c.counted) = Failures(c) + (IF c.panic = "panic" THEN 1 ELSE 0)
  BY <1>3, <1>5, <1>7, <1>9 DEF Failures
<1>13. \A code : CodeCounted(q, code) => CodeCounted(c, code)
  BY <1>5, <1>6, <1>9 DEF CodeCounted
<1>14. CodesCounted(c)
  BY <1>9, <1>13 DEF CodesCounted, Local
<1>15. CodeCounted(c, "internal_error")
  BY <1>1, <1>5, <1>6, <1>9 DEF CodeCounted
<1>16. Echoed(c)
  BY <1>9 DEF Echoed, Local
<1>17. Labelled(c)
  <2>1. IsLabel(c, c.version)
    BY <1>9 DEF Labelled, IsLabel, Local
  <2>2. ASSUME NEW i \in DOMAIN c.counted
        PROVE  IsLabel(c, c.counted[i].version)
    <3>1. CASE i = k + 1
      BY <1>1, <1>5, <1>9, <3>1 DEF IsLabel
    <3>2. CASE i \in DOMAIN q.counted
      BY <1>5, <1>9, <3>2 DEF Labelled, IsLabel, Local
    <3> QED BY <1>6, <1>9, <3>1, <3>2
  <2> QED BY <2>1, <2>2 DEF Labelled
<1>18. Served(c)
  <2>1. ASSUME c.ready, NEW i \in DOMAIN c.counted
        PROVE  c.counted[i].code # "unavailable"
    <3>1. CASE i = k + 1
      BY <1>1, <1>5, <1>9, <3>1
    <3>2. CASE i \in DOMAIN q.counted
      BY <1>5, <1>9, <2>1, <3>2 DEF Served, Local
    <3> QED BY <1>6, <1>9, <3>1, <3>2
  <2> QED BY <2>1 DEF Served
<1>19. c.unresolved => \E b \in c.reads : b # c.bundle
  BY <1>9 DEF SwapSeen, Local
<1>20. c.panic # "abort"
  BY <1>3, <1>9
<1> HIDE DEF Failures, CodesCounted, CodeCounted, Echoed, Labelled, Served
<1> QED BY <1>4, <1>8, <1>9, <1>10, <1>11, <1>12, <1>14, <1>15, <1>16, <1>17, <1>18,
           <1>19, <1>20

\* Recover: an abort is raised again, a started response is left alone, and
\* anything else is answered with the envelope.
LEMMA RecoverInv ==
    ASSUME IInv, NEW r \in Requests, Recover(r)
    PROVE  IInv'
<1> DEFINE q == req[r]
           c == RecoverCounts(q)
           w == WriteHeader(c, 500, "internal_error", q.in.version)
           h == [status |-> 500, code |-> "internal_error", version |-> q.in.version]
<1>1. q \in RequestStates /\ Local(q) /\ Anchored(q) /\ q.pc = "recover"
  BY OneRequest DEF Recover
<1>2. \/ q.panic = "abort" /\ Step(r, [q EXCEPT !.pc = "aborted"])
      \/ q.panic # "abort" /\ q.wrote /\ Step(r, Returned(c))
      \/ q.panic # "abort" /\ ~ q.wrote /\ Step(r, Returned(w))
  BY ZenonT(90) DEF Recover, RecoverCounts
<1>3. q.ready => live # NoBundle
  BY <1>1 DEF Anchored
<1>4. ASSUME NEW p \in RequestStates, Local(p), p.pc \in {"done", "aborted"},
             p.ready = q.ready, Step(r, p)
      PROVE  IInv'
  <2>1. Anchored(p)
    BY <1>3, <1>4 DEF Anchored, Serving, Negotiated
  <2> QED BY <1>4, <2>1, StepInv
<1>5. CASE q.panic = "abort" /\ Step(r, [q EXCEPT !.pc = "aborted"])
  <2> DEFINE p == [q EXCEPT !.pc = "aborted"]
  <2>1. "aborted" \in PCs /\ Step(r, p)
    BY <1>5 DEF PCs
  <2> HIDE DEF q
  <2>2. p \in RequestStates
    BY <1>1, <2>1 DEF RequestStates
  <2>3. /\ p.pc = "aborted" /\ p.panic = q.panic /\ p.wire = q.wire
        /\ p.counted = q.counted /\ p.outcome = q.outcome /\ p.requests = q.requests
        /\ p.wrote = q.wrote /\ p.header = q.header /\ p.in = q.in /\ p.ready = q.ready
        /\ p.bundle = q.bundle /\ p.version = q.version /\ p.reads = q.reads
        /\ p.unresolved = q.unresolved
    BY <1>1 DEF RequestStates
  <2> HIDE DEF p
  <2>4. Quiet(p) /\ Sorted(p) /\ Bound(p) /\ Raised(p)
    BY <1>1, <1>5, <2>3
       DEF Quiet, Sorted, Bound, Raised, InProxy, Serving, Negotiated, Local
  <2>5. Tracked(p)
    BY <1>1, <2>3 DEF Tracked, Local
  <2>6. Counted(p)
    BY <1>1, <2>3 DEF Counted, Failures, Local
  <2>7. CodesCounted(p)
    BY <1>1, <2>3, ZenonT(90) DEF CodesCounted, CodeCounted, Local
  <2>8. Echoed(p)
    BY <1>1, <2>3 DEF Echoed, Local
  <2>9. Labelled(p) /\ Served(p) /\ SwapSeen(p)
    BY <1>1, <2>3 DEF Labelled, IsLabel, Served, SwapSeen, Local
  <2>10. Local(p)
    BY <2>4, <2>5, <2>6, <2>7, <2>8, <2>9 DEF Local
  <2> QED BY <1>4, <2>1, <2>2, <2>3, <2>10
<1>6. CASE q.panic # "abort" /\ q.wrote /\ Step(r, Returned(c))
  <2> DEFINE p == Returned(c)
  <2>1. Len(q.wire) = 0 \/ Len(q.wire) = 1
    BY <1>1 DEF Local, Tracked
  <2>2. Step(r, p)
    BY <1>6
  <2> HIDE DEF c, q
  <2>3. /\ c \in RequestStates
        /\ c.in \in Inputs /\ (c.version # Unknown => c.version = c.in.version)
        /\ c.panic # "abort"
        /\ c.requests = IF c.in.preflight THEN 0 ELSE 1
        /\ Len(c.counted) = Failures(c) + (IF c.panic = "panic" THEN 1 ELSE 0)
        /\ CodesCounted(c) /\ Echoed(c) /\ Labelled(c) /\ Served(c)
        /\ c.unresolved => \E b \in c.reads : b # c.bundle
        /\ c.wire = q.wire /\ c.wrote = q.wrote /\ c.ready = q.ready
    BY <1>1, <1>6, RecoverCountsLocal DEF c
  <2>4. Finished(c, p)
    BY <2>1, <2>3, ReturnedFields
  <2> HIDE DEF p
  <2>5. p \in RequestStates /\ Local(p) /\ p.pc = "done" /\ p.ready = c.ready
    BY <1>6, <2>3, <2>4, FinishedLocal
  <2> QED BY <1>4, <2>2, <2>3, <2>5
<1>7. CASE q.panic # "abort" /\ ~ q.wrote /\ Step(r, Returned(w))
  <2> DEFINE p == Returned(w)
  <2>1. q.wire = <<>>
    <3>1. q.wire \in Seq(Responses) /\ Len(q.wire) = 0
      BY <1>1, <1>7 DEF Local, Tracked, RequestStates
    <3> QED BY <3>1, EmptySeq
  <2>2. Step(r, p)
    BY <1>7
  <2>3. q.in \in Inputs
    BY <1>1 DEF Local, Sorted
  <2>4. /\ "internal_error" \in WireCodes /\ q.in.version \in WireVersions
        /\ 500 \in Nat /\ 500 \in 100..999
    <3>1. "internal_error" \in WireCodes
      BY DEF WireCodes, Codes
    <3>2. q.in.version \in WireVersions
      BY <2>3, InputFacts DEF WireVersions
    <3> QED BY <3>1, <3>2
  <2> HIDE DEF c, q
  <2>5. /\ c \in RequestStates
        /\ c.in \in Inputs /\ (c.version # Unknown => c.version = c.in.version)
        /\ c.panic # "abort"
        /\ c.requests = IF c.in.preflight THEN 0 ELSE 1
        /\ Len(c.counted) = Failures(c) + (IF c.panic = "panic" THEN 1 ELSE 0)
        /\ CodeCounted(c, "internal_error") /\ Labelled(c) /\ Served(c)
        /\ c.unresolved => \E b \in c.reads : b # c.bundle
        /\ c.in = q.in /\ c.wire = q.wire /\ c.ready = q.ready
    BY <1>1, <1>7, RecoverCountsLocal DEF c
  <2>6. HeaderSent(c, w, h)
    BY <2>1, <2>4, <2>5, WriteHeaderFields
  <2>7. h.status = 500 /\ h.code = "internal_error" /\ h.version = q.in.version
    OBVIOUS
  <2> HIDE DEF w, h
  <2>8. /\ w \in RequestStates /\ w.wrote = TRUE /\ w.header = h
        /\ Len(w.wire) = 1 /\ DOMAIN w.wire = {1} /\ w.wire[1] = h
        /\ w.panic = c.panic /\ w.in = c.in /\ w.ready = c.ready /\ w.bundle = c.bundle
        /\ w.version = c.version /\ w.reads = c.reads /\ w.unresolved = c.unresolved
        /\ w.outcome = c.outcome /\ w.counted = c.counted /\ w.requests = c.requests
    BY <2>4, <2>6, <2>7 DEF HeaderSent
  <2>9. Finished(w, p)
    BY <2>8, ReturnedFields
  <2>10. Len(w.counted) = Failures(w) + (IF w.panic = "panic" THEN 1 ELSE 0)
    BY <2>5, <2>8 DEF Failures
  <2>11. CodesCounted(w)
    <3>1. CodeCounted(w, "internal_error")
      BY <2>5, <2>8 DEF CodeCounted
    <3> QED BY <2>7, <2>8, <3>1 DEF CodesCounted
  <2>12. Echoed(w)
    BY <2>5, <2>7, <2>8 DEF Echoed
  <2>13. Labelled(w) /\ Served(w)
    BY <2>5, <2>8 DEF Labelled, IsLabel, Served
  <2>14. /\ w.in \in Inputs /\ (w.version # Unknown => w.version = w.in.version)
         /\ w.panic # "abort" /\ w.requests = IF w.in.preflight THEN 0 ELSE 1
         /\ w.unresolved => \E b \in w.reads : b # w.bundle
    BY <2>5, <2>8
  <2> HIDE DEF p
  <2>15. p \in RequestStates /\ Local(p) /\ p.pc = "done" /\ p.ready = w.ready
    BY <2>8, <2>9, <2>10, <2>11, <2>12, <2>13, <2>14, FinishedLocal
  <2> QED BY <1>4, <2>2, <2>5, <2>8, <2>15
<1> QED BY <1>2, <1>5, <1>6, <1>7

-----------------------------------------------------------------------------
(* The server's own steps *)

\* A step that leaves the requests alone and never takes the bundle away.
LEMMA ServerStep ==
    ASSUME IInv, TypeOK', req' = req, live # NoBundle => live' # NoBundle
    PROVE  IInv'
<1>1. ASSUME NEW x \in Requests
      PROVE  Local(req[x])' /\ Anchored(req[x])'
  <2>1. Local(req[x]) /\ Anchored(req[x])
    BY OneRequest
  <2>2. req'[x] = req[x]
    OBVIOUS
  <2> QED BY <2>1, <2>2 DEF Anchored
<1> QED BY <1>1 DEF IInv

\* Edits, the first load, signals and reloads.
LEMMA ServerInv ==
    ASSUME IInv, OperatorWrites \/ Boot \/ Sighup \/ Reloader
    PROVE  IInv'
<1> USE DEF IInv
<1>1. CASE OperatorWrites
  <2>1. disk' \in [resolution : Resolutions, layers : LayerSets]
    BY <1>1 DEF OperatorWrites, TypeOK
  <2>2. edits' \in 0..MaxEdits
    <3>1. edits \in 0..MaxEdits /\ edits < MaxEdits /\ edits' = edits + 1
      BY <1>1 DEF OperatorWrites, TypeOK
    <3>2. MaxEdits \in Nat
      BY ProxyAssumption
    <3> QED BY <3>1, <3>2
  <2>3. TypeOK'
    BY <1>1, <2>1, <2>2 DEF OperatorWrites, TypeOK
  <2> QED BY <1>1, <2>3, ServerStep DEF OperatorWrites
<1>2. CASE Boot
  <2>1. live' \in Bundles
    BY <1>2 DEF Boot, TypeOK, Bundles
  <2>2. TypeOK' /\ live' # NoBundle
    BY <1>2, <2>1, BundleFacts DEF Boot, TypeOK, environment
  <2> QED BY <1>2, <2>2, ServerStep DEF Boot
<1>3. CASE Sighup
  <2>1. hup' \in 0..HupCap /\ signals' \in 0..MaxSignals
    <3>1. /\ signals \in 0..MaxSignals /\ signals < MaxSignals /\ signals' = signals + 1
          /\ hup \in 0..1 /\ hup' = IF hup < 1 THEN hup + 1 ELSE hup
      BY <1>3 DEF Sighup, TypeOK, HupCap
    <3>2. MaxSignals \in Nat
      BY ProxyAssumption
    <3> QED BY <3>1, <3>2 DEF HupCap
  <2>2. TypeOK'
    BY <1>3, <2>1 DEF Sighup, TypeOK
  <2> QED BY <1>3, <2>2, ServerStep DEF Sighup
<1>4. CASE LoadStart
  <2>1. hup' \in 0..HupCap
    BY <1>4 DEF LoadStart, TypeOK, HupCap
  <2>2. TypeOK'
    BY <1>4, <2>1 DEF LoadStart, TypeOK, environment
  <2> QED BY <1>4, <2>2, ServerStep DEF LoadStart
<1>5. CASE LoadFinish
  <2>1. /\ live' = live \/ live' \in Bundles
        /\ loader' \in [pc : {"idle", "loading"}, resolution : Resolutions]
    BY <1>5 DEF LoadFinish, TypeOK, Bundles
  <2>2. TypeOK' /\ (live # NoBundle => live' # NoBundle)
    BY <1>5, <2>1, BundleFacts DEF LoadFinish, TypeOK, environment
  <2> QED BY <1>5, <2>2, ServerStep DEF LoadFinish
<1> QED BY <1>1, <1>2, <1>3, <1>4, <1>5 DEF Reloader

-----------------------------------------------------------------------------
(* The invariant *)

\* A request goroutine that has not been started.
LEMMA FreshLocal == Fresh \in RequestStates /\ Local(Fresh) /\ ~ Fresh.ready
<1>1. /\ Fresh.pc = "idle" /\ Fresh.in = NoInput /\ Fresh.ready = FALSE
      /\ Fresh.bundle = NoBundle /\ Fresh.id = NoContract /\ Fresh.version = Unknown
      /\ Fresh.unresolved = FALSE /\ Fresh.reads = {} /\ Fresh.outcome = "ok"
      /\ Fresh.counted = <<>> /\ Fresh.requests = 0 /\ Fresh.panic = "none"
      /\ Fresh.wrote = FALSE /\ Fresh.header = NoHeader /\ Fresh.wire = <<>>
  BY DEF Fresh
<1>2. Fresh \in RequestStates
  <2>1. /\ "idle" \in PCs /\ "ok" \in Codes \cup {"ok"} /\ "none" \in SpanStates
        /\ "none" \in Raisable /\ 0 \in Nat
    BY DEF PCs, SpanStates, Raisable
  <2>2. NoHeader \in Responses
    BY DEF NoHeader, Responses, WireCodes, WireVersions
  <2>3. <<>> \in Seq(Labels) /\ <<>> \in Seq(Responses) /\ <<>> \in Seq(BoundContracts)
    OBVIOUS
  <2> QED BY <2>1, <2>2, <2>3 DEF Fresh, RequestStates
<1>3. DOMAIN Fresh.wire = {} /\ Len(Fresh.wire) = 0 /\ DOMAIN Fresh.counted = {}
  BY <1>1, EmptyFacts
<1>4. Quiet(Fresh) /\ Raised(Fresh) /\ Served(Fresh) /\ SwapSeen(Fresh) /\ Counted(Fresh)
  BY <1>1, <1>3 DEF Quiet, Raised, Served, SwapSeen, Counted
<1>5. Sorted(Fresh) /\ Bound(Fresh)
  BY <1>1 DEF Sorted, Bound, InProxy, Serving, Negotiated
<1>6. Tracked(Fresh) /\ Labelled(Fresh)
  BY <1>1, <1>3 DEF Tracked, Labelled, IsLabel
<1>7. CodesCounted(Fresh) /\ Echoed(Fresh)
  <2>1. Fresh.header.code = ""
    BY <1>1, NoHeaderCode
  <2> QED BY <1>1, <1>3, <2>1 DEF CodesCounted, CodeCounted, Echoed
<1> QED BY <1>1, <1>2, <1>4, <1>5, <1>6, <1>7 DEF Local

\* The invariant holds when the server is built.
LEMMA InitInv == Init => IInv
<1> SUFFICES ASSUME Init
             PROVE  IInv
  OBVIOUS
<1>1. \A r \in Requests : req[r] = Fresh
  BY DEF Init
<1>2. TypeOK
  <2>1. edits \in 0..MaxEdits /\ signals \in 0..MaxSignals /\ hup \in 0..HupCap
    <3>1. MaxEdits \in Nat /\ MaxSignals \in Nat
      BY ProxyAssumption
    <3> QED BY <3>1 DEF Init, HupCap
  <2>2. req \in [Requests -> RequestStates]
    BY FreshLocal DEF Init
  <2>3. loader \in [pc : {"idle", "loading"}, resolution : Resolutions]
    BY DEF Init
  <2> QED BY <2>1, <2>2, <2>3 DEF Init, TypeOK
<1>3. Fresh.pc \notin Serving
  BY DEF Fresh, Serving, Negotiated
<1> QED BY <1>1, <1>2, <1>3, FreshLocal DEF IInv, Anchored

\* Every step keeps the invariant.
LEMMA NextInv == IInv /\ [Next]_vars => IInv'
<1> SUFFICES ASSUME IInv, [Next]_vars
             PROVE  IInv'
  OBVIOUS
<1>1. ASSUME NEW r \in Requests, Request(r)
      PROVE  IInv'
  <2>1. CASE \E input \in Inputs : Arrive(r, input)
    BY <2>1, ArriveInv
  <2>2. CASE Preflight(r)
    BY <2>2, PreflightInv
  <2>3. CASE Handler(r)
    BY <2>3, GateInv, ReadBodyInv, NegotiateInv, DecodeInv, TransformRequestInv, DialInv,
       DispatchInv, TransformResponseInv, EncodeInv, DeferredInv, RecoverInv DEF Handler
  <2>4. CASE UpstreamAnswers(r) \/ UpstreamFails(r) \/ ReadUpstreamBody(r)
    BY <2>4, UpstreamAnswersInv, UpstreamFailsInv, ReadUpstreamBodyInv
  <2>5. CASE DeadlineExpires(r) \/ Panics(r)
    BY <2>5, DeadlineExpiresInv, PanicsInv
  <2> QED BY <1>1, <2>1, <2>2, <2>3, <2>4, <2>5 DEF Request
<1>2. CASE UNCHANGED vars
  <2>1. TypeOK'
    BY <1>2 DEF IInv, TypeOK, vars
  <2> QED BY <1>2, <2>1, ServerStep DEF vars
<1> QED BY <1>1, <1>2, ServerInv DEF Next

\* Every reachable state satisfies the inductive invariant.
LEMMA InvariantHolds == Spec => []IInv
BY InitInv, NextInv, PTL DEF Spec

-----------------------------------------------------------------------------
(* What the client is answered                                             *)
(*                                                                         *)
(* A second invariant, on top of IInv: what a response says, and which     *)
(* contracts the message went through.                                     *)

\* From the request ops on, a request remembers the chain it went out through.
Upward == {"dial", "upstream", "upbody", "dispatch", "respops", "encode"}

\* A chain walked from its terminal back.
Back(q) == [i \in 1..Len(Links(q)) |-> Links(q)[Len(Links(q)) + 1 - i]]

\* The contract declares the upstream's status and net/http refuses to write it.
Refused(q) == q.status \in DOMAIN Contract(q).errorMessages /\ q.status \notin 100..999

\* A status line that may be on the wire.
Genuine(q, h) ==
    ~ IsCapabilityCeiling(h.status) /\ (h.code = "" => MayAnswer(q, h.status))

\* What is on the wire, and what net/http puts there when WriteHeader panicked.
Truthful(q) ==
    ~ q.in.preflight =>
        /\ \A i \in DOMAIN q.wire : Genuine(q, q.wire[i])
        /\ q.wrote /\ q.wire = <<>> /\ q.header.code = "" => Refused(q)

Mirrored(q) ==
    /\ q.pc \in Upward => q.up = Links(q)
    /\ q.pc = "encode" => q.down = Back(q)

Content(q) == Truthful(q) /\ Mirrored(q)

CInv == \A r \in Requests : Content(req[r])

\* The fields Content reads of a request that is leaving the handler.
SameAnswer(q, p) ==
    /\ p.in = q.in /\ p.bundle = q.bundle /\ p.id = q.id /\ p.status = q.status
    /\ p.wire = q.wire /\ p.wrote = q.wrote /\ p.header = q.header

\* A step of one request keeps the invariant when the request's new state does.
LEMMA ContentStep ==
    ASSUME IInv, CInv, NEW r \in Requests, NEW p, Content(p), Step(r, p)
    PROVE  CInv'
<1>1. req' = [req EXCEPT ![r] = p] /\ req \in [Requests -> RequestStates]
  BY DEF Step, IInv, TypeOK
<1>2. ASSUME NEW x \in Requests
      PROVE  Content(req'[x])
  BY <1>1 DEF CInv
<1>3. \A x \in Requests : Content(req[x])'
  BY <1>2
<1> QED BY <1>3 DEF CInv

\* A request that has written nothing says nothing.
LEMMA SilentTruthful ==
    ASSUME NEW q, q.wire = <<>>, ~ q.wrote
    PROVE  Truthful(q)
<1>1. DOMAIN q.wire = {}
  BY EmptyFacts
<1> QED BY <1>1 DEF Truthful

\* Inside the handler nothing has been written.
LEMMA InsideTruthful ==
    ASSUME NEW q, Local(q), q.pc \in InProxy \cup {"idle", "preflight"}
    PROVE  Truthful(q) /\ q.wire = <<>> /\ ~ q.wrote
<1>1. q.wire = <<>> /\ ~ q.wrote
  BY DEF Local, Quiet
<1> QED BY <1>1, SilentTruthful

\* What is on the wire does not depend on the rest of the request.
LEMMA SameTruthful ==
    ASSUME NEW q, NEW p, SameAnswer(q, p), Truthful(q)
    PROVE  Truthful(p)
<1>1. Contract(p) = Contract(q)
  BY DEF SameAnswer, Contract
<1>2. \A s : MayAnswer(q, s) => MayAnswer(p, s)
  BY <1>1, ZenonT(60) DEF SameAnswer, MayAnswer
<1>3. \A h : Genuine(q, h) => Genuine(p, h)
  BY <1>2, Zenon DEF Genuine
<1>4. Refused(q) => Refused(p)
  BY <1>1, ZenonT(60) DEF SameAnswer, Refused
<1> QED BY <1>3, <1>4 DEF SameAnswer, Truthful

\* A status that may be sent.
Sendable(status) == status \in Nat /\ ~ IsCapabilityCeiling(status)

\* The statuses fail is given, and net/http's own.
LEMMA FailStatuses ==
    /\ Sendable(400) /\ Sendable(404) /\ Sendable(413) /\ Sendable(415)
    /\ Sendable(422) /\ Sendable(500) /\ Sendable(502) /\ Sendable(503)
    /\ Sendable(504) /\ Sendable(200)
BY DEF Sendable, IsCapabilityCeiling

\* An error code is not the empty string.
LEMMA CodeIsSet ==
    ASSUME NEW code \in Codes
    PROVE  code # ""
BY DEF Codes

\* A failure says so, and is no capability ceiling.
LEMMA FailContent ==
    ASSUME NEW q, CanFail(q), NEW code, NEW status \in Nat, NEW tout,
           MayFail(q, code, tout), ~ IsCapabilityCeiling(status)
    PROVE  Content(Fail(q, code, status, tout))
<1> DEFINE label == [code |-> code, version |-> q.version, tout |-> tout]
           n == Append(q.counted, label)
           f == [q EXCEPT !.outcome = code, !.counted = n]
           h == [status |-> status, code |-> code, version |-> q.in.version]
           p == Fail(q, code, status, tout)
<1>1. /\ q \in RequestStates /\ code \in Codes /\ tout \in TransformOutcomes
      /\ q.wire = <<>> /\ q.counted = <<>> /\ q.in \in Inputs
  BY DEF CanFail, MayFail, Local, Quiet, Sorted, InProxy
<1>2. /\ q.in.version \in Versions \cup {Unknown} /\ q.version \in Versions \cup {Unknown}
      /\ q.version # Unknown => q.version = q.in.version
      /\ q.counted \in Seq(Labels)
  BY <1>1, InputFacts DEF CanFail, Local, Bound, RequestStates
<1>3. label \in Labels /\ ResponseVersion(q) = q.in.version
  BY <1>1, <1>2 DEF Labels, ResponseVersion
<1>4. p = WriteHeader(f, status, code, q.in.version)
  BY <1>3 DEF Fail
<1> HIDE DEF label
<1>5. n \in Seq(Labels)
  BY <1>1, <1>2, <1>3, AppendToEmpty
<1> HIDE DEF n
<1>6. f \in RequestStates /\ f.wire = <<>>
  BY <1>1, <1>5, ZenonT(90) DEF RequestStates
<1> HIDE DEF f, p
<1>7. code \in WireCodes /\ q.in.version \in WireVersions
  BY <1>1, <1>2 DEF WireCodes, WireVersions
<1>8. HeaderSent(f, p, h)
  BY <1>4, <1>6, <1>7, WriteHeaderFields
<1>9. code # "" /\ h.code = code /\ h.status = status
  BY <1>1, CodeIsSet
<1> HIDE DEF h
<1>10. Genuine(p, h) /\ h.code # ""
  BY <1>9 DEF Genuine
<1>11. p.header = h /\ p.pc = "return" /\ \A i \in DOMAIN p.wire : p.wire[i] = h
  BY <1>8 DEF HeaderSent
<1>12. Truthful(p)
  BY <1>10, <1>11, Zenon DEF Truthful
<1>13. Mirrored(p)
  BY <1>11 DEF Mirrored, Upward
<1> QED BY <1>12, <1>13 DEF Content, p

\* net/http writes the statuses of a success.
LEMMA AnsweredStatuses ==
    ASSUME NEW s \in Nat, s \notin 100..999
    PROVE  ~ IsSuccess(s) /\ s \notin {204, 205}
BY DEF IsSuccess

\* The headers of a typed answer.
AnswerHeader(q, status) == [status |-> status, code |-> "", version |-> q.version]

\* A typed answer is the first call of WriteHeader.
LEMMA AnswerSent ==
    ASSUME NEW q \in RequestStates, Local(q), q.pc \in Negotiated, NEW status \in Nat
    PROVE  HeaderSent(q, Answer(q, status), AnswerHeader(q, status))
<1>1. q.wire = <<>> /\ q.version \in Versions \cup {Unknown}
  BY DEF Local, Quiet, InProxy, Negotiated, RequestStates
<1>2. "" \in WireCodes /\ q.version \in WireVersions
  BY <1>1 DEF WireCodes, WireVersions
<1> QED BY <1>1, <1>2, WriteHeaderFields DEF Answer, AnswerHeader

\* A typed answer has a status the contract answers; one net/http refuses to
\* write is a declared one.
LEMMA AnswerContent ==
    ASSUME NEW q \in RequestStates, Local(q), q.pc \in Negotiated,
           q.status \in Nat, ~ IsCapabilityCeiling(q.status),
           Answerable(q) \/ q.status \in {204, 205}
    PROVE  Content(Answer(q, q.status))
<1> DEFINE status == q.status
           h == AnswerHeader(q, status)
           p == Answer(q, status)
<1>3. HeaderSent(q, p, h)
  BY AnswerSent
<1> HIDE DEF status
<1>4. h.status = status /\ h.code = ""
  BY DEF AnswerHeader
<1> HIDE DEF h, p
<1>5. /\ p.header = h /\ p.pc = "return" /\ p.status = q.status
      /\ p.bundle = q.bundle /\ p.id = q.id
      /\ \A i \in DOMAIN p.wire : p.wire[i] = h
  BY <1>3 DEF HeaderSent
<1>6. Contract(p) = Contract(q)
  BY <1>5 DEF Contract
<1>7. /\ IsSuccess(status) \/ status \in {204, 205} \/ status \in DOMAIN Contract(q).errorMessages
      /\ status = q.status /\ ~ IsCapabilityCeiling(status) /\ status \in Nat
  BY DEF Answerable, status
<1>8. MayAnswer(p, status)
  BY <1>5, <1>6, <1>7, Zenon DEF MayAnswer
<1>9. Genuine(p, h)
  BY <1>4, <1>7, <1>8 DEF Genuine
<1>10. p.wire = <<>> => Refused(p)
  <2> SUFFICES ASSUME p.wire = <<>>
               PROVE  Refused(p)
    OBVIOUS
  <2>1. Len(p.wire) # 1
    BY NonEmptyFacts
  <2>2. status \notin 100..999
    BY <1>3, <1>4, <2>1, Zenon DEF HeaderSent
  <2>3. ~ IsSuccess(status) /\ status \notin {204, 205}
    BY <1>7, <2>2, AnsweredStatuses
  <2> QED BY <1>5, <1>6, <1>7, <2>2, <2>3, ZenonT(60) DEF Refused
<1>11. Truthful(p)
  BY <1>5, <1>9, <1>10, Zenon DEF Truthful
<1>12. Mirrored(p)
  BY <1>5 DEF Mirrored, Upward
<1> QED BY <1>11, <1>12 DEF Content, p, status

\* A request whose chain is not yet, or no longer, of interest.
LEMMA NotUpward ==
    ASSUME NEW p, p.pc \notin Upward
    PROVE  Mirrored(p)
BY DEF Mirrored, Upward

\* A request's new state is one of the invariant's.
LEMMA StepState ==
    ASSUME IInv, IInv', NEW r \in Requests, NEW p, Step(r, p)
    PROVE  p \in RequestStates /\ Local(p)
<1>1. req' = [req EXCEPT ![r] = p] /\ req \in [Requests -> RequestStates]
  BY DEF Step, IInv, TypeOK
<1>2. req'[r] = p
  BY <1>1
<1> QED BY <1>2 DEF IInv, TypeOK

\* A step of the handler that writes nothing.
LEMMA InsideStep ==
    ASSUME IInv, IInv', CInv, NEW r \in Requests, NEW p \in RequestStates,
           p.pc \in InProxy \cup {"preflight"}, Mirrored(p), Step(r, p)
    PROVE  CInv'
<1>1. Truthful(p)
  BY StepState, InsideTruthful
<1> QED BY <1>1, ContentStep DEF Content

\* A step that leaves the chain and the contract alone.
LEMMA KeepsMirrored ==
    ASSUME NEW q, Mirrored(q), NEW p,
           p.bundle = q.bundle, p.id = q.id, p.up = q.up,
           p.pc \in Upward => q.pc \in Upward, p.pc # "encode"
    PROVE  Mirrored(p)
<1>1. Links(p) = Links(q)
  BY DEF Links
<1> QED BY <1>1 DEF Mirrored

\* A step that only moves on.
LEMMA ContentMoveTo ==
    ASSUME IInv, IInv', CInv, NEW r \in Requests, NEW to \in InProxy, to # "encode",
           to \in Upward => req[r].pc \in Upward,
           Step(r, [req[r] EXCEPT !.pc = to])
    PROVE  CInv'
<1> DEFINE q == req[r]
           p == [q EXCEPT !.pc = to]
<1>1. q \in RequestStates /\ Mirrored(q) /\ to \in PCs
  BY OneRequest DEF CInv, Content, PCs
<1>2. Step(r, p)
  OBVIOUS
<1> HIDE DEF q
<1>3. p \in RequestStates
  BY <1>1 DEF RequestStates
<1>4. p.pc = to /\ p.bundle = q.bundle /\ p.id = q.id /\ p.up = q.up
  BY <1>1 DEF RequestStates
<1> HIDE DEF p
<1>5. Mirrored(p)
  BY <1>1, <1>4, KeepsMirrored DEF q
<1> QED BY <1>2, <1>3, <1>4, <1>5, InsideStep

\* A failure.
LEMMA ContentFail ==
    ASSUME IInv, CInv, NEW r \in Requests, NEW q, CanFail(q), NEW code, NEW status,
           Sendable(status), NEW tout, MayFail(q, code, tout),
           Step(r, Fail(q, code, status, tout))
    PROVE  CInv'
<1> DEFINE p == Fail(q, code, status, tout)
<1>1. Content(p)
  BY FailContent DEF Sendable
<1>2. Step(r, p)
  OBVIOUS
<1> HIDE DEF p
<1> QED BY <1>1, <1>2, ContentStep

\* A request arrives.
LEMMA ArriveContent ==
    ASSUME IInv, IInv', CInv, NEW r \in Requests, NEW input \in Inputs, Arrive(r, input)
    PROVE  CInv'
<1> DEFINE q == req[r]
           to == IF input.preflight THEN "preflight" ELSE "gate"
           sp == IF input.preflight THEN "none" ELSE "open"
           up == live # NoBundle
           p == [q EXCEPT !.in = input, !.ready = up, !.pc = to, !.span = sp]
<1>1. q \in RequestStates /\ Step(r, p)
  BY OneRequest DEF Arrive
<1>2. to \in PCs /\ sp \in SpanStates /\ up \in BOOLEAN /\ to \in {"preflight", "gate"}
  BY DEF PCs, InProxy, SpanStates
<1> HIDE DEF to, sp, up, q
<1>3. p \in RequestStates /\ p.pc = to
  BY <1>1, <1>2, ZenonT(60) DEF RequestStates
<1> HIDE DEF p
<1>4. Mirrored(p) /\ p.pc \in InProxy \cup {"preflight"}
  BY <1>2, <1>3, NotUpward DEF Upward, InProxy
<1> QED BY <1>1, <1>3, <1>4, InsideStep

\* A preflight is nobody's contract request.
LEMMA PreflightContent ==
    ASSUME IInv, CInv, NEW r \in Requests, Preflight(r)
    PROVE  CInv'
<1> DEFINE q == req[r]
<1>1. q \in RequestStates /\ Local(q) /\ q.pc = "preflight"
  BY OneRequest DEF Preflight
<1>2. PICK s \in Nat : Step(r, WriteHeader(q, s, "", ""))
  <2>1. \A s \in Statuses : s \in Nat
    BY StatusFacts
  <2>2. 502 \in Nat
    OBVIOUS
  <2> QED BY <2>1, <2>2, ZenonT(90) DEF Preflight
<1> DEFINE p == WriteHeader(q, s, "", "")
<1>3. q.wire = <<>> /\ q.in.preflight
  BY <1>1 DEF Local, Quiet, Sorted
<1>4. "" \in WireCodes /\ "" \in WireVersions
  BY DEF WireCodes, WireVersions
<1> DEFINE h == [status |-> s, code |-> "", version |-> ""]
<1> HIDE DEF q
<1>5. HeaderSent(q, p, h)
  BY <1>1, <1>3, <1>4, WriteHeaderFields
<1> HIDE DEF p, h
<1>6. p.in = q.in /\ p.pc = "return"
  BY <1>5 DEF HeaderSent
<1>7. Truthful(p) /\ Mirrored(p)
  BY <1>3, <1>6, NotUpward DEF Truthful, Upward
<1> QED BY <1>2, <1>7, ContentStep DEF Content, p

\* The gate and the envelope checks.
LEMMA GateContent ==
    ASSUME IInv, IInv', CInv, NEW r \in Requests, Gate(r)
    PROVE  CInv'
<1> DEFINE q == GateReads(req[r])
           p == [q EXCEPT !.pc = "body"]
<1>1. CanFail(q)
  <2>1. req[r].pc = "gate"
    BY OneRequest DEF Gate, RequestStates
  <2> QED BY <2>1, GateLocal
<1>2. \/ live = NoBundle /\ Step(r, Fail(q, "unavailable", 503, ""))
      \/ Step(r, Fail(q, "unknown_route", 404, ""))
      \/ Step(r, Fail(q, "unsupported_media_type", 415, ""))
      \/ Step(r, Fail(q, "request_body_too_large", 413, ""))
      \/ Step(r, p)
  BY ZenonT(90) DEF Gate, GateReads
<1> HIDE DEF q
<1>3. Sendable(404) /\ Sendable(413) /\ Sendable(415) /\ Sendable(503)
  BY FailStatuses
<1>4. /\ MayFail(q, "unknown_route", "") /\ MayFail(q, "unsupported_media_type", "")
      /\ MayFail(q, "request_body_too_large", "")
  BY FailureFacts
<1>5. CASE live = NoBundle /\ Step(r, Fail(q, "unavailable", 503, ""))
  <2>1. MayFail(q, "unavailable", "")
    BY <1>1, <1>5 DEF CanFail, MayFail, Codes, TransformOutcomes
  <2> QED BY <1>1, <1>3, <1>5, <2>1, ContentFail, ZenonT(90)
<1>6. CASE Step(r, Fail(q, "unknown_route", 404, ""))
  BY <1>1, <1>3, <1>4, <1>6, ContentFail, ZenonT(90)
<1>7. CASE Step(r, Fail(q, "unsupported_media_type", 415, ""))
  BY <1>1, <1>3, <1>4, <1>7, ContentFail, ZenonT(90)
<1>8. CASE Step(r, Fail(q, "request_body_too_large", 413, ""))
  BY <1>1, <1>3, <1>4, <1>8, ContentFail, ZenonT(90)
<1>9. CASE Step(r, p)
  <2>1. q \in RequestStates /\ "body" \in PCs /\ "body" \in InProxy /\ "body" \notin Upward
    BY <1>1 DEF CanFail, PCs, InProxy, Upward
  <2>2. p \in RequestStates /\ p.pc = "body"
    BY <2>1, ZenonT(90) DEF RequestStates
  <2> HIDE DEF p
  <2> QED BY <1>9, <2>1, <2>2, NotUpward, InsideStep
<1> QED BY <1>2, <1>5, <1>6, <1>7, <1>8, <1>9, ZenonT(60)

\* The body read.
LEMMA ReadBodyContent ==
    ASSUME IInv, IInv', CInv, NEW r \in Requests, ReadBody(r)
    PROVE  CInv'
<1>1. /\ req[r].pc \in Serving /\ "negotiate" \in InProxy /\ "negotiate" # "encode"
      /\ "negotiate" \notin Upward /\ Sendable(400) /\ Sendable(413)
  <2>1. req[r].pc = "body"
    BY DEF ReadBody
  <2> QED BY <2>1, FailStatuses DEF Serving, InProxy, Upward
<1>2. /\ CanFail(req[r])
      /\ MayFail(req[r], "request_body_too_large", "") /\ MayFail(req[r], "decode_failed", "")
  BY <1>1, ServingFacts, FailureFacts
<1>3. \/ Step(r, Fail(req[r], "request_body_too_large", 413, ""))
      \/ Step(r, Fail(req[r], "decode_failed", 400, ""))
      \/ Step(r, [req[r] EXCEPT !.pc = "negotiate"])
  BY Zenon DEF ReadBody
<1>4. CASE Step(r, Fail(req[r], "request_body_too_large", 413, ""))
  BY <1>1, <1>2, <1>4, ContentFail, ZenonT(90)
<1>5. CASE Step(r, Fail(req[r], "decode_failed", 400, ""))
  BY <1>1, <1>2, <1>5, ContentFail, ZenonT(90)
<1>6. CASE Step(r, [req[r] EXCEPT !.pc = "negotiate"])
  BY <1>1, <1>6, ContentMoveTo, Zenon
<1> QED BY <1>3, <1>4, <1>5, <1>6

\* negotiate.Resolve.
LEMMA NegotiateContent ==
    ASSUME IInv, IInv', CInv, NEW r \in Requests, Negotiate(r)
    PROVE  CInv'
<1> DEFINE q == req[r]
           id == Lookup(q.bundle, q.in.route, q.in.version, q.in.sel)
           p == [q EXCEPT !.id = id, !.version = id.version, !.pc = "decode"]
<1>1. req[r].pc \in Serving /\ Sendable(400)
  <2>1. req[r].pc = "negotiate"
    BY DEF Negotiate
  <2> QED BY <2>1, FailStatuses DEF Serving
<1>2. /\ CanFail(req[r]) /\ q \in RequestStates
      /\ MayFail(req[r], "unsupported_contract_version", "")
  BY <1>1, ServingFacts, FailureFacts
<1>3. \/ Step(r, Fail(q, "unsupported_contract_version", 400, ""))
      \/ Step(r, p)
  BY Zenon DEF Negotiate
<1>4. CASE Step(r, Fail(q, "unsupported_contract_version", 400, ""))
  BY <1>1, <1>2, <1>4, ContentFail, ZenonT(90)
<1>5. CASE Step(r, p)
  <2> HIDE DEF q, id
  <2>1. p.pc = "decode" /\ "decode" \in InProxy /\ "decode" \notin Upward
    BY <1>2 DEF RequestStates, InProxy, Upward
  <2>2. p \in RequestStates
    <3> HIDE DEF p
    <3> QED BY <1>5, StepState
  <2> HIDE DEF p
  <2> QED BY <1>5, <2>1, <2>2, NotUpward, InsideStep
<1> QED BY <1>3, <1>4, <1>5

\* DecodeRequest.
LEMMA DecodeContent ==
    ASSUME IInv, IInv', CInv, NEW r \in Requests, Decode(r)
    PROVE  CInv'
<1> DEFINE name == Contract(req[r]).requestMessage
           q == Message(req[r], name)
           bl == live.messages[name] = Empty
           p == [q EXCEPT !.bodyless = bl, !.pc = "reqops"]
<1>1. req[r].pc \in Negotiated /\ "reqops" \in InProxy /\ "reqops" \notin Upward
  BY DEF Decode, Negotiated, InProxy, Upward
<1>2. /\ CanFail(q) /\ MayFail(q, "decode_failed", "") /\ Sendable(400)
  BY <1>1, OwnMessages, MessageLocal, FailureFacts, FailStatuses
<1>3. \/ Step(r, p)
      \/ Step(r, Fail(q, "decode_failed", 400, ""))
  BY Zenon DEF Decode
<1> HIDE DEF q, bl
<1>4. CASE Step(r, Fail(q, "decode_failed", 400, ""))
  BY <1>2, <1>4, ContentFail, ZenonT(90)
<1>5. CASE Step(r, p)
  <2>1. p.pc = "reqops"
    BY <1>2 DEF CanFail, RequestStates
  <2> HIDE DEF p
  <2>2. p \in RequestStates
    BY <1>5, StepState
  <2> QED BY <1>1, <1>5, <2>1, <2>2, NotUpward, InsideStep
<1> QED BY <1>3, <1>4, <1>5

\* The request ops: the way out is remembered.
LEMMA TransformRequestContent ==
    ASSUME IInv, IInv', CInv, NEW r \in Requests, TransformRequest(r)
    PROVE  CInv'
<1> DEFINE q == req[r]
           l == Links(q)
           p == [q EXCEPT !.up = l, !.pc = "dial"]
<1>1. req[r].pc \in Serving /\ "dial" \in InProxy /\ "dial" # "encode"
  BY DEF TransformRequest, Serving, Negotiated, InProxy
<1>2. /\ CanFail(q) /\ q \in RequestStates
      /\ MayFail(q, "transform_failed", "request") /\ Sendable(422)
  BY <1>1, ServingFacts, FailureFacts, FailStatuses
<1>3. Step(r, p) \/ Step(r, Fail(q, "transform_failed", 422, "request"))
  BY Zenon DEF TransformRequest
<1>4. CASE Step(r, Fail(q, "transform_failed", 422, "request"))
  BY <1>2, <1>4, ContentFail, ZenonT(90)
<1>5. CASE Step(r, p)
  <2> HIDE DEF q, l
  <2>1. p.pc = "dial" /\ p.up = l /\ p.bundle = q.bundle /\ p.id = q.id
    BY <1>2 DEF RequestStates
  <2> HIDE DEF p
  <2>2. p \in RequestStates
    BY <1>5, StepState
  <2>3. Links(p) = l
    BY <2>1 DEF Links, l
  <2>4. Mirrored(p)
    BY <1>1, <2>1, <2>3 DEF Mirrored
  <2> QED BY <1>1, <1>5, <2>1, <2>2, <2>4, InsideStep
<1> QED BY <1>3, <1>4, <1>5

\* The upstream request is built.
LEMMA DialContent ==
    ASSUME IInv, IInv', CInv, NEW r \in Requests, Dial(r)
    PROVE  CInv'
<1>1. req[r].pc = "dial"
  BY DEF Dial
<1>2. /\ req[r].pc \in Serving /\ req[r].pc \in Upward /\ "upstream" \in InProxy
      /\ "upstream" # "encode"
  BY <1>1 DEF Serving, Negotiated, InProxy, Upward
<1>3. CanFail(req[r]) /\ MayFail(req[r], "upstream_error", "") /\ Sendable(502)
  BY <1>2, ServingFacts, FailureFacts, FailStatuses, ZenonT(60)
<1>4. \/ Step(r, [req[r] EXCEPT !.pc = "upstream"])
      \/ Step(r, Fail(req[r], "upstream_error", 502, ""))
  BY Zenon DEF Dial
<1>5. CASE Step(r, [req[r] EXCEPT !.pc = "upstream"])
  BY <1>2, <1>5, ContentMoveTo, Zenon
<1>6. CASE Step(r, Fail(req[r], "upstream_error", 502, ""))
  BY <1>3, <1>6, ContentFail, ZenonT(90)
<1> QED BY <1>4, <1>5, <1>6

\* The request's deadline passes.
LEMMA DeadlineExpiresContent ==
    ASSUME IInv, IInv', CInv, NEW r \in Requests, DeadlineExpires(r)
    PROVE  CInv'
<1> DEFINE q == req[r]
           p == [q EXCEPT !.expired = TRUE]
<1>1. q \in RequestStates /\ Mirrored(q) /\ q.pc \in {"upstream", "upbody"} /\ Step(r, p)
  BY OneRequest DEF DeadlineExpires, CInv, Content
<1>2. q.pc \in InProxy /\ q.pc # "encode"
  BY <1>1 DEF InProxy
<1> HIDE DEF q
<1>3. p.pc = q.pc /\ p.bundle = q.bundle /\ p.id = q.id /\ p.up = q.up
  BY <1>1 DEF RequestStates
<1> HIDE DEF p
<1>4. p \in RequestStates
  BY <1>1, StepState
<1>5. Mirrored(p)
  BY <1>1, <1>2, <1>3, KeepsMirrored
<1> QED BY <1>1, <1>2, <1>3, <1>4, <1>5, InsideStep

\* The upstream's response head arrives.
LEMMA UpstreamAnswersContent ==
    ASSUME IInv, IInv', CInv, NEW r \in Requests, UpstreamAnswers(r)
    PROVE  CInv'
<1> DEFINE q == req[r]
<1>1. PICK s \in Statuses : Step(r, [q EXCEPT !.status = s, !.pc = "upbody"])
  BY DEF UpstreamAnswers
<1> DEFINE p == [q EXCEPT !.status = s, !.pc = "upbody"]
<1>2. q \in RequestStates /\ Mirrored(q) /\ q.pc = "upstream" /\ Step(r, p)
  BY <1>1, OneRequest DEF UpstreamAnswers, CInv, Content
<1>3. q.pc \in Upward /\ "upbody" \in InProxy /\ "upbody" # "encode"
  BY <1>2 DEF InProxy, Upward
<1> HIDE DEF q
<1>4. p.pc = "upbody" /\ p.bundle = q.bundle /\ p.id = q.id /\ p.up = q.up
  BY <1>2 DEF RequestStates
<1> HIDE DEF p
<1>5. p \in RequestStates
  BY <1>2, StepState
<1>6. Mirrored(p)
  BY <1>2, <1>3, <1>4, KeepsMirrored
<1> QED BY <1>2, <1>3, <1>4, <1>5, <1>6, InsideStep

\* client.Do fails.
LEMMA UpstreamFailsContent ==
    ASSUME IInv, CInv, NEW r \in Requests, UpstreamFails(r)
    PROVE  CInv'
<1> DEFINE l == [req[r] EXCEPT !.late = TRUE]
<1>1. req[r].pc \in Serving
  BY DEF UpstreamFails, Serving, Negotiated
<1>2. CanFail(req[r]) /\ CanFail(l) /\ Sendable(502) /\ Sendable(504)
  BY <1>1, ServingFacts, LateLocal, FailStatuses
<1>3. MayFail(l, "upstream_timeout", "") /\ MayFail(req[r], "upstream_error", "")
  BY FailureFacts
<1>4. \/ Step(r, Fail(l, "upstream_timeout", 504, ""))
      \/ Step(r, Fail(req[r], "upstream_error", 502, ""))
  BY Zenon DEF UpstreamFails
<1> HIDE DEF l
<1>5. CASE Step(r, Fail(l, "upstream_timeout", 504, ""))
  BY <1>2, <1>3, <1>5, ContentFail, ZenonT(90)
<1>6. CASE Step(r, Fail(req[r], "upstream_error", 502, ""))
  BY <1>2, <1>3, <1>6, ContentFail, ZenonT(90)
<1> QED BY <1>4, <1>5, <1>6

\* The upstream's body is read, or is not.
LEMMA ReadUpstreamBodyContent ==
    ASSUME IInv, IInv', CInv, NEW r \in Requests, ReadUpstreamBody(r)
    PROVE  CInv'
<1> DEFINE v == req[r].expired
           l == [req[r] EXCEPT !.late = v]
<1>1. req[r].pc = "upbody"
  BY DEF ReadUpstreamBody
<1>2. /\ req[r].pc \in Serving /\ req[r].pc \in Upward /\ "dispatch" \in InProxy
      /\ "dispatch" # "encode"
  BY <1>1 DEF Serving, Negotiated, InProxy, Upward
<1>3. v \in BOOLEAN
  BY OneRequest DEF RequestStates
<1>4. \/ Step(r, [req[r] EXCEPT !.pc = "dispatch"])
      \/ Step(r, Fail(l, "upstream_error", 502, ""))
  BY Zenon DEF ReadUpstreamBody
<1> HIDE DEF v
<1>5. CanFail(l) /\ MayFail(l, "upstream_error", "") /\ Sendable(502)
  BY <1>2, <1>3, LateLocal, FailureFacts, FailStatuses, ZenonT(60)
<1> HIDE DEF l
<1>6. CASE Step(r, [req[r] EXCEPT !.pc = "dispatch"])
  BY <1>2, <1>6, ContentMoveTo, Zenon
<1>7. CASE Step(r, Fail(l, "upstream_error", 502, ""))
  BY <1>5, <1>7, ContentFail, ZenonT(90)
<1> QED BY <1>4, <1>6, <1>7

\* A typed answer.
LEMMA ContentAnswer ==
    ASSUME IInv, CInv, NEW r \in Requests, NEW q \in RequestStates, Local(q),
           q.pc \in Negotiated, Sendable(q.status),
           Answerable(q) \/ q.status \in {204, 205}, Step(r, Answer(q, q.status))
    PROVE  CInv'
<1> DEFINE p == Answer(q, q.status)
<1>1. Content(p)
  BY AnswerContent DEF Sendable
<1>2. Step(r, p)
  OBVIOUS
<1> HIDE DEF p
<1> QED BY <1>1, <1>2, ContentStep

\* No contract answers a capability ceiling.
LEMMA AnswerableSendable ==
    ASSUME IInv, NEW r \in Requests, req[r].pc \in Negotiated, Answerable(req[r])
    PROVE  Sendable(req[r].status)
<1> DEFINE q == req[r]
           s == q.status
<1>1. q \in RequestStates /\ q.bundle \in Bundles /\ q.id \in q.bundle.ids
  BY ServingFacts DEF Serving
<1>2. s \in Nat
  BY <1>1, StatusFacts DEF RequestStates
<1>3. SoundContracts(q.bundle)
  BY <1>1, BundleFacts DEF WellFormed
<1>4. s \in DOMAIN Contract(q).errorMessages => ~ IsCapabilityCeiling(s)
  BY <1>1, <1>3, Zenon DEF SoundContracts, Contract
<1>5. IsSuccess(s) \/ s \in DOMAIN Contract(q).errorMessages
  BY DEF Answerable
<1> HIDE DEF s
<1>6. IsSuccess(s) => ~ IsCapabilityCeiling(s)
  BY <1>2 DEF IsSuccess, IsCapabilityCeiling
<1> QED BY <1>2, <1>4, <1>5, <1>6, Zenon DEF Sendable, s

\* The status dispatch.
LEMMA DispatchContent ==
    ASSUME IInv, IInv', CInv, NEW r \in Requests, Dispatch(r)
    PROVE  CInv'
<1> DEFINE q == req[r]
           s == q.status
<1>1. q.pc = "dispatch"
  BY DEF Dispatch
<1>2. /\ q.pc \in Negotiated /\ q.pc \in Serving /\ q.pc \in Upward
      /\ "respops" \in InProxy /\ "respops" # "encode"
  BY <1>1 DEF Negotiated, Serving, Upward, InProxy
<1>3. q \in RequestStates /\ Local(q) /\ CanFail(q)
  BY <1>2, ServingFacts, OneRequest
<1>4. s \in Nat
  BY <1>3, StatusFacts DEF RequestStates
<1>5. /\ MayFail(q, "upstream_error", "") /\ MayFail(q, "upstream_status", "")
      /\ Sendable(502)
  BY FailureFacts, FailStatuses, ZenonT(60)
<1>6. \/ Step(r, [q EXCEPT !.pc = "respops"])
      \/ s \in {204, 205} /\ Step(r, Answer(q, s))
      \/ Step(r, Fail(q, "upstream_error", 502, ""))
      \/ ~ IsCapabilityCeiling(s) /\ Step(r, Fail(q, "upstream_status", s, ""))
  BY ZenonT(60) DEF Dispatch
<1>7. CASE Step(r, [q EXCEPT !.pc = "respops"])
  BY <1>2, <1>7, ContentMoveTo, Zenon
<1>8. CASE s \in {204, 205} /\ Step(r, Answer(q, s))
  <2>1. Sendable(s)
    <3> HIDE DEF s
    <3> QED BY <1>4, <1>8 DEF Sendable, IsCapabilityCeiling
  <2>2. Answerable(q) \/ q.status \in {204, 205}
    BY <1>8
  <2>3. Step(r, Answer(q, q.status)) /\ q.pc \in Negotiated
    BY <1>2, <1>8
  <2> HIDE DEF q
  <2> QED BY <1>3, <2>1, <2>2, <2>3, ContentAnswer DEF s
<1>9. CASE Step(r, Fail(q, "upstream_error", 502, ""))
  BY <1>3, <1>5, <1>9, ContentFail, ZenonT(90)
<1>10. CASE ~ IsCapabilityCeiling(s) /\ Step(r, Fail(q, "upstream_status", s, ""))
  <2>1. Sendable(s)
    BY <1>4, <1>10 DEF Sendable
  <2> HIDE DEF s
  <2> QED BY <1>3, <1>5, <1>10, <2>1, ContentFail, ZenonT(90)
<1> QED BY <1>6, <1>7, <1>8, <1>9, <1>10

\* The response ops: back along the way out.
LEMMA TransformResponseContent ==
    ASSUME IInv, IInv', CInv, NEW r \in Requests, TransformResponse(r)
    PROVE  CInv'
<1> DEFINE q == req[r]
           back == Back(q)
           p == [q EXCEPT !.down = back, !.pc = "encode"]
<1>1. q.pc = "respops"
  BY DEF TransformResponse
<1>2. /\ q.pc \in Serving /\ q.pc \in Upward /\ "encode" \in InProxy
  BY <1>1 DEF Serving, Negotiated, Upward, InProxy
<1>3. /\ q \in RequestStates /\ CanFail(q) /\ Mirrored(q)
      /\ MayFail(q, "transform_failed", "response") /\ Sendable(502)
  BY <1>2, ServingFacts, FailureFacts, FailStatuses, ZenonT(60) DEF CInv, Content
<1>4. Step(r, p) \/ Step(r, Fail(q, "transform_failed", 502, "response"))
  BY Zenon DEF TransformResponse, Back
<1>5. CASE Step(r, Fail(q, "transform_failed", 502, "response"))
  BY <1>3, <1>5, ContentFail, ZenonT(90)
<1>6. CASE Step(r, p)
  <2> HIDE DEF q, back
  <2>1. /\ p.pc = "encode" /\ p.down = back /\ p.up = q.up /\ p.bundle = q.bundle
        /\ p.id = q.id
    BY <1>3 DEF RequestStates
  <2> HIDE DEF p
  <2>2. p \in RequestStates
    BY <1>6, StepState
  <2>3. Links(p) = Links(q)
    BY <2>1 DEF Links
  <2>4. Back(p) = back
    BY <2>3 DEF Back, back
  <2>5. q.up = Links(q)
    BY <1>2, <1>3 DEF Mirrored
  <2>6. Mirrored(p)
    BY <2>1, <2>3, <2>4, <2>5 DEF Mirrored
  <2> QED BY <1>2, <1>6, <2>1, <2>2, <2>6, InsideStep
<1> QED BY <1>4, <1>5, <1>6

\* EncodeResponse and EncodeError.
LEMMA EncodeContent ==
    ASSUME IInv, IInv', CInv, NEW r \in Requests, Encode(r)
    PROVE  CInv'
<1> DEFINE c == Contract(req[r])
           name == IF IsSuccess(req[r].status) THEN c.responseMessage
                   ELSE c.errorMessages[req[r].status]
           q == Message(req[r], name)
<1>1. req[r].pc = "encode"
  BY DEF Encode
<1>2. req[r].pc \in Negotiated
  BY <1>1 DEF Negotiated
<1>3. Answerable(req[r])
  BY <1>1, OneRequest DEF Local, Bound
<1>4. Resolvable(req[r].bundle, name)
  BY <1>2, <1>3, OwnMessages DEF Answerable
<1>5. \/ Step(r, Answer(q, q.status))
      \/ Step(r, Fail(q, "upstream_error", 502, ""))
  BY Zenon DEF Encode
<1> HIDE DEF name
<1>6. /\ CanFail(q) /\ q.pc = req[r].pc /\ q.status = req[r].status
      /\ q.bundle = req[r].bundle /\ q.id = req[r].id
  BY <1>2, <1>4, MessageLocal
<1> HIDE DEF q
<1>7. Sendable(q.status)
  BY <1>2, <1>3, <1>6, AnswerableSendable
<1>8. Answerable(q)
  BY <1>3, <1>6 DEF Answerable, Contract
<1>9. MayFail(q, "upstream_error", "") /\ Sendable(502)
  BY FailureFacts, FailStatuses
<1>10. CASE Step(r, Answer(q, q.status))
  BY <1>2, <1>6, <1>7, <1>8, <1>10, ContentAnswer, Zenon DEF CanFail
<1>11. CASE Step(r, Fail(q, "upstream_error", 502, ""))
  BY <1>6, <1>9, <1>11, ContentFail, ZenonT(90)
<1> QED BY <1>5, <1>10, <1>11

\* A panic inside the handler comes before the response.
LEMMA PanicsContent ==
    ASSUME IInv, IInv', CInv, NEW r \in Requests, Panics(r)
    PROVE  CInv'
<1> DEFINE q == req[r]
<1>1. PICK kind \in {"panic", "abort"} :
            Step(r, [q EXCEPT !.panic = kind, !.pc = "return"])
  BY DEF Panics
<1> DEFINE p == [q EXCEPT !.panic = kind, !.pc = "return"]
<1>2. /\ q \in RequestStates /\ Local(q) /\ Step(r, p)
      /\ q.pc \in InProxy \cup {"idle", "preflight"}
  BY <1>1, OneRequest DEF Panics
<1>3. q.wire = <<>> /\ ~ q.wrote
  BY <1>2, InsideTruthful
<1> HIDE DEF q
<1>4. p.pc = "return" /\ p.wire = q.wire /\ p.wrote = q.wrote
  BY <1>2 DEF RequestStates
<1> HIDE DEF p
<1>5. Truthful(p) /\ Mirrored(p)
  BY <1>3, <1>4, SilentTruthful, NotUpward DEF Upward
<1> QED BY <1>2, <1>5, ContentStep DEF Content

\* What net/http makes of a handler that returned.
LEMMA ReturnedContent ==
    ASSUME NEW q \in RequestStates, Len(q.wire) = 0 \/ Len(q.wire) = 1,
           q.wrote, Truthful(q)
    PROVE  Content(Returned(q))
<1> DEFINE h == [q.header EXCEPT !.status = 200]
           w == Append(q.wire, h)
           p1 == [q EXCEPT !.pc = "done"]
           p0 == [q EXCEPT !.pc = "done", !.wire = w]
<1>1. q.wire \in Seq(Responses) /\ q.header \in Responses /\ "done" \notin Upward
  BY DEF RequestStates, Upward
<1>2. CASE Len(q.wire) = 1
  <2>1. Returned(q) = p1
    BY <1>2, NonEmptyFacts DEF Returned
  <2>2. SameAnswer(q, p1) /\ p1.pc = "done"
    BY DEF SameAnswer, RequestStates
  <2> HIDE DEF p1
  <2> QED BY <1>1, <2>1, <2>2, SameTruthful, NotUpward DEF Content
<1>3. CASE Len(q.wire) = 0
  <2>1. q.wire = <<>>
    BY <1>1, <1>3, EmptySeq
  <2>2. h \in Responses /\ h.code = q.header.code /\ h.status = 200
    BY <1>1 DEF Responses
  <2>3. Returned(q) = p0
    BY <2>1 DEF Returned
  <2> HIDE DEF h
  <2>4. Len(w) = 1 /\ DOMAIN w = {1} /\ w[1] = h
    BY <1>1, <2>1, <2>2, AppendToEmpty
  <2> HIDE DEF w
  <2>5. /\ p0.wire = w /\ p0.pc = "done" /\ p0.in = q.in /\ p0.bundle = q.bundle
        /\ p0.id = q.id /\ p0.status = q.status
    BY ZenonT(90) DEF RequestStates
  <2> HIDE DEF p0
  <2>6. ASSUME ~ p0.in.preflight
        PROVE  Genuine(p0, h)
    <3>1. h.code = "" => Refused(q)
      BY <2>1, <2>2, <2>5, <2>6 DEF Truthful
    <3>2. Contract(p0) = Contract(q)
      BY <2>5 DEF Contract
    <3>3. Refused(q) => MayAnswer(p0, 200)
      BY <2>5, <3>2 DEF Refused, MayAnswer
    <3>4. ~ IsCapabilityCeiling(200)
      BY FailStatuses DEF Sendable
    <3> QED BY <2>2, <3>1, <3>3, <3>4, Zenon DEF Genuine
  <2>7. p0.wire # <<>>
    BY <2>4, <2>5, NonEmptyFacts
  <2>8. Truthful(p0)
    BY <2>4, <2>5, <2>6, <2>7 DEF Truthful
  <2> QED BY <1>1, <2>3, <2>5, <2>8, NotUpward DEF Content
<1> QED BY <1>2, <1>3

\* The deferred function answers nothing.
LEMMA DeferredContent ==
    ASSUME IInv, CInv, NEW r \in Requests, Deferred(r)
    PROVE  CInv'
<1> DEFINE o == req[r]
           Leave(s) == IF s.panic = "none" THEN Returned(s) ELSE [s EXCEPT !.pc = "recover"]
           n == o.requests + 1
           sp == IF o.outcome = "ok" THEN "ok" ELSE "error"
           q1 == [o EXCEPT !.requests = n, !.span = sp]
           q2 == [o EXCEPT !.requests = n, !.panic = "panic"]
<1>1. /\ o \in RequestStates /\ Local(o) /\ Truthful(o) /\ o.pc = "return"
  BY OneRequest DEF Deferred, CInv, Content
<1>2. n \in Nat /\ sp \in SpanStates /\ "panic" \in Raisable
  <2>1. o.requests = 0
    BY <1>1 DEF Local, Counted
  <2> QED BY <2>1 DEF SpanStates, Raisable
<1>3. \/ Step(r, Leave(o)) \/ Step(r, Leave(q1)) \/ Step(r, Leave(q2))
  <2>1. /\ q1 = [o EXCEPT !.requests = @ + 1, !.span = sp]
        /\ q2 = [o EXCEPT !.requests = @ + 1, !.panic = "panic"]
    BY <1>1 DEF RequestStates
  <2> QED BY <2>1, Zenon DEF Deferred
<1> HIDE DEF n, sp
<1>4. ASSUME NEW q \in RequestStates, SameAnswer(o, q),
             q.panic = o.panic \/ q.panic = "panic", Step(r, Leave(q))
      PROVE  CInv'
  <2>1. Truthful(q)
    BY <1>1, <1>4, SameTruthful
  <2>2. CASE q.panic = "none"
    <3>1. Len(q.wire) = 1 /\ q.wrote
      BY <1>1, <1>4, <2>2 DEF Local, Tracked, SameAnswer
    <3>2. Content(Returned(q)) /\ Step(r, Returned(q))
      BY <1>4, <2>1, <2>2, <3>1, ReturnedContent
    <3> QED BY <3>2, ContentStep
  <2>3. CASE q.panic # "none"
    <3> DEFINE p == [q EXCEPT !.pc = "recover"]
    <3>1. SameAnswer(q, p) /\ p.pc = "recover" /\ Step(r, p)
      BY <1>4, <2>3 DEF SameAnswer, RequestStates
    <3> HIDE DEF p
    <3>2. Truthful(p) /\ Mirrored(p)
      BY <2>1, <3>1, SameTruthful, NotUpward DEF Upward
    <3> QED BY <3>1, <3>2, ContentStep DEF Content
  <2> QED BY <2>2, <2>3
<1>5. CASE Step(r, Leave(o))
  <2>1. SameAnswer(o, o)
    BY DEF SameAnswer
  <2> HIDE DEF o, Leave
  <2> QED BY <1>1, <1>4, <1>5, <2>1
<1>6. CASE Step(r, Leave(q1))
  <2> HIDE DEF o, Leave
  <2>1. q1 \in RequestStates
    BY <1>1, <1>2, ZenonT(90) DEF RequestStates
  <2>2. SameAnswer(o, q1) /\ q1.panic = o.panic
    BY <1>1 DEF SameAnswer, RequestStates
  <2> HIDE DEF q1
  <2> QED BY <1>4, <1>6, <2>1, <2>2
<1>7. CASE Step(r, Leave(q2))
  <2> HIDE DEF o, Leave
  <2>1. q2 \in RequestStates
    BY <1>1, <1>2, ZenonT(90) DEF RequestStates
  <2>2. SameAnswer(o, q2) /\ q2.panic = "panic"
    BY <1>1 DEF SameAnswer, RequestStates
  <2> HIDE DEF q2
  <2> QED BY <1>4, <1>7, <2>1, <2>2
<1> QED BY <1>3, <1>5, <1>6, <1>7

\* Recover answers internal_error, or leaves a started response to net/http.
LEMMA RecoverContent ==
    ASSUME IInv, CInv, NEW r \in Requests, Recover(r)
    PROVE  CInv'
<1> DEFINE q == req[r]
           c == RecoverCounts(q)
           w == WriteHeader(c, 500, "internal_error", q.in.version)
           h == [status |-> 500, code |-> "internal_error", version |-> q.in.version]
<1>1. q \in RequestStates /\ Local(q) /\ Truthful(q) /\ q.pc = "recover"
  BY OneRequest DEF Recover, CInv, Content
<1>2. \/ Step(r, [q EXCEPT !.pc = "aborted"])
      \/ q.panic # "abort" /\ q.wrote /\ Step(r, Returned(c))
      \/ q.panic # "abort" /\ ~ q.wrote /\ Step(r, Returned(w))
  BY ZenonT(90) DEF Recover, RecoverCounts
<1>3. Len(q.wire) = 0 \/ Len(q.wire) = 1
  BY <1>1 DEF Local, Tracked
<1>4. SameAnswer(q, c)
  BY <1>1 DEF SameAnswer, RecoverCounts, RequestStates
<1>5. CASE Step(r, [q EXCEPT !.pc = "aborted"])
  <2> DEFINE p == [q EXCEPT !.pc = "aborted"]
  <2> HIDE DEF q
  <2>1. SameAnswer(q, p) /\ p.pc = "aborted"
    BY <1>1 DEF SameAnswer, RequestStates
  <2>2. Step(r, p)
    BY <1>5
  <2> HIDE DEF p
  <2>3. Truthful(p) /\ Mirrored(p)
    BY <1>1, <2>1, SameTruthful, NotUpward DEF Upward
  <2> QED BY <2>2, <2>3, ContentStep DEF Content
<1>6. CASE q.panic # "abort" /\ q.wrote /\ Step(r, Returned(c))
  <2> HIDE DEF q, c
  <2>1. c \in RequestStates
    BY <1>1, <1>6, RecoverCountsLocal DEF c
  <2>2. c.wrote /\ (Len(c.wire) = 0 \/ Len(c.wire) = 1) /\ Truthful(c)
    BY <1>1, <1>3, <1>4, <1>6, SameTruthful DEF SameAnswer
  <2>3. Content(Returned(c))
    BY <2>1, <2>2, ReturnedContent
  <2> QED BY <1>6, <2>3, ContentStep
<1>7. CASE q.panic # "abort" /\ ~ q.wrote /\ Step(r, Returned(w))
  <2>1. q.wire = <<>>
    <3>1. q.wire \in Seq(Responses) /\ Len(q.wire) = 0
      BY <1>1, <1>7 DEF Local, Tracked, RequestStates
    <3> QED BY <3>1, EmptySeq
  <2>2. q.in \in Inputs
    BY <1>1 DEF Local, Sorted
  <2>3. /\ "internal_error" \in WireCodes /\ q.in.version \in WireVersions
        /\ 500 \in Nat /\ 500 \in 100..999
    <3>1. "internal_error" \in WireCodes
      BY DEF WireCodes, Codes
    <3>2. q.in.version \in WireVersions
      BY <2>2, InputFacts DEF WireVersions
    <3> QED BY <3>1, <3>2
  <2> HIDE DEF q, c
  <2>4. c \in RequestStates /\ c.wire = <<>>
    BY <1>1, <1>4, <1>7, <2>1, RecoverCountsLocal DEF c, SameAnswer
  <2>5. HeaderSent(c, w, h)
    BY <2>3, <2>4, WriteHeaderFields
  <2>6. h.status = 500 /\ h.code = "internal_error"
    OBVIOUS
  <2> HIDE DEF w, h
  <2>7. /\ w \in RequestStates /\ w.wrote = TRUE
        /\ Len(w.wire) = 1 /\ DOMAIN w.wire = {1} /\ w.wire[1] = h
    BY <2>3, <2>5, <2>6 DEF HeaderSent
  <2>8. Genuine(w, h)
    BY <2>6, FailStatuses DEF Genuine, Sendable
  <2>9. w.wire # <<>>
    BY <2>7, NonEmptyFacts
  <2>10. Truthful(w)
    BY <2>7, <2>8, <2>9 DEF Truthful
  <2>11. Content(Returned(w))
    BY <2>7, <2>10, ReturnedContent
  <2> QED BY <1>7, <2>11, ContentStep
<1> QED BY <1>2, <1>5, <1>6, <1>7

\* The second invariant holds throughout.
LEMMA ContentHolds == Spec => [](IInv /\ CInv)
<1>1. Init => CInv
  <2> SUFFICES ASSUME Init, NEW r \in Requests
               PROVE  Content(req[r])
    BY DEF CInv
  <2>1. req[r] = Fresh /\ Fresh.wire = <<>> /\ Fresh.wrote = FALSE /\ Fresh.pc = "idle"
    BY DEF Init, Fresh
  <2> QED BY <2>1, SilentTruthful, NotUpward DEF Content, Upward
<1>2. IInv /\ CInv /\ [Next]_vars => CInv'
  <2> SUFFICES ASSUME IInv, CInv, [Next]_vars
               PROVE  CInv'
    OBVIOUS
  <2>1. IInv'
    BY NextInv
  <2>2. ASSUME NEW r \in Requests, Request(r)
        PROVE  CInv'
    <3>1. CASE \E input \in Inputs : Arrive(r, input)
      BY <2>1, <3>1, ArriveContent
    <3>2. CASE Preflight(r)
      BY <3>2, PreflightContent
    <3>3. CASE Handler(r)
      BY <2>1, <3>3, GateContent, ReadBodyContent, NegotiateContent, DecodeContent,
         TransformRequestContent, DialContent, DispatchContent, TransformResponseContent,
         EncodeContent, DeferredContent, RecoverContent DEF Handler
    <3>4. CASE UpstreamAnswers(r) \/ UpstreamFails(r) \/ ReadUpstreamBody(r)
      BY <2>1, <3>4, UpstreamAnswersContent, UpstreamFailsContent, ReadUpstreamBodyContent
    <3>5. CASE DeadlineExpires(r) \/ Panics(r)
      BY <2>1, <3>5, DeadlineExpiresContent, PanicsContent
    <3> QED BY <2>2, <3>1, <3>2, <3>3, <3>4, <3>5 DEF Request
  <2>3. CASE OperatorWrites \/ Boot \/ Sighup \/ Reloader \/ UNCHANGED vars
    <3>1. req' = req
      BY <2>3 DEF OperatorWrites, Boot, Sighup, Reloader, LoadStart, LoadFinish, vars
    <3>2. \A r \in Requests : Content(req[r])'
      BY <3>1 DEF CInv
    <3> QED BY <3>2 DEF CInv
  <2> QED BY <2>2, <2>3 DEF Next
<1> QED BY <1>1, <1>2, InitInv, NextInv, PTL DEF Spec

-----------------------------------------------------------------------------
(* What the client is promised                                             *)
(*                                                                         *)
(* Every step is a step of module Gateway or one it does not see.  A third *)
(* invariant, GInv, carries through the handler what the answer will rest  *)
(* on: that nothing a request has passed could have refused it, that its   *)
(* contract is the one its bundle has for it, and that a response net/http *)
(* may still make a 200 of is one that could have been given.              *)

\* The promise looks contracts up as the data plane does.
LEMMA SameLookups ==
    /\ \A b, rt, v, s : Promise!Lookup(b, rt, v, s) = Lookup(b, rt, v, s)
    /\ \A b, rt : Promise!LookupRoute(b, rt) = LookupRoute(b, rt)
    /\ \A s : Promise!IsCapabilityCeiling(s) = IsCapabilityCeiling(s)
    /\ Promise!NoContract = NoContract
<1>1. Promise!NoSelectors = NoSelectors
  BY DEF Promise!NoSelectors, NoSelectors
<1>2. Promise!NoContract = NoContract
  BY <1>1 DEF Promise!NoContract, NoContract
<1>3. \A v, rt : Promise!Canonical(v, rt) = Canonical(v, rt)
  BY <1>1 DEF Promise!Canonical, Canonical
<1>4. \A a, s : Promise!selectorMatches(a, s) <=> selectorMatches(a, s)
  BY DEF Promise!selectorMatches, selectorMatches
<1>5. ASSUME NEW b, NEW rt, NEW v, NEW s
      PROVE  Promise!Lookup(b, rt, v, s) = Lookup(b, rt, v, s)
  <2> DEFINE c == Canonical(v, rt)
             k == Promise!Canonical(v, rt)
             hits == {i \in DOMAIN b.variants[c] : selectorMatches(b.variants[c][i].sel, s)}
             theirs == {i \in DOMAIN b.variants[k] : Promise!selectorMatches(b.variants[k][i].sel, s)}
             First(S) == CHOOSE i \in S : \A j \in S : i <= j
  <2>1. Lookup(b, rt, v, s) = IF c \notin b.ids THEN NoContract
                              ELSE IF hits = {} THEN c ELSE b.variants[c][First(hits)]
    BY Zenon DEF Lookup
  <2>2. Promise!Lookup(b, rt, v, s) = IF k \notin b.ids THEN Promise!NoContract
                              ELSE IF theirs = {} THEN k ELSE b.variants[k][First(theirs)]
    BY Zenon DEF Promise!Lookup
  <2> HIDE DEF First
  <2>3. k = c
    BY <1>3
  <2> HIDE DEF k
  <2>4. theirs = hits
    BY <1>4, <2>3
  <2> HIDE DEF hits, theirs, c
  <2> QED BY <1>2, <2>1, <2>2, <2>3, <2>4
<1>6. \A b, rt : Promise!LookupRoute(b, rt) = LookupRoute(b, rt)
  BY <1>1, Zenon DEF Promise!LookupRoute, LookupRoute, Promise!selectorEmpty, selectorEmpty
<1>7. \A s : Promise!IsCapabilityCeiling(s) = IsCapabilityCeiling(s)
  BY DEF Promise!IsCapabilityCeiling, IsCapabilityCeiling
<1> QED BY <1>2, <1>5, <1>6, <1>7

\* Nothing that a request has passed could have refused it, and its contract is
\* the one looked up in the bundle it saw at the gate.
Passed(q) ==
    /\ q.in.preflight \/ q.pc \in {"idle", "preflight", "gate"} => q.bundle = NoBundle
    /\ q.pc \in Serving =>
          LookupRoute(q.bundle, q.in.route) /\ q.in.body \notin {"otherType", "declaredTooLarge"}
    /\ q.pc \in Negotiated \cup {"negotiate"} => q.in.body \notin {"chunkedTooLarge", "unreadable"}
    /\ q.pc \in Negotiated =>
          /\ q.id = Lookup(q.bundle, q.in.route, q.in.version, q.in.sel)
          /\ q.id # NoContract /\ q.in.version # Unknown
    /\ q.pc \in {"upbody", "dispatch", "respops", "encode"} => q.status \in Statuses

\* A response that net/http will make a 200 of is one that may be given.
Due(q) ==
    q.wrote /\ q.wire = <<>> =>
        q.header \in Promise!Answers(q.in, q.bundle) /\ q.header.status \notin 100..999

Owed(q) == Passed(q) /\ Due(q)

GInv == \A r \in Requests : Owed(req[r])

\* p is q after its first call of WriteHeader, with header h.
Said(q, p, h) ==
    /\ p.pc = "return" /\ p.in = q.in /\ p.bundle = q.bundle /\ p.header = h
    /\ p.wire = IF h.status \in 100..999 THEN <<h>> ELSE <<>>

\* What the client sees of a step of one request.
LEMMA OneExchange ==
    ASSUME IInv, NEW r \in Requests, NEW p, Step(r, p)
    PROVE  LET x == [s \in Requests |-> Exchange(req[s])]
           IN  /\ x' = [x EXCEPT ![r] = Exchange(p)]
               /\ x[r] = Exchange(req[r])
               /\ live' = live
<1> DEFINE x == [s \in Requests |-> Exchange(req[s])]
<1>1. req' = [req EXCEPT ![r] = p] /\ req \in [Requests -> RequestStates] /\ live' = live
  BY DEF Step, IInv, TypeOK
<1>2. x' = [s \in Requests |-> Exchange(req'[s])]
  OBVIOUS
<1>3. \A s \in Requests : req'[s] = IF s = r THEN p ELSE req[s]
  BY <1>1
<1>4. [s \in Requests |-> Exchange(req'[s])] = [x EXCEPT ![r] = Exchange(p)]
  <2>1. \A s \in Requests : Exchange(req'[s]) = IF s = r THEN Exchange(p) ELSE Exchange(req[s])
    BY <1>3
  <2> QED BY <2>1
<1> QED BY <1>1, <1>2, <1>4

\* A step of one request keeps the invariant when the request's new state does.
LEMMA OwedStep ==
    ASSUME IInv, GInv, NEW r \in Requests, NEW p, Owed(p), Step(r, p)
    PROVE  GInv'
<1>1. req' = [req EXCEPT ![r] = p] /\ req \in [Requests -> RequestStates]
  BY DEF Step, IInv, TypeOK
<1>2. ASSUME NEW x \in Requests
      PROVE  Owed(req'[x])
  BY <1>1 DEF GInv
<1>3. \A x \in Requests : Owed(req[x])'
  BY <1>2
<1> QED BY <1>3 DEF GInv

\* A step keeps the promise and what is known of the requests.
Kept == [Promise!Next]_(Promise!vars) /\ GInv'

\* A step the client sees nothing of.
LEMMA UnseenKept ==
    ASSUME IInv, GInv, NEW r \in Requests, NEW p, Step(r, p), Owed(p),
           Exchange(p) = Exchange(req[r])
    PROVE  Kept
<1> DEFINE x == [s \in Requests |-> Exchange(req[s])]
<1>1. x' = [x EXCEPT ![r] = Exchange(p)] /\ x[r] = Exchange(p) /\ live' = live
  BY OneExchange
<1>2. x' = x
  BY <1>1
<1> QED BY <1>1, <1>2, OwedStep DEF Kept, Promise!vars

\* The bundle a request is decided under.
Seen(q) == IF q.bundle # NoBundle \/ q.in.preflight THEN q.bundle ELSE live

\* A request that waits for an answer.
Waits(q) == q.pc \notin {"idle", "aborted", "done"} /\ q.wire = <<>>

\* Its exchange is open, and as the promise sees it.
LEMMA WaitsOpen ==
    ASSUME NEW q, Waits(q)
    PROVE  /\ Exchange(q) = Promise!Pending(q.in, q.bundle)
           /\ Exchange(q).phase = "open" /\ Exchange(q).in = q.in /\ Exchange(q).view = q.bundle
           /\ Promise!View(Exchange(q)) = Seen(q)
BY DEF Waits, Exchange, Promise!Pending, Promise!View, Seen

\* A request is answered.
LEMMA ReplyKept ==
    ASSUME IInv, GInv, NEW r \in Requests, NEW p, Step(r, p), Owed(p),
           Waits(req[r]), p.pc # "idle",
           NEW a \in Promise!Answers(req[r].in, Seen(req[r])),
           p.in = req[r].in, p.bundle = Seen(req[r]), p.wire = <<Promise!Sent(a)>>
    PROVE  Kept
<1> DEFINE x == [s \in Requests |-> Exchange(req[s])]
           q == req[r]
<1>1. x' = [x EXCEPT ![r] = Exchange(p)] /\ x[r] = Exchange(q) /\ live' = live
  BY OneExchange
<1>2. /\ x[r].phase = "open" /\ x[r].in = q.in
      /\ Promise!View(x[r]) = Seen(q)
  BY <1>1, WaitsOpen
<1>3. Exchange(p) = Promise!Answered(q.in, Seen(q), Promise!Sent(a))
  BY DEF Exchange, Promise!Answered
<1>4. Promise!Reply(r)
  BY <1>1, <1>2, <1>3 DEF Promise!Reply, Promise!Open, Promise!Turn
<1> QED BY <1>4, OwedStep DEF Kept, Promise!Next

\* A request moves on without an answer, perhaps having read the pointer.
LEMMA LookKept ==
    ASSUME IInv, GInv, NEW r \in Requests, NEW p, Step(r, p), Owed(p),
           Waits(req[r]), Waits(p),
           p.in = req[r].in, p.bundle \in {req[r].bundle, Seen(req[r])}
    PROVE  Kept
<1> DEFINE x == [s \in Requests |-> Exchange(req[s])]
           q == req[r]
<1>1. x' = [x EXCEPT ![r] = Exchange(p)] /\ x[r] = Exchange(q) /\ live' = live
  BY OneExchange
<1>2. /\ x[r].phase = "open" /\ x[r].in = q.in
      /\ Promise!View(x[r]) = Seen(q)
  BY <1>1, WaitsOpen
<1>3. Exchange(p) = Promise!Pending(q.in, p.bundle) /\ Exchange(q) = Promise!Pending(q.in, q.bundle)
  BY WaitsOpen
<1>4. CASE p.bundle = Seen(q)
  <2>1. Promise!Look(r)
    BY <1>1, <1>2, <1>3, <1>4 DEF Promise!Look, Promise!Open, Promise!Turn
  <2> QED BY <2>1, OwedStep DEF Kept, Promise!Next
<1>5. CASE p.bundle = q.bundle
  BY <1>3, <1>5, UnseenKept
<1> QED BY <1>4, <1>5

\* The first call of WriteHeader, as the client sees it.
LEMMA WriteHeaderSaid ==
    ASSUME NEW q \in RequestStates, q.wire = <<>>,
           NEW status, NEW code, NEW version
    PROVE  Said(q, WriteHeader(q, status, code, version),
                [status |-> status, code |-> code, version |-> version])
<1> DEFINE h == [status |-> status, code |-> code, version |-> version]
           ok == status \in 100..999
           w == IF ok THEN Append(q.wire, h) ELSE q.wire
           e == IF ok THEN q.panic ELSE "panic"
           p == [q EXCEPT !.wrote = TRUE, !.header = h, !.pc = "return",
                          !.wire = w, !.panic = e]
<1>1. WriteHeader(q, status, code, version) = p
  BY DEF WriteHeader, RequestStates
<1>2. h.status = status
  OBVIOUS
<1> HIDE DEF h
<1>3. w = IF h.status \in 100..999 THEN <<h>> ELSE <<>>
  <2>1. Append(q.wire, h) = <<h>>
    OBVIOUS
  <2> QED BY <1>2, <2>1
<1> HIDE DEF w, e
<1>4. p.pc = "return" /\ p.header = h /\ p.wire = w /\ p.in = q.in /\ p.bundle = q.bundle
  BY DEF RequestStates
<1> HIDE DEF p
<1> QED BY <1>1, <1>3, <1>4 DEF Said, h

\* A failure, as the client sees it.
LEMMA FailSaid ==
    ASSUME NEW q, CanFail(q), NEW code, NEW status, NEW tout, MayFail(q, code, tout)
    PROVE  Said(q, Fail(q, code, status, tout), Promise!Envelope(q.in, status, code))
<1> DEFINE label == [code |-> code, version |-> q.version, tout |-> tout]
           n == Append(q.counted, label)
           f == [q EXCEPT !.outcome = code, !.counted = n]
           h == [status |-> status, code |-> code, version |-> q.in.version]
           p == Fail(q, code, status, tout)
<1>1. /\ q \in RequestStates /\ code \in Codes /\ tout \in TransformOutcomes
      /\ q.wire = <<>> /\ q.counted = <<>> /\ q.in \in Inputs
  BY DEF CanFail, MayFail, Local, Quiet, Sorted, InProxy
<1>2. /\ q.in.version \in Versions \cup {Unknown} /\ q.version \in Versions \cup {Unknown}
      /\ q.version # Unknown => q.version = q.in.version
      /\ q.counted \in Seq(Labels)
  BY <1>1, InputFacts DEF CanFail, Local, Bound, RequestStates
<1>3. label \in Labels /\ ResponseVersion(q) = q.in.version
  BY <1>1, <1>2 DEF Labels, ResponseVersion
<1>4. p = WriteHeader(f, status, code, q.in.version)
  BY <1>3 DEF Fail
<1> HIDE DEF label
<1>5. n \in Seq(Labels)
  BY <1>1, <1>2, <1>3, AppendToEmpty
<1> HIDE DEF n
<1>6. f \in RequestStates /\ f.wire = <<>> /\ f.in = q.in /\ f.bundle = q.bundle
  BY <1>1, <1>5, ZenonT(90) DEF RequestStates
<1> HIDE DEF f, p
<1>7. Said(f, p, h)
  BY <1>4, <1>6, WriteHeaderSaid
<1> QED BY <1>6, <1>7 DEF Said, Promise!Envelope, p

\* A typed answer, as the client sees it.
LEMMA AnswerSaid ==
    ASSUME NEW q \in RequestStates, Local(q), q.pc \in Negotiated, NEW status
    PROVE  Said(q, Answer(q, status), Promise!Typed(q.in, status))
<1>1. q.wire = <<>> /\ q.version = q.in.version
  BY DEF Local, Quiet, Bound, InProxy, Negotiated
<1> QED BY <1>1, WriteHeaderSaid DEF Answer, Promise!Typed, Promise!Envelope

\* A response that may be given.
LEMMA SaidKept ==
    ASSUME IInv, GInv, NEW r \in Requests, NEW q, NEW p, NEW h, Step(r, p),
           Waits(req[r]), q.in = req[r].in, q.bundle = Seen(req[r]), Said(q, p, h),
           q.in.preflight => q.bundle = NoBundle,
           h \in Promise!Answers(q.in, q.bundle)
    PROVE  Kept
<1>1. /\ p.pc = "return" /\ p.in = q.in /\ p.bundle = q.bundle /\ p.header = h
      /\ p.wire = IF h.status \in 100..999 THEN <<h>> ELSE <<>>
  BY DEF Said
<1>2. Passed(p)
  BY <1>1 DEF Passed, Serving, Negotiated
<1>3. <<h>> # <<>>
  OBVIOUS
<1>4. Due(p)
  BY <1>1, <1>3 DEF Due
<1>5. CASE h.status \in 100..999
  <2>1. Promise!Sent(h) = h
    BY <1>5 DEF Promise!Sent
  <2> QED BY <1>1, <1>2, <1>4, <1>5, <2>1, ReplyKept DEF Owed
<1>6. CASE h.status \notin 100..999
  <2>1. Waits(p)
    BY <1>1, <1>6 DEF Waits
  <2> QED BY <1>1, <1>2, <1>4, <2>1, LookKept DEF Owed
<1> QED BY <1>5, <1>6

\* A request inside the handler has not been answered.
LEMMA InsideWaits ==
    ASSUME IInv, NEW r \in Requests, req[r].pc \in InProxy \cup {"preflight"}
    PROVE  Waits(req[r])
<1>1. req[r].wire = <<>>
  BY OneRequest DEF Local, Quiet
<1> QED BY <1>1 DEF Waits, InProxy

\* Past the gate a request is decided under the bundle it saw there.
LEMMA ServingSeen ==
    ASSUME IInv, GInv, NEW r \in Requests, req[r].pc \in Serving
    PROVE  /\ Waits(req[r]) /\ Seen(req[r]) = req[r].bundle /\ ~ req[r].in.preflight
           /\ req[r].bundle # NoBundle /\ Passed(req[r])
<1>1. req[r].pc \in InProxy
  BY DEF Serving, Negotiated, InProxy
<1>2. req[r].bundle \in Bundles /\ ~ req[r].in.preflight
  BY <1>1, OneRequest DEF Local, Bound, Sorted
<1> QED BY <1>1, <1>2, BundleFacts, InsideWaits DEF Seen, GInv, Owed

\* A failure that may be given.
LEMMA FailKept ==
    ASSUME IInv, GInv, NEW r \in Requests, NEW q, CanFail(q), req[r].pc \in InProxy,
           q.in = req[r].in, q.bundle = Seen(req[r]),
           NEW code, NEW status, NEW tout, MayFail(q, code, tout),
           Promise!Envelope(q.in, status, code) \in Promise!Answers(q.in, q.bundle),
           Step(r, Fail(q, code, status, tout))
    PROVE  Kept
<1>1. Waits(req[r])
  BY InsideWaits
<1>2. ~ q.in.preflight
  BY DEF CanFail, Local, Sorted
<1>3. Said(q, Fail(q, code, status, tout), Promise!Envelope(q.in, status, code))
  BY FailSaid
<1> QED BY <1>1, <1>2, <1>3, SaidKept

\* The failures with a status of their own.
LEMMA FailureStatuses ==
    ASSUME NEW in
    PROVE  /\ Promise!Failure(in, "unavailable") = Promise!Envelope(in, 503, "unavailable")
           /\ Promise!Failure(in, "unknown_route") = Promise!Envelope(in, 404, "unknown_route")
           /\ Promise!Failure(in, "unsupported_media_type")
                 = Promise!Envelope(in, 415, "unsupported_media_type")
           /\ Promise!Failure(in, "request_body_too_large")
                 = Promise!Envelope(in, 413, "request_body_too_large")
           /\ Promise!Failure(in, "decode_failed") = Promise!Envelope(in, 400, "decode_failed")
           /\ Promise!Failure(in, "unsupported_contract_version")
                 = Promise!Envelope(in, 400, "unsupported_contract_version")
           /\ Promise!Failure(in, "upstream_timeout") = Promise!Envelope(in, 504, "upstream_timeout")
           /\ Promise!Failure(in, "upstream_error") = Promise!Envelope(in, 502, "upstream_error")
           /\ Promise!Failure(in, "internal_error") = Promise!Envelope(in, 500, "internal_error")
BY DEF Promise!Failure, Promise!StatusOf

\* A refused request is answered with the reason.
LEMMA RefusalAnswers ==
    ASSUME NEW in, NEW b, ~ in.preflight, NEW code, code # "", Promise!Refusal(in, b) = code
    PROVE  Promise!Failure(in, code) \in Promise!Answers(in, b)
BY DEF Promise!Answers

\* An accepted one with what its contract allows.
LEMMA AcceptedAnswers ==
    ASSUME NEW q, Passed(q), q.pc \in Negotiated, ~ q.in.preflight, q.bundle # NoBundle
    PROVE  Promise!Answers(q.in, q.bundle) = Promise!Outcomes(q.in, q.bundle, q.id)
<1>1. q.pc \in Serving
  BY DEF Serving
<1>2. Promise!Choice(q.in, q.bundle) = q.id
  BY SameLookups DEF Passed, Promise!Choice
<1>3. Promise!Refusal(q.in, q.bundle) = ""
  BY <1>1, <1>2, SameLookups, Zenon DEF Passed, Promise!Refusal
<1> QED BY <1>2, <1>3 DEF Promise!Answers

\* A step inside the handler.
LEMMA MoveKept ==
    ASSUME IInv, IInv', GInv, NEW r \in Requests, NEW p, Step(r, p),
           req[r].pc \in InProxy, p.pc \in InProxy,
           p.in = req[r].in, p.bundle \in {req[r].bundle, Seen(req[r])}, Passed(p)
    PROVE  Kept
<1>1. p \in RequestStates /\ Local(p)
  BY StepState
<1>2. p.wire = <<>> /\ ~ p.wrote
  BY <1>1, InsideTruthful
<1>3. Waits(p) /\ Due(p)
  BY <1>2 DEF Waits, Due, InProxy
<1>4. Waits(req[r])
  BY InsideWaits
<1> QED BY <1>3, <1>4, LookKept DEF Owed

\* The stages that know the upstream's status.
Heard == {"upbody", "dispatch", "respops", "encode"}

\* Past the negotiation a step leaves the bundle and the contract alone.
LEMMA NegotiatedPassed ==
    ASSUME NEW q, Passed(q), q.pc \in Negotiated, ~ q.in.preflight,
           NEW p, p.pc \in Negotiated, p.in = q.in, p.bundle = q.bundle, p.id = q.id,
           p.pc \in Heard => p.status \in Statuses
    PROVE  Passed(p)
<1>1. q.pc \in Serving /\ p.pc \in Serving /\ p.pc \notin {"idle", "preflight", "gate"}
  BY DEF Serving, Negotiated
<1> QED BY <1>1 DEF Passed, Heard

\* Such a step shows the client nothing.
LEMMA NegotiatedMove ==
    ASSUME IInv, IInv', GInv, NEW r \in Requests, NEW p, Step(r, p),
           req[r].pc \in Negotiated, p.pc \in Negotiated,
           p.in = req[r].in, p.bundle = req[r].bundle, p.id = req[r].id,
           p.pc \in Heard => p.status \in Statuses
    PROVE  Kept
<1>1. req[r].pc \in Serving /\ req[r].pc \in InProxy /\ p.pc \in InProxy
  BY DEF Serving, Negotiated, InProxy
<1>2. Passed(req[r]) /\ ~ req[r].in.preflight
  BY <1>1, ServingSeen
<1>3. Passed(p)
  BY <1>2, NegotiatedPassed
<1> QED BY <1>1, <1>3, MoveKept

\* An accepted request is answered with a failure its contract allows.
LEMMA NegotiatedFail ==
    ASSUME IInv, GInv, NEW r \in Requests, req[r].pc \in Negotiated,
           NEW q, CanFail(q), q.in = req[r].in, q.bundle = req[r].bundle,
           NEW code, NEW status, NEW tout, MayFail(q, code, tout),
           Promise!Envelope(q.in, status, code)
              \in Promise!Outcomes(req[r].in, req[r].bundle, req[r].id),
           Step(r, Fail(q, code, status, tout))
    PROVE  Kept
<1>1. req[r].pc \in Serving /\ req[r].pc \in InProxy
  BY DEF Serving, Negotiated, InProxy
<1>2. /\ Passed(req[r]) /\ ~ req[r].in.preflight /\ Seen(req[r]) = req[r].bundle
      /\ req[r].bundle # NoBundle
  BY <1>1, ServingSeen
<1>3. Promise!Answers(q.in, q.bundle) = Promise!Outcomes(req[r].in, req[r].bundle, req[r].id)
  BY <1>2, AcceptedAnswers
<1> QED BY <1>1, <1>2, <1>3, FailKept

\* The failures open to every accepted request.
LEMMA OutcomeFacts ==
    ASSUME NEW in, NEW b, NEW id
    PROVE  /\ Promise!Envelope(in, 400, "decode_failed") \in Promise!Outcomes(in, b, id)
           /\ Promise!Envelope(in, 502, "upstream_error") \in Promise!Outcomes(in, b, id)
           /\ Promise!Envelope(in, 504, "upstream_timeout") \in Promise!Outcomes(in, b, id)
<1>1. \A code \in {"decode_failed", "upstream_error", "upstream_timeout"} :
         Promise!Failure(in, code) \in Promise!Outcomes(in, b, id)
  BY Zenon DEF Promise!Outcomes
<1> QED BY <1>1, FailureStatuses

\* A request arrives.
LEMMA ArriveKept ==
    ASSUME IInv, IInv', GInv, NEW r \in Requests, NEW input \in Inputs, Arrive(r, input)
    PROVE  Kept
<1> DEFINE q == req[r]
           to == IF input.preflight THEN "preflight" ELSE "gate"
           sp == IF input.preflight THEN "none" ELSE "open"
           up == live # NoBundle
           p == [q EXCEPT !.in = input, !.ready = up, !.pc = to, !.span = sp]
           x == [s \in Requests |-> Exchange(req[s])]
<1>1. q \in RequestStates /\ Local(q) /\ Owed(q) /\ q.pc = "idle" /\ Step(r, p)
  BY OneRequest DEF Arrive, GInv
<1>2. q.wire = <<>> /\ ~ q.wrote /\ q.bundle = NoBundle
  BY <1>1 DEF Local, Quiet, Owed, Passed
<1>3. to \in {"preflight", "gate"}
  OBVIOUS
<1> HIDE DEF q, to, sp, up
<1>4. /\ p.pc = to /\ p.in = input /\ p.wire = <<>> /\ ~ p.wrote /\ p.bundle = NoBundle
  BY <1>1, <1>2 DEF RequestStates
<1> HIDE DEF p
<1>5. Owed(p)
  BY <1>3, <1>4 DEF Owed, Due, Passed, Serving, Negotiated
<1>6. Exchange(p) = Promise!Pending(input, NoBundle) /\ Exchange(q).phase = "idle"
  BY <1>1, <1>3, <1>4 DEF Exchange, Promise!Pending
<1>7. x' = [x EXCEPT ![r] = Exchange(p)] /\ x[r] = Exchange(q) /\ live' = live
  BY <1>1, OneExchange DEF q
<1>8. Promise!Ask(r)
  BY <1>6, <1>7 DEF Promise!Ask, Promise!Turn
<1> QED BY <1>1, <1>5, <1>8, OwedStep DEF Kept, Promise!Next

\* A response in plain text, as the client sees it.
LEMMA PlainSaid ==
    ASSUME NEW q \in RequestStates, q.wire = <<>>
    PROVE  \A s : Said(q, WriteHeader(q, s, "", ""), [status |-> s, code |-> "", version |-> ""])
BY WriteHeaderSaid

\* A preflight is relayed, or answered in plain text.
LEMMA PreflightKept ==
    ASSUME IInv, GInv, NEW r \in Requests, Preflight(r)
    PROVE  Kept
<1> DEFINE q == req[r]
<1>1. q \in RequestStates /\ Local(q) /\ Owed(q) /\ q.pc = "preflight"
  BY OneRequest DEF Preflight, GInv
<1>2. PICK s \in Statuses \cup {502} : Step(r, WriteHeader(q, s, "", ""))
  BY ZenonT(90) DEF Preflight
<1> DEFINE h == [status |-> s, code |-> "", version |-> ""]
           p == WriteHeader(q, s, "", "")
<1>3. q.in.preflight /\ q.bundle = NoBundle /\ Seen(q) = NoBundle
  BY <1>1 DEF Local, Sorted, Owed, Passed, Seen
<1>4. Waits(q) /\ q.wire = <<>>
  BY <1>1, InsideWaits DEF Waits
<1> HIDE DEF q
<1>5. \A t : Said(q, WriteHeader(q, t, "", ""), [status |-> t, code |-> "", version |-> ""])
  BY <1>1, <1>4, PlainSaid
<1>6. h \in Promise!PreflightAnswers /\ Said(q, p, h)
  BY <1>5, Zenon DEF Promise!PreflightAnswers
<1> HIDE DEF h, p
<1>7. h \in Promise!Answers(q.in, q.bundle)
  BY <1>3, <1>6 DEF Promise!Answers
<1>8. Step(r, p)
  BY <1>2 DEF p
<1> QED BY <1>3, <1>4, <1>6, <1>7, <1>8, SaidKept DEF q

\* The reason the gate gives is the one that comes first.
LEMMA GateRefusals ==
    ASSUME NEW in, NEW b
    PROVE  /\ b = NoBundle => Promise!Refusal(in, b) = "unavailable"
           /\ b # NoBundle /\ ~ LookupRoute(b, in.route) => Promise!Refusal(in, b) = "unknown_route"
           /\ b # NoBundle /\ LookupRoute(b, in.route) =>
                 /\ in.body = "otherType" => Promise!Refusal(in, b) = "unsupported_media_type"
                 /\ in.body \in {"declaredTooLarge", "chunkedTooLarge"} =>
                       Promise!Refusal(in, b) = "request_body_too_large"
                 /\ in.body = "unreadable" => Promise!Refusal(in, b) = "decode_failed"
                 /\ in.body \notin {"otherType", "declaredTooLarge", "chunkedTooLarge", "unreadable"}
                    /\ (in.version = Unknown
                        \/ Lookup(b, in.route, in.version, in.sel) = NoContract) =>
                       Promise!Refusal(in, b) = "unsupported_contract_version"
BY SameLookups DEF Promise!Refusal, Promise!Choice

\* A refused request is answered with the reason of the bundle it saw.
LEMMA RefuseKept ==
    ASSUME IInv, GInv, NEW r \in Requests, NEW q, CanFail(q), req[r].pc \in InProxy,
           q.in = req[r].in, q.bundle = Seen(req[r]),
           NEW code, NEW status, MayFail(q, code, ""),
           Promise!Refusal(q.in, q.bundle) = code,
           Promise!Failure(q.in, code) = Promise!Envelope(q.in, status, code),
           Step(r, Fail(q, code, status, ""))
    PROVE  Kept
<1>1. code # "" /\ ~ q.in.preflight
  BY CodeIsSet DEF MayFail, CanFail, Local, Sorted
<1>2. Promise!Failure(q.in, code) \in Promise!Answers(q.in, q.bundle)
  BY <1>1, RefusalAnswers
<1> QED BY <1>2, FailKept

\* The route gate and the envelope checks.
LEMMA GateKept ==
    ASSUME IInv, IInv', GInv, NEW r \in Requests, Gate(r)
    PROVE  Kept
<1> DEFINE o == req[r]
           q == GateReads(o)
           p == [q EXCEPT !.pc = "body"]
<1>1. o.pc = "gate" /\ o.pc \in InProxy
  BY OneRequest DEF Gate, RequestStates, InProxy
<1>2. /\ CanFail(q) /\ q.in = o.in /\ q.bundle = live /\ q \in RequestStates
      /\ Passed(o) /\ ~ o.in.preflight
  BY <1>1, GateLocal, OneRequest DEF CanFail, GInv, Owed, Local, Sorted
<1>3. Seen(o) = live
  BY <1>1, <1>2 DEF Passed, Seen
<1>4. \/ live = NoBundle /\ Step(r, Fail(q, "unavailable", 503, ""))
      \/ /\ live # NoBundle /\ ~ LookupRoute(live, q.in.route)
         /\ Step(r, Fail(q, "unknown_route", 404, ""))
      \/ /\ live # NoBundle /\ LookupRoute(live, q.in.route) /\ q.in.body = "otherType"
         /\ Step(r, Fail(q, "unsupported_media_type", 415, ""))
      \/ /\ live # NoBundle /\ LookupRoute(live, q.in.route) /\ q.in.body = "declaredTooLarge"
         /\ Step(r, Fail(q, "request_body_too_large", 413, ""))
      \/ /\ live # NoBundle /\ LookupRoute(live, q.in.route)
         /\ q.in.body \notin {"otherType", "declaredTooLarge"} /\ Step(r, p)
  BY ZenonT(90) DEF Gate, GateReads, UnsupportedMedia
<1> HIDE DEF q
<1>5. /\ MayFail(q, "unknown_route", "") /\ MayFail(q, "unsupported_media_type", "")
      /\ MayFail(q, "request_body_too_large", "")
      /\ live = NoBundle => MayFail(q, "unavailable", "")
  BY <1>2, FailureFacts DEF CanFail, MayFail, Codes, TransformOutcomes
<1>6. CASE live = NoBundle /\ Step(r, Fail(q, "unavailable", 503, ""))
  <2>1. Promise!Refusal(q.in, q.bundle) = "unavailable"
    BY <1>2, <1>6, GateRefusals
  <2>2. Promise!Failure(q.in, "unavailable") = Promise!Envelope(q.in, 503, "unavailable")
    BY FailureStatuses
  <2> HIDE DEF o
  <2> QED BY <1>1, <1>2, <1>3, <1>5, <1>6, <2>1, <2>2, RefuseKept, ZenonT(90) DEF o
<1>7. CASE /\ live # NoBundle /\ ~ LookupRoute(live, q.in.route)
           /\ Step(r, Fail(q, "unknown_route", 404, ""))
  <2>1. Promise!Refusal(q.in, q.bundle) = "unknown_route"
    BY <1>2, <1>7, GateRefusals
  <2>2. Promise!Failure(q.in, "unknown_route") = Promise!Envelope(q.in, 404, "unknown_route")
    BY FailureStatuses
  <2> HIDE DEF o
  <2> QED BY <1>1, <1>2, <1>3, <1>5, <1>7, <2>1, <2>2, RefuseKept, ZenonT(90) DEF o
<1>8. CASE /\ live # NoBundle /\ LookupRoute(live, q.in.route) /\ q.in.body = "otherType"
           /\ Step(r, Fail(q, "unsupported_media_type", 415, ""))
  <2>1. Promise!Refusal(q.in, q.bundle) = "unsupported_media_type"
    BY <1>2, <1>8, GateRefusals
  <2>2. Promise!Failure(q.in, "unsupported_media_type")
              = Promise!Envelope(q.in, 415, "unsupported_media_type")
    BY FailureStatuses
  <2> HIDE DEF o
  <2> QED BY <1>1, <1>2, <1>3, <1>5, <1>8, <2>1, <2>2, RefuseKept, ZenonT(90) DEF o
<1>9. CASE /\ live # NoBundle /\ LookupRoute(live, q.in.route) /\ q.in.body = "declaredTooLarge"
           /\ Step(r, Fail(q, "request_body_too_large", 413, ""))
  <2>1. Promise!Refusal(q.in, q.bundle) = "request_body_too_large"
    BY <1>2, <1>9, GateRefusals
  <2>2. Promise!Failure(q.in, "request_body_too_large")
              = Promise!Envelope(q.in, 413, "request_body_too_large")
    BY FailureStatuses
  <2> HIDE DEF o
  <2> QED BY <1>1, <1>2, <1>3, <1>5, <1>9, <2>1, <2>2, RefuseKept, ZenonT(90) DEF o
<1>10. CASE /\ live # NoBundle /\ LookupRoute(live, q.in.route)
            /\ q.in.body \notin {"otherType", "declaredTooLarge"} /\ Step(r, p)
  <2> HIDE DEF o
  <2>1. p.pc = "body" /\ p.in = o.in /\ p.bundle = live
    BY <1>2 DEF RequestStates
  <2> HIDE DEF p
  <2>2. p.pc \in InProxy /\ Passed(p)
    BY <1>2, <1>10, <2>1 DEF Passed, InProxy, Negotiated
  <2> QED BY <1>1, <1>3, <1>10, <2>1, <2>2, MoveKept DEF o
<1> QED BY <1>4, <1>6, <1>7, <1>8, <1>9, <1>10

\* The body read.
LEMMA ReadBodyKept ==
    ASSUME IInv, IInv', GInv, NEW r \in Requests, ReadBody(r)
    PROVE  Kept
<1> DEFINE q == req[r]
           p == [q EXCEPT !.pc = "negotiate"]
<1>1. q.pc = "body"
  BY DEF ReadBody
<1>2. q.pc \in Serving /\ q.pc \in InProxy
  BY <1>1 DEF Serving, InProxy
<1>3. /\ CanFail(q) /\ q \in RequestStates /\ Passed(q) /\ Seen(q) = q.bundle
      /\ q.bundle # NoBundle /\ ~ q.in.preflight
      /\ LookupRoute(q.bundle, q.in.route) /\ q.in.body \notin {"otherType", "declaredTooLarge"}
  BY <1>2, ServingFacts, ServingSeen DEF Passed
<1>4. MayFail(q, "request_body_too_large", "") /\ MayFail(q, "decode_failed", "")
  BY FailureFacts
<1>5. \/ q.in.body = "chunkedTooLarge" /\ Step(r, Fail(q, "request_body_too_large", 413, ""))
      \/ q.in.body = "unreadable" /\ Step(r, Fail(q, "decode_failed", 400, ""))
      \/ q.in.body \notin {"chunkedTooLarge", "unreadable"} /\ Step(r, p)
  BY Zenon DEF ReadBody
<1>6. CASE q.in.body = "chunkedTooLarge" /\ Step(r, Fail(q, "request_body_too_large", 413, ""))
  <2>1. Promise!Refusal(q.in, q.bundle) = "request_body_too_large"
    BY <1>3, <1>6, GateRefusals
  <2>2. Promise!Failure(q.in, "request_body_too_large")
              = Promise!Envelope(q.in, 413, "request_body_too_large")
    BY FailureStatuses
  <2> QED BY <1>2, <1>3, <1>4, <1>6, <2>1, <2>2, RefuseKept, ZenonT(90)
<1>7. CASE q.in.body = "unreadable" /\ Step(r, Fail(q, "decode_failed", 400, ""))
  <2>1. Promise!Refusal(q.in, q.bundle) = "decode_failed"
    BY <1>3, <1>7, GateRefusals
  <2>2. Promise!Failure(q.in, "decode_failed") = Promise!Envelope(q.in, 400, "decode_failed")
    BY FailureStatuses
  <2> QED BY <1>2, <1>3, <1>4, <1>7, <2>1, <2>2, RefuseKept, ZenonT(90)
<1>8. CASE q.in.body \notin {"chunkedTooLarge", "unreadable"} /\ Step(r, p)
  <2> HIDE DEF q
  <2>1. p.pc = "negotiate" /\ p.in = q.in /\ p.bundle = q.bundle
    BY <1>3 DEF RequestStates
  <2> HIDE DEF p
  <2>2. p.pc \in InProxy /\ Passed(p)
    BY <1>3, <1>8, <2>1 DEF Passed, InProxy, Negotiated
  <2> QED BY <1>2, <1>8, <2>1, <2>2, MoveKept DEF q
<1> QED BY <1>5, <1>6, <1>7, <1>8

\* negotiate.Resolve.
LEMMA NegotiateKept ==
    ASSUME IInv, IInv', GInv, NEW r \in Requests, Negotiate(r)
    PROVE  Kept
<1> DEFINE q == req[r]
           id == Lookup(q.bundle, q.in.route, q.in.version, q.in.sel)
           p == [q EXCEPT !.id = id, !.version = id.version, !.pc = "decode"]
<1>1. q.pc = "negotiate"
  BY DEF Negotiate
<1>2. q.pc \in Serving /\ q.pc \in InProxy
  BY <1>1 DEF Serving, InProxy
<1>3. /\ CanFail(q) /\ q \in RequestStates /\ Passed(q) /\ Seen(q) = q.bundle
      /\ q.bundle # NoBundle /\ ~ q.in.preflight
      /\ LookupRoute(q.bundle, q.in.route)
      /\ q.in.body \notin {"otherType", "declaredTooLarge", "chunkedTooLarge", "unreadable"}
  BY <1>1, <1>2, ServingFacts, ServingSeen DEF Passed
<1>4. MayFail(q, "unsupported_contract_version", "")
  BY FailureFacts
<1>5. \/ /\ q.in.version = Unknown \/ id = NoContract
         /\ Step(r, Fail(q, "unsupported_contract_version", 400, ""))
      \/ q.in.version # Unknown /\ id # NoContract /\ Step(r, p)
  BY Zenon DEF Negotiate
<1>6. CASE /\ q.in.version = Unknown \/ id = NoContract
           /\ Step(r, Fail(q, "unsupported_contract_version", 400, ""))
  <2>1. Promise!Refusal(q.in, q.bundle) = "unsupported_contract_version"
    BY <1>3, <1>6, GateRefusals
  <2>2. Promise!Failure(q.in, "unsupported_contract_version")
              = Promise!Envelope(q.in, 400, "unsupported_contract_version")
    BY FailureStatuses
  <2> HIDE DEF id
  <2> QED BY <1>2, <1>3, <1>4, <1>6, <2>1, <2>2, RefuseKept, ZenonT(90)
<1>7. CASE q.in.version # Unknown /\ id # NoContract /\ Step(r, p)
  <2>1. q.in.version # Unknown /\ id # NoContract /\ Step(r, p)
        /\ id = Lookup(q.bundle, q.in.route, q.in.version, q.in.sel)
    BY <1>7
  <2> HIDE DEF q, id
  <2>2. p.pc = "decode" /\ p.in = q.in /\ p.bundle = q.bundle /\ p.id = id
    BY <1>3 DEF RequestStates
  <2> HIDE DEF p
  <2>3. p.pc \in InProxy /\ Passed(p)
    BY <1>3, <2>1, <2>2 DEF Passed, InProxy
  <2> QED BY <1>2, <2>1, <2>2, <2>3, MoveKept DEF q
<1> QED BY <1>5, <1>6, <1>7

\* The contracts along a request's chain are those the promise speaks of.
LEMMA SameLinks ==
    ASSUME NEW q
    PROVE  \A i \in DOMAIN Links(q) : Links(q)[i] \in Promise!Links(q.bundle, q.id)
BY DEF Links, Promise!Links

\* A chain with request ops may fail to apply.
LEMMA RequestOpsOutcome ==
    ASSUME NEW in, NEW b, NEW id, \E k \in Promise!Links(b, id) : k.requestOps
    PROVE  Promise!Envelope(in, 422, "transform_failed") \in Promise!Outcomes(in, b, id)
BY DEF Promise!Outcomes

\* DecodeRequest.
LEMMA DecodeKept ==
    ASSUME IInv, IInv', GInv, NEW r \in Requests, Decode(r)
    PROVE  Kept
<1> DEFINE o == req[r]
           name == Contract(o).requestMessage
           q == Message(o, name)
           bl == live.messages[name] = Empty
           p == [q EXCEPT !.bodyless = bl, !.pc = "reqops"]
<1>1. o.pc \in Negotiated /\ "reqops" \in Negotiated /\ "reqops" \notin Heard
  BY DEF Decode, Negotiated, Heard
<1>2. /\ CanFail(q) /\ MayFail(q, "decode_failed", "")
      /\ q.in = o.in /\ q.bundle = o.bundle /\ q.id = o.id
  BY <1>1, OwnMessages, MessageLocal, FailureFacts
<1>3. \/ Step(r, p)
      \/ Step(r, Fail(q, "decode_failed", 400, ""))
  BY Zenon DEF Decode
<1> HIDE DEF q, bl
<1>4. CASE Step(r, Fail(q, "decode_failed", 400, ""))
  <2>1. Promise!Envelope(o.in, 400, "decode_failed") \in Promise!Outcomes(o.in, o.bundle, o.id)
    BY OutcomeFacts
  <2> QED BY <1>1, <1>2, <1>4, <2>1, NegotiatedFail, ZenonT(90)
<1>5. CASE Step(r, p)
  <2>1. p.pc = "reqops" /\ p.in = q.in /\ p.bundle = q.bundle /\ p.id = q.id
    BY <1>2 DEF CanFail, RequestStates
  <2> HIDE DEF p
  <2> QED BY <1>1, <1>2, <1>5, <2>1, NegotiatedMove
<1> QED BY <1>3, <1>4, <1>5

\* The request ops.
LEMMA TransformRequestKept ==
    ASSUME IInv, IInv', GInv, NEW r \in Requests, TransformRequest(r)
    PROVE  Kept
<1> DEFINE q == req[r]
           l == Links(q)
           p == [q EXCEPT !.up = l, !.pc = "dial"]
<1>1. /\ q.pc \in Negotiated /\ q.pc \in Serving
      /\ "dial" \in Negotiated /\ "dial" \notin Heard
  BY DEF TransformRequest, Negotiated, Serving, Heard
<1>2. /\ CanFail(q) /\ q \in RequestStates /\ MayFail(q, "transform_failed", "request")
  BY <1>1, ServingFacts, FailureFacts
<1>3. \/ Step(r, p)
      \/ /\ \E i \in DOMAIN l : l[i].requestOps
         /\ Step(r, Fail(q, "transform_failed", 422, "request"))
  BY Zenon DEF TransformRequest, apply
<1>4. CASE /\ \E i \in DOMAIN l : l[i].requestOps
           /\ Step(r, Fail(q, "transform_failed", 422, "request"))
  <2>1. \E k \in Promise!Links(q.bundle, q.id) : k.requestOps
    BY <1>4, SameLinks
  <2>2. Promise!Envelope(q.in, 422, "transform_failed")
           \in Promise!Outcomes(q.in, q.bundle, q.id)
    BY <2>1, RequestOpsOutcome
  <2> QED BY <1>1, <1>2, <1>4, <2>2, NegotiatedFail, ZenonT(90)
<1>5. CASE Step(r, p)
  <2> HIDE DEF q, l
  <2>1. p.pc = "dial" /\ p.in = q.in /\ p.bundle = q.bundle /\ p.id = q.id
    BY <1>2 DEF RequestStates
  <2> HIDE DEF p
  <2> QED BY <1>1, <1>5, <2>1, NegotiatedMove DEF q
<1> QED BY <1>3, <1>4, <1>5

\* A step past the negotiation that only moves on.
LEMMA NegotiatedMoveTo ==
    ASSUME IInv, IInv', GInv, NEW r \in Requests, req[r].pc \in Negotiated,
           NEW to \in Negotiated, to \in Heard => req[r].pc \in Heard,
           Step(r, [req[r] EXCEPT !.pc = to])
    PROVE  Kept
<1> DEFINE q == req[r]
           p == [q EXCEPT !.pc = to]
<1>1. q \in RequestStates /\ Passed(q)
  BY OneRequest DEF GInv, Owed
<1>2. Step(r, p)
  OBVIOUS
<1> HIDE DEF q
<1>3. /\ p.pc = to /\ p.in = q.in /\ p.bundle = q.bundle /\ p.id = q.id
      /\ p.status = q.status
  BY <1>1 DEF RequestStates
<1> HIDE DEF p
<1>4. p.pc \in Heard => p.status \in Statuses
  BY <1>1, <1>3 DEF q, Passed, Heard
<1> QED BY <1>2, <1>3, <1>4, NegotiatedMove DEF q

\* The upstream fails the request.
LEMMA UpstreamErrorKept ==
    ASSUME IInv, GInv, NEW r \in Requests, req[r].pc \in Negotiated,
           NEW q, CanFail(q), q.in = req[r].in, q.bundle = req[r].bundle,
           Step(r, Fail(q, "upstream_error", 502, ""))
    PROVE  Kept
<1>1. MayFail(q, "upstream_error", "")
  BY FailureFacts
<1>2. Promise!Envelope(req[r].in, 502, "upstream_error")
         \in Promise!Outcomes(req[r].in, req[r].bundle, req[r].id)
  BY OutcomeFacts, ZenonT(60)
<1> QED BY <1>1, <1>2, NegotiatedFail, ZenonT(90)

\* The upstream request is built.
LEMMA DialKept ==
    ASSUME IInv, IInv', GInv, NEW r \in Requests, Dial(r)
    PROVE  Kept
<1>1. /\ req[r].pc \in Negotiated /\ req[r].pc \in Serving
      /\ "upstream" \in Negotiated /\ "upstream" \notin Heard
  BY DEF Dial, Negotiated, Serving, Heard
<1>2. CanFail(req[r])
  BY <1>1, ServingFacts
<1>3. \/ Step(r, [req[r] EXCEPT !.pc = "upstream"])
      \/ Step(r, Fail(req[r], "upstream_error", 502, ""))
  BY Zenon DEF Dial
<1> QED BY <1>1, <1>2, <1>3, NegotiatedMoveTo, UpstreamErrorKept, ZenonT(90)

\* The request's deadline passes.
LEMMA DeadlineExpiresKept ==
    ASSUME IInv, IInv', GInv, NEW r \in Requests, DeadlineExpires(r)
    PROVE  Kept
<1> DEFINE q == req[r]
           p == [q EXCEPT !.expired = TRUE]
<1>1. q \in RequestStates /\ Passed(q) /\ q.pc \in Negotiated /\ Step(r, p)
  BY OneRequest DEF DeadlineExpires, Negotiated, GInv, Owed
<1> HIDE DEF q
<1>2. /\ p.pc = q.pc /\ p.in = q.in /\ p.bundle = q.bundle /\ p.id = q.id
      /\ p.status = q.status
  BY <1>1 DEF RequestStates
<1> HIDE DEF p
<1>3. p.pc \in Heard => p.status \in Statuses
  BY <1>1, <1>2 DEF Passed, Heard
<1> QED BY <1>1, <1>2, <1>3, NegotiatedMove DEF q

\* The upstream's response head arrives.
LEMMA UpstreamAnswersKept ==
    ASSUME IInv, IInv', GInv, NEW r \in Requests, UpstreamAnswers(r)
    PROVE  Kept
<1> DEFINE q == req[r]
<1>1. PICK s \in Statuses : Step(r, [q EXCEPT !.status = s, !.pc = "upbody"])
  BY DEF UpstreamAnswers
<1> DEFINE p == [q EXCEPT !.status = s, !.pc = "upbody"]
<1>2. q \in RequestStates /\ q.pc \in Negotiated /\ Step(r, p) /\ "upbody" \in Negotiated
  BY <1>1, OneRequest DEF UpstreamAnswers, Negotiated
<1> HIDE DEF q
<1>3. /\ p.pc = "upbody" /\ p.in = q.in /\ p.bundle = q.bundle /\ p.id = q.id
      /\ p.status = s
  BY <1>2 DEF RequestStates
<1> HIDE DEF p
<1> QED BY <1>1, <1>2, <1>3, NegotiatedMove DEF q

\* client.Do fails.
LEMMA UpstreamFailsKept ==
    ASSUME IInv, GInv, NEW r \in Requests, UpstreamFails(r)
    PROVE  Kept
<1> DEFINE o == req[r]
           l == [o EXCEPT !.late = TRUE]
<1>1. o.pc \in Serving /\ o.pc \in Negotiated
  BY DEF UpstreamFails, Serving, Negotiated
<1>2. /\ CanFail(o) /\ CanFail(l) /\ o \in RequestStates
      /\ MayFail(l, "upstream_timeout", "")
  BY <1>1, ServingFacts, LateLocal, FailureFacts
<1>3. \/ Step(r, Fail(l, "upstream_timeout", 504, ""))
      \/ Step(r, Fail(o, "upstream_error", 502, ""))
  BY Zenon DEF UpstreamFails
<1>4. CASE Step(r, Fail(o, "upstream_error", 502, ""))
  BY <1>1, <1>2, <1>4, UpstreamErrorKept, ZenonT(90)
<1>5. CASE Step(r, Fail(l, "upstream_timeout", 504, ""))
  <2>1. l.in = o.in /\ l.bundle = o.bundle
    <3> HIDE DEF o
    <3> QED BY <1>2 DEF RequestStates
  <2> HIDE DEF l
  <2>2. Promise!Envelope(l.in, 504, "upstream_timeout")
           \in Promise!Outcomes(o.in, o.bundle, o.id)
    BY <2>1, OutcomeFacts
  <2> QED BY <1>1, <1>2, <1>5, <2>1, <2>2, NegotiatedFail, ZenonT(90)
<1> QED BY <1>3, <1>4, <1>5

\* The upstream's body is read, or is not.
LEMMA ReadUpstreamBodyKept ==
    ASSUME IInv, IInv', GInv, NEW r \in Requests, ReadUpstreamBody(r)
    PROVE  Kept
<1> DEFINE o == req[r]
           v == o.expired
           l == [o EXCEPT !.late = v]
<1>1. /\ o.pc \in Serving /\ o.pc \in Negotiated /\ o.pc \in Heard
      /\ "dispatch" \in Negotiated
  BY DEF ReadUpstreamBody, Serving, Negotiated, Heard
<1>2. v \in BOOLEAN /\ o \in RequestStates
  BY OneRequest DEF RequestStates
<1>3. \/ Step(r, [o EXCEPT !.pc = "dispatch"])
      \/ Step(r, Fail(l, "upstream_error", 502, ""))
  BY Zenon DEF ReadUpstreamBody
<1> HIDE DEF v
<1>4. CanFail(l)
  BY <1>1, <1>2, LateLocal
<1>5. CASE Step(r, [o EXCEPT !.pc = "dispatch"])
  BY <1>1, <1>5, NegotiatedMoveTo, Zenon
<1>6. CASE Step(r, Fail(l, "upstream_error", 502, ""))
  <2>1. l.in = o.in /\ l.bundle = o.bundle
    <3> HIDE DEF o
    <3> QED BY <1>2 DEF RequestStates
  <2> HIDE DEF l
  <2> QED BY <1>1, <1>4, <1>6, <2>1, UpstreamErrorKept, ZenonT(90)
<1> QED BY <1>3, <1>5, <1>6

\* A status the contract has an answer of its own for.
LEMMA TypedOutcome ==
    ASSUME NEW in, NEW b, NEW id, NEW s \in Statuses,
           s \in 200..205 \/ s \in DOMAIN b.contract[id].errorMessages
    PROVE  Promise!Typed(in, s) \in Promise!Outcomes(in, b, id)
BY Zenon DEF Promise!Outcomes, Promise!Declared

\* A status relayed under upstream_status.
LEMMA RelayedOutcome ==
    ASSUME NEW in, NEW b, NEW id, NEW s \in Statuses, ~ b.contract[id].strict,
           s \notin 200..205, s \notin DOMAIN b.contract[id].errorMessages,
           ~ IsCapabilityCeiling(s)
    PROVE  Promise!Envelope(in, s, "upstream_status") \in Promise!Outcomes(in, b, id)
<1>1. ~ Promise!IsCapabilityCeiling(s)
  BY SameLookups
<1> QED BY <1>1, Zenon DEF Promise!Outcomes, Promise!Declared

\* A chain with response ops may fail to apply.
LEMMA ResponseOpsOutcome ==
    ASSUME NEW in, NEW b, NEW id,
           \E k \in Promise!Links(b, id) : k.responseOps \/ k.errorResponseOps # {}
    PROVE  Promise!Envelope(in, 502, "transform_failed") \in Promise!Outcomes(in, b, id)
BY DEF Promise!Outcomes

\* A typed answer.
LEMMA TypedKept ==
    ASSUME IInv, GInv, NEW r \in Requests, req[r].pc \in Negotiated,
           NEW q \in RequestStates, Local(q), q.pc \in Negotiated,
           q.in = req[r].in, q.bundle = req[r].bundle, NEW s \in Statuses,
           s \in 200..205 \/ s \in DOMAIN Contract(req[r]).errorMessages,
           Step(r, Answer(q, s))
    PROVE  Kept
<1> DEFINE o == req[r]
           p == Answer(q, s)
           h == Promise!Typed(q.in, s)
<1>1. o.pc \in Serving
  BY DEF Serving
<1>2. /\ Passed(o) /\ ~ o.in.preflight /\ Seen(o) = o.bundle /\ o.bundle # NoBundle /\ Waits(o)
  BY <1>1, ServingSeen
<1>3. h \in Promise!Outcomes(o.in, o.bundle, o.id)
  BY TypedOutcome DEF Contract
<1>4. h \in Promise!Answers(q.in, q.bundle)
  BY <1>2, <1>3, AcceptedAnswers
<1>5. Said(q, p, h) /\ Step(r, p)
  BY AnswerSaid
<1> HIDE DEF p, h
<1> QED BY <1>2, <1>4, <1>5, SaidKept

\* The status dispatch.
LEMMA DispatchKept ==
    ASSUME IInv, IInv', GInv, NEW r \in Requests, Dispatch(r)
    PROVE  Kept
<1> DEFINE q == req[r]
           s == q.status
<1>1. q.pc = "dispatch"
  BY DEF Dispatch
<1>2. q.pc \in Negotiated /\ q.pc \in Serving /\ q.pc \in Heard /\ "respops" \in Negotiated
  BY <1>1 DEF Negotiated, Serving, Heard
<1>3. /\ q \in RequestStates /\ Local(q) /\ CanFail(q) /\ Passed(q)
      /\ MayFail(q, "upstream_status", "")
  BY <1>2, ServingFacts, ServingSeen, OneRequest, FailureFacts
<1>4. s \in Statuses /\ s \in Nat
  BY <1>1, <1>3, StatusFacts DEF Passed
<1>5. \/ Step(r, [q EXCEPT !.pc = "respops"])
      \/ s \in {204, 205} /\ Step(r, Answer(q, s))
      \/ Step(r, Fail(q, "upstream_error", 502, ""))
      \/ /\ ~ IsSuccess(s) /\ s \notin {204, 205} /\ ~ IsCapabilityCeiling(s)
         /\ s \notin DOMAIN Contract(q).errorMessages /\ ~ Contract(q).strict
         /\ Step(r, Fail(q, "upstream_status", s, ""))
  BY ZenonT(60) DEF Dispatch
<1>6. CASE Step(r, [q EXCEPT !.pc = "respops"])
  BY <1>2, <1>6, NegotiatedMoveTo, Zenon
<1>7. CASE s \in {204, 205} /\ Step(r, Answer(q, s))
  <2>1. s \in 200..205
    <3> HIDE DEF s
    <3> QED BY <1>7
  <2>2. Step(r, Answer(q, s))
    BY <1>7
  <2> HIDE DEF s
  <2>3. s \in Statuses /\ (s \in 200..205 \/ s \in DOMAIN Contract(q).errorMessages)
    BY <1>4, <2>1
  <2>4. q \in RequestStates /\ Local(q) /\ q.pc \in Negotiated
    BY <1>2, <1>3
  <2> QED BY <2>2, <2>3, <2>4, TypedKept, ZenonT(60)
<1>8. CASE Step(r, Fail(q, "upstream_error", 502, ""))
  BY <1>2, <1>3, <1>8, UpstreamErrorKept, ZenonT(90)
<1>9. CASE /\ ~ IsSuccess(s) /\ s \notin {204, 205} /\ ~ IsCapabilityCeiling(s)
           /\ s \notin DOMAIN Contract(q).errorMessages /\ ~ Contract(q).strict
           /\ Step(r, Fail(q, "upstream_status", s, ""))
  <2>1. s \notin 200..205
    <3>1. ~ IsSuccess(s) /\ s \notin {204, 205} /\ s \in Nat
      BY <1>4, <1>9
    <3> HIDE DEF s
    <3> QED BY <3>1 DEF IsSuccess
  <2> HIDE DEF s
  <2>2. Promise!Envelope(q.in, s, "upstream_status") \in Promise!Outcomes(q.in, q.bundle, q.id)
    BY <1>4, <1>9, <2>1, RelayedOutcome DEF Contract
  <2> QED BY <1>2, <1>3, <1>9, <2>2, NegotiatedFail, ZenonT(90)
<1> QED BY <1>5, <1>6, <1>7, <1>8, <1>9

\* The response ops.
LEMMA TransformResponseKept ==
    ASSUME IInv, IInv', GInv, NEW r \in Requests, TransformResponse(r)
    PROVE  Kept
<1> DEFINE q == req[r]
           back == Back(q)
           l == Links(q)
           p == [q EXCEPT !.down = back, !.pc = "encode"]
<1>1. /\ q.pc \in Negotiated /\ q.pc \in Serving /\ q.pc \in Heard
      /\ "encode" \in Negotiated
  BY DEF TransformResponse, Negotiated, Serving, Heard
<1>2. /\ CanFail(q) /\ q \in RequestStates /\ Passed(q)
      /\ MayFail(q, "transform_failed", "response")
  BY <1>1, ServingFacts, ServingSeen, FailureFacts
<1>3. \/ Step(r, p)
      \/ /\ \E i \in DOMAIN l : IF IsSuccess(q.status) THEN l[i].responseOps
                                ELSE q.status \in l[i].errorResponseOps
         /\ Step(r, Fail(q, "transform_failed", 502, "response"))
  BY Zenon DEF TransformResponse, Back, apply
<1>4. CASE /\ \E i \in DOMAIN l : IF IsSuccess(q.status) THEN l[i].responseOps
                                  ELSE q.status \in l[i].errorResponseOps
           /\ Step(r, Fail(q, "transform_failed", 502, "response"))
  <2>1. PICK i \in DOMAIN l : l[i].responseOps \/ q.status \in l[i].errorResponseOps
    BY <1>4, Zenon
  <2>2. l[i] \in Promise!Links(q.bundle, q.id)
    BY SameLinks
  <2>3. l[i].responseOps \/ l[i].errorResponseOps # {}
    BY <2>1
  <2> HIDE DEF l
  <2>4. Promise!Envelope(q.in, 502, "transform_failed")
           \in Promise!Outcomes(q.in, q.bundle, q.id)
    BY <2>2, <2>3, ResponseOpsOutcome
  <2> QED BY <1>1, <1>2, <1>4, <2>4, NegotiatedFail, ZenonT(90)
<1>5. CASE Step(r, p)
  <2> HIDE DEF q, back
  <2>1. /\ p.pc = "encode" /\ p.in = q.in /\ p.bundle = q.bundle /\ p.id = q.id
        /\ p.status = q.status
    BY <1>2 DEF RequestStates
  <2> HIDE DEF p
  <2>2. p.status \in Statuses
    BY <1>1, <1>2, <2>1 DEF Passed, Heard
  <2> QED BY <1>1, <1>5, <2>1, <2>2, NegotiatedMove DEF q
<1> QED BY <1>3, <1>4, <1>5

\* EncodeResponse and EncodeError.
LEMMA EncodeKept ==
    ASSUME IInv, GInv, NEW r \in Requests, Encode(r)
    PROVE  Kept
<1> DEFINE o == req[r]
           c == Contract(o)
           name == IF IsSuccess(o.status) THEN c.responseMessage
                   ELSE c.errorMessages[o.status]
           q == Message(o, name)
<1>1. o.pc = "encode"
  BY DEF Encode
<1>2. o.pc \in Negotiated /\ o.pc \in Serving /\ o.pc \in Heard
  BY <1>1 DEF Negotiated, Serving, Heard
<1>3. Answerable(o) /\ Passed(o) /\ o.status \in Statuses /\ o.status \in Nat
  BY <1>1, <1>2, OneRequest, ServingSeen, StatusFacts DEF Local, Bound, Passed
<1>4. Resolvable(o.bundle, name)
  BY <1>2, <1>3, OwnMessages DEF Answerable
<1>5. \/ Step(r, Answer(q, q.status))
      \/ Step(r, Fail(q, "upstream_error", 502, ""))
  BY Zenon DEF Encode
<1> HIDE DEF name
<1>6. /\ CanFail(q) /\ q.pc = o.pc /\ q.status = o.status
      /\ q.in = o.in /\ q.bundle = o.bundle /\ q.id = o.id
  BY <1>2, <1>4, MessageLocal
<1> HIDE DEF q
<1>7. o.status \in 200..205 \/ o.status \in DOMAIN Contract(o).errorMessages
  BY <1>3 DEF Answerable, IsSuccess
<1>8. CASE Step(r, Answer(q, q.status))
  BY <1>2, <1>3, <1>6, <1>7, <1>8, TypedKept, Zenon DEF CanFail
<1>9. CASE Step(r, Fail(q, "upstream_error", 502, ""))
  BY <1>2, <1>6, <1>9, UpstreamErrorKept, ZenonT(90)
<1> QED BY <1>5, <1>8, <1>9

\* The client sees nothing of a panic yet.
LEMMA PanicsKept ==
    ASSUME IInv, GInv, NEW r \in Requests, Panics(r)
    PROVE  Kept
<1> DEFINE q == req[r]
<1>1. PICK kind \in {"panic", "abort"} :
            Step(r, [q EXCEPT !.panic = kind, !.pc = "return"])
  BY DEF Panics
<1> DEFINE p == [q EXCEPT !.panic = kind, !.pc = "return"]
<1>2. /\ q \in RequestStates /\ Local(q) /\ Step(r, p) /\ Passed(q)
      /\ q.pc \in InProxy \cup {"idle", "preflight"} /\ Waits(q)
  BY <1>1, OneRequest, InsideWaits DEF Panics, GInv, Owed
<1>3. q.wire = <<>> /\ ~ q.wrote
  BY <1>2, InsideTruthful
<1> HIDE DEF q
<1>4. /\ p.pc = "return" /\ p.wire = q.wire /\ p.wrote = q.wrote
      /\ p.in = q.in /\ p.bundle = q.bundle
  BY <1>2 DEF RequestStates
<1> HIDE DEF p
<1>5. Owed(p) /\ Waits(p)
  BY <1>2, <1>3, <1>4 DEF Owed, Passed, Due, Waits, Serving, Negotiated
<1> QED BY <1>2, <1>4, <1>5, LookKept DEF q

\* The fields a client's exchange is made of, but the stage.
SameExchange(q, p) ==
    /\ p.in = q.in /\ p.bundle = q.bundle /\ p.wire = q.wire
    /\ p.wrote = q.wrote /\ p.header = q.header

\* On the way out nothing refuses a request any more.
LEMMA ExitPassed ==
    ASSUME NEW q, Passed(q), NEW p, p.in = q.in, p.bundle = q.bundle,
           q.pc \in {"return", "recover"}, p.pc \in {"recover", "done", "aborted"}
    PROVE  Passed(p)
BY DEF Passed, Serving, Negotiated

\* A step on the way out that the client sees nothing of.
LEMMA ExitUnseen ==
    ASSUME IInv, GInv, NEW r \in Requests, NEW p, Step(r, p), SameExchange(req[r], p),
           req[r].pc \in {"return", "recover"},
           p.pc = "recover" \/ (p.pc \in {"done", "aborted"} /\ p.wire # <<>>)
    PROVE  Kept
<1>1. Passed(req[r]) /\ Due(req[r])
  BY DEF GInv, Owed
<1>2. Passed(p)
  BY <1>1, ExitPassed DEF SameExchange
<1>3. Due(p)
  BY <1>1 DEF Due, SameExchange
<1>4. Exchange(p) = Exchange(req[r])
  BY DEF Exchange, SameExchange
<1> QED BY <1>2, <1>3, <1>4, UnseenKept DEF Owed

\* What net/http makes of a handler that returned, as the client sees it.
LEMMA ReturnedWire ==
    ASSUME NEW q \in RequestStates
    PROVE  LET p == Returned(q)
           IN  /\ p.pc = "done" /\ p.in = q.in /\ p.bundle = q.bundle
               /\ p.wrote = q.wrote /\ p.header = q.header
               /\ q.wire # <<>> => p.wire = q.wire
               /\ q.wire = <<>> => p.wire = <<[q.header EXCEPT !.status = 200]>>
<1> DEFINE h == [q.header EXCEPT !.status = 200]
           w == Append(q.wire, h)
           p1 == [q EXCEPT !.pc = "done"]
           p0 == [q EXCEPT !.pc = "done", !.wire = w]
<1>1. CASE q.wire # <<>>
  <2>1. Returned(q) = p1
    BY <1>1 DEF Returned
  <2>2. /\ p1.pc = "done" /\ p1.in = q.in /\ p1.bundle = q.bundle
        /\ p1.wrote = q.wrote /\ p1.header = q.header /\ p1.wire = q.wire
    BY DEF RequestStates
  <2> HIDE DEF p1
  <2> QED BY <1>1, <2>1, <2>2
<1>2. CASE q.wire = <<>>
  <2>1. Returned(q) = p0
    BY <1>2 DEF Returned
  <2> HIDE DEF h
  <2>2. w = <<h>>
    BY <1>2
  <2> HIDE DEF w
  <2>3. /\ p0.pc = "done" /\ p0.in = q.in /\ p0.bundle = q.bundle
        /\ p0.wrote = q.wrote /\ p0.header = q.header /\ p0.wire = w
    BY ZenonT(60) DEF RequestStates
  <2> HIDE DEF p0
  <2> QED BY <1>2, <2>1, <2>2, <2>3 DEF h
<1> QED BY <1>1, <1>2

\* The deferred function shows the client nothing.
LEMMA DeferredKept ==
    ASSUME IInv, GInv, NEW r \in Requests, Deferred(r)
    PROVE  Kept
<1> DEFINE o == req[r]
           Leave(s) == IF s.panic = "none" THEN Returned(s) ELSE [s EXCEPT !.pc = "recover"]
           n == o.requests + 1
           sp == IF o.outcome = "ok" THEN "ok" ELSE "error"
           q1 == [o EXCEPT !.requests = n, !.span = sp]
           q2 == [o EXCEPT !.requests = n, !.panic = "panic"]
<1>1. o \in RequestStates /\ Local(o) /\ o.pc = "return"
  BY OneRequest DEF Deferred
<1>2. n \in Nat /\ sp \in SpanStates /\ "panic" \in Raisable
  <2>1. o.requests = 0
    BY <1>1 DEF Local, Counted
  <2> QED BY <2>1 DEF SpanStates, Raisable
<1>3. \/ Step(r, Leave(o)) \/ Step(r, Leave(q1)) \/ Step(r, Leave(q2))
  <2>1. /\ q1 = [o EXCEPT !.requests = @ + 1, !.span = sp]
        /\ q2 = [o EXCEPT !.requests = @ + 1, !.panic = "panic"]
    BY <1>1 DEF RequestStates
  <2> QED BY <2>1, Zenon DEF Deferred
<1> HIDE DEF n, sp
<1>4. ASSUME NEW q \in RequestStates, SameExchange(o, q),
             q.panic = o.panic \/ q.panic = "panic", Step(r, Leave(q))
      PROVE  Kept
  <2>1. CASE q.panic = "none"
    <3> DEFINE p == Returned(q)
    <3>1. q.wire # <<>>
      <4>1. Len(o.wire) = 1
        BY <1>1, <1>4, <2>1 DEF Local, Tracked
      <4>2. o.wire # <<>>
        BY <4>1, NonEmptyFacts
      <4> QED BY <1>4, <4>2 DEF SameExchange
    <3>2. p.pc = "done" /\ SameExchange(q, p) /\ p.wire # <<>>
      BY <3>1, ReturnedWire DEF SameExchange
    <3>3. Step(r, p)
      BY <1>4, <2>1
    <3> HIDE DEF p
    <3>4. SameExchange(o, p)
      BY <1>4, <3>2 DEF SameExchange
    <3> QED BY <1>1, <3>2, <3>3, <3>4, ExitUnseen
  <2>2. CASE q.panic # "none"
    <3> DEFINE p == [q EXCEPT !.pc = "recover"]
    <3>1. SameExchange(q, p) /\ p.pc = "recover" /\ Step(r, p)
      BY <1>4, <2>2 DEF SameExchange, RequestStates
    <3> HIDE DEF p
    <3>2. SameExchange(o, p)
      BY <1>4, <3>1 DEF SameExchange
    <3> QED BY <1>1, <3>1, <3>2, ExitUnseen
  <2> QED BY <2>1, <2>2
<1>5. CASE Step(r, Leave(o))
  <2>1. SameExchange(o, o)
    BY DEF SameExchange
  <2> HIDE DEF o, Leave
  <2> QED BY <1>1, <1>4, <1>5, <2>1
<1>6. CASE Step(r, Leave(q1))
  <2> HIDE DEF o, Leave
  <2>1. q1 \in RequestStates
    BY <1>1, <1>2, ZenonT(90) DEF RequestStates
  <2>2. SameExchange(o, q1) /\ q1.panic = o.panic
    BY <1>1 DEF SameExchange, RequestStates
  <2> HIDE DEF q1
  <2> QED BY <1>4, <1>6, <2>1, <2>2
<1>7. CASE Step(r, Leave(q2))
  <2> HIDE DEF o, Leave
  <2>1. q2 \in RequestStates
    BY <1>1, <1>2, ZenonT(90) DEF RequestStates
  <2>2. SameExchange(o, q2) /\ q2.panic = "panic"
    BY <1>1 DEF SameExchange, RequestStates
  <2> HIDE DEF q2
  <2> QED BY <1>4, <1>7, <2>1, <2>2
<1> QED BY <1>3, <1>5, <1>6, <1>7

\* A connection dropped without a word.
LEMMA DropKept ==
    ASSUME IInv, GInv, NEW r \in Requests, NEW p, Step(r, p), Owed(p), Waits(req[r]),
           p.in = req[r].in, p.bundle = req[r].bundle, p.wire = <<>>, p.pc = "aborted"
    PROVE  Kept
<1> DEFINE x == [s \in Requests |-> Exchange(req[s])]
           q == req[r]
<1>1. x' = [x EXCEPT ![r] = Exchange(p)] /\ x[r] = Exchange(q) /\ live' = live
  BY OneExchange
<1>2. x[r].phase = "open" /\ x[r].in = q.in /\ x[r].view = q.bundle
  BY <1>1, WaitsOpen
<1>3. Exchange(p) = Promise!Dropped(q.in, q.bundle)
  BY DEF Exchange, Promise!Dropped
<1>4. Promise!Drop(r)
  BY <1>1, <1>2, <1>3 DEF Promise!Drop, Promise!Open, Promise!Turn
<1> QED BY <1>4, OwedStep DEF Kept, Promise!Next

\* A panic answered before anything else was.
LEMMA CrashKept ==
    ASSUME IInv, GInv, NEW r \in Requests, NEW p, Step(r, p), Owed(p), Waits(req[r]),
           p.in = req[r].in, p.bundle = req[r].bundle, p.pc = "done",
           p.wire = <<Promise!Envelope(p.in, 500, "internal_error")>>
    PROVE  Kept
<1> DEFINE x == [s \in Requests |-> Exchange(req[s])]
           q == req[r]
           h == Promise!Envelope(p.in, 500, "internal_error")
<1>1. x' = [x EXCEPT ![r] = Exchange(p)] /\ x[r] = Exchange(q) /\ live' = live
  BY OneExchange
<1>2. x[r].phase = "open" /\ x[r].in = q.in /\ x[r].view = q.bundle
  BY <1>1, WaitsOpen
<1>3. h = Promise!Failure(p.in, "internal_error") /\ p.wire = <<h>>
  BY FailureStatuses
<1> HIDE DEF h
<1>4. Exchange(p) = Promise!Answered(q.in, q.bundle, h)
  BY <1>3 DEF Exchange, Promise!Answered
<1> DEFINE g == Promise!Failure(q.in, "internal_error")
<1>5. h = g
  BY <1>3
<1> HIDE DEF g
<1>6. x' = [x EXCEPT ![r] = Promise!Answered(q.in, q.bundle, g)] /\ UNCHANGED live
  BY <1>1, <1>4, <1>5
<1>7. Promise!Crash(r)
  BY <1>1, <1>2, <1>6 DEF Promise!Crash, Promise!Open, Promise!Turn, g
<1> QED BY <1>7, OwedStep DEF Kept, Promise!Next

\* A status net/http refuses is only ever due under a bundle.
LEMMA DueSeen ==
    ASSUME NEW q, Due(q), q.wrote, q.wire = <<>>
    PROVE  Seen(q) = q.bundle
<1>1. q.header \in Promise!Answers(q.in, q.bundle) /\ q.header.status \notin 100..999
  BY DEF Due
<1>2. ASSUME q.bundle = NoBundle, ~ q.in.preflight
      PROVE  FALSE
  <2>1. Promise!Refusal(q.in, q.bundle) = "unavailable"
    BY <1>2, GateRefusals
  <2>2. q.header = Promise!Failure(q.in, "unavailable")
    BY <1>1, <1>2, <2>1 DEF Promise!Answers
  <2>3. Promise!Failure(q.in, "unavailable") = Promise!Envelope(q.in, 503, "unavailable")
    BY FailureStatuses
  <2>4. Promise!Envelope(q.in, 503, "unavailable").status = 503
    BY DEF Promise!Envelope
  <2>5. q.header.status = 503
    BY <2>2, <2>3, <2>4
  <2> QED BY <1>1, <2>5
<1> QED BY <1>2 DEF Seen

\* Recover answers internal_error, leaves a started response to net/http, or
\* lets the connection be dropped.
LEMMA RecoverKept ==
    ASSUME IInv, GInv, NEW r \in Requests, Recover(r)
    PROVE  Kept
<1> DEFINE q == req[r]
           c == RecoverCounts(q)
           w == WriteHeader(c, 500, "internal_error", q.in.version)
           h == [status |-> 500, code |-> "internal_error", version |-> q.in.version]
<1>1. q \in RequestStates /\ Local(q) /\ q.pc = "recover" /\ Passed(q) /\ Due(q)
  BY OneRequest DEF Recover, GInv, Owed
<1>2. \/ Step(r, [q EXCEPT !.pc = "aborted"])
      \/ q.panic # "abort" /\ q.wrote /\ Step(r, Returned(c))
      \/ q.panic # "abort" /\ ~ q.wrote /\ Step(r, Returned(w))
  BY ZenonT(90) DEF Recover, RecoverCounts
<1>3. SameExchange(q, c)
  BY <1>1 DEF SameExchange, RecoverCounts, RequestStates
<1>4. q.wire = <<>> => Waits(q)
  BY <1>1 DEF Waits
<1>5. CASE Step(r, [q EXCEPT !.pc = "aborted"])
  <2> DEFINE p == [q EXCEPT !.pc = "aborted"]
  <2> HIDE DEF q
  <2>1. SameExchange(q, p) /\ p.pc = "aborted" /\ Step(r, p)
    BY <1>1, <1>5 DEF SameExchange, RequestStates
  <2> HIDE DEF p
  <2>2. Passed(p) /\ Due(p)
    BY <1>1, <2>1, ExitPassed DEF SameExchange, Due
  <2>3. CASE q.wire = <<>>
    BY <1>1, <1>4, <2>1, <2>2, <2>3, DropKept DEF q, Owed, SameExchange
  <2>4. CASE q.wire # <<>>
    BY <1>1, <2>1, <2>4, ExitUnseen DEF q, SameExchange
  <2> QED BY <2>3, <2>4
<1>6. CASE q.panic # "abort" /\ q.wrote /\ Step(r, Returned(c))
  <2> DEFINE p == Returned(c)
             a == q.header
             s == [c.header EXCEPT !.status = 200]
  <2> HIDE DEF q, c
  <2>1. c \in RequestStates
    BY <1>1, <1>6, RecoverCountsLocal DEF c
  <2>2. /\ p.pc = "done" /\ p.in = q.in /\ p.bundle = q.bundle
        /\ p.wrote = q.wrote /\ p.header = q.header
        /\ q.wire # <<>> => p.wire = q.wire
        /\ q.wire = <<>> => p.wire = <<s>>
    BY <1>3, <2>1, ReturnedWire DEF SameExchange
  <2>3. Step(r, p) /\ s = [a EXCEPT !.status = 200]
    BY <1>3, <1>6 DEF SameExchange
  <2> HIDE DEF p, s
  <2>4. Passed(p)
    BY <1>1, <2>2, ExitPassed
  <2>5. CASE q.wire # <<>>
    BY <1>1, <2>2, <2>3, <2>5, ExitUnseen DEF q, SameExchange
  <2>6. CASE q.wire = <<>>
    <3>1. a \in Promise!Answers(q.in, q.bundle) /\ a.status \notin 100..999
      BY <1>1, <1>6, <2>6 DEF Due
    <3>2. Seen(q) = q.bundle
      BY <1>1, <1>6, <2>6, DueSeen
    <3> HIDE DEF a
    <3>3. Promise!Sent(a) = s
      BY <2>3, <3>1 DEF Promise!Sent
    <3>4. p.wire = <<Promise!Sent(a)>> /\ p.wire # <<>>
      <4>1. p.wire = <<s>>
        BY <2>2, <2>6
      <4>2. <<s>> # <<>>
        OBVIOUS
      <4> QED BY <3>3, <4>1, <4>2
    <3>5. Owed(p)
      BY <2>4, <3>4 DEF Owed, Due
    <3>6. Waits(q) /\ p.pc # "idle" /\ p.in = q.in /\ p.bundle = Seen(q)
      BY <1>4, <2>2, <2>6, <3>2
    <3>7. a \in Promise!Answers(q.in, Seen(q))
      BY <3>1, <3>2
    <3> QED BY <2>3, <3>4, <3>5, <3>6, <3>7, ReplyKept DEF q
  <2> QED BY <2>5, <2>6
<1>7. CASE q.panic # "abort" /\ ~ q.wrote /\ Step(r, Returned(w))
  <2>1. q.wire = <<>>
    <3>1. q.wire \in Seq(Responses) /\ Len(q.wire) = 0
      BY <1>1, <1>7 DEF Local, Tracked, RequestStates
    <3> QED BY <3>1, EmptySeq
  <2>2. /\ "internal_error" \in WireCodes /\ q.in.version \in WireVersions
        /\ 500 \in Nat /\ 500 \in 100..999
    <3>1. "internal_error" \in WireCodes
      BY DEF WireCodes, Codes
    <3>2. q.in \in Inputs
      BY <1>1 DEF Local, Sorted
    <3>3. q.in.version \in WireVersions
      BY <3>2, InputFacts DEF WireVersions
    <3> QED BY <3>1, <3>3
  <2> DEFINE p == Returned(w)
  <2> HIDE DEF q, c
  <2>3. c \in RequestStates /\ c.wire = <<>>
    BY <1>1, <1>3, <1>7, <2>1, RecoverCountsLocal DEF c, SameExchange
  <2>4. HeaderSent(c, w, h)
    BY <2>2, <2>3, WriteHeaderFields
  <2>5. Said(c, w, h)
    BY <2>3, WriteHeaderSaid
  <2>6. h.status = 500 /\ h = Promise!Envelope(q.in, 500, "internal_error")
    BY DEF Promise!Envelope
  <2> HIDE DEF w, h
  <2>7. w \in RequestStates /\ w.wire = <<h>> /\ w.in = q.in /\ w.bundle = q.bundle
    BY <1>3, <2>2, <2>4, <2>5, <2>6 DEF HeaderSent, Said, SameExchange
  <2>8. w.wire # <<>>
    BY <2>7
  <2>9. /\ p.pc = "done" /\ p.in = q.in /\ p.bundle = q.bundle /\ p.wire = <<h>>
    BY <2>7, <2>8, ReturnedWire
  <2>10. Step(r, p)
    BY <1>7
  <2> HIDE DEF p
  <2>11. Owed(p)
    BY <1>1, <2>7, <2>8, <2>9, ExitPassed DEF Owed, Due
  <2>12. p.wire = <<Promise!Envelope(p.in, 500, "internal_error")>>
    BY <2>6, <2>9
  <2> QED BY <1>4, <2>1, <2>9, <2>10, <2>11, <2>12, CrashKept DEF q
<1> QED BY <1>2, <1>5, <1>6, <1>7

\* The server's own steps publish a bundle, or the client sees nothing of them.
LEMMA ServerKept ==
    ASSUME IInv, GInv,
           OperatorWrites \/ Boot \/ Sighup \/ LoadStart \/ LoadFinish \/ UNCHANGED vars
    PROVE  Kept
<1> DEFINE x == [s \in Requests |-> Exchange(req[s])]
<1>1. req' = req
  BY DEF OperatorWrites, Boot, Sighup, LoadStart, LoadFinish, vars
<1>2. x' = x
  BY <1>1
<1>3. GInv'
  <2>1. \A r \in Requests : Owed(req[r])'
    BY <1>1 DEF GInv
  <2> QED BY <2>1 DEF GInv
<1>4. live' = live \/ live' \in Bundles
  <2>1. CASE Boot
    <3>1. disk.resolution \in Resolutions /\ disk.layers \in LayerSets
      BY DEF IInv, TypeOK
    <3> QED BY <2>1, <3>1 DEF Boot, Bundles
  <2>2. CASE LoadFinish
    <3>1. loader.resolution \in Resolutions /\ disk.layers \in LayerSets
      BY DEF IInv, TypeOK
    <3> QED BY <2>2, <3>1 DEF LoadFinish, Bundles
  <2>3. CASE OperatorWrites \/ Sighup \/ LoadStart \/ UNCHANGED vars
    BY <2>3 DEF OperatorWrites, Sighup, LoadStart, vars, environment
  <2> QED BY <2>1, <2>2, <2>3
<1>5. CASE live' = live
  BY <1>2, <1>3, <1>5 DEF Kept, Promise!vars
<1>6. CASE live' \in Bundles
  <2>1. Promise!Publish
    BY <1>2, <1>6 DEF Promise!Publish
  <2> QED BY <1>3, <2>1 DEF Kept, Promise!Next
<1> QED BY <1>4, <1>5, <1>6

\* Nothing is asked and nothing published at the start.
LEMMA InitKept == Init => Promise!Init /\ GInv
<1> SUFFICES ASSUME Init
             PROVE  Promise!Init /\ GInv
  OBVIOUS
<1>1. live = NoBundle /\ req = [r \in Requests |-> Fresh]
  BY DEF Init
<1>2. /\ Fresh.pc = "idle" /\ Fresh.in = NoInput /\ Fresh.bundle = NoBundle
      /\ Fresh.wire = <<>> /\ Fresh.wrote = FALSE
  BY DEF Fresh
<1>3. Exchange(Fresh) = Promise!Idle
  BY <1>2 DEF Exchange, Promise!Idle
<1>4. Owed(Fresh)
  BY <1>2 DEF Owed, Passed, Due, Serving, Negotiated
<1>5. \A r \in Requests : req[r] = Fresh
  BY <1>1
<1>6. [r \in Requests |-> Exchange(req[r])] = [r \in Requests |-> Promise!Idle]
  BY <1>3, <1>5
<1>7. GInv
  BY <1>4, <1>5 DEF GInv
<1> QED BY <1>1, <1>6, <1>7 DEF Promise!Init

\* Every step of the data plane keeps the promise.
LEMMA NextKept == IInv /\ GInv /\ [Next]_vars => Kept
<1> SUFFICES ASSUME IInv, GInv, [Next]_vars
             PROVE  Kept
  OBVIOUS
<1>1. IInv'
  BY NextInv
<1>2. ASSUME NEW r \in Requests, Request(r)
      PROVE  Kept
  <2>1. CASE \E input \in Inputs : Arrive(r, input)
    BY <1>1, <2>1, ArriveKept
  <2>2. CASE Preflight(r)
    BY <2>2, PreflightKept
  <2>3. CASE Handler(r)
    BY <1>1, <2>3, GateKept, ReadBodyKept, NegotiateKept, DecodeKept, TransformRequestKept,
       DialKept, DispatchKept, TransformResponseKept, EncodeKept, DeferredKept,
       RecoverKept DEF Handler
  <2>4. CASE UpstreamAnswers(r) \/ UpstreamFails(r) \/ ReadUpstreamBody(r)
    BY <1>1, <2>4, UpstreamAnswersKept, UpstreamFailsKept, ReadUpstreamBodyKept
  <2>5. CASE DeadlineExpires(r) \/ Panics(r)
    BY <1>1, <2>5, DeadlineExpiresKept, PanicsKept
  <2> QED BY <1>2, <2>1, <2>2, <2>3, <2>4, <2>5 DEF Request
<1> QED BY <1>2, ServerKept DEF Next, Reloader

-----------------------------------------------------------------------------
(* The properties *)

\* The state of the server and of its requests is of its types, whatever is
\* loaded, sent, answered or signalled, and in whatever order.
THEOREM TypeCorrect == Spec => []TypeOK
<1>1. IInv => TypeOK
  BY DEF IInv
<1> QED BY <1>1, InvariantHolds, PTL

\* recover.go:104-115: at most one status line per request, and exactly one
\* when the connection was not aborted.
THEOREM OneResponseHolds == Spec => []OneResponse
<1>1. IInv => OneResponse
  <2> SUFFICES ASSUME IInv, NEW r \in Requests
               PROVE  /\ Len(req[r].wire) <= 1
                      /\ req[r].pc = "done" => Len(req[r].wire) = 1
    BY DEF OneResponse
  <2>1. /\ Len(req[r].wire) = 0 \/ Len(req[r].wire) = 1
        /\ req[r].pc = "done" => Len(req[r].wire) = 1
    BY OneRequest DEF Local, Tracked
  <2> DEFINE n == Len(req[r].wire)
  <2>2. n \in {0, 1}
    BY <2>1
  <2> HIDE DEF n
  <2>3. n <= 1
    BY <2>2
  <2> QED BY <2>1, <2>3 DEF n
<1> QED BY <1>1, InvariantHolds, PTL

\* http.go:183-190 and recover.go:103: the two counters agree with what the
\* client was sent when the request is over.
THEOREM CountersMatchWireHolds == Spec => []CountersMatchWire
<1>1. IInv => CountersMatchWire
  <2> SUFFICES ASSUME IInv, NEW r \in Requests, Ended(req[r])
               PROVE  LET q == req[r]
                      IN  /\ q.requests = IF q.in.preflight THEN 0 ELSE 1
                          /\ Len(q.counted) = (IF q.outcome = "ok" THEN 0 ELSE 1)
                                              + (IF q.panic = "panic" THEN 1 ELSE 0)
                          /\ \A i \in DOMAIN q.wire : q.wire[i].code # "" =>
                               \E k \in DOMAIN q.counted : q.counted[k].code = q.wire[i].code
    BY DEF CountersMatchWire
  <2> DEFINE q == req[r]
  <2>1. Counted(q) /\ CodesCounted(q) /\ Raised(q) /\ q.pc \in {"done", "aborted"}
    BY OneRequest DEF Local, Ended
  <2> HIDE DEF q
  <2>2. q.requests = IF q.in.preflight THEN 0 ELSE 1
    BY <2>1 DEF Counted
  <2>3. Len(q.counted) = (IF q.outcome = "ok" THEN 0 ELSE 1)
                         + (IF q.panic = "panic" THEN 1 ELSE 0)
    BY <2>1 DEF Counted, Failures, Raised
  <2>4. \A i \in DOMAIN q.wire : q.wire[i].code # "" =>
            \E k \in DOMAIN q.counted : q.counted[k].code = q.wire[i].code
    BY <2>1 DEF CodesCounted, CodeCounted
  <2> QED BY <2>2, <2>3, <2>4 DEF q
<1> QED BY <1>1, InvariantHolds, PTL

\* http.go:162-171: no client can add a metric series.
THEOREM LabelsBoundedHolds == Spec => []LabelsBounded
<1>1. IInv => LabelsBounded
  <2> SUFFICES ASSUME IInv, NEW r \in Requests,
                      NEW label \in {req[r].version} \cup
                          {req[r].counted[i].version : i \in DOMAIN req[r].counted}
               PROVE  \/ label = Unknown
                      \/ /\ req[r].bundle # NoBundle
                         /\ \E id \in req[r].bundle.ids : id.version = label
    BY DEF LabelsBounded
  <2>1. Labelled(req[r])
    BY OneRequest DEF Local
  <2> QED BY <2>1 DEF Labelled, IsLabel
<1> QED BY <1>1, InvariantHolds, PTL

\* server.go:104-110, 160-168: once ready, never unavailable.
THEOREM ReadyMeansServedHolds == Spec => []ReadyMeansServed
<1>1. IInv => ReadyMeansServed
  BY OneRequest DEF ReadyMeansServed, Local, Served
<1> QED BY <1>1, InvariantHolds, PTL

\* bundle.go:553-576 with server.go:117-123: a message of the negotiated
\* contract is missing only from another bundle.
THEOREM ResolvableUnlessSwappedHolds == Spec => []ResolvableUnlessSwapped
<1>1. IInv => ResolvableUnlessSwapped
  BY OneRequest DEF ResolvableUnlessSwapped, Local, SwapSeen
<1> QED BY <1>1, InvariantHolds, PTL

\* http.go:442-502: a response without X-Wavefront-Error relays a status the
\* negotiated contract has an answer for, and no capability ceiling is relayed.
THEOREM TypedResponsesDeclaredHolds == Spec => []TypedResponsesDeclared
<1>1. CInv => TypedResponsesDeclared
  BY DEF CInv, Content, Truthful, Genuine, TypedResponsesDeclared
<1> QED BY <1>1, ContentHolds, PTL

\* http.go:349-361, 465-471, 504-510: an encoded answer went back through the
\* contracts of its way out, last first.
THEOREM MirroredChainHolds == Spec => []MirroredChain
<1>1. IInv /\ CInv => MirroredChain
  <2> SUFFICES ASSUME IInv, CInv, NEW r \in Requests, req[r].pc = "encode"
               PROVE  LET q == req[r]
                      IN  /\ Len(q.up) > 0 /\ q.up[1] = Contract(q)
                          /\ Len(q.down) = Len(q.up)
                          /\ \A i \in DOMAIN q.up : q.down[i] = q.up[Len(q.up) + 1 - i]
    BY DEF MirroredChain
  <2> DEFINE q == req[r]
             ch == q.bundle.chain[q.id]
             n == Len(ch)
  <2>1. q.pc \in Serving /\ q.pc \in Negotiated /\ q.pc \in Upward
    BY DEF Serving, Negotiated, Upward
  <2>2. q.bundle \in Bundles /\ q.id \in q.bundle.ids
    BY <2>1, ServingFacts
  <2>3. q.up = Links(q) /\ q.down = Back(q)
    BY <2>1 DEF CInv, Content, Mirrored
  <2> HIDE DEF q
  <2>4. ch \in Seq(q.bundle.ids) /\ n > 0 /\ ch[1] = q.id
    BY <2>2, BundleFacts DEF WellFormed, SoundChains
  <2> HIDE DEF ch
  <2>5. n \in Nat /\ DOMAIN ch = 1..n
    BY <2>4, LenProperties
  <2> HIDE DEF n
  <2>6. Links(q) = [i \in 1..n |-> q.bundle.contract[ch[i]]]
    BY <2>5 DEF Links, ch
  <2>7. Len(Links(q)) = n /\ DOMAIN Links(q) = 1..n /\ Links(q)[1] = Contract(q)
    BY <2>4, <2>5, <2>6 DEF Contract
  <2>8. Back(q) = [i \in 1..n |-> Links(q)[n + 1 - i]]
    BY <2>7 DEF Back
  <2>9. Len(Back(q)) = n /\ \A i \in 1..n : Back(q)[i] = Links(q)[n + 1 - i]
    BY <2>5, <2>8
  <2> QED BY <2>3, <2>4, <2>7, <2>9 DEF q
<1> QED BY <1>1, ContentHolds, PTL

\* protocol.md:199-214: the data plane implements the gateway its clients are
\* promised.  Each request is answered once or dropped, and decided under one
\* bundle, the one in force when it passed the gate, whatever is reloaded.
THEOREM KeepsPromiseHolds == Spec => KeepsPromise
<1>1. Spec => [](IInv /\ GInv) /\ [][Promise!Next]_(Promise!vars)
  <2>1. Init => Promise!Init /\ GInv
    BY InitKept
  <2> QED BY InitInv, NextInv, NextKept, <2>1, PTL DEF Spec, Kept
<1> QED BY <1>1, InitKept, PTL DEF Spec, KeepsPromise, Promise!Spec
=============================================================================
