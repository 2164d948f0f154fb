# Wavefront in TLA+

Wavefront is a contract-translating reverse proxy. Clients speak protobuf under a
contract version they name in a header; upstreams speak JSON. A *bundle directory*
says which contracts exist (one layer per version) and how old versions are served
(`resolution.yaml`: transform into another version, or route to another upstream).
A SIGHUP makes the running proxy read the directory again.

This directory holds a model of that program in TLA+, the TLC runs that check it
on small instances, and TLAPS proofs of its main invariants for all instances.

| file | what it is |
|---|---|
| `Bundle.tla` | the resolved view of a bundle and its lookups, as operators; `WellFormed`, what `Load` promises |
| `BundleTheorems.tla` | theorems about selectors and lookup |
| `BundleLoad.tla`, `MCBundleLoad.*` | `bundle.Load`, stage by stage |
| `BundleLoad_proofs.tla` | what an accepted directory is, and why one is refused, proved |
| `Proxy.tla`, `MCProxy.tla`, `MCProxy*.cfg` | the data plane with the reload goroutine |
| `Gateway.tla` | what the data plane promises its clients: the abstract specification `Proxy` implements |
| `Proxy_proofs.tla` | the inductive invariants of `Proxy`, the theorems that follow and the refinement |
| `StdlibBoundary.tla`, `MCStdlibBoundary.cfg` | the stdlib-boundary counter |
| `StdlibBoundary_proofs.tla` | its invariants, proved |
| `Lifecycle.tla`, `MCLifecycle.cfg` | `Run`'s graceful shutdown and the span exporter |
| `Lifecycle_proofs.tla` | their invariants, proved |
| `BundleTool.tla`, `MCBundleTool.tla`, `MCBundleTool.cfg`, `MCBundleRetire.cfg` | the bundle tool's commands on the files of a directory, and a load beside them |
| `BundleDir.tla` | what the tool promises of a directory: the abstract specification `BundleTool` implements |
| `BundleTool_proofs.tla` | its inductive invariant and the refinement, proved |
| `Lowering.tla` | what `add` makes of an OpenAPI document: components, names, messages, bindings |
| `Lowering_proofs.tla` | reproducibility, distinct names and bindings, proved |
| `Drift.tla` | `draft-shim` |
| `Transform.tla` | the transform verbs on JSON trees |
| `Shim.tla`, `MCShim.tla`, `MCShim*.cfg` | the life of a shim, which composes the last three with `toOps` and the adapter |
| `Shim_proofs.tla` | lemmas about the verbs, the invariant of `Shim`, the round trip of an echo, and what a draft bridges, proved |
| `PROJECT.json` | components, runs, mutants, source map, findings, hazards, theorems |

## The system

| component | state | operations | talks to |
|---|---|---|---|
| bundle (`internal/bundle`) | an immutable `*Bundle` per load: contracts, selector variants, chains, merged descriptors | `Load`, `LookupRoute`, `Lookup`, `Message` | read by the proxy and by the adapter's resolver |
| data plane (`internal/server/http.go`, `recover.go`) | per request: the bundle read at the gate, the contract, the labels, the outcome, the response tracker | `Recover` around `proxy`; `proxyPreflight` | bundle, adapter, transform, upstream, metrics, tracer |
| negotiation, adapter, wire errors | none | pure functions of the request; the adapter resolves descriptors through `Server.Message` | called by `proxy` |
| reload (`server.go`, `cmd/wavefront/main.go`) | `Server.bundle`, an atomic pointer; `hupCh`, a channel of one slot | `SetBundle`, `ReloadBundle`, the SIGHUP goroutine | the bundle directory, the data plane |
| stdlib-boundary counter (`stdlib_boundary.go`) | `connStateMap`, the status sniffed per connection | `connState`, `markHandlerSeen`, `sniffingConn.Write` | net/http callbacks |
| tracing exporter (`internal/tracing`) | queue of 1024 spans, `stopCh`, `doneCh` | `StartSpan`, `End`, the worker, `Shutdown` | handlers, collector |
| run (`server.go`) | the two listeners, one 10 s budget | `Run` | everything above |
| configuration, ops endpoints, probe | none after start | `TargetURL`, `/ready`, `/health`, `/metrics` | |
| bundle tool: commands (`internal/bundlegen`, `cmd/wavefront-bundle`) | files of the bundle directory: three per layer, and `resolution.yaml` | `add`, `add --force`, `remove`, `retire`, `verify` | the directory the proxy loads from; the operator |
| bundle tool: generation (`bundlegen.go`) | per `add`: components collected, names given, messages built | `allOperations`, `collectSchemas`, `sanitizeMessageNames`, `buildMessage` | writes the layer the proxy decodes with |
| bundle tool: drift (`drift.go`) | none | `DraftShim`, `DraftShimStrict` | drafts stanzas that `toOps` and `apply` must take |
| transform verbs (`internal/transform`) | per body: the decoded value, the paths made optional | `apply` with `rename`, `default`, `coerce`, `optionalize` | called by `proxy` per link of a chain |

What is hard to test here, and so what the properties are about (the full list,
with lines, is under `hazards` in `PROJECT.json`):

* **Two goroutines and a pointer.** A reload may swap the bundle between any two
  steps of a request, and the pointer is read in more than one place.
* **Signals that may be dropped.** `hupCh` has one slot; the reload reads
  `resolution.yaml` and the layers at different moments, while the operator edits.
* **Unwinding.** A panic may start anywhere, after the response has started or
  inside `WriteHeader`; two nested deferred functions then update counters, log,
  span and response.
* **Deadlines.** The upstream may be silent before its head or in its body. (A client
  that stops reading is bounded by nothing: see *Fairness*.)
* **Load.** Selector rules may overlap, transform targets may dangle or cycle, a
  copy made in the wrong place would combine two rules.
* **Keepalive.** One connection mixes served and refused requests.
* **Files.** A layer is three files written one after the other, with no rename
  and no lock: a kill, a full disk or a load may fall between any two.
* **Sequences of commands.** Each of add, retire, remove and an edit is legal, and
  together they may leave a directory that does not load.
* **Map order.** The generator walks Go maps; the same document must give the same
  layer, and names that sanitize alike must stay apart.
* **Paths and verbs.** Lists of stanzas run in order over nested and repeated
  fields, links answer in the opposite order, and a draft is made by one part of
  the program and judged by two others.
* **Shutdown.** Handlers, a scrape and the collector share one budget, and the
  span queue is bounded.

## Modules and the code

### Bundle

A *(path, method)* pair is one value, a route. A `*Contract` is named by its
version, route and selector tuple (the canonical contract has the empty tuple),
and a chain is a sequence of names where the code has pointers. Of the transform
ops only their presence is kept, per direction and per declared error status.
`selectorMatches`, `selectorOverlap`, `LookupRoute`, `Lookup` and `Resolvable`
(`Bundle.Message`) keep the code's meaning. `WellFormed` is the interface between
the two halves of the project: `BundleLoad` is proved to establish it, `Proxy`
assumes it of whatever a load returns.

### BundleLoad

One action per stage of `Load`, in the code's order: `LayerDirs`,
`LoadResolution` (one override at a time), `ReadLayers` with the descriptor merge
and the package-collision test, `AddContract` (one entry at a time),
`ApplyResolution`, then `resolveChains` as `StartChain` / `FollowTarget`, and
`Return`. Every early return is `Refuse`. Parsing is abstracted to flags of the
input: a layer is intact or not, a contract filled in or not, a rule complete or
not, and it fits a route or not (`toOps`). `Loaded` is the bundle returned.

The cycle test works on versions. A selector rule of v1 that targets v2, whose
fallback rule targets v1, is refused although v1's own contract is a terminal and
the chain would be finite; `HasCycle` says so, and a bundle is never refused for
less.

### Proxy and Gateway

`req[r]` holds the local variables of `proxy` and `Recover` for one request, and
`pc` the place it has reached. The steps are cut where another goroutine, the
client, the upstream or the clock can come in between:
`Arrive`, `Gate`, `ReadBody`, `Negotiate`, `Decode`, `TransformRequest`, `Dial`,
`UpstreamAnswers` / `UpstreamFails` / `DeadlineExpires`, `ReadUpstreamBody`,
`Dispatch`, `TransformResponse`, `Encode`, then the deferred functions `Deferred`
(of `proxy`) and `Recover`. `Panics` may interrupt any step, and the log handler
may panic inside `Deferred`, which leaves the span unended. `Message` is
`Server.Message`: it reads `live` again. `Fail` is `fail` with `writeError`, and
`WriteHeader` is the response tracker's, which panics on a status net/http
rejects. A CORS preflight is set aside on arrival as in the code. Writing an answer is
part of the step that sends it: the steps say what goes out and in which order, not
how long the client takes to read it.

The other half is the reload: `OperatorWrites` edits the directory, `Sighup` puts
a signal into a channel of one slot or loses it, `LoadStart` and `LoadFinish` are
`ReloadBundle` with its two reads of the directory. `Boot` is the first load:
`main` listens only after `SetBundle`, while a `Server` embedded without it
answers 503 `unavailable` until then, so requests may arrive before `Boot`.
`LoadBundle` is a constant operator; the MC module gives small directories and
the bundles they load to, and TLC evaluates `LoadAssumption` on them.

Data-dependent results (bytes that do not decode, a stanza that does not apply)
are nondeterministic where the code can go both ways and forced where it cannot:
an absent body always decodes, a contract without ops never fails to transform, a
bodyless call with request ops always fails. History variables (`reads`, `up`,
`down`, `late`, `ready`, `unresolved`, `asked`) record what the properties need
and guard nothing.

`Gateway` is the promise in the client's terms (`docs/protocol.md`, "Error codes";
`docs/operations.md`, "Reload"), with no handler in it. A bundle is in force until
another is published. An exchange is idle, open, answered once or dropped, and the
bundle in force at *one* moment while it is open (`Look`, or the answer itself) says
what the answer can be: `Refusal` gives the first reason that applies, in the
promised order, and `Outcomes` what an accepted request can be told under its
contract and chain. A crash before a word was said is answered `internal_error`, and
a connection may be dropped. The mapping (`Exchange` and `Promise` at the end of
`Proxy`) takes the bundle read at the gate for the one looked at, the bytes sent for
the answer, and gives a request that ended with neither answer nor abort a phase
that `Gateway` does not have. Where the code departs from the documents the promise
says what holds in their place, in two operators of its own. `Sent` makes 200 of a
status that net/http refuses to write (the finding `NoFabricatedSuccess`).
`PreflightAnswers` gives a preflight what `proxyPreflight` does, an upstream's answer
without a contract version or a plain-text 502, and not what the documents promise of
every response (see below).

### StdlibBoundary

net/http is external and behaves as the header of `stdlib_boundary.go` describes:
`StateActive` announces a request, which its reader refuses with a status
(`Refuse`) or in silence (`GiveUp`), or hands to the handler. The hooks are
the code's: `Active` resets the map entry, `Handler` marks it, `Closed` loads and
deletes it and counts, `Write` sniffs the connection's first write. The history
variable `sent` records the statuses of all responses of a connection, so that a
property can say which of them the label is: `LabelIsFirstResponse` holds for
keepalive refusals too.
`StateHijacked` is left out: nothing on the data plane hijacks.

### Lifecycle

`Run` after a signal (`Sigterm`, `DataShutdown`, `OpsShutdown`,
`TracerShutdown`, `BudgetExpires`), the listener failure that ends the process,
the worker of the exporter (`Take`, `Export`, `StopSeen`, `DrainEnds`), and of a
handler only what these see: `StartSpan` and `End`. With tracing disabled the
exporter is nil and every span is; that is the case where no span is ever opened.

### BundleTool and BundleDir

`BundleTool` has one action per system call another process can see. `AddStart`,
`RemoveStart` and `RetireStart` are the checks of a command, which happen before
anything is written; then `RemoveFile` / `RemoveDir` (`os.RemoveAll`, files in any
order), `MkdirAll`, and per file `OpenFile` (created, empty) and `WriteFile`, as
`os.WriteFile` is both. `Interrupt` is a kill or a failing call after any of them;
`ShortManifest` and `ShortResolution` are a disk that fills up within a write, at
the only places where a cut file still parses: after an entry. `Rewritten` is what
`resolutionEntry` keeps of a rule. `Verify` reads; `Edit` is the operator's save.
Beside the commands a server's load reads the directory's names, then
`resolution.yaml`, then file after file (`LoadStart`, `LoadResolution`,
`LoadFile`, `LoadEnd`), and judges what it read by `Loadable`, which says as a
predicate what `BundleLoad` does step by step. Selector tuples are disjoint here;
the overlap test is `BundleLoad`'s. `careful` is a history variable: every command
so far was one that the documents allow.

`BundleDir` is the promise of `docs/concepts.md`, "Bundle lifecycle": a version is
absent, torn or whole, a whole version is given up only by the removal of the
oldest version or by `--force`, and of the commands only `retire` rewrites
`resolution.yaml`. The mapping (`Dir` at the end of `BundleTool`) calls a layer
whole if its three files are all there is to one document, and torn if not.

### Lowering

`add` up to the point where it writes: `ReadOperations` with the schema each side
binds (`BoundTo`: the synthetic `Empty` for a bodyless side), `Visit` for
`collectSchemas` one component at a time and in any order, `Collected` with the
test that a body is a message, `NameMessage` one name at a time in lexical order
with `uniqueIdent`, `BuildMessage` one message at a time, and protodesc's final
check. A schema is a kind, the kind of its items and what it refers to. Aliases
(a `$ref` to something that is no message) are followed as `buildField` does, as
far as there are components; a chain that is longer is a cycle, on which the code
recurses until the stack is gone (`crashed`). `wktMessageName` tells an open object,
which becomes a `Struct`, from a union, which becomes a `Value`.

### Drift

`draftDirection` in the code's order: confident renames (not in a strict draft),
candidates, defaults for what is left on the new side, coercions, notes. Both
matchings are greedy, over sorted names (`Pairs`).

### Transform

A JSON value is a tree: a function from positions to nodes. The walkers recurse
and stop at the first failure, and a failure discards the body, so what they do is
said of all instances of a path at once: `walkLeavesFails` and
`ensureObjectsFails` for the way down, then each verb at the parents of its leaf.
Texts and numbers are a small set with `ParseFloat` and `Float64` given as
functions, among them a number JSON cannot write and one that float64 rounds. A
number that a `default` injects may be a Go integer, as the YAML loader left it
(`NumberKinds`); `coerce` has no case for one and fails. `Apply` is one stanza, `Marshal` the end of `apply`.

### Shim

Two documents are lowered, one after the other; a shim is drafted
(`DraftShim`, strict or not, its coercion types corrected or not, OPTION A taken or
not) or written by hand (`WriteShim`, up to two links); `Load` checks it by `toOps`
and `validatePathAgainstMessage`; then a JSON value that protojson can emit for the
old version's message goes through the links (`Request`, `Run`, `NextLink`), the
upstream echoes or replies with something else (`Reply`), the links answer
backwards (`PreviousLink`) and `Encode` decides whether the client gets it. A link
carries its own version's layer as in the code; the second link of a hand-written
chain belongs to the new version.

A field has two names, and three readers of a name. A path in `resolution.yaml` means
the proto name before the JSON name (`FieldNamed`), and goes on wherever the field is
of a message kind, behind a map into its entry message and behind a `Struct` or
`Value` into struct.proto's (`FieldsBehind`, `FieldsAlong`), so that `labels.value`
loads. protojson reads the JSON name before the proto name, and the API documents the
JSON name (`Lookup`); what a body holds behind a map or a `Struct` is anything.
`Reached` follows a body's names from a message down, `Fits` says of a body that every name leads to a field
that takes the value. From these come `Described` (what the document describes),
`Conforms` (what protojson takes, no field under two names) and `Emits` (what
protojson writes: no zero field without presence, 64-bit integers as strings). A
request whose message has no fields has no body (`HasBody`, `Nil`, adapter.go:72): it
goes through the links all the same, and a link with request stanzas fails on it.

`DraftBridges` says what a draft is worth. It asks for `PlainDrift`: what changed
between the two versions is primitive, what is below the rest is the same, and no
component is called `Empty`. It asks for a draft without notes, whose candidates were
taken for renames (or that has none), and that loads. Then the upstream gets what its
document describes, what it answers as its document describes the client's message
takes, and a transform fails only on `BodysFault`: a field that is not there, a value
without a form in the other type, a number JSON cannot write. A request of the old
version without properties is the exception, and `DraftBridges` says what becomes of
it: it has no body, so it passes only if the new request has no properties either; if
it has, the draft writes a `default` for each, has no notes, loads, and refuses every
request with 422. What is left of the
hypothesis is what the draft does not do: it has no stanza for a field whose type
changes to or from something that is no primitive, and it looks at the top of a
message only.

## Runs

`swap` takes about two minutes, `tool` about a minute and a half, `paths` under a
minute (93,800 states), `shim` twenty seconds (76,693), the others less.

| run | question | result |
|---|---|---|
| `load` | Is every accepted directory servable and complete, every refusal of a chain justified, does `Load` end? | holds; 3 layer lists with every list of up to 3 overrides out of 16, and 10 broken layer lists |
| `paths` | On every path out of the handler, panics and a silent upstream included: is the request answered or aborted, with one response, counters that agree with it, bounded labels, only declared statuses, an answer that `Gateway` allows? | holds for 144 inputs and a preflight, 13 statuses on the edges of the dispatch, 4 resolutions |
| `swap` | Does a request survive edits and reloads at any point, does the last signalled edit go live, and is there one bundle that accounts for each answer (`Gateway`)? | holds: never refused for want of a bundle, answers go back the way they came, a message goes missing only if the bundle was swapped; with a channel of no slot the edit would be lost |
| `boundary` | Does the counter see exactly the refused connections, and under which status? | holds for two keepalive connections of three requests (15,129 states): the status is that of the connection's first response |
| `shutdown` | Are accepted spans exported once, in order, and all of them when the budget suffices? Does `Run` return? | holds with a queue of one and three requests |
| `tool` | Can commands, kills, a full disk and edits in any order mix two documents in a layer, or show a load such a mix? Do careful commands keep the directory loadable? Does the tool keep `BundleDir`'s promise? | holds for three versions, five accepted documents (two of version 2, one of version 3 that collides with version 1's package) and a refused one, four resolution files, three events |
| `shim` | Is a layer reproducible, are names distinct and properties kept? Do stanzas leave a JSON value and touch only what they address? Does an echo come back as it left? Does a draft bridge what it claims to bridge? | holds for 27 documents (eight of them refused), every pair of accepted ones, thirteen hand-written shims (five refused) and every draft, requests without a body among them |
| `in_flight`, `late_body`, `invalid_status`, `retire`, `optionalize` | What a comment or a doc says and the code does not do | violated, see below |

Bounds. Requests share nothing but the bundle pointer, which they only read, so
one request beside the reloads reaches every interleaving that a property of
requests can tell apart; the theorems cover any number. `swap` allows two edits
and two signals: one reload can fall between gate and decode and a second between
decode and encode, each of a directory edited since; likewise one signal can be
buffered while a reload runs. `Versions` and `Routes` are the smallest with an unknown version, an
unbound route, a bodyless route and a chain. For `load`, three versions give
chains of three, convergence and cycles of one to three; `MaxChain` (5) is above
the number of versions and is never reached unless the cycle test is gone. A span
queue of one with three requests is full while the worker is busy; the code's 1024
differs in nothing else.

`tool` bounds the commands, edits and loads begun together by `MaxEvents` (3): a
command that is interrupted, one that starts over, and a load or an edit; retire
after an edit, then remove. Each is several steps, and steps of a load interleave
with those of a command. `shim` runs one request at a time, as `apply` shares
nothing. Its documents are the smallest in which every branch of the generator is
taken: names that sanitize alike, or collide with a numbered one, aliases, an
alias cycle, maps, arrays, unions, nullables, a bodyless side, declared errors, a
capability-ceiling status, hollow schemas, and each refusal. Bodies have up to
four levels and two array elements. Nothing is symmetric under a liveness check, so no
symmetry is used.

Deadlock is not checked: requests end, `Load` returns, connections close and the
process exits, and nothing is left to do then. What must not get stuck is stated
as liveness.

Fairness (`FairSpec` of `Proxy` and `Lifecycle`, `Spec` of `BundleLoad`). A handler
takes its next step as long as nothing has gone out to its client: up to there only
the request's body and the upstream can hold it up. The body's read is bounded by
`ReadTimeout`, `client.Do` and the upstream's body by the request's context, whose
deadline fires. Once the status line is out nothing is assumed of the handler any
more: it is in `w.Write`, the data plane has no `WriteTimeout` (`server.go:30-33`),
and a client that stops reading a large response holds it there. That is why
`EveryRequestAnswered` promises an answer or an abort and not an end. The SIGHUP
goroutine runs; the exporter's POST ends within the client's 5 s; a `Shutdown` call
returns when its condition holds or its context is done. `ops.Shutdown` is only
assumed to return once the budget is gone. Nothing is assumed of the upstream, the
operator, the collector or the handlers during shutdown, and of the client no more
than that `ReadTimeout` ends its request. `BundleTool` and `Shim` state no fairness: a command
may stop anywhere, and their properties are of safety.

Every property of a passing run has a mutant, a one-definition bug of the kind a
change to the code could introduce, under which TLC finds it violated. The mutants
are the definitions commented `Mutant:`, next to what they replace.

## Where the code and its documentation differ

* `in_flight` / `OneBundlePerRequest`. `server.go:102` and `docs/operations.md:42`
  say a request stays on the bundle it started under. Negotiation does; the
  adapter's resolver loads the pointer again at decode and at encode, so a reload
  in between encodes with another bundle's descriptors, or fails a request that
  its own bundle could have served. `ResolvableUnlessSwapped` is what does hold.
* `late_body` / `LateUpstreamIsTimeout`. A deadline that passes while the
  upstream's body is read is answered 502 `upstream_error`, not the 504
  `upstream_timeout` of `wireerror.go:171`.
* `invalid_status` / `NoFabricatedSuccess`. An upstream status below 100, which
  Go's client accepts, panics in net/http's `WriteHeader` after the tracker has
  noted a response. `Recover` writes nothing and net/http sends 200.
* `retire` / `RetirePreservesOverrides`. `Retire` decodes `resolution.yaml` into
  structs that have neither `selectors` nor `error_responses` and writes those back,
  so the other versions' selector rules become version-wide and their error stanzas
  are lost; `bundlegen.go:1291` promises them "preserved verbatim". Two selector
  rules of one version become two rules for the version, which `Load` refuses.
* `optionalize` / `OptionalizeCoversByName`. `walkLeaves` asks whether the *rest* of
  the path is covered, and covering paths are whole: with `optionalize {data}` a
  stanza on `data.sub.x` still fails when `sub` is absent. `docs/protocol.md:147`
  says it is covered.

Also observed while reading the code for the models, and not run:

* `docs/protocol.md:187-195` and `:338` and `docs/operations.md:86` promise
  `X-Wavefront-Contract-Version` on every response, and the first of them a typed
  envelope with `X-Wavefront-Error` on every failure in transport. A CORS preflight is
  relayed before any of that (`http.go:149-153`, `:523-561`): its answers carry no
  contract version, and when the default upstream cannot be reached, in time or at
  all, it is a plain-text 502 without envelope or code. `Gateway.PreflightAnswers`, and
  so `KeepsPromise`, states what the code does.
* `server.go:30-33` gives as the reason for leaving `WriteTimeout` unset that "a
  response is bounded by the per-request upstream context". That context bounds the
  call to the upstream and not the writing of the answer: a client that does not read
  holds the handler for as long as it likes.
* `docs/protocol.md:331` calls `wavefront_stdlib_boundary_total` unlabelled; it has the
  label `status` (`metrics.go:50-55`).
* A request that panics and is answered 500 `internal_error` is logged and traced
  with outcome `ok`: the deferred function runs before `Recover` (`http.go:213`).
* The header of `stdlib_boundary.go` (`:29-34`) says that a refusal without a response
  is counted as `unknown`. On a keepalive connection that served a request before, it
  is counted under the status of that earlier response, and so is a refusal with a
  response of its own: the sniffer keeps the first (`stdlib_boundary.go:226`).
  `LabelIsFirstResponse` states it so.
* `adapter.go:67-71` takes a message without fields for the synthetic `Empty` because
  "the generator never emits a zero-field message for a real schema". It does
  (`bundlegen.go:652-654` says so), and the JSON of such a message is discarded.
* Where an old operation has no request body, or one without properties, and the new
  one has properties, `draft-shim` writes a `default` for each, without a note. The
  shim loads, and every request of the old version fails with `transform_failed`:
  there is no body to put the default into (`adapter.go:72`, `transform.go:81-87`).
  `docs/embedding.md:27-30` knows of no such case; `DraftBridges` names it.
* `retire` drops comments, and with them the header by which `verify` finds a draft
  that was never resolved.
* `draft-shim` writes the OpenAPI type (`int32`, `boolean`) as the target of a
  coercion, and an array or object as a default; `toOps` refuses both, so such a
  draft does not load until it is corrected (`Corrected` in `Shim`). A field that
  keeps its name and changes its type to or from something that is no primitive
  gets neither a stanza nor a note, which is why `DraftBridges` asks for primitive
  drift.
* A cycle of aliases overflows the stack in `buildField`; an OpenAPI property with
  a dot in its name cannot be addressed by a path, which reads it as nesting.

## Proofs

Every theorem holds for all values of the constants that satisfy the assumptions
named with it; TLC evaluates each assumption on the instances it checks. From
nothing, `Shim_proofs` takes tlapm about ten minutes, the other modules less.

`BundleTheorems`: the overlap test is exact (`OverlapIsExact`: it refuses two
rules if and only if some request matches both), on a well-formed bundle the order
of the rules does not matter (`LookupIgnoresRuleOrder`), and `Lookup` answers with
a contract of the version and route asked for, or none (`LookupIsBound`).

`BundleLoad_proofs`: `TypeOK`, `LoadSound`, `LoadComplete`, `RulesDoNotCombine` and
`ChainRefusalJustified`, for any layers and overrides (`DirAssumption`: what a
directory listing is). `LoadSound` is what `Proxy` assumes of its bundles, so the
two halves meet in a theorem. The invariant follows the stages: what has been read
is what the directory says; a contract that a rule has been applied to is the
layer's own contract with that one rule, whatever has been applied before it, which
is where a copy taken in the wrong place would show; rules that are in the table
are disjoint by `OverlapIsExact`; and the chain being followed is a path of the
target relation whose versions are all different, so that it can end only at a
terminal, at a target that is not there, or at a version it has met. `LoadComplete`
adds `Progress`: every entry of every layer has a position, and all before the next
one have been read.

`Proxy_proofs`: `Spec => []P` for `TypeOK`, `OneResponse`, `CountersMatchWire`,
`LabelsBounded`, `ReadyMeansServed`, `ResolvableUnlessSwapped`,
`TypedResponsesDeclared` and `MirroredChain`, for any requests, bundles, inputs,
statuses and bounds. Assumptions: `BundleAssumption`, `InputAssumption` (the fields
of what a client sends), `StatusAssumption` (an HTTP client never hands on a 1xx but
101), `ProxyAssumption` (the default upstream is configured, `"unknown"` is no
version) and `LoadAssumption`: a load fails or returns a `WellFormed` bundle, which
is `LoadSound`.

None of these properties is inductive: what the deferred functions write depends
on what the handler left behind. The first invariant is `IInv`: `TypeOK` and, for
every request, `Local` and `Anchored`. `Local(q)` is about one request alone: before
the handler returns nothing has been written, counted or raised (`Quiet`); the
bundle and the contract fit (`Bound`); a response is out only if the tracker knows
(`Tracked`); a panic is under way exactly where `Recover` expects one (`Raised`);
counters, codes, versions and labels agree at each place after the return
(`Counted`, `CodesCounted`, `Echoed`, `Labelled`). `Anchored` is the one fact that
ties a request to the rest: the pointer is not nil once a request has passed the
gate or was told the server is ready. The proof has a lemma per kind of step (a
failure, an answer, a move within the handler), one per action, and closes over
the reload, which leaves the requests alone and never makes the pointer nil.

On top of it `CInv` says which contract a request is at, and what went up and came
down the chain so far; from it follow `MirroredChain` and `TypedResponsesDeclared`.
The latter holds of a response without an error code, with one exception that
the proof brought out and `MayAnswer` states: a status net/http refuses to write
panics after the tracker has noted it, and the client gets a 200 that no code
accompanies (the finding `NoFabricatedSuccess`).

`KeepsPromiseHolds` is the refinement `Spec => KeepsPromise`, from the same
assumptions: whatever is reloaded and whenever, wherever the handler panics, an
exchange gets one answer or is dropped, and some one bundle allows the answer. `GInv`
adds two facts about each request. `Passed`: its bundle is the one read at the gate;
nothing that it has passed could have refused it under that bundle, and once
negotiated its contract is the one that bundle has for it, which is what a second
read of the pointer during negotiation would break. `Due`: where the tracker has
noted a response that was not sent, that response is one that could have been given,
so the 200 that `Recover` leaves to net/http is accounted for. The kinds of answer
are lemmas: each refusal is the first reason that applies, since the checks
before it were passed; each failure and each typed response is among the outcomes of
the contract. Then every action of a request is one of `Ask`, `Look`, `Reply`, `Crash`,
`Drop` or unseen, a reload is `Publish`, and the rest of the system is unseen.

`StdlibBoundary_proofs`: `TypeOK`, `RefusalsCounted`, `NoLeak` and
`LabelIsFirstResponse`, for any connections, statuses and number of keepalive
requests (`BoundaryAssumption` gives the ranges of the statuses). The invariant says
what the map entry means at each state of the connection: fresh while a request is
being read, marked once it was answered, and, when the connection is closing,
unmarked exactly if the reader refused (`EntryFits`); only closed, refused
connections are counted (`CountFits`); and what the sniffer holds is the status of the
first of the responses sent, if there was one (`SniffFits`).

`Lifecycle_proofs`: `TypeOK` with the bound on the queue, `ExportedInOrder` and
`GracefulFlush`, for any requests and any queue depth above zero
(`LifecycleAssumption`). `GracefulFlush` rests on the order of the three calls: within
the budget `Run` leaves `data.Shutdown` only when the handlers are drained
(`InBudget`), none starts after that (`DrainedIdle`), the tracer is stopped later
(`StopLast`), so a worker that is done left an empty queue that stays empty
(`DoneEmpty`), and a queued span is either in the queue or in the worker's hands
(`QueuedSomewhere`).

`BundleTool_proofs`: `TypeOK`, `OneDocumentPerLayer`, `LoadedFromOneDocument`,
`CarefulStaysLoadable` and `Implements`, for any versions, documents, routes,
committed directories and bounds, from `ToolAssumption` and `FileAssumption` (a
missing or cut-off file has no contents, the operator saves resolution files, what
was committed was generated, each layer from a document of its version). A layer
could only get files of two documents if a command wrote into one that already had
some, so the invariant `IInv` says what a directory holds at each place of a command: for `add`
what is there after each file, that it is being emptied before it is made again,
and that the version worked on is the document's (`Adding`); for `remove` that the
layer was the oldest of several (`Removing`), for `retire` what will be written
(`Retiring`), and that between commands nothing is pending (`Idle`). `Implements`
is a refinement: initial directories map to initial ones, and each system call maps
to a step of `BundleDir` or to a stutter; the ones that need the invariant are
those that make a whole layer torn, in whose name it must be allowed, and the last
write, which must publish a document whole. For a load beside the commands,
`LoadInv` relates the files it has read to those that are there: as long as the
layer was not removed under it, what it read of a layer is still on disk. Of
careful commands `CarefulInv` says that what is there, or will be there once the
command at hand is done, is whole, has packages that differ and rules that fit.

`Lowering_proofs`: `Reproducible`, `BindingsKeepProperties` and `NamesDistinct`, for
every document and every order of visits (`OrderAssumption`: all names have their
place in one order; `NumberedAssumption`: different suffixes make different
identifiers). `LInv` has two halves. Nothing is forgotten: what a visited component
refers to is visited or pending, and so are the roots. Nothing is invented: whatever
is visited or pending is in every set that contains the roots and is closed under
references. When nothing is pending the visited set is therefore the reachable set,
whatever the order. `BInv` adds that a component that becomes a message keeps the
properties of its schema at each stage, and `NInv` that the identifiers given so far
differ. `UniqueIdentIsFresh`: among |used| + 1 numbered names one is free, so the
search ends and its result is not in use.

`Shim_proofs`: `TypeOK`, `StaysJSON`, `OnlyAddressedChange`, `EchoRoundTrip` and
`DraftBridges`, and for both layers the three properties of `Lowering` (`LayersHold`), for any documents,
hand-written shims, bodies, texts and replies. Assumptions: `TextAssumption` (the
nearest float64 of a number is one, and of a float64 itself; NaN and Inf are none)
and `ShimAssumption` (stanzas have the fields of their verb, bodies are JSON values, and
"no component" and "anything" are no names of components). It has four parts.

* *Verbs.* Each of `rename`, `default` and `coerce`, on any path through objects and
  arrays, makes a tree of a tree and leaves alone what it does not address
  (`AppliedFacts`). Trees are functions on positions, so there is no induction: a
  rename maps the positions at and below its leaves one to one to places that were
  free, since it fails otherwise (`LandsFree`); a default creates the part of a path
  that hung nowhere (`CreatedOverNull`). `UndoingRestores`: a rename that did not fail
  is undone exactly by the rename with its paths swapped, which does not fail.
* *The invariant* `SInv`. What is applied is a list that `toOps` let pass
  (`ChainInv`), drafted lists included; between two stanzas the body is a tree in
  which only what the stanzas so far address has changed (`TInv`).
* *There and back* (`EInv`). `EchoRoundTrip` speaks of two moments far apart, with any
  number of links and stanzas between. `Trail` is the record of what the body was
  after each stanza of each link; on the way to the upstream it gets one entry per
  stanza (`OnWay`), and on the way back the body is, after i stanzas of a link, what it
  was before the last i of the request (`OnReturn`). The trail is an existentially
  quantified function, so it is part of the proof and not of the model. That an echo
  is not rounded twice rests on every number in it being a float64 already
  (`Settled`).
* *The draft* (`DInv`). `DraftBridgesHolds` joins four parts of the program, for any
  two documents and any bodies. What a draft is: the pairing never takes a name twice,
  so each stanza writes a field of its own, and every field that goes or changes type
  has a stanza that reads it (`PastedBridges`; `Bridge` is what the rest needs of a
  list). What a layer is: `Reached` follows aliases and references to the same field
  in both layers wherever the components are the same, which is shown along the chain
  of aliases and along the names (`SharedField`, `SameBelow`), so that a body's fields
  either stay or are at the top (`Route`, `RoutesFollow`). What a stanza does to a
  body: after i stanzas each field at the top is `Underway`, of the old type as long as
  a stanza is to come that reads it (`ToCome`), and of the new name and type once one
  is behind that wrote it (`Behind`); `StanzaOnTheWay` takes it one stanza
  further or blames the body, and after the last it is what the other document
  describes (`Arrives`). And what protojson makes of it: `DescribedConforms`. The
  invariant follows the layers from `add` (`LayersInv`), the draft to the one link
  of its chain (`DraftedInv`), and the body there and back (`WayInv`). A request
  without a body stays one (`NilInv`): a draft between two messages without fields has
  no stanzas, and one into a message with fields has one that fails
  (`BridgeFromNothing`, `NilStep`).

Only model-checked: liveness (`EveryRequestAnswered`, `SighupHonoured`, `Terminates`,
`ShutdownEnds`, `SpansLeave`), which is out of the prover's reach, and the findings,
which TLC refutes.

## Not modelled

Two bundle-tool commands at once (the tool takes no lock, and nothing promises
anything of it); reading a document from a URL; YAML, JSON, protobuf and OTLP
encodings; the text grammar of paths and of traceparent; field numbers; the
classification of a schema from its JSON keywords; the wording of a draft; header
forwarding and CORS header copying; environment parsing; `/health`, `/metrics`,
pprof and the probe client (pure I/O); and the test fixtures. `Retry-After` and
message texts of the wire errors are left out: no property is about them.

## Plan

1. *Done.* Bundle and BundleLoad; Proxy with reloads and panics; StdlibBoundary;
   Lifecycle; the invariants of the last three proved.
2. *Done.* BundleTool with crashes and an overlapping load, refining BundleDir;
   Lowering, Drift, Transform and their composition in Shim; `OneDocumentPerLayer`,
   the refinement, reproducibility and fresh names proved.
3. *Done.* The safety properties proved:
   `Load`'s promise to the proxy, the remaining invariants of `Proxy`, `BundleTool`
   and `Lowering`, the transform verbs, and the round trip through a chain.
4. *Done.* The refinement of `Gateway` by `Proxy`, stated, checked and proved;
   `DraftBridges` with documents of any depth, and with it every safety property that
   a passing run checks.
5. Left: Lifecycle composed with the handler's span in `Proxy`.
