----------------------------- MODULE BundleLoad -----------------------------
(***************************************************************************)
(* bundle.Load: one pass over a bundle directory that either returns a     *)
(* Bundle or refuses the directory.  The directory does not change during  *)
(* the pass (Proxy models a directory rewritten under a reload).           *)
(*                                                                         *)
(* Parsing is abstracted to flags of the input: a layer is intact when its *)
(* three files are present and decode with schema version 1; a contract is *)
(* filled in when its fields pass validateContract's blank and syntax      *)
(* checks; a rule is complete when it sets exactly one of transform and    *)
(* route and blanks nothing it sets; and it fits a route when toOps        *)
(* accepts its stanzas against the messages of that route's contract.      *)
(***************************************************************************)
EXTENDS Bundle, FiniteSets

CONSTANTS
    Dirs,      \* the directories considered
    MaxChain   \* bound on the links followed; above the number of versions

NoRule == [none |-> TRUE]

IsList(s) == Len(s) \in Nat /\ DOMAIN s = 1..Len(s)

\* A directory as the parsers hand it on: layers and overrides in order, with
\* names that are names; what they add up to is for the checks below.
IsDirectory(d) ==
    /\ IsList(d.layers) /\ IsList(d.overrides)
    /\ \A i \in DOMAIN d.layers :
          /\ \A f \in d.layers[i].files : \A m \in DOMAIN f.messages :
                m \in Messages /\ f.messages[m] \in Descs
          /\ IsList(d.layers[i].contracts)
          /\ \A k \in DOMAIN d.layers[i].contracts :
                LET yc == d.layers[i].contracts[k]
                IN  yc.version \in Versions /\ yc.route \in Routes /\ yc.strict \in BOOLEAN
    /\ \A i \in DOMAIN d.overrides :
          LET ov == d.overrides[i]
          IN  /\ ov # NoRule
              /\ ov.version \in Versions /\ ov.sel \in Selectors
              /\ ov.requestOps \in BOOLEAN /\ ov.responseOps \in BOOLEAN
              /\ ov.target \in IF ov.kind = "route" THEN Targets ELSE Versions \cup {""}

ASSUME DirAssumption == \A d \in Dirs : IsDirectory(d)

VARIABLES
    dir,        \* the directory being loaded
    pc,         \* where in Load the pass is
    next,       \* position in the list the current loop runs over
    fallback,   \* version |-> its version-only rule, or NoRule
    rules,      \* version |-> its selector rules in file order
    raw,        \* canonical contract name |-> contract before any override
    contract,   \* contract name |-> contract with its override installed
    walk,       \* the chain under construction in resolveChains
    chain       \* contract name |-> its resolved chain

vars == <<dir, pc, next, fallback, rules, raw, contract, walk, chain>>

NoWalk == [from |-> NoContract, cur |-> NoContract, links |-> <<>>]

-----------------------------------------------------------------------------
(* What is read from the directory *)

\* The entries of all layers: entry p[2] of layer p[1].
AllContracts(d) ==
    UNION {{i} \X DOMAIN d.layers[i].contracts : i \in DOMAIN d.layers}

\* descriptors.pb, openapi.yaml and versions.yaml are there and decode.
LayerIntact(d, i) == d.layers[i].intact

Files(d) == UNION {d.layers[i].files : i \in DOMAIN d.layers}

Contributors(d, name) ==
    {i \in DOMAIN d.layers : \E f \in d.layers[i].files : f.name = name}

\* A file in one layer only gives that layer its package; a package with two
\* owning layers is a collision.  A file without a package owns nothing.
PackageCollision(d) ==
    \E f, g \in Files(d) :
        /\ f.pkg = g.pkg /\ f.pkg # ""
        /\ Cardinality(Contributors(d, f.name)) = 1
        /\ Cardinality(Contributors(d, g.name)) = 1
        /\ Contributors(d, f.name) # Contributors(d, g.name)

\* mergeDescriptors: a file name with two contents, or (protodesc.NewFiles) a
\* message defined by two files.
MergeConflict(d) ==
    \E f, g \in Files(d) :
        f # g /\ (f.name = g.name \/ DOMAIN f.messages \cap DOMAIN g.messages # {})

MergedMessages(d) ==
    [m \in UNION {DOMAIN f.messages : f \in Files(d)} |->
        (CHOOSE f \in Files(d) : m \in DOMAIN f.messages).messages[m]]

-----------------------------------------------------------------------------
Init ==
    /\ dir \in Dirs
    /\ pc = "layerDirs"
    /\ next = 1
    /\ fallback = [v \in Versions |-> NoRule]
    /\ rules = [v \in Versions |-> <<>>]
    /\ raw = <<>>
    /\ contract = <<>>
    /\ walk = NoWalk
    /\ chain = <<>>

Refuse == pc' = "failed" /\ UNCHANGED <<dir, next, fallback, rules, raw, contract, walk, chain>>

Proceed(stage) == pc' = stage /\ next' = 1

LayerDirs ==
    /\ pc = "layerDirs"
    /\ IF dir.layers = <<>>
       THEN Refuse
       ELSE Proceed("resolution") /\ UNCHANGED <<dir, fallback, rules, raw, contract, walk, chain>>

\* resolutionSelectors and the checks after it: no selector is set and blank,
\* exactly one of transform and route is set, and it names its target.
RuleComplete(ov) == ov.complete

\* One override of resolution.yaml against the ones of its version before it.
LoadResolution ==
    /\ pc = "resolution"
    /\ next \in DOMAIN dir.overrides
    /\ LET ov == dir.overrides[next]
           v  == ov.version
       IN  IF \/ selectorEmpty(ov.sel) /\ fallback[v] # NoRule
              \/ /\ ~ selectorEmpty(ov.sel)
                 /\ \E i \in DOMAIN rules[v] : selectorOverlap(ov.sel, rules[v][i].sel)
              \/ ~ RuleComplete(ov)
           THEN Refuse
           ELSE /\ next' = next + 1
                /\ IF selectorEmpty(ov.sel)
                   THEN fallback' = [fallback EXCEPT ![v] = ov] /\ UNCHANGED rules
                   ELSE rules' = [rules EXCEPT ![v] = Append(@, ov)] /\ UNCHANGED fallback
                /\ UNCHANGED <<dir, pc, raw, contract, walk, chain>>

\* Every layer is read, then the descriptors of all of them are merged.
ReadLayers ==
    /\ pc = "resolution"
    /\ next \notin DOMAIN dir.overrides
    /\ IF \/ \E i \in DOMAIN dir.layers : ~ LayerIntact(dir, i)
          \/ PackageCollision(dir)
          \/ MergeConflict(dir)
          \/ \E i \in DOMAIN dir.layers : dir.layers[i].contracts = <<>>
       THEN Refuse
       ELSE Proceed("contracts") /\ UNCHANGED <<dir, fallback, rules, raw, contract, walk, chain>>

\* validateContract's checks on error_messages, and every name resolves.
ValidContract(yc) ==
    /\ yc.filled
    /\ \A s \in DOMAIN yc.errorMessages : s \notin 200..299 /\ ~ IsCapabilityCeiling(s)
    /\ {yc.requestMessage, yc.responseMessage}
          \cup {yc.errorMessages[s] : s \in DOMAIN yc.errorMessages}
          \subseteq DOMAIN MergedMessages(dir)

FreshContract(yc) ==
    [requestMessage |-> yc.requestMessage, responseMessage |-> yc.responseMessage,
     errorMessages |-> yc.errorMessages, strict |-> yc.strict,
     requestOps |-> FALSE, responseOps |-> FALSE, errorResponseOps |-> {},
     target |-> "", transformTarget |-> ""]

\* One entry of a layer's versions.yaml: entry k of layer i, in order.  The
\* order only decides which duplicate is the second, so any order will do.
AddContract ==
    /\ pc = "contracts"
    /\ next <= Cardinality(AllContracts(dir))
    /\ LET pos == CHOOSE p \in AllContracts(dir) :
                     Cardinality({q \in AllContracts(dir) :
                         q[1] < p[1] \/ (q[1] = p[1] /\ q[2] <= p[2])}) = next
           yc == dir.layers[pos[1]].contracts[pos[2]]
           id == Canonical(yc.version, yc.route)
       IN  IF ~ ValidContract(yc) \/ id \in DOMAIN raw
           THEN Refuse
           ELSE /\ next' = next + 1
                /\ raw' = [x \in DOMAIN raw \cup {id} |->
                              IF x = id THEN FreshContract(yc) ELSE raw[x]]
                /\ UNCHANGED <<dir, pc, fallback, rules, contract, walk, chain>>

-----------------------------------------------------------------------------
(* The overrides, once every contract is known *)

\* The rule a contract name was built from.
RuleOf(id) ==
    IF selectorEmpty(id.sel) THEN fallback[id.version]
    ELSE rules[id.version][CHOOSE i \in DOMAIN rules[id.version] :
                              rules[id.version][i].sel = id.sel]

\* Mutant: the loop over a version's rules ends at its version-only rule.
AllIdsBreak ==
    {id \in ContractIds :
        /\ Canonical(id.version, id.route) \in DOMAIN raw
        /\ \/ selectorEmpty(id.sel)
           \/ /\ fallback[id.version] = NoRule
              /\ \E i \in DOMAIN rules[id.version] : rules[id.version][i].sel = id.sel}

\* The canonical contracts and, for each, one copy per selector rule of its
\* version; a variant is copied from the contract without the fallback rule.
AllIds ==
    {id \in ContractIds :
        /\ Canonical(id.version, id.route) \in DOMAIN raw
        /\ \/ selectorEmpty(id.sel)
           \/ \E i \in DOMAIN rules[id.version] : rules[id.version][i].sel = id.sel}

applyResolution(c, ov) ==
    IF ov = NoRule THEN c
    ELSE IF ov.kind = "route" THEN [c EXCEPT !.target = ov.target]
    ELSE [c EXCEPT !.requestOps = ov.requestOps,
                   !.responseOps = ov.responseOps,
                   !.errorResponseOps = ov.errorResponseOps,
                   !.transformTarget = ov.target]

\* Mutant: a variant is copied after the fallback rule has been installed.
BaseAfterFallback(id) ==
    applyResolution(raw[Canonical(id.version, id.route)], fallback[id.version])

\* The contract a rule is installed on: always as its layer ships it.
Base(id) == raw[Canonical(id.version, id.route)]

\* Every path of the rule's stanzas is one of the route's messages, and no two
\* stanzas get in each other's way.
toOps(ov, rt) == rt \in ov.fits

RuleFits(id) ==
    LET ov == RuleOf(id)
    IN  \/ ov = NoRule \/ ov.kind = "route"
        \/ /\ toOps(ov, id.route)
           /\ ov.errorResponseOps \subseteq DOMAIN Base(id).errorMessages

KnownVersion(v) == \E id \in DOMAIN raw : id.version = v

ApplyResolution ==
    /\ pc = "contracts"
    /\ next > Cardinality(AllContracts(dir))
    /\ IF \/ \E v \in Versions :
                (fallback[v] # NoRule \/ rules[v] # <<>>) /\ ~ KnownVersion(v)
          \/ \E id \in AllIds : ~ RuleFits(id)
       THEN Refuse
       ELSE /\ Proceed("chains")
            /\ contract' = [id \in AllIds |-> applyResolution(Base(id), RuleOf(id))]
            /\ UNCHANGED <<dir, fallback, rules, raw, walk, chain>>

-----------------------------------------------------------------------------
(* resolveChains *)

\* The loop takes up a contract without a chain.  The code's order is that of
\* its list; no contract's chain depends on another's, so a fixed order will do.
StartChain ==
    /\ pc = "chains" /\ walk = NoWalk
    /\ DOMAIN contract # DOMAIN chain
    /\ LET id == CHOOSE x \in DOMAIN contract : x \notin DOMAIN chain
       IN  walk' = [from |-> id, cur |-> id, links |-> <<>>]
    /\ UNCHANGED <<dir, pc, next, fallback, rules, raw, contract, chain>>

\* Mutant: one seen set for all contracts.
SeenAcrossContracts(w) ==
    {w.links[i].version : i \in DOMAIN w.links} \cup {id.version : id \in DOMAIN chain}

\* Mutant: no cycle check.
SeenNothing(w) == {}

Seen(w) == {w.links[i].version : i \in DOMAIN w.links}

\* Mutant: the target contract is assumed to exist.
FollowTargetUnchecked ==
    /\ pc = "chains" /\ walk # NoWalk
    /\ contract[walk.cur].transformTarget # "" /\ Len(walk.links) < MaxChain
    /\ walk' = [walk EXCEPT !.links = Append(walk.links, walk.cur),
                            !.cur = Canonical(contract[walk.cur].transformTarget, walk.from.route)]
    /\ UNCHANGED <<dir, pc, next, fallback, rules, raw, contract, chain>>

FollowTarget ==
    /\ pc = "chains" /\ walk # NoWalk
    /\ Len(walk.links) < MaxChain
    /\ LET cur    == walk.cur
           links  == Append(walk.links, cur)
           target == contract[cur].transformTarget
       IN  IF cur.version \in Seen(walk) THEN Refuse
           ELSE IF target = ""
           THEN /\ chain' = [id \in DOMAIN chain \cup {walk.from} |->
                                IF id = walk.from THEN links ELSE chain[id]]
                /\ walk' = NoWalk
                /\ UNCHANGED <<dir, pc, next, fallback, rules, raw, contract>>
           \* an unknown version, or one that does not bind this route
           ELSE IF Canonical(target, walk.from.route) \notin DOMAIN contract THEN Refuse
           ELSE /\ walk' = [walk EXCEPT !.links = links,
                                        !.cur = Canonical(target, walk.from.route)]
                /\ UNCHANGED <<dir, pc, next, fallback, rules, raw, contract, chain>>

Return ==
    /\ pc = "chains" /\ walk = NoWalk
    /\ DOMAIN contract = DOMAIN chain
    /\ pc' = "loaded"
    /\ UNCHANGED <<dir, next, fallback, rules, raw, contract, walk, chain>>

Next ==
    \/ LayerDirs \/ LoadResolution \/ ReadLayers \/ AddContract
    \/ ApplyResolution \/ StartChain \/ FollowTarget \/ Return

Spec == Init /\ [][Next]_vars /\ WF_vars(Next)

-----------------------------------------------------------------------------
\* The Bundle that Load returns when it does.
Loaded ==
    [ids      |-> DOMAIN contract,
     contract |-> contract,
     variants |-> [c \in {id \in DOMAIN contract : selectorEmpty(id.sel)} |->
                     [i \in DOMAIN rules[c.version] |->
                         [c EXCEPT !.sel = rules[c.version][i].sel]]],
     chain    |-> chain,
     messages |-> MergedMessages(dir)]
-----------------------------------------------------------------------------
(* Properties *)

\* The names in use while the pass runs: the positions of the loops, the rules
\* kept per version, the contracts installed and the chains resolved so far.
TypeOK ==
    /\ pc \in {"layerDirs", "resolution", "contracts", "chains", "loaded", "failed"}
    /\ next \in Nat
    /\ \A v \in Versions : \A i \in DOMAIN rules[v] : rules[v][i].version = v
    /\ DOMAIN raw \subseteq ContractIds
    /\ DOMAIN contract \subseteq ContractIds
    /\ DOMAIN chain \subseteq DOMAIN contract
    /\ walk = NoWalk \/ {walk.from, walk.cur} \subseteq DOMAIN contract

\* bundle.go:464-467, 686-697: whatever directory Load accepts, the bundle it
\* returns can be served from: unambiguous selectors, every message resolvable,
\* every chain finite, on one route and ending at a terminal.
LoadSound == pc = "loaded" => WellFormed(Loaded)

\* bundle.go:414-416, 592-612: an override sets exactly one of transform and
\* route, and a selector rule is installed on the contract as the layer ships
\* it, so no contract ever carries the target of one rule and the transform of
\* another.
RulesDoNotCombine ==
    \A id \in DOMAIN contract :
        contract[id].target # "" =>
            /\ contract[id].transformTarget = ""
            /\ ~ contract[id].requestOps /\ ~ contract[id].responseOps

\* bundle.go:526-577, 592-612: nothing is dropped or mixed up on the way.  Every
\* contract a layer ships is in the bundle Load returns, and so is every override
\* of resolution.yaml, on each contract of its version as the layer ships it,
\* under the selectors it names, wherever in the file it stands.
LoadComplete ==
    pc = "loaded" =>
        \A p \in AllContracts(dir) :
            LET yc == dir.layers[p[1]].contracts[p[2]]
                c  == Canonical(yc.version, yc.route)
            IN  /\ c \in DOMAIN contract
                /\ \A i \in DOMAIN dir.overrides :
                      LET ov == dir.overrides[i]
                          id == [c EXCEPT !.sel = ov.sel]
                      IN  ov.version = yc.version =>
                              /\ id \in DOMAIN contract
                              /\ contract[id] = applyResolution(FreshContract(yc), ov)

NextLink(id) == Canonical(contract[id].transformTarget, id.route)

Dangling ==
    \E id \in DOMAIN contract :
        contract[id].transformTarget # "" /\ NextLink(id) \notin DOMAIN contract

\* Some contracts of one route lead from each version of a set back into it.
\* The cycle is one of versions: a selector rule of v1 that targets v2, whose
\* fallback rule targets v1, counts although v1's own contract is terminal.
HasCycle ==
    \E rt \in Routes, S \in SUBSET Versions :
        /\ S # {}
        /\ \A v \in S : \E id \in DOMAIN contract :
              id.version = v /\ id.route = rt /\ contract[id].transformTarget \in S

\* bundle.go:698-734: resolveChains refuses a bundle only when its transform
\* targets really dangle or cycle; converging chains are legal.
ChainRefusalJustified ==
    pc = "failed" /\ contract # <<>> => Dangling \/ HasCycle

\* bundle.go:703-730: the walk along the transform targets ends for every
\* directory, so Load returns (and a SIGHUP's reload with it).
Terminates == <>(pc \in {"loaded", "failed"})
=============================================================================
