------------------------------- MODULE Bundle -------------------------------
(***************************************************************************)
(* The resolved view of a bundle directory (internal/bundle/bundle.go) and *)
(* the questions the proxy asks of it.                                     *)
(*                                                                         *)
(* A (path, method) pair is one value, a route.  A *Contract is named by   *)
(* what makes it unique in a bundle: its contract version, its route and   *)
(* the selector tuple of the resolution rule it was built from; the        *)
(* canonical contract of a (version, route) has the empty tuple.  A chain  *)
(* is a sequence of such names, as the code's is one of pointers.          *)
(***************************************************************************)
EXTENDS Integers, Sequences

CONSTANTS
    Versions,    \* contract versions a client, a layer or a rule can name
    Routes,      \* (path, method) pairs
    SelValues,   \* values of one selector axis; "" is the absent value
    Messages,    \* fully-qualified proto message names
    Descs,       \* message descriptors
    Empty,       \* the descriptors' one zero-field member
    Targets      \* names of upstream targets; "" is the default upstream

ASSUME BundleAssumption ==
    /\ "" \in SelValues
    /\ "" \in Targets
    /\ "" \notin Versions
    /\ Empty \in Descs

-----------------------------------------------------------------------------
(* Selectors *)

Selectors == [profile : SelValues, tenant : SelValues, cohort : SelValues]

NoSelectors == [profile |-> "", tenant |-> "", cohort |-> ""]

selectorEmpty(s) == s = NoSelectors

\* An axis the rule leaves blank accepts every request.
selectorMatches(rule, request) ==
    /\ rule.profile = "" \/ rule.profile = request.profile
    /\ rule.tenant = "" \/ rule.tenant = request.tenant
    /\ rule.cohort = "" \/ rule.cohort = request.cohort

\* Mutant: only identical tuples are refused.
selectorOverlapSame(a, b) == a = b

\* Load refuses two rules of a version for which this holds.
selectorOverlap(a, b) ==
    /\ a.profile = "" \/ b.profile = "" \/ a.profile = b.profile
    /\ a.tenant = "" \/ b.tenant = "" \/ a.tenant = b.tenant
    /\ a.cohort = "" \/ b.cohort = "" \/ a.cohort = b.cohort

-----------------------------------------------------------------------------
(* Contracts and bundles *)

ContractIds == [version : Versions, route : Routes, sel : Selectors]

Canonical(v, rt) == [version |-> v, route |-> rt, sel |-> NoSelectors]

\* Transform ops are kept as far as a request can tell them apart: whether a
\* direction (or a declared error status) has any op at all.
IsContract(c) ==
    /\ c.requestMessage \in Messages
    /\ c.responseMessage \in Messages
    /\ \A s \in DOMAIN c.errorMessages : c.errorMessages[s] \in Messages
    /\ c.strict \in BOOLEAN
    /\ c.requestOps \in BOOLEAN
    /\ c.responseOps \in BOOLEAN
    /\ c.target \in Targets
    /\ c.transformTarget \in Versions \cup {""}

\* 206, 207, 208, 226 and every 3xx.
IsCapabilityCeiling(status) ==
    status \in {206, 207, 208, 226} \/ status \in 300..399

\* The first contract whose (route, method) matches: only whether there is one
\* is used, and only canonical contracts are listed in Bundle.contracts.
LookupRoute(b, rt) == \E id \in b.ids : id.route = rt /\ selectorEmpty(id.sel)

NoContract == [version |-> "", route |-> "", sel |-> NoSelectors]

\* The selector variants of the canonical contract in file order, the first
\* match first; the canonical contract when none matches.
Lookup(b, rt, v, sel) ==
    LET c == Canonical(v, rt)
        hits == {i \in DOMAIN b.variants[c] :
                    selectorMatches(b.variants[c][i].sel, sel)}
    IN  IF c \notin b.ids THEN NoContract
        ELSE IF hits = {} THEN c
        ELSE b.variants[c][CHOOSE i \in hits : \A j \in hits : i <= j]

\* FindDescriptorByName on the merged descriptors.
Resolvable(b, name) == name \in DOMAIN b.messages

-----------------------------------------------------------------------------
(***************************************************************************)
(* What Load promises of the bundle it returns.  BundleLoad establishes    *)
(* it, Proxy relies on it.                                                 *)
(***************************************************************************)

\* No request matches two selector rules of one (version, route), so the order
\* of the overrides in resolution.yaml cannot matter.
UnambiguousVariants(b) ==
    \A c \in b.ids : selectorEmpty(c.sel) =>
        \A i, j \in DOMAIN b.variants[c] :
            (\E request \in Selectors :
                /\ selectorMatches(b.variants[c][i].sel, request)
                /\ selectorMatches(b.variants[c][j].sel, request)) => i = j

\* id follows prev in a chain: the canonical contract of the version prev's
\* transform targets, on the same route.
Follows(b, prev, id) ==
    /\ b.contract[prev].transformTarget # ""
    /\ id = Canonical(b.contract[prev].transformTarget, prev.route)

\* Every contract's chain starts at the contract, follows the transform
\* targets on one route, names no version twice and ends at a terminal.
SoundChains(b) ==
    \A id \in b.ids :
        LET ch == b.chain[id]
        IN  /\ ch \in Seq(b.ids) /\ Len(ch) > 0 /\ ch[1] = id
            /\ \A i \in 1..Len(ch) - 1 : Follows(b, ch[i], ch[i + 1])
            /\ \A i, j \in DOMAIN ch : ch[i].version = ch[j].version => i = j
            /\ b.contract[ch[Len(ch)]].transformTarget = ""

\* Every message a contract names is in the bundle's own descriptors, and no
\* declared error status is a 2xx or a capability ceiling.
SoundContracts(b) ==
    \A id \in b.ids :
        LET c == b.contract[id]
        IN  /\ IsContract(c)
            /\ Resolvable(b, c.requestMessage)
            /\ Resolvable(b, c.responseMessage)
            /\ \A s \in DOMAIN c.errorMessages :
                  /\ Resolvable(b, c.errorMessages[s])
                  /\ s \notin 200..299 /\ ~ IsCapabilityCeiling(s)

\* The variants of a canonical contract are contracts of its version and route.
SoundVariants(b) ==
    \A c \in b.ids : selectorEmpty(c.sel) =>
        /\ b.variants[c] \in Seq(b.ids)
        /\ \A i \in DOMAIN b.variants[c] :
              /\ b.variants[c][i].version = c.version
              /\ b.variants[c][i].route = c.route
              /\ ~ selectorEmpty(b.variants[c][i].sel)

WellFormed(b) ==
    /\ b.ids \subseteq ContractIds
    /\ \A name \in DOMAIN b.messages : b.messages[name] \in Descs
    /\ \A id \in b.ids : Canonical(id.version, id.route) \in b.ids
    /\ SoundContracts(b)
    /\ SoundVariants(b)
    /\ UnambiguousVariants(b)
    /\ SoundChains(b)
=============================================================================
