----------------------------- MODULE BundleTool -----------------------------
(***************************************************************************)
(* wavefront-bundle on the files of a bundle directory, a step for every   *)
(* system call that another process can see: add, add --force, remove,     *)
(* retire and verify, the operator's edits of resolution.yaml, commands    *)
(* that are killed or meet a full disk, and a server that loads the        *)
(* directory in the meantime.  One command runs at a time.                 *)
(*                                                                         *)
(* A document is known by its version, the identifier its proto package is *)
(* made of, the shape of its messages and its routes; whether the          *)
(* generator accepts it at all is module Lowering's business.              *)
(***************************************************************************)
EXTENDS Integers, Sequences, FiniteSets

CONSTANTS
    Versions,     \* contract versions, in lexical order
    Routes,       \* (path, method) pairs, in the order of versions.yaml
    Docs,         \* OpenAPI documents
    Selectors,    \* selector tuples; "" is none
    Edits,        \* contents the operator gives resolution.yaml
    Absent,       \* no such file
    Part,         \* a file that is empty or ends in the middle of an entry
    MaxEvents,    \* bound on commands run, edits made and loads begun
    Committed     \* directories to start from: version |-> document, or Absent

ASSUME ToolAssumption ==
    /\ Versions \subseteq Nat \ {0}
    /\ Routes \subseteq Nat
    /\ "" \in Selectors
    /\ \A d \in Docs :
          d.version \in Versions /\ d.routes \subseteq Routes /\ d.routes # {}
    /\ Absent \notin Docs /\ Part \notin Docs /\ Absent # Part
    /\ MaxEvents \in Nat

VARIABLES
    layers,    \* version |-> its directory: NoDir or the files in it
    res,       \* resolution.yaml: Absent, Part or its rules and comments
    cmd,       \* the command being carried out
    code,      \* the exit code of the command that ended last
    load,      \* a server's pass over the directory
    events,    \* commands run, edits made and loads begun so far
    careful    \* every command so far was one a careful operator would run

vars == <<layers, res, cmd, code, load, events, careful>>

-----------------------------------------------------------------------------
(* Files *)

\* The order in which writeLayer creates them and Load reads them.
FileOrder == <<"descriptors", "openapi", "versions">>

Files == {"descriptors", "openapi", "versions"}

\* What a file says: of which document it is, and how many of the routes it
\* still has (only versions.yaml can be cut short and still parse).
Contents == [doc : Docs, routes : SUBSET Routes]

Whole(d) == [doc |-> d, routes |-> d.routes]

\* A manifest cut at the end of a contract.
Prefixes(d) ==
    {[doc |-> d, routes |-> {rt \in d.routes : rt < k}] : k \in d.routes}

EmptyDir == [f \in Files |-> Absent]

NoDir == [f \in {} |-> Absent]

\* A layer as writeLayer leaves it.
Layer(d) == [f \in Files |-> Whole(d)]

Dirs == {v \in Versions : layers[v] # NoDir}

IsWhole(l, d) == l = Layer(d)

\* An entry of resolution.yaml.  Selector tuples are "" (a version-only rule)
\* or pairwise disjoint: BundleLoad has the overlap test.  A target of 0 is
\* none: a transform in place, or a rule that routes.
RuleSet ==
    [version : Versions, sel : Selectors, kind : {"transform", "route"},
     target : Versions \cup {0}, errs : BOOLEAN]

\* The rules, and whether a comment holds the header of a candidates block.
Resolutions == [rules : Seq(RuleSet), marker : BOOLEAN]

\* A file that is missing or cut off has no contents; the operator's edits are
\* resolution files, and what was committed was generated.
ASSUME FileAssumption ==
    /\ Absent \notin Contents /\ Part \notin Contents
    /\ Absent \notin Resolutions /\ Part \notin Resolutions
    /\ Absent \notin Versions
    /\ Edits \subseteq Resolutions
    /\ \A c \in Committed :
          /\ c \in [Versions -> Docs \cup {Absent}]
          /\ \A v \in Versions : c[v] # Absent => c[v].version = v

-----------------------------------------------------------------------------
(***************************************************************************)
(* Load, as a predicate on what was read.  BundleLoad models the passes    *)
(* behind it.                                                              *)
(***************************************************************************)

RulesOf(r) == IF r = Absent THEN <<>> ELSE r.rules

\* A layer's three files are there and decode, it binds something, and every
\* message it names is in its own descriptors.
LayerLoads(l) ==
    /\ \A f \in Files : l[f] \in Contents
    /\ l["versions"].routes # {}
    /\ l["versions"].routes \subseteq l["descriptors"].doc.routes

\* Two versions that sanitize to one identifier share package and file name,
\* which is accepted only of identical files.
SameDescriptors(d, e) == d.ident = e.ident => d.shape = e.shape

Fallback(rs, v) == {i \in DOMAIN rs : rs[i].version = v /\ rs[i].sel = ""}

\* From version t the fallback rules never lead to v.
NeverLeadsTo(rs, t, v) ==
    \E S \in SUBSET Versions :
        /\ t \in S /\ v \notin S
        /\ \A w \in S : \A i \in Fallback(rs, w) :
              rs[i].kind = "transform" => rs[i].target \in S \cup {0}

Loadable(ls, r) ==
    LET dirs == {v \in Versions : ls[v] # NoDir}
        rs   == RulesOf(r)
    IN  /\ dirs # {}
        /\ r # Part
        /\ \A v \in dirs : LayerLoads(ls[v])
        /\ \A v, w \in dirs :
              v # w => SameDescriptors(ls[v]["descriptors"].doc, ls[w]["descriptors"].doc)
        /\ \A i, j \in DOMAIN rs :
              i # j => rs[i].version # rs[j].version \/ rs[i].sel # rs[j].sel
        /\ \A i \in DOMAIN rs :
              /\ rs[i].version \in dirs
              /\ rs[i].kind = "transform" /\ rs[i].target # 0 =>
                    /\ rs[i].target \in dirs
                    /\ ls[rs[i].version]["versions"].routes
                          \subseteq ls[rs[i].target]["versions"].routes
                    /\ NeverLeadsTo(rs, rs[i].target, rs[i].version)

-----------------------------------------------------------------------------
NoCommand ==
    [op |-> "none", pc |-> "done", version |-> Absent, doc |-> Absent,
     force |-> FALSE, file |-> 0, was |-> Absent, out |-> Absent]

NoLoad ==
    [pc |-> "idle", names |-> {}, res |-> Absent,
     got |-> [v \in Versions |-> NoDir], replaced |-> {}]

Init ==
    /\ \E c \in Committed :
          layers = [v \in Versions |-> IF c[v] = Absent THEN NoDir ELSE Layer(c[v])]
    /\ res = Absent
    /\ cmd = NoCommand
    /\ code = 0
    /\ load = NoLoad
    /\ events = 0
    /\ careful = (Dirs = {} \/ Loadable(layers, res))

\* The command returns; the CLI turns an error into exit code 1.
Exit(c) == cmd' = NoCommand /\ code' = c

\* A command that is refused, or that only reads, is over in one step.
ExitAtOnce(c) == code' = c /\ UNCHANGED cmd

Event == events < MaxEvents /\ events' = events + 1

Start == cmd = NoCommand /\ Event

-----------------------------------------------------------------------------
(* add *)

\* The layer of d goes with the layers and rules there are: its package is its
\* own, and a version it replaces loses no route that a rule relies on.
CarefulAdd(d) ==
    /\ \A w \in Dirs \ {d.version} :
          \A e \in Docs : IsWhole(layers[w], e) => SameDescriptors(d, e)
    /\ d.version \in Dirs =>
          /\ \A e \in Docs : IsWhole(layers[d.version], e) => e.routes \subseteq d.routes
          /\ \A i \in DOMAIN RulesOf(res) :
                LET r == RulesOf(res)[i]
                IN  r.version = d.version /\ r.kind = "transform" /\ r.target # 0 =>
                        d.routes \subseteq layers[r.target]["versions"].routes

\* Mutant: --force writes over the files of the layer without removing them.
FirstStepKeep(v) == "mkdir"

\* writeLayer: an old layer is removed first.
FirstStep(v) == IF v \in Dirs THEN "rm" ELSE "mkdir"

\* What Add does first once the document is accepted: everything it will write
\* has been computed by then.
AddStart(d, force) ==
    /\ Start
    /\ IF ~ d.accepted \/ (d.version \in Dirs /\ ~ force)
       THEN /\ ExitAtOnce(1)
            /\ UNCHANGED careful
       ELSE /\ cmd' = [NoCommand EXCEPT !.op = "add", !.version = d.version, !.doc = d,
                                        !.force = force, !.pc = FirstStep(d.version)]
            /\ careful' = (careful /\ CarefulAdd(d))
            /\ UNCHANGED code
    /\ UNCHANGED <<layers, res, load>>

\* A load under way may have read files of the layer that is being removed.
SeenByLoad ==
    IF load.pc \in {"resolution", "layers"}
    THEN [load EXCEPT !.replaced = @ \cup {cmd.version}] ELSE load

\* os.RemoveAll: the files in any order, the directory last.
RemoveFile ==
    /\ cmd.pc = "rm"
    /\ \E f \in Files :
          /\ layers[cmd.version][f] # Absent
          /\ layers' = [layers EXCEPT ![cmd.version][f] = Absent]
    /\ load' = SeenByLoad
    /\ UNCHANGED <<res, cmd, code, events, careful>>

RemoveDir ==
    /\ cmd.pc = "rm"
    /\ layers[cmd.version] = EmptyDir
    /\ layers' = [layers EXCEPT ![cmd.version] = NoDir]
    /\ load' = SeenByLoad
    /\ IF cmd.op = "add"
       THEN cmd' = [cmd EXCEPT !.pc = "mkdir"] /\ UNCHANGED code
       ELSE Exit(0)
    /\ UNCHANGED <<res, events, careful>>

MkdirAll ==
    /\ cmd.pc = "mkdir"
    /\ layers' = [layers EXCEPT ![cmd.version] = IF @ = NoDir THEN EmptyDir ELSE @]
    /\ cmd' = [cmd EXCEPT !.pc = "open", !.file = 1]
    /\ UNCHANGED <<res, code, load, events, careful>>

\* os.WriteFile is two steps: the file is created empty, then written.
OpenFile ==
    /\ cmd.pc = "open"
    /\ layers' = [layers EXCEPT ![cmd.version][FileOrder[cmd.file]] = Part]
    /\ cmd' = [cmd EXCEPT !.pc = "write"]
    /\ UNCHANGED <<res, code, load, events, careful>>

WriteFile ==
    /\ cmd.pc = "write"
    /\ layers' = [layers EXCEPT ![cmd.version][FileOrder[cmd.file]] = Whole(cmd.doc)]
    /\ IF cmd.file < 3
       THEN cmd' = [cmd EXCEPT !.pc = "open", !.file = @ + 1] /\ UNCHANGED code
       ELSE Exit(0)
    /\ UNCHANGED <<res, load, events, careful>>

\* The disk is full in the middle of versions.yaml.
ShortManifest ==
    /\ cmd.pc = "write" /\ FileOrder[cmd.file] = "versions"
    /\ \E c \in Prefixes(cmd.doc) :
          layers' = [layers EXCEPT ![cmd.version]["versions"] = c]
    /\ Exit(1)
    /\ careful' = FALSE
    /\ UNCHANGED <<res, load, events>>

\* The process is killed, or a system call fails: what is there stays.
Interrupt ==
    /\ cmd # NoCommand
    /\ Exit(1)
    /\ careful' = FALSE
    /\ UNCHANGED <<layers, res, load, events>>

-----------------------------------------------------------------------------
(* remove *)

\* Mutant: any version but the last one may go.
RemovableAny(v) == Cardinality(Dirs) >= 2 /\ v \in Dirs

Removable(v) == Cardinality(Dirs) >= 2 /\ v \in Dirs /\ \A w \in Dirs : v <= w

\* resolution.yaml is not looked at: a careful operator removes a version only
\* when no rule is left for it.
RemoveStart(v) ==
    /\ Start
    /\ IF ~ Removable(v)
       THEN ExitAtOnce(1) /\ UNCHANGED careful
       ELSE /\ cmd' = [NoCommand EXCEPT !.op = "remove", !.version = v, !.pc = "rm"]
            /\ careful' = (careful /\ \A i \in DOMAIN RulesOf(res) : RulesOf(res)[i].version # v)
            /\ UNCHANGED code
    /\ UNCHANGED <<layers, res, load>>

-----------------------------------------------------------------------------
(* retire *)

\* Mutant: of a transform only the target survives.
RewrittenBare(r) == [version |-> r.version, target |-> r.target]

\* A rule after a trip through resolutionEntry, which has no selectors and no
\* error_responses.
Rewritten(r) == [r EXCEPT !.sel = "", !.errs = FALSE]

Shim(v, neighbour) ==
    [version |-> v, sel |-> "", kind |-> "transform", target |-> neighbour, errs |-> FALSE]

\* Mutant: the neighbour on the wrong side.
NeighbourBelow(v) ==
    LET older == {w \in Dirs : w < v}
    IN  IF older = {} THEN v ELSE CHOOSE w \in older : \A x \in older : x <= w

\* The next newer layer.
Neighbour(v) ==
    LET newer == {w \in Dirs : w > v}
    IN  CHOOSE w \in newer : \A x \in newer : w <= x

RetireRefused(v) ==
    \/ v \notin Dirs
    \/ \A w \in Dirs : w <= v
    \/ res = Part
    \/ \E i \in DOMAIN RulesOf(res) : RulesOf(res)[i].version = v

RetireStart(v) ==
    /\ Start
    /\ IF RetireRefused(v)
       THEN ExitAtOnce(1) /\ UNCHANGED careful
       ELSE LET rs == RulesOf(res)
            IN  /\ cmd' = [NoCommand EXCEPT
                      !.op = "retire", !.version = v, !.pc = "openRes", !.was = res,
                      !.out = [rules |-> Append([i \in DOMAIN rs |-> Rewritten(rs[i])],
                                                Shim(v, Neighbour(v))),
                               marker |-> FALSE]]
                /\ careful' = (careful /\ layers[v]["versions"].routes
                                  \subseteq layers[Neighbour(v)]["versions"].routes)
                /\ UNCHANGED code
    /\ UNCHANGED <<layers, res, load>>

OpenResolution ==
    /\ cmd.pc = "openRes"
    /\ res' = Part
    /\ cmd' = [cmd EXCEPT !.pc = "writeRes"]
    /\ UNCHANGED <<layers, code, load, events, careful>>

WriteResolution ==
    /\ cmd.pc = "writeRes"
    /\ res' = cmd.out
    /\ Exit(0)
    /\ UNCHANGED <<layers, load, events, careful>>

ShortResolution ==
    /\ cmd.pc = "writeRes"
    /\ \E k \in 0..Len(cmd.out.rules) - 1 :
          res' = [cmd.out EXCEPT !.rules = SubSeq(@, 1, k)]
    /\ Exit(1)
    /\ careful' = FALSE
    /\ UNCHANGED <<layers, load, events>>

-----------------------------------------------------------------------------
(* verify, and the operator *)

\* Load, then the search for the header of a candidates block.
VerifyCode ==
    IF Loadable(layers, res) /\ (res # Absent => ~ res.marker) THEN 0 ELSE 1

Verify ==
    /\ Start
    /\ ExitAtOnce(VerifyCode)
    /\ UNCHANGED <<layers, res, load, careful>>

\* The operator saves resolution.yaml, perhaps with a pasted draft.  Carefully:
\* rules for a whole version, that lead to newer versions, and load.
Edit ==
    /\ cmd = NoCommand
    /\ Event
    /\ \E e \in Edits :
          /\ res' = e
          /\ careful' = (/\ careful
                         /\ Loadable(layers, e)
                         /\ \A i \in DOMAIN e.rules :
                               /\ e.rules[i].sel = ""
                               /\ e.rules[i].target = 0 \/ e.rules[i].target > e.rules[i].version)
    /\ UNCHANGED <<layers, cmd, code, load>>

-----------------------------------------------------------------------------
(* bundle.Load in a server, beside all this *)

LoadFails == load' = [NoLoad EXCEPT !.pc = "failed"]

LoadStart ==
    /\ load.pc \in {"idle", "accepted", "failed"}
    /\ Event
    /\ IF Dirs = {} THEN LoadFails
       ELSE load' = [NoLoad EXCEPT !.pc = "resolution", !.names = Dirs]
    /\ UNCHANGED <<layers, res, cmd, code, careful>>

LoadResolution ==
    /\ load.pc = "resolution"
    /\ IF res = Part THEN LoadFails
       ELSE load' = [load EXCEPT !.pc = "layers", !.res = res]
    /\ UNCHANGED <<layers, res, cmd, code, events, careful>>

\* The files still to be read, in the order of the loop.
Unread == {p \in load.names \X (1..3) : FileOrder[p[2]] \notin DOMAIN load.got[p[1]]}

FirstUnread ==
    CHOOSE p \in Unread :
        \A q \in Unread : p[1] < q[1] \/ (p[1] = q[1] /\ p[2] <= q[2])

\* A layer's three files, one after the other.
LoadFile ==
    /\ load.pc = "layers" /\ Unread # {}
    /\ LET v == FirstUnread[1]
           f == FileOrder[FirstUnread[2]]
       IN  IF v \notin Dirs \/ layers[v][f] \in {Absent, Part}
           THEN LoadFails
           ELSE load' = [load EXCEPT !.got[v] =
                    [g \in DOMAIN @ \cup {f} |-> IF g = f THEN layers[v][f] ELSE @[g]]]
    /\ UNCHANGED <<layers, res, cmd, code, events, careful>>

LoadEnd ==
    /\ load.pc = "layers" /\ Unread = {}
    /\ IF Loadable(load.got, load.res)
       THEN load' = [load EXCEPT !.pc = "accepted"]
       ELSE LoadFails
    /\ UNCHANGED <<layers, res, cmd, code, events, careful>>

-----------------------------------------------------------------------------
Next ==
    \/ \E d \in Docs, force \in BOOLEAN : AddStart(d, force)
    \/ \E v \in Versions : RemoveStart(v) \/ RetireStart(v)
    \/ RemoveFile \/ RemoveDir \/ MkdirAll \/ OpenFile \/ WriteFile \/ ShortManifest
    \/ OpenResolution \/ WriteResolution \/ ShortResolution
    \/ Interrupt \/ Verify \/ Edit
    \/ LoadStart \/ LoadResolution \/ LoadFile \/ LoadEnd

Spec == Init /\ [][Next]_vars

-----------------------------------------------------------------------------
(* Properties *)

\* The command, the files and the load are what their names say.
TypeOK ==
    /\ \A v \in Versions :
          layers[v] = NoDir \/ layers[v] \in [Files -> Contents \cup {Absent, Part}]
    /\ res \in Resolutions \cup {Absent, Part}
    /\ cmd.op \in {"none", "add", "remove", "retire"}
    /\ cmd.op = "add" => cmd.doc \in Docs /\ cmd.doc.version = cmd.version
    /\ cmd.op # "none" => cmd.version \in Versions
    /\ load.names \subseteq Versions

\* docs/concepts.md:59-66, bundlegen.go:396-404: whatever is interrupted, and
\* however --force is used to start over, the files of a layer are never those
\* of two documents.
OneDocumentPerLayer ==
    \A v \in Dirs : \A f, g \in Files :
        layers[v][f] \in Contents /\ layers[v][g] \in Contents =>
            layers[v][f].doc = layers[v][g].doc

\* bundle.go:486-503 beside bundlegen.go:397-422: a load that overlaps commands
\* never puts a layer together from two documents, unless the layer was removed
\* under it; nor does it see a contract the document does not have.
LoadedFromOneDocument ==
    load.pc = "accepted" =>
        \A v \in load.names \ load.replaced :
            \E d \in Docs :
                /\ load.got[v]["descriptors"] = Whole(d)
                /\ load.got[v]["openapi"] = Whole(d)
                /\ load.got[v]["versions"] \in {Whole(d)} \cup Prefixes(d)

\* docs/concepts.md:70-75, docs/operations.md:39-42: commands that run to their
\* end keep the directory loadable, in whatever order versions are added,
\* replaced, retired and removed, as long as packages differ, a version is
\* retired into one that binds its routes, and none is removed that a rule names.
CarefulStaysLoadable ==
    careful /\ cmd = NoCommand /\ Dirs # {} => Loadable(layers, res)

\* bundlegen.go:1291: "Any existing overrides for other versions are preserved
\* verbatim."
RetirePreservesOverrides ==
    cmd.op = "retire" =>
        \A i \in DOMAIN RulesOf(cmd.was) :
            \E j \in DOMAIN cmd.out.rules : cmd.out.rules[j] = RulesOf(cmd.was)[i]

-----------------------------------------------------------------------------
\* The directory as module BundleDir sees it.
Version(v) ==
    IF layers[v] = NoDir THEN Absent
    ELSE IF \E d \in Docs : IsWhole(layers[v], d)
    THEN CHOOSE d \in Docs : IsWhole(layers[v], d)
    ELSE Part

Dir == INSTANCE BundleDir WITH
    Rules <- Resolutions,
    Torn  <- Part,
    ver   <- [v \in Versions |-> Version(v)],
    rules <- res,
    job   <- [op |-> cmd.op, version |-> cmd.version, force |-> cmd.force]

\* docs/concepts.md:59-75: seen as versions, absent, torn or whole, the commands
\* do what BundleDir promises: a frozen version is given up only by the removal
\* of the oldest one or by --force, and only retire rewrites resolution.yaml.
Implements == Dir!Spec
=============================================================================
