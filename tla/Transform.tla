------------------------------ MODULE Transform ------------------------------
(***************************************************************************)
(* transform.apply: a list of stanzas run over a JSON body, one after the  *)
(* other, all or nothing.                                                  *)
(*                                                                         *)
(* A body is a function from positions to nodes.  A position is the        *)
(* sequence of steps from the root: field n of an object is the step       *)
(* [name |-> n, idx |-> 0], element i of the array in field n the step     *)
(* [name |-> n, idx |-> i].  The walkers recurse and stop at the first     *)
(* failure; since a failure discards the whole body, what they do is said  *)
(* here of all instances of a path at once.                                *)
(***************************************************************************)
EXTENDS Integers, Sequences, FiniteSets

CONSTANTS
    Names,        \* object keys
    Texts,        \* what strings and numbers say
    ParseFloat,   \* a function: texts that are numbers |-> the float64
    Float64       \* a function: number literals |-> the nearest float64

\* Numbers are texts; the nearest float64 of one is one, and of a float64 it is
\* itself; NaN is none.
ASSUME TextAssumption ==
    /\ {"", "0", "false"} \cup DOMAIN Float64 \cup DOMAIN ParseFloat \subseteq Texts
    /\ "0" \in DOMAIN Float64
    /\ \A t \in DOMAIN Float64 :
          Float64[t] \in DOMAIN Float64 /\ Float64[Float64[t]] = Float64[t]
    /\ \A t \in DOMAIN ParseFloat :
          ParseFloat[t] \in Texts /\ ParseFloat[t] \in DOMAIN Float64 \cup {"NaN", "Inf"}
    /\ {"NaN", "Inf"} \cap DOMAIN Float64 = {}

Step == [name : Names, idx : Nat]

\* A number is "int" where the YAML loader has kept it as a Go integer, "num"
\* where it is a float64.  Written as JSON both are the same.
NumberKinds == {"num", "int"}

NodeKinds == {"obj", "arr", "str", "bool", "null"} \cup NumberKinds

Nodes == [k : NodeKinds, v : Texts]

Obj == [k |-> "obj", v |-> ""]

Null == [k |-> "null", v |-> ""]

NonFinite == {"NaN", "Inf"}

Segment == [name : Names, array : BOOLEAN]

\* ParsePath: at least one segment, and a leaf at the end.
Path == {p \in Seq(Segment) : p # <<>> /\ ~ p[Len(p)].array}

VARIABLES
    ops,      \* the stanzas, parsed and checked by toOps
    next,     \* the stanza to run next
    opts,     \* the paths made optional so far
    body,     \* the decoded body
    given,    \* the body as it was handed to apply
    verdict   \* "idle", "running", "done" or "failed"

applyVars == <<ops, next, opts, body, given, verdict>>

-----------------------------------------------------------------------------
(* Paths in a body *)

Upto(q, k) == SubSeq(q, 1, k)

\* What position q hangs on.
Above(q) == Upto(q, Len(q) - 1)

\* The array of an element.
ArrayOf(q) == [q EXCEPT ![Len(q)] = [@ EXCEPT !.idx = 0]]

Relabel(q, n, x) == [q EXCEPT ![n] = [@ EXCEPT !.name = x]]

IsObject(b) == <<>> \in DOMAIN b /\ b[<<>>].k = "obj"

\* Every position hangs on an object, an array element also on its array.
IsTree(b) ==
    /\ IsObject(b)
    /\ \A q \in DOMAIN b : Len(q) > 0 =>
          /\ Above(q) \in DOMAIN b /\ b[Above(q)].k = "obj"
          /\ q[Len(q)].idx > 0 => ArrayOf(q) \in DOMAIN b /\ b[ArrayOf(q)].k = "arr"

\* What a JSON document says, and what a default may inject.
IsValue(node) == node \in Nodes /\ (node.k \in NumberKinds => node.v \in DOMAIN Float64)

IsJSON(b) ==
    /\ b \in [DOMAIN b -> Nodes]
    /\ DOMAIN b \subseteq Seq(Step)
    /\ \A q \in DOMAIN b : IsValue(b[q])
    /\ IsObject(b) => IsTree(b)

\* Position q is an instance of the first segments of path p.
Along(q, p) ==
    /\ Len(q) <= Len(p)
    /\ \A i \in 1..Len(q) : q[i].name = p[i].name /\ (q[i].idx > 0 <=> p[i].array)

\* The objects a walk along p meets after k segments.
Met(b, p, k) == {q \in DOMAIN b : Len(q) = k /\ Along(q, p) /\ b[q].k = "obj"}

At(q, n) == Append(q, [name |-> n, idx |-> 0])

Absent(b, q, n) == At(q, n) \notin DOMAIN b

Missing(b, q, n) == Absent(b, q, n) \/ b[At(q, n)].k = "null"

Elements(b, q, n) ==
    {e \in DOMAIN b : /\ Len(e) = Len(q) + 1 /\ Above(e) = q
                      /\ e[Len(e)].name = n /\ e[Len(e)].idx > 0}

\* What is there is not what the segment reads: an array of objects, or an object.
Mismatch(b, q, seg) ==
    IF seg.array
    THEN \/ b[At(q, seg.name)].k # "arr"
         \/ \E e \in Elements(b, q, seg.name) : b[e].k # "obj"
    ELSE b[At(q, seg.name)].k # "obj"

HasPrefixByName(p, prefix) ==
    /\ Len(prefix) <= Len(p)
    /\ \A i \in 1..Len(prefix) : prefix[i].name = p[i].name

coversByName(optional, p) == \E o \in optional : HasPrefixByName(p, o)

Rest(p, k) == SubSeq(p, k, Len(p))

\* walkLeaves fails on the way to the leaves.  Below the first segment it asks
\* about the path that is left, not about the whole path.
walkLeavesFails(b, p, optional) ==
    \E k \in 1..Len(p) - 1 : \E q \in Met(b, p, k - 1) :
        IF Missing(b, q, p[k].name) THEN ~ coversByName(optional, Rest(p, k))
        ELSE Mismatch(b, q, p[k])

\* walkLeavesEnsureObjects creates missing objects, never arrays.
ensureObjectsFails(b, p) ==
    \E k \in 1..Len(p) - 1 : \E q \in Met(b, p, k - 1) :
        IF Missing(b, q, p[k].name) THEN \E j \in k..Len(p) - 1 : p[j].array
        ELSE Mismatch(b, q, p[k])

Leaf(p) == p[Len(p)].name

\* The objects that hold, or could hold, the leaf.
Parents(b, p) == Met(b, p, Len(p) - 1)

-----------------------------------------------------------------------------
(* Verbs *)

\* coerce: "number" parses what ParseFloat takes, NaN and Inf included.  It knows
\* float64 only: an integer that a default has injected has no form at all.
Coercible(node, to) ==
    CASE to = "string" -> node.k \in {"str", "num", "bool"}
      [] to = "number" -> node.k = "num" \/ (node.k = "str" /\ node.v \in DOMAIN ParseFloat)
      [] to = "bool"   -> node.k = "bool" \/ (node.k = "str" /\ node.v \in {"true", "false"})

coerce(node, to) ==
    CASE to = "string" -> [k |-> "str", v |-> node.v]
      [] to = "number" -> [k |-> "num", v |-> IF node.k = "num" THEN node.v ELSE ParseFloat[node.v]]
      [] to = "bool"   -> [k |-> "bool", v |-> node.v]

\* Mutant: only the field itself moves, the elements of an array stay behind.
MovedField(b, q, op) ==
    LET n == Len(op.from)
    IN  Len(q) >= n /\ Upto(q, n - 1) \in Parents(b, op.from)
        /\ q[n].name = Leaf(op.from) /\ q[n].idx = 0

\* Mutant: every field of that name at that depth moves.
MovedEverywhere(b, q, op) == Len(q) >= Len(op.from) /\ q[Len(op.from)].name = Leaf(op.from)

\* A rename moves the leaf and everything below it.
Moved(b, q, op) ==
    LET n == Len(op.from)
    IN  /\ Len(q) >= n
        /\ Upto(q, n - 1) \in Parents(b, op.from)
        /\ q[n].name = Leaf(op.from)

RenameFails(b, op, optional) ==
    \/ walkLeavesFails(b, op.from, optional)
    \/ \E q \in Parents(b, op.from) :
          IF Absent(b, q, Leaf(op.from)) THEN ~ coversByName(optional, op.from)
          ELSE ~ Absent(b, q, Leaf(op.to))

Rename(b, op) ==
    LET n     == Len(op.from)
        moved == {q \in DOMAIN b : Moved(b, q, op)}
    IN  [q \in (DOMAIN b \ moved) \cup {Relabel(m, n, Leaf(op.to)) : m \in moved} |->
            IF q \in DOMAIN b \ moved THEN b[q] ELSE b[Relabel(q, n, Leaf(op.from))]]

\* What a default creates: where the path of op first finds nothing, or null,
\* the objects from there down and the value at the end.
Created(b, op) ==
    LET n == Len(op.field)
        below(q, k, m) == q \o [i \in 1..m - k + 1 |-> [name |-> op.field[k + i - 1].name, idx |-> 0]]
        lacking(k) == {q \in Met(b, op.field, k - 1) : Missing(b, q, op.field[k].name)}
    IN  UNION {{below(q, k, m) : q \in lacking(k), m \in k..n} : k \in 1..n}

Default(b, op) ==
    [q \in DOMAIN b \cup Created(b, op) |->
        IF q \notin Created(b, op) THEN b[q]
        ELSE IF Len(q) = Len(op.field) THEN op.value ELSE Obj]

CoerceFails(b, op, optional) ==
    \/ walkLeavesFails(b, op.field, optional)
    \/ \E q \in Parents(b, op.field) :
          IF Absent(b, q, Leaf(op.field)) THEN ~ coversByName(optional, op.field)
          ELSE ~ Coercible(b[At(q, Leaf(op.field))], op.to)

Coerce(b, op) ==
    LET leaves == {At(q, Leaf(op.field)) : q \in Parents(b, op.field)}
    IN  [q \in DOMAIN b |-> IF q \in leaves THEN coerce(b[q], op.to) ELSE b[q]]

Fails(b, op, optional) ==
    CASE op.verb = "rename"      -> RenameFails(b, op, optional)
      [] op.verb = "default"     -> ensureObjectsFails(b, op.field)
      [] op.verb = "coerce"      -> CoerceFails(b, op, optional)
      [] op.verb = "optionalize" -> FALSE

Applied(b, op) ==
    CASE op.verb = "rename"      -> Rename(b, op)
      [] op.verb = "default"     -> Default(b, op)
      [] op.verb = "coerce"      -> Coerce(b, op)
      [] op.verb = "optionalize" -> b

-----------------------------------------------------------------------------
(* apply *)

\* json.Unmarshal makes every number a float64.
Unmarshal(b) ==
    [q \in DOMAIN b |->
        IF b[q].k \in NumberKinds THEN [k |-> "num", v |-> Float64[b[q].v]] ELSE b[q]]

\* Mutant: the stanzas are counted from zero.
BeginAtZero(list, b) ==
    /\ ops' = list
    /\ next' = 0
    /\ opts' = {}
    /\ given' = b
    /\ body' = b
    /\ verdict' = IF list = <<>> THEN "done" ELSE "running"

\* Without stanzas the bytes pass as they are; anything else than an object fails.
Begin(list, b) ==
    /\ ops' = list
    /\ next' = 1
    /\ opts' = {}
    /\ given' = b
    /\ IF list = <<>> THEN body' = b /\ verdict' = "done"
       ELSE IF IsObject(b) THEN body' = Unmarshal(b) /\ verdict' = "running"
       ELSE body' = b /\ verdict' = "failed"

\* One stanza.
Apply ==
    /\ verdict = "running"
    /\ next <= Len(ops)
    /\ IF Fails(body, ops[next], opts)
       THEN verdict' = "failed" /\ UNCHANGED <<next, opts, body>>
       ELSE /\ body' = Applied(body, ops[next])
            /\ opts' = IF ops[next].verb = "optionalize"
                       THEN opts \cup {ops[next].field} ELSE opts
            /\ next' = next + 1
            /\ UNCHANGED verdict
    /\ UNCHANGED <<ops, given>>

Encodable(b) == \A q \in DOMAIN b : b[q].k = "num" => b[q].v \notin NonFinite

\* json.Marshal, which has no NaN and no Inf.
Marshal ==
    /\ verdict = "running"
    /\ next > Len(ops)
    /\ verdict' = IF Encodable(body) THEN "done" ELSE "failed"
    /\ UNCHANGED <<ops, next, opts, body, given>>

-----------------------------------------------------------------------------
(* Properties *)

\* transform.go:86-149, walk.go: a body stays a JSON value through every list of
\* stanzas, nested and repeated fields included, and what is handed on has
\* no number that JSON cannot write.
StaysJSON ==
    /\ verdict \in {"running", "done"} /\ ops # <<>> => IsTree(body)
    /\ verdict = "done" /\ ops # <<>> => Encodable(body)

NamesAgree(q, p) == \A i \in 1..Len(p) : i <= Len(q) => q[i].name = p[i].name

\* Stanza op speaks of position q.
Addresses(op, q) ==
    CASE op.verb = "rename"      -> Len(q) >= Len(op.from) /\ (NamesAgree(q, op.from) \/ NamesAgree(q, op.to))
      [] op.verb = "default"     -> Len(q) <= Len(op.field) /\ NamesAgree(q, op.field)
      [] op.verb = "coerce"      -> Len(q) = Len(op.field) /\ NamesAgree(q, op.field)
      [] op.verb = "optionalize" -> FALSE

\* transform.go:67-149: a body keeps everything that no stanza addresses, at its
\* place and with its value (numbers as float64), and gains nothing else.
OnlyAddressedChange ==
    verdict \in {"running", "done"} /\ ops # <<>> =>
        \A q \in DOMAIN given \cup DOMAIN body :
            \/ \E i \in 1..next - 1 : Addresses(ops[i], q)
            \/ q \in DOMAIN given \cap DOMAIN body /\ body[q] = Unmarshal(given)[q]

\* A stanza fails where the documented coverage of optionalize is the whole path's.
documentedFails(b, p, optional) ==
    \E k \in 1..Len(p) - 1 : \E q \in Met(b, p, k - 1) :
        IF Missing(b, q, p[k].name) THEN ~ coversByName(optional, p)
        ELSE Mismatch(b, q, p[k])

\* docs/protocol.md:147-149: "`optionalize {field: P}` covers every path whose
\* first segments equal P **by name**".
OptionalizeCoversByName ==
    verdict = "failed" /\ next <= Len(ops) /\ IsObject(body) =>
        LET op == ops[next]
            p  == IF op.verb = "rename" THEN op.from ELSE op.field
        IN  op.verb \in {"rename", "coerce"} /\ walkLeavesFails(body, p, opts) =>
                documentedFails(body, p, opts)
==============================================================================
