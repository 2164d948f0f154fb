-------------------------------- MODULE Drift --------------------------------
(***************************************************************************)
(* wavefront-bundle draft-shim: the stanzas, candidates and notes it       *)
(* proposes for two versions of one operation, from the top-level          *)
(* properties of the bodies.                                               *)
(***************************************************************************)
EXTENDS Lowering

CONSTANT
    Normalized(_)   \* a field name in lower case, without "_" and "-"

\* "" for what is no primitive.
primitiveType(s) == IF s.k \in Scalars THEN s.k ELSE ""

\* The placeholder of a drafted default, whose 0 the YAML loader makes an integer.
\* A $ref and a union have no type.
zeroForSchema(s) ==
    CASE s.k = "boolean" -> [k |-> "bool", v |-> "false"]
      [] s.k \in Scalars \ {"string", "boolean"} -> [k |-> "int", v |-> "0"]
      [] s.k = "array" -> [k |-> "arr", v |-> ""]
      [] s.k \in {"map", "open", "inline"} -> [k |-> "obj", v |-> ""]
      [] OTHER -> [k |-> "str", v |-> ""]

\* The added fields that removed field r goes with and no pair has taken.
Free(r, alike, pairs) == {p[2] : p \in {x \in alike : x[1] = r}} \ {p[2] : p \in pairs}

\* Each removed field, in order, takes the first added one that is left and is
\* alike.
Pairs(removed, alike) ==
    LET rs == Sorted(removed)
        at[i \in 0..Len(rs)] ==
            IF i = 0 THEN {}
            ELSE LET free == Free(rs[i], alike, at[i - 1])
                 IN  IF free = {} THEN at[i - 1] ELSE at[i - 1] \cup {<<rs[i], First(free)>>}
    IN  at[Len(rs)]

\* Mutant: the names are enough.
matchCaseRenamesByName(removed, added, from, to) ==
    Pairs(removed, {p \in removed \X added : Normalized(p[1]) = Normalized(p[2])})

\* Of one primitive type.
SameType(removed, added, from, to) ==
    {p \in removed \X added :
        primitiveType(from[p[1]]) # "" /\ primitiveType(from[p[1]]) = primitiveType(to[p[2]])}

matchCaseRenames(removed, added, from, to) ==
    Pairs(removed, {p \in SameType(removed, added, from, to) :
                       Normalized(p[1]) # "" /\ Normalized(p[1]) = Normalized(p[2])})

matchAmbiguousPairs(removed, added, from, to) ==
    Pairs(removed, SameType(removed, added, from, to))

Bare(n) == <<[name |-> n, array |-> FALSE]>>

RenameStanza(r, a) == [verb |-> "rename", from |-> Bare(r), to |-> Bare(a)]

DefaultStanza(a, value) == [verb |-> "default", field |-> Bare(a), value |-> value]

CoerceStanza(n, to) == [verb |-> "coerce", field |-> Bare(n), to |-> to]

\* The stanzas of some pairs and of some names, in the order of the names.
RenameStanzas(pairs) ==
    LET ns == Sorted({p[1] : p \in pairs})
    IN  [i \in DOMAIN ns |-> RenameStanza(ns[i], (CHOOSE p \in pairs : p[1] = ns[i])[2])]

DefaultStanzas(names, to) ==
    LET ns == Sorted(names)
    IN  [i \in DOMAIN ns |-> DefaultStanza(ns[i], zeroForSchema(to[ns[i]]))]

CoerceStanzas(names, to) ==
    LET ns == Sorted(names)
    IN  [i \in DOMAIN ns |-> CoerceStanza(ns[i], primitiveType(to[ns[i]]))]

\* One direction: a shape that arrives and a shape that must leave.  Strict
\* drafts have no confident renames.
draftDirection(from, to, strict) ==
    LET removed  == DOMAIN from \ DOMAIN to
        added    == DOMAIN to \ DOMAIN from
        renames  == IF strict THEN {}
                    ELSE matchCaseRenames(removed, added, from, to)
        removed2 == removed \ {p[1] : p \in renames}
        added2   == added \ {p[2] : p \in renames}
        cands    == matchAmbiguousPairs(removed2, added2, from, to)
        missing  == added2 \ {p[2] : p \in cands}
        retyped  == {n \in DOMAIN from \cap DOMAIN to :
                        /\ primitiveType(from[n]) # "" /\ primitiveType(to[n]) # ""
                        /\ primitiveType(from[n]) # primitiveType(to[n])}
    IN  [ops   |-> RenameStanzas(renames) \o DefaultStanzas(missing, to) \o CoerceStanzas(retyped, to),
         cands |-> cands,
         notes |-> removed2 \ {p[1] : p \in cands}]

\* resolveOperationSchema: the properties of a side; a component that is not
\* collected as a message has none to show.
PropertiesOf(d, side) ==
    IF BoundTo(side) = Empty THEN <<>> ELSE d.schemas[BoundTo(side)].props

\* Exactly one operation on either side, and bodies that are messages.
Draftable(d) ==
    /\ Cardinality(d.ops) = 1
    /\ \A op \in d.ops :
          ~ Refused(op.request) /\ ~ Refused(successResponse(op))

\* DraftShim and DraftShimStrict: requests go from the old shape to the new one,
\* responses back.
draftShim(old, new, strict) ==
    LET oldOp == CHOOSE op \in old.ops : TRUE
        newOp == CHOOSE op \in new.ops : TRUE
    IN  [request  |-> draftDirection(PropertiesOf(old, oldOp.request),
                                     PropertiesOf(new, newOp.request), strict),
         response |-> draftDirection(PropertiesOf(new, successResponse(newOp)),
                                     PropertiesOf(old, successResponse(oldOp)), strict)]
==============================================================================
