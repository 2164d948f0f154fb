------------------------------ MODULE Lowering ------------------------------
(***************************************************************************)
(* What wavefront-bundle add makes of an OpenAPI document before it writes *)
(* anything: the component schemas its operations need, a proto identifier *)
(* for each, a message for each, and the bindings of versions.yaml.        *)
(*                                                                         *)
(* A schema is known by its kind, the kind of its items, values or         *)
(* non-null member, and the component it refers to.  "open" is what lowers *)
(* to google.protobuf.Struct, "union" what lowers to google.protobuf.Value,*)
(* "unsupported" what rejectUnsupported refuses, "inline" an object with   *)
(* properties that is not a component, "message" a component that is one.  *)
(***************************************************************************)
EXTENDS Integers, Sequences, FiniteSets

CONSTANTS
    Components,       \* names of component schemas
    Documents,        \* OpenAPI documents
    Order,            \* every name, in lexical order
    Empty,            \* the name of the synthetic message
    None,             \* no component
    Ident(_),         \* a name with every illegal character replaced
    Numbered(_, _),   \* an identifier with a numeric suffix
    Folded(_)         \* an identifier in lower case, without underscores

Ordered == {Order[i] : i \in DOMAIN Order}

\* Every component and every property has its place in the order, and no name
\* has two.
ASSUME OrderAssumption ==
    /\ Order \in Seq(Ordered)
    /\ \A i, j \in DOMAIN Order : i # j => Order[i] # Order[j]
    /\ Components \cup {Empty} \subseteq Ordered
    /\ \A d \in Documents :
          /\ DOMAIN d.schemas \subseteq Components
          /\ \A n \in DOMAIN d.schemas :
                d.schemas[n].k = "message" => DOMAIN d.schemas[n].props \subseteq Ordered

\* Different numbers make different identifiers.
ASSUME NumberedAssumption ==
    \A n \in Ordered : \A i, j \in 2..Len(Order) + 2 :
        i # j => Numbered(Ident(n), i) # Numbered(Ident(n), j)

Scalars == {"string", "boolean", "int32", "int64", "float", "double"}

SchemaOf(s) == [k |-> s.k, item |-> s.item, ref |-> s.ref]

VARIABLES
    doc,        \* the document add was given
    stage,      \* how far add has come, or how it ended
    pending,    \* components referred to and not visited yet
    visited,    \* components visited
    needed,     \* of those, the ones that become messages
    idents,     \* component |-> proto identifier
    messages    \* component |-> property |-> field

lowerVars == <<doc, stage, pending, visited, needed, idents, messages>>

-----------------------------------------------------------------------------
(* Names *)

Sorted(S) ==
    LET at[i \in 0..Len(Order)] ==
            IF i = 0 THEN <<>>
            ELSE IF Order[i] \in S THEN Append(at[i - 1], Order[i]) ELSE at[i - 1]
    IN  at[Len(Order)]

Rank(n) == CHOOSE i \in DOMAIN Order : Order[i] = n

First(S) == CHOOSE n \in S : \A m \in S : Rank(n) <= Rank(m)

\* Mutant: names that sanitize alike are told apart by nothing.
uniqueIdentFused(raw, used) == Ident(raw)

uniqueIdent(raw, used) ==
    IF Ident(raw) \notin used THEN Ident(raw)
    ELSE LET free == {i \in 2..Cardinality(used) + 2 : Numbered(Ident(raw), i) \notin used}
         IN  Numbered(Ident(raw), CHOOSE i \in free : \A j \in free : i <= j)

\* The names that have an identifier, and one more.
Named(f, n) ==
    [m \in DOMAIN f \cup {n} |->
        IF m = n THEN uniqueIdent(n, {f[x] : x \in DOMAIN f}) ELSE f[m]]

\* property |-> the name of its field, given out in the order of the properties.
FieldIdents(props) ==
    LET at[i \in 0..Len(Order)] ==
            IF i = 0 THEN <<>>
            ELSE IF Order[i] \in DOMAIN props THEN Named(at[i - 1], Order[i])
            ELSE at[i - 1]
    IN  at[Len(Order)]

-----------------------------------------------------------------------------
(* Operations *)

\* The success response is the lowest 2xx that is declared.
successResponse(op) ==
    LET ok == {s \in DOMAIN op.responses : s \in 200..299}
    IN  IF ok = {} THEN [k |-> "none", ref |-> None]
        ELSE op.responses[CHOOSE s \in ok : \A t \in ok : s <= t]

Errors(op) == {s \in DOMAIN op.responses : s \notin 200..299 /\ s \notin 300..399}

\* A side without a body, or with the schema {}, binds Empty; so does an error
\* response without a JSON schema.  Any other side must be a $ref.
Refused(side) == side.k \in {"inline", "otherMedia"}

BoundTo(side) == IF side.k = "ref" THEN side.ref ELSE Empty

OperationRefused(op) ==
    \/ Refused(op.request) \/ Refused(successResponse(op))
    \/ \E s \in Errors(op) : op.responses[s].k = "inline"

Sides(op) ==
    {op.request, successResponse(op)} \cup {op.responses[s] : s \in Errors(op)}

Roots(d) == UNION {{BoundTo(side) : side \in Sides(op)} : op \in d.ops}

\* partitionEmpty goes by the name alone.
realRoots(d) == Roots(d) \ {Empty}

needEmpty(d) == Empty \in Roots(d)

-----------------------------------------------------------------------------
(* Components *)

IsMessage(d, n) == d.schemas[n].k = "message"

\* The components a schema pulls in.  Members of a union are not looked at.
walkRefs(s) ==
    IF s.k = "ref" \/ (s.k \in {"array", "map", "nullable"} /\ s.item = "ref")
    THEN {s.ref} ELSE {}

RefsOf(d, n) ==
    IF n \notin DOMAIN d.schemas THEN {}
    ELSE IF IsMessage(d, n)
    THEN UNION {walkRefs(d.schemas[n].props[p]) : p \in DOMAIN d.schemas[n].props}
    ELSE walkRefs(d.schemas[n])

VisitRefused(d, n) ==
    \/ n \notin DOMAIN d.schemas
    \/ d.schemas[n].k = "unsupported"
    \/ /\ IsMessage(d, n)
       /\ \E p \in DOMAIN d.schemas[n].props : d.schemas[n].props[p].k = "unsupported"

-----------------------------------------------------------------------------
(* Fields *)

\* buildField goes through a $ref, or the $ref of a nullable, to a component
\* that is no message.
IsAlias(d, s) ==
    /\ s.k = "ref" \/ (s.k = "nullable" /\ s.item = "ref")
    /\ ~ IsMessage(d, s.ref)

\* As many steps as there are components; a chain that is longer is a cycle.
Unaliased(d, s) ==
    LET at[n \in 0..Cardinality(Components)] ==
            IF n = 0 THEN [schema |-> SchemaOf(s), opt |-> FALSE]
            ELSE LET here == at[n - 1]
                 IN  IF IsAlias(d, here.schema)
                     THEN [schema |-> SchemaOf(d.schemas[here.schema.ref]),
                           opt    |-> here.opt \/ here.schema.k = "nullable"]
                     ELSE here
    IN  at[Cardinality(Components)]

\* Items and map values are looked through once.
ItemOf(d, s) ==
    IF s.item = "ref" /\ ~ IsMessage(d, s.ref) THEN SchemaOf(d.schemas[s.ref])
    ELSE [k |-> s.item, item |-> "", ref |-> s.ref]

Field(type, msg, shape, opt) == [type |-> type, msg |-> msg, shape |-> shape, opt |-> opt]

NoField == Field("refused", None, "single", FALSE)

\* Integers and numbers in an array get the wide type.
Widened(k) == IF k = "int32" THEN "int64" ELSE IF k = "float" THEN "double" ELSE k

\* The message of struct.proto that takes an open object or a union.
wktMessageName(k) == IF k = "open" THEN "struct" ELSE "value"

buildField(d, s) ==
    LET u    == Unaliased(d, s)
        e    == u.schema
        it   == ItemOf(d, e)
    IN  CASE e.k \in Scalars -> Field(e.k, None, "single", u.opt)
          [] e.k = "nullable" /\ e.item \in Scalars -> Field(e.item, None, "single", TRUE)
          [] e.k \in {"open", "union"} -> Field(wktMessageName(e.k), None, "single", u.opt)
          [] e.k = "ref" \/ (e.k = "nullable" /\ e.item = "ref") ->
                Field("message", e.ref, "single", u.opt \/ e.k = "nullable")
          [] e.k = "array" /\ it.k \in {"open", "union"} ->
                Field(wktMessageName(it.k), None, "repeated", u.opt)
          [] e.k = "array" /\ it.k \in Scalars -> Field(Widened(it.k), None, "repeated", u.opt)
          [] e.k = "map" /\ it.k \in Scalars -> Field(it.k, None, "map", u.opt)
          [] e.k \in {"array", "map"} /\ it.k = "ref" ->
                Field("message", it.ref, IF e.k = "map" THEN "map" ELSE "repeated", u.opt)
          [] OTHER -> NoField

buildMessage(d, n) ==
    IF n \notin DOMAIN d.schemas THEN <<>>
    ELSE [p \in DOMAIN d.schemas[n].props |-> buildField(d, d.schemas[n].props[p])]

\* Following aliases never ends: the stack overflows.
Overflows(d, n) ==
    \E p \in DOMAIN d.schemas[n].props :
        IsAlias(d, Unaliased(d, d.schemas[n].props[p]).schema)

\* protodesc.NewFiles: type names resolve, only a single field is optional, and
\* no two field names of a message are alike but for case and underscores.
NewFilesAccepts ==
    \A n \in DOMAIN messages :
        /\ \A p \in DOMAIN messages[n] :
              /\ messages[n][p].type = "message" => messages[n][p].msg \in DOMAIN idents
              /\ messages[n][p].opt => messages[n][p].shape = "single"
        /\ LET f == FieldIdents(messages[n])
           IN  \A p, q \in DOMAIN messages[n] : p # q => Folded(f[p]) # Folded(f[q])

-----------------------------------------------------------------------------
LowerInit ==
    /\ doc \in Documents
    /\ stage = "read"
    /\ pending = {} /\ visited = {} /\ needed = {}
    /\ idents = <<>> /\ messages = <<>>

Refuse == stage' = "refused" /\ UNCHANGED <<doc, pending, visited, needed, idents, messages>>

\* The operations and the sides they bind.
ReadOperations ==
    /\ stage = "read"
    /\ IF doc.ops = {} \/ \E op \in doc.ops : OperationRefused(op)
       THEN Refuse
       ELSE /\ stage' = "collect"
            /\ pending' = realRoots(doc)
            /\ UNCHANGED <<doc, visited, needed, idents, messages>>

\* Mutant: references are looked for below messages only.
PulledInByMessages(d, n) == IF IsMessage(d, n) THEN RefsOf(d, n) ELSE {}

PulledIn(d, n) == RefsOf(d, n)

\* collectSchemas, a component at a time, in whatever order Go's maps give.
Visit(n) ==
    /\ stage = "collect"
    /\ n \in pending
    /\ IF VisitRefused(doc, n)
       THEN Refuse
       ELSE /\ visited' = visited \cup {n}
            /\ pending' = (pending \cup PulledIn(doc, n)) \ visited'
            /\ needed' = IF IsMessage(doc, n) THEN needed \cup {n} ELSE needed
            /\ UNCHANGED <<doc, stage, idents, messages>>

\* Mutant: any component may be a body.
BodiesAny(d, built) == TRUE

\* A body must be a message.
Bodies(d, built) == realRoots(d) \subseteq built

Collected ==
    /\ stage = "collect"
    /\ pending = {}
    /\ IF Bodies(doc, needed)
       THEN stage' = "name" /\ UNCHANGED <<doc, pending, visited, needed, idents, messages>>
       ELSE Refuse

\* The synthetic message is added unless a component has its name.
MessageNames(d, built) == built \cup (IF needEmpty(d) THEN {Empty} ELSE {})

\* sanitizeMessageNames, a name at a time.
NameMessage ==
    /\ stage = "name"
    /\ LET todo == MessageNames(doc, needed) \ DOMAIN idents
           n    == First(todo)
       IN  IF todo = {}
           THEN stage' = "build" /\ UNCHANGED idents
           ELSE idents' = Named(idents, n) /\ UNCHANGED stage
    /\ UNCHANGED <<doc, pending, visited, needed, messages>>

BuildRefused(d, n) == NoField \in {buildMessage(d, n)[p] : p \in DOMAIN buildMessage(d, n)}

\* A component that is needed is built; the synthetic one has no fields.
FieldsOf(d, n) == IF n \in needed THEN buildMessage(d, n) ELSE <<>>

\* buildMessage, a message at a time, and NewFiles at the end.
BuildMessage ==
    /\ stage = "build"
    /\ LET todo == DOMAIN idents \ DOMAIN messages
           n    == First(todo)
       IN  IF todo = {}
           THEN stage' = (IF NewFilesAccepts THEN "accepted" ELSE "refused") /\ UNCHANGED messages
           ELSE IF n \in needed /\ Overflows(doc, n)
           THEN stage' = "crashed" /\ UNCHANGED messages
           ELSE IF n \in needed /\ BuildRefused(doc, n)
           THEN stage' = "refused" /\ UNCHANGED messages
           ELSE /\ messages' = [m \in DOMAIN messages \cup {n} |->
                                   IF m = n THEN FieldsOf(doc, n) ELSE messages[m]]
                /\ UNCHANGED stage
    /\ UNCHANGED <<doc, pending, visited, needed, idents>>

LowerNext ==
    \/ ReadOperations
    \/ \E n \in Components : Visit(n)
    \/ Collected \/ NameMessage \/ BuildMessage

LowerSpec == LowerInit /\ [][LowerNext]_lowerVars

-----------------------------------------------------------------------------
(* Properties *)

\* Everything the operations reach through references.
Reach(d) ==
    {n \in DOMAIN d.schemas :
        \A S \in SUBSET DOMAIN d.schemas :
            realRoots(d) \subseteq S /\ (\A m \in S : RefsOf(d, m) \subseteq S) => n \in S}

\* bundlegen.go:283-286, 663-722: whatever order Go's maps are walked in, the
\* messages are those of the components the operations reach, and no other:
\* the same document gives the same layer.
Reproducible ==
    stage \in {"name", "build", "accepted"} =>
        needed = {n \in Reach(doc) : IsMessage(doc, n)}

\* bundlegen.go:1207-1219: two names never fuse into one identifier, neither two
\* components of a layer nor two properties of a message.
NamesDistinct ==
    /\ \A m, n \in DOMAIN idents : m # n => idents[m] # idents[n]
    /\ \A n \in DOMAIN messages :
          LET f == FieldIdents(messages[n])
          IN  \A p, q \in DOMAIN messages[n] : p # q => f[p] # f[q]

\* bundlegen.go:187-219, 271-280: of an accepted document every side of every
\* operation binds a message of the layer, and a side that refers to a component
\* binds one with exactly that component's properties, every one of them built.
\* A component called Empty is the exception: the synthetic message stands for it.
BindingsKeepProperties ==
    stage = "accepted" =>
        \A op \in doc.ops : \A side \in Sides(op) :
            /\ BoundTo(side) \in DOMAIN messages
            /\ side.k = "ref" /\ side.ref # Empty =>
                  /\ DOMAIN messages[side.ref] = DOMAIN doc.schemas[side.ref].props
                  /\ \A p \in DOMAIN messages[side.ref] : messages[side.ref][p] # NoField
=============================================================================
