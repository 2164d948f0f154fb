-------------------------------- MODULE Shim --------------------------------
(***************************************************************************)
(* The life of a transform shim.  Two versions of a contract are added; a  *)
(* shim between them is drafted, or written by hand; the bundle is loaded; *)
(* a request of the old version goes through the shim to the upstream, and *)
(* the reply comes back through it.  It composes Lowering (the layers),    *)
(* Drift (the draft), toOps (what Load checks of stanzas), the adapter     *)
(* (the JSON of a message) and Transform.                                  *)
(***************************************************************************)
EXTENDS Drift, Transform

CONSTANTS
    Chains,      \* shims written by hand: sequences of links
    JSONBodies,  \* JSON values clients and upstreams may send
    Replies      \* replies of an upstream that does not echo

\* A stanza, and a list of them, as the YAML gives it.
IsStanza(s) ==
    /\ s.verb = "default" => IsValue(s.value)
    /\ s.verb = "rename" => s = [verb |-> "rename", from |-> s.from, to |-> s.to]

IsList(list) ==
    Len(list) \in Nat /\ DOMAIN list = 1..Len(list) /\ \A i \in DOMAIN list : IsStanza(list[i])

ASSUME ShimAssumption ==
    /\ \A c \in Chains :
          /\ Len(c) \in Nat \ {0} /\ DOMAIN c = 1..Len(c)
          /\ \A k \in DOMAIN c : IsList(c[k].request) /\ IsList(c[k].response)
    /\ \A b \in JSONBodies \cup Replies : IsJSON(b)
    /\ None # "any" /\ {None, "any"} \cap (Components \cup {Empty}) = {}

VARIABLES
    layers,      \* the layers added so far, the old version first
    chain,       \* the links of the shim: stanzas per direction
    made,        \* how the shim was made
    phase,       \* "add", "shim", "serve", "refused" or an outcome
    leg,         \* direction and link the body is at
    client,      \* the JSON of the client's message
    upstream     \* what the upstream was sent, and whether it echoed it

shimVars == <<layers, chain, made, phase, leg, client, upstream>>

vars == <<lowerVars, applyVars, shimVars>>

-----------------------------------------------------------------------------
(* Messages and JSON *)

\* The property a name stands for.  protojson reads the JSON name before the proto
\* name, and writes the JSON name, which is the one the API documents.
Lookup(layer, msg, n, reader) ==
    LET props  == layer.messages[msg]
        byName == {k \in DOMAIN props : FieldIdents(props)[k] = n}
    IN  IF reader = "protojson" /\ n \notin DOMAIN props /\ byName # {}
        THEN CHOOSE k \in byName : TRUE
        ELSE n

\* Behind a map or a message of struct.proto there is anything.
Into(f) ==
    IF f.type = "message" /\ f.shape # "map" THEN f.msg
    ELSE IF f.type \in {"struct", "value"} \/ f.shape = "map" THEN "any"
    ELSE None

\* A step from a message (msg) to its property of name n.
Enter(layer, msg, n, reader) ==
    IF msg = "any" THEN [msg |-> "any", prop |-> n, field |-> Field("any", None, "single", TRUE)]
    ELSE IF msg = None \/ Lookup(layer, msg, n, reader) \notin DOMAIN layer.messages[msg]
    THEN [msg |-> None, prop |-> n, field |-> NoField]
    ELSE LET p == Lookup(layer, msg, n, reader)
             f == layer.messages[msg][p]
         IN  [msg |-> Into(f), prop |-> p, field |-> f]

\* Where the names lead, one after the other.
Reached(layer, root, ns, reader) ==
    LET at[k \in 0..Len(ns)] ==
            IF k = 0 THEN [msg |-> root, prop |-> "", field |-> NoField]
            ELSE Enter(layer, at[k - 1].msg, ns[k], reader)
    IN  at[Len(ns)]

FieldOf(layer, root, ns, reader) == Reached(layer, root, ns, reader).field

\* protojson takes numbers as strings, too.
Takes(f, node, idx) ==
    \/ node.k = "null"
    \/ f.type = "any"
    \/ f.shape = "repeated" /\ idx = 0 /\ node.k = "arr"
    \/ f.shape = "map" /\ node.k = "obj"
    \/ /\ f.shape = "single" \/ (f.shape = "repeated" /\ idx > 0)
       /\ CASE f.type = "string"  -> node.k = "str"
            [] f.type = "boolean" -> node.k = "bool"
            [] f.type = "message" -> node.k = "obj"
            [] f.type = "struct"  -> node.k = "obj"
            [] f.type = "value"   -> TRUE
            [] f.type \in {"int32", "int64"} ->
                  \/ node.k \in NumberKinds
                  \/ node.k = "str" /\ node.v \in DOMAIN ParseFloat \ NonFinite
            [] OTHER ->
                  node.k \in NumberKinds \/ (node.k = "str" /\ node.v \in DOMAIN ParseFloat)

NamesOf(q) == [i \in DOMAIN q |-> q[i].name]

\* No unknown field, and every value fits.
Fits(layer, root, b, reader) ==
    /\ IsObject(b)
    /\ \A q \in DOMAIN b \ {<<>>} :
          LET f == FieldOf(layer, root, NamesOf(q), reader)
          IN  f # NoField /\ Takes(f, b[q], q[Len(q)].idx)

\* The JSON that the document of the layer describes.
Described(layer, root, b) == Fits(layer, root, b, "documented")

\* protojson.Unmarshal, which refuses a field under two names.
Conforms(layer, root, b) ==
    /\ Fits(layer, root, b, "protojson")
    /\ \A p, q \in DOMAIN b \ {<<>>} :
          p # q /\ Above(p) = Above(q) /\ p[Len(p)].idx = q[Len(q)].idx =>
              Reached(layer, root, NamesOf(p), "protojson").prop
                  # Reached(layer, root, NamesOf(q), "protojson").prop

\* protojson.Marshal: a field without presence is left out at its zero value,
\* an int64 is a string.
Zero(node) ==
    \/ node \in {[k |-> "str", v |-> ""], [k |-> "bool", v |-> "false"]}
    \/ node.k \in NumberKinds /\ node.v = "0"

Emits(layer, root, b) ==
    /\ Described(layer, root, b)
    /\ \A q \in DOMAIN b \ {<<>>} :
          LET f == FieldOf(layer, root, NamesOf(q), "documented")
          IN  /\ b[q].k # "null"
              /\ Zero(b[q]) => f.opt
              /\ f.type = "int64" /\ b[q].k # "arr" => b[q].k = "str" /\ b[q].v \in DOMAIN Float64
              /\ f.type = "int32" => b[q].k # "str"
              /\ f.type \in {"float", "double"} /\ b[q].k = "str" => b[q].v \in NonFinite

RequestSide(layer) == (CHOOSE op \in layer.doc.ops : TRUE).request

ResponseSide(layer) == successResponse(CHOOSE op \in layer.doc.ops : TRUE)

RequestOf(layer) == BoundTo(RequestSide(layer))

ResponseOf(layer) == BoundTo(ResponseSide(layer))

\* No bytes at all, which is no JSON either.
Nil == <<>>

\* A request has a body if its message has fields.
HasBody(layer) == layer.messages[RequestOf(layer)] # <<>>

-----------------------------------------------------------------------------
(* toOps *)

\* A descriptor is the set of its fields, each under its proto and its JSON name.
Member(proto, json, field) == [proto |-> proto, json |-> json, field |-> field]

MessageFields(props) == {Member(FieldIdents(props)[k], k, props[k]) : k \in DOMAIN props}

\* The message protodesc makes for the entries of a map.
EntryFields(f) ==
    {Member("key", "key", Field("string", None, "single", FALSE)),
     Member("value", "value", [f EXCEPT !.shape = "single"])}

\* struct.proto.
StructFields ==
    [struct |-> {Member("fields", "fields", Field("value", None, "map", FALSE))},
     list   |-> {Member("values", "values", Field("value", None, "repeated", FALSE))},
     value  |-> {Member("null_value", "nullValue", Field("enum", None, "single", TRUE)),
                 Member("number_value", "numberValue", Field("double", None, "single", TRUE)),
                 Member("string_value", "stringValue", Field("string", None, "single", TRUE)),
                 Member("bool_value", "boolValue", Field("boolean", None, "single", TRUE)),
                 Member("struct_value", "structValue", Field("struct", None, "single", TRUE)),
                 Member("list_value", "listValue", Field("list", None, "single", TRUE))}]

\* Kind MESSAGE, maps included.
IsMessageKind(f) == f.shape = "map" \/ f.type \in {"message"} \cup DOMAIN StructFields

\* fd.Message().
FieldsBehind(layer, f) ==
    IF f.shape = "map" THEN EntryFields(f)
    ELSE IF f.type = "message" THEN MessageFields(layer.messages[f.msg])
    ELSE StructFields[f.type]

\* ByName, then ByJSONName.
FieldNamed(fields, n) ==
    LET byName == {x \in fields : x.proto = n}
        found  == IF byName # {} THEN byName ELSE {x \in fields : x.json = n}
    IN  IF found = {} THEN NoField ELSE (CHOOSE x \in found : TRUE).field

\* The field of each segment.
FieldsAlong(layer, root, p) ==
    LET at[k \in 1..Len(p)] ==
            IF k = 1 THEN FieldNamed(MessageFields(layer.messages[root]), p[1].name)
            ELSE IF IsMessageKind(at[k - 1])
                 THEN FieldNamed(FieldsBehind(layer, at[k - 1]), p[k].name)
            ELSE NoField
    IN  at

\* A segment is an array's or it is not, and only the last may be a scalar.
validatePathAgainstMessage(layer, root, p) ==
    LET f == FieldsAlong(layer, root, p)
    IN  \A k \in DOMAIN p :
            /\ f[k] # NoField
            /\ p[k].array => f[k].shape = "repeated"
            /\ k < Len(p) =>
                  /\ f[k].shape = "repeated" => p[k].array
                  /\ IsMessageKind(f[k])

sameParentDifferentLeaf(p, q) ==
    /\ Len(p) = Len(q)
    /\ \A i \in 1..Len(p) - 1 : p[i] = q[i]
    /\ Leaf(p) # Leaf(q)

\* Grammar, the leaf-only rename, scalar defaults, known targets, one verb.
StanzaAccepted(s) ==
    CASE s.verb = "rename"      -> s.from \in Path /\ s.to \in Path /\ sameParentDifferentLeaf(s.from, s.to)
      [] s.verb = "default"     -> s.field \in Path /\ s.value.k \notin {"arr", "obj"}
      [] s.verb = "coerce"      -> s.field \in Path /\ s.to \in {"string", "number", "bool"}
      [] s.verb = "optionalize" -> s.field \in Path
      [] OTHER -> FALSE

\* The paths that speak of the client's side are checked against its message.
External(dir, s) ==
    CASE dir = "request"  /\ s.verb = "rename" -> {s.from}
      [] dir = "request"  /\ s.verb \in {"coerce", "optionalize"} -> {s.field}
      [] dir = "response" /\ s.verb = "rename" -> {s.to}
      [] dir = "response" /\ s.verb = "default" -> {s.field}
      [] OTHER -> {}

toOps(layer, dir, list) ==
    \A i \in DOMAIN list :
        /\ StanzaAccepted(list[i])
        /\ \A p \in External(dir, list[i]) :
              validatePathAgainstMessage(
                  layer, IF dir = "request" THEN RequestOf(layer) ELSE ResponseOf(layer), p)

-----------------------------------------------------------------------------
(* The bundle *)

NoShim == [drafted |-> FALSE, complete |-> FALSE]

Init ==
    /\ LowerInit
    /\ ops = <<>> /\ next = 1 /\ opts = {} /\ body = <<>> /\ given = <<>>
    /\ verdict = "idle"
    /\ layers = <<>>
    /\ chain = <<>>
    /\ made = NoShim
    /\ phase = "add"
    /\ leg = [dir |-> "request", link |-> 0]
    /\ client = <<>>
    /\ upstream = [body |-> <<>>, echo |-> FALSE]

\* A step of add.
Add == phase = "add" /\ LowerNext /\ UNCHANGED <<applyVars, shimVars>>

\* The layer is written.  The new version follows the old one.
WriteLayer ==
    /\ phase = "add"
    /\ stage = "accepted"
    /\ layers' = Append(layers, [doc |-> doc, messages |-> messages])
    /\ IF layers = <<>>
       THEN /\ doc' \in Documents \ {doc}
            /\ stage' = "read"
            /\ pending' = {} /\ visited' = {} /\ needed' = {}
            /\ idents' = <<>> /\ messages' = <<>>
            /\ UNCHANGED phase
       ELSE phase' = "shim" /\ UNCHANGED lowerVars
    /\ UNCHANGED <<applyVars, chain, made, leg, client, upstream>>

\* What the reviewer of a draft puts right: the types of coerce.
Corrected(s) ==
    IF s.verb # "coerce" THEN s
    ELSE [s EXCEPT !.to = IF @ = "string" THEN "string"
                          ELSE IF @ = "boolean" THEN "bool" ELSE "number"]

\* A direction of the draft as it is pasted: corrected or not, and with OPTION A
\* chosen for every candidate or for none.
Pasted(d, corrected, optionA) ==
    LET all == d.ops \o RenameStanzas(IF optionA THEN d.cands ELSE {})
    IN  [i \in DOMAIN all |-> IF corrected THEN Corrected(all[i]) ELSE all[i]]

\* draft-shim, and what the operator makes of its output.
DraftShim(strict, corrected, optionA) ==
    /\ phase = "shim"
    /\ chain = <<>>
    /\ \A l \in {1, 2} : Draftable(layers[l].doc)
    /\ LET d == draftShim(layers[1].doc, layers[2].doc, strict)
       IN  /\ chain' = <<[request  |-> Pasted(d.request, corrected, optionA),
                          response |-> Pasted(d.response, corrected, optionA)]>>
           /\ made' = [drafted  |-> TRUE,
                       complete |-> /\ d.request.notes = {} /\ d.response.notes = {}
                                    /\ optionA \/ (d.request.cands = {} /\ d.response.cands = {})]
    /\ UNCHANGED <<lowerVars, applyVars, layers, phase, leg, client, upstream>>

\* A shim written by hand, for versions with one operation.
WriteShim ==
    /\ phase = "shim"
    /\ chain = <<>>
    /\ \A l \in {1, 2} : Cardinality(layers[l].doc.ops) = 1
    /\ chain' \in Chains
    /\ UNCHANGED <<lowerVars, applyVars, layers, made, phase, leg, client, upstream>>

\* Load: the stanzas of a link are checked against its own version's messages.
Load ==
    /\ phase = "shim"
    /\ chain # <<>>
    /\ phase' = IF \A k \in DOMAIN chain :
                       /\ toOps(layers[k], "request", chain[k].request)
                       /\ toOps(layers[k], "response", chain[k].response)
                THEN "serve" ELSE "refused"
    /\ UNCHANGED <<lowerVars, applyVars, layers, chain, made, leg, client, upstream>>

-----------------------------------------------------------------------------
(* A request *)

\* DecodeRequest: the JSON of the old version's message; without fields, no body.
Request(b) ==
    /\ phase = "serve"
    /\ verdict = "idle"
    /\ IF HasBody(layers[1]) THEN Emits(layers[1], RequestOf(layers[1]), b) ELSE b = Nil
    /\ client' = b
    /\ leg' = [dir |-> "request", link |-> 1]
    /\ Begin(chain[1].request, b)
    /\ UNCHANGED <<lowerVars, layers, chain, made, phase, upstream>>

Run ==
    /\ phase = "serve"
    /\ Apply \/ Marshal
    /\ UNCHANGED <<lowerVars, shimVars>>

NextLink ==
    /\ phase = "serve" /\ verdict = "done"
    /\ leg.dir = "request" /\ leg.link < Len(chain)
    /\ leg' = [leg EXCEPT !.link = @ + 1]
    /\ Begin(chain[leg.link + 1].request, body)
    /\ UNCHANGED <<lowerVars, layers, chain, made, phase, client, upstream>>

\* Mutant: the links answer in the order they asked.
AnswersInOrder(k) == chain[Len(chain) + 1 - k].response

Answers(k) == chain[k].response

\* The upstream replies, with what it was sent or with something else.
Reply(b) ==
    /\ phase = "serve" /\ verdict = "done"
    /\ leg = [dir |-> "request", link |-> Len(chain)]
    /\ upstream' = [body |-> body, echo |-> b = body]
    /\ leg' = [dir |-> "response", link |-> Len(chain)]
    /\ Begin(Answers(Len(chain)), b)
    /\ UNCHANGED <<lowerVars, layers, chain, made, phase, client>>

\* The links answer in the opposite order.
PreviousLink ==
    /\ phase = "serve" /\ verdict = "done"
    /\ leg.dir = "response" /\ leg.link > 1
    /\ leg' = [leg EXCEPT !.link = @ - 1]
    /\ Begin(Answers(leg.link - 1), body)
    /\ UNCHANGED <<lowerVars, layers, chain, made, phase, client, upstream>>

\* EncodeResponse.
Encode ==
    /\ phase = "serve" /\ verdict = "done"
    /\ leg = [dir |-> "response", link |-> 1]
    /\ phase' = IF \/ layers[1].messages[ResponseOf(layers[1])] = <<>>
                   \/ Conforms(layers[1], ResponseOf(layers[1]), body)
                THEN "answered" ELSE "upstream_error"
    /\ UNCHANGED <<lowerVars, applyVars, layers, chain, made, leg, client, upstream>>

\* transform_failed: 422 for the request, 502 for the response.
TransformFailed ==
    /\ phase = "serve" /\ verdict = "failed"
    /\ phase' = IF leg.dir = "request" THEN "422" ELSE "502"
    /\ UNCHANGED <<lowerVars, applyVars, layers, chain, made, leg, client, upstream>>

Next ==
    \/ Add \/ WriteLayer
    \/ \E strict, corrected, optionA \in BOOLEAN : DraftShim(strict, corrected, optionA)
    \/ WriteShim \/ Load
    \/ \E b \in JSONBodies \cup {Nil} : Request(b)
    \/ Run \/ NextLink
    \/ \E b \in Replies \cup {body} : Reply(b)
    \/ PreviousLink \/ Encode \/ TransformFailed

Spec == Init /\ [][Next]_vars

-----------------------------------------------------------------------------
(* Properties *)

\* The variables of the composition are what their names say.
TypeOK ==
    /\ stage \in {"read", "collect", "name", "build", "accepted", "refused", "crashed"}
    /\ visited \subseteq Components /\ needed \subseteq visited
    /\ verdict \in {"idle", "running", "done", "failed"}
    /\ next \in 1..Len(ops) + 1
    /\ body \in [DOMAIN body -> Nodes] /\ DOMAIN body \subseteq Seq(Step)
    /\ leg.link \in 0..Len(chain)
    /\ phase \in {"add", "shim", "serve", "refused", "answered", "upstream_error", "422", "502"}

Undoing(s) == [s EXCEPT !.from = s.to, !.to = s.from]

\* Every link answers with the renames it asked with, undone in opposite order.
Mirrored ==
    \A k \in DOMAIN chain :
        LET there == chain[k].request
            back  == chain[k].response
        IN  /\ Len(there) = Len(back)
            /\ \A i \in DOMAIN there :
                  /\ there[i].verb = "rename"
                  /\ back[Len(back) + 1 - i] = Undoing(there[i])

\* http.go:349-356, 504-510, transform.go:86-149: through any chain of links
\* whose responses undo their requests' renames, a body that the upstream sends
\* back reaches the client as it left, nested fields and arrays included.
EchoRoundTrip ==
    Mirrored /\ upstream.echo =>
        /\ phase # "502"
        /\ phase \in {"answered", "upstream_error"} =>
              body \in {client, Unmarshal(client)}

\* What a component refers to.
Below(d) == UNION {RefsOf(d, n) : n \in DOMAIN d.schemas}

\* The properties that were added, removed or retyped are primitive, what is
\* below them is the same, and no component has the synthetic message's name.
PlainDrift(old, new, side(_)) ==
    LET was == PropertiesOf(old.doc, side(old))
        is  == PropertiesOf(new.doc, side(new))
    IN  /\ \A n \in DOMAIN was \cup DOMAIN is :
              \/ n \in DOMAIN was \cap DOMAIN is /\ was[n] = is[n]
              \/ /\ n \in DOMAIN was => primitiveType(was[n]) # ""
                 /\ n \in DOMAIN is  => primitiveType(is[n]) # ""
        /\ \A c \in Below(old.doc) :
              /\ c \in DOMAIN old.doc.schemas \cap DOMAIN new.doc.schemas
              /\ old.doc.schemas[c] = new.doc.schemas[c]
        /\ Empty \notin DOMAIN old.doc.schemas \cup DOMAIN new.doc.schemas

\* The stanza found its field missing, or with a value of no use.
Unusable(b, s) ==
    LET n == IF s.verb = "rename" THEN Leaf(s.from) ELSE Leaf(s.field)
    IN  Absent(b, <<>>, n) \/ (s.verb = "coerce" /\ ~ Coercible(b[At(<<>>, n)], s.to))

\* The body is to blame for the failure, not the shim: for that, or for a number
\* that JSON cannot write.
BodysFault == IF next <= Len(ops) THEN Unusable(body, ops[next]) ELSE ~ Encodable(body)

\* drift.go:156-177, docs/embedding.md:27-30: where only primitive fields come,
\* go and change type, a draft without notes, its types corrected and its
\* candidates taken for renames, bridges the versions: what the upstream gets is
\* what its document describes, what it describes of a reply the client's message
\* takes, and a transform fails only on a field that is not there or a value that
\* has no form in the other type.  The one exception is an old request without
\* properties: it has no body (adapter.go:72), no stanza applies to none
\* (transform.go:81-87), so if the new one has properties the draft, which has no
\* notes, refuses every request.
DraftBridges ==
    (/\ made.drafted /\ made.complete
     /\ phase \notin {"shim", "refused"}
     /\ PlainDrift(layers[1], layers[2], RequestSide)
     /\ PlainDrift(layers[1], layers[2], ResponseSide))
    =>
        /\ leg.dir = "response" =>
              IF HasBody(layers[1])
              THEN Described(layers[2], RequestOf(layers[2]), upstream.body)
              ELSE upstream.body = Nil /\ ~ HasBody(layers[2])
        /\ phase = "422" => BodysFault \/ (~ HasBody(layers[1]) /\ HasBody(layers[2]))
        /\ Described(layers[2], ResponseOf(layers[2]), given) =>
              /\ phase = "502" => BodysFault
              /\ phase # "upstream_error"
=============================================================================
