------------------------------- MODULE MCShim -------------------------------
(* Twenty-seven documents, thirteen shims and the bodies that go through them. *)
EXTENDS Shim, TLC

MCComponents ==
    {"Empty", "Err", "Item", "Maybe", "Link", "Loop", "Sub", "User", "User-In", "User.In", "User_In_2"}

MCOrder ==
    <<"Empty", "Err", "Item", "Link", "Loop", "Maybe", "Sub", "User", "User-In", "User.In",
      "User_In_2", "age", "data", "items", "nick", "sub", "userName", "user-name", "user_name",
      "x", "y", "z">>

MCNames == {"age", "data", "fields", "items", "nick", "sub", "userName", "user-name", "user_name",
            "value", "x", "y", "z"}

MCIdent(n) ==
    IF n \in {"User-In", "User.In"} THEN "User_In" ELSE IF n = "user-name" THEN "user_name" ELSE n

MCNumbered(b, i) == b \o "_" \o ToString(i)

MCFolded(n) == IF n \in {"userName", "user_name"} THEN "username" ELSE n

MCNormalized(n) == IF n \in {"userName", "user_name", "user-name"} THEN "username" ELSE n

\* Schemas
S(k) == [k |-> k, item |-> "", ref |-> None]
Ref(n) == [k |-> "ref", item |-> "", ref |-> n]
Of(k, item, n) == [k |-> k, item |-> item, ref |-> n]
Message(props) == [k |-> "message", item |-> "", ref |-> None, props |-> props]
Other(s) == [k |-> s.k, item |-> s.item, ref |-> s.ref, props |-> <<>>]

Side(n) == [k |-> "ref", ref |-> n]
NoBody == [k |-> "none", ref |-> None]
Inline == [k |-> "inline", ref |-> None]

Op(req, resps) == [route |-> "PUT /u", request |-> req, responses |-> resps]
Document(schemas, op) == [schemas |-> schemas, ops |-> {op}]

Echo == Op(Side("User"), 200 :> Side("User") @@ 404 :> NoBody)

Users(props) == Document("User" :> Message(props), Echo)

\* Versions of a flat contract, to draft shims between.
Flat ==
    {Users("userName" :> S("string") @@ "age" :> S("int32")),
     Users("user_name" :> S("string") @@ "age" :> S("int32") @@ "nick" :> S("boolean")),
     Users("user-name" :> S("string") @@ "age" :> S("string")),
     Users("nick" :> S("string") @@ "age" :> S("int64")),
     Users("user_name" :> S("int32") @@ "age" :> S("int32")),
     Users("userName" :> S("string") @@ "items" :> Of("array", "string", None))}

\* Versions of a nested one.
Nested(leaf) ==
    Document(
        "User" :> Message("items" :> Of("array", "ref", "Item") @@ "data" :> Ref("Item"))
        @@ "Item" :> Message(leaf :> S("string") @@ "sub" :> Ref("Sub"))
        @@ "Sub" :> Message("x" :> S("string")), Echo)

\* Versions of a contract with more below it than changes, and one whose success
\* has no body.
Drifted(age, n, success) ==
    Document(
        "User" :> Message("items" :> Of("array", "ref", "Item") @@ "data" :> Ref("Link")
                          @@ "age" :> S(age) @@ n :> S("string"))
        @@ "Item" :> Message("x" :> S("string") @@ "sub" :> Ref("Sub"))
        @@ "Link" :> Other(Of("nullable", "ref", "Item"))
        @@ "Sub" :> Message("x" :> S("string")),
        Op(Side("User"), success))

Deep ==
    {Drifted("int32", "nick", 200 :> Side("User")), Drifted("string", "user_name", 200 :> Side("User")),
     Drifted("int32", "nick", 204 :> NoBody), Drifted("string", "nick", 204 :> NoBody)}

\* Names that sanitize alike, aliases, maps, a bodyless success and typed errors.
Odd ==
    {Document(
        "User-In" :> Message("x" :> Ref("User.In"))
        @@ "User.In" :> Message("y" :> Ref("User_In_2"))
        @@ "User_In_2" :> Message("user-name" :> S("string")),
        Op(Side("User-In"), 201 :> Side("User.In") @@ 299 :> Inline @@ 404 :> Side("User_In_2") @@ 302 :> Inline)),
     Document(
        "User" :> Message("x" :> Ref("Link") @@ "y" :> Of("map", "string", None)
                          @@ "items" :> Of("array", "ref", "Maybe") @@ "data" :> S("union")
                          @@ "age" :> Of("nullable", "ref", "Link") @@ "sub" :> S("open"))
        @@ "Link" :> Other(Ref("Sub")) @@ "Sub" :> Other(Of("nullable", "int32", None))
        @@ "Maybe" :> Other(Ref("Item")) @@ "Item" :> Message("x" :> S("double"))
        @@ "Err" :> Message("x" :> Of("map", "ref", "Err")),
        Op(Side("User"), 204 :> NoBody @@ 404 :> Side("Err"))),
     [Document("User" :> Message("x" :> S("string")), Echo) EXCEPT
        !.ops = @ \cup {[Op(NoBody, <<>>) EXCEPT !.route = "GET /u"]}]}

\* What add refuses, each for a reason of its own.
Rejected ==
    {Document("User" :> Message("x" :> S("string")), Op(Inline, <<>>)),
     Document("Sub" :> Other(S("string")), Op(Side("Sub"), <<>>)),
     Users("x" :> Ref("Item")),
     Users("x" :> S("unsupported")),
     Users("x" :> S("inline")),
     Users("userName" :> S("string") @@ "user_name" :> S("string")),
     Document("User" :> Message("x" :> Ref("Loop")) @@ "Loop" :> Other(Ref("Loop")), Echo),
     [Users("x" :> S("string")) EXCEPT !.ops = {}]}

\* A real schema without fields, requests without a body, a schema called Empty.
Hollow ==
    {Users(<<>>),
     Document("User" :> Message("age" :> S("int32")), Op(NoBody, 200 :> Side("User"))),
     Document("User" :> Message("age" :> S("int64")) @@ "Item" :> Message("x" :> S("string")),
              Op(Side("Item"), 200 :> Side("User"))),
     Document("Empty" :> Message("x" :> S("string")), Op(Side("Empty"), 200 :> NoBody))}

MCDocuments == Flat \cup {Nested("x"), Nested("y")} \cup Deep \cup Odd \cup Hollow \cup Rejected

\* Bodies
Node(k, v) == [k |-> k, v |-> v]
F(n) == [name |-> n, idx |-> 0]
E(n, i) == [name |-> n, idx |-> i]
Root == <<>> :> Obj
Text == Node("str", "text")

MCTexts == {"", "text", "7", "7.0", "NaN", "0", "true", "false", "big", "big64"}
MCParseFloat == "7" :> "7" @@ "7.0" :> "7" @@ "NaN" :> "NaN" @@ "0" :> "0" @@ "big" :> "big64"
MCFloat64 == "7" :> "7" @@ "0" :> "0" @@ "big" :> "big64" @@ "big64" :> "big64"

FlatBodies ==
    LET names == {Root, Root @@ <<F("userName")>> :> Text, Root @@ <<F("user-name")>> :> Text,
                  Root @@ <<F("user_name")>> :> Text, Root @@ <<F("nick")>> :> Text,
                  Root @@ <<F("user_name")>> :> Text @@ <<F("nick")>> :> Node("bool", "true")}
        ages  == {Node("num", "7"), Node("num", "big"), Node("str", "7.0"), Node("str", "big"),
                  Node("str", "NaN"), Text}
    IN  names \cup {b @@ <<F("age")>> :> a : b \in names, a \in ages}

NestedBodies ==
    LET data == Root @@ <<F("data")>> :> Obj
        deep == data @@ <<F("data"), F("x")>> :> Text @@ <<F("data"), F("sub")>> :> Obj
                     @@ <<F("data"), F("sub"), F("x")>> :> Node("str", "7")
        two  == <<F("items")>> :> Node("arr", "") @@ <<E("items", 1)>> :> Obj @@ <<E("items", 2)>> :> Obj
                     @@ <<E("items", 1), F("x")>> :> Text @@ <<E("items", 2), F("x")>> :> Node("str", "7")
        full == deep @@ two @@ <<F("age")>> :> Node("num", "7") @@ <<F("nick")>> :> Text
    IN  {full, Root, data, deep, deep @@ two, Root @@ two,
         deep @@ <<F("items")>> :> Node("arr", ""),
         Root @@ <<F("y")>> :> Obj @@ <<F("y"), F("value")>> :> Text}

MCBodies == FlatBodies \cup NestedBodies

\* An upstream that no longer sends what it used to.
MCReplies == {Root, <<>> :> Node("arr", ""), Root @@ <<F("data")>> :> Null}

\* Stanzas
P(n) == <<[name |-> n, array |-> FALSE]>>
Dot(p, n) == Append(p, [name |-> n, array |-> FALSE])
Each(n) == <<[name |-> n, array |-> TRUE]>>
Rn(p, q) == [verb |-> "rename", from |-> p, to |-> q]
Df(p, v) == [verb |-> "default", field |-> p, value |-> v]
Co(p, t) == [verb |-> "coerce", field |-> p, to |-> t]
Opn(p) == [verb |-> "optionalize", field |-> p]

Link(req, resp) == [request |-> req, response |-> resp]

DataX == Dot(P("data"), "x")
DataY == Dot(P("data"), "y")
DataZ == Dot(P("data"), "z")
ItemsX == Dot(Each("items"), "x")
ItemsY == Dot(Each("items"), "y")
SubX == Dot(Dot(P("data"), "sub"), "x")

Mirror == <<Link(<<Rn(DataX, DataY), Rn(P("items"), P("nick"))>>,
                 <<Rn(P("nick"), P("items")), Rn(DataY, DataX)>>)>>

MCChains ==
    {Mirror,
     <<Link(<<Rn(ItemsX, ItemsY)>>, <<Rn(ItemsY, ItemsX)>>)>>,
     <<Link(<<Rn(DataX, DataY)>>, <<Rn(DataY, DataX)>>),
       Link(<<Rn(DataY, DataZ)>>, <<Rn(DataZ, DataY)>>)>>,
     <<Link(<<Opn(P("data")), Opn(Dot(P("data"), "sub")), Co(SubX, "number"), Rn(SubX, Dot(Dot(P("data"), "sub"), "y"))>>,
            <<Df(SubX, Null)>>)>>,
     <<Link(<<Df(Dot(P("z"), "y"), Text), Df(ItemsY, Text)>>, <<Df(SubX, Text)>>)>>,
     <<Link(<<Co(P("age"), "number")>>, <<Co(P("age"), "string")>>)>>,
     <<Link(<<Opn(P("age")), Co(P("age"), "bool")>>, <<>>)>>,
     \* Behind a map and a Struct a path follows the entry's and struct.proto's fields;
     \* the integer that is injected has no form in coerce.
     <<Link(<<Opn(Dot(Dot(P("sub"), "fields"), "value")), Rn(Dot(P("y"), "value"), Dot(P("y"), "z")),
              Df(P("age"), Node("int", "7")), Opn(P("age")), Co(P("age"), "string")>>, <<>>)>>,
     \* Refused: another parent, an array read as an object, an unknown field,
     \* a list that ends in [], no verb.
     <<Link(<<Rn(SubX, Dot(Dot(P("items"), "sub"), "x"))>>, <<>>)>>,
     <<Link(<<Rn(Dot(P("items"), "x"), Dot(P("items"), "y"))>>, <<>>)>>,
     <<Link(<<>>, <<Df(P("z"), Text)>>)>>,
     <<Link(<<Opn(Each("items"))>>, <<>>)>>,
     <<Link(<<[verb |-> "none"]>>, <<>>)>>}
=============================================================================
