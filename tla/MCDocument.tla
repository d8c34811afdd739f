------------------------------- MODULE MCDocument -------------------------------
(***************************************************************************)
(* Families of small documents: schemas that refer to each other in every  *)
(* way, components of each kind with a reference that is right or wrong,   *)
(* operations with every kind of parameter, documents with one flaw each,  *)
(* and sets of path templates, with the requests that are made of them.    *)
(***************************************************************************)
EXTENDS Answers

Sound == [version |-> TRUE, title |-> TRUE, license |-> TRUE]
Plain(n, kind) ==
    CASE kind = "doc"       -> [openapi |-> TRUE, info |-> Sound, hasPaths |-> TRUE, servers |-> <<>>]
      [] kind = "parameter" -> [name |-> n, in |-> "query", style |-> "", explode |-> None]
      [] kind = "response"  -> [described |-> TRUE]
      [] kind = "schema"    -> [broken |-> FALSE]
      [] kind = "securityScheme" -> [type |-> "http", scheme |-> "basic", in |-> "", name |-> "",
                                     bearerFormat |-> FALSE, openIdConnectUrl |-> FALSE, flows |-> None]
      [] OTHER -> <<>>

\* A document of places <<parent, slot, key, node>>, references and infos.
Written(places, refs, infos) ==
    LET nodes   == {Root} \cup ({p[4] : p \in places} \ {Nil})
        kind(n) == IF n = Root THEN "doc" ELSE KindAt((CHOOSE p \in places : p[4] = n)[2])
    IN  [kind   |-> [n \in nodes |-> kind(n)],
         ref    |-> [n \in nodes |-> IF n \in DOMAIN refs THEN refs[n] ELSE None],
         fields |-> [n \in nodes |-> {<<p[2], p[3], p[4]>> : p \in {q \in places : q[1] = n}}],
         info   |-> [n \in nodes |-> IF n \in DOMAIN infos THEN infos[n] ELSE Plain(n, kind(n))]]

Empty == [n \in {} |-> None]
One(n, x) == [m \in {n} |-> x]

-----------------------------------------------------------------------------
\* Three schemas: each is plain, a reference to one or into one of them, or
\* has a property or additionalProperties that refer to one.
S(a) == <<"schemas", a>>
Letters == {"A", "B", "C"}
Inner == [a \in Letters |-> CASE a = "A" -> "a" [] a = "B" -> "b" [] OTHER -> "c"]
Bodies(a) ==
    {<<"plain", a>>} \cup
    ((CASE a = "A" -> {"ref", "properties"}
        [] a = "B" -> {"ref", "into", "properties", "additionalProperties"}
        [] OTHER   -> {"ref", "into", "properties"}) \X Letters)
SchemaDoc(f) ==
    LET nested == {a \in Letters : f[a][1] \in {"properties", "additionalProperties"}}
        alias  == {a \in Letters : f[a][1] \in {"ref", "into"}}
    IN  Written({<<Root, "schemas", a, a>> : a \in Letters} \cup
                {<<a, f[a][1], 1, Inner[a]>> : a \in nested},
                [n \in alias \cup {Inner[a] : a \in nested} |->
                    IF n \notin alias THEN <<S(f[CHOOSE a \in Letters : Inner[a] = n][2])>>
                    ELSE IF f[n][1] = "ref" THEN <<S(f[n][2])>>
                    ELSE <<S(f[n][2]), <<"properties", 1>>>>],
                Empty)
SchemaDocs == {SchemaDoc([A |-> x, B |-> y, C |-> z]) : x \in Bodies("A"), y \in Bodies("B"), z \in Bodies("C")}

\* Two properties of a schema: one is the schema again, the other an alias of
\* the first; whichever comes first decides whether the calls end.
SiblingDoc ==
    Written({<<Root, "schemas", "A", "A">>, <<"A", "properties", "p", "p">>, <<"A", "properties", "q", "q">>},
            [p |-> <<S("A")>>, q |-> <<S("A"), <<"properties", "p">>>>], Empty)

\* Every kind of component: one that refers to a sibling, to a null, to nothing
\* or to another kind or a null of it; and what only an operation or a response
\* has.
Sections == {"headers", "parameters", "requestBodies", "responses", "schemas", "securitySchemes", "examples"}
Other(slot) == IF slot = "headers" THEN "examples" ELSE "headers"
KindDocs ==
    UNION {{Written({<<Root, slot, "X", x>>, <<Root, slot, "Y", "y">>,
                     <<Root, Other(slot), "O", IF x = Nil THEN Nil ELSE "other">>},
                    One("y", ref), Empty) :
               x \in {"x", Nil},
               ref \in {<<>>, <<<<slot, "X">>>>, <<<<slot, "Y">>>>, <<<<slot, "Z">>>>, <<<<Other(slot), "O">>>>}} :
           slot \in Sections}

\* An operation on "/a", with more below it.
A == <<"/", "a">>
Get(more) == {<<Root, "paths", A, "item">>, <<"item", "operations", "GET", "op">>,
              <<"op", "responses", "200", "resp">>} \cup more

NestedDocs ==
    \* a reference to all that a schema has below it, and in every place of one
    {Written({<<Root, "schemas", "A", "A">>, <<Root, "schemas", "B", "B">>} \cup
             {<<"A", t[1], t[2], t[3]>> : t \in places},
             [n \in {t[3] : t \in places} |-> <<S("B")>>], Empty) :
        places \in {{<<"items", 1, "a1">>, <<"allOf", 1, "a2">>, <<"allOf", 2, "a3">>},
                    {<<"not", 1, "a1">>, <<"anyOf", 1, "a2">>, <<"oneOf", 1, "a3">>}}} \cup
    {Written({<<Root, "schemas", "A", "A">>, <<"A", "properties", "k", Nil>>}, Empty, Empty)} \cup
    \* a schema, or a header, that refers to a field of a schema, which is there or not
    {Written({<<Root, "schemas", "A", "A">>, <<Root, slot, "Y", "y">>} \cup places,
             One("y", <<S("A"), <<field, 1>>>>), Empty) :
        slot \in {"schemas", "headers"}, field \in {"items", "not", "additionalProperties", "allOf"},
        places \in {{}, {<<"A", "not", 1, "a1">>, <<"A", "additionalProperties", 1, "a2">>, <<"A", "allOf", 1, "a3">>}}} \cup
    \* responses: headers, examples, null media types, links to unvisited links
    {Written(Get({<<Root, "headers", "H", "h">>, <<"h", "schema", 1, "hs">>, <<"resp", "headers", "H", "rh">>,
                  <<"resp", "content", "json", Nil>>, <<"resp", "content", "text", "rs">>,
                  <<"resp", "examples", <<"text", "e">>, "re">>, <<Root, "examples", "E", "e">>, <<"resp", "links", "l", "rl">>,
                  <<Root, "links", "L", "L">>, <<Root, "links", "M", "M">>}),
             [rh |-> <<<<"headers", "H">>>>, re |-> <<<<"examples", "E">>>>,
              rl |-> <<<<"links", "L">>>>, L |-> <<<<"links", "M">>>>], Empty),
     Written(Get({<<Root, "responses", "R", "r">>, <<"r", "headers", "H", "h">>, <<"resp", "headers", "H", "rh">>,
                  <<Root, "responses", "Q", "q">>}),
             [rh |-> <<<<"responses", "Q">>, <<"headers", "H">>>>, q |-> <<<<"responses", "R">>>>], Empty),
     Written(Get({<<"op", "responses", "404", Nil>>}), Empty, Empty)} \cup
    \* null media types of parameters and request bodies; a parameter with both
    {Written(Get({<<Root, "requestBodies", "B", "b">>, <<"op", "requestBody", 1, "ob">>, <<"b", "content", "json", x>>}),
             One("ob", <<<<"requestBodies", "B">>>>), Empty) : x \in {"bs", Nil}} \cup
    \* media types in any order, each with its examples first: one of them dangles
    {Written(Get({<<"op", "requestBody", 1, "b">>, <<"b", "content", "text", x>>, <<"b", "content", "json", "bs">>,
                  <<"b", "examples", <<"json", "e">>, "e">>, <<"b", "examples", <<"json", "f">>, "f">>} \cup places),
             [n \in {"f"} \cup {p[4] : p \in places} |-> IF n = "f" THEN ref ELSE <<S("B")>>], Empty) :
        x \in {"bt", Nil}, places \in {{}, {<<"bs", "items", 1, "i">>}},
        ref \in {<<<<"examples", "E">>>>,
                  <<<<"paths", A>>, <<"operations", "GET">>, <<"requestBody", 1>>, <<"examples", <<"json", "e">>>>>>,
                  <<<<"paths", A>>, <<"operations", "GET">>, <<"requestBody", 1>>, <<"content", "text">>, <<"items", 1>>>>}} \cup
    {Written(Get({<<"op", "parameters", 1, "p">>, <<"op", "responses", "400", "r">>} \cup places),
             [n \in {"r"} |-> <<<<"paths", A>>, <<"operations", "GET">>, part>>], Empty) :
        part \in {<<"requestBody", 1>>, <<"responses", "200">>}, places \in {{}, {<<"op", "requestBody", 1, "b">>}}} \cup
    {Written(Get({<<"item", "parameters", 1, "p">>, <<"op", "parameters", 1, "q">>,
                  <<Root, "parameters", "P", "r">>} \cup places),
             [p |-> <<<<"parameters", "P">>>>, q |-> <<<<"parameters", "P">>>>], Empty) :
        places \in {{}, {<<"r", "schema", 1, "rs">>}, {<<"r", "content", "json", "rc">>},
                    {<<"r", "content", "json", Nil>>},
                    {<<"r", "schema", 1, "rs">>, <<"r", "content", "json", "rc">>}}}

\* Path items that refer to path items.
B == <<"/", "b">>
C == <<"/", "c">>
D == <<"/", "d">>
ItemDocs ==
    {Written({<<Root, "paths", A, "item">>, <<Root, "paths", B, b>>, <<Root, "paths", C, "c">>,
              <<"c", "operations", "GET", "op">>, <<"op", "responses", "200", "resp">>},
             [n \in {"item", b} \ {Nil} |-> IF n = "item" THEN ref ELSE <<<<"paths", C>>>>], Empty) :
        b \in {"b", Nil},
        ref \in {<<>>, <<<<"paths", B>>>>, <<<<"paths", C>>>>, <<<<"paths", A>>>>, <<<<"paths", <<"/", "d">>>>>>, <<S("A")>>}}

-----------------------------------------------------------------------------
\* References through a path item that refers to another: it must have been
\* copied by then, and after it what it refers to.
ThroughDocs ==
    {Written({<<Root, "paths", A, "item">>, <<Root, "paths", B, "b">>, <<Root, "paths", C, "c">>,
              <<"c", "parameters", 1, "p">>, <<"b", "parameters", 1, "q">>, <<"p", "schema", 1, "ps">>},
             [item |-> <<<<"paths", C>>>>, q |-> <<<<"paths", A>>>> \o rest], Empty) :
        rest \in {<<<<"parameters", 1>>>>, <<<<"parameters", 2>>>>, <<<<"parameters", 1>>, <<"schema", 1>>>>}} \cup
    {Written({<<Root, "paths", A, "item">>, <<Root, "paths", B, "b">>, <<Root, "paths", C, "c">>,
              <<"c", "parameters", 1, "p">>, <<Root, "paths", D, "d">>, <<"d", "parameters", 1, "q">>},
             [item |-> <<<<"paths", B>>>>, b |-> <<<<"paths", x>>>>, q |-> <<<<"paths", A>>, <<"parameters", 1>>>>], Empty) :
        x \in {A, C}}

\* An operation with one parameter of any location, style and explode.
ParamDocs ==
    {Written({<<Root, "paths", IF in = "path" THEN <<"/", "{x}">> ELSE A, "item">>,
              <<"item", "operations", "GET", "op">>, <<"op", "responses", "200", "resp">>,
              <<"op", "parameters", 1, "p">>, <<"p", slot, IF slot = "content" THEN "json" ELSE 1, "ps">>},
             Empty, One("p", [name |-> "x", in |-> in, style |-> style, explode |-> explode])) :
        in \in {"path", "query", "header", "cookie", "body"}, slot \in {"schema", "content"},
        style \in {"", "simple", "label", "matrix", "form", "spaceDelimited", "pipeDelimited", "deepObject"},
        explode \in {None, TRUE, FALSE}}

Flow(a, t, c) == [authorizationUrl |-> a, tokenUrl |-> t, scopes |-> c]
FlowSets ==
    {Empty} \cup {One(kind, Flow(a, t, TRUE)) : kind \in {"implicit", "password", "clientCredentials", "authorizationCode"},
                                            a \in BOOLEAN, t \in BOOLEAN}
    \cup {[implicit |-> Flow(TRUE, FALSE, c), password |-> Flow(FALSE, FALSE, FALSE)] : c \in BOOLEAN}
Scheme == Plain("scheme", "securityScheme")
SchemeInfos ==
    {[Scheme EXCEPT !.type = type, !.scheme = scheme, !.bearerFormat = format] :
        type \in {"http", "openIdConnect"}, scheme \in {"basic", "bearer", "token"}, format \in BOOLEAN} \cup
    {[Scheme EXCEPT !.type = type, !.in = in, !.name = name, !.openIdConnectUrl = TRUE] :
        type \in {"apiKey", "openIdConnect", "mutualTLS"}, in \in {"", "header", "path"}, name \in {"", "k"}} \cup
    {[Scheme EXCEPT !.type = type, !.flows = flows] : type \in {"oauth2", "http"}, flows \in FlowSets \cup {None}}

\* One flaw, or a harmless change.
Server(url, variables) == [url |-> url, variables |-> variables]
Varied(x) == One("{v}", x)
ServerLists ==
    {<<Nil>>, <<Server(<<>>, Empty)>>, <<Server(<<"h", "{v}">>, Empty)>>, <<Server(<<"h", OpenBrace>>, Empty)>>,
     <<Server(<<"h">>, Varied([ok |-> TRUE]))>>, <<Server(<<"{w}">>, Varied([ok |-> TRUE]))>>,
     <<Server(<<>>, Empty), Nil>>, <<Server(<<"h">>, Empty), Nil>>} \cup
    {<<Server(<<"h", "/", "{v}">>, Varied(x))>> : x \in {Nil, [ok |-> TRUE], [ok |-> FALSE]}} \cup
    {<<Server(<<"h", "/", "{v}", "{w}">>, [n \in {"{v}", "{w}"} |-> IF n = "{v}" THEN Nil ELSE [ok |-> FALSE]])>>}
Head_ == Plain(Root, "doc")
Heads == {[Head_ EXCEPT !.openapi = FALSE], [Head_ EXCEPT !.info = Nil]} \cup
         {[Head_ EXCEPT !.info = [Sound EXCEPT ![k] = FALSE]] : k \in {"version", "title", "license"}} \cup
         {[Head_ EXCEPT !.servers = list] : list \in ServerLists}
Flawed ==
    {Written(Get({}), Empty, One(Root, head)) : head \in Heads} \cup
    {Written({<<Root, "schemas", "a b", "s">>}, Empty, One(Root, [Head_ EXCEPT !.hasPaths = hasPaths])) : hasPaths \in BOOLEAN} \cup
    {Written(Get({<<Root, "securitySchemes", "s", "s">>}), Empty, One("s", info)) : info \in SchemeInfos} \cup
    {Written(Get({<<"resp", "content", "json", "s">>, <<"s", "items", 1, "t">>}), Empty, infos) :
        infos \in {One("resp", [described |-> FALSE]), One("t", [broken |-> TRUE])}} \cup
    {Written(Get({<<Root, "headers", "H", "h">>, <<"h", "schema", 1, "s">>, <<"op", "requestBody", 1, "b">>, <<"b", "content", "json", "t">>}),
             Empty, infos) : infos \in {One(n, [broken |-> TRUE]) : n \in {"s", "t"}}} \cup
    {Written(Get({<<"op", "parameters", 1, "p">>, <<"op", "parameters", 2, "q">>, <<"p", "schema", 1, "ps">>, <<"q", "schema", 1, "qs">>}),
             Empty, [n \in {"p", "q"} |-> [Plain(IF n = "p" THEN name ELSE "q", "parameter") EXCEPT !.in = in]]) :
        name \in {"", "p", "q"}, in \in {"query", "path"}} \cup
    {Written({<<Root, "paths", A, "item">>, <<"item", "operations", "GET", "op">>}, Empty, Empty)}

-----------------------------------------------------------------------------
\* Paths with a GET, whose variables are all parameters of the operation; the
\* path items have no parameters, so that each template is accepted.
X == "{x}"
Y == "{y}"
Z == "{z*}"
Templates ==
    {<<"/">>, <<"/", "a">>, <<"/", "a", "/">>, <<"/", X>>, <<"/", Y>>, <<"/", "a", "/", X>>,
     <<"/", X, "/", "b">>, <<"/", "a", X>>, <<"/", "a", "b">>, <<"/", Z>>, <<"/", "a", "/", Z>>,
     <<"/", X, "b">>, <<"/", X, "/", Y>>, <<"/", Z, "/", "b">>, <<"/", "{}">>, <<"/", "a", OpenBrace>>}
Mixed == {<<"/", X>>, <<"/", Y>>, <<"/", "a">>, <<"/", X, "/", "b">>, <<"/", "a", "/", X>>, <<"/", "a", "/", Y>>,
          <<"/", "a", X>>, <<"/", "a", "b">>, <<"/", Z>>, <<"/", "a", "/", Z>>}
Triples == kSubset(3, Mixed) \cup {{<<"/", X, "/", X>>, <<"/", "a", X, Y>>, <<"/", "a", "/", Z>>}}
PathsDoc(paths, servers) ==
    LET list == SetToSeq(paths)
        item == <<"i1", "i2", "i3">>
        op   == <<"o1", "o2", "o3">>
        resp == <<"r1", "r2", "r3">>
        par  == <<<<"p1", "p2">>, <<"q1", "q2">>, <<"s1", "s2">>>>
        sch  == <<<<"p3", "p4">>, <<"q3", "q4">>, <<"s3", "s4">>>>
        vars_(k) == SelectSeq(list[k], LAMBDA t : t \in Braces)
        params   == {<<k, j>> \in (DOMAIN list) \X {1, 2} : j <= Len(vars_(k))}
    IN  Written(UNION {{<<Root, "paths", list[k], item[k]>>, <<item[k], "operations", "GET", op[k]>>,
                        <<op[k], "responses", "200", resp[k]>>} : k \in DOMAIN list} \cup
                UNION {{<<op[q[1]], "parameters", q[2], par[q[1]][q[2]]>>,
                        <<par[q[1]][q[2]], "schema", 1, sch[q[1]][q[2]]>>} : q \in params},
                Empty,
                [n \in {par[q[1]][q[2]] : q \in params} \cup {Root} |->
                    IF n = Root THEN [Head_ EXCEPT !.servers = servers]
                    ELSE [Plain(n, "parameter") EXCEPT !.in = "path", !.style = "simple"]])
V1 == Server(<<"h", "/", "{v}">>, Varied([ok |-> TRUE]))
RouteDocs ==
    {PathsDoc({p, q}, <<>>) : p \in Templates, q \in Templates} \cup
    {PathsDoc(ps, <<>>) : ps \in Triples} \cup
    {PathsDoc({<<"/", "a">>, <<"/", X>>, p}, servers) :
        p \in {<<"/", "a">>, <<"/", X, "b">>},
        servers \in {<<Server(<<"/">>, Empty)>>, <<Server(<<"h">>, Empty)>>, <<V1>>,
                     <<Server(<<"h", "/", "a">>, Empty), Server(<<"h", "/">>, Empty)>>,
                     <<Server(<<"{v}", ".", "h">>, Varied([ok |-> TRUE])), Server(<<"/", "a">>, Empty)>>,
                     <<Server(<<"/", X>>, One(X, [ok |-> TRUE]))>>}}

MCDocuments == SchemaDocs \cup {SiblingDoc} \cup KindDocs \cup NestedDocs \cup ItemDocs \cup ThroughDocs \cup ParamDocs \cup Flawed \cup RouteDocs

PathTexts == {<<"/">>, <<"/", "a">>, <<"/", "b">>, <<"/", "a", "/">>, <<"/", "a", "b">>, <<"/", "a", "/", "b">>,
              <<"/", "/", "b">>, <<"/", "a", "/", "b", "/", "a">>, <<"/", "b", "b">>}
MCRequests(d) ==
    LET declared == {t[2] : t \in {u \in d.fields[Root] : u[1] = "paths"}}
        hosts    == IF d.info[Root].servers = <<>> THEN {<<>>} ELSE {<<>>, <<"h">>, <<"a", ".", "h">>}
    IN  [method : {"GET"}, host : hosts, path : PathTexts \cup declared] \cup
        [method : {"POST", "PURGE"}, host : hosts, path : declared]
MCAddedRoutes(d) == IF Cardinality(DOMAIN d.kind) < 9 THEN {<<"GET", <<"/", "b">>>>, <<"GET", <<"/", "a">>>>} ELSE {}

MCUnstarred == One(Z, "{z}")
MCTokens == {"/", "a", "b", "c", "d", "h", ".", Escape, "GET", "POST", "PURGE"} \cup Braces
=============================================================================
