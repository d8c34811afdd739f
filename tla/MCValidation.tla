------------------------------ MODULE MCValidation ------------------------------
(***************************************************************************)
(* One document of small schemas; operations with one parameter "p" of     *)
(* each location, style and kind, beside a parameter "q" of the path item, *)
(* and operations with bodies and responses of each media type.            *)
(***************************************************************************)
EXTENDS Judgement

Num(n)     == [t |-> "num", n |-> n]
P(k, v)    == [k |-> k, v |-> v]
One        == [k \in {"k"} |-> "int"]
Two        == [k \in {"k", "m"} |-> IF k = "k" THEN "int" ELSE "str"]
Typed(t)   == [Anything EXCEPT !.type = t]
Array(n)   == [Typed("array") EXCEPT !.items = n]
MCDoc ==
    [int     |-> Typed("integer"),
     num     |-> Typed("number"),
     bool    |-> Typed("boolean"),
     str     |-> Typed("string"),
     xs      |-> [Typed("string") EXCEPT !.pattern = "^x"],
     one     |-> [Typed("integer") EXCEPT !.max = 2],
     ints    |-> [Array("int") EXCEPT !.minItems = 1],
     strs    |-> [Array("str") EXCEPT !.maxItems = 1],
     lists   |-> Array("ints"),
     obj     |-> [Typed("object") EXCEPT !.properties = Two, !.required = <<"k">>],
     closed  |-> [Typed("object") EXCEPT !.properties = Two, !.additionalAllowed = FALSE],
     all     |-> [Anything EXCEPT !.allOf = <<"int", "one">>],
     bare    |-> [Anything EXCEPT !.allOf = <<"int", "most">>],
     most    |-> [Anything EXCEPT !.max = 2],
     any     |-> [Anything EXCEPT !.anyOf = <<"xs", "strs">>],
     either  |-> [Anything EXCEPT !.oneOf = <<"one", "xs">>],
     twin    |-> [Anything EXCEPT !.oneOf = <<"loose", "str">>],
     loose   |-> [Typed("object") EXCEPT !.properties = [k \in {"k"} |-> "most"]],
     nope    |-> [Anything EXCEPT !.not = "int"],
     file    |-> [Typed("object") EXCEPT !.properties = [k \in {"k", "m"} |-> IF k = "k" THEN "xs" ELSE "strs"]],
     anyfile |-> [Typed("object") EXCEPT !.properties = [k \in {"k"} |-> "xs"], !.additionalAllowed = TRUE],
     more    |-> [Typed("object") EXCEPT !.properties = [k \in {"k"} |-> "xs"], !.additional = "file"],
     writes  |-> [Typed("object") EXCEPT !.properties = [k \in {"k", "m"} |-> IF k = "k" THEN "hidden" ELSE "str"], !.required = <<"k">>],
     hidden  |-> [Typed("integer") EXCEPT !.writeOnly = TRUE]]

MCParseFloat == [s \in {"1", "1.5", "NaN"} |-> CASE s = "1" -> Num(2) [] s = "1.5" -> Num(3) [] OTHER -> [t |-> "nan"]]
MCParseBool  == {"1", "true"}
Strg(s)      == [t |-> "str", s |-> s]
MCParseJSON  == [s \in {"null", "1", "true", "{k:1}", "{m:x}", "{k:1,z:x}"} |->
    CASE s = "null" -> Null [] s = "1" -> Num(2) [] s = "true" -> [t |-> "bool"]
      [] s = "{k:1}" -> Obj(<<P("k", Num(2))>>) [] s = "{m:x}" -> Obj(<<P("m", Strg("x"))>>)
      [] OTHER -> Obj(<<P("k", Num(2)), P("z", Strg("x"))>>)]

-----------------------------------------------------------------------------
Param(in, style, explode, required, schema) ==
    [name |-> "p", in |-> in, style |-> style, explode |-> explode,
     required |-> required, schema |-> schema, content |-> None]
Kinds4 == {"int", "str", "ints", "obj"}
Styled ==
    {Param("path", style, explode, TRUE, n) :
        style \in {"simple", "label", "matrix"}, explode \in BOOLEAN, n \in Kinds4} \cup
    {Param("query", "", explode, req, n) : explode \in BOOLEAN, req \in BOOLEAN, n \in Kinds4} \cup
    {Param("query", style, explode, FALSE, n) :
        style \in {"spaceDelimited", "pipeDelimited"}, explode \in BOOLEAN, n \in {"ints", "strs"}} \cup
    {Param("query", "deepObject", TRUE, FALSE, n) : n \in {"obj", "closed"}} \cup
    {Param(in, "", explode, req, n) :
        in \in {"header", "cookie"}, explode \in BOOLEAN, req \in {TRUE}, n \in Kinds4} \cup
    {Param(in, "", None, req, n) : in \in {"query", "header"}, req \in BOOLEAN,
        n \in {"num", "bool", "strs", "lists", "closed", "all", "bare", "any", "either", "twin", "nope", "most"}}
Media(n) == [schema |-> n, encoding |-> <<>>]
Contents ==
    {[Param(in, "", None, in # "query", None) EXCEPT !.content = [r \in {JSON} |-> Media(n)]] :
        in \in {"path", "query", "header", "cookie"}, n \in {"int", "obj"}}
Params == Styled \cup Contents

Q(in, n) == [name |-> "q", in |-> in, style |-> "", explode |-> None,
             required |-> in = "query", schema |-> n, content |-> None]
None2 == [x \in {} |-> None]
Operation(pathItem, params) ==
    [pathItem |-> pathItem, params |-> params, body |-> None, responses |-> None2]
ParamOps == {Operation(<<>>, <<p>>) : p \in Params} \cup
            {Operation(<<Q("query", "int")>>, <<p, Q("header", "int")>>) :
                p \in {x \in Params : x.in = "query" /\ x.schema \in {"int", "ints", "obj"}}} \cup
            {Operation(pathItem, <<Q("query", "bool")>>) :
                pathItem \in {<<Q("query", "int")>>, <<Q("query", "int"), Q("header", "int")>>}}

-----------------------------------------------------------------------------
(* What clients send for p: samples in p's style, in style "simple", and    *)
(* texts that are neither; for q: nothing, "1" or "x".                      *)

Sample(kind, texts, keys) ==
    [kind |-> kind, of |-> [j \in DOMAIN texts |-> <<Null, texts[j]>>], keys |-> keys]
T(s) == <<s>>
Samples ==
    {Sample("primitive", <<t>>, <<>>) : t \in {T("1"), T("x"), <<"1", ".", "5">>, T("true"), T("NaN")}} \cup
    {Sample("array", ts, <<>>) : ts \in {<<T("1")>>, <<T("x")>>, <<T("1"), T("x")>>, <<T("1"), T("1")>>}} \cup
    {Sample("object", <<T("1")>>, <<"k">>), Sample("object", <<T("1"), T("x")>>, <<"k", "m">>),
     Sample("object", <<T("x"), T("1")>>, <<"m", "k">>), Sample("object", <<T("1"), T("x")>>, <<"k", "z">>)}
Junk == {<<>>, <<"x", ",">>, <<",", "1">>, <<";", "p", "=", "1", ";", "q", "=", "1">>, <<"k", "=">>}

Documents(p) == IF p.content = None THEN {} ELSE {T(s) : s \in DOMAIN MCParseJSON}
TextsFor(p) ==
    {Written("p", sm.style, sm.explode, f) : sm \in {MethodOf(p), [style |-> "simple", explode |-> FALSE]}, f \in Samples}
    \cup Junk \cup Documents(p)
PairsFor(p) ==
    {Queried("p", MethodOf(p).style, MethodOf(p).explode, f) : f \in {g \in Samples : Writes(p, g)}} \cup
    {<<>>, <<<<T("p"), T("1")>>, <<T("p"), T("x")>>>>, <<<<T("p"), <<"x", ",", "1">>>>>>,
     <<<<T("p"), <<>>>>>>, <<<<<<"a", "[", "p", "[", "k", "]", "]">>, T("1")>>>>} \cup
    {<<<<T("p"), t>>>> : t \in Documents(p)}

Source(q) == [path |-> None2, query |-> q, header |-> None2, cookie |-> None2]
NoBody == [text |-> <<>>, args |-> <<>>, parts |-> None]
Req(source, mime, body) == [source |-> source, head |-> FALSE, mime |-> mime, body |-> body]
With(source, in, text) == [source EXCEPT ![in] = [x \in {"p"} |-> text]]
ForQ == {<<>>} \cup {<<<<T("q"), T(s)>>>> : s \in {"1", "x"}}

RequestsFor(o) ==
    LET p == o.params[1]
        zs    == IF o.pathItem = <<>> THEN {<<>>} ELSE ForQ
        pairs == IF p.in = "query" THEN {q \o z : q \in PairsFor(p), z \in zs} ELSE zs
        texts == TextsFor(p)
        sources == {Source(z) : z \in pairs}
    IN  {Req(s, <<>>, NoBody) :
           s \in IF p.in = "query" THEN sources
                 ELSE {With(s, p.in, t) : s \in sources, t \in IF p.in = "path" THEN texts \ {<<>>} ELSE texts}
                      \cup (IF p.in = "path" THEN {} ELSE sources)}

-----------------------------------------------------------------------------
(* Bodies: one of each sort under each label.                               *)

Body(text)  == [text |-> text, args |-> <<>>, parts |-> None]
Args(pairs) == [text |-> T("args"), args |-> pairs, parts |-> None]
Part(k, mime, text) == [name |-> k, mime |-> mime, body |-> Body(text)]
Multi(parts) == [text |-> T("parts"), args |-> <<>>, parts |-> parts]
Plain0 == <<"text", "/", "plain">>
MCBodies ==
    {NoBody} \cup {Body(T(s)) : s \in DOMAIN MCParseJSON \cup {"x"}} \cup
    {Args(<<>>), Args(<<<<T("k"), T("x")>>>>), Args(<<<<T("k"), T("1")>>, <<T("m"), T("x")>>>>),
     Args(<<<<T("k"), T("x")>>, <<T("m"), T("x")>>, <<T("m"), T("1")>>>>),
     Args(<<<<T("k"), T("x")>>, <<T("m"), T("1")>>>>)} \cup
    {Multi(<<>>), Multi(<<Part("k", <<>>, T("x")), Part("m", Plain0, T("1"))>>),
     Multi(<<Part("k", <<>>, T("1"))>>),
     Multi(<<Part("m", <<>>, T("x")), Part("k", <<>>, T("x")), Part("m", <<>>, T("1"))>>),
     Multi(<<Part("k", JSON, T("1"))>>), Multi(<<Part("z", <<>>, T("1"))>>),
     Multi(<<Part("m", JSON, T("x"))>>),
     Multi(<<[Part("m", Form, T("x")) EXCEPT !.body = Multi(<<Part("k", <<>>, T("x"))>>)]>>)}
JSONUtf8 == JSON \o <<";", "utf-8">>
Pdf      == <<"application", "/", "pdf">>
Mimes    == {<<>>, JSON, JSONUtf8, Plain0, Url, Form, Pdf, T("json")}
\* Forms are labelled as such; other bodies in every way.
Labelled == {x \in Mimes \X MCBodies :
                x[1] = IF x[2].args # <<>> THEN Url ELSE IF x[2].parts # None THEN Form ELSE x[1]}
MCContents ==
    {[r \in {JSON} |-> Media(n)] : n \in {"int", "obj", "closed", "writes", None}} \cup
    {[r \in {Url, Form} |-> Media(n)] : n \in {"obj", "file", "anyfile", "more", "int"}} \cup
    {[r \in {JSON, JSONUtf8, <<"application", "/", "*">>, <<"*", "/", "*">>} |->
        Media(CASE r = JSON -> "int" [] r = JSONUtf8 -> "obj" [] r = <<"application", "/", "*">> -> "bool" [] OTHER -> "xs")],
     [r \in {<<"*", "/", "*">>} |-> Media("str")],
     [r \in {Url} |-> [schema |-> "file", encoding |-> [k \in {"m"} |-> [style |-> "", explode |-> FALSE]]]],
     None2}
BodyOps  == {[Operation(<<>>, <<>>) EXCEPT !.body = [required |-> r, content |-> c]] : r \in BOOLEAN, c \in MCContents}
ReplyOps == {[Operation(<<>>, <<>>) EXCEPT !.responses = [s \in {"200", "404"} |-> IF s = "200" THEN c ELSE None2]] : c \in MCContents}
            \cup {[Operation(<<>>, <<>>) EXCEPT !.responses = [s \in {"default"} |-> c]] : c \in MCContents}

MCOperations == ParamOps \cup BodyOps \cup ReplyOps
MCRequests == [o \in MCOperations |->
    IF o.params # <<>> THEN RequestsFor(o)
    ELSE IF o.body # None THEN {Req(Source(<<>>), x[1], x[2]) : x \in Labelled}
    ELSE {[Req(Source(<<>>), <<>>, NoBody) EXCEPT !.head = h] : h \in {DOMAIN o.responses = {"default"}, FALSE}}]
MCReplies == [o \in MCOperations |->
    IF DOMAIN o.responses = {} THEN {[status |-> "200", mime |-> <<>>, body |-> NoBody]}
    ELSE {[status |-> "200", mime |-> x[1], body |-> x[2]] : x \in Labelled} \cup
         {[status |-> s, mime |-> JSON, body |-> b] : s \in {"304", "404", "500"}, b \in {NoBody, Body(T("x"))}}]

-----------------------------------------------------------------------------
AllSent  == UNION {TextsFor(p) : p \in Params} \cup
            {x[2] : x \in UNION {ToSet(q) : q \in UNION {PairsFor(p) : p \in Params}}}
AllTexts == UNION {Suffixes(t) : t \in AllSent}
MCSpelled == {<<Str(t), t>> : t \in AllTexts} \cup
             {<<Num(2), T("1")>>, <<Num(3), <<"1", ".", "5">>>>, <<Null, <<>>>>,
              <<[t |-> "bool"], T("1")>>, <<[t |-> "bool"], T("true")>>}
MCItems   == {x \in MCSpelled : x[2] \in {<<>>, T("1"), T("x"), T("true"), T("NaN"), <<"k", "=">>,
                                        <<"1", ".", "5">>, <<"x", ",", "1">>, <<"x", ",">>, <<",", "1">>,
                                        <<";", "p", "=", "1", ";", "q", "=", "1">>}}
MCMembers == {x \in MCSpelled : x[2] \in {<<>>, T("1"), T("x")}}
MCNames   == {"k", "m", "z"}
Pieces(t) == {SubSeq(t, i, j) : i, j \in DOMAIN t}
MCStrLen  == [s \in {String(x) : x \in UNION {Pieces(t) : t \in AllSent}} \cup {"args", "parts"} \cup DOMAIN MCParseJSON |-> 1]
MCMatches == {<<"^x", "x">>, <<"^x", "x,">>, <<"^x", "x,1">>}
=============================================================================
