----------------------------- MODULE MCSchemaVisit -----------------------------
(***************************************************************************)
(* Documents of three schemas: a root of every shape, over two sub-schemas *)
(* "a" and "b" out of a few leaves.  Numbers and bounds are in halves.     *)
(***************************************************************************)
EXTENDS SchemaVisit

Num(n)   == [t |-> "num", n |-> n]
Str(s)   == [t |-> "str", s |-> s]
Arr(xs)  == [t |-> "arr", items |-> xs]
Obj(ps)  == [t |-> "obj", pairs |-> ps]
P(k, v)  == [k |-> k, v |-> v]
Plain    == {[t |-> "null"], [t |-> "bool"], [t |-> "nan"], [t |-> "inf"],
             Num(2), Num(3), Num(8), Str("x"), Str("yy")}
Containers ==
    {Arr(<<>>), Arr(<<Num(2), Num(2)>>), Arr(<<Num(3), Str("x")>>),
     Obj(<<>>), Obj(<<P("k", Str("x"))>>), Obj(<<P("m", Num(3))>>),
     Obj(<<P("k", Num(3)), P("m", Num(8))>>), Obj(<<P("k", Str("yy")), P("m", [t |-> "null"])>>),
     Obj(<<P("m", Obj(<<P("k", Num(3))>>))>>), Obj(<<P("k", Arr(<<Str("x")>>))>>)}
MCValues     == Plain \cup Containers \cup {[t |-> "raw"], Obj(<<P("k", [t |-> "raw"])>>)}
MCFastValues == Plain \cup Containers \cup {Obj(<<P("k", Str("x")), P("k", Num(3))>>)}

MCStrLen    == [s \in {"x", "yy"} |-> IF s = "x" THEN 1 ELSE 2]
MCMatches   == {<<"^y", "yy">>}
MCBadFormat == {<<"date", "x">>}
MCModes     == {[failfast |-> f, multiError |-> m, asreq |-> r, asrep |-> ~r] :
                  f, m, r \in BOOLEAN} \ {[failfast |-> TRUE, multiError |-> TRUE, asreq |-> r, asrep |-> ~r] : r \in BOOLEAN}

With(f, x) == [Anything EXCEPT ![f] = x]
Text    == [Anything EXCEPT !.type = "string", !.minLength = 2, !.pattern = "^y"]
Short   == [Anything EXCEPT !.maxLength = 1, !.format = "date", !.readOnly = TRUE]
Whole   == [Anything EXCEPT !.type = "integer", !.min = 2, !.max = 8, !.exclusiveMax = TRUE]
Thirds  == [Anything EXCEPT !.min = 3, !.exclusiveMin = TRUE, !.max = 8, !.multipleOf = 3, !.writeOnly = TRUE]
Closed  == [Anything EXCEPT !.type = "object", !.additionalAllowed = FALSE, !.properties = [k \in {"k"} |-> "b"]]
Maybe   == [Anything EXCEPT !.nullable = TRUE, !.type = "boolean"]
Choice  == [Anything EXCEPT !.enum = <<Str("x"), Num(3)>>]
Wrong   == [Anything EXCEPT !.type = "array"]
As == {Anything, Text, Short, Whole, Thirds, Closed, Maybe, Choice, Wrong}
Bs == {Anything, Whole, Text}

KM(x, y) == [k \in {"k", "m"} |-> IF k = "k" THEN x ELSE y]
K(x)     == [k \in {"k"} |-> x]
Roots ==
    {[Anything EXCEPT !.type = "array", !.items = "a", !.minItems = 1, !.maxItems = 2],
     [Anything EXCEPT !.type = "array", !.items = "a", !.uniqueItems = TRUE, !.maxItems = 1],
     [Anything EXCEPT !.properties = KM("a", "b"), !.required = <<"k", "m">>],
     [Anything EXCEPT !.properties = K("a"), !.additionalAllowed = FALSE, !.required = <<"k">>],
     [Anything EXCEPT !.properties = K("a"), !.additional = "b", !.minProps = 1, !.maxProps = 1],
     [Anything EXCEPT !.properties = KM("a", "root")],
     [Anything EXCEPT !.properties = KM("a", "root"), !.type = "object"],
     With("not", "a"),
     [Anything EXCEPT !.type = "object", !.allOf = <<"a", "root">>],
     [Anything EXCEPT !.minProps = 1, !.not = "root"],
     With("multipleOf", 0),
     With("allowEmptyValue", TRUE),
     With("oneOf", <<"a", "b">>),
     [Anything EXCEPT !.oneOf = <<"a", "b">>,
                 !.discriminator = [prop |-> "k", mapping |-> [s \in {"x", "yy"} |-> IF s = "x" THEN "a" ELSE "b"]]],
     With("anyOf", <<"a", "b">>),
     With("allOf", <<"a", "b">>),
     [Anything EXCEPT !.allOf = <<"a">>, !.not = "b", !.maxProps = 1],
     [Anything EXCEPT !.enum = <<Obj(<<>>), Str("yy")>>, !.not = "a"],
     [Anything EXCEPT !.oneOf = <<"a">>, !.items = "b"],
     [Anything EXCEPT !.type = "integer", !.exclusiveMin = TRUE],
     [Anything EXCEPT !.type = "string", !.format = "unknown"],
     [Anything EXCEPT !.readOnly = TRUE, !.writeOnly = TRUE],
     With("type", "file")}
Document(r, x, y) == [n \in {"root", "a", "b"} |-> CASE n = "root" -> r [] n = "a" -> x [] OTHER -> y]
MCDocuments == {Document(r, x, y) : r \in Roots, x \in As, y \in Bs}
=============================================================================
