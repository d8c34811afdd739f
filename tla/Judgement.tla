-------------------------------- MODULE Judgement --------------------------------
(***************************************************************************)
(* What the verdicts of Validation are held against: what the parts of a   *)
(* request, and the body of a reply, mean when they are read as a client   *)
(* that follows the specification would have written them.                 *)
(***************************************************************************)
EXTENDS Validation, Conformance

-----------------------------------------------------------------------------
(* What a request means.                                                    *)

Effective == ToSet(operation.params) \cup {p \in ToSet(operation.pathItem) : ~\E q \in ToSet(operation.params) :
                                        <<q.in, q.name>> = <<p.in, p.name>>}

\* The schemas that are tried for a parameter.
Tries(n) == ReachableFrom([m \in DOMAIN Doc |-> LET s == Doc[m] IN ToSet(s.allOf \o s.anyOf \o s.oneOf)], {n})
Leaves(n)   == {m \in Tries(n) : LET s == Doc[m] IN s.allOf \o s.anyOf \o s.oneOf = <<>>}
Typeless(p) == \E m \in Leaves(p.schema) : Doc[m].type = ""
Listed(p)   == \E m \in Leaves(p.schema) : KindOf(Doc[m].type) # "primitive"

\* The pairs of the query that write a value of some kind for p.
Pairs(p, kind) ==
    LET sm == MethodOf(p)
        others == {<<q.name>> : q \in Effective \ {p}}
    IN  SelectSeq(request.source.query, LAMBDA x :
            CASE sm.style = "deepObject" -> \E k \in PropertyNames : x[1] = <<p.name, "[", k, "]">>
              [] sm.style = "form" /\ sm.explode /\ kind = "object" -> x[1] \notin others
              [] OTHER -> x[1] = <<p.name>>)

Text(p) == IF p.in # "query" /\ p.name \in DOMAIN request.source[p.in] THEN request.source[p.in][p.name] ELSE None

Spreads(p) == p.content = None /\ \E m \in Leaves(p.schema) : Doc[m].type = "object"
Absent(p) ==
    IF p.in # "query" THEN Text(p) = None
    ELSE Pairs(p, "primitive") = <<>> /\ (Spreads(p) => Pairs(p, "object") = <<>>)

\* Each parameter with its forms and what writes them: the forms that the
\* request can be writing for p.
Serialized ==
    {<<p, {<<f, IF p.in = "query" THEN Queried(p.name, MethodOf(p).style, MethodOf(p).explode, f)
                ELSE Written(p.name, MethodOf(p).style, MethodOf(p).explode, f)>> :
           f \in {g \in Forms : g.of # <<>> /\ Writes(p, g)}}>> :
     p \in UNION {ToSet(o.params \o o.pathItem) : o \in Operations}}
Readings(p) ==
    LET forms == (CHOOSE x \in Serialized : x[1] = p)[2]
        of(kind) == LET text == IF p.in = "query" THEN Pairs(p, kind) ELSE Text(p)
                    IN  {x[1] : x \in {y \in forms : y[1].kind = kind /\ y[2] = text}}
    IN  UNION {of(kind) : kind \in {"primitive", "array", "object"}}

\* Whether the value the request can mean for p conforms.
Good(p) ==
    IF Absent(p) THEN ~p.required
    ELSE IF p.content # None
    THEN LET text == String(IF p.in = "query" THEN Pairs(p, "primitive")[1][2] ELSE Text(p))
             v    == ParseJSON[text]
         IN  /\ text \in DOMAIN ParseJSON
             /\ IF v = Null THEN ~p.required
                ELSE \E r \in DOMAIN p.content : Conforms(Doc, p.content[r].schema, v, Mode(FALSE, FALSE))
    ELSE \E f \in Readings(p) : Conforms(Doc, p.schema, Means(f), Mode(FALSE, FALSE))

\* Where decoding is known to take another value for p than was written:
\* an array or an object that is absent counts as empty, a schema without a
\* type decodes to nil, an object has exactly the declared properties, of
\* repeated primitives the first counts and an empty text is null.
Reinterpreted(p) ==
    IF p.content # None
    THEN IF p.in = "query" THEN Len(Pairs(p, "primitive")) > 1 ELSE Text(p) = <<>>
    ELSE \/ Absent(p) /\ Listed(p)
         \/ Typeless(p)
         \/ \E f \in Readings(p), m \in Leaves(p.schema) :
               /\ f.kind = "object" /\ Doc[m].type = "object"
               /\ ToSet(f.keys) # DOMAIN Doc[m].properties
         \/ p.in = "query" /\ Len(Pairs(p, "primitive")) > 1 /\ ~(Listed(p) /\ MethodOf(p).explode)
         \/ \E f \in Readings(p) : \E x \in ToSet(f.of) : x[2] = <<>>
\* and where it cannot take any: alternatives decode one way only, an
\* exploded cookie and content in the path never, and lists of lists panic.
Undecodable(p) ==
    IF p.content # None THEN p.in = "path"
    ELSE \/ \E m \in Tries(p.schema) : LET s == Doc[m] IN s.anyOf \o s.oneOf # <<>> \/ s.not # None
         \/ p.in = "cookie" /\ Listed(p) /\ MethodOf(p).explode
         \/ \E m \in Leaves(p.schema) :
               LET s == Doc[m]
                   inner == {s.properties[k] : k \in DOMAIN s.properties} \cup Given(s.items)
               IN  \E n \in inner : Doc[n].type \in {"", "array", "object"}

-----------------------------------------------------------------------------
(* What a body means.                                                       *)

\* The most specific of the declared ranges that cover a media type.
Covers(r, mime) ==
    LET bare == Before(mime, ";")
        stars == Cardinality({k \in DOMAIN r : r[k] = "*"})
    IN  CASE stars = 0 -> r \in {mime, bare}
          [] stars = 1 -> "/" \in ToSet(bare) /\ r[1] = Before(bare, "/")[1]
          [] stars = 2 -> mime = <<>> \/ "/" \in ToSet(bare)
MostSpecific(content, mime) ==
    LET covering == {r \in DOMAIN content : Covers(r, mime)}
        stars(r) == Cardinality({k \in DOMAIN r : r[k] = "*"})
    IN  IF covering = {} THEN None
        ELSE content[CHOOSE r \in covering : \A q \in covering :
                        stars(r) < stars(q) \/ (stars(r) = stars(q) /\ Len(r) >= Len(q))]

Url  == <<"application", "/", "x-www-form-urlencoded">>
Form == <<"multipart", "/", "form-data">>
Free == {<<"text", "/", "plain">>, <<"application", "/", "octet-stream">>}
Sent(body) == {body.args[k][1] : k \in DOMAIN body.args}

BodyMeans(media, mime, body) ==
    LET n     == media.schema
        props == Doc[n].properties
        method(k) == EncodingMethod(EncodingOf(media.encoding, k))
        pairs(k) == SelectSeq(body.args, LAMBDA x : x[1] = <<k>>)
        read(k)  == {Means(f) : f \in {g \in Forms : /\ g.kind \in {"primitive", "array"} /\ g.of # <<>>
                                                     /\ Queried(k, method(k).style, method(k).explode, g) = pairs(k)}}
        named(k) == SelectSeq(body.parts, LAMBDA x : x.name = k)
        part(k)  == IF Doc[props[k]].type = "array"
                    THEN Arr([j \in DOMAIN named(k) |-> Str(named(k)[j].body.text)])
                    ELSE Str(named(k)[1].body.text)
        parts == {body.parts[j].name : j \in DOMAIN body.parts}
    IN  CASE mime = JSON   -> {ParseJSON[x] : x \in {String(body.text)} \cap DOMAIN ParseJSON}
          [] mime \in Free -> {Str(body.text)}
          [] mime = Url    -> IF Doc[n].type # "object" THEN {}
                              ELSE {ObjOf(f) : f \in Selections([k \in DOMAIN props |-> read(k)])}
          [] mime = Form   -> IF Doc[n].type # "object" \/ body.parts = None \/ ~(parts \subseteq DOMAIN props)
                              THEN {} ELSE {ObjOf([k \in parts |-> part(k)])}

\* Bodies whose reading is the decoder's own: other media types, forms that
\* leave out, add or repeat properties, parts that are JSON, properties
\* without a type, and what the fast visitor treats in its own way.
OwnReading(media, mime, body, many, reply0) ==
    LET n == media.schema
        reached == ReachableFrom(ToChildren(Doc), {n})
        s == Doc[n]
        single(k) == Cardinality({j \in DOMAIN body.args : body.args[j][1] = <<k>>}) > 1
                     /\ ~(/\ Doc[s.properties[k]].type = "array"
                          /\ EncodingMethod(EncodingOf(media.encoding, k)).explode)
    IN  \/ mime \notin {JSON, Url, Form} \cup Free
        \/ mime = Url /\ s.type = "object" /\
              (\/ Sent(body) # {<<k>> : k \in DOMAIN s.properties}
               \/ \E k \in DOMAIN s.properties : single(k) \/ Doc[s.properties[k]].type \in {"", "object"})
        \/ mime = Form /\ body.parts # None /\ s.type = "object" /\
              \E j \in DOMAIN body.parts :
                 \/ body.parts[j].name \notin DOMAIN s.properties
                 \/ Before(body.parts[j].mime, ";") \notin {<<>>} \cup Free
                 \/ /\ Doc[s.properties[body.parts[j].name]].type # "array"
                    /\ \E h \in DOMAIN body.parts : h # j /\ body.parts[h].name = body.parts[j].name
        \/ mime = JSON /\
              (\/ \E v \in BodyMeans(media, mime, body) : Has(v, {"null", "nan", "inf"})
               \/ \E m \in reached : Doc[m].enum # <<>> \/ (~many /\ Doc[m].additionalAllowed = FALSE))
        \/ reply0 /\ \E m \in reached : Doc[m].readOnly \/ Doc[m].writeOnly

\* Whether content that accepts `mime` as its sender labels it takes a body.
BodyGood(content, mime, body, many, reply0) ==
    LET media == MostSpecific(content, mime)
        mode  == [Mode(many, ~reply0) EXCEPT !.asrep = reply0]
    IN  \/ DOMAIN content = {}
        \/ /\ media # None
           /\ media.schema # None =>
                 \E v \in BodyMeans(media, Before(mime, ";"), body) :
                    Conforms(Doc, media.schema, v, mode)
BodyOwn(content, mime, body, many, reply0) ==
    LET media == MostSpecific(content, mime)
    IN  DOMAIN content # {} /\ media # None /\ media.schema # None
        /\ OwnReading(media, Before(mime, ";"), body, many, reply0)

\* Of the request, if its operation has a body, and of the reply, if it is one that is looked at.
Empty == request.body.text = <<>>
RequestGood == IF Empty THEN ~operation.body.required
               ELSE BodyGood(operation.body.content, request.mime, request.body, multi, FALSE)
RequestOwn  == ~Empty /\ BodyOwn(operation.body.content, request.mime, request.body, multi, FALSE)
ReplyCounts == /\ reply # None /\ ~request.head /\ DOMAIN operation.responses # {}
               /\ reply.status \notin {"304", "308", "307", "301"}
Declared  == {s \in DOMAIN operation.responses : s \in {reply.status, "default"}}
Responded == operation.responses[IF reply.status \in Declared THEN reply.status ELSE "default"]
ReplyGood == Declared # {} /\ BodyGood(Responded, reply.mime, reply.body, FALSE, TRUE)
ReplyOwn  == Declared # {} /\ BodyOwn(Responded, reply.mime, reply.body, FALSE, TRUE)

-----------------------------------------------------------------------------
\* The step stays within its parameters, and the verdict is what the errors say.
TypeOK ==
    /\ operation \in Operations /\ request \in Requests[operation] /\ multi \in BOOLEAN
    /\ pc \in {"pathItem", "params", "body", "security", "verdict", "accepted", "refused",
               "panicked", "answered", "delivered", "blocked"}
    /\ index \in 1..(1 + Len(operation.pathItem)) \cup 1..(1 + Len(operation.params))
    /\ pc = "pathItem" => index <= 1 + Len(operation.pathItem)
    /\ pc = "params"   => index <= 1 + Len(operation.params)
    /\ reply \in Replies[operation] \cup {None}
    /\ (pc \in {"refused", "panicked", "blocked"} => me # <<>>)
    /\ (me # <<>> => multi \/ pc \in {"refused", "panicked", "blocked"})

\* What was judged and found good: all that ValidateRequest accepts, and all
\* of which it reports no error when it collects them.
Passed(what, of) ==
    /\ pc = "accepted" \/ (pc = "refused" /\ multi)
    /\ \A k \in DOMAIN me : <<me[k].what, me[k].of>> # <<what, of>>
Failed(what, of) ==
    /\ pc \in {"refused", "panicked", "blocked"}
    /\ \E k \in DOMAIN me : <<me[k].what, me[k].of>> = <<what, of>>

\* Whatever the location, the style, the schema and the other parameters: a
\* request is accepted only if each parameter the operation has, those it
\* inherits and does not override included, is absent and optional or is the
\* serialization of a value that conforms (ValidateParameter).
PassedParametersConform ==
    \A p \in Effective : Passed("parameter", p) => Good(p) \/ Reinterpreted(p)

\* And the reverse: an error, or a panic, about a parameter means that no
\* value that conforms can have been written.
FailedParametersDoNot ==
    \A p \in Effective : Failed("parameter", p) => Undecodable(p) \/ Reinterpreted(p) \/ ~Good(p)

\* The body of a request, and of a reply, is accepted exactly if what it
\* holds conforms to the schema of the most specific declared media range
\* that covers its type (ValidateRequestBody, ValidateResponse, Content.Get).
BodiesAreJudged ==
    /\ operation.body # None /\ ~RequestOwn =>
          (Passed("body", None) => RequestGood) /\ (Failed("body", None) => ~RequestGood)
    /\ ReplyCounts /\ ~ReplyOwn =>
          (pc = "delivered" => ReplyGood) /\ (Failed("reply", None) => ~ReplyGood)

\* validate_request.go:113 "The function returns RequestError with
\* ErrInvalidRequired cause when a value of a required parameter is not
\* defined": what is accepted has all required parameters.
RequiredReported ==
    \A p \in Effective : Passed("parameter", p) => ~(p.required /\ Absent(p))
=============================================================================
