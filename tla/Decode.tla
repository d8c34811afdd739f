--------------------------------- MODULE Decode ---------------------------------
(***************************************************************************)
(* openapi3filter/req_resp_decoder.go: how the text of a parameter, or a   *)
(* body, becomes a value a schema can visit.                               *)
(*                                                                         *)
(* A text is a sequence of tokens: names, literals and the delimiters the  *)
(* styles use.  What fasthttp has taken apart is taken as it is: `source`  *)
(* has, by location, the text under each name, and the query as a sequence *)
(* of pairs.  A decoder gives a set of results, since objects are decoded  *)
(* property by property in the order of a Go map.                          *)
(***************************************************************************)
EXTENDS Schema

CONSTANTS
    ParseFloat,   \* the texts strconv.ParseFloat takes, as strings, to numbers
    ParseBool,    \* the texts strconv.ParseBool takes
    ParseJSON     \* the texts that are JSON documents, to values

\* A result: the value, and "none", "decode" for an error or "panic".
Null       == [t |-> "null"]
Arr(items) == [t |-> "arr", items |-> items]
Obj(pairs) == [t |-> "obj", pairs |-> pairs]
Gives(v)   == [v |-> v, err |-> "none"]
Fails(v)   == [v |-> v, err |-> "decode"]
Panics     == [v |-> Null, err |-> "panic"]

\* DecodeArray and DecodeObject return a nil slice or map, which in the
\* interface{} of decodeValue is no longer nil: it is visited as empty.
NilOf(kind) == CASE kind = "array"  -> Arr(<<>>)
                 [] kind = "object" -> Obj(<<>>)
                 [] OTHER           -> Null

KindOf(type) == IF type \in {"array", "object"} THEN type ELSE "primitive"

-----------------------------------------------------------------------------
(* Texts.                                                                   *)

String(text) == FoldLeft(LAMBDA a, token : a \o token, "", text)
Str(text)    == [t |-> "str", s |-> String(text)]

\* strings.Split
OnTo(token, pieces) == <<<<token>> \o Head(pieces)>> \o Tail(pieces)
Split(text, delim) ==
    LET from[i \in 1..(Len(text) + 1)] ==
            CASE i > Len(text) -> <<<<>>>>
              [] i \in 1..(Len(text) - Len(delim) + 1) /\ SubSeq(text, i, i + Len(delim) - 1) = delim ->
                   <<<<>>>> \o from[i + Len(delim)]
              [] OTHER -> OnTo(text[i], from[i + 1])
    IN  from[1]

Before(text, token) == Split(text, <<token>>)[1]

\* propsFromString: a sequence of pairs <<name, text>>, None on an error.
Alternating(parts) ==
    IF Len(parts) % 2 # 0 THEN None
    ELSE [i \in 1..(Len(parts) \div 2) |-> <<parts[2 * i - 1], parts[2 * i]>>]
AllPairs(parts) == IF \A i \in DOMAIN parts : Len(parts[i]) = 2 THEN parts ELSE None
PropsFromString(text, propDelim, valueDelim) ==
    LET parts == Split(text, propDelim)
    IN  IF propDelim = valueDelim THEN Alternating(parts)
        ELSE AllPairs([i \in DOMAIN parts |-> Split(parts[i], valueDelim)])

\* The pairs go into a map: the last of a name stays.  A name that is not
\* there gives the empty text.
Prop(props, k) ==
    LET of == SelectSeq(props, LAMBDA p : p[1] = <<k>>)
    IN  IF of = <<>> THEN <<>> ELSE Last(of)[2]

Parsed(type, s) ==
    CASE type \in {"integer", "number"} ->
           IF s \in DOMAIN ParseFloat THEN Gives(ParseFloat[s]) ELSE Fails(Null)
      [] type = "boolean" -> IF s \in ParseBool THEN Gives([t |-> "bool"]) ELSE Fails(Null)
      [] type = "string"  -> Gives([t |-> "str", s |-> s])
      [] OTHER            -> Panics
ParsePrimitive(d, n, text) ==
    IF text = <<>> THEN Gives(Null) ELSE Parsed(d[n].type, String(text))

\* Stops at the first item that does not parse.
ParseArray(d, n, texts) ==
    LET items == [i \in DOMAIN texts |-> ParsePrimitive(d, d[n].items, texts[i])]
        bad   == SelectSeq(items, LAMBDA r : r.err # "none")
    IN  IF bad # <<>> THEN {[bad[1] EXCEPT !.v = NilOf("array")]}
        ELSE {Gives(Arr([i \in DOMAIN items |-> items[i].v]))}

\* Every declared property is set, to nil if it was not sent; what is sent
\* and not declared is dropped.
MakeObject(d, n, props) ==
    LET ks   == SetToSeq(DOMAIN d[n].properties)
        each == [i \in DOMAIN ks |->
                    ParsePrimitive(d, d[n].properties[ks[i]], Prop(props, ks[i]))]
        bad  == {i \in DOMAIN ks : each[i].err # "none"}
    IN  IF bad # {} THEN {[each[i] EXCEPT !.v = NilOf("object")] : i \in bad}
        ELSE {Gives(Obj([i \in DOMAIN ks |-> [k |-> ks[i], v |-> each[i].v]]))}

-----------------------------------------------------------------------------
(* Styles.  `sm` is a serialization method: [style, explode].               *)

INSTANCE Serialization

\* MUTANT: an exploded matrix array is split at ";" alone.
Delimiters_Bare(name, sm, kind) ==
    [prefix |-> CASE sm.style = "label"  -> <<".">>
                  [] sm.style = "matrix" -> IF kind = "object" /\ sm.explode THEN <<";">>
                                            ELSE <<";", name, "=">>
                  [] OTHER               -> <<>>,
     items  |-> CASE sm.style = "label" /\ sm.explode  -> <<".">>
                  [] sm.style = "matrix" /\ sm.explode -> <<";">>
                  [] OTHER                             -> <<",">>,
     values |-> IF sm.explode THEN <<"=">> ELSE <<",">>]

\* The prefix and the delimiters of the path decoder; those of headers and
\* cookies are its style "simple".
Delimiters(name, sm, kind) ==
    [prefix |-> CASE sm.style = "label"  -> <<".">>
                  [] sm.style = "matrix" -> IF kind = "object" /\ sm.explode THEN <<";">>
                                            ELSE <<";", name, "=">>
                  [] OTHER               -> <<>>,
     items  |-> CASE sm.style = "label" /\ sm.explode  -> <<".">>
                  [] sm.style = "matrix" /\ sm.explode ->
                       IF kind = "object" THEN <<";">> ELSE <<";", name, "=">>
                  [] OTHER                             -> <<",">>,
     values |-> IF sm.explode THEN <<"=">> ELSE <<",">>]

-----------------------------------------------------------------------------
(* The four decoders.                                                       *)

\* The text under a name, None if there is none; an empty path parameter
\* counts as none.
Raw(source, in, name) ==
    IF name \notin DOMAIN source[in] \/ (in = "path" /\ source[in][name] = <<>>)
    THEN None ELSE source[in][name]

\* PeekMulti; Peek is the first.
QueryTexts(query, name) ==
    FoldLeft(LAMBDA texts, q : IF q[1] = <<name>> THEN Append(texts, q[2]) ELSE texts, <<>>, query)

\* pathParamDecoder, headerParamDecoder, cookieParamDecoder
DecodeText(d, n, in, name, sm, source) ==
    LET kind  == KindOf(d[n].type)
        del   == Delimiters(name, sm, kind)
        raw   == Raw(source, in, name)
        text  == SubSeq(raw, Len(del.prefix) + 1, Len(raw))
        props == PropsFromString(text, del.items, del.values)
    IN  IF raw = None THEN {Gives(NilOf(kind))}
        ELSE IF ~IsPrefix(del.prefix, raw) THEN {Fails(NilOf(kind))}
        ELSE CASE kind = "primitive" -> {ParsePrimitive(d, n, text)}
               [] kind = "array"     -> ParseArray(d, n, Split(text, del.items))
               [] kind = "object"    -> IF props = None THEN {Fails(NilOf(kind))}
                                        ELSE MakeObject(d, n, props)

\* What the regular expression of style deepObject finds in a key, anywhere
\* in it: the name, "[", at least one token, and the next "]".
DeepName(key, name) ==
    LET closers(i) == {j \in (i + 3)..Len(key) : key[j] = "]"}
        starts == {i \in 1..(Len(key) - 3) :
                      key[i] = name /\ key[i + 1] = "[" /\ closers(i) # {}}
    IN  IF starts = {} THEN None
        ELSE SubSeq(key, Min(starts) + 2, Min(closers(Min(starts))) - 1)

\* The pairs urlValuesDecoder makes an object of, None for a nil map.
QueryProps(name, sm, query) ==
    LET texts == QueryTexts(query, name)
        named == [i \in DOMAIN query |-> <<DeepName(query[i][1], name), query[i][2]>>]
        deep  == SelectSeq(named, LAMBDA p : p[1] # None)
    IN  CASE sm.style = "deepObject" -> IF deep = <<>> THEN None ELSE deep
          [] sm.style # "deepObject" /\ sm.explode -> query
          [] OTHER                   -> PropsFromString(texts[1], <<",">>, <<",">>)

ItemDelimiter(style) ==
    CASE style = "spaceDelimited" -> <<" ">>
      [] style = "pipeDelimited"  -> <<"|">>
      [] OTHER                    -> <<",">>

\* urlValuesDecoder
DecodeQuery(d, n, name, sm, query) ==
    LET kind  == KindOf(d[n].type)
        texts == QueryTexts(query, name)
        props == QueryProps(name, sm, query)
    IN  IF kind = "object"
        THEN IF sm.style = "form" /\ ~sm.explode /\ texts = <<>> THEN {Gives(NilOf(kind))}
             ELSE IF props = None
             THEN {IF sm.style = "deepObject" THEN Gives(NilOf(kind)) ELSE Fails(NilOf(kind))}
             ELSE MakeObject(d, n, props)
        ELSE IF texts = <<>> THEN {Gives(NilOf(kind))}
        ELSE IF kind = "primitive" THEN {ParsePrimitive(d, n, texts[1])}
        ELSE ParseArray(d, n, IF sm.explode THEN texts
                              ELSE Split(texts[1], ItemDelimiter(sm.style)))

-----------------------------------------------------------------------------
(* decodeValue: the schema says what to look for.                           *)

\* What the alternatives of anyOf and oneOf come to, tried in turn: their
\* errors are dropped, and so are those that give nil.
Tried(R) == {IF r.err = "panic" THEN r ELSE Gives(r.v) : r \in R}
Found(outs) ==
    FoldLeft(LAMBDA F, R : {f \o SelectSeq(<<r>>, LAMBDA x : x # Gives(Null)) : f \in F, r \in Tried(R)},
             {<<>>}, outs)

\* oneOf takes what was found if there is just one.
OnlyOne(f) ==
    IF \E i \in DOMAIN f : f[i].err = "panic" THEN Panics ELSE IF Len(f) = 1 THEN f[1] ELSE Fails(Null)

\* The results of the alternatives, one after the other; those of allOf
\* until one gives nil or an error.
Combined(s, outs, nothing) ==
    LET Settled(r) == r.v = Null \/ r.err # "none"
    IN  CASE s.allOf # <<>> ->
               FoldLeft(LAMBDA R, Q : {r \in R : Settled(r)} \cup
                                      (IF \A r \in R : Settled(r) THEN {} ELSE Q),
                        outs[1], Tail(outs))
          [] s.allOf = <<>> /\ s.anyOf # <<>> ->
               {IF f = <<>> THEN nothing ELSE f[1] : f \in Found(outs)}
          [] s.allOf \o s.anyOf = <<>> /\ s.oneOf # <<>> ->
               {IF f = <<>> THEN nothing ELSE OnlyOne(f) : f \in Found(outs)}

DecodeValue(d, n, in, name, sm, source, required) ==
    LET value[m \in DOMAIN d] ==
            LET s  == d[m]
                of == IF s.allOf # <<>> THEN s.allOf ELSE IF s.anyOf # <<>> THEN s.anyOf ELSE s.oneOf
            IN  IF of # <<>>
                THEN Combined(s, [i \in DOMAIN of |-> value[of[i]]],
                              IF required THEN Fails(Null) ELSE Gives(Null))
                ELSE IF s.not # None THEN {Fails(Null)}
                ELSE IF s.type = "" THEN {Gives(Null)}
                ELSE IF ~Takes(in, sm, KindOf(s.type)) THEN {Fails(NilOf(KindOf(s.type)))}
                ELSE IF in = "query" THEN DecodeQuery(d, m, name, sm, source.query)
                ELSE DecodeText(d, m, in, name, sm, source)
    IN  value[n]

\* decodeStyledParameter
DecodeStyled(d, p, source) ==
    IF p.in \in {"path", "query"} /\ DOMAIN source[p.in] = {} THEN {Gives(Null)}
    ELSE DecodeValue(d, p.schema, p.in, p.name, MethodOf(p), source, p.required)

-----------------------------------------------------------------------------
(* Content.  A media type is a text; content maps media ranges to           *)
(* [schema, encoding].                                                      *)

JSON == <<"application", "/", "json">>

\* MUTANT: the wildcard before the range of the type.
ContentGet_Wild(content, mime) ==
    LET bare   == Before(mime, ";")
        ranges == <<mime, <<"*", "/", "*">>, bare>>
        hits   == SelectSeq(ranges, LAMBDA r : r \in DOMAIN content)
    IN  IF hits = <<>> THEN None ELSE content[hits[1]]

\* Content.Get: the most specific first; a type without "/" matches no
\* wildcard, an empty one nothing else.
ContentGet(content, mime) ==
    LET bare   == Before(mime, ";")
        anyOf  == <<"*", "/", "*">>
        ranges == CASE mime = <<>> -> <<anyOf>>
                    [] mime # <<>> /\ "/" \notin ToSet(bare) -> <<mime, bare>>
                    [] OTHER -> <<mime, bare, Before(bare, "/") \o <<"/", "*">>, anyOf>>
        hits   == SelectSeq(ranges, LAMBDA r : r \in DOMAIN content)
    IN  IF hits = <<>> THEN None ELSE content[hits[1]]

\* decodeContentParameter and defaultContentParameterDecoder.  A parameter
\* of the path is read but never found.
DecodeContent(p, source) ==
    LET texts == CASE p.in = "path"  -> <<>>
                   [] p.in = "query" -> QueryTexts(source.query, p.name)
                   [] OTHER -> LET raw == Raw(source, p.in, p.name)
                               IN  IF raw = None \/ (p.in = "header" /\ raw = <<>>) THEN <<>> ELSE <<raw>>
        media  == ContentGet(p.content, JSON)
        values == [i \in DOMAIN texts |-> String(texts[i])]
    IN  IF texts = <<>> THEN IF p.required THEN Fails(Null) ELSE Gives(Null)
        ELSE IF Cardinality(DOMAIN p.content) # 1 \/ media = None THEN Fails(Null)
        ELSE IF media.schema = None THEN Panics
        ELSE IF ~(ToSet(values) \subseteq DOMAIN ParseJSON) THEN Fails(Null)
        ELSE IF Len(values) = 1 THEN Gives(ParseJSON[values[1]])
        ELSE Gives(Arr([i \in DOMAIN values |-> ParseJSON[values[i]]]))

-----------------------------------------------------------------------------
(* Bodies.  A body is [text, args, parts]: its text, what fasthttp's Args   *)
(* make of it, and what mime/multipart makes of it, a sequence of           *)
(* [name, mime, body], None if it cannot.  A result has the further field   *)
(* `fast`, whether the value is fastjson's.                                 *)

\* The choices of one value for each key out of a function of sets.
Selections(F) == {f \in [DOMAIN F -> UNION {F[k] : k \in DOMAIN F}] : \A k \in DOMAIN F : f[k] \in F[k]}
ObjOf(f) == LET ks == SetToSeq(DOMAIN f) IN Obj([i \in DOMAIN ks |-> [k |-> ks[i], v |-> f[ks[i]]]])

DefaultBody(d, n, text) ==
    CASE d[n].type = "object" -> Gives(Obj(<<>>))
      [] d[n].type = "null"   -> Gives(Null)
      [] d[n].type \in {"integer", "number", "boolean", "array"} -> Fails(Null)
      [] OTHER                -> Gives(Str(text))

EncodingOf(encoding, k) == IF k \in DOMAIN encoding THEN encoding[k] ELSE None

\* An object of decoded properties, or the error of one of them.
ObjectsOf(each) ==
    LET good == [k \in DOMAIN each |-> {r.v : r \in {x \in each[k] : x.err = "none"}}]
    IN  {[r EXCEPT !.v = Null] : r \in {x \in UNION {each[k] : k \in DOMAIN each} : x.err # "none"}}
        \cup {Gives(ObjOf(f)) : f \in Selections(good)}

\* urlencodedBodyDecoder: no objects within, arrays of primitives only; a
\* property that was not sent is set to nil.
UrlencodedBody(d, n, args, encoding) ==
    LET props == d[n].properties
        flat(m) == /\ d[m].type # "object"
                   /\ d[m].type = "array" =>
                        d[d[m].items].type \in {"string", "integer", "number", "boolean"}
        source == [query |-> args]
    IN  IF d[n].type # "object" \/ ~(\A k \in DOMAIN props : flat(props[k])) THEN {Fails(Null)}
        ELSE ObjectsOf([k \in DOMAIN props |->
                 DecodeValue(d, props[k], "query", k, EncodingMethod(EncodingOf(encoding, k)), source, FALSE)])

\* multipartBodyDecoder: the schema of a part, None for one that is not
\* allowed and "" for one that is skipped.
PartSchema(d, n, name) ==
    LET s == d[n]
        more == s.additional # None /\ name \in DOMAIN d[s.additional].properties
    IN  CASE name \in DOMAIN s.properties -> s.properties[name]
          [] name \notin DOMAIN s.properties /\ s.additionalAllowed = TRUE -> ""
          [] name \notin DOMAIN s.properties /\ s.additionalAllowed = None /\ more ->
               d[s.additional].properties[name]
          [] OTHER -> None
\* and of the property its values become; the additional schema's first.
PropertySchema(d, n, name) ==
    LET s == d[n]
    IN  IF s.additional # None /\ name \in DOMAIN d[s.additional].properties
        THEN d[s.additional].properties[name] ELSE s.properties[name]

\* The calls of decodeBody for the parts of a body: one for each part, with
\* the body within it and one encoding for all of its properties.
Bodies ==
    LET upTo[k \in 0..MaxNesting] ==
            [text : Seq(STRING), args : Seq(Seq(STRING) \X Seq(STRING)),
             parts : {None} \cup
                 IF k = 0 THEN {} ELSE Seq([name : STRING, mime : Seq(STRING), body : upTo[k - 1]])]
    IN  upTo[MaxNesting]
PartCall(n, mime, body, encoding) == [schema |-> n, mime |-> mime, body |-> body, encoding |-> encoding]
PartCalls(d, encoding) ==
    LET encodings == {None} \cup {encoding[k] : k \in DOMAIN encoding}
    IN  [schema : DOMAIN d, mime : Seq(STRING), body : Bodies,
         encoding : UNION {[DOMAIN d[n].properties -> encodings] : n \in DOMAIN d}]
PartOf(d, n, part, encoding) ==
    LET m == PartSchema(d, n, part.name)
        item == IF d[m].type = "array" THEN d[m].items ELSE m
    IN  PartCall(item, IF part.mime = <<>> THEN <<"text", "/", "plain">> ELSE part.mime, part.body,
                 [k \in DOMAIN d[item].properties |-> EncodingOf(encoding, part.name)])

\* One part after the other; the value of a part becomes one more under its name.
MultipartBody(d, n, parts, results) ==
    LET add(vs, j) ==
            LET m == PartSchema(d, n, parts[j].name)
            IN  IF m = None THEN {Fails(Null)}
                ELSE IF m = "" THEN {Gives(vs)}
                ELSE {IF r.err # "none" THEN [r EXCEPT !.v = Null]
                      ELSE Gives(Append(vs, <<parts[j].name, IF r.fast THEN [t |-> "raw"] ELSE r.v>>)) :
                      r \in results[j]}
        all == FoldLeft(LAMBDA R, j : UNION {IF r.err # "none" THEN {r} ELSE add(r.v, j) : r \in R},
                        {Gives(<<>>)}, [j \in DOMAIN parts |-> j])
        of(vs, k) == LET mine == SelectSeq(vs, LAMBDA x : x[1] = k)
                     IN  IF d[PropertySchema(d, n, k)].type = "array"
                         THEN Arr([i \in DOMAIN mine |-> mine[i][2]]) ELSE mine[1][2]
    IN  IF d[n].type # "object" \/ parts = None THEN {Fails(Null)}
        ELSE {IF r.err # "none" THEN r
              ELSE Gives(ObjOf([k \in {r.v[i][1] : i \in DOMAIN r.v} |-> of(r.v, k)])) : r \in all}

\* parseMediaType
MediaType(mime) == Before(mime, ";")

\* One call, with the results of those for its parts.
BodyResults(d, c, results) ==
    LET media == MediaType(c.mime)
        text  == c.body.text
        slow(R) == {[v |-> r.v, err |-> r.err, fast |-> FALSE] : r \in R}
    IN  CASE media \in {JSON, <<"application", "/", "problem+json">>} ->
               {IF String(text) \in DOMAIN ParseJSON
                THEN [v |-> ParseJSON[String(text)], err |-> "none", fast |-> TRUE]
                ELSE [v |-> Null, err |-> "decode", fast |-> FALSE]}
          [] media \in {<<"text", "/", "plain">>, <<"application", "/", "octet-stream">>} ->
               slow({Gives(Str(text))})
          [] media = <<"application", "/", "x-www-form-urlencoded">> ->
               slow(UrlencodedBody(d, c.schema, c.body.args, c.encoding))
          [] media = <<"multipart", "/", "form-data">> ->
               slow(MultipartBody(d, c.schema, c.body.parts, results))
          [] OTHER -> slow({DefaultBody(d, c.schema, text)})

DecodeBody(d, n, mime, body, encoding) ==
    LET call == PartCall(n, mime, body, encoding)
        decoded[c \in PartCalls(d, encoding) \cup {call}] ==
            BodyResults(d, c, [j \in DOMAIN c.body.parts |->
                                  decoded[PartOf(d, c.schema, c.body.parts[j], c.encoding)]])
    IN  decoded[call]
=============================================================================
