----------------------------- MODULE Conformance -------------------------------
(***************************************************************************)
(* What a schema asks of a value, keyword by keyword: what the visits of   *)
(* Schema are held against.  Three habits of the code are taken as its     *)
(* dialect: null conforms exactly if the schema itself is nullable, an     *)
(* enum stands alone among the set operations, and a schema without a      *)
(* keyword here or below says nothing, also under not and oneOf.           *)
(***************************************************************************)
EXTENDS Schema, Closures

\* The discriminator names at most one of the items, by the text of a property.
Chosen(s, v, item) ==
    LET disc == s.discriminator
        text == FastString(Member(v, disc.prop))
    IN  \/ disc = None
        \/ /\ v.t = "obj"
           /\ disc.prop \in KeysOf(v)
           /\ text \in DOMAIN disc.mapping
           /\ disc.mapping[text] = item

HasType(s, v) ==
    CASE s.type = ""        -> TRUE
      [] s.type = "boolean" -> v.t = "bool"
      [] s.type = "number"  -> v.t = "num"
      [] s.type = "integer" -> v.t = "num" /\ v.n % 2 = 0
      [] s.type = "string"  -> v.t = "str"
      [] s.type = "array"   -> v.t = "arr"
      [] s.type = "object"  -> v.t = "obj"
      [] OTHER              -> FALSE

NumberConforms(s, v) ==
    /\ s.min # None => s.min <= v.n
    /\ s.max # None => v.n <= s.max
    /\ s.exclusiveMin => s.min # v.n
    /\ s.exclusiveMax => s.max # v.n
    /\ s.multipleOf # None => \E q \in -Abs(v.n)..Abs(v.n) : q * s.multipleOf = v.n

TextConforms(s, v) ==
    /\ StrLen[v.s] >= s.minLength
    /\ s.maxLength # None => StrLen[v.s] <= s.maxLength
    /\ s.pattern # "" => <<s.pattern, v.s>> \in Matches
    /\ <<s.format, v.s>> \notin BadFormat

\* The calls below one call: another schema for the same value, or for a part
\* of it.  A schema that asks for itself asks for nothing that can be met.
Asks(d) == [schema : DOMAIN d, value : Universe, above : SUBSET DOMAIN d]
Ask(n, v) == [schema |-> n, value |-> v, above |-> {}]
AskAlso(c, m) == [c EXCEPT !.schema = m, !.above = @ \cup {c.schema}]

OperandsConform(conforms, d, c) ==
    LET s == d[c.schema]
        Also(m) == conforms[AskAlso(c, m)]
    IN  IF s.enum # <<>> THEN c.value \in ToSet(s.enum)
        ELSE /\ s.not # None => ~Also(s.not)
             /\ s.oneOf # <<>> =>
                   Cardinality({i \in DOMAIN s.oneOf :
                       Also(s.oneOf[i]) /\ Chosen(s, c.value, s.oneOf[i])}) = 1
             /\ s.anyOf # <<>> => \E i \in DOMAIN s.anyOf : Also(s.anyOf[i])
             /\ \A i \in DOMAIN s.allOf : Also(s.allOf[i])

ItemsConform(conforms, s, v) ==
    /\ Len(v.items) >= s.minItems
    /\ s.maxItems # None => Len(v.items) <= s.maxItems
    /\ s.uniqueItems => \A i, j \in DOMAIN v.items : v.items[i] = v.items[j] => i = j
    /\ s.items # None => \A i \in DOMAIN v.items : conforms[Ask(s.items, v.items[i])]

MemberConforms(conforms, s, p) ==
    IF p.k \in DOMAIN s.properties THEN conforms[Ask(s.properties[p.k], p.v)]
    ELSE IF s.additional # None THEN conforms[Ask(s.additional, p.v)]
    ELSE s.additionalAllowed # FALSE

ObjectConforms(conforms, d, s, v, mode) ==
    /\ Len(v.pairs) >= s.minProps
    /\ s.maxProps # None => Len(v.pairs) <= s.maxProps
    /\ \A i \in DOMAIN v.pairs : MemberConforms(conforms, s, v.pairs[i])
    /\ \A i \in DOMAIN s.required :
          LET k == s.required[i]
          IN  \/ \E j \in DOMAIN v.pairs : v.pairs[j].k = k
              \/ /\ k \in DOMAIN s.properties
                 /\ \/ d[s.properties[k]].readOnly /\ mode.asreq
                    \/ d[s.properties[k]].writeOnly /\ mode.asrep

ConformsIn(conforms, d, c, mode) ==
    LET s == d[c.schema]
        v == c.value
    IN  IF c.schema \in c.above THEN FALSE
        ELSE IF v.t = "null" THEN s.nullable
        ELSE /\ v.t \notin {"nan", "inf"}
             /\ \/ Emptiness(d, c.schema) = {OK}
                \/ /\ v.t # "raw"
                   /\ OperandsConform(conforms, d, c)
                   /\ HasType(s, v)
                   /\ v.t = "num" => NumberConforms(s, v)
                   /\ v.t = "str" => TextConforms(s, v)
                   /\ v.t = "arr" => ItemsConform(conforms, s, v)
                   /\ v.t = "obj" => ObjectConforms(conforms, d, s, v, mode)

ConformCalls(d, mode) ==
    LET conforms[c \in Asks(d)] == ConformsIn(conforms, d, c, mode) IN conforms
Conforms(d, n, v, mode) == ConformCalls(d, mode)[Ask(n, v)]

-----------------------------------------------------------------------------
\* What the schemas of a document refer to, and what one value is visited by.
ToChildren(d) == [n \in DOMAIN d |-> Children(d[n])]
ToOperands(d) == [n \in DOMAIN d |-> Operands(d[n])]

\* The parts of a value, each with the path that leads to it.
Places[v \in Universe] ==
    LET Under(step, x) == {<<<<step>> \o p[1], p[2]>> : p \in Places[x]}
    IN  {<<<<>>, v>>} \cup
        CASE v.t = "arr" -> UNION {Under(ToString(i - 1), v.items[i]) : i \in DOMAIN v.items}
          [] v.t = "obj" -> UNION {Under(v.pairs[i].k, v.pairs[i].v) : i \in DOMAIN v.pairs}
          [] OTHER       -> {}

Has(v, kinds) == \E p \in Places[v] : p[2].t \in kinds

\* The path of an error: that of a missing property ends beside the value.
Leads(v, path, toMissing) ==
    \E p \in Places[v] :
        \/ path = p[1]
        \/ /\ toMissing
           /\ p[2].t = "obj"
           /\ path # <<>> /\ p[1] = Front(path) /\ Last(path) \notin KeysOf(p[2])

=============================================================================
