--------------------------------- MODULE Schema ---------------------------------
(***************************************************************************)
(* openapi3/schema.go: Schema.IsEmpty, Schema.validate and the two         *)
(* visitors, visitJSON for decoded Go values and visitFastJSON for what    *)
(* fastjson has parsed; the second is a copy of the first that has drifted *)
(* from it.                                                                *)
(*                                                                         *)
(* A document maps schema names to schemas and a schema names its          *)
(* sub-schemas, so that $ref, and a schema that refers to itself, need     *)
(* nothing of their own.  The references are resolved: the loader's work.  *)
(*                                                                         *)
(* A visit ends with an outcome: the set of errors it returns, {} for nil. *)
(* Visiting an object ranges over a Go map in any order, so an operator    *)
(* that models a visit gives the SET of outcomes the visit may have.  The  *)
(* settings of a visit are its `mode`.                                     *)
(***************************************************************************)
EXTENDS Integers, Sequences, FiniteSets, SequencesExt

CONSTANTS
    None,         \* a pointer that is nil, a keyword that is absent
    MaxNesting,   \* how deep values nest: fastjson reads no more than 300 levels
    StrLen,       \* the length of each string, in UTF-16 units
    Matches,      \* pairs <<pattern, string>>: the pattern compiles and matches
    BadFormat     \* pairs <<format, string>>: a registered format rejects it

ASSUME SchemaAssumption ==
    /\ MaxNesting \in Nat
    /\ StrLen \in [DOMAIN StrLen -> Nat]

\* &Schema{}: no keyword is set.
Anything ==
    [type |-> "", format |-> "", enum |-> <<>>, nullable |-> FALSE,
     readOnly |-> FALSE, writeOnly |-> FALSE, allowEmptyValue |-> FALSE,
     min |-> None, max |-> None, exclusiveMin |-> FALSE, exclusiveMax |-> FALSE,
     multipleOf |-> None, minLength |-> 0, maxLength |-> None, pattern |-> "",
     minItems |-> 0, maxItems |-> None, uniqueItems |-> FALSE, items |-> None,
     properties |-> <<>>, additional |-> None, additionalAllowed |-> None,
     required |-> <<>>, minProps |-> 0, maxProps |-> None,
     not |-> None, oneOf |-> <<>>, anyOf |-> <<>>, allOf |-> <<>>,
     discriminator |-> None]

\* schemaValidationSettings; the options set asreq and asrep exclusively.
Settings == {m \in [failfast : BOOLEAN, multiError : BOOLEAN, asreq : BOOLEAN, asrep : BOOLEAN] :
                ~(m.asreq /\ m.asrep)}

-----------------------------------------------------------------------------
(* Values: [t |-> kind, ...].  Numbers, and the bounds schemas put on them, *)
(* are counted in halves, so that 3 is 1.5: what is odd is no integer.      *)

\* "raw" is a fastjson value inside a decoded one, as the JSON part of a
\* multipart body is: visitJSON knows no such type.
Kinds == {"null", "bool", "num", "nan", "inf", "str", "arr", "obj", "raw"}

Scalars ==
    [t : Kinds \ {"num", "str", "arr", "obj"}]
    \cup [t : {"num"}, n : Int] \cup [t : {"str"}, s : DOMAIN StrLen]

\* The values that nest at most k deep.
Nested[k \in 0..MaxNesting] ==
    IF k = 0 THEN Scalars
    ELSE Scalars \cup [t : {"arr"}, items : Seq(Nested[k - 1])]
                 \cup [t : {"obj"}, pairs : Seq([k : STRING, v : Nested[k - 1]])]
Universe == Nested[MaxNesting]

TypeOf(v) ==
    CASE v.t = "bool" -> "boolean"
      [] v.t = "str"  -> "string"
      [] v.t = "arr"  -> "array"
      [] v.t = "obj"  -> "object"
      [] OTHER        -> "number"

KeysOf(o) == {o.pairs[i].k : i \in DOMAIN o.pairs}

\* fastjson's Get, the first pair of that key; a Go map has no other.
Member(o, k) == o.pairs[CHOOSE i \in DOMAIN o.pairs :
                            /\ o.pairs[i].k = k
                            /\ \A j \in 1..(i - 1) : o.pairs[j].k # k].v

\* GetStringBytes: empty for everything that is no string.
FastString(v) == IF v.t = "str" THEN v.s ELSE ""

IsInt(v)    == v.t = "num" /\ v.n % 2 = 0
Abs(n)      == IF n < 0 THEN -n ELSE n
Less(b, v)  == v.t = "inf" \/ (v.t = "num" /\ b < v.n)
AtMost(b, v)   == v.t = "inf" \/ (v.t = "num" /\ b <= v.n)
More(b, v)  == v.t = "num" /\ b > v.n
AtLeast(b, v)  == v.t = "num" /\ b >= v.n

-----------------------------------------------------------------------------
(* Outcomes.                                                                *)

OK == {}
Error(f)  == [path |-> <<>>, field |-> f]
ErrSchema == Error("schema")
Panic     == {Error("panic")}      \* a run-time panic: mid.Panics makes an error of it
Overflow  == {Error("overflow")}   \* the stack is exhausted: the process dies
Dead(o)   == o \cap (Panic \cup Overflow) # {}

\* errors.go: the sentinel errors are no *SchemaError and carry no path.
Unmarked == {"schema", "NaN", "Inf", "panic", "overflow"}

\* MUTANT: the reversed path is never turned round.
Mark_Reversed(step, o) ==
    {IF e.field \in Unmarked THEN e ELSE [e EXCEPT !.path = @ \o <<step>>] : e \in o}

\* markSchemaErrorKey, markSchemaErrorIndex
Mark(step, o) ==
    {IF e.field \in Unmarked THEN e ELSE [e EXCEPT !.path = <<step>> \o @] : e \in o}

\* Every keyword reports alike: at the first violation failfast and single
\* mode return, multi-error mode appends and goes on.  `errs` is the
\* sequence of the violations in the order the code meets them.
Collects(mode) == mode.multiError /\ ~mode.failfast

\* A check of a keyword: the error it reports and whether it is violated.
Check(f, violated) == <<Error(f), violated>>
Violations(checks) == {i \in DOMAIN checks : checks[i][2]}

\* MUTANT: `me` is overwritten instead of appended to.
Report_LastOnly(mode, checks) ==
    LET bad   == Violations(checks)
        first == {checks[Min(bad)][1]}
    IN  IF bad = {} THEN OK
        ELSE IF Dead(first) THEN first
        ELSE IF mode.failfast THEN {ErrSchema}
        ELSE IF Collects(mode) THEN {checks[Max(bad)][1]}
        ELSE first

\* `checks` are in the order in which the code makes them.
Report(mode, checks) ==
    LET bad   == Violations(checks)
        first == {checks[Min(bad)][1]}
    IN  IF bad = {} THEN OK
        ELSE IF Dead(first) THEN first
        ELSE IF mode.failfast THEN {ErrSchema}
        ELSE IF Collects(mode) THEN {checks[i][1] : i \in bad}
        ELSE first
Failing(mode, f) == Report(mode, <<Check(f, TRUE)>>)

\* One outcome of each visit, out of the outcomes it may have.
Picks(outs) == {pick \in [DOMAIN outs -> UNION {outs[i] : i \in DOMAIN outs}] :
                   \A i \in DOMAIN outs : pick[i] \in outs[i]}

\* First O, then P: an error of O returns, unless errors are collected.
Then(collects, O, P) ==
    IF collects THEN {a \cup b : a \in O, b \in P}
                ELSE (O \ {OK}) \cup (IF OK \in O THEN P ELSE {})

\* Visits whose errors are all collected; visits that stop at the first
\* error, one after the other and in any order (a range over a Go map).
All(outs) == {UNION {pick[i] : i \in DOMAIN outs} : pick \in Picks(outs)}
NoneFails(outs) == {o \in {OK} : \A i \in DOMAIN outs : OK \in outs[i]}
InOrder(collects, outs) ==
    IF collects THEN All(outs)
    ELSE NoneFails(outs)
         \cup UNION {outs[i] \ {OK} : i \in {j \in DOMAIN outs : \A k \in 1..(j - 1) : OK \in outs[k]}}
AnyOrder(collects, outs) ==
    IF collects THEN All(outs)
    ELSE NoneFails(outs) \cup UNION {outs[i] \ {OK} : i \in DOMAIN outs}

\* A row of visits comes to `o`, unless one of them dies.
Surviving(pick, o) ==
    LET dead == {i \in DOMAIN pick : Dead(pick[i])}
    IN  IF dead = {} THEN o ELSE pick[Min(dead)]

\* MUTANT: the callback assigns what the member's visit returned, nil too.
LastWins_NilToo(outs) ==
    {Surviving(pick, IF pick = <<>> THEN OK ELSE pick[Len(pick)]) : pick \in Picks(outs)}

\* The errors visitFastJSONObject's callback leaves in reqValidationErr:
\* there is no return from the callback, a later error replaces an earlier.
LastWins(outs) ==
    LET left(pick) == LET errs == {i \in DOMAIN pick : pick[i] # OK}
                      IN  IF errs = {} THEN OK ELSE pick[Max(errs)]
    IN  {Surviving(pick, left(pick)) : pick \in Picks(outs)}

-----------------------------------------------------------------------------
(* IsEmpty: no keyword set, here or below.  It follows references without   *)
(* remembering where it has been: coming back to a schema on the way down   *)
(* it never ends.  Properties are ranged over in any order.                 *)

OwnKeyword(s) ==
    \/ s.type # "" \/ s.format # "" \/ s.enum # <<>>
    \/ s.uniqueItems \/ s.exclusiveMin \/ s.exclusiveMax
    \/ s.nullable \/ s.readOnly \/ s.writeOnly \/ s.allowEmptyValue
    \/ s.min # None \/ s.max # None \/ s.multipleOf # None
    \/ s.minLength # 0 \/ s.maxLength # None \/ s.pattern # ""
    \/ s.minItems # 0 \/ s.maxItems # None
    \/ s.required # <<>> \/ s.minProps # 0 \/ s.maxProps # None

Given(n) == {n} \ {None}
PropertySchemas(s) == {s.properties[k] : k \in DOMAIN s.properties}

\* What the value itself is visited by, too, and all that a schema refers to.
Operands(s) == Given(s.not) \cup ToSet(s.oneOf) \cup ToSet(s.anyOf) \cup ToSet(s.allOf)
Children(s) == Operands(s) \cup PropertySchemas(s) \cup Given(s.items) \cup Given(s.additional)

\* The calls of a recursion over the schemas of d: `above` are those whose
\* call waits for this one.
Frames(d) == [schema : DOMAIN d, above : SUBSET DOMAIN d]
Frame(n, above) == [schema |-> n, above |-> above]
Callee(c, m) == Frame(m, c.above \cup {c.schema})

\* The answers IsEmpty may give, as outcomes: {} is "empty", "set" is not.
NotEmpty == {Error("set")}
EmptinessOf(answers, d, c) ==
    LET s == d[c.schema]
        Of(m)      == answers[Callee(c, m)]
        Maybe(m)   == IF m = None THEN {OK} ELSE Of(m)
        Each(ms)   == [i \in DOMAIN ms |-> Of(ms[i])]
        First(O, P) == Then(FALSE, O, P)
    IN  IF c.schema \in c.above THEN {Overflow}
        ELSE IF OwnKeyword(s) THEN {NotEmpty}
        ELSE First(Maybe(s.not), First(Maybe(s.additional),
             First({IF s.additionalAllowed = FALSE THEN NotEmpty ELSE OK},
             First(Maybe(s.items), First(AnyOrder(FALSE, Each(s.properties)),
             First(InOrder(FALSE, Each(s.oneOf)), First(InOrder(FALSE, Each(s.anyOf)),
                   InOrder(FALSE, Each(s.allOf)))))))))
EmptyCalls(d) == LET answers[c \in Frames(d)] == EmptinessOf(answers, d, c) IN answers
Emptiness(d, n) == EmptyCalls(d)[Frame(n, {})]

-----------------------------------------------------------------------------
(* Schema.Validate, at load: `err` is set by every sub-schema that is       *)
(* validated, and what the last one left is returned.                       *)

\* MUTANT: an array may leave out its items.
TypeSupported_NoItems(s) ==
    \/ s.type \in {"", "boolean", "object", "array"}
    \/ s.type \in {"number", "integer", "string"} /\ s.format # "unknown"

TypeSupported(s) ==
    CASE s.type \in {"number", "integer", "string"} -> s.format # "unknown"
      [] s.type = "array"                           -> s.items # None
      [] OTHER                                      -> s.type \in {"", "boolean", "object"}

ValidityOf(valid, d, c) ==
    LET s == d[c.schema]
        Valid(m) == valid[Callee(c, m)]
        before == ToSet(s.anyOf) \cup ToSet(s.allOf) \cup Given(s.not)
        after  == Given(s.items) \cup PropertySchemas(s) \cup Given(s.additional)
    IN  \/ c.schema \in c.above
        \/ /\ ~(s.readOnly /\ s.writeOnly)
           /\ \/ \E m \in ToSet(s.oneOf) : Valid(m)
              \/ /\ \A m \in before : Valid(m)
                 /\ TypeSupported(s)
                 /\ \A m \in after : Valid(m)
                 /\ s.oneOf = <<>> \/ before \cup after # {}
ValidCalls(d) == LET valid[c \in Frames(d)] == ValidityOf(valid, d, c) IN valid
ValidSchema(d, n) == ValidCalls(d)[Frame(n, {})]

-----------------------------------------------------------------------------
(* The keywords of one kind of value.                                       *)

WrongType(s, v) == s.type \notin {"", TypeOf(v)}

VisitNull(s, mode) == Report(mode, <<Check("nullable", ~s.nullable)>>)
VisitBoolean(s, v, mode) == Report(mode, <<Check("type", WrongType(s, v))>>)

\* big.NewFloat panics on NaN, 0/0 included, and so does the dereference of
\* a bound that exclusiveMinimum or exclusiveMaximum takes for granted.
NumberChecks(s, v) ==
    LET divides == v.t = "num" /\ s.multipleOf # 0 /\ v.n % Abs(s.multipleOf) = 0
        isNaN   == v.t = "nan" \/ (v.t = "num" /\ v.n = 0 /\ s.multipleOf = 0)
    IN  <<Check("panic", s.type = "integer" /\ v.t = "nan"),
          Check("integer", s.type = "integer" /\ ~IsInt(v)),
          Check("panic", s.exclusiveMin /\ s.min = None),
          Check("exclusiveMinimum", s.exclusiveMin /\ s.min # None /\ ~Less(s.min, v)),
          Check("panic", s.exclusiveMax /\ s.max = None),
          Check("exclusiveMaximum", s.exclusiveMax /\ s.max # None /\ ~More(s.max, v)),
          Check("minimum", s.min # None /\ ~AtMost(s.min, v)),
          Check("maximum", s.max # None /\ ~AtLeast(s.max, v)),
          Check("panic", s.multipleOf # None /\ isNaN),
          Check("multipleOf", s.multipleOf # None /\ ~divides)>>

VisitNumber(s, v, mode) ==
    IF s.type \notin {"", "integer", "number"} THEN Failing(mode, "type")
    ELSE Report(mode, NumberChecks(s, v))

\* A violation of a value's own keywords returns, in single mode or under
\* failfast, before what comes next is looked at.
Stops(own, mode) == own # OK /\ ~Collects(mode)

Quiet(mode) == [mode EXCEPT !.failfast = TRUE]
Loud(mode)  == [mode EXCEPT !.failfast = FALSE]

\* pattern and format do not look at failfast: they report as themselves.
LengthChecks(s, v) ==
    <<Check("minLength", s.minLength # 0 /\ StrLen[v.s] < s.minLength),
      Check("maxLength", s.maxLength # None /\ StrLen[v.s] > s.maxLength)>>
TextChecks(s, v) ==
    <<Check("pattern", s.pattern # "" /\ <<s.pattern, v.s>> \notin Matches),
      Check("format", <<s.format, v.s>> \in BadFormat)>>

VisitString(s, v, mode) ==
    LET lengths == Report(mode, LengthChecks(s, v))
    IN  IF WrongType(s, v) THEN Failing(mode, "type")
        ELSE IF Stops(lengths, mode) THEN lengths
        ELSE lengths \cup Report(Loud(mode), TextChecks(s, v))

\* Both unique-items checks compare the printed items.
ArrayChecks(s, v) ==
    LET n == Len(v.items)
    IN  <<Check("minItems", s.minItems # 0 /\ n < s.minItems),
          Check("maxItems", s.maxItems # None /\ n > s.maxItems),
          Check("uniqueItems", s.uniqueItems /\ Cardinality(ToSet(v.items)) # n)>>

PropertyCountChecks(s, v) ==
    LET n == Len(v.pairs)
    IN  <<Check("minProperties", s.minProps # 0 /\ n < s.minProps),
          Check("maxProperties", s.maxProps # None /\ n > s.maxProps)>>

\* A required property may be missing from a request if it is read-only,
\* from a response if it is write-only.
Exempt(d, s, k, mode) ==
    /\ k \in DOMAIN s.properties
    /\ \/ d[s.properties[k]].readOnly /\ mode.asreq
       \/ d[s.properties[k]].writeOnly /\ mode.asrep
Missing(k) == [path |-> <<k>>, field |-> "required"]
RequiredChecks(d, s, v, mode) ==
    [i \in DOMAIN s.required |->
        LET k == s.required[i]
        IN  <<Missing(k), k \notin KeysOf(v) /\ ~Exempt(d, s, k, mode)>>]

-----------------------------------------------------------------------------
(* enum, not, oneOf, anyOf, allOf.                                          *)

\* Comparing two maps or two slices as interfaces panics; visitFastJSON
\* compares the string of the value, empty for what is no string.
InEnum(fast, s, v) ==
    \E i \in DOMAIN s.enum :
        IF fast THEN s.enum[i].t = "str" /\ s.enum[i].s = FastString(v)
        ELSE s.enum[i].t = v.t /\ (v.t \in {"arr", "obj"} \/ s.enum[i] = v)

\* MUTANT: the fast visitor compares decoded values too.
EnumOutcome_Decoded(fast, s, v, mode) ==
    IF ~InEnum(FALSE, s, v) THEN Failing(mode, "enum")
    ELSE IF v.t \in {"arr", "obj"} THEN Panic ELSE OK

EnumOutcome(fast, s, v, mode) ==
    IF ~InEnum(fast, s, v) THEN Failing(mode, "enum")
    ELSE IF ~fast /\ v.t \in {"arr", "obj"} THEN Panic ELSE OK

\* What an item of oneOf that has come to `o` counts for: the discriminator
\* has to name an item that accepts.  discriminatorVal.(string) may panic.
Counted(fast, s, v, item, o) ==
    LET disc  == s.discriminator
        named == Member(v, disc.prop)
        Names(text) == text \in DOMAIN disc.mapping /\ disc.mapping[text] = item
        skipped == {Error("discriminator")}
    IN  IF o # OK \/ disc = None THEN o
        ELSE IF v.t # "obj" \/ disc.prop \notin KeysOf(v) THEN skipped
        ELSE IF ~fast /\ named.t # "str" THEN Panic
        ELSE IF Names(FastString(named)) THEN OK ELSE skipped

NotOutcome(o, mode) ==
    IF Dead(o) THEN o ELSE IF o = OK THEN Failing(mode, "not") ELSE OK
\* MUTANT: one or more will do.
OneOfOutcome_SomeOf(n, mode) == IF n > 0 THEN OK ELSE Failing(mode, "oneOf")
OneOfOutcome(n, mode) ==
    IF n = 1 THEN OK ELSE Failing(mode, IF n > 1 THEN "oneOf conflict" ELSE "oneOf")
OneOf(outs, mode) ==
    {Surviving(pick, OneOfOutcome(Cardinality({i \in DOMAIN pick : pick[i] = OK}), mode)) :
        pick \in Picks(outs)}

\* The items of anyOf are tried up to the first that accepts.
AnyOf(outs, mode) ==
    LET tried(pick) == {i \in DOMAIN pick : \A j \in 1..(i - 1) : pick[j] # OK}
    IN  {Surviving([i \in tried(pick) |-> pick[i]],
                   IF \E i \in DOMAIN pick : pick[i] = OK THEN OK ELSE Failing(mode, "anyOf")) :
            pick \in Picks(outs)}
AllOfOutcome(o, mode) ==
    IF o = OK \/ Dead(o) THEN o ELSE Failing(mode, "allOf")

\* The calls of a visit: schema `schema` visits `value`, and `above` are the
\* schemas that wait for this visit to tell what they think of that value.
Calls(d) == [schema : DOMAIN d, value : Universe, mode : Settings, above : SUBSET DOMAIN d]
Call(n, v, mode) == [schema |-> n, value |-> v, mode |-> mode, above |-> {}]
Operand(c, m, how) == [c EXCEPT !.schema = m, !.mode = how, !.above = @ \cup {c.schema}]

\* A schema with an enum looks at no other set operation, whether the value
\* is in it or not.  `visits` has the outcomes of the calls below this one.
SetOperations(visits, fast, d, c) ==
    LET s == d[c.schema]
        mode == c.mode
        Of(m, how) == visits[Operand(c, m, how)]
        Counts(m)  == {Counted(fast, s, c.value, m, o) : o \in Of(m, Quiet(mode))}
        not == IF s.not = None THEN {OK}
               ELSE {NotOutcome(o, mode) : o \in Of(s.not, Quiet(mode))}
        one == IF s.oneOf = <<>> THEN {OK}
               ELSE OneOf([i \in DOMAIN s.oneOf |-> Counts(s.oneOf[i])], mode)
        any == IF s.anyOf = <<>> THEN {OK}
               ELSE AnyOf([i \in DOMAIN s.anyOf |-> Of(s.anyOf[i], Quiet(mode))], mode)
        all == InOrder(FALSE, [i \in DOMAIN s.allOf |->
                                  {AllOfOutcome(o, mode) : o \in Of(s.allOf[i], Loud(mode))}])
    IN  IF s.enum # <<>> THEN {EnumOutcome(fast, s, c.value, mode)}
        ELSE Then(FALSE, not, Then(FALSE, one, Then(FALSE, any, all)))

-----------------------------------------------------------------------------
(* Arrays and objects.                                                      *)

\* The visit of a member of the value.
Inside(c, m, x) == Call(m, x, c.mode)

VisitArray(visits, d, c) ==
    LET s == d[c.schema]
        v == c.value
        own == Report(c.mode, ArrayChecks(s, v))
        item(i) == {Mark(ToString(i - 1), o) : o \in visits[Inside(c, s.items, v.items[i])]}
    IN  IF WrongType(s, v) THEN {Failing(c.mode, "type")}
        ELSE IF Stops(own, c.mode) \/ s.items = None THEN {own}
        ELSE Then(c.mode.multiError, {own},
                  InOrder(c.mode.multiError, [i \in DOMAIN v.items |-> item(i)]))

\* The error of one member is marked with its key; under failfast it is
\* errSchema whatever it was.
Keyed(k, o, mode) ==
    IF mode.failfast /\ o # OK /\ ~Dead(o) THEN {ErrSchema} ELSE Mark(k, o)

\* A property that additionalProperties: false forbids: the callback of
\* the fast visitor returns without leaving an error in single mode.
Unsupported(fast, mode) ==
    IF fast /\ ~mode.failfast /\ ~mode.multiError THEN OK ELSE Failing(mode, "properties")

MemberOutcomes(visits, fast, d, c, p) ==
    LET s == d[c.schema]
        By(m) == {Keyed(p.k, o, c.mode) : o \in visits[Inside(c, m, p.v)]}
    IN  IF p.k \in DOMAIN s.properties THEN By(s.properties[p.k])
        ELSE IF s.additional # None THEN By(s.additional)
        ELSE IF s.additionalAllowed = FALSE THEN {Unsupported(fast, c.mode)}
        ELSE {OK}

VisitObject(visits, fast, d, c) ==
    LET s == d[c.schema]
        v == c.value
        collects == Collects(c.mode)
        own     == Report(c.mode, PropertyCountChecks(s, v))
        members == [i \in DOMAIN v.pairs |-> MemberOutcomes(visits, fast, d, c, v.pairs[i])]
        ranged  == IF fast /\ ~collects THEN LastWins(members) ELSE AnyOrder(collects, members)
        missing == Report(c.mode, RequiredChecks(d, s, v, c.mode))
    IN  IF WrongType(s, v) THEN {Failing(c.mode, "type")}
        ELSE IF Stops(own, c.mode) THEN {own}
        ELSE Then(collects, {own}, Then(collects, ranged, {missing}))

-----------------------------------------------------------------------------
(* visitJSON and visitFastJSON.  The first answers null, NaN and infinity   *)
(* before it looks at the schema, the second only after the set operations. *)
(* A visit that comes back to its schema with the same value never ends.    *)

ByKind(visits, fast, d, c) ==
    LET v == c.value
        s == d[c.schema]
    IN  CASE v.t = "null" -> {VisitNull(s, c.mode)}
          [] v.t = "bool" -> {VisitBoolean(s, v, c.mode)}
          [] v.t \in {"num", "nan", "inf"} -> {VisitNumber(s, v, c.mode)}
          [] v.t = "str"  -> {VisitString(s, v, c.mode)}
          [] v.t = "arr"  -> VisitArray(visits, d, c)
          [] v.t = "obj"  -> VisitObject(visits, fast, d, c)
          [] v.t = "raw"  -> {{Error("type")}}

EarlyOutcome(v, s, mode) ==
    CASE v.t = "null" -> VisitNull(s, mode)
      [] v.t = "nan"  -> {Error("NaN")}
      [] v.t = "inf"  -> {Error("Inf")}

OutcomesOf(visits, fast, d, c) ==
    LET empty == Emptiness(d, c.schema)
        rest  == Then(FALSE, SetOperations(visits, fast, d, c), ByKind(visits, fast, d, c))
    IN  IF c.schema \in c.above THEN {Overflow}
        ELSE IF ~fast /\ c.value.t \in {"null", "nan", "inf"}
        THEN {EarlyOutcome(c.value, d[c.schema], c.mode)}
        ELSE (empty \ {NotEmpty}) \cup (IF NotEmpty \in empty THEN rest ELSE {})

VisitCalls(fast, d) == LET visits[c \in Calls(d)] == OutcomesOf(visits, fast, d, c) IN visits
VisitJSON(fast, d, n, v, mode) == VisitCalls(fast, d)[Call(n, v, mode)]

=============================================================================
