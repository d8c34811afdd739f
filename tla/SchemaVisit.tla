------------------------------ MODULE SchemaVisit ------------------------------
(***************************************************************************)
(* The life of a schema: a document is validated when the router is built, *)
(* then every decoded parameter or body is visited by the schema it was    *)
(* declared with.                                                          *)
(***************************************************************************)
EXTENDS Conformance

CONSTANTS
    Documents,    \* the documents: functions from schema names to schemas
    Values,       \* the decoded values, see Kinds
    FastValues,   \* those fastjson gives: none is raw, objects may repeat a key
    Modes         \* the settings visits are made with

Root == "root"    \* the schema a parameter or a body is declared with

\* What the loader hands over: finitely many schemas, and every reference
\* resolved.
IsSchema(names, s) ==
    /\ s.enum \in Seq(Universe)
    /\ {s.nullable, s.readOnly, s.writeOnly, s.allowEmptyValue, s.uniqueItems, s.exclusiveMin, s.exclusiveMax}
           \subseteq BOOLEAN
    /\ {s.min, s.max, s.multipleOf} \subseteq {None} \cup Int
    /\ {s.minLength, s.minItems, s.minProps} \subseteq Nat
    /\ {s.maxLength, s.maxItems, s.maxProps} \subseteq {None} \cup Nat
    /\ {s.oneOf, s.anyOf, s.allOf} \subseteq Seq(names)
    /\ s.required \in Seq(STRING)
    /\ s.properties \in [DOMAIN s.properties -> names]
    /\ {s.not, s.items, s.additional} \subseteq {None} \cup names
IsDocument(d) ==
    /\ IsFiniteSet(DOMAIN d)
    /\ Root \in DOMAIN d
    /\ \A n \in DOMAIN d : IsSchema(DOMAIN d, d[n])

ASSUME VisitAssumption ==
    /\ \A d \in Documents : IsDocument(d)
    /\ Values \subseteq Universe
    /\ FastValues \subseteq Universe
    /\ Modes \subseteq Settings

VARIABLES
    doc,          \* the document
    phase,        \* "loaded", "rejected", or "serving"
    visit         \* the last visit: [fast, value, mode, outcome], or None

vars == <<doc, phase, visit>>

-----------------------------------------------------------------------------
Init ==
    /\ doc \in Documents
    /\ phase = "loaded"
    /\ visit = None

\* NewRouter validates the document and refuses to start on an error.
Validate ==
    /\ phase = "loaded"
    /\ phase' = IF ValidSchema(doc, Root) THEN "serving" ELSE "rejected"
    /\ UNCHANGED <<doc, visit>>

\* ValidateParameter, and bodies no fastjson parser read: visitJSON.
Visit(v, mode) ==
    /\ phase = "serving"
    /\ visit = None
    /\ \E o \in VisitJSON(FALSE, doc, Root, v, mode) :
          visit' = [fast |-> FALSE, value |-> v, mode |-> mode, outcome |-> o]
    /\ UNCHANGED <<doc, phase>>

\* JSON bodies: visitFastJSON.
VisitFast(v, mode) ==
    /\ phase = "serving"
    /\ visit = None
    /\ \E o \in VisitJSON(TRUE, doc, Root, v, mode) :
          visit' = [fast |-> TRUE, value |-> v, mode |-> mode, outcome |-> o]
    /\ UNCHANGED <<doc, phase>>

\* The next request: a visit leaves nothing behind in the schema but the
\* compiled pattern, which is the same whoever compiles it.
Forget ==
    /\ visit # None
    /\ visit' = None
    /\ UNCHANGED <<doc, phase>>

Next ==
    \/ Validate
    \/ \E v \in Values, mode \in Modes : Visit(v, mode)
    \/ \E v \in FastValues, mode \in Modes : VisitFast(v, mode)
    \/ Forget

Spec == Init /\ [][Next]_vars

-----------------------------------------------------------------------------
Visited == visit # None
Alive   == Visited /\ ~Dead(visit.outcome)

Reached == ReachableFrom(ToChildren(doc), {Root})
Some(P(_)) == \E n \in Reached : P(doc[n])

\* Where the fast visitor is known to part ways with what is asked: null
\* and the numbers that are none are looked at late, an enum is compared
\* with a string, and a property that additionalProperties: false forbids
\* passes in single mode.
PartsWays ==
    \/ Has(visit.value, {"null", "nan", "inf"})
    \/ Some(LAMBDA s : s.enum # <<>>)
    \/ ~visit.mode.multiError /\ Some(LAMBDA s : s.additionalAllowed = FALSE)

-----------------------------------------------------------------------------
\* visitJSON returns nil exactly if the value conforms, whatever the mode,
\* the order of the map and the nesting of the combining keywords.
VisitDecides ==
    Alive /\ ~visit.fast =>
        (visit.outcome = OK <=> Conforms(doc, Root, visit.value, visit.mode))

\* visitFastJSON is the same judge, also of objects that repeat a key,
\* except where it parts ways for a named reason.
FastVisitDecides ==
    Alive /\ visit.fast /\ ~PartsWays =>
        (visit.outcome = OK <=> Conforms(doc, Root, visit.value, visit.mode))

\* The error a caller gets without MultiErrors() is one of those it gets
\* with it: asking for all of them loses none.
SingleErrorIsAmongAll ==
    Alive /\ ~visit.mode.multiError /\ ~visit.mode.failfast
          /\ (visit.fast => ~PartsWays) =>
        \E all \in VisitJSON(visit.fast, doc, Root, visit.value,
                              [visit.mode EXCEPT !.multiError = TRUE]) :
            Dead(all) \/ visit.outcome \subseteq all

\* SchemaError.JSONPointer: the path of an error, put together backwards
\* while the visits return, leads into the value that was visited; only
\* that of a missing property ends beside it.
PointersLead ==
    Visited => \A e \in visit.outcome :
        Leads(visit.value, e.path, e.field = "required")

\* A visit of a document that was accepted at load dies only for reasons
\* Validate does not look at: an exclusive bound without its bound, NaN, a
\* multiple of zero, a discriminator that is no string, an enum of objects or
\* arrays, or a chain of schemas that comes back to where it began: of schemas
\* without keywords, which IsEmpty goes round for ever, or of schemas that
\* the same value is visited by.
DeathsAreKnown ==
    Visited /\ Dead(visit.outcome) =>
        \/ Some(LAMBDA s : \/ (s.exclusiveMin /\ s.min = None)
                          \/ (s.exclusiveMax /\ s.max = None))
        \/ Some(LAMBDA s : s.multipleOf = 0)
        \/ visit.fast /\ Has(visit.value, {"nan"})
        \/ ~visit.fast /\ Some(LAMBDA s : s.discriminator # None)
        \/ ~visit.fast /\ Some(LAMBDA s : \E i \in DOMAIN s.enum : s.enum[i].t \in {"arr", "obj"})
        \/ \E n \in Reached :
              \/ n \in ReachableFrom(ToChildren(doc), Children(doc[n])) /\ ~OwnKeyword(doc[n])
              \/ n \in ReachableFrom(ToOperands(doc), Operands(doc[n]))

\* Without oneOf, a document is served exactly if every schema its root
\* reaches is well formed: schemas that refer to themselves included.
LoadDecides ==
    phase # "loaded" /\ ~Some(LAMBDA s : s.oneOf # <<>>) =>
        (phase = "serving" <=>
            ~Some(LAMBDA s :
                \/ (s.readOnly /\ s.writeOnly)
                \/ (s.type = "array" /\ s.items = None)
                \/ s.type \notin {"", "boolean", "number", "integer", "string", "array", "object"}
                \/ (s.type \in {"number", "integer", "string"} /\ s.format = "unknown")))

\* schema_validation_settings.go:12 "FailFast returns schema validation
\* errors quicker": the same values are accepted with it and without.
FailFastIsOnlyQuicker ==
    Alive /\ visit.fast /\ ~visit.mode.failfast =>
        (visit.outcome = OK <=>
            OK \in VisitJSON(TRUE, doc, Root, visit.value, [visit.mode EXCEPT !.failfast = TRUE]))
=============================================================================
