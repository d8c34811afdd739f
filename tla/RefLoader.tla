-------------------------------- MODULE RefLoader --------------------------------
(***************************************************************************)
(* openapi3/swagger_loader.go: ResolveRefsIn and the resolve*Ref family,   *)
(* which give every $ref of a document the value it refers to.             *)
(*                                                                         *)
(* A document is a graph.  Its nodes are the document itself (Root), its   *)
(* path items, operations and the wrappers (SchemaRef, ResponseRef, ...);  *)
(* a value is named by the wrapper it is written in.  doc.fields[n] are    *)
(* the places below n, <<slot, key, node>>, with Nil for a YAML null in a  *)
(* map or a slice, and doc.ref[n] is None or a fragment: the <<slot, key>> *)
(* steps from Root.  What is no such fragment, another file above all, is  *)
(* <<>>: the program never allows external references                      *)
(* (IsExternalRefsAllowed).  Left out are fragments into extensions (x-),  *)
(* which resolveComponent decodes anew, and into a media type without a    *)
(* schema.                                                                 *)
(*                                                                         *)
(* The functions call each other; `stack` is Go's stack of these calls.    *)
(* Maps are ranged over in any order.                                      *)
(***************************************************************************)
EXTENDS Naturals, Sequences, FiniteSets

CONSTANTS
    None, Nil,   \* no reference or no value; a nil pointer
    Root,         \* the node of the document
    Documents,    \* the documents: [kind, ref, fields, info], functions on their nodes
    MaxDepth      \* the calls Go's stack has room for

VARIABLES
    doc,          \* the document
    pc,           \* see Stages
    stack,        \* the calls, the innermost first, see Calling
    val,          \* the Value of each wrapper; for a path item, whose fields it has
    visited       \* the values in visitedSchema, visitedResponse, ...

vars == <<doc, pc, stack, val, visited>>

\* The kinds of node whose wrapper has a Ref and a Value.
Wrappers == {"header", "parameter", "requestBody", "response", "schema",
             "securityScheme", "example", "link"}

\* What is visited below a node, in this order: "content" stands for the
\* schemas of its media types, whose keys it has, and "examples" below a
\* request body or a response for theirs, with the key <<media type, name>>.
\* Nothing visits components.links and callbacks, the content of headers and
\* the callbacks of operations.
Slots(kind) ==
    CASE kind = "doc"         -> <<"headers", "parameters", "requestBodies", "responses", "schemas",
                                   "securitySchemes", "examples", "paths">>
      [] kind = "pathItem"    -> <<"parameters", "operations">>
      [] kind = "operation"   -> <<"parameters", "requestBody", "responses">>
      [] kind = "header"      -> <<"schema">>
      [] kind = "parameter"   -> <<"content", "schema">>
      [] kind = "requestBody" -> <<"examples", "content">>
      [] kind = "response"    -> <<"headers", "examples", "content", "links">>
      [] kind = "schema"      -> <<"items", "properties", "additionalProperties", "not",
                                   "allOf", "anyOf", "oneOf">>
      [] OTHER                -> <<>>

\* Slices have an order, maps have none.
Slices == {"allOf", "anyOf", "oneOf"}
Sliced(kind, slot) == slot \in Slices \/ (slot = "parameters" /\ kind # "doc")

\* MUTANT: additionalProperties are forgotten.
Walked_NoAdditional(n, v) ==
    {t \in doc.fields[v] : /\ t[1] # "additionalProperties"
                           /\ \E k \in DOMAIN Slots(doc.kind[n]) : Slots(doc.kind[n])[k] = t[1]}

Walked(n, v) == {t \in doc.fields[v] : \E k \in DOMAIN Slots(doc.kind[n]) : Slots(doc.kind[n])[k] = t[1]}

\* The media types of a request body or a response are visited one by one,
\* each with its examples before its schema.
InMedia(kind, t) == kind \in {"requestBody", "response"} /\ t[1] \in {"examples", "content"}
Media(t) == IF t[1] = "examples" THEN t[2][1] ELSE t[2]
SameMedia(kind, t, u) == InMedia(kind, t) /\ InMedia(kind, u) /\ Media(t) = Media(u)

Rank(kind, slot) == CHOOSE k \in DOMAIN Slots(kind) : Slots(kind)[k] = slot
Before(kind, t, u) ==
    \/ /\ Rank(kind, t[1]) < Rank(kind, u[1])
       /\ InMedia(kind, t) /\ InMedia(kind, u) => Media(t) = Media(u)
    \/ t[1] = u[1] /\ Sliced(kind, t[1]) /\ t[2] < u[2]

-----------------------------------------------------------------------------
\* What stands in a slot, by Go's types.
KindAt(slot) ==
    CASE slot \in {"requestBodies", "requestBody"} -> "requestBody"
      [] slot = "headers"         -> "header"
      [] slot = "parameters"      -> "parameter"
      [] slot = "responses"       -> "response"
      [] slot = "securitySchemes" -> "securityScheme"
      [] slot = "examples"        -> "example"
      [] slot = "links"           -> "link"
      [] slot = "paths"           -> "pathItem"
      [] slot = "operations"      -> "operation"
      [] OTHER                    -> "schema"

\* Fields that are pointers, nil where YAML has a null or nothing at all.
Pointers == {"items", "not", "additionalProperties", "schema", "requestBody", "operations"}

\* A document as it is unmarshalled: a tree, with nothing but $ref where there
\* is one (jsoninfo.UnmarshalRef; OpenAPI leaves the siblings of the $ref of a
\* path item undefined).
WellFormed(d) ==
    LET nodes == DOMAIN d.kind
    IN  /\ IsFiniteSet(nodes) /\ DOMAIN d.ref = nodes /\ DOMAIN d.fields = nodes
        /\ None \notin nodes /\ Nil \notin nodes
        /\ \A n \in nodes : d.kind[n] \in Wrappers \cup {"doc", "pathItem", "operation"}
        /\ \A n \in nodes : d.kind[n] = "doc" <=> n = Root
        /\ Root \in nodes /\ d.ref[Root] = None
        /\ \A n \in nodes : d.ref[n] # None =>
              d.kind[n] \in Wrappers \cup {"pathItem"} /\ Len(d.ref[n]) \in Nat /\ d.fields[n] = {}
        /\ \A n \in nodes : \A t \in d.fields[n] :
              /\ \/ d.kind[n] = "doc" /\ t[1] = "links"
                 \/ \E k \in DOMAIN Slots(d.kind[n]) : Slots(d.kind[n])[k] = t[1]
              /\ IF t[3] = Nil THEN t[1] \notin Pointers
                 ELSE t[3] \in nodes /\ d.kind[t[3]] = KindAt(t[1])
        /\ \A n, m \in nodes : \A t \in d.fields[n], u \in d.fields[m] :
              t[3] = u[3] /\ t[3] # Nil => n = m /\ t = u
        /\ \A n \in nodes : d.kind[n] \in {"pathItem", "operation"} =>
              \E m \in nodes : \E t \in d.fields[m] : t[3] = n

ASSUME DocumentsAssumption ==
    /\ None # Nil
    /\ MaxDepth \in Nat \ {0}
    /\ \A d \in Documents : WellFormed(d)

-----------------------------------------------------------------------------
(* Calls.  `node` is the component, `own` whether it is the wrapper itself *)
(* or the local copy `resolved` of it, whose Value is `local`.             *)

Calling(n, own, v) == [node |-> n, own |-> own, local |-> v, at |-> "enter", todo |-> {}]

Top   == Head(stack)
Kind  == doc.kind[Top.node]
Ref   == doc.ref[Top.node]
Value == IF Top.own THEN val[Top.node] ELSE Top.local

At(stage) == pc = "loading" /\ Top.at = stage

Fail(how) == pc' = how /\ stack' = <<>>

\* MUTANT: a referenced component is resolved in its place, not as a copy.
Call_InPlace(after, n, own) ==
    IF Len(stack) = MaxDepth THEN Fail("overflow")
    ELSE stack' = <<Calling(n, TRUE, None), after>> \o Tail(stack) /\ UNCHANGED pc

\* A call from the one on top, which becomes `after`.
Call(after, n, own) ==
    IF Len(stack) = MaxDepth THEN Fail("overflow")
    ELSE /\ stack' = <<Calling(n, own, IF own THEN None ELSE val[n]), after>> \o Tail(stack)
         /\ UNCHANGED pc

\* The call on top returns; what a copy was resolved to becomes the Value of
\* the component that asked for it.
Return ==
    LET rest   == Tail(stack)
        caller == Head(rest)
    IN  IF Top.own
        THEN /\ stack' = rest
             /\ pc' = IF rest = <<>> THEN "loaded" ELSE pc
             /\ UNCHANGED val
        ELSE /\ stack' = <<[caller EXCEPT !.at = "value",
                                          !.local = IF caller.own THEN None ELSE Value]>> \o Tail(rest)
             /\ val' = IF caller.own THEN [val EXCEPT ![caller.node] = Value] ELSE val
             /\ UNCHANGED pc

\* One part of a fragment: from a component into its Value, nil (None here) of
\* which is no struct.  A pointer that is not there is nil (an operation, which
\* no reference asks for, may be None); additionalProperties are not to be found
\* (`yaml:"-"`).
Into(d, value, from, part) ==
    IF from \in {None, Nil} THEN None
    ELSE IF value[from] = None \/ part[1] = "additionalProperties" THEN None
    ELSE LET below == {t \in d.fields[value[from]] : <<t[1], t[2]>> = part}
             slots == Slots(d.kind[value[from]])
         IN  IF below # {} THEN (CHOOSE t \in below : TRUE)[3]
             ELSE IF part[1] \in Pointers \ {"operations"} /\ \E k \in DOMAIN slots : slots[k] = part[1] THEN Nil
             ELSE None

\* drillIntoSwaggerField along the parts of a fragment: the places it passes
\* and the one it leads to.
Along(d, value, ref) ==
    LET at[k \in 0..Len(ref)] == IF k = 0 THEN Root ELSE Into(d, value, at[k - 1], ref[k])
    IN  at
Drilled(d, value, ref) == Along(d, value, ref)[Len(ref)]
Drill(ref) == Drilled(doc, val, ref)

-----------------------------------------------------------------------------
Init ==
    /\ doc \in Documents
    /\ pc = "loading"
    /\ stack = <<Calling(Root, TRUE, None)>>
    /\ val = [n \in DOMAIN doc.kind |->
                IF doc.kind[n] \in Wrappers /\ doc.ref[n] # None THEN None ELSE n]
    /\ visited = {}

Seen == Kind \in Wrappers /\ Value # None /\ Value \in visited

\* MUTANT: values are not remembered as visited.
Mark_Forgetful == visited

Mark == IF Kind \in Wrappers /\ Value # None THEN visited \cup {Value} ELSE visited

\* The value of this component was visited before, or is being visited.
AlreadyVisited ==
    /\ At("enter") /\ Seen
    /\ Return
    /\ UNCHANGED <<doc, visited>>

\* No $ref: on to the value.
Inline ==
    /\ At("enter") /\ ~Seen /\ Ref = None
    /\ visited' = Mark
    /\ stack' = <<[Top EXCEPT !.at = "value"]>> \o Tail(stack)
    /\ UNCHANGED <<doc, pc, val>>

\* MUTANT: a component of any kind is taken.
Fits_AnyKind(target) == target \notin {None, Nil}

\* resolveComponent copies only what has the type that is asked for.
Fits(target) == target \notin {None, Nil} /\ doc.kind[target] = Kind

\* Neither does it copy a nil pointer of another type, which is "bad data"; of
\* the type that is asked for, reflect panics at what it points to.  To the
\* schema of a nil media type the fragment does not get.
NilAsked(target, ref, kind) ==
    LET slot == ref[Len(ref)][1]
    IN  target = Nil /\ slot # "content" /\ KindAt(slot) = kind

\* MUTANT: what the reference leads to is taken as it is, unresolved.
FollowRef_Unresolved ==
    /\ At("enter") /\ ~Seen /\ Ref # None /\ Kind \in Wrappers
    /\ LET target == Drill(Ref)
       IN  /\ visited' = Mark
           /\ IF Fits(target)
              THEN /\ stack' = <<[Top EXCEPT !.at = "value", !.local = IF Top.own THEN None ELSE val[target]]>> \o Tail(stack)
                   /\ val' = IF Top.own THEN [val EXCEPT ![Top.node] = val[target]] ELSE val
                   /\ UNCHANGED pc
              ELSE Fail(IF NilAsked(target, Ref, Kind) THEN "panicked" ELSE "refused") /\ UNCHANGED val
    /\ UNCHANGED doc

\* resolveComponent, and resolve*Ref of the copy it made.
FollowRef ==
    /\ At("enter") /\ ~Seen /\ Ref # None /\ Kind \in Wrappers
    /\ LET target == Drill(Ref)
       IN  /\ visited' = Mark
           /\ IF Fits(target) THEN Call([Top EXCEPT !.at = "copied"], target, FALSE)
              ELSE Fail(IF NilAsked(target, Ref, Kind) THEN "panicked" ELSE "refused")
    /\ UNCHANGED <<doc, val>>

\* resolvePathItemRef: the whole item is copied as it is at the moment, its
\* own $ref, if it has one, included.
CopyPathItem ==
    /\ At("enter") /\ Ref # None /\ Kind = "pathItem"
    /\ LET target == Drill(Ref)
       IN  IF Len(Ref) = 1 /\ Ref[1][1] = "paths" /\ target \notin {None, Nil}
           THEN /\ val' = [val EXCEPT ![Top.node] = val[target]]
                /\ stack' = <<[Top EXCEPT !.at = "value"]>> \o Tail(stack)
                /\ UNCHANGED pc
           ELSE Fail("refused") /\ UNCHANGED val
    /\ UNCHANGED <<doc, visited>>

\* A parameter may have a schema or content.
Ambiguous == Kind = "parameter" /\ Value # None /\ \A s \in {"schema", "content"} : \E t \in doc.fields[Value] : t[1] = s

\* The value is there, and what is below it comes next.
OpenValue ==
    /\ At("value")
    /\ IF Ambiguous THEN Fail("refused")
       ELSE /\ stack' = <<[Top EXCEPT !.at = "walk", !.todo = IF Value = None THEN {} ELSE Walked(Top.node, Value)]>> \o Tail(stack)
            /\ UNCHANGED pc
    /\ UNCHANGED <<doc, val, visited>>

\* MUTANT: a null media type is dereferenced in responses, too.
LeftOut_Paths(kind, slot) == slot = "paths"

\* A nil path item, and the nil media type of a response, are left out.
LeftOut(kind, slot) == slot = "paths" \/ (slot = "content" /\ kind = "response")

\* Some of another media type was visited, and some is still to be.
Interrupts(t) ==
    InMedia(Kind, t) /\ \E u \in Top.todo, w \in Walked(Top.node, Value) \ Top.todo :
                          SameMedia(Kind, u, w) /\ Media(u) # Media(t)

\* One more component below: a nil one is an error, but the nil media type of
\* a request body or of a parameter is dereferenced.
Descend ==
    /\ At("walk")
    /\ \E t \in Top.todo :
          LET after == [Top EXCEPT !.todo = @ \ {t}]
          IN  /\ ~Interrupts(t) /\ ~\E u \in Top.todo : Before(Kind, u, t)
              /\ IF t[3] # Nil THEN Call(after, t[3], TRUE)
                 ELSE IF LeftOut(Kind, t[1]) THEN stack' = <<after>> \o Tail(stack) /\ UNCHANGED pc
                 ELSE Fail(IF t[1] = "content" THEN "panicked" ELSE "refused")
    /\ UNCHANGED <<doc, val, visited>>

AllVisited ==
    /\ At("walk") /\ Top.todo = {}
    /\ Return
    /\ UNCHANGED <<doc, visited>>

Load ==
    \/ AlreadyVisited \/ Inline \/ FollowRef \/ CopyPathItem
    \/ OpenValue \/ Descend \/ AllVisited

Ended == pc # "loading" /\ UNCHANGED vars

Next == Load \/ Ended
Spec == Init /\ [][Next]_vars

-----------------------------------------------------------------------------
\* What the loading comes to; the stages after "loaded" are those of Document.
Stages == {"loading", "loaded", "refused", "panicked", "overflow",
           "valid", "invalid", "panickedValidating", "unroutable", "ready", "answered"}

TypeOK ==
    /\ pc \in Stages
    /\ DOMAIN doc.ref = DOMAIN doc.kind /\ DOMAIN doc.fields = DOMAIN doc.kind
    /\ val \in [DOMAIN doc.kind -> DOMAIN doc.kind \cup {None}]
    /\ visited \subseteq DOMAIN doc.kind
    /\ Len(stack) <= MaxDepth
    /\ \A k \in DOMAIN stack :
          /\ stack[k].node \in DOMAIN doc.kind
          /\ stack[k].local \in DOMAIN doc.kind \cup {None}
          /\ stack[k].todo # {} =>
                stack[k].todo \subseteq doc.fields[IF stack[k].own THEN val[stack[k].node] ELSE stack[k].local]
          /\ stack[k].at \in {"enter", "copied", "value", "walk"}
          /\ stack[k].at = "copied" => k > 1 /\ ~stack[k - 1].own

\* A wrapper has the value its reference leads to; what no function visits
\* (components.links) may have been passed through unresolved.  A path item
\* with a $ref has the operations of the item it refers to, unless that one
\* has a $ref itself: it may have been copied first.
Resolved(n) ==
    LET target == Drill(doc.ref[n])
    IN  CASE doc.kind[n] \in Wrappers /\ doc.ref[n] = None -> val[n] = n /\ n \in visited
          [] doc.kind[n] \in Wrappers /\ doc.ref[n] # None ->
                /\ val[n] \in visited
                /\ target \notin {None, Nil}
                /\ doc.kind[target] = doc.kind[n]
                /\ val[target] = val[n] \/ (doc.kind[n] = "link" /\ val[target] = None)
          [] doc.kind[n] = "pathItem" /\ doc.ref[n] # None -> doc.ref[target] = None => val[n] = target
          [] OTHER -> val[n] = n

\* swagger_loader.go:156 "returns a *Swagger with all resolved data or an
\* error": in a document that was loaded, whatever was met in which order,
\* every component that can be reached has the value its $ref leads to, and
\* all that is below that value was visited in turn.
LoadedIsResolved ==
    pc \notin {"loading", "refused", "panicked", "overflow"} =>
        \A n \in visited \cup {m \in DOMAIN doc.kind : doc.kind[m] \notin Wrappers} :
            \A t \in doc.fields[val[n]] :
                t[3] # Nil /\ <<doc.kind[n], t[1]>> # <<"doc", "links">> => Resolved(t[3])
=============================================================================
