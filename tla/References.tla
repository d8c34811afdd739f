-------------------------------- MODULE References --------------------------------
(***************************************************************************)
(* What the references of a document mean, read without loading it, and    *)
(* what the loader's verdict on a document is held against.                *)
(***************************************************************************)
EXTENDS RefLoader, Closures

Below(d, n) == {t \in d.fields[n] : \E k \in DOMAIN Slots(d.kind[n]) : Slots(d.kind[n])[k] = t[1]}

\* What is known to mean what, as the values that a fragment is followed through.
Known(d, pairs) ==
    [n \in DOMAIN d.kind |->
        IF \E e \in pairs : e[1] = n THEN (CHOOSE e \in pairs : e[1] = n)[2] ELSE None]

\* What leads to a component, of its kind, that means something, means the same.
Round(d, pairs) ==
    LET known == Known(d, pairs)
        at(n) == Drilled(d, known, d.ref[n])
        new   == {n \in DOMAIN d.kind : /\ d.ref[n] # None /\ known[n] = None
                                        /\ at(n) \in DOMAIN d.kind
                                        /\ d.kind[at(n)] = d.kind[n]
                                        /\ known[at(n)] # None}
    IN  pairs \cup {<<n, known[at(n)]>> : n \in new}

\* What each node means: itself, or what its $ref and those it leads to end
\* at, with every $ref on the way followed; None if they end nowhere.
Means(d) ==
    LET nodes  == DOMAIN d.kind
        itself == {<<n, n>> : n \in {m \in nodes : d.ref[m] = None}}
    IN  Known(d, Closure(nodes \X nodes, itself, [pairs \in SUBSET (nodes \X nodes) |-> Round(d, pairs)]))

\* Where a $ref leads.
Target(d, n) == Drilled(d, Means(d), d.ref[n])

\* All that is visited: what is below a node and what a $ref leads to.
Onward(d, n) == {t[3] : t \in Below(d, n)} \cup (IF d.ref[n] = None THEN {} ELSE {Target(d, n)})
Reached(d) ==
    LET nodes  == DOMAIN d.kind
        onward == [n \in nodes |-> Onward(d, n) \cap nodes]
    IN  Closure(nodes, {Root}, [S \in SUBSET nodes |-> S \cup UNION {onward[n] : n \in S}])

-----------------------------------------------------------------------------
(* What can be wrong with a document.                                       *)

Referring(d) == {n \in Reached(d) : d.ref[n] # None}

\* A reference to nothing, to another kind of component, or to a null.
Dangles(d, n) ==
    LET t == Target(d, n)
    IN  t \in {None, Nil} \/ (t \notin {None, Nil} /\ d.kind[t] # d.kind[n])
\* A reference through a component that has a reference itself.
PassesRef(d, n) ==
    \E k \in 1..(Len(d.ref[n]) - 1) :
        LET m == Along(d, Means(d), d.ref[n])[k]
        IN  m \notin {None, Nil} /\ d.ref[m] # None
\* A null where a component is needed.
NilBelow(d, n) == \E t \in Below(d, n) : t[3] = Nil /\ ~LeftOut(d.kind[n], t[1])
Both(d, n)     == d.kind[n] = "parameter" /\ \A s \in {"schema", "content"} : \E t \in d.fields[n] : t[1] = s

\* Something is wrong with what is reached; a reference passes through another.
Wrong(d)   == \/ \E n \in Referring(d) : Dangles(d, n)
              \/ \E n \in Reached(d) : NilBelow(d, n) \/ Both(d, n)
Passing(d) == \E n \in Referring(d) : PassesRef(d, n)

\* References to components that are only a reference themselves.
Aliases(d)       == {n \in DOMAIN d.kind : d.kind[n] \in Wrappers /\ d.ref[n] # None}
ToAlias(d, n)    == n \in Aliases(d) /\ ~Dangles(d, n) /\ Target(d, n) \in Aliases(d)
\* Those directly below the document, #/components/.../name.
Listed(d)        == Aliases(d) \cap {t[3] : t \in d.fields[Root]}

\* References that only lead on to each other.
PureCycle(d) ==
    \E C \in SUBSET {n \in Reached(d) : ToAlias(d, n)} : C # {} /\ \A n \in C : Target(d, n) \in C
\* Values each of which has directly below it a reference to one of these
\* aliases, which means another of them.  (A recursive schema that refers to
\* itself by its own name is none.)
AliasCycle(d, aliases) ==
    LET entry(t) == ToAlias(d, t[3]) /\ Target(d, t[3]) \in aliases
    IN  \E C \in SUBSET {n \in Reached(d) : \E t \in Below(d, n) : entry(t)} :
            C # {} /\ \A n \in C : \E t \in Below(d, n) : entry(t) /\ Means(d)[t[3]] \in C

-----------------------------------------------------------------------------
\* The loader gives each component the value its $ref ends at and takes none
\* back, before the document is loaded as well as after, and whatever it met
\* first; a document is loaded only when all that can be reached has a value
\* (swagger_loader.go:156 "with all resolved data").
Components(d) == {n \in DOMAIN d.kind : d.kind[n] \in Wrappers}
Needed(d) == Components(d) \cap UNION {{t[3] : t \in Below(d, n)} : n \in Reached(d)}

Meant == [n \in Components(doc) |-> Means(doc)[n]]
Given == [n \in Components(doc) |-> val[n]]
Outcome ==
    CASE pc = "loading" -> "loading"
      [] pc \in {"refused", "panicked", "overflow"} -> "failed"
      [] OTHER -> "loaded"

Promise == INSTANCE Resolution WITH
    means <- Meant, needed <- Needed(doc), value <- Given, status <- Outcome
KeepsMeaning == Promise!Spec

\* A document is refused, or ends the process by a panic, only for something
\* that is wrong with what it reaches, and such a document is never loaded:
\* the order in which Go ranges over the maps decides nothing, unless a
\* reference passes through another one, which must be resolved by then
\* (resolveComponent, drillIntoSwaggerField).
RefusedForAReason ==
    /\ pc \in {"refused", "panicked"} => Wrong(doc) \/ Passing(doc)
    /\ pc \notin {"loading", "refused", "panicked", "overflow"} => ~Wrong(doc)

\* No document is loaded in which values refer to each other through aliases
\* among the components: each copy of an unresolved alias is resolved anew
\* (resolveSchemaRef), and the alias has no value before a copy of it has.
LoadedWithoutCycles ==
    pc \notin {"loading", "refused", "panicked", "overflow"} => ~PureCycle(doc) /\ ~AliasCycle(doc, Listed(doc))

\* The calls end, whatever refers to whatever, cyclic schemas included,
\* unless some refer to each other through aliases; then they never end, or,
\* where the alias stands within one of them, not in every order.
OverflowsOnAliasCycles ==
    /\ pc = "overflow" => PureCycle(doc) \/ AliasCycle(doc, Aliases(doc))
    /\ LoadedWithoutCycles
=============================================================================
