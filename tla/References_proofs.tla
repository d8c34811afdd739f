---------------------------- MODULE References_proofs ----------------------------
(***************************************************************************)
(* Proofs about RefLoader and References, for every set of documents and   *)
(* every depth of Go's stack: what a $ref ends at does not depend on when  *)
(* it is asked, a component that has a value keeps it, and a document that *)
(* is loaded is resolved; the loader implements Resolution, it gives each  *)
(* component what its $ref means, read without loading; and it refuses a   *)
(* document only for what is wrong with it, and loads none that something  *)
(* is wrong with; and its calls go no deeper than the document's size      *)
(* allows, unless aliases lead on to each other.                           *)
(*                                                                         *)
(* The values grow while they are read: a fragment is followed through     *)
(* them (Drilled).  So everything that is said of a document here is said  *)
(* of a document d and values w, and the lemmas compare w with later ones. *)
(***************************************************************************)
EXTENDS References, FiniteSetTheorems, NaturalsInduction, WellFoundedInduction, TLAPS

Nodes(d)  == DOMAIN d.kind
Values(d) == [Nodes(d) -> Nodes(d) \cup {None}]

\* What stands below a node: only the document has path items, only a path item
\* has operations.
KindBelow(kind, slot) ==
    CASE kind = "doc" /\ slot = "paths"           -> {"pathItem"}
      [] kind = "doc" /\ slot = "links"           -> {"link"}
      [] kind = "pathItem" /\ slot = "operations" -> {"operation"}
      [] OTHER                                    -> Wrappers

LEMMA SlotsOf ==
  /\ \A k \in DOMAIN Slots("pathItem") : Slots("pathItem")[k] \in {"parameters", "operations"}
  /\ \A kind : \A k \in DOMAIN Slots(kind) :
        /\ Slots(kind)[k] = "paths" => kind = "doc"
        /\ Slots(kind)[k] = "operations" => kind = "pathItem"
<1>1. \A k \in DOMAIN Slots("pathItem") : Slots("pathItem")[k] \in {"parameters", "operations"}
  BY DEF Slots
<1>2. ASSUME NEW kind, kind \notin {"doc", "pathItem", "operation", "header", "parameter", "requestBody", "response", "schema"}
      PROVE  Slots(kind) = <<>>
  BY <1>2 DEF Slots
<1>3. ASSUME NEW kind \in {"doc", "pathItem", "operation", "header", "parameter", "requestBody", "response", "schema"},
             NEW k \in DOMAIN Slots(kind)
      PROVE  /\ Slots(kind)[k] = "paths" => kind = "doc"
             /\ Slots(kind)[k] = "operations" => kind = "pathItem"
  <2>1. CASE kind \in {"doc", "pathItem"}
    BY <1>3, <2>1 DEF Slots
  <2>2. CASE kind \in {"operation", "header", "parameter", "requestBody"}
    BY <1>3, <2>2 DEF Slots
  <2>3. CASE kind \in {"response", "schema"}
    BY <1>3, <2>3 DEF Slots
  <2> QED BY <2>1, <2>2, <2>3
<1> QED BY <1>1, <1>2, <1>3

LEMMA StandsBelow ==
  ASSUME NEW d, WellFormed(d), NEW n \in Nodes(d), NEW t \in d.fields[n], t[3] # Nil
  PROVE  t[3] \in Nodes(d) /\ d.kind[t[3]] \in KindBelow(d.kind[n], t[1])
<1>1. /\ t[3] \in Nodes(d) /\ d.kind[t[3]] = KindAt(t[1])
      /\ \/ d.kind[n] = "doc" /\ t[1] = "links"
         \/ \E k \in DOMAIN Slots(d.kind[n]) : Slots(d.kind[n])[k] = t[1]
  BY DEF WellFormed, Nodes
<1>2. /\ t[1] = "paths" => d.kind[n] = "doc"
      /\ t[1] = "operations" => d.kind[n] = "pathItem"
  BY <1>1, SlotsOf
<1>3. KindAt("paths") = "pathItem" /\ KindAt("operations") = "operation" /\ KindAt("links") = "link"
  BY DEF KindAt
<1>4. t[1] \notin {"paths", "operations"} => KindAt(t[1]) \in Wrappers
  BY DEF KindAt, Wrappers
<1> QED BY <1>1, <1>2, <1>3, <1>4 DEF KindBelow

\* The $ref of a wrapper leads to a component of its kind.
Refers(d, w, n) ==
    /\ d.kind[n] \in Wrappers /\ d.ref[n] # None
    /\ Drilled(d, w, d.ref[n]) \in Nodes(d)
    /\ d.kind[Drilled(d, w, d.ref[n])] = d.kind[n]

\* n ends at v: from n, by $ref after $ref, v is where there is none.  That v
\* is in every set that the references lead out of nowhere, if n is, says it
\* without a path of any length.
Closed(d, w, S) == \A n \in S : Refers(d, w, n) => Drilled(d, w, d.ref[n]) \in S
EndsAt(d, w, n, v) ==
    /\ v \in Nodes(d) /\ d.kind[v] = d.kind[n] /\ d.ref[v] = None
    /\ \A S \in SUBSET Nodes(d) : n \in S /\ Closed(d, w, S) => v \in S

\* A path item with a $ref has what the item it refers to had then.
Copied(d, w, n) ==
    LET target == Drilled(d, w, d.ref[n])
    IN  target \in Nodes(d) /\ d.kind[target] = "pathItem" /\ (d.ref[target] = None => w[n] = target)

\* Nothing is wrong directly below a value: no null but those that are left
\* out, and no parameter with a schema and content.
Unvisited(kind, slot) == kind = "doc" /\ slot = "links"
Mixed(d, v) == d.kind[v] = "parameter" /\ \A s \in {"schema", "content"} : \E t \in d.fields[v] : t[1] = s
Sound(d, v) ==
    /\ ~Mixed(d, v)
    /\ \A t \in d.fields[v] : t[3] = Nil => LeftOut(d.kind[v], t[1]) \/ Unvisited(d.kind[v], t[1])

\* All that is below a value has a value that was visited; what a call for a
\* component leaves behind.
Black(d, w, vis, v) == Sound(d, v) /\ \A t \in d.fields[v] : t[3] # Nil => w[t[3]] \in vis
Finished(d, w, vis, n) ==
    /\ d.kind[n] \in Wrappers => w[n] \in vis
    /\ d.kind[n] = "operation" => Black(d, w, vis, n)
    /\ d.kind[n] = "pathItem" =>
          /\ d.ref[n] # None => Copied(d, w, n)
          /\ Sound(d, w[n])
          /\ \A t \in d.fields[w[n]] : t[3] # Nil =>
                IF d.kind[t[3]] = "operation" THEN Black(d, w, vis, t[3]) ELSE w[t[3]] \in vis

-----------------------------------------------------------------------------
(* The inductive invariant.                                                 *)

Places(d) == UNION {d.fields[n] : n \in Nodes(d)}
Calls == [node : Nodes(doc), own : BOOLEAN, local : Nodes(doc) \cup {None},
          at : {"enter", "copied", "value", "walk"}, todo : SUBSET Places(doc)]

\* The calls from the outermost on, which no call and no return renumbers.
FrameIn(s, i) == s[Len(s) + 1 - i]
Depth    == Len(stack)
Frame(i) == FrameIn(stack, i)
ValueOf(f) == IF f.own THEN val[f.node] ELSE f.local
IsWrapper(n) == doc.kind[n] \in Wrappers

Types ==
    /\ doc \in Documents
    /\ pc \in {"loading", "loaded", "refused", "panicked", "overflow"}
    /\ val \in Values(doc)
    /\ visited \in SUBSET Nodes(doc)
    /\ stack \in Seq(Calls) /\ Len(stack) <= MaxDepth
    /\ pc = "loading" <=> stack # <<>>

\* What has a value has the one it ends at, visited; what was visited is a
\* value, not a reference.
ValuesOK ==
    /\ \A n \in Nodes(doc) : doc.ref[n] = None => val[n] = n
    /\ \A n \in Nodes(doc) : IsWrapper(n) /\ doc.ref[n] # None /\ val[n] # None =>
          EndsAt(doc, val, n, val[n]) /\ val[n] \in visited
    /\ \A n \in Nodes(doc) : doc.kind[n] = "pathItem" => val[n] \in Nodes(doc) /\ doc.kind[val[n]] = "pathItem"
    /\ \A v \in visited : IsWrapper(v) /\ doc.ref[v] = None

\* Who made which call: a copy is resolved for the reference that leads to
\* it, a component of its own for the value above it.
CopyFor(i) ==
    /\ IsWrapper(Frame(i).node) /\ Frame(i - 1).at = "copied"
    /\ Frame(i).node = Drilled(doc, val, doc.ref[Frame(i - 1).node])
    /\ doc.kind[Frame(i).node] = doc.kind[Frame(i - 1).node]
    /\ Frame(i).at = "enter" => Frame(i).local = val[Frame(i).node]
CallFrom(i) ==
    /\ Frame(i - 1).at = "walk"
    /\ \E t \in doc.fields[ValueOf(Frame(i - 1))] : t[3] = Frame(i).node
    /\ doc.kind[Frame(i).node] = "pathItem" => \A t \in Frame(i - 1).todo : t[3] # Frame(i).node

Shape(i) ==
    /\ Frame(i).node = Root <=> i = 1
    /\ i = 1 => Frame(i).own
    /\ doc.kind[Frame(i).node] = "pathItem" => i = 2
    /\ Frame(i).at # "walk" => Frame(i).todo = {}
    /\ Frame(i).at \in {"enter", "value"} => i = Depth
    /\ Frame(i).at = "copied" => /\ IsWrapper(Frame(i).node) /\ doc.ref[Frame(i).node] # None
                                 /\ i < Depth /\ ~Frame(i + 1).own
    /\ ~Frame(i).own => CopyFor(i)
    /\ Frame(i).own /\ i > 1 => CallFrom(i)

Held(i) ==
    Frame(i).at \in {"value", "walk"} =>
        /\ IsWrapper(Frame(i).node) =>
              ValueOf(Frame(i)) \in visited /\ EndsAt(doc, val, Frame(i).node, ValueOf(Frame(i)))
        /\ doc.kind[Frame(i).node] = "pathItem" /\ doc.ref[Frame(i).node] # None => Copied(doc, val, Frame(i).node)

\* What a call that walks has behind it is done, but for the one it waits for.
WalkOK(i) ==
    Frame(i).at = "walk" =>
        /\ ~Mixed(doc, ValueOf(Frame(i)))
        /\ Frame(i).todo \subseteq Walked(Frame(i).node, ValueOf(Frame(i)))
        /\ \A t \in Walked(Frame(i).node, ValueOf(Frame(i))) :
              \/ t \in Frame(i).todo
              \/ t[3] = Nil /\ LeftOut(doc.kind[Frame(i).node], t[1])
              \/ t[3] # Nil /\ Finished(doc, val, visited, t[3])
              \/ i < Depth /\ Frame(i + 1).node = t[3]

Frames == \A i \in 1..Depth : Shape(i) /\ Held(i) /\ WalkOK(i)

\* A path item gets the operations of another one once: as long as it is
\* unvisited, it is as it was written.
Fresh ==
    \A n \in Nodes(doc) : pc = "loading" /\ doc.kind[n] = "pathItem" /\ val[n] # n =>
        /\ Frame(1).at = "walk"
        /\ \A t \in Frame(1).todo : t[3] # n
        /\ Frame(Depth).at = "enter" => Frame(Depth).node # n

\* A value that was visited is done with, or a call is at it.
Grey(v) == \E i \in 1..Depth : /\ Frame(i).at \in {"value", "walk"}
                               /\ IsWrapper(Frame(i).node) /\ ValueOf(Frame(i)) = v
Colours ==
    pc \in {"loading", "loaded"} => \A v \in visited : Black(doc, val, visited, v) \/ Grey(v)

RootDone ==
    pc = "loaded" => /\ Sound(doc, Root)
                     /\ \A t \in doc.fields[Root] : t[1] # "links" /\ t[3] # Nil => Finished(doc, val, visited, t[3])

IInv == Types /\ ValuesOK /\ Frames /\ Fresh /\ Colours /\ RootDone

-----------------------------------------------------------------------------
(* Fragments.  Drilled is the last of the places a fragment passes; what   *)
(* holds of it is shown along them, by the first place where it would not. *)

Trail(d, w, at, ref) ==
    /\ at = [k \in 0..Len(ref) |-> IF k = 0 THEN Root ELSE Into(d, w, at[k - 1], ref[k])]

\* A set of numbers that is not empty has a least one.
LEMMA LeastOne ==
  ASSUME NEW T \in SUBSET Nat, T # {}
  PROVE  \E m \in T : \A k \in T : m <= k
<1>1. PICK m \in T : \A k \in T : <<k, m>> \notin OpToRel(<, Nat)
  BY NatLessThanWellFounded, WFMin
<1>2. ASSUME NEW k \in T, ~(m <= k) PROVE FALSE
  <2>1. k \in Nat /\ m \in Nat /\ k < m
    BY <1>2
  <2>2. <<k, m>> \in OpToRel(<, Nat)
    BY <2>1 DEF OpToRel
  <2> QED BY <1>1, <2>2
<1> QED BY <1>2

\* Every fragment has a trail: as far as there is one, there is one step more.
LEMMA TrailExists ==
  ASSUME NEW d, NEW w, NEW ref, Len(ref) \in Nat
  PROVE  \E at : Trail(d, w, at, ref)
<1> DEFINE Step(at, k) == IF k = 0 THEN Root ELSE Into(d, w, at[k - 1], ref[k])
           Upto(at, n) == at = [k \in 0..n |-> Step(at, k)]
           T == {n \in 0..Len(ref) : ~\E at : Upto(at, n)}
<1>1. ASSUME NEW n \in Nat, NEW at, Upto(at, n), NEW k \in 0..n PROVE at[k] = Step(at, k)
  BY <1>1
<1>2. ASSUME NEW m \in T, \A k \in T : m <= k PROVE FALSE
  <2>1. m \in Nat
    OBVIOUS
  <2>2. CASE m = 0
    <3> DEFINE at == [k \in 0..0 |-> Root]
    <3>1. at = [k \in 0..0 |-> Step(at, k)]
      OBVIOUS
    <3> QED BY <2>2, <3>1
  <2>3. CASE m # 0
    <3>1. m - 1 \in Nat /\ m - 1 \in 0..Len(ref) /\ ~(m <= m - 1)
      BY <2>1, <2>3
    <3>2. PICK old : Upto(old, m - 1)
      BY <1>2, <3>1
    <3> DEFINE at == [k \in 0..m |-> IF k = m THEN Into(d, w, old[m - 1], ref[m]) ELSE old[k]]
    <3>3. ASSUME NEW k \in 0..m PROVE at[k] = Step(at, k)
      <4>1. CASE k = m
        <5>1. at[m - 1] = old[m - 1] /\ at[m] = Into(d, w, old[m - 1], ref[m])
          BY <2>1, <3>1
        <5> QED BY <2>3, <4>1, <5>1
      <4>2. CASE k # m
        <5>1. k \in 0..(m - 1) /\ at[k] = old[k]
          BY <2>1, <4>2
        <5>2. old[k] = Step(old, k)
          BY <1>1, <3>1, <3>2, <5>1
        <5>3. k # 0 => at[k - 1] = old[k - 1]
          BY <2>1, <5>1
        <5> QED BY <5>1, <5>2, <5>3
      <4> QED BY <4>1, <4>2
    <3>4. Upto(at, m)
      BY <3>3
    <3> QED BY <3>4
  <2> QED BY <2>2, <2>3
<1>3. T = {}
  <2> HIDE DEF T
  <2>1. T \in SUBSET Nat
    BY DEF T
  <2> QED BY <1>2, <2>1, LeastOne
<1>4. PICK at : Upto(at, Len(ref))
  BY <1>3
<1> QED BY <1>4 DEF Trail

LEMMA AlongTrail ==
  ASSUME NEW d, NEW w, NEW ref, Len(ref) \in Nat
  PROVE  Trail(d, w, Along(d, w, ref), ref)
<1> DEFINE F(at) == [k \in 0..Len(ref) |-> IF k = 0 THEN Root ELSE Into(d, w, at[k - 1], ref[k])]
           at == CHOOSE g : g = F(g)
<1>1. PICK g : Trail(d, w, g, ref)
  BY TrailExists
<1>2. g = F(g)
  BY <1>1 DEF Trail
<1>3. at = F(at)
  BY <1>2
<1>4. Trail(d, w, at, ref)
  <2> HIDE DEF at
  <2> QED BY <1>3 DEF Trail
<1>5. Along(d, w, ref) = at
  BY Zenon DEF Along
<1> QED BY <1>4, <1>5

LEMMA DrilledTrail ==
  ASSUME NEW d, NEW w, NEW ref, Len(ref) \in Nat
  PROVE  \E at : Trail(d, w, at, ref) /\ Drilled(d, w, ref) = at[Len(ref)]
<1> QED BY AlongTrail DEF Drilled

\* What a fragment passes is a node, nil or nothing.
LEMMA TrailType ==
  ASSUME NEW d, WellFormed(d), NEW w \in Values(d), NEW ref, Len(ref) \in Nat,
         NEW at, Trail(d, w, at, ref)
  PROVE  \A k \in 0..Len(ref) : at[k] \in Nodes(d) \cup {None, Nil}
<1> DEFINE T == {k \in 0..Len(ref) : at[k] \notin Nodes(d) \cup {None, Nil}}
<1>2. ASSUME NEW m \in T, \A k \in T : m <= k PROVE FALSE
  <2>1. m \in Nat /\ m \in 0..Len(ref) /\ at[m] = IF m = 0 THEN Root ELSE Into(d, w, at[m - 1], ref[m])
    BY DEF Trail
  <2>2. m # 0
    BY <2>1 DEF WellFormed, Nodes
  <2>3. m - 1 \in 0..Len(ref) /\ at[m - 1] \in Nodes(d) \cup {None, Nil}
    BY <1>2, <2>1, <2>2
  <2>4. Into(d, w, at[m - 1], ref[m]) \in Nodes(d) \cup {None, Nil}
    <3>1. CASE at[m - 1] \in {None, Nil} \/ w[at[m - 1]] = None
      BY <3>1 DEF Into
    <3>2. CASE at[m - 1] \in Nodes(d) /\ w[at[m - 1]] \in Nodes(d) /\ at[m - 1] \notin {None, Nil} /\ w[at[m - 1]] # None
      <4> DEFINE below == {t \in d.fields[w[at[m - 1]]] : <<t[1], t[2]>> = ref[m]}
      <4>1. \A t \in below : t[3] \in Nodes(d) \cup {Nil}
        BY <3>2 DEF WellFormed, Nodes
      <4>2. \/ Into(d, w, at[m - 1], ref[m]) \in {None, Nil}
            \/ below # {} /\ Into(d, w, at[m - 1], ref[m]) = (CHOOSE t \in below : TRUE)[3]
        BY <3>2 DEF Into
      <4> HIDE DEF below
      <4>3. below # {} => (CHOOSE t \in below : TRUE) \in below
        OBVIOUS
      <4> QED BY <4>1, <4>2, <4>3
    <3> QED BY <2>3, <3>1, <3>2 DEF Values
  <2> QED BY <2>1, <2>2, <2>4
<1>3. T = {}
  <2> HIDE DEF T
  <2>1. T \in SUBSET Nat
    BY DEF T
  <2> QED BY <1>2, <2>1, LeastOne
<1> QED BY <1>3

LEMMA DrilledType ==
  ASSUME NEW d, WellFormed(d), NEW w \in Values(d), NEW ref, Len(ref) \in Nat
  PROVE  Drilled(d, w, ref) \in Nodes(d) \cup {None, Nil}
<1> QED BY DrilledTrail, TrailType

\* The values grow: only a path item gets another one, instead of one that
\* is nothing but a $ref.
Later(d, w, w2) ==
    \A n \in Nodes(d) :
        \/ w2[n] = w[n] \/ w[n] = None
        \/ d.kind[n] = "pathItem" /\ d.kind[w[n]] = "pathItem" /\ d.fields[w[n]] = {}

\* What a fragment leads to, it leads to for good.
LEMMA DrilledKept ==
  ASSUME NEW d, WellFormed(d), NEW w \in Values(d), NEW w2 \in Values(d), Later(d, w, w2),
         NEW ref, Len(ref) \in Nat, Drilled(d, w, ref) # None
  PROVE  Drilled(d, w2, ref) = Drilled(d, w, ref)
<1>1. PICK at : Trail(d, w, at, ref) /\ Drilled(d, w, ref) = at[Len(ref)]
  BY DrilledTrail
<1>2. PICK at2 : Trail(d, w2, at2, ref) /\ Drilled(d, w2, ref) = at2[Len(ref)]
  BY DrilledTrail
<1> DEFINE T == {k \in 0..Len(ref) : at[k] # None /\ at2[k] # at[k]}
<1>3. ASSUME NEW m \in T, \A k \in T : m <= k PROVE FALSE
  <2>1. /\ m \in Nat /\ m \in 0..Len(ref)
        /\ at[m] = IF m = 0 THEN Root ELSE Into(d, w, at[m - 1], ref[m])
        /\ at2[m] = IF m = 0 THEN Root ELSE Into(d, w2, at2[m - 1], ref[m])
    BY <1>1, <1>2 DEF Trail
  <2>2. m # 0
    BY <2>1
  <2> DEFINE x == at[m - 1]
  <2>3. x \notin {None, Nil} /\ w[x] # None /\ at[m] = Into(d, w, x, ref[m])
    BY <2>1, <2>2 DEF Into
  <2>4. at2[m - 1] = x
    BY <1>3, <2>1, <2>2, <2>3
  <2>5. x \in Nodes(d)
    <3>1. m - 1 \in 0..Len(ref)
      BY <2>1, <2>2
    <3> HIDE DEF T
    <3> QED BY <1>1, <2>3, <3>1, TrailType
  <2>6. d.fields[w[x]] # {} \/ d.kind[w[x]] # "pathItem"
    <3>1. ASSUME d.kind[w[x]] = "pathItem", d.fields[w[x]] = {} PROVE at[m] = None
      <4>1. ref[m][1] \in Pointers \ {"operations"} =>
               ~\E k \in DOMAIN Slots("pathItem") : Slots("pathItem")[k] = ref[m][1]
        BY SlotsOf DEF Pointers
      <4> QED BY <2>3, <3>1, <4>1 DEF Into
    <3> QED BY <1>3, <3>1
  <2>7. w2[x] = w[x]
    BY <2>3, <2>5, <2>6 DEF Later
  <2>8. Into(d, w2, x, ref[m]) = Into(d, w, x, ref[m])
    BY <2>7 DEF Into
  <2> QED BY <2>1, <2>2, <2>3, <2>4, <2>8
<1>4. T = {}
  <2> HIDE DEF T
  <2>1. T \in SUBSET Nat
    BY DEF T
  <2> QED BY <1>3, <2>1, LeastOne
<1> QED BY <1>1, <1>2, <1>4

-----------------------------------------------------------------------------
(* What a component ends at.                                                *)

LEMMA RefersType ==
  ASSUME NEW d, WellFormed(d), NEW w \in Values(d), NEW n \in Nodes(d), Refers(d, w, n)
  PROVE  /\ Drilled(d, w, d.ref[n]) \in Nodes(d) /\ Len(d.ref[n]) \in Nat
         /\ Drilled(d, w, d.ref[n]) # None /\ Drilled(d, w, d.ref[n]) # Nil
<1> QED BY DEF Refers, WellFormed, Nodes

\* A reference ends where what it refers to ends.
LEMMA EndsBefore ==
  ASSUME NEW d, NEW w, NEW n \in Nodes(d), Refers(d, w, n),
         NEW v, EndsAt(d, w, Drilled(d, w, d.ref[n]), v)
  PROVE  EndsAt(d, w, n, v)
<1> QED BY DEF EndsAt, Closed, Refers

LEMMA EndsAfter ==
  ASSUME NEW d, NEW w, NEW n \in Nodes(d), Refers(d, w, n), NEW v, EndsAt(d, w, n, v)
  PROVE  EndsAt(d, w, Drilled(d, w, d.ref[n]), v)
<1> DEFINE m == Drilled(d, w, d.ref[n])
<1> HIDE DEF m
<1>1. ASSUME NEW S \in SUBSET Nodes(d), m \in S, Closed(d, w, S) PROVE v \in S
  <2>1. Closed(d, w, S \cup {n}) /\ S \cup {n} \in SUBSET Nodes(d)
    BY <1>1 DEF Closed, m
  <2>2. v \in S \cup {n}
    BY <2>1 DEF EndsAt
  <2>3. v # n
    BY DEF EndsAt, Refers
  <2> QED BY <2>2, <2>3
<1>2. v \in Nodes(d) /\ d.kind[v] = d.kind[m] /\ d.ref[v] = None
  BY DEF EndsAt, Refers, m
<1> QED BY <1>1, <1>2 DEF EndsAt, m

\* A reference that ends somewhere leads to a component of its kind.
LEMMA EndsRefers ==
  ASSUME NEW d, NEW w, NEW n \in Nodes(d), NEW v, EndsAt(d, w, n, v), d.ref[n] # None
  PROVE  Refers(d, w, n)
<1>1. SUFFICES ASSUME ~Refers(d, w, n) PROVE FALSE
  OBVIOUS
<1>2. Closed(d, w, {n}) /\ {n} \in SUBSET Nodes(d)
  BY <1>1 DEF Closed
<1> QED BY <1>2 DEF EndsAt

\* It ends nowhere else: where references end there and here is closed, so it
\* holds one of the two, from which the way to the other is of no step.
LEMMA EndsOnce ==
  ASSUME NEW d, NEW w, NEW n \in Nodes(d), NEW v, NEW u,
         EndsAt(d, w, n, v), EndsAt(d, w, n, u)
  PROVE  u = v
<1> DEFINE S == {m \in Nodes(d) : EndsAt(d, w, m, v) /\ EndsAt(d, w, m, u)}
<1>1. Closed(d, w, S)
  <2>1. ASSUME NEW m \in S, Refers(d, w, m) PROVE Drilled(d, w, d.ref[m]) \in S
    <3>1. Drilled(d, w, d.ref[m]) \in Nodes(d)
      BY <2>1 DEF Refers
    <3> QED BY <2>1, <3>1, EndsAfter
  <2> HIDE DEF S
  <2> QED BY <2>1 DEF Closed
<1>2. S \in SUBSET Nodes(d) /\ n \in S
  OBVIOUS
<1>3. v \in S
  <2> HIDE DEF S
  <2> QED BY <1>1, <1>2 DEF EndsAt
<1>4. v \in Nodes(d) /\ EndsAt(d, w, v, u) /\ d.ref[v] = None
  BY <1>3 DEF EndsAt
<1>5. Closed(d, w, {v}) /\ {v} \in SUBSET Nodes(d)
  BY <1>4 DEF Closed, Refers
<1> QED BY <1>4, <1>5 DEF EndsAt

LEMMA EndsItself ==
  ASSUME NEW d, NEW w, NEW n \in Nodes(d), d.ref[n] = None
  PROVE  EndsAt(d, w, n, n)
<1> QED BY DEF EndsAt

\* ... and for good: what is closed when there are more values was closed before.
LEMMA RefersKept ==
  ASSUME NEW d, WellFormed(d), NEW w \in Values(d), NEW w2 \in Values(d), Later(d, w, w2),
         NEW n \in Nodes(d), Refers(d, w, n)
  PROVE  Refers(d, w2, n) /\ Drilled(d, w2, d.ref[n]) = Drilled(d, w, d.ref[n])
<1>1. Drilled(d, w2, d.ref[n]) = Drilled(d, w, d.ref[n])
  BY RefersType, DrilledKept
<1> QED BY <1>1 DEF Refers

LEMMA EndsKept ==
  ASSUME NEW d, WellFormed(d), NEW w \in Values(d), NEW w2 \in Values(d), Later(d, w, w2),
         NEW n \in Nodes(d), NEW v, EndsAt(d, w, n, v)
  PROVE  EndsAt(d, w2, n, v)
<1>1. ASSUME NEW S \in SUBSET Nodes(d), Closed(d, w2, S) PROVE Closed(d, w, S)
  <2>1. ASSUME NEW m \in S, Refers(d, w, m) PROVE Drilled(d, w, d.ref[m]) \in S
    BY <1>1, <2>1, RefersKept DEF Closed
  <2> QED BY <2>1 DEF Closed
<1> QED BY <1>1 DEF EndsAt

\* What is done stays done.
LEMMA BlackKept ==
  ASSUME NEW d, WellFormed(d), NEW w \in Values(d), NEW w2 \in Values(d), Later(d, w, w2),
         NEW vis \in SUBSET Nodes(d), NEW vis2, vis \subseteq vis2,
         NEW v \in Nodes(d), d.kind[v] \in Wrappers \cup {"operation"}, Black(d, w, vis, v)
  PROVE  Black(d, w2, vis2, v)
<1>1. ASSUME NEW t \in d.fields[v], t[3] # Nil PROVE w2[t[3]] \in vis2
  <2>1. t[3] \in Nodes(d) /\ d.kind[t[3]] \in KindBelow(d.kind[v], t[1]) /\ None \notin Nodes(d)
    BY <1>1, StandsBelow DEF WellFormed, Nodes
  <2>2. d.kind[t[3]] # "pathItem"
    BY <2>1 DEF KindBelow, Wrappers
  <2>3. w[t[3]] \in vis /\ w[t[3]] # None
    BY <1>1, <2>1 DEF Black
  <2> QED BY <2>1, <2>2, <2>3 DEF Later
<1> QED BY <1>1 DEF Black

LEMMA CopiedKept ==
  ASSUME NEW d, WellFormed(d), NEW w \in Values(d), NEW w2 \in Values(d), Later(d, w, w2),
         NEW n \in Nodes(d), d.ref[n] # None, w2[n] = w[n], Copied(d, w, n)
  PROVE  Copied(d, w2, n)
<1>1. Drilled(d, w, d.ref[n]) # None /\ Len(d.ref[n]) \in Nat
  BY DEF Copied, WellFormed, Nodes
<1>2. Drilled(d, w2, d.ref[n]) = Drilled(d, w, d.ref[n])
  BY <1>1, DrilledKept
<1> QED BY <1>2 DEF Copied

LEMMA FinishedKept ==
  ASSUME NEW d, WellFormed(d), NEW w \in Values(d), NEW w2 \in Values(d), Later(d, w, w2),
         NEW vis \in SUBSET Nodes(d), NEW vis2, vis \subseteq vis2,
         NEW n \in Nodes(d), Finished(d, w, vis, n),
         d.kind[n] = "pathItem" => w[n] \in Nodes(d) /\ d.kind[w[n]] = "pathItem" /\ w2[n] = w[n]
  PROVE  Finished(d, w2, vis2, n)
<1>1. ASSUME NEW m \in Nodes(d), w[m] \in vis, d.kind[m] \in Wrappers PROVE w2[m] \in vis2
  <2>1. w[m] # None /\ d.kind[m] # "pathItem"
    BY <1>1 DEF WellFormed, Nodes, Wrappers
  <2> QED BY <1>1, <2>1 DEF Later
<1>2. ASSUME d.kind[n] = "pathItem", NEW t \in d.fields[w[n]], t[3] # Nil
      PROVE  IF d.kind[t[3]] = "operation" THEN Black(d, w2, vis2, t[3]) ELSE w2[t[3]] \in vis2
  <2>1. t[3] \in Nodes(d) /\ d.kind[t[3]] \in KindBelow("pathItem", t[1])
    BY <1>2, StandsBelow DEF WellFormed, Nodes
  <2>2. d.kind[t[3]] \in Wrappers \cup {"operation"}
    BY <2>1 DEF KindBelow
  <2>3. IF d.kind[t[3]] = "operation" THEN Black(d, w, vis, t[3]) ELSE w[t[3]] \in vis
    BY <1>2 DEF Finished
  <2>4. CASE d.kind[t[3]] = "operation"
    BY <2>1, <2>3, <2>4, BlackKept
  <2>5. CASE d.kind[t[3]] # "operation"
    BY <1>1, <2>1, <2>2, <2>3, <2>5
  <2> QED BY <2>4, <2>5
<1>3. d.kind[n] = "pathItem" /\ d.ref[n] # None => Copied(d, w2, n)
  BY CopiedKept DEF Finished
<1>4. d.kind[n] = "operation" => Black(d, w2, vis2, n)
  BY BlackKept DEF Finished
<1>5. d.kind[n] \in Wrappers => w2[n] \in vis2
  BY <1>1 DEF Finished
<1> QED BY <1>2, <1>3, <1>4, <1>5 DEF Finished

-----------------------------------------------------------------------------
(* What each kind of step does to the calls.                               *)

Relabelling(s, x) == <<x>> \o Tail(s)
Pushing(s, y, x)  == <<y, x>> \o Tail(s)
Returning(s, x)   == <<x>> \o Tail(Tail(s))

LEMMA FrameType ==
  ASSUME NEW S, NEW s \in Seq(S), s # <<>>
  PROVE  /\ Len(s) \in Nat /\ Len(s) >= 1
         /\ \A i \in 1..Len(s) : FrameIn(s, i) \in S
         /\ Head(s) = FrameIn(s, Len(s))
<1> QED BY DEF FrameIn

LEMMA Relabelled ==
  ASSUME NEW S, NEW s \in Seq(S), s # <<>>, NEW x \in S, NEW s2, s2 = Relabelling(s, x)
  PROVE  /\ s2 \in Seq(S) /\ s2 # <<>> /\ Len(s2) = Len(s)
         /\ FrameIn(s2, Len(s)) = x
         /\ \A i \in 1..(Len(s) - 1) : FrameIn(s2, i) = FrameIn(s, i)
<1> QED BY DEF FrameIn, Relabelling

LEMMA Pushed ==
  ASSUME NEW S, NEW s \in Seq(S), s # <<>>, NEW x \in S, NEW y \in S, NEW s2, s2 = Pushing(s, y, x)
  PROVE  /\ s2 \in Seq(S) /\ s2 # <<>> /\ Len(s2) = Len(s) + 1
         /\ FrameIn(s2, Len(s) + 1) = y /\ FrameIn(s2, Len(s)) = x
         /\ \A i \in 1..(Len(s) - 1) : FrameIn(s2, i) = FrameIn(s, i)
<1> QED BY DEF FrameIn, Pushing

LEMMA NoCalls ==
  ASSUME NEW S, NEW s \in Seq(S)
  PROVE  s = <<>> <=> Len(s) = 0
<1> QED OBVIOUS

LEMMA TailFacts ==
  ASSUME NEW S, NEW s \in Seq(S), s # <<>>
  PROVE  /\ Tail(s) \in Seq(S) /\ Len(Tail(s)) = Len(s) - 1
         /\ \A k \in 1..(Len(s) - 1) : Tail(s)[k] = s[k + 1]
<1> QED OBVIOUS

LEMMA Popped ==
  ASSUME NEW S, NEW s \in Seq(S), s # <<>>, NEW s2, s2 = Tail(s)
  PROVE  /\ s2 \in Seq(S) /\ Len(s2) = Len(s) - 1
         /\ s2 = <<>> <=> Len(s) = 1
         /\ \A i \in 1..(Len(s) - 1) : FrameIn(s2, i) = FrameIn(s, i)
<1>1. s2 \in Seq(S) /\ Len(s2) = Len(s) - 1 /\ \A k \in 1..(Len(s) - 1) : s2[k] = s[k + 1]
  BY TailFacts
<1>2. Len(s) \in Nat
  OBVIOUS
<1>3. ASSUME NEW i \in 1..(Len(s) - 1) PROVE FrameIn(s2, i) = FrameIn(s, i)
  <2>1. Len(s) - i \in 1..(Len(s) - 1) /\ Len(s2) + 1 - i = Len(s) - i /\ Len(s) + 1 - i = (Len(s) - i) + 1
    BY <1>1, <1>2
  <2> QED BY <1>1, <2>1 DEF FrameIn
<1>4. s2 = <<>> <=> Len(s) = 1
  <2>1. s2 = <<>> <=> Len(s2) = 0
    BY <1>1, NoCalls
  <2> QED BY <1>1, <1>2, <2>1
<1> QED BY <1>1, <1>3, <1>4

LEMMA Returned ==
  ASSUME NEW S, NEW s \in Seq(S), Len(s) >= 2, NEW x \in S, NEW s2, s2 = Returning(s, x)
  PROVE  /\ s2 \in Seq(S) /\ s2 # <<>> /\ Len(s2) = Len(s) - 1
         /\ FrameIn(s2, Len(s) - 1) = x
         /\ \A i \in 1..(Len(s) - 2) : FrameIn(s2, i) = FrameIn(s, i)
         /\ Head(Tail(s)) = FrameIn(s, Len(s) - 1)
<1>0. s # <<>> /\ Len(s) \in Nat
  OBVIOUS
<1>1. /\ Tail(s) \in Seq(S) /\ Tail(s) # <<>> /\ Len(Tail(s)) = Len(s) - 1
      /\ \A k \in 1..(Len(s) - 1) : Tail(s)[k] = s[k + 1]
  <2>1. /\ Tail(s) \in Seq(S) /\ Len(Tail(s)) = Len(s) - 1
        /\ \A k \in 1..(Len(s) - 1) : Tail(s)[k] = s[k + 1]
    BY <1>0, TailFacts
  <2>2. Tail(s) # <<>>
    <3>1. Len(Tail(s)) # 0
      BY <1>0, <2>1
    <3>2. Tail(s) = <<>> <=> Len(Tail(s)) = 0
      BY <2>1, NoCalls, Zenon
    <3> QED BY <3>1, <3>2
  <2> QED BY <2>1, <2>2
<1>2. /\ Tail(Tail(s)) \in Seq(S) /\ Len(Tail(Tail(s))) = Len(s) - 2
      /\ \A k \in 1..(Len(s) - 2) : Tail(Tail(s))[k] = Tail(s)[k + 1]
  BY <1>1, TailFacts
<1>3. ASSUME NEW k \in 1..(Len(s) - 2) PROVE Tail(Tail(s))[k] = s[k + 2]
  <2>1. Len(s) \in Nat /\ k + 1 \in 1..(Len(s) - 1) /\ (k + 1) + 1 = k + 2
    OBVIOUS
  <2> QED BY <1>1, <1>2, <2>1
<1>4. Len(s2) = Len(s) - 1 /\ s2[1] = x /\ \A k \in 2..(Len(s) - 1) : s2[k] = s[k + 1]
  BY <1>1, <1>2, <1>3 DEF Returning
<1>5. s2 \in Seq(S) /\ s2 # <<>>
  BY <1>2, <1>4 DEF Returning
<1>6. Head(Tail(s)) = s[2]
  BY <1>1
<1>7. FrameIn(s2, Len(s) - 1) = x /\ FrameIn(s, Len(s) - 1) = s[2]
  BY <1>4 DEF FrameIn
<1>8. ASSUME NEW i \in 1..(Len(s) - 2) PROVE FrameIn(s2, i) = FrameIn(s, i)
  <2>1. Len(s) - i \in 2..(Len(s) - 1) /\ Len(s2) + 1 - i = Len(s) - i /\ Len(s) + 1 - i = (Len(s) - i) + 1
    BY <1>4
  <2> QED BY <1>4, <2>1 DEF FrameIn
<1> QED BY <1>4, <1>5, <1>6, <1>7, <1>8

-----------------------------------------------------------------------------
(* What a step leaves alone: the c outermost calls, of which the innermost *)
(* one waits for the call that is made, goes on or returns.                *)

\* The values grow, and the only path item that gets another one is at the top.
Growing ==
    /\ doc' = doc
    /\ val' \in Values(doc) /\ visited' \in SUBSET Nodes(doc) /\ visited \subseteq visited'
    /\ Later(doc, val, val')
    /\ \A n \in Nodes(doc) : doc.kind[n] = "pathItem" /\ val'[n] # val[n] =>
          n = Frame(Depth).node /\ Frame(Depth).at = "enter"

Steady(c) ==
    /\ c \in 0..(Depth - 1) /\ Depth' \in Nat /\ c <= Depth'
    /\ \A i \in 1..c : Frame(i)' = Frame(i)

CalleeKept(i) ==
    /\ i < Depth'
    /\ Frame(i + 1)'.node = Frame(i + 1).node /\ Frame(i + 1)'.own = Frame(i + 1).own

LEMMA WellFormedDoc ==
  ASSUME IInv
  PROVE  WellFormed(doc) /\ None # Nil /\ MaxDepth \in Nat \ {0}
<1> QED BY DocumentsAssumption DEF IInv, Types

LEMMA DepthType ==
  ASSUME IInv, pc = "loading"
  PROVE  /\ Depth \in Nat /\ Depth >= 1 /\ Depth <= MaxDepth
         /\ Top = Frame(Depth)
         /\ \A i \in 1..Depth : Frame(i) \in Calls
<1>1. stack \in Seq(Calls) /\ stack # <<>> /\ Len(stack) <= MaxDepth
  BY DEF IInv, Types
<1> QED BY <1>1, FrameType DEF Frame, Depth, Top

\* The value a call is at is one of its kind.
LEMMA ValueType ==
  ASSUME IInv, pc = "loading", NEW i \in 1..Depth, Frame(i).at \in {"value", "walk"}
  PROVE  /\ Frame(i).node \in Nodes(doc)
         /\ ValueOf(Frame(i)) \in Nodes(doc) /\ doc.kind[ValueOf(Frame(i))] = doc.kind[Frame(i).node]
<1> DEFINE n == Frame(i).node
<1>1. Shape(i) /\ Held(i) /\ n \in Nodes(doc)
  BY DepthType DEF IInv, Frames, Calls
<1>2. CASE IsWrapper(n)
  BY <1>1, <1>2 DEF Held, EndsAt
<1>3. CASE ~IsWrapper(n)
  <2>1. Frame(i).own
    BY <1>1, <1>3 DEF Shape, CopyFor
  <2>2. doc.kind[n] # "pathItem" => doc.ref[n] = None
    BY <1>1, <1>3, WellFormedDoc DEF WellFormed, Nodes, IsWrapper
  <2>3. val[n] \in Nodes(doc) /\ doc.kind[val[n]] = doc.kind[n]
    BY <1>1, <2>2 DEF IInv, ValuesOK
  <2> QED BY <1>1, <2>1, <2>3 DEF ValueOf
<1> QED BY <1>2, <1>3

\* The value a call is at stays.
LEMMA ValueKept ==
  ASSUME IInv, pc = "loading", Growing, NEW c, Steady(c), NEW i \in 1..c,
         Frame(i).at \in {"value", "walk"}
  PROVE  ValueOf(Frame(i))' = ValueOf(Frame(i))
<1> DEFINE n == Frame(i).node
<1>1. i \in 1..Depth /\ i # Depth /\ Depth \in Nat /\ Frame(i) \in Calls /\ Frame(i)' = Frame(i)
  BY DepthType DEF Steady
<1>2. Shape(i) /\ Held(i)
  BY <1>1 DEF IInv, Frames
<1>3. n \in Nodes(doc)
  BY <1>1 DEF Calls
<1>4. ASSUME Frame(i).own PROVE val'[n] = val[n]
  <2>1. CASE IsWrapper(n)
    <3>1. val[n] \in visited
      BY <1>2, <1>4, <2>1 DEF Held, ValueOf
    <3>2. val[n] # None /\ doc.kind[n] # "pathItem"
      BY <2>1, <3>1, WellFormedDoc DEF IInv, Types, WellFormed, Nodes, IsWrapper, Wrappers
    <3> QED BY <1>3, <3>2 DEF Growing, Later
  <2>2. CASE doc.kind[n] = "pathItem"
    <3>1. i = 2
      BY <1>2, <2>2 DEF Shape
    <3>2. ASSUME val'[n] # val[n] PROVE FALSE
      <4>1. n = Frame(Depth).node /\ Depth \in 1..Depth
        BY <1>1, <1>3, <2>2, <3>2 DEF Growing
      <4>2. Shape(Depth)
        BY <4>1 DEF IInv, Frames
      <4>3. Depth = 2
        BY <2>2, <4>1, <4>2 DEF Shape
      <4> QED BY <1>1, <3>1, <4>3
    <3> QED BY <3>2
  <2>3. CASE doc.kind[n] \in {"doc", "operation"}
    <3>1. doc.ref[n] = None
      BY <1>3, <2>3, WellFormedDoc DEF WellFormed, Nodes, Wrappers
    <3>2. val[n] = n /\ n # None
      BY <1>3, <3>1, WellFormedDoc DEF IInv, ValuesOK, WellFormed, Nodes
    <3> QED BY <1>3, <2>3, <3>2 DEF Growing, Later
  <2> QED BY <1>3, <2>1, <2>2, <2>3, WellFormedDoc DEF WellFormed, Nodes, IsWrapper
<1> QED BY <1>1, <1>4 DEF ValueOf

LEMMA SteadyFrame ==
  ASSUME IInv, pc = "loading", NEW c, Steady(c), NEW i \in 1..c
  PROVE  /\ i \in 1..Depth /\ i < Depth /\ Depth \in Nat
         /\ Frame(i) \in Calls /\ Frame(i).node \in Nodes(doc) /\ Frame(i)' = Frame(i)
         /\ Shape(i) /\ Held(i) /\ WalkOK(i)
         /\ i > 1 => i - 1 \in 1..c /\ Frame(i - 1)' = Frame(i - 1)
         /\ i < c => CalleeKept(i)
<1>1. i \in 1..Depth /\ i < Depth /\ Depth \in Nat /\ Frame(i) \in Calls /\ Frame(i)' = Frame(i)
  BY DepthType DEF Steady
<1>2. Shape(i) /\ Held(i) /\ WalkOK(i)
  BY <1>1 DEF IInv, Frames
<1>3. i > 1 => i - 1 \in 1..c /\ Frame(i - 1)' = Frame(i - 1)
  BY DEF Steady
<1>4. ASSUME i < c PROVE CalleeKept(i)
  <2>1. i + 1 \in 1..c /\ i \in Nat /\ c \in Nat /\ c <= Depth' /\ Depth' \in Nat
    BY <1>1, <1>4 DEF Steady
  <2>2. Frame(i + 1)' = Frame(i + 1)
    BY <2>1 DEF Steady
  <2> QED BY <2>1, <2>2 DEF CalleeKept
<1> QED BY <1>1, <1>2, <1>3, <1>4 DEF Calls

\* Who made a call stays the one who did.
LEMMA OriginKept ==
  ASSUME IInv, pc = "loading", Growing, NEW c, Steady(c), NEW i \in 1..Depth, i - 1 \in 0..c,
         Frame(i)'.node = Frame(i).node, Frame(i)'.own = Frame(i).own, Frame(i)'.at # "enter"
  PROVE  /\ ~Frame(i).own => CopyFor(i)'
         /\ Frame(i).own /\ i > 1 => CallFrom(i)'
<1>1. Shape(i) /\ doc' = doc /\ i \in Nat /\ (i > 1 => i - 1 \in 1..c)
  BY DEF IInv, Frames, Growing
<1>2. ASSUME ~Frame(i).own PROVE CopyFor(i)'
  <2>1. i > 1 /\ CopyFor(i)
    BY <1>1, <1>2 DEF Shape
  <2> DEFINE ref == doc.ref[Frame(i - 1).node]
  <2>2. i - 1 \in 1..c /\ Frame(i - 1)' = Frame(i - 1)
    BY <1>1, <2>1, SteadyFrame
  <2>3. Frame(i - 1).node \in Nodes(doc) /\ doc.ref[Frame(i - 1).node] # None
    <3>1. Frame(i - 1).node \in Nodes(doc) /\ Shape(i - 1)
      BY <2>2, SteadyFrame
    <3> QED BY <2>1, <3>1 DEF Shape, CopyFor
  <2>4. Len(ref) \in Nat /\ Drilled(doc, val, ref) # None
    <3>1. Frame(i).node \in Nodes(doc)
      BY DepthType DEF Calls
    <3> QED BY <2>1, <2>3, <3>1, WellFormedDoc DEF WellFormed, Nodes, CopyFor
  <2>5. Drilled(doc, val', ref) = Drilled(doc, val, ref)
    BY <2>4, WellFormedDoc, DrilledKept DEF Growing, IInv, Types
  <2> QED BY <1>1, <2>1, <2>2, <2>5 DEF CopyFor, IsWrapper
<1>3. ASSUME Frame(i).own, i > 1 PROVE CallFrom(i)'
  <2>1. CallFrom(i) /\ i - 1 \in 1..c /\ Frame(i - 1)' = Frame(i - 1)
    BY <1>1, <1>3, SteadyFrame DEF Shape
  <2>2. ValueOf(Frame(i - 1))' = ValueOf(Frame(i - 1))
    BY <2>1, ValueKept DEF CallFrom
  <2> QED BY <1>1, <2>1, <2>2 DEF CallFrom
<1> QED BY <1>2, <1>3

LEMMA ShapeKept ==
  ASSUME IInv, pc = "loading", Growing, NEW c, Steady(c), NEW i \in 1..c,
         CalleeKept(i) \/ Frame(i).at # "copied"
  PROVE  Shape(i)'
<1>1. /\ i \in 1..Depth /\ i < Depth /\ Depth \in Nat
      /\ Frame(i) \in Calls /\ Frame(i).node \in Nodes(doc) /\ Frame(i)' = Frame(i)
      /\ Shape(i) /\ doc' = doc
  BY SteadyFrame DEF Growing
<1>2. Frame(i).at \notin {"enter", "value"}
  BY <1>1 DEF Shape
<1>3. (~Frame(i).own => CopyFor(i)') /\ (Frame(i).own /\ i > 1 => CallFrom(i)')
  <2>1. i - 1 \in 0..c
    BY DEF Steady
  <2> QED BY <1>1, <1>2, <2>1, OriginKept
<1>4. ASSUME Frame(i).at = "copied" PROVE i < Depth' /\ ~Frame(i + 1)'.own
  BY <1>1, <1>4 DEF Shape, CalleeKept
<1> QED BY <1>1, <1>2, <1>3, <1>4 DEF Shape, IsWrapper

\* ... and where a call stands does not depend on how far it is.
LEMMA ShapeAgain ==
  ASSUME IInv, pc = "loading", Growing, NEW c, Steady(c), NEW i \in 1..Depth, i = c + 1,
         NEW x \in Calls, Frame(i)' = x, x.node = Frame(i).node, x.own = Frame(i).own,
         Depth' \in Nat, Depth' >= i,
         x.at # "walk" => x.todo = {},
         x.at # "enter", x.at = "value" => Depth' = i,
         x.at = "copied" => IsWrapper(x.node) /\ doc.ref[x.node] # None /\ i < Depth' /\ ~Frame(i + 1)'.own
  PROVE  Shape(i)'
<1>1. Shape(i) /\ doc' = doc /\ i - 1 \in 0..c
  BY DEF IInv, Frames, Growing, Steady
<1>2. (~x.own => CopyFor(i)') /\ (x.own /\ i > 1 => CallFrom(i)')
  BY <1>1, OriginKept
<1> QED BY <1>1, <1>2 DEF Shape, IsWrapper

LEMMA HeldKept ==
  ASSUME IInv, pc = "loading", Growing, NEW c, Steady(c), NEW i \in 1..c
  PROVE  Held(i)'
<1> DEFINE n == Frame(i).node
<1>1. /\ i < Depth /\ n \in Nodes(doc) /\ Frame(i)' = Frame(i)
      /\ Shape(i) /\ Held(i) /\ doc' = doc
  BY SteadyFrame DEF Growing
<1>2. SUFFICES ASSUME Frame(i).at \in {"value", "walk"} 
               PROVE  /\ IsWrapper(n) => /\ ValueOf(Frame(i)) \in visited'
                                         /\ EndsAt(doc, val', n, ValueOf(Frame(i)))
                      /\ doc.kind[n] = "pathItem" /\ doc.ref[n] # None => Copied(doc, val', n)
  <2>1. Frame(i).at \in {"value", "walk"} => ValueOf(Frame(i))' = ValueOf(Frame(i))
    BY ValueKept
  <2> QED BY <1>1, <2>1 DEF Held, IsWrapper
<1>3. IsWrapper(n) => ValueOf(Frame(i)) \in visited' /\ EndsAt(doc, val', n, ValueOf(Frame(i)))
  BY <1>1, <1>2, EndsKept, WellFormedDoc DEF Held, Growing, IInv, Types
<1>4. ASSUME doc.kind[n] = "pathItem", doc.ref[n] # None PROVE Copied(doc, val', n)
  <2>1. Frame(i).own
    BY <1>1, <1>4 DEF Shape, CopyFor, IsWrapper, Wrappers
  <2>2. val'[n] = val[n]
    <3>1. ValueOf(Frame(i))' = ValueOf(Frame(i))
      BY <1>2, ValueKept
    <3> QED BY <1>1, <2>1, <3>1 DEF ValueOf
  <2>3. Copied(doc, val, n)
    BY <1>1, <1>2, <1>4 DEF Held
  <2> QED BY <1>1, <1>4, <2>2, <2>3, CopiedKept, WellFormedDoc DEF Growing, IInv, Types
<1> QED BY <1>3, <1>4

LEMMA FinishedLater ==
  ASSUME IInv, pc = "loading", Growing, NEW n \in Nodes(doc), Finished(doc, val, visited, n),
         doc.kind[n] = "pathItem" => n # Frame(Depth).node
  PROVE  Finished(doc, val', visited', n)
<1>1. doc.kind[n] = "pathItem" => val[n] \in Nodes(doc) /\ doc.kind[val[n]] = "pathItem" /\ val'[n] = val[n]
  BY DEF IInv, ValuesOK, Growing
<1>2. WellFormed(doc) /\ val \in Values(doc) /\ visited \in SUBSET Nodes(doc)
  BY WellFormedDoc DEF IInv, Types
<1> QED BY <1>1, <1>2, FinishedKept DEF Growing

\* A call that waits has behind it what it had, and the call it waits for.
LEMMA WalkLater ==
  ASSUME IInv, pc = "loading", Growing, NEW c, Steady(c), NEW i \in 1..c, Frame(i).at = "walk"
  PROVE  LET walked == Walked(Frame(i).node, ValueOf(Frame(i)))
         IN  /\ Walked(Frame(i).node, ValueOf(Frame(i)))' = walked
             /\ ~Mixed(doc, ValueOf(Frame(i))) /\ ValueOf(Frame(i))' = ValueOf(Frame(i))
             /\ Frame(i).todo \subseteq walked
             /\ \A t \in walked :
                   \/ t \in Frame(i).todo
                   \/ t[3] = Nil /\ LeftOut(doc.kind[Frame(i).node], t[1])
                   \/ t[3] # Nil /\ Finished(doc, val', visited', t[3])
                   \/ Frame(i + 1).node = t[3]
<1> DEFINE v == ValueOf(Frame(i))
           walked == Walked(Frame(i).node, v)
<1>1. /\ i \in 1..Depth /\ i < Depth /\ Depth \in Nat /\ Frame(i).node \in Nodes(doc) /\ Frame(i)' = Frame(i)
      /\ Shape(i) /\ WalkOK(i) /\ doc' = doc
  BY SteadyFrame DEF Growing
<1>2. walked' = walked
  BY <1>1, ValueKept DEF Walked
<1>3. ASSUME NEW t \in walked, t \notin Frame(i).todo, t[3] # Nil, Frame(i + 1).node # t[3]
      PROVE  Finished(doc, val', visited', t[3])
  <2>1. Finished(doc, val, visited, t[3])
    BY <1>1, <1>3 DEF WalkOK
  <2>2. t \in doc.fields[v]
    BY DEF Walked
  <2>3. t[3] \in Nodes(doc)
    BY <1>1, <1>3, <2>2, ValueType, WellFormedDoc DEF WellFormed, Nodes
  <2>4. ASSUME doc.kind[t[3]] = "pathItem", t[3] = Frame(Depth).node PROVE FALSE
    <3>1. Depth \in 1..Depth
      BY <1>1
    <3>2. Depth = 2
      BY <2>4, <3>1 DEF IInv, Frames, Shape
    <3> QED BY <1>1, <1>3, <2>4, <3>2
  <2> QED BY <2>1, <2>3, <2>4, FinishedLater
<1>4. ValueOf(Frame(i))' = ValueOf(Frame(i))
  BY ValueKept
<1> QED BY <1>1, <1>2, <1>3, <1>4 DEF WalkOK

LEMMA WalkKept ==
  ASSUME IInv, pc = "loading", Growing, NEW c, Steady(c), NEW i \in 1..c, CalleeKept(i)
  PROVE  WalkOK(i)'
<1>1. Frame(i)' = Frame(i) /\ doc' = doc /\ i < Depth' /\ Frame(i + 1)'.node = Frame(i + 1).node
  BY SteadyFrame DEF Growing, CalleeKept
<1>2. SUFFICES ASSUME Frame(i).at = "walk" PROVE WalkOK(i)'
  BY <1>1 DEF WalkOK
<1> QED BY <1>1, <1>2, WalkLater DEF WalkOK, Mixed

\* What was visited and is done with stays so; so does a call that is at it.
LEMMA ColourKept ==
  ASSUME IInv, pc = "loading", Growing, NEW c, Steady(c), NEW v \in visited
  PROVE  /\ Black(doc, val, visited, v) => Black(doc, val', visited', v)
         /\ \A i \in 1..c : Frame(i).at \in {"value", "walk"} /\ IsWrapper(Frame(i).node) /\ ValueOf(Frame(i)) = v
               => Grey(v)'
<1>1. v \in Nodes(doc) /\ doc.kind[v] \in Wrappers
  BY DEF IInv, Types, ValuesOK, IsWrapper
<1>2. Black(doc, val, visited, v) => Black(doc, val', visited', v)
  BY <1>1, BlackKept, WellFormedDoc DEF Growing, IInv, Types
<1>3. ASSUME NEW i \in 1..c, Frame(i).at \in {"value", "walk"}, IsWrapper(Frame(i).node), ValueOf(Frame(i)) = v
      PROVE  Grey(v)'
  <2>1. Frame(i)' = Frame(i) /\ ValueOf(Frame(i))' = v /\ IsWrapper(Frame(i).node)' /\ i \in 1..Depth'
    BY <1>3, SteadyFrame, ValueKept DEF IsWrapper, Growing, Steady
  <2> QED BY <1>3, <2>1 DEF Grey
<1> QED BY <1>2, <1>3

LEMMA NothingChanges ==
  ASSUME IInv, doc' = doc, val' = val, visited' \in SUBSET Nodes(doc), visited \subseteq visited'
  PROVE  Growing
<1> QED BY DEF Growing, Later, IInv, Types

\* The call at the top goes on.
LEMMA Relabel ==
  ASSUME IInv, pc = "loading", Growing, NEW x \in Calls, stack' = <<x>> \o Tail(stack),
         x.node = Top.node, x.own = Top.own, NEW D, D = Depth
  PROVE  /\ D \in Nat /\ D >= 1 /\ Depth' = D /\ Frame(D) = Top /\ Frame(D)' = x
         /\ stack' \in Seq(Calls') /\ Len(stack') <= MaxDepth /\ stack' # <<>>
         /\ Steady(D - 1)
         /\ \A i \in 1..(D - 1) : Shape(i)' /\ Held(i)' /\ WalkOK(i)'
<1>1. stack \in Seq(Calls) /\ stack # <<>> /\ Len(stack) <= MaxDepth /\ Calls' = Calls
  BY DEF IInv, Types, Growing, Calls, Nodes, Places
<1>2. /\ D \in Nat /\ D >= 1 /\ D = Len(stack) /\ Frame(D) = Top
      /\ stack' \in Seq(Calls) /\ stack' # <<>> /\ Len(stack') = D
      /\ FrameIn(stack', D) = x
      /\ \A i \in 1..(D - 1) : FrameIn(stack', i) = FrameIn(stack, i)
  <2>1. D \in Nat /\ D >= 1 /\ D = Len(stack) /\ Frame(D) = Top
    BY DepthType DEF Depth
  <2>2. /\ stack' \in Seq(Calls) /\ stack' # <<>> /\ Len(stack') = Len(stack)
        /\ FrameIn(stack', Len(stack)) = x
        /\ \A i \in 1..(Len(stack) - 1) : FrameIn(stack', i) = FrameIn(stack, i)
    <3>1. stack' = Relabelling(stack, x)
      BY DEF Relabelling
    <3>2. PICK s2 : s2 = stack'
      OBVIOUS
    <3>3. /\ s2 \in Seq(Calls) /\ s2 # <<>> /\ Len(s2) = Len(stack)
          /\ FrameIn(s2, Len(stack)) = x
          /\ \A i \in 1..(Len(stack) - 1) : FrameIn(s2, i) = FrameIn(stack, i)
      BY <1>1, <3>1, <3>2, Relabelled
    <3> QED BY <3>2, <3>3
  <2> QED BY <2>1, <2>2
<1>3. Depth' = D /\ Frame(D)' = x /\ \A i \in 1..(D - 1) : Frame(i)' = Frame(i)
  BY <1>2 DEF Frame, Depth
<1>4. Steady(D - 1)
  BY <1>2, <1>3 DEF Steady
<1>5. ASSUME NEW i \in 1..(D - 1) PROVE CalleeKept(i)
  <2>1. CASE i < D - 1
    BY <1>4, <2>1, SteadyFrame
  <2>2. CASE i = D - 1
    <3>1. i + 1 = D /\ i < D
      BY <1>2, <2>2
    <3> QED BY <1>2, <1>3, <3>1 DEF CalleeKept
  <2> QED BY <1>2, <2>1, <2>2
<1>6. ASSUME NEW i \in 1..(D - 1) PROVE Shape(i)' /\ Held(i)' /\ WalkOK(i)'
  BY <1>4, <1>5, ShapeKept, HeldKept, WalkKept
<1> QED BY <1>1, <1>2, <1>3, <1>4, <1>6

\* The call at the top makes another one.
LEMMA Push ==
  ASSUME IInv, pc = "loading", Growing, NEW x \in Calls, NEW y \in Calls,
         stack' = <<y, x>> \o Tail(stack), Len(stack) < MaxDepth,
         x.node = Top.node, x.own = Top.own, NEW D, D = Depth
  PROVE  /\ D \in Nat /\ D >= 1 /\ Depth' = D + 1 /\ Frame(D) = Top /\ Frame(D)' = x /\ Frame(D + 1)' = y
         /\ stack' \in Seq(Calls') /\ Len(stack') <= MaxDepth /\ stack' # <<>>
         /\ Steady(D - 1)
         /\ \A i \in 1..(D - 1) : Shape(i)' /\ Held(i)' /\ WalkOK(i)'
<1>1. stack \in Seq(Calls) /\ stack # <<>> /\ Len(stack) < MaxDepth /\ Calls' = Calls /\ MaxDepth \in Nat
  BY WellFormedDoc DEF IInv, Types, Growing, Calls, Nodes, Places
<1>2. /\ D \in Nat /\ D >= 1 /\ D = Len(stack) /\ Frame(D) = Top
      /\ stack' \in Seq(Calls) /\ stack' # <<>> /\ Len(stack') = D + 1
      /\ FrameIn(stack', D) = x /\ FrameIn(stack', D + 1) = y
      /\ \A i \in 1..(D - 1) : FrameIn(stack', i) = FrameIn(stack, i)
  <2>1. D \in Nat /\ D >= 1 /\ D = Len(stack) /\ Frame(D) = Top
    BY DepthType DEF Depth
  <2>2. PICK s2 : s2 = stack' /\ s2 = Pushing(stack, y, x)
    BY DEF Pushing
  <2>3. /\ s2 \in Seq(Calls) /\ s2 # <<>> /\ Len(s2) = Len(stack) + 1
        /\ FrameIn(s2, Len(stack) + 1) = y /\ FrameIn(s2, Len(stack)) = x
        /\ \A i \in 1..(Len(stack) - 1) : FrameIn(s2, i) = FrameIn(stack, i)
    <3>1. s2 = Pushing(stack, y, x)
      BY <2>2
    <3> QED BY ONLY <1>1, <3>1, x \in Calls, y \in Calls, Pushed
  <2> QED BY <2>1, <2>2, <2>3
<1>3. Depth' = D + 1 /\ Frame(D)' = x /\ Frame(D + 1)' = y /\ \A i \in 1..(D - 1) : Frame(i)' = Frame(i)
  BY <1>2 DEF Frame, Depth
<1>4. Steady(D - 1)
  BY <1>2, <1>3 DEF Steady
<1>5. ASSUME NEW i \in 1..(D - 1) PROVE CalleeKept(i)
  <2>1. CASE i < D - 1
    BY <1>4, <2>1, SteadyFrame
  <2>2. CASE i = D - 1
    <3>1. i + 1 = D /\ i < D + 1
      BY <1>2, <2>2
    <3> QED BY <1>2, <1>3, <3>1 DEF CalleeKept
  <2> QED BY <1>2, <2>1, <2>2
<1>6. ASSUME NEW i \in 1..(D - 1) PROVE Shape(i)' /\ Held(i)' /\ WalkOK(i)'
  BY <1>4, <1>5, ShapeKept, HeldKept, WalkKept
<1> QED BY <1>1, <1>2, <1>3, <1>4, <1>6

\* The call at the top returns; the one that made it goes on walking.
LEMMA Pop ==
  ASSUME IInv, pc = "loading", Growing, Top.own, stack' = Tail(stack), NEW D, D = Depth,
         D > 1 => Finished(doc, val', visited', Top.node)
  PROVE  /\ D \in Nat /\ D >= 1 /\ Depth' = D - 1 /\ Frame(D) = Top
         /\ stack' \in Seq(Calls') /\ Len(stack') <= MaxDepth /\ (stack' = <<>> <=> D = 1)
         /\ Steady(D - 1)
         /\ D > 1 => Frame(D - 1)' = Frame(D - 1) /\ Frame(D - 1).at = "walk"
         /\ \A i \in 1..(D - 1) : Shape(i)' /\ Held(i)' /\ WalkOK(i)'
<1>1. stack \in Seq(Calls) /\ stack # <<>> /\ Len(stack) <= MaxDepth /\ Calls' = Calls /\ MaxDepth \in Nat
  BY WellFormedDoc DEF IInv, Types, Growing, Calls, Nodes, Places
<1>2. /\ D \in Nat /\ D >= 1 /\ D = Len(stack) /\ Frame(D) = Top
      /\ stack' \in Seq(Calls) /\ (stack' = <<>> <=> D = 1) /\ Len(stack') = D - 1
      /\ \A i \in 1..(D - 1) : FrameIn(stack', i) = FrameIn(stack, i)
  <2>1. D \in Nat /\ D >= 1 /\ D = Len(stack) /\ Frame(D) = Top
    BY DepthType DEF Depth
  <2>2. PICK s2 : s2 = stack' /\ s2 = Tail(stack)
    OBVIOUS
  <2>3. /\ s2 \in Seq(Calls) /\ Len(s2) = Len(stack) - 1 /\ (s2 = <<>> <=> Len(stack) = 1)
        /\ \A i \in 1..(Len(stack) - 1) : FrameIn(s2, i) = FrameIn(stack, i)
    BY <1>1, <2>2, Popped
  <2> QED BY <2>1, <2>2, <2>3
<1>3. Depth' = D - 1 /\ \A i \in 1..(D - 1) : Frame(i)' = Frame(i)
  BY <1>2 DEF Frame, Depth
<1>4. Steady(D - 1)
  BY <1>2, <1>3 DEF Steady
<1>5. ASSUME D > 1 PROVE D - 1 \in 1..(D - 1) /\ Frame(D - 1)' = Frame(D - 1) /\ Frame(D - 1).at = "walk"
  <2>1. D \in 1..Depth /\ D - 1 \in 1..(D - 1)
    BY <1>2, <1>5
  <2>2. Shape(D)
    BY <2>1 DEF IInv, Frames
  <2>3. CallFrom(D)
    BY <1>2, <1>5, <2>2 DEF Shape
  <2> QED BY <1>3, <2>1, <2>3 DEF CallFrom
<1>6. ASSUME NEW i \in 1..(D - 1) PROVE Shape(i)' /\ Held(i)' /\ WalkOK(i)'
  <2>1. CASE i < D - 1
    BY <1>4, <2>1, SteadyFrame, ShapeKept, HeldKept, WalkKept
  <2>2. CASE i = D - 1
    <3>1. D > 1 /\ Frame(i).at = "walk" /\ i + 1 = D /\ i < D /\ Frame(i)' = Frame(i)
      BY <1>2, <1>5, <2>2
    <3>2. Shape(i)' /\ Held(i)'
      BY <1>4, <3>1, ShapeKept, HeldKept
    <3>3. WalkOK(i)'
      <4>1. Finished(doc, val', visited', Frame(i + 1).node)
        BY <1>2, <3>1
      <4>2. Frame(i + 1).node # Nil
        BY <1>2, <3>1, DepthType, WellFormedDoc DEF Calls, WellFormed, Nodes
      <4> QED BY <1>4, <3>1, <4>1, <4>2, WalkLater DEF WalkOK, Growing, Mixed
    <3> QED BY <3>2, <3>3
  <2> QED BY <1>2, <2>1, <2>2
<1> QED BY <1>1, <1>2, <1>3, <1>4, <1>5, <1>6

\* The call at the top returns to the one that copied a component for it.
LEMMA Back ==
  ASSUME IInv, pc = "loading", Growing, NEW x \in Calls, stack' = <<x>> \o Tail(Tail(stack)),
         NEW D, D = Depth, D > 1, x.node = Frame(D - 1).node, x.own = Frame(D - 1).own
  PROVE  /\ D \in Nat /\ Depth' = D - 1 /\ Frame(D) = Top /\ Frame(D - 1)' = x
         /\ stack' \in Seq(Calls') /\ Len(stack') <= MaxDepth /\ stack' # <<>>
         /\ Steady(D - 2)
         /\ \A i \in 1..(D - 2) : Shape(i)' /\ Held(i)' /\ WalkOK(i)'
<1>1. stack \in Seq(Calls) /\ stack # <<>> /\ Len(stack) <= MaxDepth /\ Calls' = Calls /\ MaxDepth \in Nat
  BY WellFormedDoc DEF IInv, Types, Growing, Calls, Nodes, Places
<1>2. /\ D \in Nat /\ D >= 2 /\ D = Len(stack) /\ Frame(D) = Top
      /\ stack' \in Seq(Calls) /\ stack' # <<>> /\ Len(stack') = D - 1
      /\ FrameIn(stack', D - 1) = x
      /\ \A i \in 1..(D - 2) : FrameIn(stack', i) = FrameIn(stack, i)
  <2>1. D \in Nat /\ D >= 2 /\ D = Len(stack) /\ Frame(D) = Top
    BY DepthType DEF Depth
  <2>2. PICK s2 : s2 = stack' /\ s2 = Returning(stack, x)
    BY DEF Returning
  <2>3. /\ s2 \in Seq(Calls) /\ s2 # <<>> /\ Len(s2) = Len(stack) - 1
        /\ FrameIn(s2, Len(stack) - 1) = x
        /\ \A i \in 1..(Len(stack) - 2) : FrameIn(s2, i) = FrameIn(stack, i)
    <3>1. s2 = Returning(stack, x) /\ Len(stack) >= 2
      BY <2>1, <2>2
    <3> QED BY ONLY <1>1, <3>1, x \in Calls, Returned
  <2> QED BY <2>1, <2>2, <2>3
<1>3. Depth' = D - 1 /\ Frame(D - 1)' = x /\ \A i \in 1..(D - 2) : Frame(i)' = Frame(i)
  BY <1>2 DEF Frame, Depth
<1>4. Steady(D - 2)
  BY <1>2, <1>3 DEF Steady
<1>5. ASSUME NEW i \in 1..(D - 2) PROVE CalleeKept(i)
  <2>1. CASE i < D - 2
    BY <1>4, <2>1, SteadyFrame
  <2>2. CASE i = D - 2
    <3>1. i + 1 = D - 1 /\ i < D - 1
      BY <1>2, <2>2
    <3> QED BY <1>2, <1>3, <3>1 DEF CalleeKept
  <2> QED BY <1>2, <2>1, <2>2
<1>6. ASSUME NEW i \in 1..(D - 2) PROVE Shape(i)' /\ Held(i)' /\ WalkOK(i)'
  BY <1>4, <1>5, ShapeKept, HeldKept, WalkKept
<1> QED BY <1>1, <1>2, <1>3, <1>4, <1>6

-----------------------------------------------------------------------------
(* The steps, one by one.                                                   *)

LEMMA FailKeeps ==
  ASSUME IInv, pc = "loading", doc' = doc, val' = val, visited' = visited,
         NEW how \in {"refused", "panicked", "overflow"}, Fail(how)
  PROVE  IInv'
<1>1. pc' = how /\ stack' = <<>> /\ Len(stack') = 0 /\ Depth' = 0
  BY DEF Fail, Depth
<1>2. Types'
  <2>1. stack' \in Seq(Calls') /\ Len(stack') <= MaxDepth
    BY <1>1, WellFormedDoc
  <2> QED BY <1>1, <2>1 DEF IInv, Types, Values, Nodes
<1>3. ValuesOK'
  BY DEF IInv, ValuesOK, Nodes, EndsAt, Closed, Refers, IsWrapper
<1>4. Frames'
  BY <1>1 DEF Frames
<1>5. Fresh' /\ Colours' /\ RootDone'
  BY <1>1 DEF Fresh, Colours, RootDone
<1> QED BY <1>2, <1>3, <1>4, <1>5 DEF IInv

\* The call at the top, before a step.
LEMMA TopFacts ==
  ASSUME IInv, pc = "loading", NEW D, D = Depth
  PROVE  /\ D \in Nat /\ D >= 1 /\ D \in 1..Depth /\ Top = Frame(D) /\ Top \in Calls /\ Top.node \in Nodes(doc)
         /\ Shape(D) /\ Held(D) /\ WalkOK(D)
         /\ Top.at # "walk" => Top.todo = {}
         /\ Value = ValueOf(Frame(D))
         /\ Top.at = "enter" => Value = val[Top.node]
         /\ Kind = doc.kind[Top.node] /\ Ref = doc.ref[Top.node]
<1>1. D \in Nat /\ D >= 1 /\ D \in 1..Depth /\ Top = Frame(D) /\ Top \in Calls
  BY DepthType
<1>2. Shape(D) /\ Held(D) /\ WalkOK(D)
  BY <1>1 DEF IInv, Frames
<1>3. Value = ValueOf(Frame(D))
  BY <1>1 DEF Value, ValueOf
<1>4. Top.at = "enter" => Value = val[Top.node]
  BY <1>1, <1>2 DEF Shape, CopyFor, Value
<1> QED BY <1>1, <1>2, <1>3, <1>4 DEF Calls, Shape, Kind, Ref

LEMMA ValuesSame ==
  ASSUME IInv, doc' = doc, val' = val, visited \subseteq visited',
         \A v \in visited' : IsWrapper(v) /\ doc.ref[v] = None
  PROVE  ValuesOK'
<1> QED BY DEF IInv, ValuesOK, Nodes, EndsAt, Closed, Refers, IsWrapper

\* No value is forgotten: its call is below the top, or at the top and stays
\* with it, or has done all that is below it.
LEMMA ColoursStay ==
  ASSUME IInv, pc = "loading", Growing, NEW D, D = Depth, NEW c, Steady(c), NEW v \in visited,
         \A i \in (c + 1)..D : Frame(i).at \in {"value", "walk"} /\ IsWrapper(Frame(i).node) /\ ValueOf(Frame(i)) = v
            => Grey(v)' \/ Black(doc, val', visited', v)
  PROVE  Black(doc, val', visited', v) \/ Grey(v)'
<1>1. Black(doc, val, visited, v) \/ Grey(v)
  BY DEF IInv, Colours
<1>2. CASE Black(doc, val, visited, v)
  BY <1>2, ColourKept
<1>3. CASE Grey(v)
  <2>1. PICK i \in 1..D : Frame(i).at \in {"value", "walk"} /\ IsWrapper(Frame(i).node) /\ ValueOf(Frame(i)) = v
    BY <1>3 DEF Grey
  <2>2. i \in 1..c \/ i \in (c + 1)..D
    BY TopFacts DEF Steady
  <2> QED BY <2>1, <2>2, ColourKept
<1> QED BY <1>1, <1>2, <1>3

LEMMA InlineKeeps ==
  ASSUME IInv, Inline
  PROVE  IInv'
<1>1. PICK D, n, x : D = Depth /\ n = Top.node /\ x = [Top EXCEPT !.at = "value"]
  OBVIOUS
<1>2. /\ pc = "loading" /\ pc' = "loading" /\ doc' = doc /\ val' = val
      /\ Top.at = "enter" /\ ~Seen /\ Ref = None /\ visited' = Mark /\ stack' = <<x>> \o Tail(stack)
  BY <1>1 DEF Inline, At
<1>3. /\ D \in Nat /\ D >= 1 /\ D \in 1..D /\ Top = Frame(D) /\ Top \in Calls /\ n \in Nodes(doc)
      /\ Shape(D) /\ Top.todo = {} /\ Value = ValueOf(Frame(D)) /\ Value = val[n]
      /\ Kind = doc.kind[n] /\ doc.ref[n] = None
  BY <1>1, <1>2, TopFacts
<1>4. Value = n /\ n # None
  BY <1>3, WellFormedDoc DEF IInv, ValuesOK, WellFormed, Nodes
<1>5. /\ visited \subseteq visited' /\ visited' \in SUBSET Nodes(doc)
      /\ IsWrapper(n) => n \in visited'
      /\ \A v \in visited' : v \in visited \/ (v = n /\ IsWrapper(n))
  BY <1>2, <1>3, <1>4 DEF Mark, IInv, Types, IsWrapper
<1>6. Growing
  BY <1>2, <1>5, NothingChanges
<1>7. /\ x \in Calls /\ x.node = Top.node /\ x.own = Top.own /\ x.local = Top.local
      /\ x.node = n /\ x.node = Frame(D).node /\ x.own = Frame(D).own /\ x.at = "value" /\ x.todo = {}
  BY <1>1, <1>3 DEF Calls
<1>8. /\ Depth' = D /\ Frame(D)' = x /\ Steady(D - 1)
      /\ stack' \in Seq(Calls') /\ Len(stack') <= MaxDepth /\ stack' # <<>>
      /\ \A i \in 1..(D - 1) : Shape(i)' /\ Held(i)' /\ WalkOK(i)'
  BY <1>1, <1>2, <1>6, <1>7, Relabel
<1>9. Types'
  BY <1>2, <1>5, <1>8 DEF IInv, Types, Values, Nodes
<1>10. ValuesOK'
  BY <1>2, <1>3, <1>5, ValuesSame DEF IInv, ValuesOK
<1>11. ValueOf(x)' = n
  BY <1>2, <1>3, <1>4, <1>7 DEF ValueOf
<1>12. Frames'
  <2>1. Shape(D)'
    <3>1. D \in 1..Depth /\ D = (D - 1) + 1 /\ Depth' \in Nat /\ Depth' >= D /\ x.at # "enter" /\ x.at # "copied"
      BY <1>1, <1>3, <1>7, <1>8
    <3> QED BY <1>2, <1>6, <1>7, <1>8, <3>1, ShapeAgain
  <2>2. Held(D)'
    <3>1. IsWrapper(n) => EndsAt(doc, val', n, n)
      BY <1>3, EndsItself
    <3> QED BY <1>2, <1>3, <1>5, <1>7, <1>8, <1>11, <3>1 DEF Held, IsWrapper
  <2>3. WalkOK(D)'
    BY <1>7, <1>8 DEF WalkOK
  <2> QED BY <1>3, <1>8, <2>1, <2>2, <2>3 DEF Frames
<1>13. Fresh'
  <2>1. ASSUME NEW m \in Nodes(doc), doc.kind[m] = "pathItem", val[m] # m
        PROVE  /\ Frame(1)'.at = "walk" /\ \A t \in Frame(1)'.todo : t[3] # m
    <3>1. Frame(1).at = "walk" /\ \A t \in Frame(1).todo : t[3] # m
      BY <1>2, <2>1 DEF IInv, Fresh
    <3>2. Frame(1)' = Frame(1)
      BY <1>2, <1>3, <1>8, <3>1 DEF Steady
    <3> QED BY <3>1, <3>2
  <2> QED BY <1>2, <1>7, <1>8, <2>1 DEF Fresh, Nodes
<1>14. Colours'
  <2>1. ASSUME NEW v \in visited' PROVE Black(doc, val', visited', v) \/ Grey(v)'
    <3>1. CASE v \in visited
      <4>1. \A i \in ((D - 1) + 1)..D : i = D
        BY <1>3
      <4> QED BY <1>1, <1>2, <1>3, <1>6, <1>8, <3>1, <4>1, ColoursStay
    <3>2. CASE v = n /\ IsWrapper(n)
      BY <1>2, <1>3, <1>7, <1>8, <1>11, <3>2 DEF Grey, IsWrapper
    <3> QED BY <1>5, <2>1, <3>1, <3>2
  <2> QED BY <1>2, <2>1 DEF Colours
<1>15. RootDone'
  BY <1>2 DEF RootDone
<1> QED BY <1>9, <1>10, <1>12, <1>13, <1>14, <1>15 DEF IInv

\* All that is below a value is walked: of a document, all but the links.
LEMMA WalkedAll ==
  ASSUME IInv, NEW n \in Nodes(doc), NEW v \in Nodes(doc), doc.kind[v] = doc.kind[n]
  PROVE  /\ Walked(n, v) \in SUBSET doc.fields[v]
         /\ \A t \in doc.fields[v] : t \in Walked(n, v) \/ (n = Root /\ t[1] = "links")
<1>1. WellFormed(doc)
  BY WellFormedDoc
<1>2. \A t \in doc.fields[v] : \/ doc.kind[v] = "doc" /\ t[1] = "links"
                               \/ \E k \in DOMAIN Slots(doc.kind[v]) : Slots(doc.kind[v])[k] = t[1]
  BY <1>1 DEF WellFormed, Nodes
<1>3. doc.kind[n] = "doc" => n = Root
  BY <1>1 DEF WellFormed, Nodes
<1> QED BY <1>2, <1>3 DEF Walked

LEMMA OpenKeeps ==
  ASSUME IInv, OpenValue
  PROVE  IInv'
<1>0. /\ pc = "loading" /\ doc' = doc /\ val' = val /\ visited' = visited /\ Top.at = "value"
      /\ Ambiguous => Fail("refused")
  BY DEF OpenValue, At
<1>1. CASE Ambiguous
  BY <1>0, <1>1, FailKeeps
<1>2. CASE ~Ambiguous
  <2>1. PICK D, n, v, x : /\ D = Depth /\ n = Top.node /\ v = Value
                          /\ x = [Top EXCEPT !.at = "walk", !.todo = IF Value = None THEN {} ELSE Walked(Top.node, Value)]
    OBVIOUS
  <2>2. pc' = "loading" /\ stack' = <<x>> \o Tail(stack)
    BY <1>0, <1>2, <2>1 DEF OpenValue
  <2>3. /\ D \in Nat /\ D >= 1 /\ D \in 1..D /\ Top = Frame(D) /\ Top \in Calls /\ n \in Nodes(doc)
        /\ Held(D) /\ v = ValueOf(Frame(D))
    BY <1>0, <2>1, TopFacts
  <2>4. v \in Nodes(doc) /\ v # None /\ doc.kind[v] = doc.kind[n]
    BY <1>0, <2>1, <2>3, ValueType, WellFormedDoc DEF WellFormed, Nodes
  <2>5. Walked(n, v) \in SUBSET Places(doc)
    BY <2>3, <2>4, WalkedAll DEF Places
  <2>6. Growing
    BY <1>0, NothingChanges DEF IInv, Types
  <2>7. /\ x \in Calls /\ x.node = Top.node /\ x.own = Top.own /\ x.local = Top.local
        /\ x.node = n /\ x.node = Frame(D).node /\ x.own = Frame(D).own
        /\ x.at = "walk" /\ x.todo = Walked(n, v)
    BY <2>1, <2>3, <2>4, <2>5 DEF Calls
  <2>8. /\ Depth' = D /\ Frame(D)' = x /\ Steady(D - 1)
        /\ stack' \in Seq(Calls') /\ Len(stack') <= MaxDepth /\ stack' # <<>>
        /\ \A i \in 1..(D - 1) : Shape(i)' /\ Held(i)' /\ WalkOK(i)'
    BY <1>0, <2>1, <2>2, <2>6, <2>7, Relabel
  <2>9. Types'
    BY <1>0, <2>2, <2>8 DEF IInv, Types, Values, Nodes
  <2>10. ValuesOK'
    BY <1>0, ValuesSame DEF IInv, ValuesOK
  <2>11. ValueOf(x)' = v /\ ValueOf(x) = v
    BY <1>0, <2>3, <2>7 DEF ValueOf
  <2>12. Frames'
    <3>1. Shape(D)'
      <4>1. D \in 1..Depth /\ D = (D - 1) + 1 /\ Depth' \in Nat /\ Depth' >= D /\ x.at \notin {"enter", "value", "copied"}
        BY <2>1, <2>3, <2>7, <2>8
      <4> QED BY <1>0, <2>6, <2>7, <2>8, <4>1, ShapeAgain
    <3>2. Held(D)'
      <4>1. /\ IsWrapper(n) => v \in visited /\ EndsAt(doc, val, n, v)
            /\ doc.kind[n] = "pathItem" /\ doc.ref[n] # None => Copied(doc, val, n)
        BY <1>0, <2>1, <2>3 DEF Held
      <4>2. Frame(D)'.node = n /\ ValueOf(Frame(D))' = v /\ doc' = doc /\ val' = val /\ visited' = visited
        BY <1>0, <2>7, <2>8, <2>11
      <4> QED BY <4>1, <4>2 DEF Held, IsWrapper
    <3>3. WalkOK(D)'
      <4>1. ~Mixed(doc, v)
        BY <1>2, <2>1, <2>4 DEF Ambiguous, Mixed, Kind
      <4> QED BY <1>0, <2>7, <2>8, <2>11, <4>1 DEF WalkOK, Walked, Mixed
    <3> QED BY <2>3, <2>8, <3>1, <3>2, <3>3 DEF Frames
  <2>13. Fresh'
    <3>1. ASSUME NEW m \in Nodes(doc), doc.kind[m] = "pathItem", val[m] # m
          PROVE  /\ Frame(1)'.at = "walk" /\ \A t \in Frame(1)'.todo : t[3] # m
      <4>1. Frame(1).at = "walk" /\ \A t \in Frame(1).todo : t[3] # m
        BY <1>0, <3>1 DEF IInv, Fresh
      <4>2. Frame(1)' = Frame(1)
        BY <1>0, <2>3, <2>8, <4>1 DEF Steady
      <4> QED BY <4>1, <4>2
    <3> QED BY <1>0, <2>7, <2>8, <3>1 DEF Fresh, Nodes
  <2>14. Colours'
    <3>1. ASSUME NEW u \in visited PROVE Black(doc, val', visited', u) \/ Grey(u)'
      <4>1. \A i \in ((D - 1) + 1)..D : i = D
        BY <2>3
      <4>2. IsWrapper(Frame(D).node) /\ ValueOf(Frame(D)) = u => Grey(u)'
        BY <1>0, <2>3, <2>7, <2>8, <2>11 DEF Grey, IsWrapper
      <4> QED BY <1>0, <2>1, <2>6, <2>8, <4>1, <4>2, ColoursStay
    <3> QED BY <1>0, <3>1 DEF Colours
  <2>15. RootDone'
    BY <2>2 DEF RootDone
  <2> QED BY <2>9, <2>10, <2>12, <2>13, <2>14, <2>15 DEF IInv
<1> QED BY <1>1, <1>2

\* What is walked: places of the value the call is at.
LEMMA TopWalk ==
  ASSUME IInv, pc = "loading", Top.at = "walk", NEW D, D = Depth, NEW n, n = Top.node, NEW v, v = Value
  PROVE  /\ v \in Nodes(doc) /\ doc.kind[v] = doc.kind[n]
         /\ Top.todo \subseteq Walked(n, v) /\ Walked(n, v) \subseteq doc.fields[v] /\ ~Mixed(doc, v)
         /\ \A t \in Walked(n, v) :
               /\ \/ t \in Top.todo
                  \/ t[3] = Nil /\ LeftOut(doc.kind[n], t[1])
                  \/ t[3] # Nil /\ Finished(doc, val, visited, t[3])
               /\ t[3] # Nil => /\ t[3] \in Nodes(doc) /\ t[3] # Root
                                /\ doc.kind[t[3]] = "pathItem" => n = Root /\ v = Root
                                /\ \A u \in doc.fields[v] : u[3] = t[3] => u = t
<1>1. /\ D \in Nat /\ D \in 1..Depth /\ Top = Frame(D) /\ n \in Nodes(doc) /\ WalkOK(D) /\ v = ValueOf(Frame(D))
  BY TopFacts
<1>2. v \in Nodes(doc) /\ doc.kind[v] = doc.kind[n]
  BY <1>1, ValueType
<1>3. Walked(n, v) \subseteq doc.fields[v]
  BY <1>1, <1>2, WalkedAll
<1>4. ASSUME NEW t \in Walked(n, v)
      PROVE  \/ t \in Top.todo
             \/ t[3] = Nil /\ LeftOut(doc.kind[n], t[1])
             \/ t[3] # Nil /\ Finished(doc, val, visited, t[3])
  BY <1>1 DEF WalkOK
<1>5. ASSUME NEW t \in Walked(n, v), t[3] # Nil
      PROVE  /\ t[3] \in Nodes(doc) /\ t[3] # Root
             /\ doc.kind[t[3]] = "pathItem" => n = Root /\ v = Root
             /\ \A u \in doc.fields[v] : u[3] = t[3] => u = t
  <2>1. WellFormed(doc) /\ t \in doc.fields[v]
    BY <1>3, WellFormedDoc
  <2>2. t[3] \in Nodes(doc) /\ doc.kind[t[3]] \in KindBelow(doc.kind[v], t[1])
    BY <1>2, <1>5, <2>1, StandsBelow DEF WellFormed, Nodes
  <2>3. doc.kind[t[3]] # "doc"
    BY <2>2 DEF KindBelow, Wrappers
  <2>4. doc.kind[t[3]] = "pathItem" => doc.kind[v] = "doc"
    BY <2>2 DEF KindBelow, Wrappers
  <2>5. \A u \in doc.fields[v] : u[3] = t[3] => u = t
    BY <1>2, <1>5, <2>1 DEF WellFormed, Nodes
  <2> QED BY <1>1, <1>2, <2>1, <2>2, <2>3, <2>4, <2>5 DEF WellFormed, Nodes
<1> QED BY <1>1, <1>2, <1>3, <1>4, <1>5 DEF WalkOK

\* A component below is called for, or a nil one is left out.
LEMMA DescendKeeps ==
  ASSUME IInv, Descend
  PROVE  IInv'
<1>1. /\ pc = "loading" /\ doc' = doc /\ val' = val /\ visited' = visited /\ Top.at = "walk"
  BY DEF Descend, At
<1>2. PICK t \in Top.todo :
         LET after == [Top EXCEPT !.todo = @ \ {t}]
         IN  /\ t[3] # Nil => Call(after, t[3], TRUE)
             /\ t[3] = Nil =>
                   \/ LeftOut(Kind, t[1]) /\ stack' = <<after>> \o Tail(stack) /\ UNCHANGED pc
                   \/ Fail(IF t[1] = "content" THEN "panicked" ELSE "refused")
  BY DEF Descend
<1>3. PICK D, n, v, x : /\ D = Depth /\ n = Top.node /\ v = Value /\ x = [Top EXCEPT !.todo = Top.todo \ {t}]
  OBVIOUS
<1>4. /\ D \in Nat /\ D >= 1 /\ D \in 1..Depth /\ Top = Frame(D) /\ Top \in Calls /\ n \in Nodes(doc)
      /\ Shape(D) /\ Held(D) /\ v = ValueOf(Frame(D)) /\ Kind = doc.kind[n]
  BY <1>1, <1>3, TopFacts
<1>5. /\ v \in Nodes(doc) /\ doc.kind[v] = doc.kind[n] /\ t \in Walked(n, v)
      /\ Top.todo \subseteq Walked(n, v) /\ Walked(n, v) \subseteq doc.fields[v]
      /\ ~Mixed(doc, v)
      /\ \A u \in Walked(n, v) : \/ u \in Top.todo
                                 \/ u[3] = Nil /\ LeftOut(doc.kind[n], u[1])
                                 \/ u[3] # Nil /\ Finished(doc, val, visited, u[3])
  BY <1>1, <1>3, TopWalk
<1>6. Growing
  BY <1>1, NothingChanges DEF IInv, Types
<1>7. /\ x \in Calls /\ x.node = Top.node /\ x.own = Top.own /\ x.local = Top.local
      /\ x.node = n /\ x.node = Frame(D).node /\ x.own = Frame(D).own
      /\ x.at = "walk" /\ x.todo = Top.todo \ {t}
  BY <1>1, <1>3, <1>4 DEF Calls
<1>8. ValueOf(x)' = v /\ ValueOf(x) = v
  BY <1>1, <1>4, <1>7 DEF ValueOf
\* What holds whether there is a call or not.
<1>9. ASSUME pc' = "loading", Depth' \in Nat, Depth' >= D, Frame(D)' = x, Steady(D - 1)
      PROVE  /\ Shape(D)' /\ Held(D)'
             /\ Frame(1)'.at = Frame(1).at /\ Frame(1)'.todo \subseteq Frame(1).todo
             /\ Colours'
  <2>1. Shape(D)'
    <3>1. D = (D - 1) + 1 /\ x.at \notin {"enter", "value", "copied"}
      BY <1>4, <1>7
    <3> QED BY <1>1, <1>4, <1>6, <1>7, <1>9, <3>1, ShapeAgain
  <2>2. Held(D)'
    <3>1. /\ IsWrapper(n) => v \in visited /\ EndsAt(doc, val, n, v)
          /\ doc.kind[n] = "pathItem" /\ doc.ref[n] # None => Copied(doc, val, n)
      BY <1>1, <1>3, <1>4 DEF Held
    <3>2. Frame(D)'.node = n /\ ValueOf(Frame(D))' = v
      BY <1>7, <1>8, <1>9
    <3> QED BY <1>1, <3>1, <3>2 DEF Held, IsWrapper
  <2>3. Frame(1)'.at = Frame(1).at /\ Frame(1)'.todo \subseteq Frame(1).todo
    <3>1. CASE D = 1
      BY <1>1, <1>4, <1>7, <1>9, <3>1
    <3>2. CASE D # 1
      BY <1>4, <1>9, <3>2 DEF Steady
    <3> QED BY <3>1, <3>2
  <2>4. ASSUME NEW u \in visited PROVE Black(doc, val', visited', u) \/ Grey(u)'
    <3>1. \A i \in ((D - 1) + 1)..D : i = D
      BY <1>4
    <3>2. IsWrapper(Frame(D).node) /\ ValueOf(Frame(D)) = u => Grey(u)'
      BY <1>1, <1>4, <1>7, <1>8, <1>9 DEF Grey, IsWrapper
    <3> QED BY <1>1, <1>3, <1>6, <1>9, <3>1, <3>2, ColoursStay
  <2> QED BY <1>1, <2>1, <2>2, <2>3, <2>4 DEF Colours
<1>10. ValuesOK'
  BY <1>1, ValuesSame DEF IInv, ValuesOK
<1>11. CASE t[3] = Nil /\ LeftOut(Kind, t[1]) /\ stack' = <<x>> \o Tail(stack) /\ pc' = "loading"
  <2>1. /\ Depth' = D /\ Frame(D)' = x /\ Steady(D - 1)
        /\ stack' \in Seq(Calls') /\ Len(stack') <= MaxDepth /\ stack' # <<>>
        /\ \A i \in 1..(D - 1) : Shape(i)' /\ Held(i)' /\ WalkOK(i)'
    BY <1>1, <1>3, <1>6, <1>7, <1>11, Relabel
  <2>2. Types' /\ RootDone'
    BY <1>1, <1>11, <2>1 DEF IInv, Types, Values, Nodes, RootDone
  <2>3. /\ Shape(D)' /\ Held(D)' /\ Colours'
        /\ Frame(1)'.at = Frame(1).at /\ Frame(1)'.todo \subseteq Frame(1).todo
    BY <1>4, <1>9, <1>11, <2>1
  <2>4. WalkOK(D)'
    BY <1>1, <1>4, <1>5, <1>7, <1>8, <1>11, <2>1 DEF WalkOK, Walked, Mixed
  <2>5. Frames'
    BY <1>4, <2>1, <2>3, <2>4 DEF Frames
  <2>6. Fresh'
    BY <1>1, <1>7, <1>11, <2>1, <2>3 DEF IInv, Fresh, Nodes
  <2> QED BY <1>10, <2>2, <2>3, <2>5, <2>6 DEF IInv
<1>12. CASE t[3] # Nil /\ Len(stack) # MaxDepth
  <2>1. PICK y : y = Calling(t[3], TRUE, None)
    OBVIOUS
  <2>2. /\ t[3] \in Nodes(doc) /\ t[3] # Root /\ (doc.kind[t[3]] = "pathItem" => n = Root /\ v = Root)
        /\ \A u \in doc.fields[v] : u[3] = t[3] => u = t
    BY <1>1, <1>3, <1>5, <1>12, TopWalk
  <2>3. y \in Calls /\ y.node = t[3] /\ y.own /\ y.at = "enter" /\ y.todo = {}
    BY <2>1, <2>2 DEF Calling, Calls
  <2>4. stack' = <<y, x>> \o Tail(stack) /\ pc' = "loading" /\ Len(stack) < MaxDepth
    <3>1. Call(x, t[3], TRUE)
      BY <1>2, <1>3, <1>12
    <3>2. Len(stack) < MaxDepth
      BY <1>1, <1>12, DepthType, WellFormedDoc DEF Depth
    <3> QED BY <1>1, <1>12, <2>1, <3>1, <3>2 DEF Call
  <2>5. /\ Depth' = D + 1 /\ Frame(D)' = x /\ Frame(D + 1)' = y /\ Steady(D - 1)
        /\ stack' \in Seq(Calls') /\ Len(stack') <= MaxDepth /\ stack' # <<>>
        /\ \A i \in 1..(D - 1) : Shape(i)' /\ Held(i)' /\ WalkOK(i)'
    <3>1. /\ pc = "loading" /\ Growing /\ x \in Calls /\ y \in Calls /\ D = Depth
          /\ stack' = <<y, x>> \o Tail(stack) /\ Len(stack) < MaxDepth
          /\ x.node = Top.node /\ x.own = Top.own
      BY <1>1, <1>3, <1>6, <1>7, <2>3, <2>4
    <3> QED BY <3>1, Push
  <2>6. Types' /\ RootDone'
    BY <1>1, <2>4, <2>5 DEF IInv, Types, Values, Nodes, RootDone
  <2>7. /\ Shape(D)' /\ Held(D)' /\ Colours'
        /\ Frame(1)'.at = Frame(1).at /\ Frame(1)'.todo \subseteq Frame(1).todo
    BY <1>4, <1>9, <2>4, <2>5
  <2>8. WalkOK(D)'
    <3>1. D < Depth' /\ Frame(D + 1)'.node = t[3]
      BY <1>4, <2>3, <2>5
    <3> QED BY <1>1, <1>5, <1>7, <1>8, <1>12, <2>5, <3>1 DEF WalkOK, Walked, Mixed
  <2>9. Shape(D + 1)' /\ Held(D + 1)' /\ WalkOK(D + 1)'
    <3>1. CallFrom(D + 1)'
      <4>1. (D + 1) - 1 = D
        BY <1>4
      <4>2. t \in doc.fields[v] /\ \A u \in x.todo : u[3] # t[3]
        BY <1>5, <1>7, <2>2
      <4> QED BY <1>1, <1>7, <1>8, <2>3, <2>5, <4>1, <4>2 DEF CallFrom
    <3>2. doc.kind[t[3]] = "pathItem" => D = 1
      BY <1>3, <1>4, <2>2 DEF Shape
    <3> QED BY <1>1, <1>4, <2>2, <2>3, <2>5, <3>1, <3>2 DEF Shape, Held, WalkOK
  <2>10. Frames'
    <3>1. \A i \in 1..Depth' : i \in 1..(D - 1) \/ i = D \/ i = D + 1
      BY <1>4, <2>5
    <3> QED BY <2>5, <2>7, <2>8, <2>9, <3>1 DEF Frames
  <2>11. Fresh'
    <3>1. ASSUME NEW m \in Nodes(doc), doc.kind[m] = "pathItem", val[m] # m
          PROVE  Frame(1)'.at = "walk" /\ (\A u \in Frame(1)'.todo : u[3] # m) /\ y.node # m
      <4>1. Frame(1).at = "walk" /\ \A u \in Frame(1).todo : u[3] # m
        BY <1>1, <3>1 DEF IInv, Fresh
      <4>2. ASSUME t[3] = m PROVE FALSE
        <5>1. D = 1
          BY <1>3, <1>4, <2>2, <3>1, <4>2 DEF Shape
        <5> QED BY <1>4, <4>1, <4>2, <5>1
      <4> QED BY <2>3, <2>7, <4>1, <4>2
    <3> QED BY <1>1, <2>5, <3>1 DEF Fresh, Nodes
  <2> QED BY <1>10, <2>6, <2>7, <2>10, <2>11 DEF IInv
<1>13. CASE \E how \in {"refused", "panicked", "overflow"} : Fail(how)
  BY <1>1, <1>13, FailKeeps
<1> QED BY <1>1, <1>2, <1>3, <1>11, <1>12, <1>13 DEF Call

\* A wrapper with a $ref calls for a copy of what the reference leads to.
LEMMA FollowKeeps ==
  ASSUME IInv, FollowRef
  PROVE  IInv'
<1>1. /\ pc = "loading" /\ doc' = doc /\ val' = val /\ Top.at = "enter"
      /\ ~Seen /\ Ref # None /\ Kind \in Wrappers /\ visited' = Mark
  BY DEF FollowRef, At
<1>2. PICK D, n, x, target : /\ D = Depth /\ n = Top.node /\ target = Drilled(doc, val, Ref)
                             /\ x = [Top EXCEPT !.at = "copied"]
  OBVIOUS
<1>3. /\ D \in Nat /\ D >= 1 /\ D \in 1..Depth /\ Top = Frame(D) /\ Top \in Calls /\ n \in Nodes(doc)
      /\ Shape(D) /\ Top.todo = {} /\ Value = val[n] /\ Kind = doc.kind[n] /\ Ref = doc.ref[n]
  BY <1>1, <1>2, TopFacts
<1>4. Value = None /\ visited' = visited
  <2>1. Value # None => Value \in visited
    BY <1>1, <1>3 DEF IInv, ValuesOK, IsWrapper
  <2> QED BY <1>1, <2>1 DEF Seen, Mark
<1>5. Growing
  BY <1>1, <1>4, NothingChanges DEF IInv, Types
<1>6. CASE Fits(target) /\ Len(stack) # MaxDepth
  <2>1. target \in Nodes(doc) /\ doc.kind[target] = doc.kind[n] /\ target # Root
    <3>1. Len(Ref) \in Nat
      BY <1>1, <1>3, WellFormedDoc DEF WellFormed, Nodes
    <3>2. target \in Nodes(doc) \cup {None, Nil}
      BY <1>2, <3>1, WellFormedDoc, DrilledType DEF IInv, Types
    <3>3. target \in Nodes(doc) /\ doc.kind[target] = doc.kind[n]
      BY <1>3, <1>6, <3>2 DEF Fits
    <3> QED BY <1>1, <1>3, <3>3, WellFormedDoc DEF WellFormed, Nodes, Wrappers
  <2>2. PICK y : y = Calling(target, FALSE, val[target])
    OBVIOUS
  <2>3. y \in Calls /\ y.node = target /\ ~y.own /\ y.at = "enter" /\ y.todo = {} /\ y.local = val[target]
    <3>1. val[target] \in Nodes(doc) \cup {None}
      BY <2>1 DEF IInv, Types, Values
    <3> QED BY <2>1, <2>2, <3>1 DEF Calling, Calls
  <2>4. Len(stack) < MaxDepth
    BY <1>1, <1>6, DepthType, WellFormedDoc DEF Depth
  <2>5. stack' = <<y, x>> \o Tail(stack) /\ pc' = "loading"
    <3>1. Call(x, target, FALSE)
      <4>1. target # Nil
        BY <1>6 DEF Fits
      <4> QED BY <1>2, <1>6, <4>1 DEF FollowRef, Drill
    <3> QED BY <1>1, <1>6, <2>2, <3>1 DEF Call
  <2>6. /\ x \in Calls /\ x.node = Top.node /\ x.own = Top.own
        /\ x.node = n /\ x.node = Frame(D).node /\ x.own = Frame(D).own
        /\ x.at = "copied" /\ x.todo = {}
    BY <1>2, <1>3 DEF Calls
  <2>7. /\ Depth' = D + 1 /\ Frame(D)' = x /\ Frame(D + 1)' = y /\ Steady(D - 1)
        /\ stack' \in Seq(Calls') /\ Len(stack') <= MaxDepth /\ stack' # <<>>
        /\ \A i \in 1..(D - 1) : Shape(i)' /\ Held(i)' /\ WalkOK(i)'
    <3>1. pc = "loading" /\ x \in Calls /\ y \in Calls /\ D = Depth
      BY <1>1, <1>2, <2>3, <2>6
    <3>2. /\ stack' = <<y, x>> \o Tail(stack) /\ Len(stack) < MaxDepth
          /\ x.node = Top.node /\ x.own = Top.own
      BY <2>4, <2>5, <2>6
    <3> QED BY <1>5, <3>1, <3>2, Push
  <2>8. Types' /\ RootDone'
    BY <1>1, <1>4, <2>5, <2>7 DEF IInv, Types, Values, Nodes, RootDone
  <2>9. Shape(D)'
    <3>1. /\ D = (D - 1) + 1 /\ Depth' \in Nat /\ Depth' >= D /\ x.at \notin {"enter", "walk", "value"}
          /\ IsWrapper(x.node) /\ doc.ref[x.node] # None /\ D < Depth' /\ ~Frame(D + 1)'.own
      BY <1>1, <1>3, <2>3, <2>6, <2>7 DEF IsWrapper
    <3> QED BY <1>1, <1>3, <1>5, <2>6, <2>7, <3>1, ShapeAgain
  <2>10. Held(D)' /\ WalkOK(D)' /\ Held(D + 1)' /\ WalkOK(D + 1)'
    BY <2>3, <2>6, <2>7 DEF Held, WalkOK
  <2>11. Shape(D + 1)'
    <3>1. CopyFor(D + 1)'
      <4>1. (D + 1) - 1 = D /\ target = Drilled(doc, val, doc.ref[n])
        BY <1>2, <1>3
      <4> QED BY <1>1, <1>3, <2>1, <2>3, <2>6, <2>7, <4>1 DEF CopyFor, IsWrapper
    <3>2. doc.kind[target] # "pathItem"
      BY <1>1, <1>3, <2>1 DEF Wrappers
    <3> QED BY <1>1, <1>3, <2>1, <2>3, <2>7, <3>1, <3>2 DEF Shape
  <2>12. Frames'
    <3>1. \A i \in 1..Depth' : i \in 1..(D - 1) \/ i = D \/ i = D + 1
      BY <1>3, <2>7
    <3> QED BY <2>7, <2>9, <2>10, <2>11, <3>1 DEF Frames
  <2>13. ValuesOK'
    BY <1>1, <1>4, ValuesSame DEF IInv, ValuesOK
  <2>14. Fresh'
    <3>1. ASSUME NEW m \in Nodes(doc), doc.kind[m] = "pathItem", val[m] # m
          PROVE  Frame(1)'.at = "walk" /\ (\A u \in Frame(1)'.todo : u[3] # m) /\ y.node # m
      <4>1. Frame(1).at = "walk" /\ \A u \in Frame(1).todo : u[3] # m
        BY <1>1, <3>1 DEF IInv, Fresh
      <4>2. Frame(1)' = Frame(1)
        BY <1>1, <1>3, <2>7, <4>1 DEF Steady
      <4>3. target # m
        BY <1>1, <1>3, <2>1, <3>1 DEF Wrappers
      <4> QED BY <2>3, <4>1, <4>2, <4>3
    <3> QED BY <1>1, <2>7, <3>1 DEF Fresh, Nodes
  <2>15. Colours'
    <3>1. ASSUME NEW u \in visited PROVE Black(doc, val', visited', u) \/ Grey(u)'
      <4>1. \A i \in ((D - 1) + 1)..D : i = D
        BY <1>3
      <4> QED BY <1>1, <1>2, <1>3, <1>5, <2>7, <4>1, ColoursStay
    <3> QED BY <1>1, <1>4, <3>1 DEF Colours
  <2> QED BY <2>8, <2>12, <2>13, <2>14, <2>15 DEF IInv
<1>7. CASE \E how \in {"refused", "panicked", "overflow"} : Fail(how)
  BY <1>1, <1>4, <1>7, FailKeeps
<1>8. \/ Fits(target) /\ Call(x, target, FALSE)
      \/ Fail("refused") \/ Fail("panicked")
  <2> USE <1>2 DEF FollowRef, Drill
  <2>1. CASE Fits(target)
    BY <2>1
  <2>2. CASE ~Fits(target) /\ target = Nil
    BY <2>2
  <2>3. CASE ~Fits(target) /\ target # Nil
    BY <2>3
  <2> QED BY <2>1, <2>2, <2>3
<1> QED BY <1>6, <1>7, <1>8 DEF Call

\* A fragment of one part into "paths" leads to a path item.
LEMMA PathsTarget ==
  ASSUME NEW d, WellFormed(d), NEW w \in Values(d), w[Root] = Root, NEW ref, Len(ref) = 1, ref[1][1] = "paths",
         Drilled(d, w, ref) # None, Drilled(d, w, ref) # Nil
  PROVE  Drilled(d, w, ref) \in Nodes(d) /\ d.kind[Drilled(d, w, ref)] = "pathItem"
<1>1. PICK at : Trail(d, w, at, ref) /\ Drilled(d, w, ref) = at[1]
  <2>1. Len(ref) \in Nat
    OBVIOUS
  <2>2. PICK at : Trail(d, w, at, ref) /\ Drilled(d, w, ref) = at[Len(ref)]
    BY <2>1, DrilledTrail
  <2> QED BY <2>2
<1>2. at[1] = Into(d, w, Root, ref[1])
  <2>1. at[0] = Root /\ at[1] = Into(d, w, at[1 - 1], ref[1])
    BY <1>1 DEF Trail
  <2> QED BY <2>1
<1>3. Root \in Nodes(d) /\ d.kind[Root] = "doc"
  BY DEF WellFormed, Nodes
<1> DEFINE below == {t \in d.fields[Root] : <<t[1], t[2]>> = ref[1]}
<1>4. below # {} /\ at[1] = (CHOOSE t \in below : TRUE)[3]
  BY <1>1, <1>2 DEF Into
<1>5. PICK t \in below : at[1] = t[3]
  <2> HIDE DEF below
  <2>1. (CHOOSE t \in below : TRUE) \in below
    BY <1>4
  <2> QED BY <1>4, <2>1
<1>6. t \in d.fields[Root] /\ t[1] = "paths" /\ t[3] # Nil
  BY <1>1, <1>5
<1>7. t[3] \in Nodes(d) /\ d.kind[t[3]] \in KindBelow("doc", "paths")
  <2>1. t[3] \in Nodes(d) /\ d.kind[t[3]] \in KindBelow(d.kind[Root], t[1])
    BY <1>3, <1>6, StandsBelow
  <2> QED BY <1>3, <1>6, <2>1
<1> QED BY <1>1, <1>5, <1>7 DEF KindBelow

LEMMA CopyKeeps ==
  ASSUME IInv, CopyPathItem
  PROVE  IInv' /\ Growing
<1>1. /\ pc = "loading" /\ doc' = doc /\ visited' = visited /\ Top.at = "enter"
      /\ Ref # None /\ Kind = "pathItem"
  BY DEF CopyPathItem, At
<1>2. PICK D, n, x, target : /\ D = Depth /\ n = Top.node /\ target = Drilled(doc, val, Ref)
                             /\ x = [Top EXCEPT !.at = "value"]
  OBVIOUS
<1>3. /\ D \in Nat /\ D >= 1 /\ D \in 1..Depth /\ Top = Frame(D) /\ Top \in Calls /\ n \in Nodes(doc)
      /\ Shape(D) /\ Top.todo = {} /\ doc.kind[n] = "pathItem" /\ Ref = doc.ref[n] /\ doc.ref[n] # None
  BY <1>1, <1>2, TopFacts
<1>4. WellFormed(doc) /\ val \in Values(doc) /\ visited \in SUBSET Nodes(doc)
  BY WellFormedDoc DEF IInv, Types
<1>5. CASE Fail("refused") /\ val' = val
  BY <1>1, <1>4, <1>5, FailKeeps, NothingChanges
<1>6. CASE /\ Len(Ref) = 1 /\ Ref[1][1] = "paths" /\ target \notin {None, Nil}
           /\ val' = [val EXCEPT ![n] = val[target]] /\ stack' = <<x>> \o Tail(stack) /\ pc' = "loading"
  <2>1. val[Root] = Root /\ Root \in Nodes(doc)
    BY <1>4 DEF IInv, ValuesOK, WellFormed, Nodes
  <2>2. target \in Nodes(doc) /\ doc.kind[target] = "pathItem"
    BY <1>2, <1>4, <1>6, <2>1, PathsTarget
  <2>3. val[target] \in Nodes(doc) /\ doc.kind[val[target]] = "pathItem"
    BY <2>2 DEF IInv, ValuesOK
  <2>4. val[n] = n
    BY <1>1, <1>2, <1>3 DEF IInv, Fresh
  <2>5. val' \in Values(doc) /\ val'[n] = val[target] /\ \A m \in Nodes(doc) : m # n => val'[m] = val[m]
    BY <1>3, <1>4, <1>6, <2>3 DEF Values
  <2>6. Growing
    <3>1. doc.fields[val[n]] = {}
      BY <1>3, <1>4, <2>4 DEF WellFormed, Nodes
    <3> QED BY <1>1, <1>2, <1>3, <1>4, <2>4, <2>5, <3>1 DEF Growing, Later
  <2>7. Later(doc, val, val')
    BY <2>6 DEF Growing
  <2>8. /\ x \in Calls /\ x.node = Top.node /\ x.own = Top.own
        /\ x.node = n /\ x.node = Frame(D).node /\ x.own = Frame(D).own /\ x.at = "value" /\ x.todo = {}
    BY <1>2, <1>3 DEF Calls
  <2>9. /\ Depth' = D /\ Frame(D)' = x /\ Steady(D - 1)
        /\ stack' \in Seq(Calls') /\ Len(stack') <= MaxDepth /\ stack' # <<>>
        /\ \A i \in 1..(D - 1) : Shape(i)' /\ Held(i)' /\ WalkOK(i)'
    BY <1>1, <1>2, <1>6, <2>6, <2>8, Relabel
  <2>10. Types' /\ RootDone'
    BY <1>1, <1>4, <1>6, <2>5, <2>9 DEF IInv, Types, Values, Nodes, RootDone
  <2>11. ValuesOK'
    <3>1. ASSUME NEW m \in Nodes(doc), doc.kind[m] # "pathItem" PROVE val'[m] = val[m]
      BY <1>3, <2>5, <3>1
    <3>2. ASSUME NEW m \in Nodes(doc), doc.ref[m] = None PROVE val'[m] = m
      BY <1>3, <2>5, <3>2 DEF IInv, ValuesOK
    <3>3. ASSUME NEW m \in Nodes(doc), IsWrapper(m), doc.ref[m] # None, val'[m] # None
          PROVE  EndsAt(doc, val', m, val'[m]) /\ val'[m] \in visited
      <4>1. val'[m] = val[m]
        BY <3>1, <3>3 DEF IsWrapper, Wrappers
      <4>2. EndsAt(doc, val, m, val[m]) /\ val[m] \in visited
        BY <3>3, <4>1 DEF IInv, ValuesOK
      <4> QED BY <1>4, <2>5, <2>7, <4>1, <4>2, EndsKept
    <3>4. ASSUME NEW m \in Nodes(doc), doc.kind[m] = "pathItem" PROVE val'[m] \in Nodes(doc) /\ doc.kind[val'[m]] = "pathItem"
      BY <2>3, <2>5, <3>4 DEF IInv, ValuesOK
    <3> QED BY <1>1, <3>2, <3>3, <3>4 DEF IInv, ValuesOK, IsWrapper, Nodes
  <2>12. Shape(D)'
    <3>1. D = (D - 1) + 1 /\ Depth' \in Nat /\ Depth' >= D /\ x.at \notin {"enter", "walk", "copied"}
      BY <1>3, <2>8, <2>9
    <3> QED BY <1>1, <1>3, <2>6, <2>8, <2>9, <3>1, ShapeAgain
  <2>13. Held(D)'
    <3>1. Copied(doc, val', n)
      <4>1. Drilled(doc, val', doc.ref[n]) = target
        BY <1>2, <1>3, <1>4, <1>6, <2>5, <2>7, DrilledKept
      <4>2. doc.ref[target] = None => val[target] = target
        BY <2>2 DEF IInv, ValuesOK
      <4> QED BY <2>2, <2>5, <4>1, <4>2 DEF Copied
    <3>2. Frame(D)'.node = n /\ ~IsWrapper(n)
      BY <1>3, <2>8, <2>9 DEF IsWrapper, Wrappers
    <3> QED BY <1>1, <3>1, <3>2 DEF Held, IsWrapper
  <2>14. Frames'
    <3>1. WalkOK(D)'
      BY <2>8, <2>9 DEF WalkOK
    <3> QED BY <1>2, <1>3, <2>9, <2>12, <2>13, <3>1 DEF Frames
  <2>15. D = 2
    BY <1>2, <1>3 DEF Shape
  <2>16. Frame(1)' = Frame(1) /\ Frame(1).at = "walk" /\ \A t \in Frame(1).todo : t[3] # n
    <3>1. Frame(1)' = Frame(1)
      BY <2>9, <2>15 DEF Steady
    <3>2. Frame(2).own
      BY <1>2, <1>3, <2>15 DEF Shape, CopyFor, IsWrapper, Wrappers
    <3>3. CallFrom(2)
      BY <1>3, <2>15, <3>2 DEF Shape
    <3> QED BY <1>2, <1>3, <2>15, <3>1, <3>3 DEF CallFrom
  <2>17. Fresh'
    <3>1. ASSUME NEW m \in Nodes(doc), doc.kind[m] = "pathItem", val'[m] # m
          PROVE  \A t \in Frame(1).todo : t[3] # m
      <4>1. CASE m = n
        BY <2>16, <4>1
      <4>2. CASE m # n
        BY <1>1, <2>5, <3>1, <4>2 DEF IInv, Fresh
      <4> QED BY <4>1, <4>2
    <3> QED BY <1>1, <2>8, <2>9, <2>16, <3>1 DEF Fresh, Nodes
  <2>18. Colours'
    <3>1. ASSUME NEW u \in visited PROVE Black(doc, val', visited', u) \/ Grey(u)'
      <4>1. \A i \in ((D - 1) + 1)..D : i = D
        BY <1>3
      <4> QED BY <1>1, <1>2, <1>3, <2>6, <2>9, <4>1, ColoursStay
    <3> QED BY <1>1, <3>1 DEF Colours
  <2> QED BY <2>6, <2>10, <2>11, <2>14, <2>17, <2>18 DEF IInv
<1> QED BY <1>1, <1>2, <1>5, <1>6 DEF CopyPathItem, Drill

\* What a call that has walked all leaves behind.
LEMMA WalkedDone ==
  ASSUME IInv, pc = "loading", Top.at = "walk", Top.todo = {}, NEW n, n = Top.node, NEW v, v = Value
  PROVE  /\ n \in Nodes(doc) /\ v \in Nodes(doc) /\ doc.kind[v] = doc.kind[n]
         /\ \A t \in doc.fields[v] : (n = Root => t[1] # "links") /\ t[3] # Nil =>
               /\ t[3] \in Nodes(doc) /\ doc.kind[t[3]] \in KindBelow(doc.kind[n], t[1])
               /\ Finished(doc, val, visited, t[3])
         /\ Sound(doc, v)
         /\ IsWrapper(n) \/ doc.kind[n] = "operation" => Black(doc, val, visited, v)
<1>1. /\ v \in Nodes(doc) /\ doc.kind[v] = doc.kind[n] /\ n \in Nodes(doc)
      /\ ~Mixed(doc, v)
      /\ \A t \in Walked(n, v) : \/ t[3] = Nil /\ LeftOut(doc.kind[n], t[1])
                                 \/ t[3] # Nil /\ Finished(doc, val, visited, t[3])
  <2>1. PICK D : D = Depth
    OBVIOUS
  <2> QED BY <2>1, TopWalk, TopFacts
<1>2. WellFormed(doc)
  BY WellFormedDoc
<1>3. ASSUME NEW t \in doc.fields[v], n = Root => t[1] # "links", t[3] # Nil
      PROVE  /\ t[3] \in Nodes(doc) /\ doc.kind[t[3]] \in KindBelow(doc.kind[n], t[1])
             /\ Finished(doc, val, visited, t[3])
  <2>1. t \in Walked(n, v)
    BY <1>1, <1>3, WalkedAll
  <2>2. t[3] \in Nodes(doc) /\ doc.kind[t[3]] \in KindBelow(doc.kind[v], t[1])
    BY <1>1, <1>2, <1>3, StandsBelow
  <2> QED BY <1>1, <1>3, <2>1, <2>2
<1>4. Sound(doc, v)
  <2>1. ASSUME NEW t \in doc.fields[v], t[3] = Nil PROVE LeftOut(doc.kind[v], t[1]) \/ Unvisited(doc.kind[v], t[1])
    <3>1. t \in Walked(n, v) \/ (n = Root /\ t[1] = "links")
      BY <1>1, WalkedAll
    <3>2. n = Root => doc.kind[v] = "doc"
      BY <1>1, <1>2 DEF WellFormed, Nodes
    <3> QED BY <1>1, <2>1, <3>1, <3>2 DEF Unvisited
  <2> QED BY <1>1, <2>1 DEF Sound
<1>5. ASSUME IsWrapper(n) \/ doc.kind[n] = "operation" PROVE Black(doc, val, visited, v)
  <2>1. ASSUME NEW t \in doc.fields[v], t[3] # Nil PROVE val[t[3]] \in visited
    <3>1. n # Root
      BY <1>2, <1>5 DEF WellFormed, Nodes, IsWrapper, Wrappers
    <3>2. doc.kind[t[3]] \in KindBelow(doc.kind[n], t[1]) /\ Finished(doc, val, visited, t[3])
      BY <1>3, <2>1, <3>1
    <3>3. doc.kind[t[3]] \in Wrappers
      BY <1>5, <3>2 DEF KindBelow, IsWrapper, Wrappers
    <3> QED BY <3>2, <3>3 DEF Finished
  <2> QED BY <1>4, <2>1 DEF Black
<1> QED BY <1>1, <1>3, <1>4, <1>5

\* A call that returns: it has seen its value before, or walked all below it.
Returns == (Top.at = "enter" /\ Seen) \/ (Top.at = "walk" /\ Top.todo = {})

LEMMA ReturnsValue ==
  ASSUME IInv, pc = "loading", Returns, IsWrapper(Top.node)
  PROVE  /\ Value \in visited /\ EndsAt(doc, val, Top.node, Value)
         /\ Top.at = "walk" => Black(doc, val, visited, Value)
<1>1. PICK D, n : D = Depth /\ n = Top.node
  OBVIOUS
<1>2. /\ D \in 1..Depth /\ Top = Frame(D) /\ n \in Nodes(doc) /\ Held(D)
      /\ Value = ValueOf(Frame(D)) /\ (Top.at = "enter" => Value = val[n])
  BY <1>1, TopFacts
<1>3. CASE Top.at = "enter" /\ Seen
  <2>1. Value = val[n] /\ val[n] # None /\ val[n] \in visited
    BY <1>2, <1>3 DEF Seen
  <2>2. EndsAt(doc, val, n, val[n])
    <3>1. CASE doc.ref[n] = None
      BY <1>2, <3>1, EndsItself DEF IInv, ValuesOK
    <3>2. CASE doc.ref[n] # None
      BY <1>1, <1>2, <2>1, <3>2 DEF IInv, ValuesOK
    <3> QED BY <3>1, <3>2
  <2> QED BY <1>1, <1>3, <2>1, <2>2
<1>4. CASE Top.at = "walk" /\ Top.todo = {}
  <2>1. Value \in visited /\ EndsAt(doc, val, Top.node, Value)
    BY <1>1, <1>2, <1>4 DEF Held
  <2>2. PICK v : v = Value
    OBVIOUS
  <2> QED BY <1>1, <1>4, <2>1, <2>2, WalkedDone
<1> QED BY <1>3, <1>4 DEF Returns

LEMMA ReturnsFinished ==
  ASSUME IInv, pc = "loading", Returns, Top.own, Top.node # Root
  PROVE  Finished(doc, val, visited, Top.node)
<1>1. PICK D, n, v : D = Depth /\ n = Top.node /\ v = Value
  OBVIOUS
<1>2. /\ D \in 1..Depth /\ Top = Frame(D) /\ n \in Nodes(doc) /\ Held(D) /\ v = val[n]
      /\ Kind = doc.kind[n]
  BY <1>1, TopFacts DEF Value
<1>3. WellFormed(doc)
  BY WellFormedDoc
<1>4. CASE IsWrapper(n)
  BY <1>1, <1>2, <1>4, ReturnsValue DEF Finished, IsWrapper, Wrappers
<1>5. CASE ~IsWrapper(n)
  <2>1. Top.at = "walk" /\ Top.todo = {} /\ doc.kind[n] \in {"operation", "pathItem"}
    BY <1>1, <1>2, <1>3, <1>5 DEF Returns, Seen, IsWrapper, WellFormed, Nodes
  <2>2. CASE doc.kind[n] = "operation"
    <3>1. v = n
      BY <1>2, <1>3, <2>2 DEF IInv, ValuesOK, WellFormed, Nodes, Wrappers
    <3> QED BY <1>1, <2>1, <2>2, <3>1, WalkedDone DEF Finished, Wrappers
  <2>3. CASE doc.kind[n] = "pathItem"
    <3>1. doc.ref[n] # None => Copied(doc, val, n)
      BY <1>1, <1>2, <2>1, <2>3 DEF Held
    <3>2. ASSUME NEW t \in doc.fields[v], t[3] # Nil
          PROVE  IF doc.kind[t[3]] = "operation" THEN Black(doc, val, visited, t[3]) ELSE val[t[3]] \in visited
      <4>1. doc.kind[t[3]] \in KindBelow("pathItem", t[1]) /\ Finished(doc, val, visited, t[3])
        BY <1>1, <2>1, <2>3, <3>2, WalkedDone
      <4>2. doc.kind[t[3]] = "operation" \/ doc.kind[t[3]] \in Wrappers
        BY <4>1 DEF KindBelow
      <4> QED BY <4>1, <4>2 DEF Finished
    <3>3. Sound(doc, v)
      BY <1>1, <2>1, WalkedDone
    <3> QED BY <1>1, <1>2, <2>3, <3>1, <3>2, <3>3 DEF Finished, Wrappers
  <2> QED BY <2>1, <2>2, <2>3
<1> QED BY <1>4, <1>5

LEMMA ReturnsGrey ==
  ASSUME IInv, pc = "loading", Returns, Growing, NEW D, D = Depth, NEW u \in visited,
         Frame(D).at \in {"value", "walk"}, IsWrapper(Frame(D).node), ValueOf(Frame(D)) = u
  PROVE  Black(doc, val', visited', u)
<1>1. Top = Frame(D) /\ Value = ValueOf(Frame(D)) /\ Top.at = "walk"
  BY TopFacts DEF Returns
<1>2. Black(doc, val, visited, u)
  BY <1>1, ReturnsValue
<1>3. u \in Nodes(doc) /\ doc.kind[u] \in Wrappers
  BY DEF IInv, Types, ValuesOK, IsWrapper
<1> QED BY <1>2, <1>3, BlackKept, WellFormedDoc DEF Growing, IInv, Types

\* The component's own call returns to the walk above it, or from the document.
LEMMA PopKeeps ==
  ASSUME IInv, pc = "loading", Returns, Return, Top.own, doc' = doc, visited' = visited
  PROVE  IInv'
<1>1. PICK D, n : D = Depth /\ n = Top.node
  OBVIOUS
<1>2. val' = val /\ stack' = Tail(stack) /\ pc' = IF Tail(stack) = <<>> THEN "loaded" ELSE "loading"
  BY DEF Return
<1>3. /\ D \in Nat /\ D >= 1 /\ D \in 1..Depth /\ Top = Frame(D) /\ Top \in Calls /\ n \in Nodes(doc)
      /\ Shape(D) /\ Value = ValueOf(Frame(D)) /\ Kind = doc.kind[n]
  BY <1>1, TopFacts
<1>4. Growing
  BY <1>2, NothingChanges DEF IInv, Types
<1>5. D > 1 => Finished(doc, val', visited', Top.node)
  BY <1>1, <1>2, <1>3, ReturnsFinished DEF Shape
<1>6. /\ Depth' = D - 1 /\ Steady(D - 1)
      /\ stack' \in Seq(Calls') /\ Len(stack') <= MaxDepth /\ (stack' = <<>> <=> D = 1)
      /\ D > 1 => Frame(D - 1)' = Frame(D - 1) /\ Frame(D - 1).at = "walk"
      /\ \A i \in 1..(D - 1) : Shape(i)' /\ Held(i)' /\ WalkOK(i)'
  BY <1>1, <1>2, <1>4, <1>5, Pop
<1>7. pc' = IF D = 1 THEN "loaded" ELSE "loading"
  BY <1>2, <1>6
<1>8. Types'
  BY <1>2, <1>6, <1>7 DEF IInv, Types, Values, Nodes
<1>9. ValuesOK'
  BY <1>2, ValuesSame DEF IInv, ValuesOK
<1>10. Frames'
  BY <1>6 DEF Frames
<1>11. Fresh'
  <2>1. ASSUME NEW m \in Nodes(doc), doc.kind[m] = "pathItem", val[m] # m, D # 1
        PROVE  Frame(1)'.at = "walk" /\ (\A t \in Frame(1)'.todo : t[3] # m) /\ Frame(D - 1)'.at # "enter"
    <3>1. Frame(1).at = "walk" /\ \A t \in Frame(1).todo : t[3] # m
      BY <2>1 DEF IInv, Fresh
    <3>2. Frame(1)' = Frame(1)
      BY <1>3, <1>6, <2>1 DEF Steady
    <3> QED BY <1>3, <1>6, <2>1, <3>1, <3>2
  <2> QED BY <1>2, <1>6, <1>7, <2>1 DEF Fresh, Nodes
<1>12. Colours'
  <2>1. ASSUME NEW u \in visited PROVE Black(doc, val', visited', u) \/ Grey(u)'
    <3>1. \A i \in ((D - 1) + 1)..D : i = D
      BY <1>3
    <3>2. Frame(D).at \in {"value", "walk"} /\ IsWrapper(Frame(D).node) /\ ValueOf(Frame(D)) = u
             => Black(doc, val', visited', u)
      BY <1>1, <1>4, ReturnsGrey
    <3> QED BY <1>1, <1>4, <1>6, <3>1, <3>2, ColoursStay
  <2> QED BY <2>1 DEF Colours
<1>13. RootDone'
  <2>1. SUFFICES ASSUME D = 1 PROVE RootDone'
    BY <1>7 DEF RootDone
  <2>2. n = Root /\ doc.kind[n] = "doc" /\ val[n] = n
    BY <1>1, <1>3, <2>1, WellFormedDoc DEF Shape, IInv, ValuesOK, WellFormed, Nodes
  <2>3. Top.at = "walk" /\ Top.todo = {} /\ Value = n
    BY <1>1, <1>3, <2>2 DEF Returns, Seen, Wrappers, ValueOf
  <2>4. /\ Sound(doc, n)
        /\ \A t \in doc.fields[n] : t[1] # "links" /\ t[3] # Nil => Finished(doc, val, visited, t[3])
    BY <1>1, <2>3, WalkedDone
  <2> QED BY <1>2, <2>2, <2>4 DEF RootDone
<1> QED BY <1>8, <1>9, <1>10, <1>11, <1>12, <1>13 DEF IInv

\* The copy's call returns to the reference it was made for, with its value.
Resumed(f, v) == [f EXCEPT !.at = "value", !.local = IF f.own THEN None ELSE v]
Handing(D, n, caller, m, v, x) ==
    /\ D = Depth /\ n = Top.node /\ caller = Frame(D - 1) /\ m = caller.node /\ v = Value
    /\ x = Resumed(caller, v)
LEMMA BackFacts ==
  ASSUME IInv, pc = "loading", Returns, Return, ~Top.own, doc' = doc, visited' = visited,
         NEW D, NEW n, NEW caller, NEW m, NEW v, NEW x, Handing(D, n, caller, m, v, x)
  PROVE  /\ D \in Nat /\ D > 1 /\ D \in 1..Depth /\ Top = Frame(D) /\ n \in Nodes(doc) /\ v = ValueOf(Frame(D))
         /\ caller \in Calls /\ m \in Nodes(doc) /\ D - 1 \in 1..Depth /\ Shape(D - 1)
         /\ caller.at = "copied" /\ caller.todo = {} /\ IsWrapper(m) /\ doc.ref[m] # None
         /\ stack' = <<x>> \o Tail(Tail(stack))
         /\ val' = IF caller.own THEN [val EXCEPT ![m] = v] ELSE val
         /\ pc' = "loading"
         /\ v \in visited /\ v # None /\ EndsAt(doc, val, m, v)
<1>0. /\ D = Depth /\ n = Top.node /\ caller = Frame(D - 1) /\ m = caller.node /\ v = Value
      /\ x = [caller EXCEPT !.at = "value", !.local = IF caller.own THEN None ELSE v]
  BY DEF Handing, Resumed
<1>1. /\ D \in Nat /\ D >= 1 /\ D \in 1..Depth /\ Top = Frame(D) /\ Top \in Calls /\ n \in Nodes(doc)
      /\ Shape(D) /\ v = ValueOf(Frame(D))
  BY <1>0, TopFacts
<1>2. D > 1 /\ CopyFor(D) /\ IsWrapper(n)
  BY <1>0, <1>1 DEF Shape, CopyFor
<1>3. /\ caller \in Calls /\ m \in Nodes(doc) /\ D - 1 \in 1..Depth /\ Shape(D - 1)
      /\ caller.at = "copied" /\ caller.todo = {} /\ IsWrapper(m) /\ doc.ref[m] # None
      /\ Drilled(doc, val, doc.ref[m]) = n /\ doc.kind[m] = doc.kind[n]
  <2>1. D - 1 \in 1..Depth
    BY <1>0, <1>1, <1>2
  <2>2. caller \in Calls /\ Shape(D - 1)
    BY <1>0, <2>1, DepthType DEF IInv, Frames
  <2> QED BY <1>0, <1>1, <1>2, <2>1, <2>2 DEF Calls, Shape, CopyFor
<1>4. Head(Tail(stack)) = caller
  <2>1. stack \in Seq(Calls) /\ Len(stack) >= 2 /\ D = Len(stack)
    BY <1>0, <1>1, <1>2 DEF IInv, Types, Depth
  <2> QED BY <1>0, <2>1, Returned DEF Frame
<1>5. /\ stack' = <<x>> \o Tail(Tail(stack))
      /\ val' = IF caller.own THEN [val EXCEPT ![m] = v] ELSE val
      /\ pc' = "loading"
  BY <1>0, <1>4 DEF Return
<1>6. /\ WellFormed(doc) /\ val \in Values(doc) /\ visited \in SUBSET Nodes(doc)
      /\ v \in visited /\ v # None /\ EndsAt(doc, val, n, v)
  BY <1>0, <1>2, ReturnsValue, WellFormedDoc DEF IInv, Types, WellFormed, Nodes
<1>7. EndsAt(doc, val, m, v)
  <2>1. Refers(doc, val, m)
    BY <1>1, <1>3 DEF Refers, IsWrapper
  <2> QED BY <1>3, <1>6, <2>1, EndsBefore
<1> QED BY <1>1, <1>2, <1>3, <1>5, <1>6, <1>7

LEMMA BackKeeps ==
  ASSUME IInv, pc = "loading", Returns, Return, ~Top.own, doc' = doc, visited' = visited
  PROVE  IInv' /\ Growing
<1>0. PICK D, n, caller, m, v, x : Handing(D, n, caller, m, v, x)
  BY Zenon DEF Handing
<1>1. /\ D = Depth /\ n = Top.node /\ caller = Frame(D - 1) /\ m = caller.node /\ v = Value
      /\ x = [caller EXCEPT !.at = "value", !.local = IF caller.own THEN None ELSE v]
  BY <1>0 DEF Handing, Resumed
<1>2. /\ D \in Nat /\ D > 1 /\ D \in 1..Depth /\ Top = Frame(D) /\ n \in Nodes(doc)
      /\ caller \in Calls /\ m \in Nodes(doc) /\ D - 1 \in 1..Depth /\ Shape(D - 1)
      /\ caller.at = "copied" /\ caller.todo = {} /\ IsWrapper(m) /\ doc.ref[m] # None
      /\ stack' = <<x>> \o Tail(Tail(stack))
      /\ val' = IF caller.own THEN [val EXCEPT ![m] = v] ELSE val
      /\ pc' = "loading"
      /\ v \in visited /\ v # None /\ EndsAt(doc, val, m, v)
  BY <1>0, BackFacts
<1>7. WellFormed(doc) /\ val \in Values(doc) /\ visited \in SUBSET Nodes(doc) /\ v \in visited
  BY <1>2, WellFormedDoc DEF IInv, Types
\* The reference may have got its value meanwhile, but no other one.
<1>9. val[m] = None \/ val[m] = v
  BY <1>2, <1>7, EndsOnce DEF IInv, ValuesOK
<1>10. /\ val' \in Values(doc) /\ \A k \in Nodes(doc) : val'[k] = val[k] \/ (k = m /\ val'[k] = v)
       /\ caller.own => val'[m] = v
  BY <1>2, <1>7 DEF Values
<1>11. Growing
  <2>1. doc.kind[m] # "pathItem"
    BY <1>2 DEF IsWrapper, Wrappers
  <2> QED BY <1>7, <1>9, <1>10, <2>1 DEF Growing, Later
<1>12. Later(doc, val, val')
  BY <1>11 DEF Growing
<1>13. /\ x \in Calls /\ x.node = m /\ x.own = caller.own /\ x.at = "value" /\ x.todo = {}
       /\ x.node = Frame(D - 1).node /\ x.own = Frame(D - 1).own /\ (~x.own => x.local = v)
  BY <1>1, <1>2, <1>7 DEF Calls
<1>14. /\ Depth' = D - 1 /\ Frame(D - 1)' = x /\ Steady(D - 2)
       /\ stack' \in Seq(Calls') /\ Len(stack') <= MaxDepth /\ stack' # <<>>
       /\ \A i \in 1..(D - 2) : Shape(i)' /\ Held(i)' /\ WalkOK(i)'
  BY <1>1, <1>2, <1>11, <1>13, Back
<1>15. Types' /\ RootDone'
  BY <1>2, <1>7, <1>10, <1>14 DEF IInv, Types, Values, Nodes, RootDone
<1>16. EndsAt(doc, val', m, v)
  BY <1>2, <1>7, <1>10, <1>12, EndsKept
<1>17. ValuesOK'
  <2>1. ASSUME NEW k \in Nodes(doc), doc.ref[k] = None \/ doc.kind[k] = "pathItem" PROVE val'[k] = val[k]
    BY <1>2, <1>10, <2>1 DEF IsWrapper, Wrappers
  <2>2. ASSUME NEW k \in Nodes(doc), IsWrapper(k), doc.ref[k] # None, val'[k] # None
        PROVE  EndsAt(doc, val', k, val'[k]) /\ val'[k] \in visited
    <3>1. CASE val'[k] = val[k]
      <4>1. EndsAt(doc, val, k, val[k]) /\ val[k] \in visited
        BY <2>2, <3>1 DEF IInv, ValuesOK
      <4> QED BY <1>7, <1>10, <1>12, <3>1, <4>1, EndsKept
    <3>2. CASE k = m /\ val'[k] = v
      BY <1>7, <1>16, <3>2
    <3> QED BY <1>10, <3>1, <3>2
  <2> QED BY <2>1, <2>2 DEF IInv, ValuesOK, IsWrapper, Nodes
<1>18. ValueOf(x)' = v
  BY <1>10, <1>13 DEF ValueOf
<1>19. Frames'
  <2>1. Shape(D - 1)'
    <3>1. D - 1 = (D - 2) + 1 /\ Depth' \in Nat /\ Depth' >= D - 1 /\ x.at \notin {"enter", "walk", "copied"}
      BY <1>2, <1>13, <1>14
    <3> QED BY <1>2, <1>11, <1>13, <1>14, <3>1, ShapeAgain
  <2>2. Held(D - 1)'
    <3>1. Frame(D - 1)'.node = m /\ ValueOf(Frame(D - 1))' = v /\ IsWrapper(m)
      BY <1>2, <1>13, <1>14, <1>18
    <3>2. doc.kind[m] # "pathItem"
      BY <1>2 DEF IsWrapper, Wrappers
    <3> QED BY <1>7, <1>16, <3>1, <3>2 DEF Held, IsWrapper
  <2>3. WalkOK(D - 1)'
    BY <1>13, <1>14 DEF WalkOK
  <2>4. \A i \in 1..Depth' : i \in 1..(D - 2) \/ i = D - 1
    BY <1>2, <1>14
  <2> QED BY <1>14, <2>1, <2>2, <2>3, <2>4 DEF Frames
<1>20. Fresh'
  <2>1. ASSUME NEW k \in Nodes(doc), doc.kind[k] = "pathItem", val'[k] # k
        PROVE  Frame(1)'.at = "walk" /\ (\A t \in Frame(1)'.todo : t[3] # k)
    <3>1. val'[k] = val[k]
      BY <1>2, <1>10, <2>1 DEF IsWrapper, Wrappers
    <3>2. Frame(1).at = "walk" /\ \A t \in Frame(1).todo : t[3] # k
      BY <2>1, <3>1 DEF IInv, Fresh
    <3>3. D - 1 # 1
      BY <1>1, <1>2, <3>2
    <3>4. Frame(1)' = Frame(1)
      BY <1>2, <1>14, <3>3 DEF Steady
    <3> QED BY <3>2, <3>4
  <2> QED BY <1>13, <1>14, <2>1 DEF Fresh, Nodes
<1>21. Colours'
  <2>1. ASSUME NEW u \in visited PROVE Black(doc, val', visited', u) \/ Grey(u)'
    <3>1. \A i \in ((D - 2) + 1)..D : i = D \/ i = D - 1
      BY <1>2
    <3>2. Frame(D).at \in {"value", "walk"} /\ IsWrapper(Frame(D).node) /\ ValueOf(Frame(D)) = u
             => Black(doc, val', visited', u)
      BY <1>1, <1>11, ReturnsGrey
    <3>3. Frame(D - 1).at = "copied"
      BY <1>1, <1>2
    <3> QED BY <1>1, <1>11, <1>14, <3>1, <3>2, <3>3, ColoursStay
  <2> QED BY <2>1 DEF Colours
<1> QED BY <1>11, <1>15, <1>17, <1>19, <1>20, <1>21 DEF IInv

LEMMA ReturnKeeps ==
  ASSUME IInv, AlreadyVisited \/ AllVisited
  PROVE  IInv'
<1>1. pc = "loading" /\ Returns /\ Return /\ doc' = doc /\ visited' = visited
  BY DEF AlreadyVisited, AllVisited, At, Returns
<1>2. Top.own \in BOOLEAN
  <2>1. PICK D : D = Depth
    OBVIOUS
  <2> QED BY <1>1, <2>1, TopFacts DEF Calls
<1> QED BY <1>1, <1>2, PopKeeps, BackKeeps

-----------------------------------------------------------------------------
(* The invariant.                                                           *)

LEMMA InitIInv == Init => IInv
<1>1. SUFFICES ASSUME Init PROVE IInv
  OBVIOUS
<1>2. WellFormed(doc) /\ doc \in Documents /\ MaxDepth \in Nat \ {0}
  BY <1>1, DocumentsAssumption DEF Init
<1>3. PICK f : f = Calling(Root, TRUE, None)
  OBVIOUS
<1>4. /\ f \in Calls /\ f.node = Root /\ f.own /\ f.at = "enter" /\ f.todo = {}
      /\ doc.kind[Root] = "doc"
  BY <1>2, <1>3 DEF Calling, Calls, WellFormed, Nodes
<1>5. stack = <<f>> /\ Depth = 1 /\ Frame(1) = f /\ stack \in Seq(Calls) /\ Len(stack) <= MaxDepth /\ stack # <<>>
  <2>1. stack = <<f>>
    BY <1>1, <1>3 DEF Init
  <2>2. Len(stack) = 1 /\ stack[1] = f /\ stack # <<>> /\ stack \in Seq(Calls)
    BY <1>4, <2>1
  <2> QED BY <1>2, <2>1, <2>2 DEF Depth, Frame, FrameIn
<1>6. val \in Values(doc) /\ visited = {} /\ pc = "loading"
  BY <1>1 DEF Init, Values, Nodes
<1>7. \A n \in Nodes(doc) : val[n] = IF IsWrapper(n) /\ doc.ref[n] # None THEN None ELSE n
  BY <1>1 DEF Init, Nodes, IsWrapper
<1>8. Types /\ RootDone /\ Colours
  BY <1>2, <1>5, <1>6 DEF Types, RootDone, Colours
<1>9. ValuesOK
  BY <1>2, <1>6, <1>7 DEF ValuesOK, WellFormed, Nodes, IsWrapper, Wrappers
<1>10. Shape(1) /\ Held(1) /\ WalkOK(1)
  BY <1>4, <1>5 DEF Shape, Held, WalkOK
<1>11. Frames /\ Fresh
  BY <1>5, <1>7, <1>10 DEF Frames, Fresh, IsWrapper, Wrappers
<1> QED BY <1>8, <1>9, <1>11 DEF IInv

LEMMA NextIInv == IInv /\ [Next]_vars => IInv'
<1>1. ASSUME IInv, UNCHANGED vars PROVE IInv'
  <2>1. doc' = doc /\ pc' = pc /\ val' = val /\ visited' = visited /\ stack' = stack
    BY <1>1 DEF vars
  <2>2. /\ Calls' = Calls /\ Depth' = Depth /\ \A i : Frame(i)' = Frame(i)
        /\ \A f : ValueOf(f)' = ValueOf(f)
    BY <2>1 DEF Calls, Places, Nodes, Depth, Frame, FrameIn, ValueOf
  <2>3. Types'
    BY <1>1, <2>1, <2>2 DEF IInv, Types
  <2>4. ValuesOK' /\ RootDone'
    BY <1>1, <2>1 DEF IInv, ValuesOK, RootDone, IsWrapper, Nodes
  <2>5. ASSUME NEW i \in 1..Depth PROVE Shape(i)' /\ Held(i)' /\ WalkOK(i)'
    <3>1. Shape(i) /\ Held(i) /\ WalkOK(i)
      BY <1>1, <2>5 DEF IInv, Frames
    <3>2. Shape(i)'
      BY <2>1, <3>1 DEF Shape, CopyFor, CallFrom, IsWrapper, Frame, Depth, ValueOf
    <3>3. Held(i)'
      BY <2>1, <3>1 DEF Held, IsWrapper, Frame, ValueOf
    <3>4. WalkOK(i)'
      BY <2>1, <3>1 DEF WalkOK, Walked, Frame, Depth, ValueOf
    <3> QED BY <3>2, <3>3, <3>4
  <2>6. Frames'
    BY <2>2, <2>5 DEF Frames
  <2>7. Fresh'
    BY <1>1, <2>1 DEF IInv, Fresh, Nodes, Frame, Depth
  <2>8. Colours'
    BY <1>1, <2>1 DEF IInv, Colours, Grey, IsWrapper, Frame, Depth, ValueOf
  <2> QED BY <2>3, <2>4, <2>6, <2>7, <2>8 DEF IInv
<1>2. ASSUME IInv, Load PROVE IInv'
  BY <1>2, ReturnKeeps, InlineKeeps, FollowKeeps, CopyKeeps, OpenKeeps, DescendKeeps DEF Load
<1> QED BY <1>1, <1>2 DEF Next, Ended

THEOREM Invariant == Spec => []IInv
<1> QED BY InitIInv, NextIInv, PTL DEF Spec

-----------------------------------------------------------------------------
(* What follows from it.                                                    *)

LEMMA TypesCorrect ==
  ASSUME IInv
  PROVE  TypeOK
<1>1. /\ doc \in Documents /\ val \in Values(doc) /\ visited \subseteq Nodes(doc)
      /\ Len(stack) <= MaxDepth /\ stack \in Seq(Calls) /\ WellFormed(doc)
  BY WellFormedDoc DEF IInv, Types
<1>2. ASSUME NEW k \in DOMAIN stack
      PROVE  /\ stack[k] \in Calls
             /\ stack[k].todo # {} => stack[k].todo \subseteq doc.fields[ValueOf(stack[k])]
             /\ stack[k].at = "copied" => k > 1 /\ ~stack[k - 1].own
  <2>1. PICK i : i = Depth + 1 - k
    OBVIOUS
  <2>2. Depth \in Nat /\ k \in 1..Depth /\ i \in 1..Depth /\ stack[k] = Frame(i) /\ (k > 1 => stack[k - 1] = Frame(i + 1))
    <3>1. Len(stack) \in Nat /\ k \in 1..Len(stack)
      BY <1>1
    <3>2. i \in 1..Len(stack) /\ Len(stack) + 1 - i = k /\ Len(stack) + 1 - (i + 1) = k - 1
      BY <2>1, <3>1 DEF Depth
    <3> QED BY <3>1, <3>2 DEF Depth, Frame, FrameIn
  <2>3. Shape(i) /\ WalkOK(i)
    BY <2>2 DEF IInv, Frames
  <2>4. stack[k].todo # {} => stack[k].todo \subseteq doc.fields[ValueOf(stack[k])]
    BY <2>2, <2>3 DEF Shape, WalkOK, Walked
  <2>5. stack[k].at = "copied" => k > 1 /\ ~stack[k - 1].own
    BY <2>1, <2>2, <2>3 DEF Shape
  <2> QED BY <1>1, <2>4, <2>5
<1>3. pc \in Stages
  BY DEF IInv, Types, Stages
<1>4. /\ DOMAIN doc.ref = DOMAIN doc.kind /\ DOMAIN doc.fields = DOMAIN doc.kind
      /\ val \in [DOMAIN doc.kind -> DOMAIN doc.kind \cup {None}] /\ visited \subseteq DOMAIN doc.kind
  BY <1>1 DEF WellFormed, Nodes, Values
<1> QED BY <1>1, <1>2, <1>3, <1>4 DEF TypeOK, Calls, Nodes, ValueOf

\* RefLoader.tla TypeOK: the calls on Go's stack are of the functions and
\* values of this document, and what waits for a copy has one made.
THEOREM TypeCorrect == Spec => []TypeOK
<1> QED BY TypesCorrect, Invariant, PTL

\* What a call for a component has left behind once all is loaded.
WasReached(m) ==
    /\ IsWrapper(m) => val[m] \in visited
    /\ doc.kind[m] = "pathItem" /\ doc.ref[m] # None => Copied(doc, val, m)

LEMMA LoadedFacts ==
  ASSUME IInv, pc = "loaded"
  PROVE  /\ WellFormed(doc) /\ val \in Values(doc) /\ visited \in SUBSET Nodes(doc) /\ Depth = 0
         /\ \A v \in visited : Black(doc, val, visited, v)
         /\ \A n \in Nodes(doc) : doc.kind[n] = "pathItem" => Finished(doc, val, visited, n)
         /\ \A n \in Nodes(doc) : doc.kind[n] = "operation" => Black(doc, val, visited, n)
<1>1. WellFormed(doc) /\ val \in Values(doc) /\ visited \in SUBSET Nodes(doc) /\ Depth = 0
  BY WellFormedDoc DEF IInv, Types, Depth
<1>2. ASSUME NEW v \in visited PROVE Black(doc, val, visited, v)
  BY <1>1 DEF IInv, Colours, Grey
<1>3. ASSUME NEW n \in Nodes(doc), doc.kind[n] = "pathItem" PROVE Finished(doc, val, visited, n)
  <2>1. PICK m \in Nodes(doc) : \E t \in doc.fields[m] : t[3] = n
    BY <1>1, <1>3 DEF WellFormed, Nodes
  <2>2. PICK t \in doc.fields[m] : t[3] = n
    BY <2>1
  <2>3. n # Nil /\ doc.kind[n] \in KindBelow(doc.kind[m], t[1])
    BY <1>1, <2>2, StandsBelow DEF WellFormed, Nodes
  <2>4. doc.kind[m] = "doc" /\ t[1] = "paths"
    BY <1>3, <2>3 DEF KindBelow, Wrappers
  <2>5. m = Root
    BY <1>1, <2>4 DEF WellFormed, Nodes
  <2> QED BY <2>2, <2>3, <2>4, <2>5 DEF IInv, RootDone
<1>4. ASSUME NEW n \in Nodes(doc), doc.kind[n] = "operation" PROVE Black(doc, val, visited, n)
  <2>1. PICK m \in Nodes(doc) : \E t \in doc.fields[m] : t[3] = n
    BY <1>1, <1>4 DEF WellFormed, Nodes
  <2>2. PICK t \in doc.fields[m] : t[3] = n
    BY <2>1
  <2>3. n # Nil /\ doc.kind[n] \in KindBelow(doc.kind[m], t[1])
    BY <1>1, <2>2, StandsBelow DEF WellFormed, Nodes
  <2>4. doc.kind[m] = "pathItem"
    BY <1>4, <2>3 DEF KindBelow, Wrappers
  <2>5. val[m] = m
    BY <1>1, <2>2 DEF WellFormed, Nodes, IInv, ValuesOK
  <2> QED BY <1>3, <1>4, <2>2, <2>3, <2>4, <2>5 DEF Finished
<1> QED BY <1>1, <1>2, <1>3, <1>4

LEMMA BelowReached ==
  ASSUME IInv, pc = "loaded", NEW n \in Nodes(doc), val[n] # None,
         IsWrapper(n) => val[n] \in visited \/ doc.kind[n] = "link",
         NEW t \in doc.fields[val[n]], t[3] # Nil
  PROVE  /\ t[3] \in Nodes(doc)
         /\ IF n = Root /\ t[1] = "links" THEN doc.kind[t[3]] = "link" ELSE WasReached(t[3])
<1>1. WellFormed(doc)
  BY LoadedFacts
<1>2. PICK v, m : v = val[n] /\ m = t[3]
  OBVIOUS
<1>3. v \in Nodes(doc) /\ doc.kind[v] = doc.kind[n]
  <2>1. CASE IsWrapper(n) /\ doc.ref[n] # None
    BY <1>2, <2>1 DEF IInv, ValuesOK, EndsAt
  <2>2. CASE doc.ref[n] = None
    BY <1>2, <2>2 DEF IInv, ValuesOK
  <2>3. CASE doc.kind[n] = "pathItem"
    BY <1>2, <2>3 DEF IInv, ValuesOK
  <2> QED BY <1>1, <2>1, <2>2, <2>3 DEF WellFormed, Nodes, IsWrapper
<1>4. /\ m \in Nodes(doc) /\ doc.kind[m] \in KindBelow(doc.kind[n], t[1])
      /\ (doc.kind[n] = "doc" /\ t[1] = "links") \/ \E k \in DOMAIN Slots(doc.kind[n]) : Slots(doc.kind[n])[k] = t[1]
  <2>1. t \in doc.fields[v] /\ t[3] # Nil
    BY <1>2
  <2>2. t[3] \in Nodes(doc) /\ doc.kind[t[3]] \in KindBelow(doc.kind[v], t[1])
    BY <1>1, <1>3, <2>1, StandsBelow
  <2> QED BY <1>1, <1>2, <1>3, <2>1, <2>2 DEF WellFormed, Nodes
<1>5. CASE IsWrapper(n)
  <2>1. doc.kind[m] \in Wrappers /\ doc.kind[n] \in Wrappers /\ n # Root
    BY <1>1, <1>4, <1>5 DEF KindBelow, IsWrapper, Wrappers, WellFormed, Nodes
  <2>2. CASE v \in visited
    <3>1. val[m] \in visited
      BY <1>2, <2>2, LoadedFacts DEF Black
    <3> QED BY <1>2, <1>4, <2>1, <3>1 DEF WasReached, Wrappers
  <2>3. CASE doc.kind[n] = "link"
    BY <1>4, <2>3 DEF Slots
  <2> QED BY <1>2, <1>5, <2>2, <2>3
<1>6. CASE doc.kind[n] = "doc"
  <2>1. n = Root /\ v = Root
    BY <1>1, <1>2, <1>6 DEF WellFormed, Nodes, IInv, ValuesOK
  <2>2. CASE t[1] = "links"
    BY <1>2, <1>4, <1>6, <2>1, <2>2 DEF KindBelow
  <2>3. CASE t[1] # "links"
    <3>1. Finished(doc, val, visited, m)
      BY <1>2, <2>1, <2>3 DEF IInv, RootDone
    <3> QED BY <1>2, <1>4, <2>3, <3>1 DEF Finished, WasReached, IsWrapper
  <2> QED BY <2>2, <2>3
<1>7. CASE doc.kind[n] = "pathItem"
  <2>1. n # Root /\ Finished(doc, val, visited, n)
    BY <1>1, <1>7, LoadedFacts DEF WellFormed, Nodes
  <2>2. doc.kind[m] # "operation" => val[m] \in visited
    BY <1>2, <1>7, <2>1 DEF Finished
  <2>3. doc.kind[m] \in Wrappers \cup {"operation"}
    BY <1>4, <1>7 DEF KindBelow
  <2> QED BY <1>2, <1>4, <2>1, <2>2, <2>3 DEF WasReached, IsWrapper, Wrappers
<1>8. CASE doc.kind[n] = "operation"
  <2>1. n # Root /\ v = n /\ doc.kind[m] \in Wrappers
    BY <1>1, <1>2, <1>4, <1>8 DEF WellFormed, Nodes, Wrappers, KindBelow, IInv, ValuesOK
  <2>2. val[m] \in visited
    BY <1>2, <1>8, <2>1, LoadedFacts DEF Black
  <2> QED BY <1>2, <1>4, <2>1, <2>2 DEF WasReached, Wrappers
<1> QED BY <1>1, <1>5, <1>6, <1>7, <1>8 DEF WellFormed, Nodes, IsWrapper

\* Along a fragment every component was reached, but for those nothing visits;
\* these are links, below which there is nothing.
LEMMA TrailReached ==
  ASSUME IInv, pc = "loaded", NEW ref, Len(ref) \in Nat, NEW at, Trail(doc, val, at, ref)
  PROVE  \A k \in 0..Len(ref) : at[k] \in Nodes(doc) => WasReached(at[k]) \/ doc.kind[at[k]] = "link"
<1> DEFINE T == {k \in 0..Len(ref) : at[k] \in Nodes(doc) /\ ~WasReached(at[k]) /\ doc.kind[at[k]] # "link"}
<1>1. WellFormed(doc) /\ val \in Values(doc)
  BY LoadedFacts
<1>2. ASSUME NEW m \in T, \A k \in T : m <= k PROVE FALSE
  <2>1. m \in Nat /\ m \in 0..Len(ref) /\ at[m] = IF m = 0 THEN Root ELSE Into(doc, val, at[m - 1], ref[m])
    BY DEF Trail
  <2>2. m # 0
    BY <1>1, <2>1 DEF WasReached, IsWrapper, Wrappers, WellFormed, Nodes
  <2>3. PICK n : n = at[m - 1]
    OBVIOUS
  <2>4. n \in Nodes(doc) /\ (WasReached(n) \/ doc.kind[n] = "link") /\ val[n] # None
    <3>1. m - 1 \in 0..Len(ref) /\ ~(m <= m - 1)
      BY <2>1, <2>2
    <3>2. n \notin {None, Nil} /\ val[n] # None
      BY <1>1, <2>1, <2>2, <2>3 DEF Into, WellFormed, Nodes
    <3>3. n \in Nodes(doc)
      <4> HIDE DEF T
      <4> QED BY <1>1, <2>3, <3>1, <3>2, TrailType
    <3> QED BY <1>2, <2>3, <3>1, <3>2, <3>3
  <2>5. PICK t \in doc.fields[val[n]] : t[3] = at[m]
    <3> DEFINE below == {t \in doc.fields[val[n]] : <<t[1], t[2]>> = ref[m]}
    <3>1. n \notin {None, Nil} /\ at[m] = IF below = {} THEN None ELSE (CHOOSE t \in below : TRUE)[3]
      BY <1>1, <2>1, <2>2, <2>3, <2>4 DEF Into, WellFormed, Nodes
    <3>2. below # {}
      BY <1>1, <3>1 DEF WellFormed, Nodes
    <3>3. (CHOOSE t \in below : TRUE) \in below
      <4> HIDE DEF below
      <4> QED BY <3>2
    <3> QED BY <3>1, <3>2, <3>3
  <2>6. t[3] # Nil
    BY <1>1, <2>5 DEF WellFormed, Nodes
  <2>7. IsWrapper(n) => val[n] \in visited \/ doc.kind[n] = "link"
    BY <2>4 DEF WasReached
  <2> QED BY <2>4, <2>5, <2>6, <2>7, BelowReached
<1>3. T = {}
  <2> HIDE DEF T
  <2>1. T \in SUBSET Nat
    BY DEF T
  <2> QED BY <1>2, <2>1, LeastOne
<1> QED BY <1>3

LEMMA ReachedResolved ==
  ASSUME IInv, pc = "loaded", NEW m \in Nodes(doc), WasReached(m)
  PROVE  Resolved(m)
<1>1. WellFormed(doc) /\ val \in Values(doc) /\ visited \in SUBSET Nodes(doc)
  BY LoadedFacts
<1>2. PICK target : target = Drilled(doc, val, doc.ref[m])
  OBVIOUS
<1>3. CASE IsWrapper(m) /\ doc.ref[m] = None
  <2>1. val[m] = m /\ m \in visited
    BY <1>3 DEF IInv, ValuesOK, WasReached
  <2> QED BY <1>3, <2>1 DEF Resolved, IsWrapper
<1>4. CASE IsWrapper(m) /\ doc.ref[m] # None
  <2>1. val[m] \in visited /\ val[m] # None /\ EndsAt(doc, val, m, val[m])
    BY <1>1, <1>4 DEF IInv, ValuesOK, WasReached, WellFormed, Nodes
  <2>2. /\ Refers(doc, val, m) /\ target \in Nodes(doc) /\ target \notin {None, Nil}
        /\ doc.kind[target] = doc.kind[m] /\ Len(doc.ref[m]) \in Nat
    BY <1>1, <1>2, <1>4, <2>1, EndsRefers, RefersType DEF Refers
  <2>3. EndsAt(doc, val, target, val[m])
    BY <1>2, <2>1, <2>2, EndsAfter
  <2>4. ASSUME val[target] # None PROVE val[target] = val[m]
    <3>1. EndsAt(doc, val, target, val[target])
      <4>1. CASE doc.ref[target] = None
        BY <2>2, <4>1, EndsItself DEF IInv, ValuesOK
      <4>2. CASE doc.ref[target] # None
        BY <1>4, <2>2, <2>4, <4>2 DEF IInv, ValuesOK, IsWrapper
      <4> QED BY <4>1, <4>2
    <3> QED BY <2>2, <2>3, <3>1, EndsOnce
  <2>5. val[target] = None => doc.kind[m] = "link"
    <3>1. PICK at : Trail(doc, val, at, doc.ref[m]) /\ target = at[Len(doc.ref[m])]
      BY <1>2, <2>2, DrilledTrail
    <3>2. WasReached(target) \/ doc.kind[target] = "link"
      BY <2>2, <3>1, TrailReached
    <3> QED BY <1>1, <1>4, <2>2, <3>2 DEF WasReached, IsWrapper, WellFormed, Nodes
  <2>6. doc.kind[m] \in Wrappers /\ doc.kind[m] # "pathItem" /\ target = Drill(doc.ref[m])
    BY <1>2, <1>4 DEF IsWrapper, Wrappers, Drill
  <2>7. val[target] = val[m] \/ (doc.kind[m] = "link" /\ val[target] = None)
    BY <2>4, <2>5
  <2> QED BY <1>4, <2>1, <2>2, <2>6, <2>7 DEF Resolved
<1>5. CASE doc.kind[m] = "pathItem"
  <2>1. doc.ref[m] = None => val[m] = m
    BY DEF IInv, ValuesOK
  <2>2. doc.ref[m] # None /\ doc.ref[target] = None => val[m] = target
    BY <1>2, <1>5 DEF WasReached, Copied
  <2> QED BY <1>2, <1>5, <2>1, <2>2 DEF Resolved, Drill, Wrappers
<1>6. CASE doc.kind[m] \in {"doc", "operation"}
  <2>1. val[m] = m
    BY <1>1, <1>6 DEF IInv, ValuesOK, WellFormed, Nodes, Wrappers
  <2> QED BY <1>6, <2>1 DEF Resolved, Wrappers
<1> QED BY <1>1, <1>3, <1>4, <1>5, <1>6 DEF WellFormed, Nodes, IsWrapper

LEMMA ResolvedWhenLoaded ==
  ASSUME IInv
  PROVE  LoadedIsResolved
<1>1. SUFFICES ASSUME pc \notin {"loading", "refused", "panicked", "overflow"},
                      NEW n \in visited \cup {m \in DOMAIN doc.kind : doc.kind[m] \notin Wrappers},
                      NEW t \in doc.fields[val[n]],
                      t[3] # Nil, <<doc.kind[n], t[1]>> # <<"doc", "links">>
               PROVE  Resolved(t[3])
  BY DEF LoadedIsResolved
<1>2. pc = "loaded"
  BY <1>1 DEF IInv, Types
<1>3. WellFormed(doc) /\ visited \in SUBSET Nodes(doc)
  BY <1>2, LoadedFacts
<1>4. n \in Nodes(doc) /\ val[n] # None /\ (IsWrapper(n) => val[n] \in visited)
  <2>1. CASE n \in visited
    BY <1>3, <2>1 DEF IInv, ValuesOK, WellFormed, Nodes
  <2>2. CASE n \notin visited
    <3>1. n \in Nodes(doc) /\ ~IsWrapper(n)
      BY <2>2 DEF Nodes, IsWrapper
    <3>2. doc.ref[n] = None \/ doc.kind[n] = "pathItem"
      BY <1>3, <3>1 DEF WellFormed, Nodes, IsWrapper
    <3> QED BY <1>3, <3>1, <3>2 DEF IInv, ValuesOK, WellFormed, Nodes
  <2> QED BY <2>1, <2>2
<1>5. ~(n = Root /\ t[1] = "links")
  BY <1>1, <1>3 DEF WellFormed, Nodes
<1>6. t[3] \in Nodes(doc) /\ WasReached(t[3])
  BY <1>1, <1>2, <1>4, <1>5, BelowReached
<1> QED BY <1>2, <1>6, ReachedResolved

\* swagger_loader.go:156: in a document that was loaded, in whichever order it
\* was visited and through whatever chain, diamond or cycle of references,
\* every component that can be reached has the value its $ref leads to.
THEOREM LoadedResolved == Spec => []LoadedIsResolved
<1> QED BY ResolvedWhenLoaded, Invariant, PTL

-----------------------------------------------------------------------------
(* What no step changes.                                                    *)

LEMMA StepLater ==
  ASSUME IInv, [Next]_vars
  PROVE  doc' = doc /\ val' \in Values(doc) /\ Later(doc, val, val')
<1>1. val \in Values(doc)
  BY DEF IInv, Types
<1>2. CASE doc' = doc /\ val' = val
  BY <1>1, <1>2 DEF Later
<1>3. CASE CopyPathItem
  BY <1>3, CopyKeeps DEF Growing
<1>4. CASE AlreadyVisited \/ AllVisited
  <2>1. pc = "loading" /\ Returns /\ Return /\ doc' = doc /\ visited' = visited
    BY <1>4 DEF AlreadyVisited, AllVisited, At, Returns
  <2>2. CASE Top.own
    BY <1>2, <2>1, <2>2 DEF Return
  <2>3. CASE ~Top.own
    BY <2>1, <2>3, BackKeeps DEF Growing
  <2> QED BY <2>2, <2>3
<1> QED BY <1>2, <1>3, <1>4 DEF Next, Load, Ended, vars, Inline, FollowRef, OpenValue, Descend

\* swagger_loader.go:290 drillIntoSwaggerField reads values that are still being
\* filled in: what it once found for the $ref of a component, it finds for good,
\* and a component that has a value keeps it (swagger_loader.go:683 and its like
\* assign component.Value a second time where a cycle has led back to it).
ReferencesStay ==
    \A n \in DOMAIN doc.kind :
        /\ doc.kind[n] \in Wrappers /\ val[n] # None => val'[n] = val[n]
        /\ doc.ref[n] # None /\ Drill(doc.ref[n]) # None => Drill(doc.ref[n])' = Drill(doc.ref[n])

THEOREM NothingIsTakenBack == Spec => [][ReferencesStay]_vars
<1>1. ASSUME IInv, [Next]_vars PROVE [ReferencesStay]_vars
  <2>1. doc' = doc /\ val' \in Values(doc) /\ Later(doc, val, val') /\ val \in Values(doc) /\ WellFormed(doc)
    BY <1>1, StepLater, WellFormedDoc DEF IInv, Types
  <2>2. ASSUME NEW n \in Nodes(doc), doc.kind[n] \in Wrappers, val[n] # None PROVE val'[n] = val[n]
    BY <2>1, <2>2 DEF Later, Wrappers
  <2>3. ASSUME NEW n \in Nodes(doc), doc.ref[n] # None, Drill(doc.ref[n]) # None
        PROVE  Drill(doc.ref[n])' = Drill(doc.ref[n])
    <3>1. Len(doc.ref[n]) \in Nat
      BY <2>1, <2>3 DEF WellFormed, Nodes
    <3>2. Drilled(doc, val', doc.ref[n]) = Drilled(doc, val, doc.ref[n])
      BY <2>1, <2>3, <3>1, DrilledKept DEF Drill
    <3> QED BY <2>1, <3>2 DEF Drill
  <2> QED BY <2>2, <2>3 DEF ReferencesStay, Nodes
<1> QED BY <1>1, Invariant, PTL DEF Spec

-----------------------------------------------------------------------------
(* Closures.  As long as there is more to add, there are more and more     *)
(* elements; so it takes no more rounds than the set has elements.         *)

Rounds(N, start, step, after) ==
    after = [k \in 0..N |-> IF k = 0 THEN start ELSE step[after[k - 1]]]

LEMMA RoundsExist ==
  ASSUME NEW N \in Nat, NEW start, NEW step
  PROVE  \E after : Rounds(N, start, step, after)
<1> DEFINE T == {n \in 0..N : ~\E g : Rounds(n, start, step, g)}
<1>1. ASSUME NEW m \in T, \A k \in T : m <= k PROVE FALSE
  <2>1. m \in Nat
    OBVIOUS
  <2>2. CASE m = 0
    <3> DEFINE g == [k \in 0..0 |-> start]
    <3>1. g = [k \in 0..0 |-> IF k = 0 THEN start ELSE step[g[k - 1]]]
      OBVIOUS
    <3> QED BY <2>2, <3>1 DEF Rounds
  <2>3. CASE m # 0
    <3>1. m - 1 \in Nat /\ m - 1 \in 0..N /\ ~(m <= m - 1)
      BY <2>1, <2>3
    <3>2. PICK old : Rounds(m - 1, start, step, old)
      BY <1>1, <3>1
    <3> DEFINE g == [k \in 0..m |-> IF k = m THEN step[old[m - 1]] ELSE old[k]]
    <3>3. ASSUME NEW k \in 0..m PROVE g[k] = IF k = 0 THEN start ELSE step[g[k - 1]]
      <4>1. CASE k = m
        <5>1. g[m - 1] = old[m - 1] /\ g[m] = step[old[m - 1]]
          BY <2>1, <3>1
        <5> QED BY <2>3, <4>1, <5>1
      <4>2. CASE k # m
        <5>1. k \in 0..(m - 1) /\ g[k] = old[k]
          BY <2>1, <4>2
        <5>2. old[k] = IF k = 0 THEN start ELSE step[old[k - 1]]
          BY <3>1, <3>2, <5>1 DEF Rounds
        <5>3. k # 0 => g[k - 1] = old[k - 1]
          BY <2>1, <5>1
        <5> QED BY <5>1, <5>2, <5>3
      <4> QED BY <4>1, <4>2
    <3>4. g = [k \in 0..m |-> IF k = 0 THEN start ELSE step[g[k - 1]]]
      BY <3>3
    <3>5. Rounds(m, start, step, g)
      <4> HIDE DEF g
      <4> QED BY <3>4 DEF Rounds
    <3> QED BY <3>5
  <2> QED BY <2>2, <2>3
<1>2. T = {}
  <2> HIDE DEF T
  <2>1. T \in SUBSET Nat
    BY DEF T
  <2> QED BY <1>1, <2>1, LeastOne
<1> QED BY <1>2

LEMMA ClosureRounds ==
  ASSUME NEW S, Cardinality(S) \in Nat, NEW start, NEW step
  PROVE  \E after : /\ Rounds(Cardinality(S), start, step, after)
                    /\ Closure(S, start, step) = after[CHOOSE k \in 0..Cardinality(S) : step[after[k]] = after[k]]
<1> DEFINE F(g) == [k \in 0..Cardinality(S) |-> IF k = 0 THEN start ELSE step[g[k - 1]]]
           after == CHOOSE g : g = F(g)
<1>1. PICK g : Rounds(Cardinality(S), start, step, g)
  BY RoundsExist
<1>2. g = F(g)
  BY <1>1 DEF Rounds
<1>3. after = F(after)
  BY <1>2
<1>4. Rounds(Cardinality(S), start, step, after)
  <2> HIDE DEF after
  <2> QED BY <1>3 DEF Rounds
<1>5. Closure(S, start, step) = after[CHOOSE k \in 0..Cardinality(S) : step[after[k]] = after[k]]
  BY Zenon DEF Closure
<1> QED BY <1>4, <1>5

\* The closure is one, and has every property that the start has and the step keeps.
LEMMA ClosureFacts ==
  ASSUME NEW S, IsFiniteSet(S), NEW start \in SUBSET S, NEW step \in [SUBSET S -> SUBSET S],
         \A X \in SUBSET S : X \subseteq step[X]
  PROVE  /\ Closure(S, start, step) \in SUBSET S
         /\ step[Closure(S, start, step)] = Closure(S, start, step)
         /\ \A Good \in SUBSET SUBSET S :
               start \in Good /\ (\A X \in Good : step[X] \in Good) => Closure(S, start, step) \in Good
<1>1. PICK N : N = Cardinality(S)
  OBVIOUS
<1>2. N \in Nat
  BY <1>1, FS_CardinalityType
<1>3. PICK after : /\ Rounds(N, start, step, after)
                   /\ Closure(S, start, step) = after[CHOOSE k \in 0..N : step[after[k]] = after[k]]
  BY <1>1, <1>2, ClosureRounds
<1>4. \A k \in 0..N : after[k] = IF k = 0 THEN start ELSE step[after[k - 1]]
  BY <1>3 DEF Rounds
<1>5. ASSUME NEW Good \in SUBSET SUBSET S, start \in Good, \A X \in Good : step[X] \in Good
      PROVE  \A k \in 0..N : after[k] \in Good
  <2> DEFINE T == {k \in 0..N : after[k] \notin Good}
  <2>1. ASSUME NEW m \in T, \A k \in T : m <= k PROVE FALSE
    <3>1. m \in Nat /\ m \in 0..N /\ m # 0
      BY <1>4, <1>5
    <3>2. m - 1 \in 0..N /\ ~(m <= m - 1)
      BY <1>2, <3>1
    <3>3. after[m - 1] \in Good
      BY <2>1, <3>2
    <3> QED BY <1>4, <1>5, <3>1, <3>3
  <2>2. T = {}
    <3> HIDE DEF T
    <3>1. T \in SUBSET Nat
      BY DEF T
    <3> QED BY <2>1, <3>1, LeastOne
  <2> QED BY <2>2
<1>6. \A k \in 0..N : after[k] \in SUBSET S
  <2>1. SUBSET S \in SUBSET SUBSET S /\ start \in SUBSET S /\ \A X \in SUBSET S : step[X] \in SUBSET S
    OBVIOUS
  <2> QED BY <1>5, <2>1
<1>7. \E k \in 0..N : step[after[k]] = after[k]
  <2>1. SUFFICES ASSUME \A k \in 0..N : step[after[k]] # after[k] PROVE FALSE
    OBVIOUS
  <2>2. \A k \in 0..N : IsFiniteSet(after[k]) /\ Cardinality(after[k]) \in Nat /\ Cardinality(after[k]) <= N
    BY <1>1, <1>6, FS_Subset, FS_CardinalityType
  <2> DEFINE T == {k \in 0..N : ~(Cardinality(after[k]) >= k)}
  <2>3. ASSUME NEW m \in T, \A k \in T : m <= k PROVE FALSE
    <3>1. m \in Nat /\ m \in 0..N /\ m # 0
      BY <2>2
    <3>2. m - 1 \in 0..N /\ ~(m <= m - 1)
      BY <1>2, <3>1
    <3>3. Cardinality(after[m - 1]) >= m - 1
      BY <2>3, <3>2
    <3>4. after[m - 1] \in SUBSET after[m] /\ after[m] # after[m - 1]
      BY <1>4, <1>6, <2>1, <3>1, <3>2
    <3>5. Cardinality(after[m - 1]) <= Cardinality(after[m]) /\ Cardinality(after[m]) # Cardinality(after[m - 1])
      BY <2>2, <3>1, <3>4, FS_Subset
    <3>6. Cardinality(after[m]) \in Nat /\ Cardinality(after[m - 1]) \in Nat
      BY <2>2, <3>1, <3>2
    <3> QED BY <3>1, <3>3, <3>5, <3>6
  <2>4. T = {}
    <3> HIDE DEF T
    <3>1. T \in SUBSET Nat
      BY DEF T
    <3> QED BY <2>3, <3>1, LeastOne
  <2>5. Cardinality(after[N]) = N /\ after[N] \in SUBSET S
    <3>1. N \in 0..N
      BY <1>2
    <3>2. Cardinality(after[N]) >= N
      BY <2>4, <3>1
    <3> QED BY <1>6, <2>2, <3>1, <3>2, <1>2
  <2>6. after[N] = S
    BY <1>1, <2>5, FS_Subset
  <2>7. step[S] = S
    OBVIOUS
  <2> QED BY <1>2, <2>1, <2>6, <2>7
<1>8. PICK k \in 0..N : Closure(S, start, step) = after[k] /\ step[after[k]] = after[k]
  <2> DEFINE c == CHOOSE k \in 0..N : step[after[k]] = after[k]
  <2>1. c \in 0..N /\ step[after[c]] = after[c]
    BY <1>7
  <2> QED BY <1>3, <2>1
<1> QED BY <1>5, <1>6, <1>8

-----------------------------------------------------------------------------
(* What a component means.                                                  *)

\* Pairs that say of each component one thing at most.
OneEach(pairs) == \A e, f \in pairs : e[1] = f[1] => e = f

LEMMA KnownType ==
  ASSUME NEW d, NEW pairs \in SUBSET (Nodes(d) \X Nodes(d))
  PROVE  /\ Known(d, pairs) \in Values(d)
         /\ \A n \in Nodes(d) : Known(d, pairs)[n] # None => <<n, Known(d, pairs)[n]>> \in pairs
<1>1. ASSUME NEW n \in Nodes(d)
      PROVE  /\ Known(d, pairs)[n] \in Nodes(d) \cup {None}
             /\ Known(d, pairs)[n] # None => <<n, Known(d, pairs)[n]>> \in pairs
  <2> DEFINE e == CHOOSE e \in pairs : e[1] = n
  <2>1. Known(d, pairs)[n] = IF \E x \in pairs : x[1] = n THEN e[2] ELSE None
    BY <1>1 DEF Known, Nodes
  <2>2. (\E x \in pairs : x[1] = n) => e \in pairs /\ e[1] = n
    OBVIOUS
  <2> HIDE DEF e
  <2>3. e \in pairs => e = <<e[1], e[2]>> /\ e[2] \in Nodes(d)
    OBVIOUS
  <2> QED BY <2>1, <2>2, <2>3
<1> QED BY <1>1 DEF Known, Values, Nodes

LEMMA KnownOnce ==
  ASSUME NEW d, NEW pairs \in SUBSET (Nodes(d) \X Nodes(d)), OneEach(pairs), None \notin Nodes(d),
         NEW n \in Nodes(d), NEW v
  PROVE  <<n, v>> \in pairs <=> Known(d, pairs)[n] = v /\ v # None
<1>1. ASSUME <<n, v>> \in pairs PROVE Known(d, pairs)[n] = v /\ v # None
  <2> DEFINE e == CHOOSE e \in pairs : e[1] = n
  <2>1. \E x \in pairs : x[1] = n
    BY <1>1
  <2>2. e \in pairs /\ e[1] = n
    BY <2>1
  <2>3. Known(d, pairs)[n] = e[2]
    BY <2>1 DEF Known, Nodes
  <2> HIDE DEF e
  <2>4. e = <<n, v>>
    BY <1>1, <2>2 DEF OneEach
  <2> QED BY <1>1, <2>3, <2>4
<1> QED BY <1>1, KnownType

\* What values say of references: who has one, has that of the component of
\* its kind that its $ref leads to.
Settled(d, w) ==
    /\ w \in Values(d)
    /\ \A n \in Nodes(d) : d.ref[n] = None => w[n] = n
    /\ \A n \in Nodes(d) : w[n] # None => d.ref[w[n]] = None /\ d.kind[w[n]] = d.kind[n]
    /\ \A n \in Nodes(d) : d.ref[n] # None /\ w[n] # None =>
          LET t == Drilled(d, w, d.ref[n])
          IN  t \in Nodes(d) /\ d.kind[t] = d.kind[n] /\ w[t] = w[n]

LEMMA RoundType ==
  ASSUME NEW d, WellFormed(d), NEW pairs \in SUBSET (Nodes(d) \X Nodes(d))
  PROVE  Round(d, pairs) \in SUBSET (Nodes(d) \X Nodes(d)) /\ pairs \subseteq Round(d, pairs)
<1> QED BY KnownType DEF Round, Nodes, Values

LEMMA RoundSettled ==
  ASSUME NEW d, WellFormed(d), NEW pairs \in SUBSET (Nodes(d) \X Nodes(d)),
         OneEach(pairs), Settled(d, Known(d, pairs))
  PROVE  OneEach(Round(d, pairs)) /\ Settled(d, Known(d, Round(d, pairs)))
<1>1. PICK w, w2 : w = Known(d, pairs) /\ w2 = Known(d, Round(d, pairs))
  OBVIOUS
<1> DEFINE at(n) == Drilled(d, w, d.ref[n])
           Now(n) == /\ d.ref[n] # None /\ w[n] = None
                     /\ at(n) \in Nodes(d) /\ d.kind[at(n)] = d.kind[n] /\ w[at(n)] # None
<1>2. None \notin Nodes(d) /\ w \in Values(d) /\ w2 \in Values(d)
  BY <1>1, KnownType, RoundType DEF WellFormed, Nodes
<1>3. \A n \in Nodes(d), v \in Nodes(d) : <<n, v>> \in pairs <=> w[n] = v
  BY <1>1, <1>2, KnownOnce
<1>4. \A n \in Nodes(d), v \in Nodes(d) : <<n, v>> \in Round(d, pairs) <=> w[n] = v \/ (Now(n) /\ v = w[at(n)])
  <2>1. Round(d, pairs) = pairs \cup {<<n, w[at(n)]>> : n \in {m \in Nodes(d) : Now(m)}}
    BY <1>1 DEF Round, Nodes
  <2> HIDE DEF Now, at
  <2> QED BY <1>3, <2>1
<1>5. OneEach(Round(d, pairs))
  <2>1. ASSUME NEW e \in Round(d, pairs), NEW f \in Round(d, pairs), e[1] = f[1] PROVE e = f
    <3>1. PICK n \in Nodes(d), v \in Nodes(d), u \in Nodes(d) : e = <<n, v>> /\ f = <<n, u>>
      BY <2>1, RoundType
    <3>2. (w[n] = v \/ (Now(n) /\ v = w[at(n)])) /\ (w[n] = u \/ (Now(n) /\ u = w[at(n)]))
      BY <1>4, <2>1, <3>1
    <3> QED BY <1>2, <3>1, <3>2
  <2> QED BY <2>1 DEF OneEach
<1>6. \A n \in Nodes(d), v \in Nodes(d) : w2[n] = v <=> w[n] = v \/ (Now(n) /\ v = w[at(n)])
  <2>1. \A n \in Nodes(d), v \in Nodes(d) : <<n, v>> \in Round(d, pairs) <=> w2[n] = v
    BY <1>1, <1>2, <1>5, RoundType, KnownOnce
  <2> QED BY <1>4, <2>1
<1>7. \A n \in Nodes(d) : w2[n] = w[n] \/ w[n] = None
  BY <1>2, <1>6 DEF Values
<1>8. Later(d, w, w2)
  BY <1>7 DEF Later
<1>9. ASSUME NEW n \in Nodes(d), w2[n] # None
      PROVE  w[n] = w2[n] \/ (Now(n) /\ w2[n] = w[at(n)])
  BY <1>2, <1>6, <1>9 DEF Values
<1>10. \A n \in Nodes(d) : d.ref[n] = None => w2[n] = n
  BY <1>1, <1>6 DEF Settled
<1>11. ASSUME NEW n \in Nodes(d), w2[n] # None
       PROVE  d.ref[w2[n]] = None /\ d.kind[w2[n]] = d.kind[n]
  BY <1>1, <1>9, <1>11 DEF Settled
<1>12. ASSUME NEW n \in Nodes(d), d.ref[n] # None, w2[n] # None, NEW t, t = Drilled(d, w2, d.ref[n])
       PROVE  t \in Nodes(d) /\ d.kind[t] = d.kind[n] /\ w2[t] = w2[n]
  <2>1. /\ at(n) \in Nodes(d) /\ d.kind[at(n)] = d.kind[n] /\ w[at(n)] = w2[n]
    BY <1>1, <1>9, <1>12 DEF Settled
  <2>2. t = at(n)
    <3>1. Len(d.ref[n]) \in Nat
      BY <1>12 DEF WellFormed, Nodes
    <3> QED BY <1>2, <1>8, <1>12, <2>1, <3>1, DrilledKept
  <2> QED BY <1>7, <1>12, <2>1, <2>2
<1>13. Settled(d, w2)
  BY <1>2, <1>10, <1>11, <1>12 DEF Settled
<1> QED BY <1>1, <1>5, <1>13

\* Each component means one thing, which is no reference; one with a $ref
\* means what the component of its kind does that it leads to, if that means
\* something.
LEMMA MeansFacts ==
  ASSUME NEW d, WellFormed(d)
  PROVE  /\ Settled(d, Means(d))
         /\ \A n \in Nodes(d) : d.ref[n] # None =>
               LET t == Drilled(d, Means(d), d.ref[n])
               IN  t \in Nodes(d) /\ d.kind[t] = d.kind[n] => Means(d)[t] = Means(d)[n]
<1>1. PICK S, itself, step, C, Good :
         /\ S = Nodes(d) \X Nodes(d)
         /\ itself = {<<n, n>> : n \in {m \in Nodes(d) : d.ref[m] = None}}
         /\ step = [pairs \in SUBSET S |-> Round(d, pairs)]
         /\ C = Closure(S, itself, step)
         /\ Good = {pairs \in SUBSET S : OneEach(pairs) /\ Settled(d, Known(d, pairs))}
  OBVIOUS
<1>2. Means(d) = Known(d, C)
  BY <1>1 DEF Means, Nodes
<1>3. IsFiniteSet(S) /\ None \notin Nodes(d)
  <2>1. IsFiniteSet(Nodes(d))
    BY DEF WellFormed, Nodes
  <2>2. IsFiniteSet(S)
    BY <1>1, <2>1, FS_Product
  <2> QED BY <2>2 DEF WellFormed, Nodes
<1>4. itself \in Good
  <2>1. \A n, v : <<n, v>> \in itself <=> n \in Nodes(d) /\ v = n /\ d.ref[n] = None
    BY <1>1
  <2>2. itself \in SUBSET (Nodes(d) \X Nodes(d))
    BY <1>1
  <2>3. OneEach(itself)
    <3>1. ASSUME NEW e \in itself, NEW f \in itself, e[1] = f[1] PROVE e = f
      <4>1. PICK n \in Nodes(d), v \in Nodes(d), u \in Nodes(d) : e = <<n, v>> /\ f = <<n, u>>
        BY <2>2, <3>1
      <4> QED BY <2>1, <3>1, <4>1
    <3> QED BY <3>1 DEF OneEach
  <2>4. PICK w : w = Known(d, itself)
    OBVIOUS
  <2>5. w \in Values(d)
    BY <2>2, <2>4, KnownType
  <2>6. \A n \in Nodes(d), v \in Nodes(d) : <<n, v>> \in itself <=> w[n] = v
    BY <1>3, <2>2, <2>3, <2>4, KnownOnce
  <2>7. \A n \in Nodes(d) : d.ref[n] = None => w[n] = n
    BY <2>1, <2>6
  <2>8. \A n \in Nodes(d) : w[n] # None => w[n] = n /\ d.ref[n] = None
    BY <2>1, <2>5, <2>6 DEF Values
  <2>9. Settled(d, w)
    BY <2>5, <2>7, <2>8 DEF Settled
  <2> QED BY <1>1, <2>2, <2>3, <2>4, <2>9
<1>5. \A X \in SUBSET S : step[X] = Round(d, X) /\ step[X] \in SUBSET S /\ X \subseteq step[X]
  BY <1>1, RoundType
<1>6. C \in Good /\ step[C] = C
  <2>1. Good \in SUBSET SUBSET S /\ itself \in SUBSET S
    BY <1>1, <1>4
  <2>2. step \in [SUBSET S -> SUBSET S]
    BY <1>1, <1>5
  <2>3. \A X \in Good : step[X] \in Good
    BY <1>1, <1>5, RoundSettled
  <2>4. \A X \in SUBSET S : X \subseteq step[X]
    BY <1>5
  <2>5. /\ step[C] = C
        /\ \A G \in SUBSET SUBSET S : itself \in G /\ (\A X \in G : step[X] \in G) => C \in G
    <3>1. C = Closure(S, itself, step)
      BY <1>1
    <3> QED BY <1>3, <2>1, <2>2, <2>4, <3>1, ClosureFacts
  <2> QED BY <1>4, <2>1, <2>3, <2>5
<1>7. /\ C \in SUBSET (Nodes(d) \X Nodes(d)) /\ OneEach(C) /\ Settled(d, Means(d)) /\ Round(d, C) = C
  BY <1>1, <1>2, <1>5, <1>6
<1>8. ASSUME NEW n \in Nodes(d), d.ref[n] # None, NEW t, t = Drilled(d, Means(d), d.ref[n]),
             t \in Nodes(d), d.kind[t] = d.kind[n]
      PROVE  Means(d)[t] = Means(d)[n]
  <2>1. CASE Means(d)[n] # None
    BY <1>7, <1>8, <2>1 DEF Settled
  <2>2. CASE Means(d)[n] = None /\ Means(d)[t] # None
    <3>1. <<n, Means(d)[t]>> \in Round(d, C)
      BY <1>2, <1>8, <2>2 DEF Round, Nodes
    <3> QED BY <1>2, <1>3, <1>7, <2>2, <3>1, KnownOnce
  <2> QED BY <2>1, <2>2
<1> QED BY <1>7, <1>8

-----------------------------------------------------------------------------
(* The values of the loader are what the components mean.                   *)

\* Only path items, which are copied as they are, may have something less.
Agreed == Later(doc, val, Means(doc))

\* What references end at through values so far is what they mean.
LEMMA EndsMeans ==
  ASSUME NEW d, WellFormed(d), NEW w \in Values(d), Later(d, w, Means(d)),
         NEW n \in Nodes(d), NEW v, EndsAt(d, w, n, v)
  PROVE  Means(d)[n] = v
<1>1. PICK M : M = Means(d)
  OBVIOUS
<1>2. /\ Settled(d, M) /\ M \in Values(d) /\ Later(d, w, M)
      /\ \A m \in Nodes(d) : d.ref[m] # None /\ Drilled(d, M, d.ref[m]) \in Nodes(d)
                                 /\ d.kind[Drilled(d, M, d.ref[m])] = d.kind[m]
            => M[Drilled(d, M, d.ref[m])] = M[m]
  BY <1>1, MeansFacts DEF Settled
<1>3. PICK S : S = {m \in Nodes(d) : M[m] = M[n]}
  OBVIOUS
<1>4. Closed(d, w, S)
  <2>1. ASSUME NEW m \in S, Refers(d, w, m) PROVE Drilled(d, w, d.ref[m]) \in S
    <3>1. m \in Nodes(d) /\ M[m] = M[n]
      BY <1>3
    <3>2. Refers(d, M, m) /\ Drilled(d, M, d.ref[m]) = Drilled(d, w, d.ref[m])
      BY <1>2, <2>1, <3>1, RefersKept
    <3>3. M[Drilled(d, M, d.ref[m])] = M[m]
      BY <1>2, <3>1, <3>2 DEF Refers
    <3> QED BY <1>3, <3>1, <3>2, <3>3 DEF Refers
  <2> QED BY <2>1 DEF Closed
<1>5. v \in S /\ v \in Nodes(d) /\ d.ref[v] = None
  BY <1>3, <1>4 DEF EndsAt
<1>6. M[v] = v
  BY <1>2, <1>5 DEF Settled
<1> QED BY <1>1, <1>3, <1>5, <1>6

LEMMA InitAgreed == Init => Agreed
<1>1. SUFFICES ASSUME Init PROVE Agreed
  OBVIOUS
<1>2. WellFormed(doc)
  BY <1>1, DocumentsAssumption DEF Init
<1>3. ASSUME NEW n \in Nodes(doc)
      PROVE  \/ Means(doc)[n] = val[n] \/ val[n] = None
             \/ doc.kind[n] = "pathItem" /\ doc.kind[val[n]] = "pathItem" /\ doc.fields[val[n]] = {}
  <2>1. val[n] = IF doc.kind[n] \in Wrappers /\ doc.ref[n] # None THEN None ELSE n
    BY <1>1 DEF Init, Nodes
  <2>2. CASE doc.ref[n] = None
    BY <1>2, <2>1, <2>2, MeansFacts DEF Settled
  <2>3. CASE doc.ref[n] # None
    BY <1>2, <2>1, <2>3 DEF WellFormed, Nodes
  <2> QED BY <2>2, <2>3
<1> QED BY <1>3 DEF Agreed, Later

LEMMA CopyAgreed ==
  ASSUME IInv, Agreed, CopyPathItem
  PROVE  Later(doc, val', Means(doc))
<1>1. PICK n, target, M : n = Top.node /\ target = Drilled(doc, val, Ref) /\ M = Means(doc)
  OBVIOUS
<1>2. pc = "loading" /\ Ref # None /\ Kind = "pathItem"
  BY DEF CopyPathItem, At
<1>3. n \in Nodes(doc) /\ Ref = doc.ref[n] /\ doc.kind[n] = "pathItem"
  <2>1. PICK D : D = Depth
    OBVIOUS
  <2> QED BY <1>1, <1>2, <2>1, TopFacts
<1>4. WellFormed(doc) /\ val \in Values(doc) /\ Settled(doc, M) /\ M \in Values(doc) /\ Later(doc, val, M)
  BY <1>1, WellFormedDoc, MeansFacts DEF IInv, Types, Settled, Agreed
<1>5. CASE val' = val
  BY <1>1, <1>4, <1>5
<1>6. CASE Len(Ref) = 1 /\ Ref[1][1] = "paths" /\ target \notin {None, Nil} /\ val' = [val EXCEPT ![n] = val[target]]
  <2>1. val[Root] = Root
    BY <1>4 DEF IInv, ValuesOK, WellFormed, Nodes
  <2>2. target \in Nodes(doc) /\ doc.kind[target] = "pathItem"
    BY <1>1, <1>4, <1>6, <2>1, PathsTarget
  <2>3. val[target] \in Nodes(doc) /\ val[target] # None /\ doc.kind[val[target]] = "pathItem"
    BY <1>4, <2>2 DEF IInv, ValuesOK, WellFormed, Nodes
  <2>4. Drilled(doc, M, doc.ref[n]) = target
    BY <1>1, <1>3, <1>4, <1>6, DrilledKept
  <2>5. M[n] = M[target]
    BY <1>1, <1>2, <1>3, <1>4, <2>2, <2>4, MeansFacts
  <2>6. M[n] = val[target] \/ doc.fields[val[target]] = {}
    BY <1>4, <2>2, <2>3, <2>5 DEF Later
  <2>7. \A k \in Nodes(doc) : val'[k] = IF k = n THEN val[target] ELSE val[k]
    BY <1>4, <1>6 DEF Values
  <2> QED BY <1>1, <1>3, <1>4, <2>3, <2>6, <2>7 DEF Later
<1> QED BY <1>1, <1>5, <1>6 DEF CopyPathItem, Drill

LEMMA BackAgreed ==
  ASSUME IInv, Agreed, pc = "loading", Returns, Return, ~Top.own, doc' = doc, visited' = visited
  PROVE  /\ Later(doc, val', Means(doc)) /\ pc' = "loading"
         /\ \E m \in Nodes(doc) : /\ IsWrapper(m) /\ Means(doc)[m] # None
                                  /\ val' \in {val, [val EXCEPT ![m] = Means(doc)[m]]}
<1>0. PICK D, n, caller, m, v, x : Handing(D, n, caller, m, v, x)
  BY Zenon DEF Handing
<1>1. /\ m \in Nodes(doc) /\ IsWrapper(m) /\ pc' = "loading"
      /\ val' = IF caller.own THEN [val EXCEPT ![m] = v] ELSE val
      /\ v # None /\ EndsAt(doc, val, m, v)
  BY <1>0, BackFacts
<1>2. WellFormed(doc) /\ val \in Values(doc) /\ Later(doc, val, Means(doc))
  BY WellFormedDoc DEF IInv, Types, Agreed
<1>3. Means(doc)[m] = v
  BY <1>1, <1>2, EndsMeans
<1>4. \A k \in Nodes(doc) : val'[k] = val[k] \/ (k = m /\ val'[k] = v)
  BY <1>1, <1>2 DEF Values
<1>5. Later(doc, val', Means(doc))
  BY <1>2, <1>3, <1>4 DEF Later
<1> QED BY <1>1, <1>3, <1>5

\* How a step changes the values, for what no other lemma needs to say again.
LEMMA StepValues ==
  ASSUME IInv, [Next]_vars
  PROVE  /\ doc' = doc
         /\ \/ val' = val
            \/ CopyPathItem
            \/ (/\ pc = "loading" /\ Returns /\ Return /\ ~Top.own /\ visited' = visited
                /\ (AlreadyVisited \/ AllVisited))
<1>1. CASE AlreadyVisited \/ AllVisited
  <2>1. pc = "loading" /\ Returns /\ Return /\ doc' = doc /\ visited' = visited
    BY <1>1 DEF AlreadyVisited, AllVisited, At, Returns
  <2>2. CASE Top.own
    BY <2>1, <2>2 DEF Return
  <2> QED BY <1>1, <2>1, <2>2
<1>2. CASE CopyPathItem
  BY <1>2 DEF CopyPathItem
<1> QED BY <1>1, <1>2 DEF Next, Load, Ended, vars, Inline, FollowRef, OpenValue, Descend

LEMMA NextAgreed == IInv /\ Agreed /\ [Next]_vars => Agreed'
<1>1. SUFFICES ASSUME IInv, Agreed, [Next]_vars PROVE Agreed'
  OBVIOUS
<1>2. doc' = doc
  BY <1>1, StepValues
<1>3. Later(doc, val', Means(doc))
  <2>1. CASE val' = val
    BY <1>1, <2>1 DEF Agreed
  <2>2. CASE CopyPathItem
    BY <1>1, <2>2, CopyAgreed
  <2>3. CASE pc = "loading" /\ Returns /\ Return /\ ~Top.own /\ visited' = visited
    BY <1>1, <1>2, <2>3, BackAgreed
  <2> QED BY <1>1, <2>1, <2>2, <2>3, StepValues
<1> QED BY <1>2, <1>3 DEF Agreed

-----------------------------------------------------------------------------
(* What is reached, and that the loader visits nothing else.                *)

LEMMA OnwardFacts ==
  ASSUME NEW d, NEW n
  PROVE  Onward(d, n) = {t[3] : t \in Below(d, n)} \cup (IF d.ref[n] = None THEN {} ELSE {Target(d, n)})
<1> QED BY DEF Onward

\* The least set that holds the document and what it leads on to.
LEMMA ReachedFacts ==
  ASSUME NEW d, WellFormed(d)
  PROVE  /\ Reached(d) \in SUBSET Nodes(d) /\ Root \in Reached(d)
         /\ \A n \in Reached(d) : \A m \in Onward(d, n) : m \in Nodes(d) => m \in Reached(d)
         /\ \A X \in SUBSET Nodes(d) :
               Root \in X /\ (\A n \in X : \A m \in Onward(d, n) : m \in Nodes(d) => m \in X) => Reached(d) \subseteq X
<1>1. PICK S, onward, step, C :
         /\ S = Nodes(d)
         /\ onward = [n \in S |-> Onward(d, n) \cap S]
         /\ step = [X \in SUBSET S |-> X \cup UNION {onward[n] : n \in X}]
         /\ C = Closure(S, {Root}, step)
  OBVIOUS
<1>2. Reached(d) = C
  BY <1>1, Zenon DEF Reached, Nodes
<1>3. IsFiniteSet(S) /\ {Root} \in SUBSET S
  BY <1>1 DEF WellFormed, Nodes
<1>4. ASSUME NEW X \in SUBSET S
      PROVE  /\ step[X] \in SUBSET S /\ X \subseteq step[X]
             /\ \A m : m \in step[X] <=> m \in X \/ \E n \in X : m \in Onward(d, n) /\ m \in S
  <2>1. \A n \in X : onward[n] = Onward(d, n) \cap S
    BY <1>1
  <2>2. step[X] = X \cup UNION {onward[n] : n \in X}
    BY <1>1
  <2>3. \A m : m \in step[X] <=> m \in X \/ \E n \in X : m \in onward[n]
    BY <2>2
  <2> QED BY <2>1, <2>3
<1>5. /\ C \in SUBSET S /\ step[C] = C
      /\ \A G \in SUBSET SUBSET S : {Root} \in G /\ (\A X \in G : step[X] \in G) => C \in G
  <2>1. step \in [SUBSET S -> SUBSET S]
    BY <1>1, <1>4
  <2>2. \A X \in SUBSET S : X \subseteq step[X]
    BY <1>4
  <2>3. C = Closure(S, {Root}, step)
    BY <1>1
  <2> QED BY <1>3, <2>1, <2>2, <2>3, ClosureFacts
<1>6. ASSUME NEW X \in SUBSET S, Root \in X, \A n \in X : \A m \in Onward(d, n) : m \in S => m \in X
      PROVE  C \subseteq X
  <2>1. PICK G : G = SUBSET X
    OBVIOUS
  <2>2. G \in SUBSET SUBSET S /\ {Root} \in G
    BY <1>6, <2>1
  <2>3. ASSUME NEW Y \in G PROVE step[Y] \in G
    <3>1. Y \in SUBSET S /\ Y \subseteq X
      BY <2>1
    <3>2. step[Y] \subseteq X
      BY <1>4, <1>6, <3>1
    <3> QED BY <2>1, <3>2
  <2> QED BY <1>5, <2>1, <2>2, <2>3
<1>7. Root \in C
  <2>1. PICK G : G = {X \in SUBSET S : Root \in X}
    OBVIOUS
  <2>2. \A X \in G : step[X] \in G
    BY <1>4, <2>1
  <2>3. G \in SUBSET SUBSET S /\ {Root} \in G
    BY <1>3, <2>1
  <2> QED BY <1>5, <2>1, <2>2, <2>3
<1>8. \A n \in C : \A m \in Onward(d, n) : m \in S => m \in C
  BY <1>4, <1>5
<1> QED BY <1>1, <1>2, <1>5, <1>6, <1>7, <1>8

\* Every path item is the document's.
LEMMA PathItemsReached ==
  ASSUME NEW d, WellFormed(d), NEW n \in Nodes(d), d.kind[n] = "pathItem"
  PROVE  /\ n \in Reached(d)
         /\ \E t \in d.fields[Root] : t[1] = "paths" /\ t[3] = n
<1>1. PICK m \in Nodes(d) : \E t \in d.fields[m] : t[3] = n
  BY DEF WellFormed, Nodes
<1>2. PICK t \in d.fields[m] : t[3] = n
  BY <1>1
<1>3. n # Nil /\ d.kind[n] \in KindBelow(d.kind[m], t[1])
  BY <1>2, StandsBelow DEF WellFormed, Nodes
<1>4. d.kind[m] = "doc" /\ t[1] = "paths"
  BY <1>3 DEF KindBelow, Wrappers
<1>5. m = Root
  BY <1>4 DEF WellFormed, Nodes
<1>6. t \in Below(d, Root)
  <2>1. \E k \in DOMAIN Slots("doc") : Slots("doc")[k] = "paths"
    BY DEF Slots
  <2> QED BY <1>2, <1>4, <1>5, <2>1 DEF Below
<1>7. n \in Onward(d, Root)
  BY <1>2, <1>6 DEF Onward
<1> QED BY <1>2, <1>4, <1>5, <1>7, ReachedFacts

\* Where references end that are reached is reached.
LEMMA EndReached ==
  ASSUME NEW d, WellFormed(d), NEW w \in Values(d), Later(d, w, Means(d)),
         NEW n \in Reached(d), NEW v, EndsAt(d, w, n, v)
  PROVE  v \in Reached(d)
<1>1. Means(d) \in Values(d) /\ Reached(d) \in SUBSET Nodes(d)
  BY MeansFacts, ReachedFacts DEF Settled
<1>2. Closed(d, w, Reached(d))
  <2>1. ASSUME NEW m \in Reached(d), Refers(d, w, m) PROVE Drilled(d, w, d.ref[m]) \in Reached(d)
    <3>1. Refers(d, Means(d), m) /\ Drilled(d, Means(d), d.ref[m]) = Drilled(d, w, d.ref[m])
      BY <1>1, <2>1, RefersKept
    <3>2. Target(d, m) \in Onward(d, m) /\ Target(d, m) \in Nodes(d)
      BY <3>1 DEF Onward, Target, Refers
    <3> QED BY <2>1, <3>1, <3>2, ReachedFacts DEF Target
  <2> QED BY <2>1 DEF Closed
<1> QED BY <1>1, <1>2 DEF EndsAt

\* The calls are for what is reached.
Visiting(s, R) == \A i \in 1..Len(s) : s[i].node \in R
Visits == Visiting(stack, Reached(doc))

LEMMA VisitingAfter ==
  ASSUME NEW C, NEW s \in Seq(C), s # <<>>, NEW R, Visiting(s, R),
         NEW x, x.node \in R, NEW y, y.node \in R, NEW s2,
         \/ s2 = <<>> \/ s2 = Tail(s) \/ s2 = <<x>> \o Tail(s) \/ s2 = <<y, x>> \o Tail(s)
         \/ Len(s) >= 2 /\ s2 = <<x>> \o Tail(Tail(s))
  PROVE  Visiting(s2, R)
<1>1. /\ Tail(s) \in Seq(C) /\ Len(Tail(s)) = Len(s) - 1 /\ Len(s) \in Nat
      /\ \A k \in 1..(Len(s) - 1) : Tail(s)[k] = s[k + 1]
  BY TailFacts
<1>2. ASSUME NEW k \in 1..(Len(s) - 1) PROVE Tail(s)[k].node \in R
  <2>1. k + 1 \in 1..Len(s) /\ Tail(s)[k] = s[k + 1]
    BY <1>1
  <2> QED BY <2>1 DEF Visiting
<1>3. CASE s2 = <<>> \/ s2 = Tail(s)
  <2>1. CASE s2 = <<>>
    BY <2>1 DEF Visiting
  <2>2. CASE s2 = Tail(s)
    <3>1. Len(s2) = Len(s) - 1
      BY <1>1, <2>2
    <3> QED BY <1>2, <2>2, <3>1 DEF Visiting
  <2> QED BY <1>3, <2>1, <2>2
<1>4. CASE s2 = <<x>> \o Tail(s)
  <2>1. Len(s2) = Len(s) /\ s2[1] = x /\ \A k \in 2..Len(s) : s2[k] = Tail(s)[k - 1]
    BY <1>1, <1>4
  <2> QED BY <1>1, <1>2, <2>1 DEF Visiting
<1>5. CASE s2 = <<y, x>> \o Tail(s)
  <2>1. /\ Len(s2) = Len(s) + 1 /\ s2[1] = y /\ s2[2] = x
        /\ \A k \in 3..(Len(s) + 1) : s2[k] = Tail(s)[k - 2]
    BY <1>1, <1>5
  <2>2. ASSUME NEW k \in 3..(Len(s) + 1) PROVE s2[k].node \in R
    <3>1. k - 2 \in 1..(Len(s) - 1)
      BY <1>1
    <3>2. Tail(s)[k - 2].node \in R
      BY <1>2, <3>1
    <3>3. s2[k] = Tail(s)[k - 2]
      BY <2>1
    <3> QED BY <3>2, <3>3
  <2>3. ASSUME NEW k \in 1..(Len(s) + 1) PROVE s2[k].node \in R
    <3>1. k = 1 \/ k = 2 \/ k \in 3..(Len(s) + 1)
      BY <1>1
    <3>2. s2[1].node \in R /\ s2[2].node \in R
      BY <2>1
    <3> QED BY <2>2, <3>1, <3>2
  <2> QED BY <2>1, <2>3 DEF Visiting
<1>6. CASE Len(s) >= 2 /\ s2 = <<x>> \o Tail(Tail(s))
  <2>0. Len(s) >= 2
    BY <1>6
  <2>1. PICK u : u = Tail(s)
    OBVIOUS
  <2>2. u \in Seq(C) /\ u # <<>>
    <3>1. Len(u) = Len(s) - 1 /\ Len(s) \in Nat /\ u \in Seq(C)
      BY <1>1, <2>1
    <3>2. Len(u) # 0
      <4>1. PICK l, k : l = Len(s) /\ k = Len(u)
        OBVIOUS
      <4>2. l \in Nat /\ l >= 2 /\ k = l - 1
        BY <2>0, <3>1, <4>1
      <4>3. k # 0
        BY <4>2
      <4> QED BY <4>1, <4>3
    <3> QED BY <3>1, <3>2, NoCalls
  <2>3. PICK w : w = Tail(u)
    OBVIOUS
  <2>4. w \in Seq(C) /\ Len(w) = Len(s) - 2 /\ \A k \in 1..(Len(s) - 2) : w[k] = u[k + 1]
    BY <1>1, <2>1, <2>2, <2>3, TailFacts
  <2>5. s2 = <<x>> \o w
    BY <1>6, <2>1, <2>3
  <2>6. Len(s2) = Len(s) - 1 /\ s2[1] = x /\ \A k \in 2..(Len(s) - 1) : s2[k] = w[k - 1]
    <3>1. Len(s) \in Nat
      BY <1>1
    <3> QED BY <2>0, <2>4, <2>5, <3>1
  <2>7. ASSUME NEW k \in 2..(Len(s) - 1) PROVE s2[k].node \in R
    <3>1. k - 1 \in 1..(Len(s) - 2) /\ (k - 1) + 1 = k /\ k \in 1..(Len(s) - 1)
      BY <1>1
    <3>2. s2[k] = u[k]
      BY <2>4, <2>6, <3>1
    <3> QED BY <1>2, <2>1, <3>1, <3>2
  <2>8. \A k \in 1..(Len(s) - 1) : k = 1 \/ k \in 2..(Len(s) - 1)
    BY <1>1
  <2> QED BY <2>6, <2>7, <2>8 DEF Visiting
<1> QED BY <1>3, <1>4, <1>5, <1>6

\* What the innermost call is at.
LEMMA TopVisited ==
  ASSUME IInv, Agreed, Visits, pc = "loading"
  PROVE  /\ WellFormed(doc) /\ val \in Values(doc) /\ Later(doc, val, Means(doc)) /\ Means(doc) \in Values(doc)
         /\ stack \in Seq(Calls) /\ stack # <<>> /\ Top \in Calls
         /\ Top.node \in Nodes(doc) /\ Top.node \in Reached(doc)
         /\ Kind = doc.kind[Top.node] /\ Ref = doc.ref[Top.node]
         /\ Top.at \in {"value", "walk"} =>
               Value \in Nodes(doc) /\ Value \in Reached(doc) /\ doc.kind[Value] = doc.kind[Top.node]
<1>1. PICK D, n, v : D = Depth /\ n = Top.node /\ v = Value
  OBVIOUS
<1>2. /\ D \in 1..Depth /\ Top = Frame(D) /\ Top \in Calls /\ n \in Nodes(doc)
      /\ Shape(D) /\ Held(D) /\ v = ValueOf(Frame(D)) /\ Kind = doc.kind[n] /\ Ref = doc.ref[n]
  BY <1>1, TopFacts
<1>3. /\ WellFormed(doc) /\ val \in Values(doc) /\ Later(doc, val, Means(doc)) /\ Means(doc) \in Values(doc)
  BY WellFormedDoc, MeansFacts DEF IInv, Types, Agreed, Settled
<1>4. stack \in Seq(Calls) /\ stack # <<>>
  BY DEF IInv, Types
<1>5. n \in Reached(doc)
  <2>1. Top = stack[1] /\ 1 \in 1..Len(stack)
    BY <1>4 DEF Top
  <2> QED BY <1>1, <2>1 DEF Visits, Visiting
<1>6. ASSUME Top.at \in {"value", "walk"}
      PROVE  v \in Nodes(doc) /\ v \in Reached(doc) /\ doc.kind[v] = doc.kind[n]
  <2>1. v \in Nodes(doc) /\ doc.kind[v] = doc.kind[n]
    BY <1>1, <1>2, <1>6, ValueType
  <2>2. CASE IsWrapper(n)
    <3>1. EndsAt(doc, val, n, v)
      BY <1>1, <1>2, <1>6, <2>2 DEF Held
    <3> QED BY <1>3, <1>5, <2>1, <3>1, EndReached
  <2>3. CASE doc.kind[n] = "pathItem"
    BY <1>3, <2>1, <2>3, PathItemsReached
  <2>4. CASE ~IsWrapper(n) /\ doc.kind[n] # "pathItem"
    <3>1. doc.ref[n] = None /\ Frame(D).own
      BY <1>1, <1>2, <1>3, <2>4 DEF WellFormed, Nodes, IsWrapper, Shape, CopyFor
    <3>2. v = n
      BY <1>1, <1>2, <3>1 DEF IInv, ValuesOK, ValueOf
    <3> QED BY <1>5, <2>1, <3>2
  <2> QED BY <2>1, <2>2, <2>3, <2>4
<1> QED BY <1>1, <1>2, <1>3, <1>4, <1>5, <1>6

LEMMA CallVisits ==
  ASSUME NEW after, NEW n, NEW own \in BOOLEAN, NEW R, NEW C, stack \in Seq(C), stack # <<>>,
         Visiting(stack, R), after.node \in R, n \in R, Call(after, n, own)
  PROVE  Visiting(stack', R)
<1>1. PICK y : y = Calling(n, own, IF own THEN None ELSE val[n])
  OBVIOUS
<1>2. y.node = n
  BY <1>1 DEF Calling
<1>3. stack' = <<>> \/ stack' = <<y, after>> \o Tail(stack)
  BY <1>1 DEF Call, Fail
<1> QED BY <1>2, <1>3, VisitingAfter

LEMMA NextVisits == IInv /\ Agreed /\ Visits /\ [Next]_vars => Visits'
<1>1. SUFFICES ASSUME IInv, Agreed, Visits, [Next]_vars PROVE Visits'
  OBVIOUS
<1>2. PICK R : R = Reached(doc)
  OBVIOUS
<1>3. SUFFICES Visiting(stack', R)
  BY <1>1, <1>2, StepValues DEF Visits
<1>4. Visiting(stack, R)
  BY <1>1, <1>2 DEF Visits
<1>5. CASE stack' = stack
  BY <1>4, <1>5
<1>6. SUFFICES ASSUME pc = "loading", Load PROVE Visiting(stack', R)
  BY <1>1, <1>5 DEF Next, Ended, vars, Load, At, AlreadyVisited, Inline, FollowRef, CopyPathItem,
                    OpenValue, Descend, AllVisited
<1>7. /\ WellFormed(doc) /\ val \in Values(doc) /\ Later(doc, val, Means(doc)) /\ Means(doc) \in Values(doc)
      /\ stack \in Seq(Calls) /\ stack # <<>> /\ Top \in Calls
      /\ Top.node \in Nodes(doc) /\ Top.node \in R
      /\ Kind = doc.kind[Top.node] /\ Ref = doc.ref[Top.node]
      /\ Top.at = "walk" => Value \in Nodes(doc) /\ Value \in R /\ doc.kind[Value] = doc.kind[Top.node]
  BY <1>1, <1>2, <1>6, TopVisited
\* What becomes of the call on top is for the same component.
<1>8. ASSUME NEW x, x.node = Top.node, stack' = <<>> \/ stack' = <<x>> \o Tail(stack) PROVE Visiting(stack', R)
  BY <1>4, <1>7, <1>8, VisitingAfter
<1>9. CASE AlreadyVisited \/ AllVisited
  <2>1. Returns /\ Return /\ doc' = doc /\ visited' = visited
    BY <1>9 DEF AlreadyVisited, AllVisited, At, Returns
  <2>2. CASE Top.own
    BY <1>4, <1>7, <2>1, <2>2, VisitingAfter DEF Return
  <2>3. CASE ~Top.own
    <3>1. PICK D, n, caller, m, v, x : Handing(D, n, caller, m, v, x)
      BY Zenon DEF Handing
    <3>2. /\ D \in Nat /\ D > 1 /\ caller \in Calls /\ stack' = <<x>> \o Tail(Tail(stack))
      BY <1>1, <1>6, <2>1, <2>3, <3>1, BackFacts
    <3>3. D = Len(stack) /\ caller = stack[2] /\ x.node = caller.node
      <4>1. D = Depth /\ caller = Frame(D - 1) /\ x = Resumed(caller, v)
        BY <3>1 DEF Handing
      <4>2. D = Len(stack) /\ caller = stack[Len(stack) + 1 - (D - 1)]
        BY <4>1 DEF Depth, Frame, FrameIn
      <4>3. Len(stack) + 1 - (D - 1) = 2
        BY <3>2, <4>2
      <4>4. x.node = caller.node
        BY <3>2, <4>1 DEF Resumed, Calls
      <4> QED BY <4>2, <4>3, <4>4
    <3>4. x.node \in R
      BY <1>4, <3>2, <3>3 DEF Visiting
    <3>5. Len(stack) >= 2
      BY <3>2, <3>3
    <3> QED BY <1>4, <1>7, <3>2, <3>4, <3>5, VisitingAfter
  <2> QED BY <2>2, <2>3
<1>10. CASE Inline \/ CopyPathItem \/ OpenValue
  <2>1. PICK x, z : /\ x = [Top EXCEPT !.at = "value"]
                    /\ z = [Top EXCEPT !.at = "walk", !.todo = IF Value = None THEN {} ELSE Walked(Top.node, Value)]
    OBVIOUS
  <2>2. x.node = Top.node /\ z.node = Top.node
    BY <1>7, <2>1 DEF Calls
  <2>3. stack' = <<>> \/ stack' = <<x>> \o Tail(stack) \/ stack' = <<z>> \o Tail(stack)
    BY <1>10, <2>1 DEF Inline, CopyPathItem, OpenValue, Fail
  <2> QED BY <1>8, <2>2, <2>3
<1>11. CASE FollowRef
  <2>1. PICK x, target : x = [Top EXCEPT !.at = "copied"] /\ target = Drilled(doc, val, Ref)
    OBVIOUS
  <2>2. x.node = Top.node /\ Ref # None /\ Kind \in Wrappers
    BY <1>7, <1>11, <2>1 DEF Calls, FollowRef
  <2>3. Fits(target) => target \in R
    <3>1. SUFFICES ASSUME Fits(target) PROVE target \in R
      OBVIOUS
    <3>2. Len(Ref) \in Nat
      BY <1>7, <2>2 DEF WellFormed, Nodes
    <3>3. target \in Nodes(doc) /\ doc.kind[target] = doc.kind[Top.node]
      BY <1>7, <2>1, <3>1, <3>2, DrilledType DEF Fits
    <3>4. Refers(doc, val, Top.node)
      BY <1>7, <2>1, <2>2, <3>3 DEF Refers
    <3>5. Target(doc, Top.node) = target
      BY <1>7, <2>1, <3>4, RefersKept DEF Target
    <3>6. target \in Onward(doc, Top.node)
      BY <1>7, <2>2, <3>5 DEF Onward
    <3> QED BY <1>2, <1>7, <3>3, <3>6, ReachedFacts
  <2>4. stack' = <<>> \/ (Fits(target) /\ Call(x, target, FALSE))
    BY <1>11, <2>1 DEF FollowRef, Fail, Drill
  <2>5. CASE stack' = <<>>
    BY <1>8, <2>2, <2>5
  <2>6. CASE Fits(target) /\ Call(x, target, FALSE)
    BY <1>4, <1>7, <2>2, <2>3, <2>6, CallVisits
  <2> QED BY <2>4, <2>5, <2>6
<1>12. CASE Descend
  <2>1. PICK t \in Top.todo :
           LET after == [Top EXCEPT !.todo = @ \ {t}]
           IN  \/ stack' = <<>> \/ stack' = <<after>> \o Tail(stack)
               \/ t[3] # Nil /\ Call(after, t[3], TRUE)
    BY <1>12 DEF Descend, Fail
  <2>2. PICK x : x = [Top EXCEPT !.todo = Top.todo \ {t}]
    OBVIOUS
  <2>3. x.node = Top.node /\ Top.at = "walk"
    BY <1>7, <1>12, <2>2 DEF Calls, Descend, At
  <2>4. t[3] # Nil => t[3] \in R
    <3>1. PICK D, n, v : D = Depth /\ n = Top.node /\ v = Value
      OBVIOUS
    <3>2. t \in Walked(n, v) /\ (t[3] # Nil => t[3] \in Nodes(doc)) /\ v \in R /\ doc.kind[v] = doc.kind[n]
      BY <1>1, <1>6, <1>7, <2>3, <3>1, TopWalk
    <3>3. t \in Below(doc, v)
      BY <3>2 DEF Walked, Below
    <3>4. t[3] \in Onward(doc, v)
      BY <3>3 DEF Onward
    <3> QED BY <1>2, <1>7, <3>2, <3>4, ReachedFacts
  <2>5. CASE stack' = <<>> \/ stack' = <<x>> \o Tail(stack)
    BY <1>8, <2>3, <2>5
  <2>6. CASE t[3] # Nil /\ Call(x, t[3], TRUE)
    BY <1>4, <1>7, <2>3, <2>4, <2>6, CallVisits
  <2> QED BY <2>1, <2>2, <2>5, <2>6
<1> QED BY <1>6, <1>9, <1>10, <1>11, <1>12 DEF Load

-----------------------------------------------------------------------------
(* A document is refused only for what is wrong with it.                    *)

LEMMA IntoFacts ==
  ASSUME NEW d, NEW w, NEW from, NEW part, Into(d, w, from, part) \notin {None, Nil}
  PROVE  /\ from \notin {None, Nil} /\ w[from] # None
         /\ \E t \in d.fields[w[from]] : <<t[1], t[2]>> = part /\ t[3] = Into(d, w, from, part)
<1>1. from \notin {None, Nil} /\ w[from] # None
  BY DEF Into
<1>2. PICK below : below = {t \in d.fields[w[from]] : <<t[1], t[2]>> = part}
  OBVIOUS
<1>3. below # {} /\ Into(d, w, from, part) = (CHOOSE t \in below : TRUE)[3]
  BY <1>1, <1>2 DEF Into
<1>4. (CHOOSE t \in below : TRUE) \in below
  BY <1>3
<1> QED BY <1>1, <1>2, <1>3, <1>4

\* A fragment leads to a path item by the paths of the document only.
LEMMA PathsOnly ==
  ASSUME NEW d, WellFormed(d), NEW w, Settled(d, w), NEW ref, Len(ref) \in Nat,
         Drilled(d, w, ref) \in Nodes(d), d.kind[Drilled(d, w, ref)] = "pathItem"
  PROVE  Len(ref) = 1 /\ ref[1][1] = "paths"
<1>1. PICK at : Trail(d, w, at, ref) /\ Drilled(d, w, ref) = at[Len(ref)]
  BY DrilledTrail
<1>2. /\ w \in Values(d) /\ None \notin Nodes(d) /\ Nil \notin Nodes(d) /\ Root \in Nodes(d) /\ d.kind[Root] = "doc"
      /\ \A n \in Nodes(d) : d.kind[n] = "doc" => n = Root
  BY DEF Settled, WellFormed, Nodes
\* What a step of it leads to is no document, and comes from a value of the kind it is at.
<1>3. ASSUME NEW k \in 1..Len(ref), at[k] \in Nodes(d)
      PROVE  \E t : /\ <<t[1], t[2]>> = ref[k] /\ at[k - 1] \in Nodes(d)
                    /\ d.kind[at[k]] \in KindBelow(d.kind[at[k - 1]], t[1])
  <2>1. at[k] = Into(d, w, at[k - 1], ref[k]) /\ k - 1 \in 0..Len(ref)
    BY <1>1, <1>3 DEF Trail
  <2>2. PICK m : m = at[k - 1]
    OBVIOUS
  <2>3. PICK t \in d.fields[w[m]] : <<t[1], t[2]>> = ref[k] /\ t[3] = at[k]
    BY <1>2, <1>3, <2>1, <2>2, IntoFacts
  <2>4. m \in Nodes(d) /\ w[m] # None
    BY <1>1, <1>2, <1>3, <2>1, <2>2, IntoFacts, TrailType
  <2>5. w[m] \in Nodes(d) /\ d.kind[w[m]] = d.kind[m]
    BY <2>4 DEF Settled, Values
  <2>6. d.kind[t[3]] \in KindBelow(d.kind[w[m]], t[1])
    BY <1>2, <1>3, <2>3, <2>5, StandsBelow
  <2> QED BY <2>2, <2>3, <2>4, <2>5, <2>6
<1>4. PICK N : N = Len(ref) /\ N \in Nat
  OBVIOUS
<1>5. at[0] = Root /\ at[N] \in Nodes(d) /\ d.kind[at[N]] = "pathItem"
  BY <1>1, <1>4 DEF Trail
<1>6. N # 0
  BY <1>2, <1>5
<1>7. PICK t : /\ <<t[1], t[2]>> = ref[N] /\ at[N - 1] \in Nodes(d)
               /\ d.kind[at[N]] \in KindBelow(d.kind[at[N - 1]], t[1])
  <2>1. N \in 1..Len(ref)
    BY <1>4, <1>6
  <2> QED BY <1>3, <1>5, <2>1
<1>8. d.kind[at[N - 1]] = "doc" /\ t[1] = "paths"
  BY <1>5, <1>7 DEF KindBelow, Wrappers
<1>9. N = 1
  <2>1. SUFFICES ASSUME N # 1 PROVE FALSE
    OBVIOUS
  <2>2. N - 1 \in 1..Len(ref)
    BY <1>4, <1>6, <2>1
  <2>3. PICK u : d.kind[at[N - 1]] \in KindBelow(d.kind[at[(N - 1) - 1]], u[1])
    BY <1>3, <1>7, <2>2
  <2> QED BY <1>8, <2>3 DEF KindBelow, Wrappers
<1>10. ref[N][1] = t[1]
  BY <1>7
<1> QED BY <1>4, <1>8, <1>9, <1>10

\* Where no reference is passed, the values of the moment do not matter.
LEMMA NotPassing ==
  ASSUME NEW d, WellFormed(d), NEW w \in Values(d), \A m \in Nodes(d) : d.ref[m] = None => w[m] = m,
         NEW n \in Nodes(d), d.ref[n] # None, ~PassesRef(d, n)
  PROVE  Drilled(d, w, d.ref[n]) = Target(d, n) /\ Target(d, n) \in Nodes(d) \cup {None, Nil}
<1>1. PICK ref, M : ref = d.ref[n] /\ M = Means(d)
  OBVIOUS
<1>2. /\ Len(ref) \in Nat /\ M \in Values(d) /\ d.ref[Root] = None
      /\ \A m \in Nodes(d) : d.ref[m] = None => M[m] = m /\ w[m] = m
  BY <1>1, MeansFacts DEF Settled, WellFormed, Nodes
<1>3. PICK at : Trail(d, w, at, ref) /\ Drilled(d, w, ref) = at[Len(ref)]
  BY <1>1, <1>2, DrilledTrail
<1>4. PICK at2 : at2 = Along(d, M, ref)
  OBVIOUS
<1>5. Trail(d, M, at2, ref) /\ Target(d, n) = at2[Len(ref)]
  BY <1>1, <1>2, <1>4, AlongTrail DEF Target, Drilled
<1>6. \A k \in 1..(Len(ref) - 1) : at2[k] \notin {None, Nil} => d.ref[at2[k]] = None
  BY <1>1, <1>4 DEF PassesRef
<1>7. \A k \in 0..Len(ref) : at2[k] \in Nodes(d) \cup {None, Nil}
  BY <1>1, <1>2, <1>5, TrailType
<1> DEFINE T == {k \in 0..Len(ref) : at[k] # at2[k]}
<1>8. ASSUME NEW m \in T, \A k \in T : m <= k PROVE FALSE
  <2>1. /\ m \in Nat /\ m \in 0..Len(ref)
        /\ at[m] = IF m = 0 THEN Root ELSE Into(d, w, at[m - 1], ref[m])
        /\ at2[m] = IF m = 0 THEN Root ELSE Into(d, M, at2[m - 1], ref[m])
    <3>1. m \in Nat /\ m \in 0..Len(ref)
      BY <1>2
    <3>2. at[m] = IF m = 0 THEN Root ELSE Into(d, w, at[m - 1], ref[m])
      BY <1>3, <3>1 DEF Trail
    <3>3. at2[m] = IF m = 0 THEN Root ELSE Into(d, M, at2[m - 1], ref[m])
      BY <1>5, <3>1 DEF Trail
    <3> QED BY <3>1, <3>2, <3>3
  <2>2. m # 0
    BY <2>1
  <2>3. m - 1 \in 0..Len(ref) /\ ~(m <= m - 1) /\ m - 1 \in Nat
    BY <1>2, <2>1, <2>2
  <2>4. at[m - 1] = at2[m - 1]
    BY <1>8, <2>3
  <2>5. PICK x : x = at2[m - 1]
    OBVIOUS
  <2>6. x \in {None, Nil} \/ (x \in Nodes(d) /\ d.ref[x] = None)
    <3>1. CASE m - 1 = 0
      <4>1. at2[0] = Root
        BY <1>5 DEF Trail
      <4> QED BY <1>2, <2>5, <3>1, <4>1 DEF WellFormed, Nodes
    <3>2. CASE m - 1 # 0
      <4>1. m - 1 \in 1..(Len(ref) - 1)
        BY <1>2, <2>1, <2>3, <3>2
      <4> QED BY <1>6, <1>7, <2>3, <2>5, <4>1
    <3> QED BY <3>1, <3>2
  <2>7. Into(d, w, x, ref[m]) = Into(d, M, x, ref[m])
    <3>1. CASE x \in {None, Nil}
      BY <3>1 DEF Into
    <3>2. CASE x \in Nodes(d) /\ d.ref[x] = None
      <4>1. M[x] = w[x]
        BY <1>2, <3>2
      <4> QED BY <4>1 DEF Into
    <3> QED BY <2>6, <3>1, <3>2
  <2> QED BY <2>1, <2>2, <2>4, <2>5, <2>7
<1>9. T = {}
  <2> HIDE DEF T
  <2>1. T \in SUBSET Nat
    BY DEF T
  <2> QED BY <1>8, <2>1, LeastOne
<1>10. Len(ref) \in 0..Len(ref)
  BY <1>2
<1> QED BY <1>1, <1>3, <1>5, <1>7, <1>9, <1>10

Refusals == pc \in {"refused", "panicked"} => Wrong(doc) \/ Passing(doc)

\* What a fragment leads to is refused for the reference it is, or passes.
LEMMA RefusedReference ==
  ASSUME IInv, NEW n \in Reached(doc), n \in Nodes(doc), doc.ref[n] # None,
         NEW target, target = Drilled(doc, val, doc.ref[n]),
         target \in {None, Nil} \/ doc.kind[target] # doc.kind[n]
         \/ (doc.kind[n] = "pathItem" /\ ~(Len(doc.ref[n]) = 1 /\ doc.ref[n][1][1] = "paths"))
  PROVE  Wrong(doc) \/ Passing(doc)
<1>1. n \in Referring(doc)
  BY DEF Referring
<1>2. CASE PassesRef(doc, n)
  BY <1>1, <1>2 DEF Passing
<1>3. CASE ~PassesRef(doc, n)
  <2>1. WellFormed(doc) /\ val \in Values(doc) /\ \A m \in Nodes(doc) : doc.ref[m] = None => val[m] = m
    BY WellFormedDoc DEF IInv, Types, ValuesOK
  <2>2. target = Target(doc, n) /\ target \in Nodes(doc) \cup {None, Nil}
    BY <1>3, <2>1, NotPassing
  <2>3. ASSUME target \in Nodes(doc), doc.kind[target] = doc.kind[n], doc.kind[n] = "pathItem"
        PROVE  Len(doc.ref[n]) = 1 /\ doc.ref[n][1][1] = "paths"
    <3>1. Len(doc.ref[n]) \in Nat
      BY <2>1 DEF WellFormed, Nodes
    <3> QED BY <2>1, <2>2, <2>3, <3>1, PathsOnly, MeansFacts DEF Target
  <2>4. Dangles(doc, n)
    BY <2>1, <2>2, <2>3 DEF Dangles, WellFormed, Nodes
  <2> QED BY <1>1, <2>4 DEF Wrong
<1> QED BY <1>2, <1>3

LEMMA NextRefusals == IInv /\ Agreed /\ Visits /\ Refusals /\ [Next]_vars => Refusals'
<1>1. SUFFICES ASSUME IInv, Agreed, Visits, Refusals, [Next]_vars, pc' \in {"refused", "panicked"}
               PROVE  Wrong(doc) \/ Passing(doc)
  BY StepValues DEF Refusals
<1>2. CASE pc' = pc
  BY <1>1, <1>2 DEF Refusals
<1>3. SUFFICES ASSUME pc = "loading", Load, pc' # pc PROVE Wrong(doc) \/ Passing(doc)
  BY <1>1, <1>2 DEF Next, Ended, vars, Load, At, AlreadyVisited, Inline, FollowRef, CopyPathItem,
                    OpenValue, Descend, AllVisited
<1>4. /\ WellFormed(doc) /\ val \in Values(doc)
      /\ Top.node \in Nodes(doc) /\ Top.node \in Reached(doc)
      /\ Kind = doc.kind[Top.node] /\ Ref = doc.ref[Top.node]
      /\ Top.at \in {"value", "walk"} =>
            Value \in Nodes(doc) /\ Value \in Reached(doc) /\ doc.kind[Value] = doc.kind[Top.node]
  BY <1>1, <1>3, TopVisited
<1>5. CASE FollowRef
  <2>1. Ref # None /\ ~Fits(Drill(Ref))
    <3>1. PICK x : x = [Top EXCEPT !.at = "copied"]
      OBVIOUS
    <3>2. ASSUME Fits(Drill(Ref)) PROVE FALSE
      <4>1. Drill(Ref) # Nil
        BY <3>2 DEF Fits
      <4>2. Call(x, Drill(Ref), FALSE)
        BY <1>5, <3>1, <3>2, <4>1 DEF FollowRef
      <4>3. pc' \in {pc, "overflow"}
        BY <4>2 DEF Call, Fail
      <4> QED BY <1>1, <1>3, <4>3
    <3> QED BY <1>5, <3>2 DEF FollowRef
  <2> QED BY <1>1, <1>4, <2>1, RefusedReference DEF Fits, Drill
<1>6. CASE CopyPathItem
  <2>1. /\ Ref # None /\ Kind = "pathItem"
        /\ ~(Len(Ref) = 1 /\ Ref[1][1] = "paths" /\ Drill(Ref) \notin {None, Nil})
    BY <1>3, <1>6 DEF CopyPathItem
  <2> QED BY <1>1, <1>4, <2>1, RefusedReference DEF Drill
<1>7. CASE OpenValue
  <2>1. Ambiguous /\ Top.at = "value"
    BY <1>3, <1>7 DEF OpenValue, At
  <2>2. Both(doc, Value)
    BY <1>4, <2>1 DEF Ambiguous, Both
  <2> QED BY <1>4, <2>1, <2>2 DEF Wrong
<1>8. CASE Descend
  <2>1. PICK t \in Top.todo : t[3] = Nil /\ ~LeftOut(Kind, t[1])
    BY <1>1, <1>3, <1>8 DEF Descend, Call, Fail
  <2>2. PICK D, n, v : D = Depth /\ n = Top.node /\ v = Value
    OBVIOUS
  <2>3. Top.at = "walk"
    BY <1>8 DEF Descend, At
  <2>4. t \in Walked(n, v) /\ v \in Reached(doc) /\ doc.kind[v] = doc.kind[n] /\ Kind = doc.kind[n]
    BY <1>1, <1>3, <1>4, <2>2, <2>3, TopWalk
  <2>5. NilBelow(doc, v)
    BY <2>1, <2>4 DEF NilBelow, Walked, Below
  <2> QED BY <2>4, <2>5 DEF Wrong
<1>9. ~(AlreadyVisited \/ AllVisited \/ Inline)
  BY <1>1, <1>3 DEF AlreadyVisited, AllVisited, Inline, Return
<1> QED BY <1>3, <1>5, <1>6, <1>7, <1>8, <1>9 DEF Load

-----------------------------------------------------------------------------
(* Nothing is wrong with a document that is loaded.                         *)

DoneWith(n) == IsWrapper(n) => \E v \in visited : EndsAt(doc, val, n, v)

\* What has a visited value is done.
LEMMA VisitedDone ==
  ASSUME IInv, pc = "loaded", NEW m \in Nodes(doc), IsWrapper(m), val[m] \in visited
  PROVE  DoneWith(m) /\ val[m] # None
<1>1. val[m] # None
  BY LoadedFacts DEF WellFormed, Nodes
<1>2. EndsAt(doc, val, m, val[m])
  <2>1. CASE doc.ref[m] = None
    BY <2>1, EndsItself DEF IInv, ValuesOK
  <2>2. CASE doc.ref[m] # None
    BY <1>1, <2>2 DEF IInv, ValuesOK
  <2> QED BY <2>1, <2>2
<1> QED BY <1>1, <1>2 DEF DoneWith

LEMMA DoneBelow ==
  ASSUME IInv, pc = "loaded", NEW n \in Nodes(doc), DoneWith(n)
  PROVE  /\ ~NilBelow(doc, n) /\ ~Both(doc, n)
         /\ \A t \in Below(doc, n) : t[3] # Nil =>
               t[3] \in Nodes(doc) /\ DoneWith(t[3]) /\ (IsWrapper(t[3]) => val[t[3]] # None)
<1>1. WellFormed(doc) /\ val \in Values(doc) /\ visited \in SUBSET Nodes(doc)
  BY LoadedFacts
<1>2. CASE doc.ref[n] # None
  <2>1. doc.fields[n] = {}
    BY <1>1, <1>2 DEF WellFormed, Nodes
  <2> QED BY <2>1 DEF NilBelow, Both, Below
<1>3. CASE doc.ref[n] = None
  <2>1. /\ Sound(doc, n)
        /\ \A t \in Below(doc, n) : t[3] # Nil /\ IsWrapper(t[3]) => val[t[3]] \in visited
    <3>1. CASE IsWrapper(n)
      <4>1. PICK v \in visited : EndsAt(doc, val, n, v)
        BY <3>1 DEF DoneWith
      <4>2. v = n
        BY <1>3, <4>1, EndsItself, EndsOnce
      <4>3. Black(doc, val, visited, n)
        BY <4>1, <4>2, LoadedFacts
      <4> QED BY <4>3 DEF Black, Below
    <3>2. CASE n = Root
      <4>1. \A t \in Below(doc, n) : t \in doc.fields[Root] /\ t[1] # "links"
        <5>1. doc.kind[Root] = "doc"
          BY <1>1 DEF WellFormed, Nodes
        <5> QED BY <3>2, <5>1 DEF Below, Slots
      <4>2. Sound(doc, Root) /\ \A t \in doc.fields[Root] : t[1] # "links" /\ t[3] # Nil => Finished(doc, val, visited, t[3])
        BY DEF IInv, RootDone
      <4> QED BY <3>2, <4>1, <4>2 DEF Finished, IsWrapper
    <3>3. CASE doc.kind[n] = "pathItem"
      <4>1. val[n] = n /\ Finished(doc, val, visited, n)
        BY <1>3, <3>3, LoadedFacts DEF IInv, ValuesOK
      <4> QED BY <3>3, <4>1 DEF Finished, Below, IsWrapper, Wrappers
    <3>4. CASE doc.kind[n] = "operation"
      <4>1. Black(doc, val, visited, n)
        BY <3>4, LoadedFacts
      <4> QED BY <4>1 DEF Black, Below
    <3> QED BY <1>1, <3>1, <3>2, <3>3, <3>4 DEF WellFormed, Nodes, IsWrapper
  <2>2. ~Both(doc, n)
    BY <2>1 DEF Both, Sound, Mixed
  <2>3. ~NilBelow(doc, n)
    <3>1. ASSUME NEW t \in Below(doc, n), t[3] = Nil PROVE LeftOut(doc.kind[n], t[1])
      <4>1. t \in doc.fields[n] /\ (doc.kind[n] = "doc" => t[1] # "links")
        BY DEF Below, Slots
      <4> QED BY <2>1, <3>1, <4>1 DEF Sound, Unvisited
    <3> QED BY <3>1 DEF NilBelow
  <2>4. ASSUME NEW t \in Below(doc, n), t[3] # Nil
        PROVE  t[3] \in Nodes(doc) /\ DoneWith(t[3]) /\ (IsWrapper(t[3]) => val[t[3]] # None)
    <3>1. t[3] \in Nodes(doc)
      BY <1>1, <2>4 DEF Below, WellFormed, Nodes
    <3>2. CASE IsWrapper(t[3])
      BY <2>1, <2>4, <3>1, <3>2, VisitedDone
    <3>3. CASE ~IsWrapper(t[3])
      BY <3>1, <3>3 DEF DoneWith
    <3> QED BY <3>2, <3>3
  <2> QED BY <2>2, <2>3, <2>4
<1> QED BY <1>2, <1>3

LEMMA DoneTarget ==
  ASSUME IInv, Agreed, pc = "loaded", NEW n \in Nodes(doc), DoneWith(n), doc.ref[n] # None
  PROVE  /\ Target(doc, n) \in Nodes(doc) /\ doc.kind[Target(doc, n)] = doc.kind[n]
         /\ DoneWith(Target(doc, n))
<1>1. /\ WellFormed(doc) /\ val \in Values(doc) /\ Later(doc, val, Means(doc)) /\ Means(doc) \in Values(doc)
  BY LoadedFacts, MeansFacts DEF Agreed, Settled
<1>2. PICK target : target = Drilled(doc, val, doc.ref[n])
  OBVIOUS
<1>3. CASE IsWrapper(n)
  <2>1. PICK v \in visited : EndsAt(doc, val, n, v)
    BY <1>3 DEF DoneWith
  <2>2. Refers(doc, val, n)
    BY <2>1, EndsRefers
  <2>3. Target(doc, n) = target /\ target \in Nodes(doc) /\ doc.kind[target] = doc.kind[n]
    BY <1>1, <1>2, <2>2, RefersKept DEF Target, Refers
  <2>4. EndsAt(doc, val, target, v)
    BY <1>2, <2>1, <2>2, EndsAfter
  <2> QED BY <2>1, <2>3, <2>4 DEF DoneWith
<1>4. CASE doc.kind[n] = "pathItem"
  <2>1. target \in Nodes(doc) /\ doc.kind[target] = "pathItem"
    BY <1>2, <1>4, LoadedFacts DEF Finished, Copied
  <2>2. target # None /\ Len(doc.ref[n]) \in Nat
    BY <1>1, <2>1 DEF WellFormed, Nodes
  <2>3. Target(doc, n) = target
    BY <1>1, <1>2, <2>2, DrilledKept DEF Target
  <2> QED BY <1>4, <2>1, <2>3 DEF DoneWith, IsWrapper, Wrappers
<1> QED BY <1>1, <1>3, <1>4 DEF WellFormed, Nodes, IsWrapper

LEMMA LoadedDone ==
  ASSUME IInv, Agreed, pc = "loaded"
  PROVE  \A n \in Reached(doc) : n \in Nodes(doc) /\ DoneWith(n)
<1>1. WellFormed(doc)
  BY LoadedFacts
<1>2. PICK X : X = {n \in Nodes(doc) : DoneWith(n)}
  OBVIOUS
<1>3. Root \in X
  BY <1>1, <1>2 DEF DoneWith, IsWrapper, Wrappers, WellFormed, Nodes
<1>4. ASSUME NEW n \in X, NEW m \in Onward(doc, n), m \in Nodes(doc) PROVE m \in X
  <2>1. n \in Nodes(doc) /\ DoneWith(n)
    BY <1>2
  <2>2. CASE \E t \in Below(doc, n) : m = t[3]
    <3>1. m # Nil
      BY <1>1, <1>4 DEF WellFormed, Nodes
    <3> QED BY <1>2, <2>1, <2>2, <3>1, DoneBelow
  <2>3. CASE doc.ref[n] # None /\ m = Target(doc, n)
    BY <1>2, <2>1, <2>3, DoneTarget
  <2> QED BY <2>2, <2>3, OnwardFacts
<1>5. X \in SUBSET Nodes(doc)
  BY <1>2
<1>6. Reached(doc) \subseteq X
  BY <1>1, <1>3, <1>4, <1>5, ReachedFacts
<1> QED BY <1>2, <1>6

LEMMA LoadedRight ==
  ASSUME IInv, Agreed, pc = "loaded"
  PROVE  /\ ~Wrong(doc)
         /\ \A n \in Needed(doc) : val[n] # None
<1>1. WellFormed(doc)
  BY LoadedFacts
<1>2. ASSUME NEW n \in Referring(doc) PROVE ~Dangles(doc, n)
  <2>1. n \in Nodes(doc) /\ DoneWith(n) /\ doc.ref[n] # None
    BY LoadedDone DEF Referring
  <2>2. Target(doc, n) \in Nodes(doc) /\ doc.kind[Target(doc, n)] = doc.kind[n]
    BY <2>1, DoneTarget
  <2> QED BY <1>1, <2>2 DEF Dangles, WellFormed, Nodes
<1>3. ASSUME NEW n \in Reached(doc) PROVE ~NilBelow(doc, n) /\ ~Both(doc, n)
  BY LoadedDone, DoneBelow
<1>4. ASSUME NEW n \in Needed(doc) PROVE val[n] # None
  <2>1. PICK m \in Reached(doc) : \E t \in Below(doc, m) : n = t[3]
    BY DEF Needed
  <2>2. n \in Nodes(doc) /\ IsWrapper(n) /\ n # Nil
    BY <1>1 DEF Needed, Components, IsWrapper, Nodes, WellFormed
  <2> QED BY <2>1, <2>2, LoadedDone, DoneBelow
<1> QED BY <1>2, <1>3, <1>4 DEF Wrong

-----------------------------------------------------------------------------
(* Cycles through aliases.                                                  *)

\* The references among the components that mean something in C, and those
\* to them: none of these can be given a value, since a copy of such an
\* alias has to come to the end of a value that is not at its end.
Leading(d, C) ==
    {n \in Aliases(d) : /\ Means(d)[n] \in C
                        /\ n \in Listed(d) \/ (ToAlias(d, n) /\ Target(d, n) \in Listed(d))}
Circle(d, C) == C \subseteq Nodes(d) /\ \A v \in C : \E t \in Below(d, v) : t[3] \in Leading(d, C)
Unled(w, L)  == \A n \in L : w[n] = None
CyclesOpen ==
    pc \in {"loading", "loaded"} =>
        \A C \in SUBSET Nodes(doc) : Circle(doc, C) => Unled(val, Leading(doc, C))

\* What is done has all below it done.
LEMMA CircleOpen ==
  ASSUME IInv, NEW C, Circle(doc, C), Unled(val, Leading(doc, C)), NEW v \in C
  PROVE  ~Black(doc, val, visited, v)
<1>1. PICK t \in Below(doc, v) : t[3] \in Leading(doc, C)
  BY DEF Circle
<1>2. WellFormed(doc) /\ visited \in SUBSET Nodes(doc)
  BY WellFormedDoc DEF IInv, Types
<1>3. t[3] \in Nodes(doc) /\ t[3] # Nil /\ None \notin visited
  BY <1>1, <1>2 DEF Leading, Aliases, WellFormed, Nodes
<1>4. val[t[3]] = None /\ t \in doc.fields[v]
  BY <1>1 DEF Unled, Below
<1> QED BY <1>3, <1>4 DEF Black

\* A component's own wrapper is visited from the document alone.
LEMMA ListedFirst ==
  ASSUME IInv, pc = "loading", NEW i \in 1..Depth, Frame(i).own, Frame(i).node \in Listed(doc)
  PROVE  i = 2
<1>1. WellFormed(doc) /\ Depth \in Nat
  BY WellFormedDoc, DepthType
<1>2. PICK u \in doc.fields[Root] : Frame(i).node = u[3]
  BY DEF Listed
<1>3. Frame(i).node \in Nodes(doc) /\ IsWrapper(Frame(i).node)
  BY DEF Listed, Aliases, IsWrapper, Nodes
<1>4. Root \in Nodes(doc) /\ doc.kind[Root] = "doc" /\ ~IsWrapper(Root)
  BY <1>1 DEF WellFormed, Nodes, IsWrapper, Wrappers
<1>5. Shape(i)
  BY DEF IInv, Frames
<1>6. i > 1 /\ CallFrom(i)
  BY <1>1, <1>3, <1>4, <1>5 DEF Shape
<1>7. PICK j : j = i - 1
  OBVIOUS
<1>8. j \in 1..Depth
  BY <1>1, <1>6, <1>7
<1>9. PICK t \in doc.fields[ValueOf(Frame(j))] : Frame(j).at = "walk" /\ t[3] = Frame(i).node
  BY <1>6, <1>7 DEF CallFrom
<1>10. /\ Frame(j).node \in Nodes(doc) /\ ValueOf(Frame(j)) \in Nodes(doc)
       /\ doc.kind[ValueOf(Frame(j))] = doc.kind[Frame(j).node]
  BY <1>8, <1>9, ValueType
<1>11. ValueOf(Frame(j)) = Root
  <2>1. t[3] = u[3] /\ t[3] # Nil
    BY <1>1, <1>2, <1>3, <1>9 DEF WellFormed, Nodes
  <2> QED BY <1>1, <1>2, <1>4, <1>9, <1>10, <2>1 DEF WellFormed, Nodes
<1>12. Frame(j).node = Root
  BY <1>1, <1>4, <1>10, <1>11 DEF WellFormed, Nodes
<1>13. Shape(j)
  BY <1>8 DEF IInv, Frames
<1>14. j = 1
  BY <1>12, <1>13 DEF Shape
<1> QED BY <1>7, <1>14, <1>1

\* What a copy is returned to is none of these.
LEMMA BackOpen ==
  ASSUME IInv, Agreed, pc = "loading", Returns, Return, ~Top.own, doc' = doc, visited' = visited,
         NEW C, Circle(doc, C), Unled(val, Leading(doc, C))
  PROVE  Unled(val', Leading(doc, C))
<1>0. PICK D, n, caller, m, v, x : Handing(D, n, caller, m, v, x)
  BY Zenon DEF Handing
<1>1. /\ D \in Nat /\ D > 1 /\ D \in 1..Depth /\ Top = Frame(D) /\ n \in Nodes(doc) /\ v = ValueOf(Frame(D))
      /\ m \in Nodes(doc) /\ D - 1 \in 1..Depth
      /\ caller.at = "copied" /\ IsWrapper(m) /\ doc.ref[m] # None
      /\ val' = IF caller.own THEN [val EXCEPT ![m] = v] ELSE val
      /\ v \in visited /\ v # None /\ EndsAt(doc, val, m, v)
  BY <1>0, BackFacts
<1>2. /\ D = Depth /\ n = Top.node /\ caller = Frame(D - 1) /\ m = caller.node /\ v = Value
  BY <1>0 DEF Handing
<1>3. /\ WellFormed(doc) /\ val \in Values(doc) /\ Later(doc, val, Means(doc)) /\ Means(doc) \in Values(doc)
  BY WellFormedDoc, MeansFacts DEF IInv, Types, Agreed, Settled
<1>4. Means(doc)[m] = v
  BY <1>1, <1>3, EndsMeans
<1>5. /\ n = Drilled(doc, val, doc.ref[m]) /\ IsWrapper(n)
      /\ Top.at = "enter" => Top.local = val[n]
  <2>1. Shape(D)
    BY <1>1 DEF IInv, Frames
  <2>2. CopyFor(D)
    BY <1>1, <2>1 DEF Shape
  <2> QED BY <1>1, <1>2, <2>2 DEF CopyFor
<1>6. n = Target(doc, m)
  <2>1. Refers(doc, val, m)
    BY <1>1, EndsRefers
  <2> QED BY <1>1, <1>3, <1>5, <2>1, RefersKept DEF Target
<1>7. ASSUME caller.own, m \in Leading(doc, C) PROVE FALSE
  <2>1. v \in C
    BY <1>4, <1>7 DEF Leading
  <2>2. ~Black(doc, val, visited, v)
    BY <2>1, CircleOpen
  <2>3. Top.at # "walk"
    BY <1>2, <1>5, <2>2, ReturnsValue
  <2>4. Top.at = "enter" /\ Value = val[n]
    BY <1>2, <2>3, TopFacts DEF Returns
  <2>5. CASE m \in Listed(doc)
    <3>1. D - 1 = 2
      BY <1>1, <1>2, <1>7, <2>5, ListedFirst
    <3>2. Grey(v)
      BY <1>1, <2>2 DEF IInv, Colours
    <3>3. PICK i \in 1..Depth : /\ Frame(i).at \in {"value", "walk"}
                                /\ IsWrapper(Frame(i).node) /\ ValueOf(Frame(i)) = v
      BY <3>2 DEF Grey
    <3>4. i # D /\ i # D - 1
      BY <1>1, <1>2, <2>4, <3>3
    <3>5. i = 1
      BY <1>1, <1>2, <3>1, <3>4
    <3>6. Frame(1).node = Root
      <4>1. Shape(1)
        BY <3>5 DEF IInv, Frames
      <4> QED BY <4>1 DEF Shape
    <3>7. ~IsWrapper(Root)
      BY <1>3 DEF WellFormed, Nodes, IsWrapper, Wrappers
    <3> QED BY <3>3, <3>5, <3>6, <3>7
  <2>6. CASE m \notin Listed(doc)
    <3>1. n \in Listed(doc)
      BY <1>6, <1>7, <2>6 DEF Leading
    <3>2. Means(doc)[n] = v
      <4>1. val[n] = v /\ val[n] # None
        BY <1>1, <1>2, <2>4
      <4> QED BY <1>1, <1>3, <1>5, <4>1 DEF Later, IsWrapper, Wrappers
    <3>3. n \in Leading(doc, C)
      BY <2>1, <3>1, <3>2 DEF Leading, Listed
    <3>4. val[n] = None
      BY <3>3 DEF Unled
    <3> QED BY <1>1, <1>2, <2>4, <3>4
  <2> QED BY <2>5, <2>6
<1>8. CASE caller.own
  <2>1. \A k \in Leading(doc, C) : val'[k] = val[k]
    <3>1. m \notin Leading(doc, C)
      BY <1>7, <1>8
    <3>2. Leading(doc, C) \subseteq Nodes(doc)
      BY DEF Leading, Aliases, Nodes
    <3> QED BY <1>1, <1>3, <1>8, <3>1, <3>2 DEF Values
  <2> QED BY <2>1 DEF Unled
<1>9. CASE ~caller.own
  BY <1>1, <1>9 DEF Unled
<1> QED BY <1>8, <1>9

\* Nothing that is a reference has a value at the start.
LEMMA InitCycles == Init => CyclesOpen
<1> SUFFICES ASSUME Init, NEW C, NEW n \in Leading(doc, C) PROVE val[n] = None
  BY DEF CyclesOpen, Unled
<1> QED BY DEF Init, Leading, Aliases

\* Only a copy that returns gives a reference its value.
LEMMA NextCycles == IInv /\ Agreed /\ CyclesOpen /\ [Next]_vars => CyclesOpen'
<1>1. SUFFICES ASSUME IInv, Agreed, CyclesOpen, [Next]_vars, pc' \in {"loading", "loaded"},
                      NEW C \in SUBSET Nodes(doc), Circle(doc, C)
               PROVE  Unled(val', Leading(doc, C))
  <2>1. IInv /\ [Next]_vars => doc' = doc
    BY StepValues
  <2> QED BY <2>1 DEF CyclesOpen, Nodes
<1>2. doc' = doc /\ pc \in {"loading", "loaded"}
  <2>1. pc # "loading" => pc' = pc
    BY <1>1 DEF Next, Ended, vars, Load, At, AlreadyVisited, Inline, FollowRef, CopyPathItem,
                OpenValue, Descend, AllVisited
  <2> QED BY <1>1, <2>1, StepValues
<1>3. Unled(val, Leading(doc, C))
  BY <1>1, <1>2 DEF CyclesOpen
<1>4. CASE val' = val
  BY <1>3, <1>4
<1>5. CASE CopyPathItem
  <2>1. PICK m, u : m = Top.node /\ u = val[Drill(Ref)]
    OBVIOUS
  <2>2. doc.kind[m] = "pathItem" /\ (val' = [val EXCEPT ![m] = u] \/ val' = val)
    <3>1. Kind = "pathItem" /\ pc = "loading"
      BY <1>5 DEF CopyPathItem, At
    <3>2. doc.kind[m] = "pathItem"
      BY <2>1, <3>1 DEF Kind
    <3>3. val' = [val EXCEPT ![m] = u] \/ val' = val
      BY <1>5, <2>1 DEF CopyPathItem
    <3> QED BY <3>2, <3>3
  <2>3. \A k \in Leading(doc, C) : k # m /\ k \in Nodes(doc)
    BY <2>2 DEF Leading, Aliases, Wrappers, Nodes
  <2>4. val \in Values(doc)
    BY <1>1 DEF IInv, Types
  <2>5. \A k \in Leading(doc, C) : val'[k] = val[k]
    BY <2>2, <2>3, <2>4 DEF Values
  <2> QED BY <1>3, <2>5 DEF Unled
<1>6. CASE pc = "loading" /\ Returns /\ Return /\ ~Top.own /\ visited' = visited
  BY <1>1, <1>2, <1>3, <1>6, BackOpen
<1> QED BY <1>1, <1>4, <1>5, <1>6, StepValues

\* swagger_loader.go: a document in which values refer to each other through
\* components that are references, or references to one another, is not loaded.
LEMMA LoadedStraight ==
  ASSUME IInv, Agreed, CyclesOpen, pc = "loaded"
  PROVE  ~PureCycle(doc) /\ ~AliasCycle(doc, Listed(doc))
<1>1. /\ WellFormed(doc) /\ val \in Values(doc) /\ Later(doc, val, Means(doc)) /\ Means(doc) \in Values(doc)
  BY LoadedFacts, MeansFacts DEF Agreed, Settled
<1>2. ASSUME PureCycle(doc) PROVE FALSE
  <2>1. PICK C \in SUBSET {n \in Reached(doc) : ToAlias(doc, n)} : C # {} /\ \A n \in C : Target(doc, n) \in C
    BY <1>2 DEF PureCycle
  <2>2. \A n \in C : n \in Nodes(doc) /\ DoneWith(n) /\ IsWrapper(n) /\ doc.ref[n] # None
    BY <2>1, LoadedDone DEF ToAlias, Aliases, IsWrapper
  <2>3. PICK n \in C : TRUE
    BY <2>1
  <2>4. PICK v \in visited : EndsAt(doc, val, n, v)
    BY <2>2 DEF DoneWith
  <2>5. Closed(doc, val, C)
    <3>1. ASSUME NEW k \in C, Refers(doc, val, k) PROVE Drilled(doc, val, doc.ref[k]) \in C
      BY <1>1, <2>1, <2>2, <3>1, RefersKept DEF Target
    <3> QED BY <3>1 DEF Closed
  <2>6. v \in C /\ doc.ref[v] = None
    BY <2>2, <2>4, <2>5 DEF EndsAt
  <2> QED BY <2>2, <2>6
<1>3. ASSUME AliasCycle(doc, Listed(doc)) PROVE FALSE
  <2>1. PICK C \in SUBSET Reached(doc) :
           /\ C # {}
           /\ \A n \in C : \E t \in Below(doc, n) :
                 ToAlias(doc, t[3]) /\ Target(doc, t[3]) \in Listed(doc) /\ Means(doc)[t[3]] \in C
    BY <1>3 DEF AliasCycle
  <2>2. C \in SUBSET Nodes(doc)
    BY <1>1, ReachedFacts
  <2>3. \A n \in C : \E t \in Below(doc, n) : t[3] \in Leading(doc, C)
    BY <2>1 DEF Leading, ToAlias
  <2>4. Unled(val, Leading(doc, C))
    BY <2>2, <2>3 DEF CyclesOpen, Circle
  <2>5. PICK n \in C : TRUE
    BY <2>1
  <2>6. PICK t \in Below(doc, n) : t[3] \in Leading(doc, C)
    BY <2>3
  <2>7. t[3] \in Needed(doc)
    BY <2>1, <2>6 DEF Needed, Components, Leading, Aliases
  <2> QED BY <2>4, <2>6, <2>7, LoadedRight DEF Unled
<1> QED BY <1>2, <1>3

-----------------------------------------------------------------------------
(* How deep the calls get.  No two of them stand at the same place: in the *)
(* walk of the same component, below the same value, for the same node.    *)

\* A call for a component itself, not a copy, or for one without a $ref.
Anchor(j) == Frame(j).own \/ doc.ref[Frame(j).node] = None
\* It is for what such a call below it walks through already.
Again(j) == /\ Anchor(j)
            /\ \E i \in 1..(j - 1) : Anchor(i) /\ Frame(i).at = "walk" /\ Frame(i).node = Frame(j).node
\* Then it goes no further: what is walked through was visited.
Apart == \A j \in 1..Depth : Again(j) => Frame(j).at = "enter"

\* Only wrappers can be below themselves.
LEMMA OnlyWrappers ==
  ASSUME IInv, pc = "loading", NEW i \in 1..Depth, NEW j \in 1..Depth, i < j, Frame(i).node = Frame(j).node
  PROVE  IsWrapper(Frame(i).node)
<1>1. /\ WellFormed(doc) /\ Depth \in Nat /\ \A k \in 1..Depth : Frame(k) \in Calls
      /\ val \in Values(doc)
  BY WellFormedDoc, DepthType DEF IInv, Types
<1>2. PICK n : n = Frame(i).node
  OBVIOUS
<1>3. n \in Nodes(doc) /\ Frame(j).node = n
  BY <1>1, <1>2 DEF Calls
<1>4. Shape(i) /\ Shape(j)
  BY DEF IInv, Frames
<1>5. n # Root /\ doc.kind[n] # "pathItem"
  BY <1>1, <1>2, <1>3, <1>4 DEF Shape
<1>6. ASSUME NEW k \in 1..Depth, Frame(k).node = n, doc.kind[n] = "operation" PROVE k = 3
  <2>1. Shape(k) /\ k # 1
    BY <1>5, <1>6 DEF IInv, Frames, Shape
  <2>2. Frame(k).own
    BY <1>6, <2>1 DEF Shape, CopyFor, IsWrapper, Wrappers
  <2>3. CallFrom(k) /\ k > 1 /\ k - 1 \in 1..Depth
    BY <1>1, <2>1, <2>2 DEF Shape
  <2>4. PICK v, m : v = ValueOf(Frame(k - 1)) /\ m = Frame(k - 1).node
    OBVIOUS
  <2>5. /\ m \in Nodes(doc) /\ v \in Nodes(doc) /\ doc.kind[v] = doc.kind[m]
    BY <2>3, <2>4, ValueType DEF CallFrom
  <2>6. PICK t \in doc.fields[v] : t[3] = n
    BY <1>6, <2>3, <2>4 DEF CallFrom
  <2>7. n # Nil
    BY <1>1, <1>3 DEF WellFormed, Nodes
  <2>8. doc.kind[n] \in KindBelow(doc.kind[v], t[1])
    BY <1>1, <2>5, <2>6, <2>7, StandsBelow DEF WellFormed, Nodes
  <2>9. doc.kind[v] = "pathItem"
    BY <1>6, <2>8 DEF KindBelow, Wrappers
  <2>10. Shape(k - 1)
    BY <2>3 DEF IInv, Frames
  <2>11. k - 1 = 2
    BY <2>4, <2>5, <2>9, <2>10 DEF Shape
  <2> QED BY <1>1, <2>11
<1>7. doc.kind[n] \in Wrappers \cup {"doc", "pathItem", "operation"} /\ (doc.kind[n] = "doc" => n = Root)
  BY <1>1, <1>3 DEF WellFormed, Nodes
<1>8. doc.kind[n] # "operation"
  BY <1>2, <1>3, <1>6
<1> QED BY <1>2, <1>5, <1>7, <1>8 DEF IsWrapper

\* What is walked through was visited.
LEMMA AgainIsSeen ==
  ASSUME IInv, pc = "loading", NEW D, D = Depth, Again(D), Top.at = "enter"
  PROVE  IsWrapper(Top.node) /\ Seen
<1>1. PICK i \in 1..(D - 1) : Anchor(i) /\ Frame(i).at = "walk" /\ Frame(i).node = Frame(D).node
  BY DEF Again
<1>2. /\ D \in Nat /\ D >= 1 /\ D \in 1..Depth /\ Top = Frame(D) /\ Top.node \in Nodes(doc)
      /\ Value = val[Top.node] /\ Kind = doc.kind[Top.node]
  BY TopFacts
<1>3. i \in 1..Depth /\ i < D
  BY <1>1, <1>2
<1>4. PICK n : n = Top.node
  OBVIOUS
<1>5. n \in Nodes(doc) /\ IsWrapper(n) /\ Frame(i).node = n
  BY <1>1, <1>2, <1>3, <1>4, OnlyWrappers
<1>6. Held(i)
  BY <1>3 DEF IInv, Frames
<1>7. ValueOf(Frame(i)) \in visited /\ EndsAt(doc, val, n, ValueOf(Frame(i)))
  BY <1>1, <1>5, <1>6 DEF Held
<1>8. ValueOf(Frame(i)) = val[n]
  <2>1. CASE Frame(i).own
    BY <1>5, <2>1 DEF ValueOf
  <2>2. CASE doc.ref[n] = None
    <3>1. val[n] = n
      BY <1>5, <2>2 DEF IInv, ValuesOK
    <3>2. EndsAt(doc, val, n, n)
      BY <1>5, <2>2, EndsItself
    <3>3. ValueOf(Frame(i)) = n
      BY ONLY <1>5, <1>7, <3>2, EndsOnce
    <3> QED BY <3>1, <3>3
  <2> QED BY <1>1, <1>5, <2>1, <2>2 DEF Anchor
<1>9. val[n] # None
  BY <1>7, <1>8, WellFormedDoc DEF IInv, Types, WellFormed, Nodes
<1> QED BY <1>2, <1>4, <1>5, <1>7, <1>8, <1>9 DEF Seen, IsWrapper

\* Up to c the calls are as they were, the next one is for what it was for,
\* and only what was just called, which has not gone on, can be below itself.
LEMMA ApartKept ==
  ASSUME Apart, doc' = doc, Depth \in Nat, NEW c \in Nat, c <= Depth, Depth' \in c..(c + 2),
         \A k \in 1..c : Frame(k)' = Frame(k),
         Depth' > c => Frame(c + 1)'.node = Frame(c + 1).node /\ Frame(c + 1)'.own = Frame(c + 1).own /\ ~Again(c + 1),
         Depth' = c + 2 => Frame(c + 2)'.at = "enter"
  PROVE  Apart'
<1>1. SUFFICES ASSUME NEW j \in 1..Depth', Again(j)' PROVE Frame(j)'.at = "enter"
  BY DEF Apart
<1>2. PICK i \in 1..(j - 1) : Anchor(i)' /\ Frame(i)'.at = "walk" /\ Frame(i)'.node = Frame(j)'.node
  BY <1>1 DEF Again
<1>3. j \in Nat /\ (j <= c \/ j = c + 1 \/ (j = c + 2 /\ Depth' = c + 2))
  OBVIOUS
<1>4. j <= c + 1 => Frame(i)' = Frame(i)
  BY <1>2, <1>3
<1>5. CASE j <= c
  <2>1. Frame(j)' = Frame(j) /\ j \in 1..Depth
    BY <1>3, <1>5
  <2>2. Frame(i)' = Frame(i)
    BY <1>3, <1>4, <1>5
  <2>3. Again(j)
    BY <1>1, <1>2, <2>1, <2>2 DEF Again, Anchor
  <2> QED BY <2>1, <2>3 DEF Apart
<1>6. CASE j = c + 1
  <2>1. Frame(j)'.node = Frame(j).node /\ Frame(j)'.own = Frame(j).own /\ ~Again(j)
    BY <1>3, <1>6
  <2>2. Frame(i)' = Frame(i)
    BY <1>3, <1>4, <1>6
  <2> QED BY <1>1, <1>2, <2>1, <2>2 DEF Again, Anchor
<1> QED BY <1>3, <1>5, <1>6

LEMMA MoreCalls ==
  ASSUME NEW C, NEW s \in Seq(C), NEW x, NEW y
  PROVE  s \in Seq(C \cup {x, y})
OBVIOUS

LEMMA DepthFacts ==
  ASSUME IInv, pc = "loading"
  PROVE  Depth \in Nat /\ Depth >= 1 /\ stack \in Seq(Calls) /\ stack # <<>> /\ Top = Frame(Depth)
BY DepthType DEF IInv, Types

LEMMA ApartRelabel ==
  ASSUME IInv, pc = "loading", Apart, doc' = doc, NEW x, x.node = Top.node, x.own = Top.own,
         stack' = <<x>> \o Tail(stack), ~Again(Depth)
  PROVE  Apart'
<1>1. PICK D, S : D = Depth /\ S = Calls \cup {x, x}
  OBVIOUS
<1>2. D \in Nat /\ D >= 1 /\ stack \in Seq(S) /\ stack # <<>> /\ Top = Frame(D) /\ x \in S
  BY <1>1, DepthFacts, MoreCalls
<1>3. stack' = Relabelling(stack, x)
  BY DEF Relabelling
<1>4. Depth' = D /\ Frame(D)' = x /\ \A k \in 1..(D - 1) : Frame(k)' = Frame(k)
  <2>1. PICK s2 : s2 = stack' /\ s2 = Relabelling(stack, x)
    BY <1>3
  <2>2. /\ Len(s2) = Len(stack) /\ FrameIn(s2, Len(stack)) = x
        /\ \A k \in 1..(Len(stack) - 1) : FrameIn(s2, k) = FrameIn(stack, k)
    BY ONLY <1>2, <2>1, Relabelled
  <2>3. /\ Len(stack') = Len(stack) /\ FrameIn(stack', Len(stack)) = x
        /\ \A k \in 1..(Len(stack) - 1) : FrameIn(stack', k) = FrameIn(stack, k)
    BY <2>1, <2>2
  <2> QED BY <1>1, <2>3 DEF Frame, Depth
<1>5. PICK c \in Nat : c = D - 1
  <2>1. D \in Nat /\ D >= 1
    BY <1>2
  <2>2. D - 1 \in Nat
    BY ONLY <2>1
  <2> QED BY ONLY <2>2
<1>6. c <= D /\ D \in c..(c + 2) /\ c + 1 = D /\ D # c + 2
  BY <1>2, <1>5
<1> QED BY <1>1, <1>2, <1>4, <1>5, <1>6, ApartKept

LEMMA ApartPush ==
  ASSUME IInv, pc = "loading", Apart, doc' = doc, NEW x, x.node = Top.node, x.own = Top.own,
         NEW y, y.at = "enter", stack' = <<y, x>> \o Tail(stack), ~Again(Depth)
  PROVE  Apart'
<1>1. PICK D, S : D = Depth /\ S = Calls \cup {x, y}
  OBVIOUS
<1>2. D \in Nat /\ D >= 1 /\ stack \in Seq(S) /\ stack # <<>> /\ Top = Frame(D) /\ x \in S /\ y \in S
  BY <1>1, DepthFacts, MoreCalls
<1>3. stack' = Pushing(stack, y, x)
  BY DEF Pushing
<1>4. Depth' = D + 1 /\ Frame(D)' = x /\ Frame(D + 1)' = y /\ \A k \in 1..(D - 1) : Frame(k)' = Frame(k)
  <2>1. PICK s2 : s2 = stack' /\ s2 = Pushing(stack, y, x)
    BY <1>3
  <2>2. /\ Len(s2) = Len(stack) + 1 /\ FrameIn(s2, Len(stack) + 1) = y /\ FrameIn(s2, Len(stack)) = x
        /\ \A k \in 1..(Len(stack) - 1) : FrameIn(s2, k) = FrameIn(stack, k)
    BY ONLY <1>2, <2>1, Pushed
  <2>3. /\ Len(stack') = Len(stack) + 1
        /\ FrameIn(stack', Len(stack) + 1) = y /\ FrameIn(stack', Len(stack)) = x
        /\ \A k \in 1..(Len(stack) - 1) : FrameIn(stack', k) = FrameIn(stack, k)
    BY <2>1, <2>2
  <2> QED BY <1>1, <2>3 DEF Frame, Depth
<1>5. PICK c \in Nat : c = D - 1
  <2>1. D \in Nat /\ D >= 1
    BY <1>2
  <2>2. D - 1 \in Nat
    BY ONLY <2>1
  <2> QED BY ONLY <2>2
<1>6. c <= D /\ D + 1 \in c..(c + 2) /\ c + 1 = D /\ c + 2 = D + 1
  BY <1>2, <1>5
<1> QED BY <1>1, <1>2, <1>4, <1>5, <1>6, ApartKept

LEMMA ApartPop ==
  ASSUME IInv, pc = "loading", Apart, doc' = doc, stack' = Tail(stack)
  PROVE  Apart'
<1>1. PICK D : D = Depth
  OBVIOUS
<1>2. D \in Nat /\ D >= 1 /\ stack \in Seq(Calls) /\ stack # <<>>
  BY <1>1, DepthFacts
<1>3. Depth' = D - 1 /\ \A k \in 1..(D - 1) : Frame(k)' = Frame(k)
  <2>1. PICK s2 : s2 = stack' /\ s2 = Tail(stack)
    OBVIOUS
  <2>2. /\ Len(s2) = Len(stack) - 1
        /\ \A k \in 1..(Len(stack) - 1) : FrameIn(s2, k) = FrameIn(stack, k)
    BY ONLY <1>2, <2>1, Popped
  <2>3. /\ Len(stack') = Len(stack) - 1
        /\ \A k \in 1..(Len(stack) - 1) : FrameIn(stack', k) = FrameIn(stack, k)
    BY <2>1, <2>2
  <2> QED BY <1>1, <2>3 DEF Frame, Depth
<1>4. PICK c \in Nat : c = D - 1
  <2>1. D \in Nat /\ D >= 1
    BY <1>2
  <2>2. D - 1 \in Nat
    BY ONLY <2>1
  <2> QED BY ONLY <2>2
<1>5. c <= D /\ c \in c..(c + 2) /\ c # c + 2 /\ ~(c > c)
  BY <1>2, <1>4
<1> QED BY <1>1, <1>2, <1>3, <1>4, <1>5, ApartKept

LEMMA ApartBack ==
  ASSUME IInv, pc = "loading", Apart, doc' = doc, NEW D, D = Depth, D >= 2, NEW x,
         x.node = Frame(D - 1).node, x.own = Frame(D - 1).own, Frame(D - 1).at # "enter",
         stack' = <<x>> \o Tail(Tail(stack))
  PROVE  Apart'
<1>1. PICK S : S = Calls \cup {x, x}
  OBVIOUS
<1>2. D \in Nat /\ D >= 2 /\ stack \in Seq(S) /\ x \in S /\ D = Len(stack)
  BY <1>1, DepthFacts, MoreCalls DEF Depth
<1>3. stack' = Returning(stack, x)
  BY DEF Returning
<1>4. Depth' = D - 1 /\ Frame(D - 1)' = x /\ \A k \in 1..(D - 2) : Frame(k)' = Frame(k)
  <2>0. Len(stack) >= 2
    BY <1>2
  <2>1. PICK s2 : s2 = stack' /\ s2 = Returning(stack, x)
    BY <1>3
  <2>2. /\ Len(s2) = Len(stack) - 1 /\ FrameIn(s2, Len(stack) - 1) = x
        /\ \A k \in 1..(Len(stack) - 2) : FrameIn(s2, k) = FrameIn(stack, k)
    <3>1. stack \in Seq(S) /\ x \in S /\ s2 = Returning(stack, x)
      BY <1>2, <2>1
    <3> QED BY ONLY <2>0, <3>1, Returned
  <2>3. /\ Len(stack') = Len(stack) - 1 /\ FrameIn(stack', Len(stack) - 1) = x
        /\ \A k \in 1..(Len(stack) - 2) : FrameIn(stack', k) = FrameIn(stack, k)
    BY <2>1, <2>2
  <2> QED BY <1>2, <2>3 DEF Frame, Depth
<1>5. PICK c \in Nat : c = D - 2
  <2>1. D \in Nat /\ D >= 2
    BY <1>2
  <2>2. D - 2 \in Nat
    BY ONLY <2>1
  <2> QED BY ONLY <2>2
<1>6. c <= D /\ D - 1 \in c..(c + 2) /\ c + 1 = D - 1 /\ D - 1 # c + 2 /\ D - 1 \in 1..Depth
  BY <1>2, <1>5
<1>7. ~Again(D - 1)
  BY <1>6 DEF Apart
<1> QED BY <1>2, <1>4, <1>5, <1>6, <1>7, ApartKept

LEMMA NextApart == IInv /\ Apart /\ [Next]_vars => Apart'
<1>1. SUFFICES ASSUME IInv, Apart, [Next]_vars PROVE Apart'
  OBVIOUS
<1>2. doc' = doc
  BY <1>1, StepValues
<1>3. CASE stack' = stack
  BY <1>1, <1>2, <1>3 DEF Apart, Again, Anchor, Depth, Frame
<1>4. CASE stack' = <<>>
  <2>1. Depth' = 0
    BY <1>4 DEF Depth
  <2> QED BY <2>1 DEF Apart
<1>5. SUFFICES ASSUME pc = "loading", Load, stack' # <<>> PROVE Apart'
  BY <1>1, <1>3, <1>4 DEF Next, Ended, vars, Load, At, AlreadyVisited, Inline, FollowRef, CopyPathItem,
                    OpenValue, Descend, AllVisited
<1>6. PICK D : D = Depth
  OBVIOUS
<1>7. /\ D \in Nat /\ D >= 1 /\ D \in 1..Depth /\ Top = Frame(D) /\ Top \in Calls
      /\ Kind = doc.kind[Top.node] /\ Ref = doc.ref[Top.node]
  BY <1>1, <1>5, <1>6, TopFacts
\* What is above goes on only if it is not Again.
<1>8. Top.at # "enter" => ~Again(D)
  BY <1>1, <1>7 DEF Apart
<1>9. Top.at = "enter" /\ (~Seen \/ Kind \notin Wrappers) => ~Again(D)
  BY <1>1, <1>5, <1>6, <1>7, AgainIsSeen DEF IsWrapper
<1>10. CASE AlreadyVisited \/ AllVisited
  <2>1. Returns /\ Return /\ doc' = doc /\ visited' = visited
    BY <1>10 DEF AlreadyVisited, AllVisited, At, Returns
  <2>2. CASE Top.own
    <3>1. stack' = Tail(stack)
      BY <2>1, <2>2 DEF Return
    <3> QED BY <1>1, <1>2, <1>5, <3>1, ApartPop
  <2>3. CASE ~Top.own
    <3>1. PICK E, n, caller, m, v, x : Handing(E, n, caller, m, v, x)
      BY Zenon DEF Handing
    <3>2. /\ E \in Nat /\ E > 1 /\ caller \in Calls /\ caller.at = "copied"
          /\ stack' = <<x>> \o Tail(Tail(stack))
      BY <1>1, <1>5, <2>1, <2>3, <3>1, BackFacts
    <3>3. E = Depth /\ caller = Frame(E - 1) /\ x = Resumed(caller, v)
      BY <3>1 DEF Handing
    <3>4. x.node = caller.node /\ x.own = caller.own
      BY <3>2, <3>3 DEF Resumed, Calls
    <3>5. E >= 2 /\ Frame(E - 1).at # "enter" /\ x.node = Frame(E - 1).node /\ x.own = Frame(E - 1).own
      BY <3>2, <3>3, <3>4
    <3> QED BY <1>1, <1>2, <1>5, <3>2, <3>3, <3>5, ApartBack
  <2> QED BY <2>2, <2>3
<1>11. CASE Inline \/ CopyPathItem \/ OpenValue
  <2>1. PICK x, z : /\ x = [Top EXCEPT !.at = "value"]
                    /\ z = [Top EXCEPT !.at = "walk", !.todo = IF Value = None THEN {} ELSE Walked(Top.node, Value)]
    OBVIOUS
  <2>2. x.node = Top.node /\ z.node = Top.node /\ x.own = Top.own /\ z.own = Top.own
    BY <1>7, <2>1 DEF Calls
  <2>3. stack' = <<x>> \o Tail(stack) \/ stack' = <<z>> \o Tail(stack)
    BY <1>5, <1>11, <2>1 DEF Inline, CopyPathItem, OpenValue, Fail
  <2>4. ~Again(Depth)
    <3>1. CASE Inline
      BY <1>6, <1>9, <3>1 DEF Inline, At
    <3>2. CASE CopyPathItem
      BY <1>6, <1>9, <3>2 DEF CopyPathItem, At, Wrappers
    <3>3. CASE OpenValue
      BY <1>6, <1>8, <3>3 DEF OpenValue, At
    <3> QED BY <1>11, <3>1, <3>2, <3>3
  <2>5. CASE stack' = <<x>> \o Tail(stack)
    BY <1>1, <1>2, <1>5, <2>2, <2>4, <2>5, ApartRelabel
  <2>6. CASE stack' = <<z>> \o Tail(stack)
    BY <1>1, <1>2, <1>5, <2>2, <2>4, <2>6, ApartRelabel
  <2> QED BY <2>3, <2>5, <2>6
<1>12. CASE FollowRef
  <2>1. PICK x, target : x = [Top EXCEPT !.at = "copied"] /\ target = Drilled(doc, val, Ref)
    OBVIOUS
  <2>2. x.node = Top.node /\ x.own = Top.own
    BY <1>7, <2>1 DEF Calls
  <2>3. Call(x, target, FALSE)
    BY <1>5, <1>12, <2>1 DEF FollowRef, Fail, Drill
  <2>4. PICK y : y = Calling(target, FALSE, val[target])
    OBVIOUS
  <2>5. stack' = <<y, x>> \o Tail(stack) /\ y.at = "enter"
    BY <1>5, <2>3, <2>4 DEF Call, Fail, Calling
  <2>6. ~Again(Depth)
    BY <1>6, <1>9, <1>12 DEF FollowRef, At
  <2> QED BY <1>1, <1>2, <1>5, <2>2, <2>5, <2>6, ApartPush
<1>13. CASE Descend
  <2>1. PICK t \in Top.todo :
           LET after == [Top EXCEPT !.todo = @ \ {t}]
           IN  stack' = <<after>> \o Tail(stack) \/ Call(after, t[3], TRUE)
    BY <1>5, <1>13 DEF Descend, Fail
  <2>2. PICK x : x = [Top EXCEPT !.todo = Top.todo \ {t}]
    OBVIOUS
  <2>3. x.node = Top.node /\ x.own = Top.own
    BY <1>7, <2>2 DEF Calls
  <2>4. ~Again(Depth)
    BY <1>6, <1>8, <1>13 DEF Descend, At
  <2>5. CASE stack' = <<x>> \o Tail(stack)
    BY <1>1, <1>2, <1>5, <2>3, <2>4, <2>5, ApartRelabel
  <2>6. CASE Call(x, t[3], TRUE)
    <3>1. PICK y : y = Calling(t[3], TRUE, None)
      OBVIOUS
    <3>2. stack' = <<y, x>> \o Tail(stack) /\ y.at = "enter"
      BY <1>5, <2>6, <3>1 DEF Call, Fail, Calling
    <3> QED BY <1>1, <1>2, <1>5, <2>3, <2>4, <3>2, ApartPush
  <2> QED BY <2>1, <2>2, <2>5, <2>6
<1> QED BY <1>5, <1>10, <1>11, <1>12, <1>13 DEF Load

LEMMA GreatestOne ==
  ASSUME NEW n \in Nat, NEW T \in SUBSET 0..n, T # {}
  PROVE  \E m \in T : \A k \in T : k <= m
<1>1. PICK U : U = {n - k : k \in T}
  OBVIOUS
<1>2. U \in SUBSET Nat /\ U # {}
  <2>1. ASSUME NEW k \in T PROVE n - k \in Nat
    <3>1. k \in 0..n
      OBVIOUS
    <3> QED BY <3>1
  <2>2. PICK k \in T : TRUE
    OBVIOUS
  <2>3. n - k \in U
    BY <1>1, <2>2
  <2> QED BY <1>1, <2>1, <2>3
<1>3. PICK u \in U : \A k \in U : u <= k
  BY <1>2, LeastOne
<1>4. PICK m \in T : u = n - m
  BY <1>1, <1>3
<1>5. ASSUME NEW k \in T PROVE k <= m
  <2>1. n - k \in U
    BY <1>1
  <2>2. n - m <= n - k /\ k \in 0..n /\ m \in 0..n
    BY <1>3, <1>4, <2>1
  <2> QED BY <2>2
<1> QED BY <1>5

\* The call that walks below which call i stands, copies between them.
Walker(i, w) ==
    /\ w \in 1..(i - 1) /\ Frame(w).at = "walk"
    /\ \A k \in (w + 1)..(i - 1) : Frame(k).at = "copied"
\* The innermost such call that is for a component itself, up to w.
Anchoring(w, a) ==
    /\ a \in 1..w /\ Anchor(a) /\ Frame(a).at = "walk"
    /\ \A k \in (a + 1)..w : Frame(k).at = "walk" => ~Anchor(k)

LEMMA Waiting ==
  ASSUME IInv, pc = "loading", NEW k \in 1..Depth
  PROVE  /\ Depth \in Nat /\ WellFormed(doc) /\ val \in Values(doc)
         /\ Frame(k) \in Calls /\ Frame(k).node \in Nodes(doc)
         /\ k < Depth => /\ Frame(k).at \in {"copied", "walk"}
                         /\ Frame(k).at = "walk" <=> Frame(k + 1).own
                         /\ Frame(k + 1).own => CallFrom(k + 1)
                         /\ ~Frame(k + 1).own => CopyFor(k + 1)
<1>1. /\ Depth \in Nat /\ WellFormed(doc) /\ val \in Values(doc)
      /\ Frame(k) \in Calls /\ Frame(k).node \in Nodes(doc) /\ Shape(k)
  BY WellFormedDoc, DepthType DEF IInv, Types, Calls, Frames
<1>2. ASSUME k < Depth
      PROVE  /\ Frame(k).at \in {"copied", "walk"}
             /\ Frame(k).at = "walk" <=> Frame(k + 1).own
             /\ Frame(k + 1).own => CallFrom(k + 1)
             /\ ~Frame(k + 1).own => CopyFor(k + 1)
  <2>1. k + 1 \in 1..Depth /\ k + 1 > 1 /\ (k + 1) - 1 = k
    BY <1>1, <1>2
  <2>2. Shape(k + 1) /\ Frame(k + 1) \in Calls
    BY <2>1, DepthType DEF IInv, Frames
  <2>3. Frame(k + 1).own => CallFrom(k + 1) /\ Frame(k).at = "walk"
    BY <2>1, <2>2 DEF Shape, CallFrom
  <2>4. ~Frame(k + 1).own => CopyFor(k + 1) /\ Frame(k).at = "copied"
    BY <2>1, <2>2 DEF Shape, CopyFor
  <2> QED BY <2>3, <2>4
<1> QED BY <1>1, <1>2

LEMMA WalkerExists ==
  ASSUME IInv, pc = "loading", NEW i \in 2..Depth
  PROVE  \E w : Walker(i, w)
<1>1. Depth \in Nat /\ i - 1 \in Nat /\ i \in Nat /\ i - 1 >= 1
  BY DepthFacts
<1>2. PICK T : T = {k \in 1..(i - 1) : Frame(k).at = "walk"}
  OBVIOUS
<1>3. 1 \in T
  <2>1. 1 \in 1..Depth /\ 1 < Depth /\ WellFormed(doc)
    BY <1>1, Waiting
  <2>2. Shape(1) /\ Frame(1).at \in {"copied", "walk"}
    BY <2>1, Waiting DEF IInv, Frames
  <2>3. doc.kind[Frame(1).node] = "doc"
    BY <2>1, <2>2 DEF Shape, WellFormed, Nodes
  <2>4. Frame(1).at # "copied"
    BY <2>2, <2>3 DEF Shape, IsWrapper, Wrappers
  <2> QED BY <1>1, <1>2, <2>2, <2>4
<1>4. T \in SUBSET 0..(i - 1)
  BY <1>1, <1>2
<1>5. PICK w \in T : \A k \in T : k <= w
  BY <1>1, <1>3, <1>4, GreatestOne
<1>6. w \in 1..(i - 1) /\ Frame(w).at = "walk"
  BY <1>2, <1>5
<1>7. ASSUME NEW k \in (w + 1)..(i - 1) PROVE Frame(k).at = "copied"
  <2>1. k \in 1..(i - 1) /\ k > w /\ k \in 1..Depth /\ k < Depth
    BY <1>1, <1>6
  <2>2. k \notin T
    BY <1>5, <1>6, <2>1
  <2> QED BY <1>2, <2>1, <2>2, Waiting
<1> QED BY <1>6, <1>7 DEF Walker

LEMMA AnchorExists ==
  ASSUME IInv, pc = "loading", NEW w \in 1..Depth, w < Depth, Frame(w).at = "walk"
  PROVE  \E a : Anchoring(w, a)
<1>1. Depth \in Nat /\ w \in Nat
  BY DepthFacts
<1>2. PICK T : T = {k \in 1..w : Frame(k).at = "walk" /\ Anchor(k)}
  OBVIOUS
<1>3. 1 \in T
  <2>1. 1 \in 1..Depth /\ 1 < Depth /\ WellFormed(doc)
    BY <1>1, Waiting
  <2>2. Shape(1) /\ Frame(1).at \in {"copied", "walk"}
    BY <2>1, Waiting DEF IInv, Frames
  <2>3. doc.kind[Frame(1).node] = "doc" /\ Frame(1).own
    BY <2>1, <2>2 DEF Shape, WellFormed, Nodes
  <2>4. Frame(1).at # "copied"
    BY <2>2, <2>3 DEF Shape, IsWrapper, Wrappers
  <2> QED BY <1>1, <1>2, <2>2, <2>3, <2>4 DEF Anchor
<1>4. T \in SUBSET 0..w
  BY <1>1, <1>2
<1>5. PICK a \in T : \A k \in T : k <= a
  BY <1>1, <1>3, <1>4, GreatestOne
<1>6. a \in 1..w /\ Frame(a).at = "walk" /\ Anchor(a)
  BY <1>2, <1>5
<1>7. ASSUME NEW k \in (a + 1)..w, Frame(k).at = "walk" PROVE ~Anchor(k)
  BY <1>1, <1>2, <1>5, <1>6, <1>7
<1> QED BY <1>6, <1>7 DEF Anchoring

\* A call that waits for a copy is for a component that leads to the copied one.
LEMMA LeadsOn ==
  ASSUME IInv, Agreed, Visits, pc = "loading", NEW k \in 1..Depth, k < Depth, Frame(k).at = "copied",
         NEW n, n = Frame(k).node, NEW m, m = Frame(k + 1).node
  PROVE  /\ n \in Nodes(doc) /\ m \in Nodes(doc) /\ n \in Aliases(doc) /\ n \in Reached(doc)
         /\ Target(doc, n) = m /\ ~Dangles(doc, n) /\ doc.kind[m] \in Wrappers
         /\ Refers(doc, val, n) /\ Drilled(doc, val, doc.ref[n]) = m
<1>1. /\ Depth \in Nat /\ WellFormed(doc) /\ val \in Values(doc) /\ n \in Nodes(doc) /\ CopyFor(k + 1)
  BY Waiting
<1>2. k + 1 \in 1..Depth /\ (k + 1) - 1 = k
  BY <1>1
<1>3. m \in Nodes(doc)
  BY <1>2, Waiting
<1>4. Shape(k)
  BY DEF IInv, Frames
<1>5. doc.kind[n] \in Wrappers /\ doc.ref[n] # None
  BY <1>4 DEF Shape, IsWrapper
<1>6. doc.kind[m] \in Wrappers /\ m = Drilled(doc, val, doc.ref[n]) /\ doc.kind[m] = doc.kind[n]
  BY <1>1, <1>2 DEF CopyFor, IsWrapper
<1>7. Refers(doc, val, n)
  BY <1>1, <1>3, <1>5, <1>6 DEF Refers
<1>8. Means(doc) \in Values(doc) /\ Later(doc, val, Means(doc))
  BY <1>1, MeansFacts DEF Settled, Agreed
<1>9. Target(doc, n) = m
  BY <1>1, <1>6, <1>7, <1>8, RefersKept DEF Target
<1>10. ~Dangles(doc, n)
  BY <1>1, <1>3, <1>6, <1>9 DEF Dangles, WellFormed, Nodes
<1>11. n \in Reached(doc)
  <2>1. Depth + 1 - k \in 1..Len(stack) /\ Frame(k) = stack[Depth + 1 - k]
    BY <1>1 DEF Frame, FrameIn, Depth
  <2> QED BY <2>1 DEF Visits, Visiting
<1> QED BY <1>1, <1>3, <1>5, <1>6, <1>7, <1>9, <1>10, <1>11 DEF Aliases, Nodes

\* Copies of copies of the same component.
LEMMA CopiesTurn ==
  ASSUME IInv, Agreed, Visits, pc = "loading", NEW i \in 1..Depth, NEW j \in 1..Depth, i < j,
         \A k \in i..(j - 1) : Frame(k).at = "copied", Frame(i).node = Frame(j).node
  PROVE  PureCycle(doc)
<1>1. Depth \in Nat /\ i \in Nat /\ j \in Nat
  BY DepthFacts
<1>2. PICK C : C = {Frame(k).node : k \in i..(j - 1)}
  OBVIOUS
<1>3. ASSUME NEW k \in i..(j - 1)
      PROVE  /\ Frame(k).node \in Aliases(doc) /\ Frame(k).node \in Reached(doc)
             /\ Target(doc, Frame(k).node) = Frame(k + 1).node /\ ~Dangles(doc, Frame(k).node)
             /\ Frame(k + 1).node \in C
  <2>1. k \in 1..Depth /\ k < Depth /\ Frame(k).at = "copied"
    BY <1>1
  <2>2. PICK n, m : n = Frame(k).node /\ m = Frame(k + 1).node
    OBVIOUS
  <2>3. n \in Aliases(doc) /\ n \in Reached(doc) /\ Target(doc, n) = m /\ ~Dangles(doc, n)
    BY <2>1, <2>2, LeadsOn
  <2>4. Frame(k + 1).node \in C
    <3>1. CASE k + 1 \in i..(j - 1)
      BY <1>2, <3>1
    <3>2. CASE k + 1 = j
      <4>1. i \in i..(j - 1)
        BY <1>1
      <4> QED BY <1>2, <3>2, <4>1
    <3> QED BY <1>1, <3>1, <3>2
  <2> QED BY <2>2, <2>3, <2>4
<1>4. ASSUME NEW n \in C PROVE n \in Reached(doc) /\ n \in Aliases(doc) /\ ~Dangles(doc, n) /\ Target(doc, n) \in C
  <2>1. PICK k \in i..(j - 1) : n = Frame(k).node
    BY <1>2
  <2> QED BY <1>3, <2>1
<1>5. C \in SUBSET {n \in Reached(doc) : ToAlias(doc, n)}
  <2>1. ASSUME NEW n \in C PROVE n \in Reached(doc) /\ ToAlias(doc, n)
    <3>1. Target(doc, n) \in C
      BY <1>4
    <3>2. Target(doc, n) \in Aliases(doc)
      BY <1>4, <3>1
    <3> QED BY <1>4, <3>2 DEF ToAlias
  <2> QED BY <2>1
<1>6. C # {}
  <2>1. i \in i..(j - 1)
    BY <1>1
  <2> QED BY <1>2, <2>1
<1> QED BY <1>4, <1>5, <1>6 DEF PureCycle

\* What walks is visited, and reached.
LEMMA WalkedValue ==
  ASSUME IInv, Agreed, Visits, pc = "loading", NEW k \in 1..Depth, Frame(k).at = "walk", ~Anchor(k),
         NEW v, v = ValueOf(Frame(k))
  PROVE  /\ v \in Reached(doc) /\ v \in Nodes(doc) /\ doc.kind[v] \in Wrappers
         /\ EndsAt(doc, val, Frame(k).node, v)
         /\ doc.kind[Frame(k).node] \in Wrappers /\ Frame(k).node \in Aliases(doc)
<1>1. /\ Depth \in Nat /\ WellFormed(doc) /\ val \in Values(doc) /\ Frame(k).node \in Nodes(doc)
  BY Waiting
<1>2. Shape(k) /\ Held(k) /\ ~Frame(k).own /\ doc.ref[Frame(k).node] # None
  BY DEF IInv, Frames, Anchor
<1>3. IsWrapper(Frame(k).node)
  BY <1>2 DEF Shape, CopyFor
<1>4. v \in visited /\ EndsAt(doc, val, Frame(k).node, v)
  BY <1>2, <1>3 DEF Held
<1>5. v \in Nodes(doc) /\ doc.kind[v] \in Wrappers
  BY <1>4 DEF IInv, Types, ValuesOK, IsWrapper
<1>6. Frame(k).node \in Reached(doc)
  <2>1. Depth + 1 - k \in 1..Len(stack) /\ Frame(k) = stack[Depth + 1 - k]
    BY <1>1 DEF Frame, FrameIn, Depth
  <2> QED BY <2>1 DEF Visits, Visiting
<1>7. v \in Reached(doc)
  BY <1>1, <1>4, <1>6, EndReached DEF Agreed
<1> QED BY <1>1, <1>2, <1>3, <1>4, <1>5, <1>7 DEF IsWrapper, Aliases, Nodes

\* Those whose copies lead to it mean what it means.
LEMMA MeansAlong ==
  ASSUME IInv, Agreed, Visits, pc = "loading", NEW j \in 1..Depth, Frame(j).at = "walk", ~Anchor(j),
         NEW w, Walker(j, w), NEW k \in (w + 1)..j
  PROVE  EndsAt(doc, val, Frame(k).node, ValueOf(Frame(j)))
<1>1. Depth \in Nat /\ j \in Nat /\ w \in 1..(j - 1) /\ \A h \in (w + 1)..(j - 1) : Frame(h).at = "copied"
  BY DepthFacts DEF Walker
<1>2. PICK v : v = ValueOf(Frame(j))
  OBVIOUS
<1>3. EndsAt(doc, val, Frame(j).node, v)
  BY <1>2, WalkedValue
<1>4. PICK T : T = {h \in (w + 1)..j : ~EndsAt(doc, val, Frame(h).node, v)}
  OBVIOUS
<1>5. T \in SUBSET 0..j
  BY <1>1, <1>4
<1>6. ASSUME NEW m \in T, \A h \in T : h <= m PROVE FALSE
  <2>1. m \in (w + 1)..j /\ ~EndsAt(doc, val, Frame(m).node, v)
    BY <1>4
  <2>2. m # j /\ m \in (w + 1)..(j - 1) /\ m + 1 \in (w + 1)..j
    BY <1>1, <1>3, <2>1
  <2>3. m \in 1..Depth /\ m < Depth /\ Frame(m).at = "copied"
    BY <1>1, <2>2
  <2>4. m + 1 \notin T
    BY <1>1, <1>6, <2>1
  <2>5. EndsAt(doc, val, Frame(m + 1).node, v)
    BY <1>4, <2>2, <2>4
  <2>6. PICK n, n2 : n = Frame(m).node /\ n2 = Frame(m + 1).node
    OBVIOUS
  <2>7. n \in Nodes(doc) /\ Refers(doc, val, n) /\ Drilled(doc, val, doc.ref[n]) = n2
    BY <2>3, <2>6, LeadsOn
  <2>8. EndsAt(doc, val, n, v)
    BY <2>5, <2>6, <2>7, EndsBefore
  <2> QED BY <2>1, <2>6, <2>8
<1>7. T = {}
  BY <1>1, <1>5, <1>6, GreatestOne
<1> QED BY <1>2, <1>4, <1>7

LEMMA NextWalk ==
  ASSUME IInv, pc = "loading", NEW k \in 1..Depth, NEW l \in 1..Depth, k < l,
         Frame(k).at = "walk", Frame(l).at = "walk"
  PROVE  \E j \in (k + 1)..l : Frame(j).at = "walk" /\ Walker(j, k)
<1>1. Depth \in Nat /\ k \in Nat /\ l \in Nat
  BY DepthFacts
<1>2. PICK T : T = {j \in (k + 1)..l : Frame(j).at = "walk"}
  OBVIOUS
<1>3. T \in SUBSET Nat /\ l \in T
  BY <1>1, <1>2
<1>4. PICK j \in T : \A h \in T : j <= h
  BY <1>3, LeastOne
<1>5. j \in (k + 1)..l /\ Frame(j).at = "walk" /\ j \in Nat
  BY <1>1, <1>2, <1>4
<1>6. ASSUME NEW h \in (k + 1)..(j - 1) PROVE Frame(h).at = "copied"
  <2>1. h \in (k + 1)..l /\ h < j /\ h \in 1..Depth /\ h < Depth
    BY <1>1, <1>5
  <2>2. h \notin T
    BY <1>4, <1>5, <2>1
  <2> QED BY <1>2, <2>1, <2>2, Waiting
<1>7. k \in 1..(j - 1)
  BY <1>1, <1>5
<1> QED BY <1>5, <1>6, <1>7 DEF Walker

\* A value at which aliases lead to an alias that is being walked through.
LEMMA ValueLeads ==
  ASSUME IInv, Agreed, Visits, pc = "loading", NEW k \in 1..Depth, NEW j \in 1..Depth,
         Frame(k).at = "walk", Frame(j).at = "walk", Walker(j, k), ~Anchor(j),
         NEW u, u = ValueOf(Frame(k)), NEW v, v = ValueOf(Frame(j)),
         u \in Nodes(doc), doc.kind[u] \in Wrappers
  PROVE  \E t \in Below(doc, u) : /\ ToAlias(doc, t[3]) /\ Target(doc, t[3]) \in Aliases(doc)
                                  /\ Means(doc)[t[3]] = v
<1>1. /\ Depth \in Nat /\ WellFormed(doc) /\ val \in Values(doc)
      /\ k \in 1..(j - 1) /\ k < j /\ k < Depth /\ k + 1 \in 1..Depth /\ k + 1 \in (k + 1)..j
  BY Waiting DEF Walker
<1>2. Frame(k + 1).own /\ CallFrom(k + 1)
  BY <1>1, Waiting
<1>3. PICK t \in doc.fields[u] : t[3] = Frame(k + 1).node
  BY <1>1, <1>2 DEF CallFrom
<1>4. t \in Below(doc, u)
  <2>1. doc.kind[u] # "doc"
    BY DEF Wrappers
  <2>2. \E s \in DOMAIN Slots(doc.kind[u]) : Slots(doc.kind[u])[s] = t[1]
    <3>1. WellFormed(doc) /\ u \in DOMAIN doc.kind /\ t \in doc.fields[u]
      BY <1>1, <1>3 DEF Nodes
    <3>2. \/ doc.kind[u] = "doc" /\ t[1] = "links"
          \/ \E s \in DOMAIN Slots(doc.kind[u]) : Slots(doc.kind[u])[s] = t[1]
      BY ONLY <3>1 DEF WellFormed
    <3> QED BY <2>1, <3>2
  <2> QED BY <1>3, <2>2 DEF Below
<1>5. k + 1 # j
  BY <1>2 DEF Anchor
<1>6. k + 1 \in (k + 1)..(j - 1) /\ k + 1 < Depth /\ Frame(k + 1).at = "copied"
  BY <1>1, <1>5 DEF Walker
<1>7. PICK n, m : n = Frame(k + 1).node /\ m = Frame((k + 1) + 1).node
  OBVIOUS
<1>8. n \in Nodes(doc) /\ n \in Aliases(doc) /\ Target(doc, n) = m /\ ~Dangles(doc, n)
  BY <1>1, <1>6, <1>7, LeadsOn
<1>9. m \in Aliases(doc)
  <2>1. CASE (k + 1) + 1 = j
    BY <1>7, <2>1, WalkedValue
  <2>2. CASE (k + 1) + 1 # j
    <3>1. (k + 1) + 1 \in (k + 1)..(j - 1) /\ (k + 1) + 1 \in 1..Depth /\ (k + 1) + 1 < Depth
      BY <1>1, <1>6, <2>2
    <3>2. Frame((k + 1) + 1).at = "copied"
      BY <3>1 DEF Walker
    <3> QED BY <1>7, <3>1, <3>2, LeadsOn
  <2> QED BY <2>1, <2>2
<1>10. EndsAt(doc, val, n, v)
  BY <1>1, <1>7, MeansAlong
<1>11. Means(doc)[n] = v
  BY <1>1, <1>8, <1>10, EndsMeans DEF Agreed
<1> QED BY <1>3, <1>4, <1>7, <1>8, <1>9, <1>11 DEF ToAlias

\* Values that lead to each other through aliases.
LEMMA ValuesTurn ==
  ASSUME IInv, Agreed, Visits, pc = "loading", NEW w \in 1..Depth, NEW x \in 1..Depth, w < x,
         Frame(w).at = "walk", Frame(x).at = "walk",
         \A k \in (w + 1)..x : Frame(k).at = "walk" => ~Anchor(k),
         ValueOf(Frame(w)) = ValueOf(Frame(x))
  PROVE  AliasCycle(doc, Aliases(doc))
<1>1. Depth \in Nat /\ w \in Nat /\ x \in Nat
  BY DepthFacts
<1>2. PICK C : C = {ValueOf(Frame(k)) : k \in {h \in w..(x - 1) : Frame(h).at = "walk"}}
  OBVIOUS
<1>4. ASSUME NEW n \in C
      PROVE  /\ n \in Reached(doc) /\ n \in Nodes(doc)
             /\ \E t \in Below(doc, n) : /\ ToAlias(doc, t[3]) /\ Target(doc, t[3]) \in Aliases(doc)
                                         /\ Means(doc)[t[3]] \in C
  <2>1. PICK k \in w..(x - 1) : Frame(k).at = "walk" /\ n = ValueOf(Frame(k))
    BY <1>2
  <2>2. k \in 1..Depth /\ k < x
    BY <1>1
  <2>3. n \in Reached(doc) /\ n \in Nodes(doc) /\ doc.kind[n] \in Wrappers
    <3>1. CASE k = w
      <4>1. x \in (w + 1)..x
        BY <1>1
      <4>2. n = ValueOf(Frame(x)) /\ ~Anchor(x)
        BY <2>1, <3>1, <4>1
      <4> QED BY <4>2, WalkedValue
    <3>2. CASE k # w
      <4>1. k \in (w + 1)..x
        BY <1>1, <3>2
      <4>2. ~Anchor(k)
        BY <2>1, <4>1
      <4> QED BY <2>1, <2>2, <4>2, WalkedValue
    <3> QED BY <3>1, <3>2
  <2>4. PICK j \in (k + 1)..x : Frame(j).at = "walk" /\ Walker(j, k)
    BY <2>1, <2>2, NextWalk
  <2>5. j \in 1..Depth /\ j \in (w + 1)..x
    BY <1>1, <2>2
  <2>6. ~Anchor(j)
    BY <2>4, <2>5
  <2>7. PICK v : v = ValueOf(Frame(j))
    OBVIOUS
  <2>8. \E t \in Below(doc, n) : /\ ToAlias(doc, t[3]) /\ Target(doc, t[3]) \in Aliases(doc)
                                 /\ Means(doc)[t[3]] = v
    BY <2>1, <2>2, <2>3, <2>4, <2>5, <2>6, <2>7, ValueLeads
  <2>9. v \in C
    <3>1. CASE j = x
      <4>1. w \in w..(x - 1)
        BY <1>1
      <4> QED BY <1>2, <2>7, <3>1, <4>1
    <3>2. CASE j # x
      <4>1. j \in w..(x - 1)
        BY <1>1, <2>5, <3>2
      <4> QED BY <1>2, <2>4, <2>7, <4>1
    <3> QED BY <3>1, <3>2
  <2> QED BY <2>3, <2>8, <2>9
<1>5. C # {}
  <2>1. w \in w..(x - 1)
    BY <1>1
  <2> QED BY <1>2, <2>1
<1>6. C \in SUBSET {n \in Reached(doc) :
                      \E t \in Below(doc, n) : ToAlias(doc, t[3]) /\ Target(doc, t[3]) \in Aliases(doc)}
  <2>1. ASSUME NEW n \in C
        PROVE  n \in Reached(doc) /\ \E t \in Below(doc, n) : ToAlias(doc, t[3]) /\ Target(doc, t[3]) \in Aliases(doc)
    BY <1>4
  <2> QED BY <2>1
<1>7. \A n \in C : \E t \in Below(doc, n) : /\ (ToAlias(doc, t[3]) /\ Target(doc, t[3]) \in Aliases(doc))
                                            /\ Means(doc)[t[3]] \in C
  BY <1>4
<1> QED BY <1>5, <1>6, <1>7 DEF AliasCycle

-----------------------------------------------------------------------------
(* As many calls as there are keys.                                         *)

\* Where a call stands: the component that is walked through, the value that
\* is, and its own component.
LEMMA KeysApart ==
  ASSUME IInv, Agreed, Visits, Apart, pc = "loading",
         ~PureCycle(doc), ~AliasCycle(doc, Aliases(doc)),
         NEW i \in 2..Depth, NEW j \in 2..Depth, i < j,
         NEW w, Walker(i, w), NEW x, Walker(j, x), NEW a, Anchoring(w, a), NEW b, Anchoring(x, b),
         Frame(a).node = Frame(b).node, ValueOf(Frame(w)) = ValueOf(Frame(x)), Frame(i).node = Frame(j).node
  PROVE  FALSE
<1>1. /\ Depth \in Nat /\ i \in Nat /\ j \in Nat /\ i \in 1..Depth /\ j \in 1..Depth
      /\ w \in 1..(i - 1) /\ x \in 1..(j - 1) /\ w \in 1..Depth /\ x \in 1..Depth
      /\ Frame(w).at = "walk" /\ Frame(x).at = "walk"
      /\ \A k \in (x + 1)..(j - 1) : Frame(k).at = "copied"
  BY DepthFacts DEF Walker
<1>2. /\ a \in 1..w /\ Anchor(a) /\ Frame(a).at = "walk"
      /\ b \in 1..x /\ Anchor(b) /\ Frame(b).at = "walk"
      /\ \A k \in (a + 1)..w : Frame(k).at = "walk" => ~Anchor(k)
      /\ \A k \in (b + 1)..x : Frame(k).at = "walk" => ~Anchor(k)
  BY DEF Anchoring
<1>3. w <= x
  <2>1. ASSUME x < w PROVE FALSE
    <3>1. w \in (x + 1)..(j - 1)
      BY <1>1, <2>1
    <3> QED BY <1>1, <3>1
  <2> QED BY <1>1, <2>1
<1>4. CASE w = x
  <2>1. \A k \in i..(j - 1) : Frame(k).at = "copied"
    BY <1>1, <1>4
  <2> QED BY <1>1, <2>1, CopiesTurn
<1>5. CASE w < x
  <2>1. a = b
    <3>1. ASSUME b < a PROVE FALSE
      <4>1. a \in (b + 1)..x
        BY <1>1, <1>2, <1>3, <3>1
      <4> QED BY <1>2, <4>1
    <3>2. ASSUME a < b PROVE FALSE
      <4>1. a \in 1..(b - 1) /\ b \in 1..Depth
        BY <1>1, <1>2, <3>2
      <4>2. Again(b)
        BY <1>2, <4>1 DEF Again
      <4> QED BY <1>2, <4>1, <4>2 DEF Apart
    <3> QED BY <1>1, <1>2, <3>1, <3>2
  <2>2. \A k \in (w + 1)..x : Frame(k).at = "walk" => ~Anchor(k)
    BY <1>1, <1>2, <2>1
  <2> QED BY <1>1, <1>5, <2>2, ValuesTurn
<1> QED BY <1>1, <1>3, <1>4, <1>5

\* The calls a document's size allows, and the documents whose calls keep to it.
Size(d) == Cardinality(Nodes(d))
Enough(d) == 1 + Size(d) * Size(d) * Size(d)
Straight(d) == ~PureCycle(d) /\ ~AliasCycle(d, Aliases(d))

LEMMA CallsBounded ==
  ASSUME IInv, Agreed, Visits, Apart, pc = "loading", Straight(doc)
  PROVE  Depth <= Enough(doc)
<1>1. Depth \in Nat /\ Depth >= 1 /\ WellFormed(doc)
  BY DepthFacts, WellFormedDoc
<1>2. PICK N, T : N = Nodes(doc) /\ T = (N \X N) \X N
  OBVIOUS
<1>3. IsFiniteSet(N)
  BY <1>1, <1>2 DEF WellFormed, Nodes
<1>4. /\ IsFiniteSet(N \X N) /\ Cardinality(N \X N) = Cardinality(N) * Cardinality(N)
  BY <1>3, FS_Product
<1>5. IsFiniteSet(T) /\ Cardinality(T) = (Cardinality(N) * Cardinality(N)) * Cardinality(N)
  BY <1>2, <1>3, <1>4, FS_Product
<1> DEFINE W(i) == CHOOSE w : Walker(i, w)
           A(i) == CHOOSE a : Anchoring(W(i), a)
           Key(i) == <<<<Frame(A(i)).node, ValueOf(Frame(W(i)))>>, Frame(i).node>>
<1>6. ASSUME NEW i \in 2..Depth PROVE Walker(i, W(i)) /\ Anchoring(W(i), A(i))
  <2>1. Walker(i, W(i))
    BY <1>6, WalkerExists
  <2>2. W(i) \in 1..Depth /\ W(i) < Depth /\ Frame(W(i)).at = "walk"
    BY <1>1, <2>1 DEF Walker
  <2> QED BY <2>1, <2>2, AnchorExists
<1>7. ASSUME NEW i \in 2..Depth PROVE Key(i) \in T
  <2>1. Walker(i, W(i)) /\ Anchoring(W(i), A(i))
    BY <1>6
  <2> HIDE DEF W, A
  <2>2. W(i) \in 1..Depth /\ Frame(W(i)).at = "walk" /\ A(i) \in 1..Depth /\ i \in 1..Depth
    BY <1>1, <2>1 DEF Walker, Anchoring
  <2>3. ValueOf(Frame(W(i))) \in N
    BY <1>2, <2>2, ValueType
  <2>4. Frame(A(i)).node \in N /\ Frame(i).node \in N
    BY <1>2, <2>2, Waiting
  <2> QED BY <1>2, <2>3, <2>4
<1>8. ASSUME NEW i \in 2..Depth, NEW j \in 2..Depth, i < j, Key(i) = Key(j) PROVE FALSE
  <2>1. /\ Walker(i, W(i)) /\ Anchoring(W(i), A(i))
        /\ Walker(j, W(j)) /\ Anchoring(W(j), A(j))
    BY <1>6
  <2> HIDE DEF W, A
  <2>2. /\ Frame(A(i)).node = Frame(A(j)).node /\ ValueOf(Frame(W(i))) = ValueOf(Frame(W(j)))
        /\ Frame(i).node = Frame(j).node
    BY <1>8
  <2> QED BY <1>8, <2>1, <2>2, KeysApart DEF Straight
<1> HIDE DEF Key
<1>9. PICK f : f = [i \in 2..Depth |-> Key(i)]
  OBVIOUS
<1>10. f \in Injection(2..Depth, T)
  <2>1. f \in [2..Depth -> T]
    BY <1>7, <1>9
  <2>2. ASSUME NEW i \in 2..Depth, NEW j \in 2..Depth, f[i] = f[j] PROVE i = j
    <3>1. Key(i) = Key(j) /\ Key(j) = Key(i)
      BY <1>9, <2>2
    <3>2. ~(i < j) /\ ~(j < i)
      BY <1>8, <3>1
    <3> QED BY <1>1, <3>2
  <2> QED BY <2>1, <2>2 DEF Injection, IsInjective
<1>11. Cardinality(2..Depth) <= Cardinality(T) /\ Cardinality(N) \in Nat /\ Cardinality(T) \in Nat
  BY <1>3, <1>5, <1>10, FS_Injection, FS_CardinalityType
<1>12. Cardinality(2..Depth) = IF 2 > Depth THEN 0 ELSE Depth - 2 + 1
  BY <1>1, FS_Interval
<1>13. Depth <= 1 + Cardinality(T)
  BY <1>1, <1>11, <1>12
<1> QED BY <1>2, <1>5, <1>13 DEF Enough, Size

\* The stack runs over only where Go's has no room for as many calls, or
\* where something leads on to itself.
Overflows == pc = "overflow" /\ Enough(doc) < MaxDepth => ~Straight(doc)

LEMMA NextOverflows == IInv /\ Agreed /\ Visits /\ Apart /\ Overflows /\ [Next]_vars => Overflows'
<1>1. SUFFICES ASSUME IInv, Agreed, Visits, Apart, Overflows, [Next]_vars PROVE Overflows'
  OBVIOUS
<1>2. doc' = doc
  BY <1>1, StepValues
<1>3. CASE pc' = pc
  BY <1>1, <1>2, <1>3 DEF Overflows
<1>4. CASE pc' # "overflow"
  BY <1>4 DEF Overflows
<1>5. SUFFICES ASSUME pc = "loading", pc' = "overflow", Enough(doc) < MaxDepth, Straight(doc) PROVE FALSE
  <2>1. CASE pc = "loading"
    BY <1>2, <1>5, <2>1 DEF Overflows
  <2>2. CASE pc # "loading"
    BY <1>1, <1>3, <2>2 DEF Next, Ended, vars, Load, At, AlreadyVisited, Inline, FollowRef, CopyPathItem,
                       OpenValue, Descend, AllVisited
  <2> QED BY <2>1, <2>2
<1>6. Len(stack) = MaxDepth
  BY <1>1, <1>5 DEF Next, Ended, vars, Load, AlreadyVisited, Inline, FollowRef, CopyPathItem,
                    OpenValue, Descend, AllVisited, Return, Call, Fail
<1>7. Len(stack) <= Enough(doc)
  BY <1>1, <1>5, CallsBounded DEF Depth
<1>8. Size(doc) \in Nat
  BY <1>1, WellFormedDoc, FS_CardinalityType DEF Size, WellFormed, Nodes
<1>9. Enough(doc) \in Nat /\ MaxDepth \in Nat
  BY <1>1, <1>8, WellFormedDoc DEF Enough
<1> QED BY <1>5, <1>6, <1>7, <1>9

-----------------------------------------------------------------------------
(* The theorems.                                                            *)

\* What holds of the loader's steps besides IInv.
RInv == IInv /\ Agreed /\ Visits /\ Refusals /\ CyclesOpen /\ Apart /\ Overflows

LEMMA InitRInv == Init => RInv
<1>1. SUFFICES ASSUME Init PROVE Visits /\ Refusals /\ Apart /\ Overflows
  BY InitIInv, InitAgreed, InitCycles DEF RInv
<1>2. WellFormed(doc) /\ pc = "loading"
  BY <1>1, DocumentsAssumption DEF Init
<1>3. Visits
  <2>1. Root \in Reached(doc)
    BY <1>2, ReachedFacts
  <2>2. PICK f : f = Calling(Root, TRUE, None)
    OBVIOUS
  <2>3. f.node = Root /\ stack = <<f>>
    BY <1>1, <2>2 DEF Calling, Init
  <2>4. Len(stack) = 1 /\ stack[1] = f
    BY <2>3
  <2> QED BY <2>1, <2>3, <2>4 DEF Visits, Visiting
<1>4. Refusals /\ Overflows
  BY <1>2 DEF Refusals, Overflows
<1>5. Apart
  <2>1. Len(stack) = 1
    BY <1>1 DEF Init
  <2> QED BY <2>1 DEF Apart, Again, Depth
<1> QED BY <1>3, <1>4, <1>5

LEMMA NextRInv == RInv /\ [Next]_vars => RInv'
BY NextIInv, NextAgreed, NextVisits, NextRefusals, NextCycles, NextApart, NextOverflows DEF RInv

\* The loader visits what is reached and nothing else, agrees with what the
\* document means at every step, and has a reason when it refuses.
THEOREM ReferencesInvariant == Spec => []RInv
<1> QED BY InitRInv, NextRInv, PTL DEF Spec

LEMMA RefusalsReasoned ==
  ASSUME RInv
  PROVE  RefusedForAReason
<1>1. pc \in {"refused", "panicked"} => Wrong(doc) \/ Passing(doc)
  BY DEF RInv, Refusals
<1>2. ASSUME pc \notin {"loading", "refused", "panicked", "overflow"} PROVE ~Wrong(doc)
  <2>1. pc = "loaded"
    BY <1>2 DEF RInv, IInv, Types
  <2> QED BY <2>1, LoadedRight DEF RInv
<1> QED BY <1>1, <1>2 DEF RefusedForAReason

\* swagger_loader.go:270 and the resolve*Ref functions: a document is refused
\* only for what is wrong with it, however Go ranges over its maps, unless a
\* reference passes through another; and none is loaded that something is
\* wrong with.
THEOREM RefusalsExplained == Spec => []RefusedForAReason
<1> QED BY RefusalsReasoned, ReferencesInvariant, PTL

LEMMA StraightWhenLoaded ==
  ASSUME RInv
  PROVE  LoadedWithoutCycles
<1>1. ASSUME pc \notin {"loading", "refused", "panicked", "overflow"}
      PROVE  ~PureCycle(doc) /\ ~AliasCycle(doc, Listed(doc))
  <2>1. pc = "loaded"
    BY <1>1 DEF RInv, IInv, Types
  <2> QED BY <2>1, LoadedStraight DEF RInv
<1> QED BY <1>1 DEF LoadedWithoutCycles

\* swagger_loader.go:680, resolveSchemaRef and its like: a document in which
\* values refer to each other through aliases among its components is never
\* loaded, in whatever order its maps are visited and however large the stack.
THEOREM CyclesNeverLoad == Spec => []LoadedWithoutCycles
<1> QED BY StraightWhenLoaded, ReferencesInvariant, PTL

LEMMA OverflowsReasoned ==
  ASSUME RInv
  PROVE  Enough(doc) < MaxDepth => OverflowsOnAliasCycles
BY StraightWhenLoaded DEF RInv, Overflows, Straight, OverflowsOnAliasCycles

\* swagger_loader.go:680, resolveSchemaRef and its like, which call themselves: where no
\* aliases lead on to each other they are never deeper in than the size of the
\* document allows, however cyclic it is and whatever order Go's maps give.
CallsHaveRoom == pc = "loading" /\ Straight(doc) => Len(stack) <= Enough(doc)
THEOREM CallsAreBounded == Spec => []CallsHaveRoom
<1>1. RInv => CallsHaveRoom
  BY CallsBounded DEF RInv, CallsHaveRoom, Depth
<1> QED BY <1>1, ReferencesInvariant, PTL

\* swagger_loader.go:680: so they use up Go's stack, where it has room for that
\* many, only for what OverflowsOnAliasCycles names.
THEOREM OverflowsExplained == Spec => [](Enough(doc) < MaxDepth => OverflowsOnAliasCycles)
<1> QED BY OverflowsReasoned, ReferencesInvariant, PTL

-----------------------------------------------------------------------------
(* The refinement of Resolution.                                            *)

LEMMA OutcomeIs ==
  ASSUME IInv
  PROVE  /\ pc = "loading" => Outcome = "loading"
         /\ pc = "loaded" => Outcome = "loaded"
         /\ pc \in {"refused", "panicked", "overflow"} => Outcome = "failed"
<1> QED BY DEF Outcome

LEMMA OutcomeBecomes ==
  /\ pc' = "loading" => Outcome' = "loading"
  /\ pc' = "loaded" => Outcome' = "loaded"
  /\ pc' \in {"refused", "panicked", "overflow"} => Outcome' = "failed"
<1> QED BY DEF Outcome

LEMMA InitImplements == Init => Promise!Init
<1>1. SUFFICES ASSUME Init PROVE Promise!Init
  OBVIOUS
<1>2. WellFormed(doc) /\ pc = "loading"
  BY <1>1, DocumentsAssumption DEF Init
<1>3. Outcome = "loading"
  BY <1>2 DEF Outcome
<1>4. ASSUME NEW n \in Components(doc)
      PROVE  val[n] = IF Means(doc)[n] = n THEN n ELSE None
  <2>1. n \in Nodes(doc) /\ doc.kind[n] \in Wrappers
    BY DEF Components, Nodes
  <2>2. val[n] = IF doc.ref[n] # None THEN None ELSE n
    BY <1>1, <2>1 DEF Init, Nodes
  <2>3. Means(doc)[n] = n <=> doc.ref[n] = None
    <3>1. Settled(doc, Means(doc))
      BY <1>2, MeansFacts
    <3>2. n # None
      BY <1>2, <2>1 DEF WellFormed, Nodes
    <3>3. doc.ref[n] = None => Means(doc)[n] = n
      BY <2>1, <3>1 DEF Settled
    <3>4. Means(doc)[n] # None => doc.ref[Means(doc)[n]] = None
      BY <2>1, <3>1 DEF Settled
    <3> QED BY <3>2, <3>3, <3>4
  <2> QED BY <2>2, <2>3
<1>5. Given = [n \in DOMAIN Meant |-> IF Meant[n] = n THEN n ELSE None]
  <2>1. DOMAIN Meant = Components(doc) /\ \A n \in Components(doc) : Meant[n] = Means(doc)[n]
    BY DEF Meant
  <2> QED BY <1>4, <2>1 DEF Given
<1> QED BY <1>3, <1>5 DEF Promise!Init

LEMMA NextImplements == RInv /\ [Next]_vars => [Promise!Next]_(Promise!vars)
<1>1. SUFFICES ASSUME RInv, [Next]_vars PROVE Promise!Next \/ UNCHANGED Promise!vars
  OBVIOUS
<1>2. /\ IInv /\ Agreed /\ WellFormed(doc) /\ val \in Values(doc) /\ doc' = doc
      /\ pc \in {"loading", "loaded", "refused", "panicked", "overflow"}
  BY <1>1, StepValues, WellFormedDoc DEF RInv, IInv, Types
<1>3. CASE val' = val
  <2>1. Given' = Given
    BY <1>2, <1>3 DEF Given
  <2>2. CASE pc' = pc
    <3>1. Outcome' = Outcome
      BY <2>2 DEF Outcome
    <3> QED BY <2>1, <3>1 DEF Promise!vars
  <2>3. CASE pc' # pc
    <3>1. pc = "loading" /\ Load
      BY <1>1, <2>3 DEF Next, Ended, vars, Load, At, AlreadyVisited, Inline, FollowRef, CopyPathItem,
                        OpenValue, Descend, AllVisited
    <3>2. Outcome = "loading"
      BY <3>1 DEF Outcome
    <3>3. CASE AlreadyVisited \/ AllVisited
      <4>1. Returns /\ Return /\ visited' = visited
        BY <3>3 DEF AlreadyVisited, AllVisited, Returns, At
      <4>2. pc' = "loaded"
        BY <2>3, <4>1 DEF Return
      <4>3. \A n \in Needed(doc) : Given[n] # None
        <5>1. IInv' /\ Agreed'
          BY <1>1, <1>2, NextIInv, NextAgreed DEF RInv
        <5>2. (pc = "loaded" /\ IInv /\ Agreed => \A n \in Needed(doc) : val[n] # None)'
          BY LoadedRight, PTL
        <5>3. \A n \in Needed(doc) : val[n] # None
          BY <1>2, <1>3, <4>2, <5>1, <5>2
        <5> QED BY <5>3 DEF Needed, Given
      <4>4. Outcome' = "loaded"
        BY <4>2, OutcomeBecomes
      <4>5. Promise!Finish
        BY <2>1, <3>2, <4>3, <4>4 DEF Promise!Finish
      <4> QED BY <4>5 DEF Promise!Next
    <3>4. CASE Inline \/ FollowRef \/ CopyPathItem \/ OpenValue \/ Descend
      <4>1. pc' \in {"refused", "panicked", "overflow"}
        BY <2>3, <3>4 DEF Inline, FollowRef, CopyPathItem, OpenValue, Descend, Call, Fail
      <4>2. Outcome' = "failed"
        BY <4>1, OutcomeBecomes
      <4>3. Promise!Fail
        BY <2>1, <3>2, <4>2 DEF Promise!Fail
      <4> QED BY <4>3 DEF Promise!Next
    <3> QED BY <3>1, <3>3, <3>4 DEF Load
  <2> QED BY <2>2, <2>3
<1>4. CASE CopyPathItem
  <2>1. CASE val' = val
    BY <1>3, <2>1
  <2>2. CASE val' # val
    <3>1. pc' = pc /\ val' = [val EXCEPT ![Top.node] = val[Drill(Ref)]] /\ Kind = "pathItem" /\ pc = "loading"
      BY <1>4, <2>2 DEF CopyPathItem, At
    <3>2. Top.node \notin Components(doc)
      BY <3>1 DEF Components, Kind, Wrappers
    <3>3. \A n \in Components(doc) : val'[n] = val[n]
      BY <1>2, <3>1, <3>2 DEF Values, Components, Nodes
    <3>4. Given' = Given
      BY <1>2, <3>3 DEF Given
    <3>5. Outcome' = Outcome
      BY <3>1 DEF Outcome
    <3> QED BY <3>4, <3>5 DEF Promise!vars
  <2> QED BY <2>1, <2>2
<1>5. CASE pc = "loading" /\ Returns /\ Return /\ ~Top.own /\ visited' = visited
  <2>1. pc' = "loading"
    BY <1>2, <1>5, BackAgreed
  <2>2. PICK m \in Nodes(doc) : /\ IsWrapper(m) /\ Means(doc)[m] # None
                                /\ val' \in {val, [val EXCEPT ![m] = Means(doc)[m]]}
    BY <1>2, <1>5, BackAgreed
  <2>3. CASE val' = val
    BY <1>3, <2>3
  <2>4. CASE val' = [val EXCEPT ![m] = Means(doc)[m]] /\ val' # val
    <3>1. m \in Components(doc)
      BY <2>2 DEF Components, IsWrapper, Nodes
    <3>2. val[m] = None
      <4>1. val[m] # Means(doc)[m]
        BY <1>2, <2>2, <2>4 DEF Values
      <4> QED BY <1>2, <2>2, <4>1 DEF Agreed, Later, IsWrapper, Wrappers
    <3>3. Given' = [Given EXCEPT ![m] = Meant[m]]
      BY <1>2, <2>4, <3>1 DEF Given, Meant, Values, Components, Nodes
    <3>4. Given[m] = None /\ Meant[m] # None /\ m \in DOMAIN Meant
      BY <2>2, <3>1, <3>2 DEF Given, Meant
    <3>5. Outcome = "loading" /\ Outcome' = "loading"
      BY <1>5, <2>1 DEF Outcome
    <3>6. Promise!Give(m)
      BY <3>3, <3>4, <3>5 DEF Promise!Give
    <3> QED BY <3>4, <3>6 DEF Promise!Next
  <2> QED BY <2>2, <2>3, <2>4
<1> QED BY <1>1, <1>2, <1>3, <1>4, <1>5, StepValues

\* swagger_loader.go:156 and resolveComponent: the loader with its calls, its
\* copies and its marks of what was visited, in whatever order, does what
\* Resolution says: it gives each component what its $ref means, once, and is
\* done only when all that is needed has its value.
THEOREM MeaningKept == Spec => KeepsMeaning
<1> QED BY InitImplements, ReferencesInvariant, NextImplements, PTL DEF Spec, KeepsMeaning, Promise!Spec
=============================================================================
