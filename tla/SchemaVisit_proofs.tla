--------------------------- MODULE SchemaVisit_proofs ---------------------------
(***************************************************************************)
(* What SchemaVisit promises, for every document, value and mode: the      *)
(* visits decide what the schema asks, the error of single mode is among   *)
(* those of multi-error mode, the path of an error leads into the value, a *)
(* visit dies only for a named reason, and a document without oneOf is     *)
(* served if and only if every schema in reach is well formed.             *)
(*                                                                         *)
(* The recursive functions of Schema are founded first: the value nests,   *)
(* and the schemas that wait for a call's answer are finitely many.  Each  *)
(* operator that puts outcomes together is then shown to keep what is to   *)
(* be shown of a visit, and the visits follow by induction over the calls. *)
(***************************************************************************)
EXTENDS SchemaVisit, FiniteSetTheorems, NaturalsInduction, SequenceTheorems, WellFoundedInduction, TLAPS

LEMMA LeastOne ==
  ASSUME NEW T \in SUBSET Nat, T # {}
  PROVE  \E m \in T : \A k \in T : m <= k
<1>1. PICK m \in T : \A k \in T : <<k, m>> \notin OpToRel(<, Nat)
  BY NatLessThanWellFounded, WFMin
<1>2. ASSUME NEW k \in T, ~(m <= k) PROVE FALSE
  <2>1. k \in Nat /\ m \in Nat /\ k < m
    BY <1>2
  <2>2. <<k, m>> \in OpToRel(<, Nat)
    BY <2>1 DEF OpToRel
  <2> QED BY <1>1, <2>2
<1> QED BY <1>2

LEMMA Upwards ==
  ASSUME NEW n \in Nat, NEW T, 0 \in T, \A k \in 1..n : k - 1 \in T => k \in T
  PROVE  \A k \in 0..n : k \in T
<1> DEFINE U == {k \in 0..n : k \notin T}
<1>1. ASSUME NEW m \in U, \A k \in U : m <= k PROVE FALSE
  <2>1. m \in 1..n /\ m - 1 \in 0..n /\ ~(m <= m - 1)
    OBVIOUS
  <2> QED BY <1>1, <2>1
<1>2. U = {}
  <2> HIDE DEF U
  <2>1. U \in SUBSET Nat
    BY DEF U
  <2> QED BY <1>1, <2>1, LeastOne
<1> QED BY <1>2

-----------------------------------------------------------------------------
(* Closures.  As long as there is more to add, there are more and more     *)
(* elements; so it takes no more rounds than the set has elements.         *)

Rounds(N, start, step, after) ==
    after = [k \in 0..N |-> IF k = 0 THEN start ELSE step[after[k - 1]]]

LEMMA RoundsExist ==
  ASSUME NEW N \in Nat, NEW start, NEW step
  PROVE  \E after : Rounds(N, start, step, after)
<1> DEFINE T == {n \in 0..N : ~\E g : Rounds(n, start, step, g)}
<1>1. ASSUME NEW m \in T, \A k \in T : m <= k PROVE FALSE
  <2>1. m \in Nat
    OBVIOUS
  <2>2. CASE m = 0
    <3> DEFINE g == [k \in 0..0 |-> start]
    <3>1. g = [k \in 0..0 |-> IF k = 0 THEN start ELSE step[g[k - 1]]]
      OBVIOUS
    <3> QED BY <2>2, <3>1 DEF Rounds
  <2>3. CASE m # 0
    <3>1. m - 1 \in Nat /\ m - 1 \in 0..N /\ ~(m <= m - 1)
      BY <2>1, <2>3
    <3>2. PICK old : Rounds(m - 1, start, step, old)
      BY <1>1, <3>1
    <3> DEFINE g == [k \in 0..m |-> IF k = m THEN step[old[m - 1]] ELSE old[k]]
    <3>3. ASSUME NEW k \in 0..m PROVE g[k] = IF k = 0 THEN start ELSE step[g[k - 1]]
      <4>1. CASE k = m
        <5>1. g[m - 1] = old[m - 1] /\ g[m] = step[old[m - 1]]
          BY <2>1, <3>1
        <5> QED BY <2>3, <4>1, <5>1
      <4>2. CASE k # m
        <5>1. k \in 0..(m - 1) /\ g[k] = old[k]
          BY <2>1, <4>2
        <5>2. old[k] = IF k = 0 THEN start ELSE step[old[k - 1]]
          BY <3>1, <3>2, <5>1 DEF Rounds
        <5>3. k # 0 => g[k - 1] = old[k - 1]
          BY <2>1, <5>1
        <5> QED BY <5>1, <5>2, <5>3
      <4> QED BY <4>1, <4>2
    <3>4. g = [k \in 0..m |-> IF k = 0 THEN start ELSE step[g[k - 1]]]
      BY <3>3
    <3>5. Rounds(m, start, step, g)
      <4> HIDE DEF g
      <4> QED BY <3>4 DEF Rounds
    <3> QED BY <3>5
  <2> QED BY <2>2, <2>3
<1>2. T = {}
  <2> HIDE DEF T
  <2>1. T \in SUBSET Nat
    BY DEF T
  <2> QED BY <1>1, <2>1, LeastOne
<1> QED BY <1>2

LEMMA ClosureRounds ==
  ASSUME NEW S, Cardinality(S) \in Nat, NEW start, NEW step
  PROVE  \E after : /\ Rounds(Cardinality(S), start, step, after)
                    /\ Closure(S, start, step) = after[CHOOSE k \in 0..Cardinality(S) : step[after[k]] = after[k]]
<1> DEFINE F(g) == [k \in 0..Cardinality(S) |-> IF k = 0 THEN start ELSE step[g[k - 1]]]
           after == CHOOSE g : g = F(g)
<1>1. PICK g : Rounds(Cardinality(S), start, step, g)
  BY RoundsExist
<1>2. g = F(g)
  BY <1>1 DEF Rounds
<1>3. after = F(after)
  BY <1>2
<1>4. Rounds(Cardinality(S), start, step, after)
  <2> HIDE DEF after
  <2> QED BY <1>3 DEF Rounds
<1>5. Closure(S, start, step) = after[CHOOSE k \in 0..Cardinality(S) : step[after[k]] = after[k]]
  BY Zenon DEF Closure
<1> QED BY <1>4, <1>5

\* The closure is one, and has every property that the start has and the step keeps.
LEMMA ClosureFacts ==
  ASSUME NEW S, IsFiniteSet(S), NEW start \in SUBSET S, NEW step \in [SUBSET S -> SUBSET S],
         \A X \in SUBSET S : X \subseteq step[X]
  PROVE  /\ Closure(S, start, step) \in SUBSET S
         /\ step[Closure(S, start, step)] = Closure(S, start, step)
         /\ \A Good \in SUBSET SUBSET S :
               start \in Good /\ (\A X \in Good : step[X] \in Good) => Closure(S, start, step) \in Good
<1>1. PICK N : N = Cardinality(S)
  OBVIOUS
<1>2. N \in Nat
  BY <1>1, FS_CardinalityType
<1>3. PICK after : /\ Rounds(N, start, step, after)
                   /\ Closure(S, start, step) = after[CHOOSE k \in 0..N : step[after[k]] = after[k]]
  BY <1>1, <1>2, ClosureRounds
<1>4. \A k \in 0..N : after[k] = IF k = 0 THEN start ELSE step[after[k - 1]]
  BY <1>3 DEF Rounds
<1>5. ASSUME NEW Good \in SUBSET SUBSET S, start \in Good, \A X \in Good : step[X] \in Good
      PROVE  \A k \in 0..N : after[k] \in Good
  <2> DEFINE T == {k \in 0..N : after[k] \notin Good}
  <2>1. ASSUME NEW m \in T, \A k \in T : m <= k PROVE FALSE
    <3>1. m \in Nat /\ m \in 0..N /\ m # 0
      BY <1>4, <1>5
    <3>2. m - 1 \in 0..N /\ ~(m <= m - 1)
      BY <1>2, <3>1
    <3>3. after[m - 1] \in Good
      BY <2>1, <3>2
    <3> QED BY <1>4, <1>5, <3>1, <3>3
  <2>2. T = {}
    <3> HIDE DEF T
    <3>1. T \in SUBSET Nat
      BY DEF T
    <3> QED BY <2>1, <3>1, LeastOne
  <2> QED BY <2>2
<1>6. \A k \in 0..N : after[k] \in SUBSET S
  <2>1. SUBSET S \in SUBSET SUBSET S /\ start \in SUBSET S /\ \A X \in SUBSET S : step[X] \in SUBSET S
    OBVIOUS
  <2> QED BY <1>5, <2>1
<1>7. \E k \in 0..N : step[after[k]] = after[k]
  <2>1. SUFFICES ASSUME \A k \in 0..N : step[after[k]] # after[k] PROVE FALSE
    OBVIOUS
  <2>2. \A k \in 0..N : IsFiniteSet(after[k]) /\ Cardinality(after[k]) \in Nat /\ Cardinality(after[k]) <= N
    BY <1>1, <1>6, FS_Subset, FS_CardinalityType
  <2> DEFINE T == {k \in 0..N : ~(Cardinality(after[k]) >= k)}
  <2>3. ASSUME NEW m \in T, \A k \in T : m <= k PROVE FALSE
    <3>1. m \in Nat /\ m \in 0..N /\ m # 0
      BY <2>2
    <3>2. m - 1 \in 0..N /\ ~(m <= m - 1)
      BY <1>2, <3>1
    <3>3. Cardinality(after[m - 1]) >= m - 1
      BY <2>3, <3>2
    <3>4. after[m - 1] \in SUBSET after[m] /\ after[m] # after[m - 1]
      BY <1>4, <1>6, <2>1, <3>1, <3>2
    <3>5. Cardinality(after[m - 1]) <= Cardinality(after[m]) /\ Cardinality(after[m]) # Cardinality(after[m - 1])
      BY <2>2, <3>1, <3>4, FS_Subset
    <3>6. Cardinality(after[m]) \in Nat /\ Cardinality(after[m - 1]) \in Nat
      BY <2>2, <3>1, <3>2
    <3> QED BY <3>1, <3>3, <3>5, <3>6
  <2>4. T = {}
    <3> HIDE DEF T
    <3>1. T \in SUBSET Nat
      BY DEF T
    <3> QED BY <2>3, <3>1, LeastOne
  <2>5. Cardinality(after[N]) = N /\ after[N] \in SUBSET S
    <3>1. N \in 0..N
      BY <1>2
    <3>2. Cardinality(after[N]) >= N
      BY <2>4, <3>1
    <3> QED BY <1>6, <2>2, <3>1, <3>2, <1>2
  <2>6. after[N] = S
    BY <1>1, <2>5, FS_Subset
  <2>7. step[S] = S
    OBVIOUS
  <2> QED BY <1>2, <2>1, <2>6, <2>7
<1>8. PICK k \in 0..N : Closure(S, start, step) = after[k] /\ step[after[k]] = after[k]
  <2> DEFINE c == CHOOSE k \in 0..N : step[after[k]] = after[k]
  <2>1. c \in 0..N /\ step[after[c]] = after[c]
    BY <1>7
  <2> QED BY <1>3, <2>1
<1> QED BY <1>5, <1>6, <1>8


\* What is reached from `start` is the least that holds it and all successors.
LEMMA ReachableFacts ==
  ASSUME NEW S, IsFiniteSet(S), NEW next \in [S -> SUBSET S], NEW start \in SUBSET S
  PROVE  /\ start \subseteq ReachableFrom(next, start)
         /\ ReachableFrom(next, start) \subseteq S
         /\ \A n \in ReachableFrom(next, start) : next[n] \subseteq ReachableFrom(next, start)
         /\ \A R \in SUBSET S : start \subseteq R /\ (\A n \in R : next[n] \subseteq R)
                                  => ReachableFrom(next, start) \subseteq R
<1> DEFINE step == [X \in SUBSET S |-> X \cup UNION {next[n] : n \in X}]
<1>1. DOMAIN next = S /\ ReachableFrom(next, start) = Closure(S, start, step)
  BY DEF ReachableFrom
<1>2. step \in [SUBSET S -> SUBSET S] /\ \A X \in SUBSET S : step[X] = X \cup UNION {next[n] : n \in X}
  OBVIOUS
<1>3. \A X \in SUBSET S : X \subseteq step[X]
  BY <1>2
<1> HIDE DEF step
<1>a. /\ Closure(S, start, step) \in SUBSET S
      /\ step[Closure(S, start, step)] = Closure(S, start, step)
      /\ \A Good \in SUBSET SUBSET S :
            start \in Good /\ (\A X \in Good : step[X] \in Good) => Closure(S, start, step) \in Good
  BY <1>2, <1>3, ClosureFacts
<1>4. PICK C : C = Closure(S, start, step)
  OBVIOUS
<1>5. /\ C \in SUBSET S
      /\ step[C] = C
      /\ \A Good \in SUBSET SUBSET S :
            start \in Good /\ (\A X \in Good : step[X] \in Good) => C \in Good
  BY <1>a, <1>4
<1>6. start \subseteq C
  <2> DEFINE Good == {X \in SUBSET S : start \subseteq X}
  <2>1. start \in Good /\ Good \in SUBSET SUBSET S
    OBVIOUS
  <2>2. \A X \in Good : step[X] \in Good
    BY <1>2, <1>3
  <2>3. C \in Good
    <3> HIDE DEF Good
    <3> QED BY <1>5, <2>1, <2>2
  <2> QED BY <2>3
<1>7. \A n \in C : next[n] \subseteq C
  BY <1>2, <1>5
<1>8. ASSUME NEW R \in SUBSET S, start \subseteq R, \A n \in R : next[n] \subseteq R PROVE C \subseteq R
  <2> DEFINE Good == SUBSET R
  <2>1. start \in Good /\ Good \in SUBSET SUBSET S
    BY <1>8
  <2>2. ASSUME NEW X \in Good PROVE step[X] \in Good
    <3>1. X \in SUBSET S /\ X \subseteq R
      OBVIOUS
    <3>2. UNION {next[n] : n \in X} \subseteq R
      BY <1>8, <3>1
    <3> QED BY <1>2, <3>1, <3>2
  <2>3. C \in Good
    <3> HIDE DEF Good
    <3> QED BY <1>5, <2>1, <2>2
  <2> QED BY <2>3
<1> QED BY <1>1, <1>4, <1>5, <1>6, <1>7, <1>8

-----------------------------------------------------------------------------
(* Recursions that end.  A call `asks` others, which are of lesser weight. *)

\* What holds of a call if it holds of those it asks, holds of all.
LEMMA CallInduction ==
  ASSUME NEW S, NEW P, NEW asks, NEW weight \in [S -> Nat],
         \A x \in S : asks[x] \subseteq S /\ \A y \in asks[x] : weight[y] < weight[x],
         \A x \in S : asks[x] \subseteq P => x \in P
  PROVE  S \subseteq P
<1> DEFINE T == {weight[x] : x \in {z \in S : z \notin P}}
<1>1. T \in SUBSET Nat
  OBVIOUS
<1>2. ASSUME NEW m \in T, \A k \in T : m <= k PROVE FALSE
  <2>1. PICK x \in S : x \notin P /\ m = weight[x]
    OBVIOUS
  <2>2. PICK y \in asks[x] : y \notin P
    BY <2>1
  <2>3. y \in S /\ weight[y] < weight[x] /\ weight[y] \in Nat /\ weight[x] \in Nat
    BY <2>2
  <2>4. weight[y] \in T
    BY <2>2, <2>3
  <2>5. m <= weight[y]
    BY <1>2, <2>4
  <2> QED BY <2>1, <2>3, <2>5
<1>3. T = {}
  <2> HIDE DEF T
  <2> QED BY <1>1, <1>2, LeastOne
<1> QED BY <1>3

\* Least and greatest.
LEMMA MinFacts ==
  ASSUME NEW T \in SUBSET Nat, T # {}
  PROVE  Min(T) \in T /\ \A k \in T : Min(T) <= k
<1>1. \E m \in T : \A k \in T : m <= k
  BY LeastOne
<1> QED BY <1>1 DEF Min

LEMMA MaxFacts ==
  ASSUME NEW n \in Nat, NEW T \in SUBSET (1..n), T # {}
  PROVE  Max(T) \in T /\ \A k \in T : Max(T) >= k
<1> DEFINE U == {n - k : k \in T}
<1>1. U \in SUBSET Nat /\ U # {}
  <2>1. \A k \in T : n - k \in Nat
    OBVIOUS
  <2>2. U # {}
    OBVIOUS
  <2> QED BY <2>1, <2>2
<1>2. PICK m \in U : \A k \in U : m <= k
  <2> HIDE DEF U
  <2> QED BY <1>1, LeastOne
<1>3. PICK x \in T : m = n - x
  OBVIOUS
<1>4. \A k \in T : x >= k
  BY <1>2, <1>3
<1>5. \E z \in T : \A k \in T : z >= k
  BY <1>3, <1>4
<1> QED BY <1>5 DEF Max

-----------------------------------------------------------------------------
(* Values.                                                                  *)

LevelOf(nested, k) ==
    IF k = 0 THEN Scalars
    ELSE Scalars \cup [t : {"arr"}, items : Seq(nested[k - 1])]
                 \cup [t : {"obj"}, pairs : Seq([k : STRING, v : nested[k - 1]])]

LEMMA NestedIs ==
  \A k \in 0..MaxNesting : Nested[k] = LevelOf(Nested, k)
<1> DEFINE F(g, n) == [k \in 0..n |-> LevelOf(g, k)]
           T == {n \in 0..MaxNesting : ~\E g : g = F(g, n)}
<1>0. MaxNesting \in Nat
  BY SchemaAssumption
<1>1. ASSUME NEW m \in T, \A k \in T : m <= k PROVE FALSE
  <2>1. m \in Nat /\ m <= MaxNesting
    BY <1>0
  <2>2. CASE m = 0
    <3> DEFINE g == [k \in 0..0 |-> Scalars]
    <3>1. g = F(g, 0)
      BY DEF LevelOf
    <3> HIDE DEF g
    <3> QED BY <2>2, <3>1
  <2>3. CASE m # 0
    <3>1. m - 1 \in Nat /\ m - 1 \in 0..MaxNesting /\ ~(m <= m - 1)
      BY <2>1, <2>3, <1>0
    <3>2. PICK old : old = F(old, m - 1)
      BY <1>1, <3>1
    <3> DEFINE g == [k \in 0..m |-> LevelOf(old, k)]
    <3>3. ASSUME NEW k \in 0..m PROVE g[k] = LevelOf(g, k)
      <4>1. CASE k = 0
        BY <4>1 DEF LevelOf
      <4>2. CASE k # 0
        <5>1. k - 1 \in 0..(m - 1) /\ k - 1 \in 0..m
          BY <2>1, <4>2
        <5>2. g[k - 1] = LevelOf(old, k - 1)
          BY <5>1
        <5>3. old[k - 1] = LevelOf(old, k - 1)
          BY <3>2, <5>1
        <5>4. g[k] = LevelOf(old, k)
          OBVIOUS
        <5> HIDE DEF g
        <5> QED BY <4>2, <5>2, <5>3, <5>4 DEF LevelOf
      <4> QED BY <4>1, <4>2
    <3>4. g = F(g, m)
      BY <3>3
    <3> HIDE DEF g
    <3> QED BY <3>4
  <2> QED BY <2>2, <2>3
<1>2. T = {}
  <2> HIDE DEF T
  <2>1. T \in SUBSET Nat
    BY <1>0 DEF T
  <2> QED BY <1>1, <2>1, LeastOne
<1>3. PICK g : g = F(g, MaxNesting)
  BY <1>0, <1>2
<1>4. Nested = F(Nested, MaxNesting)
  <2> DEFINE chosen == CHOOSE f : f = F(f, MaxNesting)
  <2>1. chosen = F(chosen, MaxNesting)
    BY <1>3
  <2>2. chosen = Nested
    BY DEF Nested, LevelOf
  <2> HIDE DEF chosen
  <2> QED BY <2>1, <2>2
<1> QED BY <1>4

LEMMA SeqGrows ==
  ASSUME NEW A, NEW B, A \subseteq B
  PROVE  Seq(A) \subseteq Seq(B)
<1>1. ASSUME NEW s \in Seq(A) PROVE s \in Seq(B)
  <2>1. /\ Len(s) \in Nat
        /\ s = [i \in 1..Len(s) |-> s[i]]
        /\ \A i \in 1..Len(s) : s[i] \in A
    OBVIOUS
  <2>2. \A i \in 1..Len(s) : s[i] \in B
    BY <2>1
  <2> QED BY <2>1, <2>2
<1> QED BY <1>1

LEMMA ScalarKinds ==
  ASSUME NEW v \in Scalars
  PROVE  /\ v.t \in Kinds /\ v.t # "arr" /\ v.t # "obj"
         /\ v.t = "num" => v.n \in Int
         /\ v.t = "str" => v.s \in DOMAIN StrLen
BY DEF Scalars, Kinds

LEMMA LevelKinds ==
  ASSUME NEW k \in 0..MaxNesting, NEW v \in Nested[k]
  PROVE  /\ v.t \in Kinds
         /\ v.t = "num" => v.n \in Int
         /\ v.t = "str" => v.s \in DOMAIN StrLen
         /\ v.t = "arr" => k - 1 \in 0..MaxNesting /\ v.items \in Seq(Nested[k - 1])
         /\ v.t = "obj" => k - 1 \in 0..MaxNesting /\ v.pairs \in Seq([k : STRING, v : Nested[k - 1]])
<1>0. k \in Nat /\ MaxNesting \in Nat /\ k <= MaxNesting
  BY SchemaAssumption
<1>1. v \in LevelOf(Nested, k)
  BY NestedIs
<1>2. CASE v \in Scalars
  BY <1>2, ScalarKinds
<1>3. CASE v \notin Scalars
  <2>1. k # 0
    BY <1>1, <1>3 DEF LevelOf
  <2>2. k - 1 \in 0..MaxNesting
    BY <1>0, <2>1
  <2>3. v \in [t : {"arr"}, items : Seq(Nested[k - 1])]
          \/ v \in [t : {"obj"}, pairs : Seq([k : STRING, v : Nested[k - 1]])]
    BY <1>1, <1>3, <2>1 DEF LevelOf
  <2> QED BY <2>2, <2>3 DEF Kinds
<1> QED BY <1>2, <1>3

LEMMA NestedGrows ==
  \A k \in 0..MaxNesting : k # 0 => Nested[k - 1] \subseteq Nested[k]
<1>0. MaxNesting \in Nat
  BY SchemaAssumption
<1> DEFINE T == {k \in 0..MaxNesting : k = 0 \/ Nested[k - 1] \subseteq Nested[k]}
<1>1. 0 \in T
  BY <1>0
<1>2. ASSUME NEW k \in 1..MaxNesting, k - 1 \in T PROVE k \in T
  <2>1. k \in 0..MaxNesting /\ k # 0 /\ k - 1 \in 0..MaxNesting
    BY <1>0
  <2>2. Nested[k] = LevelOf(Nested, k) /\ Nested[k - 1] = LevelOf(Nested, k - 1)
    BY <2>1, NestedIs
  <2>3. CASE k - 1 = 0
    BY <2>1, <2>2, <2>3 DEF LevelOf
  <2>4. CASE k - 1 # 0
    <3>1. Nested[(k - 1) - 1] \subseteq Nested[k - 1]
      BY <1>2, <2>4
    <3>2. PICK A : A = Nested[(k - 1) - 1]
      OBVIOUS
    <3>3. PICK B : B = Nested[k - 1]
      OBVIOUS
    <3>4. [k : STRING, v : A] \subseteq [k : STRING, v : B]
      BY <3>1, <3>2, <3>3
    <3>a. A \subseteq B
      BY <3>1, <3>2, <3>3
    <3>b. Seq(A) \subseteq Seq(B)
      BY <3>a, SeqGrows
    <3>c. Seq([k : STRING, v : A]) \subseteq Seq([k : STRING, v : B])
      BY <3>4, SeqGrows
    <3>5. Seq(A) \subseteq Seq(B) /\ Seq([k : STRING, v : A]) \subseteq Seq([k : STRING, v : B])
      BY <3>b, <3>c
    <3>6. Nested[k - 1] = Scalars \cup [t : {"arr"}, items : Seq(A)] \cup [t : {"obj"}, pairs : Seq([k : STRING, v : A])]
      BY <2>2, <2>4, <3>2 DEF LevelOf
    <3>7. Nested[k] = Scalars \cup [t : {"arr"}, items : Seq(B)] \cup [t : {"obj"}, pairs : Seq([k : STRING, v : B])]
      BY <2>1, <2>2, <3>3 DEF LevelOf
    <3>8. [t : {"arr"}, items : Seq(A)] \subseteq [t : {"arr"}, items : Seq(B)]
      BY <3>5
    <3>9. [t : {"obj"}, pairs : Seq([k : STRING, v : A])] \subseteq [t : {"obj"}, pairs : Seq([k : STRING, v : B])]
      BY <3>5
    <3>10. Nested[k - 1] \subseteq Nested[k]
      BY <3>6, <3>7, <3>8, <3>9
    <3> QED BY <2>1, <3>10
  <2> QED BY <2>3, <2>4
<1>3. \A k \in 0..MaxNesting : k \in T
  <2> HIDE DEF T
  <2> QED BY <1>0, <1>1, <1>2, Upwards
<1> QED BY <1>3

LEMMA InUniverse ==
  \A k \in 0..MaxNesting : Nested[k] \subseteq Universe
<1>0. MaxNesting \in Nat
  BY SchemaAssumption
<1> DEFINE T == {k \in 0..MaxNesting : Nested[MaxNesting - k] \subseteq Universe}
<1>1. 0 \in T
  BY <1>0 DEF Universe
<1>2. ASSUME NEW k \in 1..MaxNesting, k - 1 \in T PROVE k \in T
  <2>1. k \in 0..MaxNesting /\ MaxNesting - (k - 1) \in 0..MaxNesting /\ MaxNesting - (k - 1) # 0
        /\ (MaxNesting - (k - 1)) - 1 = MaxNesting - k
    BY <1>0
  <2>2. Nested[MaxNesting - k] \subseteq Nested[MaxNesting - (k - 1)]
    BY <2>1, NestedGrows
  <2> QED BY <1>2, <2>1, <2>2
<1>3. \A k \in 0..MaxNesting : k \in T
  <2> HIDE DEF T
  <2> QED BY <1>0, <1>1, <1>2, Upwards
<1>4. ASSUME NEW k \in 0..MaxNesting PROVE Nested[k] \subseteq Universe
  <2>1. MaxNesting - k \in 0..MaxNesting /\ MaxNesting - (MaxNesting - k) = k
    BY <1>0
  <2> QED BY <1>3, <2>1
<1> QED BY <1>4

\* What a value holds directly, and how deep it nests.
Members(v) ==
    CASE v.t = "arr" -> {v.items[i] : i \in DOMAIN v.items}
      [] v.t = "obj" -> {v.pairs[i].v : i \in DOMAIN v.pairs}
      [] OTHER       -> {}
Depth(v) == Min({k \in 0..MaxNesting : v \in Nested[k]})

LEMMA DepthFacts ==
  ASSUME NEW v \in Universe
  PROVE  /\ Depth(v) \in 0..MaxNesting
         /\ v \in Nested[Depth(v)]
         /\ \A k \in 0..MaxNesting : v \in Nested[k] => Depth(v) <= k
<1> DEFINE T == {k \in 0..MaxNesting : v \in Nested[k]}
<1>0. MaxNesting \in Nat
  BY SchemaAssumption
<1>1. MaxNesting \in T /\ T \in SUBSET Nat
  BY <1>0 DEF Universe
<1>2. Min(T) \in T /\ \A k \in T : Min(T) <= k
  <2> HIDE DEF T
  <2> QED BY <1>1, MinFacts
<1>3. Depth(v) = Min(T)
  BY DEF Depth
<1> QED BY <1>2, <1>3

LEMMA UniverseFacts ==
  ASSUME NEW v \in Universe
  PROVE  /\ v.t \in Kinds
         /\ v.t = "num" => v.n \in Int
         /\ v.t = "str" => v.s \in DOMAIN StrLen
         /\ v.t = "arr" => v.items \in Seq(Universe)
         /\ v.t = "obj" => v.pairs \in Seq([k : STRING, v : Universe])
         /\ \A x \in Members(v) : x \in Universe /\ Depth(x) < Depth(v)
<1>0. MaxNesting \in Nat
  BY SchemaAssumption
<1>1. PICK k \in 0..MaxNesting : k = Depth(v) /\ v \in Nested[k]
  BY DepthFacts
<1>2. /\ v.t \in Kinds
      /\ v.t = "num" => v.n \in Int
      /\ v.t = "str" => v.s \in DOMAIN StrLen
      /\ v.t = "arr" => k - 1 \in 0..MaxNesting /\ v.items \in Seq(Nested[k - 1])
      /\ v.t = "obj" => k - 1 \in 0..MaxNesting /\ v.pairs \in Seq([k : STRING, v : Nested[k - 1]])
  BY <1>1, LevelKinds
<1>3. ASSUME k - 1 \in 0..MaxNesting, NEW x \in Nested[k - 1] PROVE x \in Universe /\ Depth(x) < Depth(v)
  <2>1. x \in Universe
    BY <1>3, InUniverse
  <2>2. Depth(x) <= k - 1 /\ Depth(x) \in 0..MaxNesting
    BY <1>3, <2>1, DepthFacts
  <2> QED BY <1>0, <1>1, <2>1, <2>2
<1>4. CASE v.t = "arr"
  <2>1. v.items \in Seq(Nested[k - 1]) /\ Nested[k - 1] \subseteq Universe
    BY <1>2, <1>3, <1>4
  <2>2. v.items \in Seq(Universe)
    BY <2>1, SeqGrows
  <2>3. ASSUME NEW x \in Members(v) PROVE x \in Nested[k - 1]
    <3>1. PICK i \in DOMAIN v.items : x = v.items[i]
      BY <1>4 DEF Members
    <3> QED BY <2>1, <3>1
  <2> QED BY <1>2, <1>3, <1>4, <2>2, <2>3
<1>5. CASE v.t = "obj"
  <2>1. v.pairs \in Seq([k : STRING, v : Nested[k - 1]]) /\ Nested[k - 1] \subseteq Universe
    BY <1>2, <1>3, <1>5
  <2>2. PICK A : A = Nested[k - 1]
    OBVIOUS
  <2>3. [k : STRING, v : A] \subseteq [k : STRING, v : Universe]
    BY <2>1, <2>2
  <2>4. v.pairs \in Seq([k : STRING, v : A])
    BY <2>1, <2>2
  <2>5. v.pairs \in Seq([k : STRING, v : Universe])
    BY <2>3, <2>4, SeqGrows
  <2>6. ASSUME NEW x \in Members(v) PROVE x \in Nested[k - 1]
    <3>1. PICK i \in DOMAIN v.pairs : x = v.pairs[i].v
      BY <1>5 DEF Members
    <3>2. v.pairs[i].v \in A
      <4>1. PICK E : E = [k : STRING, v : A]
        OBVIOUS
      <4>2. v.pairs \in Seq(E)
        BY <2>4, <4>1
      <4>3. v.pairs[i] \in E
        BY <4>2
      <4> QED BY <4>1, <4>3
    <3> QED BY <2>2, <3>1, <3>2
  <2> QED BY <1>2, <1>3, <1>5, <2>5, <2>6
<1>6. CASE v.t # "arr" /\ v.t # "obj"
  BY <1>2, <1>6 DEF Members
<1> QED BY <1>4, <1>5, <1>6

-----------------------------------------------------------------------------
(* The parts of a value.                                                    *)

Beneath(places, step, x) == {<<<<step>> \o p[1], p[2]>> : p \in places[x]}
PlacesOf(places, v) ==
    {<<<<>>, v>>} \cup
    CASE v.t = "arr" -> UNION {Beneath(places, ToString(i - 1), v.items[i]) : i \in DOMAIN v.items}
      [] v.t = "obj" -> UNION {Beneath(places, v.pairs[i].k, v.pairs[i].v) : i \in DOMAIN v.pairs}
      [] OTHER       -> {}

LEMMA PlacesLocal ==
  ASSUME NEW v, NEW f, NEW g, \A x \in Members(v) : f[x] = g[x]
  PROVE  PlacesOf(f, v) = PlacesOf(g, v)
<1>1. CASE v.t = "arr"
  <2>1. \A i \in DOMAIN v.items : f[v.items[i]] = g[v.items[i]]
    BY <1>1 DEF Members
  <2>2. \A i \in DOMAIN v.items :
           Beneath(f, ToString(i - 1), v.items[i]) = Beneath(g, ToString(i - 1), v.items[i])
    BY <2>1 DEF Beneath
  <2>3. {Beneath(f, ToString(i - 1), v.items[i]) : i \in DOMAIN v.items}
          = {Beneath(g, ToString(i - 1), v.items[i]) : i \in DOMAIN v.items}
    BY <2>2
  <2> QED BY <1>1, <2>3 DEF PlacesOf
<1>2. CASE v.t = "obj"
  <2>1. \A i \in DOMAIN v.pairs : f[v.pairs[i].v] = g[v.pairs[i].v]
    BY <1>2 DEF Members
  <2>2. \A i \in DOMAIN v.pairs :
           Beneath(f, v.pairs[i].k, v.pairs[i].v) = Beneath(g, v.pairs[i].k, v.pairs[i].v)
    BY <2>1 DEF Beneath
  <2>3. {Beneath(f, v.pairs[i].k, v.pairs[i].v) : i \in DOMAIN v.pairs}
          = {Beneath(g, v.pairs[i].k, v.pairs[i].v) : i \in DOMAIN v.pairs}
    BY <2>2
  <2> QED BY <1>2, <2>3 DEF PlacesOf
<1>3. CASE v.t # "arr" /\ v.t # "obj"
  BY <1>3 DEF PlacesOf
<1> QED BY <1>1, <1>2, <1>3

LEMMA PlacesIs ==
  ASSUME NEW v \in Universe
  PROVE  Places[v] = PlacesOf(Places, v)
<1> DEFINE Upto(n) == {x \in Universe : Depth(x) < n}
           F(g, n) == [x \in Upto(n) |-> PlacesOf(g, x)]
           T == {n \in 0..(MaxNesting + 1) : \E g : g = F(g, n)}
<1>0. MaxNesting \in Nat /\ MaxNesting + 1 \in Nat
  BY SchemaAssumption
<1>1. 0 \in T
  <2>1. Upto(0) = {}
    BY <1>0, DepthFacts
  <2>2. PICK g : g = F(g, 0)
    BY <2>1
  <2> HIDE DEF F
  <2> QED BY <1>0, <2>2
<1>2. ASSUME NEW n \in 1..(MaxNesting + 1), n - 1 \in T PROVE n \in T
  <2>1. PICK old : old = F(old, n - 1)
    BY <1>2
  <2>2. PICK g : g = F(old, n)
    OBVIOUS
  <2>3. ASSUME NEW x \in Upto(n) PROVE PlacesOf(old, x) = PlacesOf(g, x)
    <3>1. ASSUME NEW y \in Members(x) PROVE old[y] = g[y]
      <4>1. y \in Universe /\ Depth(y) < Depth(x) /\ Depth(y) \in 0..MaxNesting /\ Depth(x) \in 0..MaxNesting
        BY <3>1, UniverseFacts, DepthFacts
      <4>2. y \in Upto(n - 1) /\ y \in Upto(n)
        BY <1>0, <4>1
      <4>3. old[y] = PlacesOf(old, y) /\ g[y] = PlacesOf(old, y)
        <5> HIDE DEF Upto
        <5> QED BY <2>1, <2>2, <4>2
      <4> QED BY <4>3
    <3> QED BY <3>1, PlacesLocal
  <2>4. g = F(g, n)
    <3> HIDE DEF Upto
    <3> QED BY <2>2, <2>3
  <2> QED BY <2>4
<1>3. \A n \in 0..(MaxNesting + 1) : n \in T
  <2> HIDE DEF T
  <2> QED BY <1>0, <1>1, <1>2, Upwards
<1>4. PICK g : g = F(g, MaxNesting + 1)
  BY <1>0, <1>3
<1>5. Upto(MaxNesting + 1) = Universe
  BY <1>0, DepthFacts
<1>6. g = [x \in Universe |-> PlacesOf(g, x)]
  BY <1>4, <1>5
<1>7. Places = [x \in Universe |-> PlacesOf(Places, x)]
  <2> DEFINE chosen == CHOOSE f : f = [x \in Universe |-> PlacesOf(f, x)]
  <2>1. chosen = [x \in Universe |-> PlacesOf(chosen, x)]
    BY <1>6
  <2>2. chosen = Places
    BY Zenon DEF Places, PlacesOf, Beneath
  <2> HIDE DEF chosen
  <2> QED BY <2>1, <2>2
<1> QED BY <1>7

\* The steps that a path may be made of.
Steps == STRING \cup {ToString(i) : i \in Int}

\* A value is at its own place, and its members' places are its own.
LEMMA PlacesFacts ==
  ASSUME NEW v \in Universe
  PROVE  /\ <<<<>>, v>> \in Places[v]
         /\ v.t = "arr" => \A i \in DOMAIN v.items : \A p \in Places[v.items[i]] :
                              <<<<ToString(i - 1)>> \o p[1], p[2]>> \in Places[v]
         /\ v.t = "obj" => \A i \in DOMAIN v.pairs : \A p \in Places[v.pairs[i].v] :
                              <<<<v.pairs[i].k>> \o p[1], p[2]>> \in Places[v]
<1>1. Places[v] = PlacesOf(Places, v)
  BY PlacesIs
<1>2. ASSUME v.t = "arr", NEW i \in DOMAIN v.items, NEW p \in Places[v.items[i]]
      PROVE  <<<<ToString(i - 1)>> \o p[1], p[2]>> \in Places[v]
  <2>1. <<<<ToString(i - 1)>> \o p[1], p[2]>> \in Beneath(Places, ToString(i - 1), v.items[i])
    BY DEF Beneath
  <2>2. Beneath(Places, ToString(i - 1), v.items[i])
          \in {Beneath(Places, ToString(j - 1), v.items[j]) : j \in DOMAIN v.items}
    OBVIOUS
  <2> QED BY <1>1, <1>2, <2>1, <2>2 DEF PlacesOf
<1>3. ASSUME v.t = "obj", NEW i \in DOMAIN v.pairs, NEW p \in Places[v.pairs[i].v]
      PROVE  <<<<v.pairs[i].k>> \o p[1], p[2]>> \in Places[v]
  <2>1. <<<<v.pairs[i].k>> \o p[1], p[2]>> \in Beneath(Places, v.pairs[i].k, v.pairs[i].v)
    BY DEF Beneath
  <2>2. Beneath(Places, v.pairs[i].k, v.pairs[i].v)
          \in {Beneath(Places, v.pairs[j].k, v.pairs[j].v) : j \in DOMAIN v.pairs}
    OBVIOUS
  <2> QED BY <1>1, <1>3, <2>1, <2>2 DEF PlacesOf
<1> QED BY <1>1, <1>2, <1>3 DEF PlacesOf

LEMMA HasFacts ==
  ASSUME NEW v \in Universe, NEW kinds
  PROVE  /\ v.t \in kinds => Has(v, kinds)
         /\ \A x \in Members(v) : Has(x, kinds) => Has(v, kinds)
<1>1. v.t \in kinds => Has(v, kinds)
  BY PlacesFacts DEF Has
<1>2. ASSUME NEW x \in Members(v), Has(x, kinds) PROVE Has(v, kinds)
  <2>1. PICK p \in Places[x] : p[2].t \in kinds
    BY <1>2 DEF Has
  <2>2. CASE v.t = "arr"
    <3>1. PICK i \in DOMAIN v.items : x = v.items[i]
      BY <2>2 DEF Members
    <3>2. <<<<ToString(i - 1)>> \o p[1], p[2]>> \in Places[v]
      BY <2>1, <2>2, <3>1, PlacesFacts
    <3> QED BY <2>1, <3>2 DEF Has
  <2>3. CASE v.t = "obj"
    <3>1. PICK i \in DOMAIN v.pairs : x = v.pairs[i].v
      BY <2>3 DEF Members
    <3>2. <<<<v.pairs[i].k>> \o p[1], p[2]>> \in Places[v]
      BY <2>1, <2>3, <3>1, PlacesFacts
    <3> QED BY <2>1, <3>2 DEF Has
  <2> QED BY <1>2, <2>2, <2>3 DEF Members
<1> QED BY <1>1, <1>2

-----------------------------------------------------------------------------
(* Outcomes.  `Decides`: there is an outcome, and every one that is no      *)
(* death is nil exactly if b.  That errors are of a set G, and that one     *)
(* visit's errors are among another's, is said beside it.                   *)

Decides(O, b) == O # {} /\ \A o \in O : ~Dead(o) => (o = OK <=> b)
Held(o, P) == \E a \in P : Dead(a) \/ o \subseteq a
AmongThose(O, P) == \A o \in O : ~Dead(o) => Held(o, P)

LEMMA DeadFacts ==
  /\ ~Dead(OK)
  /\ Dead(Panic) /\ Dead(Overflow)
  /\ \A a, b : Dead(a \cup b) <=> Dead(a) \/ Dead(b)
  /\ \A a, b : a \subseteq b /\ Dead(a) => Dead(b)
BY DEF Dead, OK, Panic, Overflow

LEMMA DeadIs ==
  \A o : Dead(o) <=> Error("panic") \in o \/ Error("overflow") \in o
BY DEF Dead, Panic, Overflow

LEMMA ErrorFields ==
  \A f, g : Error(f) = Error(g) => f = g
BY DEF Error

LEMMA PicksFacts ==
  ASSUME NEW outs
  PROVE  /\ \A pick \in Picks(outs) :
               DOMAIN pick = DOMAIN outs /\ \A i \in DOMAIN outs : pick[i] \in outs[i]
         /\ \A f : (\A i \in DOMAIN outs : f[i] \in outs[i]) => [i \in DOMAIN outs |-> f[i]] \in Picks(outs)
<1>1. ASSUME NEW f, \A i \in DOMAIN outs : f[i] \in outs[i]
      PROVE  [i \in DOMAIN outs |-> f[i]] \in Picks(outs)
  <2>1. \A i \in DOMAIN outs : f[i] \in UNION {outs[j] : j \in DOMAIN outs}
    BY <1>1
  <2>2. [i \in DOMAIN outs |-> f[i]] \in [DOMAIN outs -> UNION {outs[i] : i \in DOMAIN outs}]
    BY <2>1
  <2> QED BY <1>1, <2>2 DEF Picks
<1> QED BY <1>1 DEF Picks

\* One outcome may be fixed and the others taken as they come.
LEMMA PickThrough ==
  ASSUME NEW outs, \A i \in DOMAIN outs : outs[i] # {}, NEW j \in DOMAIN outs, NEW o \in outs[j]
  PROVE  \E pick \in Picks(outs) : pick[j] = o
<1> DEFINE f == [i \in DOMAIN outs |-> IF i = j THEN o ELSE CHOOSE x \in outs[i] : TRUE]
<1>1. \A i \in DOMAIN outs : f[i] \in outs[i]
  OBVIOUS
<1>2. f = [i \in DOMAIN outs |-> f[i]] /\ f[j] = o
  OBVIOUS
<1>3. f \in Picks(outs)
  <2> HIDE DEF f
  <2> QED BY <1>1, <1>2, PicksFacts
<1> QED BY <1>2, <1>3

LEMMA PickExists ==
  ASSUME NEW outs, \A i \in DOMAIN outs : outs[i] # {}
  PROVE  Picks(outs) # {}
<1> DEFINE f == [i \in DOMAIN outs |-> CHOOSE x \in outs[i] : TRUE]
<1>1. \A i \in DOMAIN outs : f[i] \in outs[i]
  OBVIOUS
<1>2. f = [i \in DOMAIN outs |-> f[i]]
  OBVIOUS
<1>3. f \in Picks(outs)
  <2> HIDE DEF f
  <2> QED BY <1>1, <1>2, PicksFacts
<1> QED BY <1>3

-----------------------------------------------------------------------------
(* Reports.                                                                 *)

LEMMA ReportFacts ==
  ASSUME NEW n \in Nat, NEW checks, DOMAIN checks = 1..n, NEW mode \in Settings
  PROVE  /\ (\A i \in 1..n : ~checks[i][2]) => Report(mode, checks) = OK
         /\ Report(mode, checks) # OK =>
               \E i \in 1..n : /\ checks[i][2]
                               /\ \A j \in 1..(i - 1) : ~checks[j][2]
                               /\ Dead({checks[i][1]}) => Dead(Report(mode, checks))
                               /\ ~mode.multiError /\ ~mode.failfast => Report(mode, checks) = {checks[i][1]}
         /\ Report(mode, checks) = OK => \A i \in 1..n : ~checks[i][2]
         /\ Report(mode, checks) \subseteq {ErrSchema} \cup {checks[i][1] : i \in {j \in 1..n : checks[j][2]}}
         /\ mode.multiError /\ ~mode.failfast => 
               Dead(Report(mode, checks)) \/ Report(mode, checks) = {checks[i][1] : i \in {j \in 1..n : checks[j][2]}}
<1> DEFINE bad == {i \in 1..n : checks[i][2]}
<1>1. Violations(checks) = bad
  BY DEF Violations
<1>2. CASE bad = {}
  <2>1. Report(mode, checks) = OK
    BY <1>1, <1>2 DEF Report
  <2>2. \A i \in 1..n : ~checks[i][2]
    BY <1>2
  <2> QED BY <1>2, <2>1, <2>2 DEF OK
<1>3. CASE bad # {}
  <2>1. PICK i \in bad : i = Min(bad) /\ \A k \in bad : i <= k
    <3>1. bad \in SUBSET Nat
      OBVIOUS
    <3> HIDE DEF bad
    <3> QED BY <1>3, <3>1, MinFacts
  <2>2. i \in 1..n /\ checks[i][2] /\ \A j \in 1..(i - 1) : ~checks[j][2]
    <3>1. ASSUME NEW j \in 1..(i - 1), checks[j][2] PROVE FALSE
      <4>1. i \in Nat /\ j \in 1..n /\ ~(i <= j)
        OBVIOUS
      <4>2. j \in bad
        BY Zenon, <3>1, <4>1
      <4> QED BY <2>1, <4>1, <4>2
    <3>2. i \in 1..n /\ checks[i][2]
      BY Zenon
    <3> QED BY <3>1, <3>2
  <2>3. Report(mode, checks) =
          IF Dead({checks[i][1]}) THEN {checks[i][1]}
          ELSE IF mode.failfast THEN {ErrSchema}
          ELSE IF Collects(mode) THEN {checks[k][1] : k \in bad}
          ELSE {checks[i][1]}
    <3> HIDE DEF bad
    <3> QED BY <1>1, <1>3, <2>1 DEF Report
  <2>4. Report(mode, checks) # OK
    <3>1. i \in bad
      OBVIOUS
    <3> HIDE DEF bad
    <3> QED BY <2>3, <3>1 DEF OK
  <2>5. Report(mode, checks) \subseteq {ErrSchema} \cup {checks[k][1] : k \in bad}
    <3>1. i \in bad
      OBVIOUS
    <3> HIDE DEF bad
    <3> QED BY <2>3, <3>1
  <2>6. mode.multiError /\ ~mode.failfast => 
               Dead(Report(mode, checks)) \/ Report(mode, checks) = {checks[k][1] : k \in bad}
    <3> HIDE DEF bad
    <3> QED BY <2>3 DEF Collects
  <2>7. /\ Dead({checks[i][1]}) => Dead(Report(mode, checks))
        /\ ~mode.multiError /\ ~mode.failfast => Report(mode, checks) = {checks[i][1]}
    <3> HIDE DEF bad
    <3> QED BY <2>3 DEF Collects
  <2> QED BY <2>2, <2>4, <2>5, <2>6, <2>7
<1> QED BY <1>2, <1>3

LEMMA FailingFacts ==
  ASSUME NEW mode \in Settings, NEW f, f \notin {"panic", "overflow"}
  PROVE  /\ Failing(mode, f) # OK /\ ~Dead(Failing(mode, f))
         /\ Failing(mode, f) \subseteq {ErrSchema, Error(f)}
         /\ ~mode.failfast => Failing(mode, f) = {Error(f)}
<1> DEFINE checks == <<Check(f, TRUE)>>
<1>1. DOMAIN checks = {1} /\ checks[1][1] = Error(f) /\ checks[1][2]
  BY DEF Check
<1>2. Violations(checks) = {1}
  BY <1>1 DEF Violations
<1>3. Min({1}) = 1
  <2>1. Min({1}) \in {1}
    BY MinFacts
  <2> QED BY <2>1
<1>4. ~Dead({Error(f)})
  BY DEF Dead, Panic, Overflow, Error
<1>5. Report(mode, checks) = IF mode.failfast THEN {ErrSchema} ELSE {Error(f)}
  <2>1. {checks[i][1] : i \in {1}} = {Error(f)}
    BY <1>1
  <2> HIDE DEF checks
  <2> QED BY <1>1, <1>2, <1>3, <1>4, <2>1 DEF Report
<1>6. ~Dead({ErrSchema})
  BY DEF Dead, Panic, Overflow, Error, ErrSchema
<1>7. Failing(mode, f) = Report(mode, checks)
  BY DEF Failing
<1> QED BY <1>4, <1>5, <1>6, <1>7 DEF OK

-----------------------------------------------------------------------------
(* Rows of visits.                                                          *)

LEMMA ThenIs ==
  ASSUME NEW O, NEW P
  PROVE  /\ \A o \in Then(FALSE, O, P) : (o \in O /\ o # OK) \/ (OK \in O /\ o \in P)
         /\ \A o \in O : o # OK => o \in Then(FALSE, O, P)
         /\ OK \in O => \A o \in P : o \in Then(FALSE, O, P)
         /\ \A a \in O : \A b \in P : a \cup b \in Then(TRUE, O, P)
BY DEF Then

LEMMA ThenFacts ==
  ASSUME NEW O, NEW P, NEW collects \in BOOLEAN
  PROVE  /\ \A G : O \subseteq SUBSET G /\ P \subseteq SUBSET G => Then(collects, O, P) \subseteq SUBSET G
         /\ O # {} /\ P # {} => Then(collects, O, P) # {}
<1>1. ASSUME NEW G, O \subseteq SUBSET G, P \subseteq SUBSET G, NEW o \in Then(collects, O, P)
      PROVE  o \subseteq G
  <2>1. CASE collects = TRUE
    <3>1. o \in Then(TRUE, O, P)
      BY <1>1, <2>1
    <3>2. \E a \in O : \E b \in P : o = a \cup b
      BY <3>1 DEF Then
    <3> QED BY <1>1, <3>2
  <2>2. CASE collects = FALSE
    <3>1. o \in Then(FALSE, O, P)
      BY <1>1, <2>2
    <3>2. o \in O \/ o \in P
      BY <3>1, ThenIs
    <3> QED BY <1>1, <3>2
  <2> QED BY <2>1, <2>2
<1>2. ASSUME NEW a \in O, NEW b \in P PROVE Then(collects, O, P) # {}
  <2>1. CASE collects = TRUE
    <3>1. a \cup b \in Then(TRUE, O, P)
      BY <1>2, ThenIs
    <3> QED BY <2>1, <3>1
  <2>2. CASE collects = FALSE
    <3>1. a # OK => a \in Then(FALSE, O, P)
      BY <1>2, ThenIs
    <3>2. a = OK => b \in Then(FALSE, O, P)
      BY <1>2, ThenIs
    <3> QED BY <2>2, <3>1, <3>2
  <2> QED BY <2>1, <2>2
<1> QED BY <1>1, <1>2

LEMMA ThenDecides ==
  ASSUME NEW O, NEW P, NEW collects \in BOOLEAN, NEW a \in BOOLEAN, NEW b \in BOOLEAN,
         Decides(O, a), Decides(P, b)
  PROVE  Decides(Then(collects, O, P), a /\ b)
<1>1. Then(collects, O, P) # {}
  BY ThenFacts DEF Decides
<1>2. ASSUME NEW o \in Then(collects, O, P), ~Dead(o) PROVE o = OK <=> a /\ b
  <2>1. CASE collects = TRUE
    <3>0. o \in Then(TRUE, O, P)
      BY <1>2, <2>1
    <3>1. PICK x \in O : \E y \in P : o = x \cup y
      BY <3>0 DEF Then
    <3>a. PICK y \in P : o = x \cup y
      BY <3>1
    <3>2. ~Dead(x) /\ ~Dead(y)
      BY <1>2, <3>a, DeadFacts
    <3>3. o = OK <=> x = OK /\ y = OK
      BY <3>a DEF OK
    <3> QED BY <3>2, <3>3 DEF Decides
  <2>2. CASE collects = FALSE
    <3>0. o \in Then(FALSE, O, P)
      BY <1>2, <2>2
    <3>1. (o \in O /\ o # OK) \/ (OK \in O /\ o \in P)
      BY <3>0, ThenIs
    <3> QED BY <1>2, <3>1, DeadFacts DEF Decides
  <2> QED BY <2>1, <2>2
<1> QED BY <1>1, <1>2 DEF Decides

LEMMA OneDecides ==
  ASSUME NEW o, NEW b \in BOOLEAN, ~Dead(o) => (o = OK <=> b)
  PROVE  Decides({o}, b)
BY DEF Decides

-----------------------------------------------------------------------------
(* All.                                                                     *)

LEMMA AllFacts ==
  ASSUME NEW outs
  PROVE  /\ (\A i \in DOMAIN outs : outs[i] # {}) => All(outs) # {}
         /\ \A G : (\A i \in DOMAIN outs : outs[i] \subseteq SUBSET G) => All(outs) \subseteq SUBSET G
<1>1. ASSUME \A i \in DOMAIN outs : outs[i] # {} PROVE All(outs) # {}
  <2>1. PICK pick \in Picks(outs) : TRUE
    BY <1>1, PickExists
  <2>2. UNION {pick[i] : i \in DOMAIN outs} \in All(outs)
    BY <2>1 DEF All
  <2> QED BY <2>2
<1>2. ASSUME NEW G, \A i \in DOMAIN outs : outs[i] \subseteq SUBSET G, NEW o \in All(outs)
      PROVE  o \subseteq G
  <2>1. PICK pick \in Picks(outs) : o = UNION {pick[i] : i \in DOMAIN outs}
    BY DEF All
  <2>2. \A i \in DOMAIN outs : pick[i] \subseteq G
    BY <1>2, <2>1, PicksFacts
  <2> QED BY <2>1, <2>2
<1> QED BY <1>1, <1>2

LEMMA AllDecides ==
  ASSUME NEW outs, NEW Yes, \A i \in DOMAIN outs : Decides(outs[i], i \in Yes)
  PROVE  Decides(All(outs), \A i \in DOMAIN outs : i \in Yes)
<1>1. All(outs) # {}
  BY AllFacts DEF Decides
<1>2. ASSUME NEW o \in All(outs), ~Dead(o) PROVE o = OK <=> \A i \in DOMAIN outs : i \in Yes
  <2>1. PICK pick \in Picks(outs) : o = UNION {pick[i] : i \in DOMAIN outs}
    BY DEF All
  <2>2. \A i \in DOMAIN outs : pick[i] \in outs[i] /\ pick[i] \subseteq o
    BY <2>1, PicksFacts
  <2>3. \A i \in DOMAIN outs : ~Dead(pick[i])
    BY <1>2, <2>2, DeadFacts
  <2>4. \A i \in DOMAIN outs : pick[i] = OK <=> i \in Yes
    BY <2>2, <2>3 DEF Decides
  <2>5. o = OK <=> \A i \in DOMAIN outs : pick[i] = OK
    BY <2>1 DEF OK
  <2> QED BY <2>4, <2>5
<1> QED BY <1>1, <1>2 DEF Decides

\* What one of the visits comes to, is part of what all come to.
LEMMA AllHolds ==
  ASSUME NEW outs, \A i \in DOMAIN outs : outs[i] # {}, NEW j \in DOMAIN outs, NEW o \in outs[j]
  PROVE  \E a \in All(outs) : o \subseteq a
<1>1. PICK pick \in Picks(outs) : pick[j] = o
  BY PickThrough
<1> DEFINE a == UNION {pick[i] : i \in DOMAIN outs}
<1>2. a \in All(outs)
  BY DEF All
<1>3. o \subseteq a
  BY <1>1
<1> QED BY <1>2, <1>3

-----------------------------------------------------------------------------
(* InOrder and AnyOrder.                                                    *)

LEMMA OrderFacts ==
  ASSUME NEW outs, NEW o
  PROVE  /\ o \in InOrder(FALSE, outs) <=>
               \/ o # OK /\ \E i \in DOMAIN outs : o \in outs[i] /\ \A k \in 1..(i - 1) : OK \in outs[k]
               \/ o = OK /\ \A i \in DOMAIN outs : OK \in outs[i]
         /\ o \in AnyOrder(FALSE, outs) <=>
               \/ o # OK /\ \E i \in DOMAIN outs : o \in outs[i]
               \/ o = OK /\ \A i \in DOMAIN outs : OK \in outs[i]
         /\ InOrder(TRUE, outs) = All(outs) /\ AnyOrder(TRUE, outs) = All(outs)
<1> DEFINE A == UNION {outs[i] \ {OK} : i \in {j \in DOMAIN outs : \A k \in 1..(j - 1) : OK \in outs[k]}}
           B == UNION {outs[i] \ {OK} : i \in DOMAIN outs}
           C == NoneFails(outs)
<1>1. o \in C <=> o = OK /\ \A i \in DOMAIN outs : OK \in outs[i]
  BY DEF NoneFails
<1>2. o \in A <=> o # OK /\ \E i \in DOMAIN outs : o \in outs[i] /\ \A k \in 1..(i - 1) : OK \in outs[k]
  OBVIOUS
<1>3. o \in B <=> o # OK /\ \E i \in DOMAIN outs : o \in outs[i]
  OBVIOUS
<1>4. InOrder(FALSE, outs) = C \cup A
  BY Zenon DEF InOrder
<1>5. AnyOrder(FALSE, outs) = C \cup B
  BY Zenon DEF AnyOrder
<1>6. (o \in InOrder(FALSE, outs) <=> o \in A \/ o \in C) /\ (o \in AnyOrder(FALSE, outs) <=> o \in B \/ o \in C)
  <2> HIDE DEF A, B, C
  <2> QED BY <1>4, <1>5
<1>7. InOrder(TRUE, outs) = All(outs) /\ AnyOrder(TRUE, outs) = All(outs)
  BY DEF InOrder, AnyOrder
<1> HIDE DEF A, B, C
<1> QED BY Zenon, <1>1, <1>2, <1>3, <1>6, <1>7

LEMMA OrderWithin ==
  ASSUME NEW outs, NEW G, \A i \in DOMAIN outs : outs[i] \subseteq SUBSET G, NEW collects \in BOOLEAN
  PROVE  InOrder(collects, outs) \subseteq SUBSET G /\ AnyOrder(collects, outs) \subseteq SUBSET G
<1>1. CASE collects = TRUE
  <2>1. InOrder(collects, outs) = All(outs) /\ AnyOrder(collects, outs) = All(outs)
    BY <1>1, OrderFacts
  <2>2. All(outs) \subseteq SUBSET G
    BY AllFacts
  <2> QED BY <2>1, <2>2
<1>2. CASE collects = FALSE
  <2>1. \A o \in InOrder(FALSE, outs) : o \subseteq G
    <3>1. ASSUME NEW o, o \in InOrder(FALSE, outs) PROVE o = OK \/ \E i \in DOMAIN outs : o \in outs[i]
      <4>1. \/ o # OK /\ \E i \in DOMAIN outs : o \in outs[i] /\ \A k \in 1..(i - 1) : OK \in outs[k]
            \/ o = OK /\ \A i \in DOMAIN outs : OK \in outs[i]
        BY ONLY <3>1, OrderFacts, Zenon
      <4> QED BY <4>1
    <3> QED BY <3>1 DEF OK
  <2>2. \A o \in AnyOrder(FALSE, outs) : o \subseteq G
    BY OrderFacts DEF OK
  <2> QED BY <1>2, <2>1, <2>2
<1> QED BY <1>1, <1>2

\* The first of a row that is not sure to be nil.
LEMMA FirstDoubtful ==
  ASSUME NEW outs, NEW n \in Nat, DOMAIN outs = 1..n, ~\A i \in 1..n : OK \in outs[i]
  PROVE  \E i \in 1..n : OK \notin outs[i] /\ \A k \in 1..(i - 1) : OK \in outs[k]
<1> DEFINE T == {i \in 1..n : OK \notin outs[i]}
<1>1. T \in SUBSET Nat /\ T # {}
  OBVIOUS
<1>2. PICK m \in T : \A k \in T : m <= k
  <2> HIDE DEF T
  <2> QED BY <1>1, LeastOne
<1>3. ASSUME NEW k \in 1..(m - 1) PROVE OK \in outs[k]
  <2>1. k \in 1..n /\ ~(m <= k)
    BY <1>2
  <2> QED BY <1>2, <2>1
<1> QED BY <1>2, <1>3

LEMMA InOrderDecides ==
  ASSUME NEW outs, NEW n \in Nat, DOMAIN outs = 1..n, NEW Yes, NEW collects \in BOOLEAN,
         \A i \in DOMAIN outs : Decides(outs[i], i \in Yes)
  PROVE  Decides(InOrder(collects, outs), \A i \in DOMAIN outs : i \in Yes)
<1>1. CASE collects = TRUE
  BY <1>1, OrderFacts, AllDecides
<1>2. CASE collects = FALSE
  <2>1. InOrder(FALSE, outs) # {}
    <3>1. CASE \A i \in 1..n : OK \in outs[i]
      BY <3>1, OrderFacts
    <3>2. CASE ~\A i \in 1..n : OK \in outs[i]
      <4>1. PICK i \in 1..n : OK \notin outs[i] /\ \A k \in 1..(i - 1) : OK \in outs[k]
        BY <3>2, FirstDoubtful
      <4>2. PICK o \in outs[i] : TRUE
        BY DEF Decides
      <4>3. o \in InOrder(FALSE, outs)
        BY <4>1, <4>2, OrderFacts
      <4> QED BY <4>3
    <3> QED BY <3>1, <3>2
  <2>2. ASSUME NEW o \in InOrder(FALSE, outs), ~Dead(o) PROVE o = OK <=> \A i \in DOMAIN outs : i \in Yes
    BY <2>2, OrderFacts, DeadFacts DEF Decides
  <2> QED BY <1>2, <2>1, <2>2 DEF Decides
<1> QED BY <1>1, <1>2

LEMMA AnyOrderDecides ==
  ASSUME NEW outs, NEW Yes, NEW collects \in BOOLEAN,
         \A i \in DOMAIN outs : Decides(outs[i], i \in Yes)
  PROVE  Decides(AnyOrder(collects, outs), \A i \in DOMAIN outs : i \in Yes)
<1>1. CASE collects = TRUE
  BY <1>1, OrderFacts, AllDecides
<1>2. CASE collects = FALSE
  <2>1. AnyOrder(FALSE, outs) # {}
    <3>1. CASE \A i \in DOMAIN outs : OK \in outs[i]
      BY <3>1, OrderFacts
    <3>2. CASE ~\A i \in DOMAIN outs : OK \in outs[i]
      <4>1. PICK i \in DOMAIN outs : OK \notin outs[i]
        BY <3>2
      <4>2. PICK o \in outs[i] : TRUE
        BY DEF Decides
      <4>3. o \in AnyOrder(FALSE, outs)
        BY <4>1, <4>2, OrderFacts
      <4> QED BY <4>3
    <3> QED BY <3>1, <3>2
  <2>2. ASSUME NEW o \in AnyOrder(FALSE, outs), ~Dead(o) PROVE o = OK <=> \A i \in DOMAIN outs : i \in Yes
    BY <2>2, OrderFacts, DeadFacts DEF Decides
  <2> QED BY <1>2, <2>1, <2>2 DEF Decides
<1> QED BY <1>1, <1>2

-----------------------------------------------------------------------------
(* Rows in which a death ends it all.                                       *)

LEMMA SurvivingFacts ==
  ASSUME NEW pick, DOMAIN pick \in SUBSET Nat, NEW o
  PROVE  /\ (\A i \in DOMAIN pick : ~Dead(pick[i])) => Surviving(pick, o) = o
         /\ (\E i \in DOMAIN pick : Dead(pick[i])) =>
               \E i \in DOMAIN pick : Dead(pick[i]) /\ Surviving(pick, o) = pick[i]
<1> DEFINE dead == {i \in DOMAIN pick : Dead(pick[i])}
<1>1. Surviving(pick, o) = IF dead = {} THEN o ELSE pick[Min(dead)]
  BY DEF Surviving
<1>2. CASE dead = {}
  BY <1>1, <1>2
<1>3. CASE dead # {}
  <2>1. Min(dead) \in dead
    <3>1. dead \in SUBSET Nat
      OBVIOUS
    <3> HIDE DEF dead
    <3> QED BY <1>3, <3>1, MinFacts
  <2> QED BY <1>1, <1>3, <2>1
<1> QED BY <1>2, <1>3

LEMMA LastWinsIs ==
  ASSUME NEW n \in Nat, NEW outs, DOMAIN outs = 1..n, NEW o \in LastWins(outs)
  PROVE  \E pick \in Picks(outs) :
            \/ \E i \in 1..n : o = pick[i] /\ (Dead(o) \/ (o # OK /\ \A j \in 1..n : ~Dead(pick[j])))
            \/ o = OK /\ \A i \in 1..n : pick[i] = OK
<1> DEFINE Errs(pick) == {i \in DOMAIN pick : pick[i] # OK}
           Left(pick) == IF Errs(pick) = {} THEN OK ELSE pick[Max(Errs(pick))]
<1>1. PICK pick \in Picks(outs) : o = Surviving(pick, Left(pick))
  BY DEF LastWins
<1>2. DOMAIN pick = 1..n /\ 1..n \in SUBSET Nat
  BY PicksFacts
<1>3. CASE \E i \in DOMAIN pick : Dead(pick[i])
  <2>1. PICK left : left = Left(pick)
    OBVIOUS
  <2>2. \E i \in DOMAIN pick : Dead(pick[i]) /\ Surviving(pick, left) = pick[i]
    BY <1>2, <1>3, SurvivingFacts
  <2>3. o = Surviving(pick, left)
    BY <1>1, <2>1
  <2> QED BY <1>2, <2>2, <2>3
<1>4. CASE \A i \in DOMAIN pick : ~Dead(pick[i])
  <2>1. o = Left(pick)
    <3> HIDE DEF Left
    <3> QED BY <1>1, <1>2, <1>4, SurvivingFacts
  <2>2. CASE Errs(pick) = {}
    BY <1>2, <2>1, <2>2
  <2>3. CASE Errs(pick) # {}
    <3>1. Max(Errs(pick)) \in Errs(pick)
      <4>1. Errs(pick) \in SUBSET (1..n)
        BY <1>2
      <4> HIDE DEF Errs
      <4> QED BY <2>3, <4>1, MaxFacts
    <3>2. Max(Errs(pick)) \in 1..n /\ o = pick[Max(Errs(pick))] /\ o # OK
      BY <1>2, <2>1, <2>3, <3>1
    <3> QED BY <1>2, <1>4, <3>2
  <2> QED BY <2>2, <2>3
<1> QED BY <1>3, <1>4

LEMMA LastWinsFacts ==
  ASSUME NEW n \in Nat, NEW outs, DOMAIN outs = 1..n
  PROVE  /\ (\A i \in 1..n : outs[i] # {}) => LastWins(outs) # {}
         /\ \A G : (\A i \in 1..n : outs[i] \subseteq SUBSET G) => LastWins(outs) \subseteq SUBSET G
<1>1. ASSUME \A i \in 1..n : outs[i] # {} PROVE LastWins(outs) # {}
  <2>1. PICK pick \in Picks(outs) : TRUE
    BY <1>1, PickExists
  <2> DEFINE left(p) == LET errs == {i \in DOMAIN p : p[i] # OK}
                        IN  IF errs = {} THEN OK ELSE p[Max(errs)]
  <2>2. LastWins(outs) = {Surviving(p, left(p)) : p \in Picks(outs)}
    BY DEF LastWins
  <2>3. Surviving(pick, left(pick)) \in LastWins(outs)
    <3> HIDE DEF left
    <3> QED BY <2>1, <2>2
  <2> QED BY <2>3
<1>2. ASSUME NEW G, \A i \in 1..n : outs[i] \subseteq SUBSET G, NEW o \in LastWins(outs) PROVE o \subseteq G
  <2>1. PICK pick \in Picks(outs) : o = OK \/ \E i \in 1..n : o = pick[i]
    BY LastWinsIs
  <2>2. \A i \in 1..n : pick[i] \in outs[i]
    BY PicksFacts
  <2> QED BY <1>2, <2>1, <2>2 DEF OK
<1> QED BY <1>1, <1>2

LEMMA LastWinsDecides ==
  ASSUME NEW n \in Nat, NEW outs, DOMAIN outs = 1..n, NEW Yes,
         \A i \in DOMAIN outs : Decides(outs[i], i \in Yes)
  PROVE  Decides(LastWins(outs), \A i \in DOMAIN outs : i \in Yes)
<1>1. LastWins(outs) # {}
  BY LastWinsFacts DEF Decides
<1>2. ASSUME NEW o \in LastWins(outs), ~Dead(o) PROVE o = OK <=> \A i \in DOMAIN outs : i \in Yes
  <2>1. PICK pick \in Picks(outs) :
            \/ \E i \in 1..n : o = pick[i] /\ (Dead(o) \/ (o # OK /\ \A j \in 1..n : ~Dead(pick[j])))
            \/ o = OK /\ \A i \in 1..n : pick[i] = OK
    BY LastWinsIs
  <2>2. \A i \in 1..n : pick[i] \in outs[i]
    BY PicksFacts
  <2>3. CASE o = OK /\ \A i \in 1..n : pick[i] = OK
    BY <2>2, <2>3, DeadFacts DEF Decides
  <2>4. CASE \E i \in 1..n : o = pick[i] /\ o # OK
    <3>1. PICK i \in 1..n : o = pick[i] /\ o # OK
      BY <2>4
    <3>2. i \notin Yes
      BY <1>2, <2>2, <3>1 DEF Decides
    <3> QED BY <3>1, <3>2
  <2> QED BY <1>2, <2>1, <2>3, <2>4
<1> QED BY <1>1, <1>2 DEF Decides

-----------------------------------------------------------------------------
(* oneOf and anyOf.                                                         *)

OneOfResult(pick, mode) == OneOfOutcome(Cardinality({i \in DOMAIN pick : pick[i] = OK}), mode)

LEMMA OneOfIs ==
  ASSUME NEW n \in Nat, NEW outs, DOMAIN outs = 1..n, NEW mode, NEW o \in OneOf(outs, mode)
  PROVE  \E pick \in Picks(outs) :
            \/ Dead(o) /\ \E i \in 1..n : o = pick[i]
            \/ (\A i \in 1..n : ~Dead(pick[i])) /\ o = OneOfResult(pick, mode)
<1>1. OneOf(outs, mode) = {Surviving(pick, OneOfResult(pick, mode)) : pick \in Picks(outs)}
  BY DEF OneOf, OneOfResult
<1>2. ASSUME NEW pick \in Picks(outs)
      PROVE  /\ (\A i \in 1..n : ~Dead(pick[i])) => Surviving(pick, OneOfResult(pick, mode)) = OneOfResult(pick, mode)
             /\ (\E i \in 1..n : Dead(pick[i])) =>
                   \E i \in 1..n : Dead(pick[i]) /\ Surviving(pick, OneOfResult(pick, mode)) = pick[i]
  <2>1. DOMAIN pick = 1..n /\ 1..n \in SUBSET Nat
    BY PicksFacts
  <2> QED BY <2>1, SurvivingFacts
<1>3. PICK pick \in Picks(outs) : o = Surviving(pick, OneOfResult(pick, mode))
  BY <1>1
<1> QED BY <1>2, <1>3

LEMMA OneOfGives ==
  ASSUME NEW n \in Nat, NEW outs, DOMAIN outs = 1..n, NEW mode, NEW pick \in Picks(outs)
  PROVE  \E o \in OneOf(outs, mode) :
            IF \A i \in 1..n : ~Dead(pick[i]) THEN o = OneOfResult(pick, mode) ELSE Dead(o)
<1>1. OneOf(outs, mode) = {Surviving(row, OneOfResult(row, mode)) : row \in Picks(outs)}
  BY DEF OneOf, OneOfResult
<1>2. /\ (\A i \in 1..n : ~Dead(pick[i])) => Surviving(pick, OneOfResult(pick, mode)) = OneOfResult(pick, mode)
      /\ (\E i \in 1..n : Dead(pick[i])) =>
            \E i \in 1..n : Dead(pick[i]) /\ Surviving(pick, OneOfResult(pick, mode)) = pick[i]
  <2>1. DOMAIN pick = 1..n /\ 1..n \in SUBSET Nat
    BY PicksFacts
  <2> QED BY <2>1, SurvivingFacts
<1>3. Surviving(pick, OneOfResult(pick, mode)) \in OneOf(outs, mode)
  BY <1>1
<1> QED BY <1>2, <1>3

LEMMA OneOfOutcomeFacts ==
  ASSUME NEW n, NEW mode \in Settings
  PROVE  /\ OneOfOutcome(n, mode) = OK <=> n = 1
         /\ ~Dead(OneOfOutcome(n, mode))
         /\ OneOfOutcome(n, mode) \subseteq {ErrSchema, Error("oneOf"), Error("oneOf conflict")}
         /\ \A other \in Settings : ~mode.failfast /\ ~other.failfast =>
               OneOfOutcome(n, mode) = OneOfOutcome(n, other)
<1>1. "oneOf" \notin {"panic", "overflow"} /\ "oneOf conflict" \notin {"panic", "overflow"}
  OBVIOUS
<1>2. \A f \in {"oneOf", "oneOf conflict"}, m \in Settings :
         /\ Failing(m, f) # OK /\ ~Dead(Failing(m, f))
         /\ Failing(m, f) \subseteq {ErrSchema, Error(f)}
         /\ ~m.failfast => Failing(m, f) = {Error(f)}
  BY <1>1, FailingFacts
<1>3. CASE n = 1
  BY <1>3, DeadFacts DEF OneOfOutcome, OK
<1>4. CASE n # 1
  <2>1. PICK f \in {"oneOf", "oneOf conflict"} : \A m : OneOfOutcome(n, m) = Failing(m, f)
    BY <1>4 DEF OneOfOutcome
  <2>2. /\ Failing(mode, f) # OK /\ ~Dead(Failing(mode, f))
        /\ Failing(mode, f) \subseteq {ErrSchema, Error(f)}
    BY <1>2
  <2>3. OneOfOutcome(n, mode) # OK /\ ~Dead(OneOfOutcome(n, mode))
    BY <2>1, <2>2
  <2>4. OneOfOutcome(n, mode) \subseteq {ErrSchema, Error("oneOf"), Error("oneOf conflict")}
    <3>1. PICK r : r = OneOfOutcome(n, mode)
      OBVIOUS
    <3>2. r \subseteq {ErrSchema, Error(f)}
      BY <2>1, <2>2, <3>1
    <3>3. {ErrSchema, Error(f)} \subseteq {ErrSchema, Error("oneOf"), Error("oneOf conflict")}
      OBVIOUS
    <3>4. r \subseteq {ErrSchema, Error("oneOf"), Error("oneOf conflict")}
      BY <3>2, <3>3
    <3> QED BY <3>1, <3>4
  <2>5. ASSUME NEW other \in Settings, ~mode.failfast, ~other.failfast
        PROVE  OneOfOutcome(n, mode) = OneOfOutcome(n, other)
    BY <1>2, <2>1, <2>5
  <2> QED BY <1>4, <2>3, <2>4, <2>5
<1> QED BY <1>3, <1>4

LEMMA OneOfDecides ==
  ASSUME NEW n \in Nat, NEW outs, DOMAIN outs = 1..n, NEW Yes, NEW mode \in Settings,
         \A i \in 1..n : Decides(outs[i], i \in Yes)
  PROVE  Decides(OneOf(outs, mode), Cardinality({i \in 1..n : i \in Yes}) = 1)
<1>1. OneOf(outs, mode) # {}
  <2>1. PICK pick \in Picks(outs) : TRUE
    BY PickExists DEF Decides
  <2> QED BY <2>1, OneOfGives
<1>2. ASSUME NEW o \in OneOf(outs, mode), ~Dead(o) PROVE o = OK <=> Cardinality({i \in 1..n : i \in Yes}) = 1
  <2>1. PICK pick \in Picks(outs) : (\A i \in 1..n : ~Dead(pick[i])) /\ o = OneOfResult(pick, mode)
    BY <1>2, OneOfIs
  <2>2. DOMAIN pick = 1..n /\ \A i \in 1..n : pick[i] \in outs[i]
    BY PicksFacts
  <2>3. {i \in DOMAIN pick : pick[i] = OK} = {i \in 1..n : i \in Yes}
    BY <2>1, <2>2 DEF Decides
  <2> QED BY <2>1, <2>3, OneOfOutcomeFacts DEF OneOfResult
<1> QED BY <1>1, <1>2 DEF Decides

LEMMA OneOfWithin ==
  ASSUME NEW n \in Nat, NEW outs, DOMAIN outs = 1..n, NEW mode \in Settings, NEW o \in OneOf(outs, mode)
  PROVE  (\E i \in 1..n : o \in outs[i]) \/ o \subseteq {ErrSchema, Error("oneOf"), Error("oneOf conflict")}
<1>1. PICK pick \in Picks(outs) :
               \/ Dead(o) /\ \E i \in 1..n : o = pick[i]
               \/ (\A i \in 1..n : ~Dead(pick[i])) /\ o = OneOfResult(pick, mode)
  BY OneOfIs
<1>2. \A i \in 1..n : pick[i] \in outs[i]
  BY PicksFacts
<1>3. CASE \E i \in 1..n : o = pick[i]
  BY <1>2, <1>3
<1>4. CASE o = OneOfResult(pick, mode)
  <2>1. PICK c : c = Cardinality({i \in DOMAIN pick : pick[i] = OK})
    OBVIOUS
  <2>2. o = OneOfOutcome(c, mode)
    BY <1>4, <2>1 DEF OneOfResult
  <2>3. o \subseteq {ErrSchema, Error("oneOf"), Error("oneOf conflict")}
    BY <2>2, OneOfOutcomeFacts
  <2> QED BY <2>3
<1> QED BY <1>1, <1>3, <1>4

Tried(pick) == {i \in DOMAIN pick : \A j \in 1..(i - 1) : pick[j] # OK}
AnyOfResult(pick, mode) == IF \E i \in DOMAIN pick : pick[i] = OK THEN OK ELSE Failing(mode, "anyOf")

LEMMA AnyOfIs ==
  ASSUME NEW n \in Nat, NEW outs, DOMAIN outs = 1..n, NEW mode, NEW o \in AnyOf(outs, mode)
  PROVE  \E pick \in Picks(outs) :
            \/ Dead(o) /\ \E i \in 1..n : o = pick[i]
            \/ (\A i \in Tried(pick) : ~Dead(pick[i])) /\ o = AnyOfResult(pick, mode)
<1> DEFINE Row(pick) == [i \in Tried(pick) |-> pick[i]]
<1>1. AnyOf(outs, mode) = {Surviving(Row(pick), AnyOfResult(pick, mode)) : pick \in Picks(outs)}
  BY DEF AnyOf, AnyOfResult, Tried
<1>2. ASSUME NEW pick \in Picks(outs)
      PROVE  /\ (\A i \in Tried(pick) : ~Dead(pick[i])) => Surviving(Row(pick), AnyOfResult(pick, mode)) = AnyOfResult(pick, mode)
             /\ (\E i \in Tried(pick) : Dead(pick[i])) =>
                   \E i \in 1..n : Dead(pick[i]) /\ Surviving(Row(pick), AnyOfResult(pick, mode)) = pick[i]
  <2>1. DOMAIN pick = 1..n
    BY PicksFacts
  <2>2. DOMAIN Row(pick) = Tried(pick) /\ Tried(pick) \subseteq 1..n /\ Tried(pick) \in SUBSET Nat
        /\ \A i \in Tried(pick) : Row(pick)[i] = pick[i]
    BY <2>1 DEF Tried
  <2> HIDE DEF Row
  <2> QED BY <2>1, <2>2, SurvivingFacts
<1> HIDE DEF Row
<1>3. PICK pick \in Picks(outs) : o = Surviving(Row(pick), AnyOfResult(pick, mode))
  BY <1>1
<1> QED BY <1>2, <1>3

LEMMA AnyOfGives ==
  ASSUME NEW n \in Nat, NEW outs, DOMAIN outs = 1..n, NEW mode, NEW pick \in Picks(outs)
  PROVE  \E o \in AnyOf(outs, mode) :
            IF \A i \in Tried(pick) : ~Dead(pick[i]) THEN o = AnyOfResult(pick, mode) ELSE Dead(o)
<1> DEFINE Row(row) == [i \in Tried(row) |-> row[i]]
<1>1. AnyOf(outs, mode) = {Surviving(Row(row), AnyOfResult(row, mode)) : row \in Picks(outs)}
  BY DEF AnyOf, AnyOfResult, Tried
<1>2. /\ (\A i \in Tried(pick) : ~Dead(pick[i])) => Surviving(Row(pick), AnyOfResult(pick, mode)) = AnyOfResult(pick, mode)
      /\ (\E i \in Tried(pick) : Dead(pick[i])) =>
            \E i \in 1..n : Dead(pick[i]) /\ Surviving(Row(pick), AnyOfResult(pick, mode)) = pick[i]
  <2>1. DOMAIN pick = 1..n
    BY PicksFacts
  <2>2. DOMAIN Row(pick) = Tried(pick) /\ Tried(pick) \subseteq 1..n /\ Tried(pick) \in SUBSET Nat
        /\ \A i \in Tried(pick) : Row(pick)[i] = pick[i]
    BY <2>1 DEF Tried
  <2> HIDE DEF Row
  <2> QED BY <2>1, <2>2, SurvivingFacts
<1> HIDE DEF Row
<1>3. Surviving(Row(pick), AnyOfResult(pick, mode)) \in AnyOf(outs, mode)
  BY <1>1
<1> QED BY <1>2, <1>3

\* If none accepts, all were tried.
LEMMA AnyOfAlive ==
  ASSUME NEW n \in Nat, NEW outs, DOMAIN outs = 1..n, NEW Yes,
         \A i \in 1..n : Decides(outs[i], i \in Yes),
         NEW pick \in Picks(outs), \A i \in Tried(pick) : ~Dead(pick[i])
  PROVE  (\E i \in DOMAIN pick : pick[i] = OK) <=> (\E i \in 1..n : i \in Yes)
<1>1. DOMAIN pick = 1..n /\ \A i \in 1..n : pick[i] \in outs[i]
  BY PicksFacts
<1>2. CASE \E i \in 1..n : pick[i] = OK
  BY <1>1, <1>2, DeadFacts DEF Decides
<1>3. CASE \A i \in 1..n : pick[i] # OK
  <2>1. ASSUME NEW i \in 1..n PROVE i \in Tried(pick)
    <3>1. \A j \in 1..(i - 1) : j \in 1..n
      OBVIOUS
    <3> QED BY <1>1, <1>3, <3>1 DEF Tried
  <2> QED BY <1>1, <1>3, <2>1 DEF Decides
<1> QED BY <1>2, <1>3

LEMMA AnyOfDecides ==
  ASSUME NEW n \in Nat, NEW outs, DOMAIN outs = 1..n, NEW Yes, NEW mode \in Settings,
         \A i \in 1..n : Decides(outs[i], i \in Yes)
  PROVE  Decides(AnyOf(outs, mode), \E i \in 1..n : i \in Yes)
<1>1. AnyOf(outs, mode) # {}
  <2>1. PICK pick \in Picks(outs) : TRUE
    BY PickExists DEF Decides
  <2> QED BY <2>1, AnyOfGives
<1>2. ASSUME NEW o \in AnyOf(outs, mode), ~Dead(o) PROVE o = OK <=> \E i \in 1..n : i \in Yes
  <2>1. PICK pick \in Picks(outs) : (\A i \in Tried(pick) : ~Dead(pick[i])) /\ o = AnyOfResult(pick, mode)
    BY <1>2, AnyOfIs
  <2>2. (\E i \in DOMAIN pick : pick[i] = OK) <=> (\E i \in 1..n : i \in Yes)
    BY <2>1, AnyOfAlive
  <2>3. Failing(mode, "anyOf") # OK
    BY FailingFacts
  <2> QED BY <2>1, <2>2, <2>3 DEF AnyOfResult
<1> QED BY <1>1, <1>2 DEF Decides

LEMMA AnyOfWithin ==
  ASSUME NEW n \in Nat, NEW outs, DOMAIN outs = 1..n, NEW mode \in Settings, NEW o \in AnyOf(outs, mode)
  PROVE  (\E i \in 1..n : o \in outs[i]) \/ o \subseteq {ErrSchema, Error("anyOf")}
<1>1. PICK pick \in Picks(outs) :
               \/ Dead(o) /\ \E i \in 1..n : o = pick[i]
               \/ (\A i \in Tried(pick) : ~Dead(pick[i])) /\ o = AnyOfResult(pick, mode)
  BY AnyOfIs
<1>2. \A i \in 1..n : pick[i] \in outs[i]
  BY PicksFacts
<1>3. CASE \E i \in 1..n : o = pick[i]
  BY <1>2, <1>3
<1>4. CASE o = AnyOfResult(pick, mode)
  <2>1. Failing(mode, "anyOf") \subseteq {ErrSchema, Error("anyOf")}
    BY FailingFacts
  <2>2. o = OK \/ o = Failing(mode, "anyOf")
    BY <1>4 DEF AnyOfResult
  <2> QED BY <2>1, <2>2 DEF OK
<1> QED BY <1>1, <1>3, <1>4

LEMMA ThenElements ==
  ASSUME NEW O, NEW P, NEW o \in Then(FALSE, O, P)
  PROVE  (o \in O /\ o # OK) \/ (OK \in O /\ o \in P)
BY ThenIs

LEMMA InOrderElements ==
  ASSUME NEW outs, NEW o \in InOrder(FALSE, outs)
  PROVE  \/ o # OK /\ \E i \in DOMAIN outs : o \in outs[i] /\ \A k \in 1..(i - 1) : OK \in outs[k]
         \/ o = OK /\ \A i \in DOMAIN outs : OK \in outs[i]
BY OrderFacts

LEMMA AnyOrderElements ==
  ASSUME NEW outs, NEW o \in AnyOrder(FALSE, outs)
  PROVE  \/ o # OK /\ \E i \in DOMAIN outs : o \in outs[i]
         \/ o = OK /\ \A i \in DOMAIN outs : OK \in outs[i]
BY OrderFacts

-----------------------------------------------------------------------------
(* The errors of single mode are among those of multi-error mode.           *)

LEMMA AmongSelf ==
  ASSUME NEW O
  PROVE  AmongThose(O, O)
BY DEF AmongThose, Held

LEMMA AmongOne ==
  ASSUME NEW o, NEW p, o \subseteq p
  PROVE  AmongThose({o}, {p})
<1>1. Held(o, {p})
  BY DEF Held
<1> QED BY <1>1 DEF AmongThose

LEMMA ThenAmong ==
  ASSUME NEW O, NEW P, NEW O2, NEW P2, NEW a \in BOOLEAN, Decides(O, a), Decides(O2, a), P2 # {},
         AmongThose(O, O2), AmongThose(P, P2)
  PROVE  AmongThose(Then(FALSE, O, P), Then(FALSE, O2, P2))
<1>1. ASSUME NEW o \in Then(FALSE, O, P), ~Dead(o)
      PROVE  Held(o, Then(FALSE, O2, P2))
  <2>1. CASE o \in O /\ o # OK
    <3>1. PICK x \in O2 : Dead(x) \/ o \subseteq x
      BY <1>1, <2>1 DEF AmongThose, Held
    <3>2. x # OK
      BY <2>1, <3>1, DeadFacts DEF OK
    <3>3. x \in Then(FALSE, O2, P2)
      BY <3>2, ThenIs
    <3> QED BY <3>1, <3>3 DEF Held
  <2>2. CASE OK \in O /\ o \in P
    <3>1. a
      BY <2>2, DeadFacts DEF Decides
    <3>2. PICK x \in O2 : TRUE
      BY DEF Decides
    <3>3. CASE Dead(x)
      <4>1. x \in Then(FALSE, O2, P2)
        BY <3>3, ThenIs, DeadFacts
      <4> QED BY <3>3, <4>1 DEF Held
    <3>4. CASE ~Dead(x)
      <4>1. x = OK
        BY <3>1, <3>4 DEF Decides
      <4>2. PICK y \in P2 : Dead(y) \/ o \subseteq y
        BY <1>1, <2>2 DEF AmongThose, Held
      <4>3. y \in Then(FALSE, O2, P2)
        BY <4>1, ThenIs
      <4> QED BY <4>2, <4>3 DEF Held
    <3> QED BY <3>3, <3>4 DEF Held
  <2>3. (o \in O /\ o # OK) \/ (OK \in O /\ o \in P)
    BY <1>1, ThenElements
  <2> QED BY <2>1, <2>2, <2>3
<1> QED BY <1>1 DEF AmongThose

LEMMA ThenAmongAll ==
  ASSUME NEW O, NEW P, NEW O2, NEW P2, O2 # {}, P2 # {}, AmongThose(O, O2), AmongThose(P, P2)
  PROVE  AmongThose(Then(FALSE, O, P), Then(TRUE, O2, P2))
<1>1. ASSUME NEW o \in Then(FALSE, O, P), ~Dead(o)
      PROVE  Held(o, Then(TRUE, O2, P2))
  <2>1. CASE o \in O
    <3>1. PICK x \in O2 : Dead(x) \/ o \subseteq x
      BY <1>1, <2>1 DEF AmongThose, Held
    <3>2. PICK y \in P2 : TRUE
      OBVIOUS
    <3>3. x \cup y \in Then(TRUE, O2, P2)
      BY ThenIs
    <3>4. Dead(x \cup y) \/ o \subseteq x \cup y
      BY <3>1, DeadFacts
    <3> QED BY <3>3, <3>4 DEF Held
  <2>2. CASE o \in P
    <3>1. PICK y \in P2 : Dead(y) \/ o \subseteq y
      BY <1>1, <2>2 DEF AmongThose, Held
    <3>2. PICK x \in O2 : TRUE
      OBVIOUS
    <3>3. x \cup y \in Then(TRUE, O2, P2)
      BY ThenIs
    <3>4. Dead(x \cup y) \/ o \subseteq x \cup y
      BY <3>1, DeadFacts
    <3> QED BY <3>3, <3>4 DEF Held
  <2>3. (o \in O /\ o # OK) \/ (OK \in O /\ o \in P)
    BY <1>1, ThenElements
  <2> QED BY <2>1, <2>2, <2>3
<1> QED BY <1>1 DEF AmongThose

LEMMA AmongAll ==
  ASSUME NEW outs, NEW outs2, DOMAIN outs2 = DOMAIN outs,
         \A i \in DOMAIN outs : outs2[i] # {} /\ AmongThose(outs[i], outs2[i]),
         NEW o, ~Dead(o), o = OK \/ \E i \in DOMAIN outs : o \in outs[i]
  PROVE  Held(o, All(outs2))
<1>1. CASE o = OK
  <2>1. PICK x \in All(outs2) : TRUE
    BY AllFacts
  <2> QED BY <1>1, <2>1 DEF OK, Held
<1>2. CASE \E i \in DOMAIN outs : o \in outs[i]
  <2>1. PICK i \in DOMAIN outs : o \in outs[i]
    BY <1>2
  <2>2. PICK y \in outs2[i] : Dead(y) \/ o \subseteq y
    BY <2>1 DEF AmongThose, Held
  <2>3. PICK x \in All(outs2) : y \subseteq x
    BY AllHolds
  <2>4. Dead(x) \/ o \subseteq x
    BY <2>2, <2>3, DeadFacts
  <2> QED BY <2>4 DEF Held
<1> QED BY <1>1, <1>2

LEMMA RowsAmongAll ==
  ASSUME NEW n \in Nat, NEW outs, NEW outs2, DOMAIN outs = 1..n, DOMAIN outs2 = 1..n,
         \A i \in 1..n : outs2[i] # {} /\ AmongThose(outs[i], outs2[i])
  PROVE  /\ AmongThose(InOrder(FALSE, outs), All(outs2))
         /\ AmongThose(AnyOrder(FALSE, outs), All(outs2))
         /\ AmongThose(LastWins(outs), All(outs2))
<1>1. ASSUME NEW o, ~Dead(o), o = OK \/ \E i \in DOMAIN outs : o \in outs[i]
      PROVE  Held(o, All(outs2))
  <2>1. DOMAIN outs2 = DOMAIN outs /\ \A i \in DOMAIN outs : outs2[i] # {} /\ AmongThose(outs[i], outs2[i])
    OBVIOUS
  <2> QED BY <1>1, <2>1, AmongAll
<1>2. \A o \in InOrder(FALSE, outs) : o = OK \/ \E i \in DOMAIN outs : o \in outs[i]
  BY InOrderElements
<1>3. \A o \in AnyOrder(FALSE, outs) : o = OK \/ \E i \in DOMAIN outs : o \in outs[i]
  BY AnyOrderElements
<1>4. ASSUME NEW o \in LastWins(outs) PROVE o = OK \/ \E i \in DOMAIN outs : o \in outs[i]
  <2>1. PICK pick \in Picks(outs) : o = OK \/ \E i \in 1..n : o = pick[i]
    BY LastWinsIs
  <2> QED BY <2>1, PicksFacts
<1> QED BY <1>1, <1>2, <1>3, <1>4 DEF AmongThose

LEMMA InOrderAmong ==
  ASSUME NEW n \in Nat, NEW outs, NEW outs2, DOMAIN outs = 1..n, DOMAIN outs2 = 1..n, NEW Yes,
         \A i \in 1..n : /\ Decides(outs[i], i \in Yes) /\ Decides(outs2[i], i \in Yes)
                         /\ AmongThose(outs[i], outs2[i])
  PROVE  AmongThose(InOrder(FALSE, outs), InOrder(FALSE, outs2))
<1>1. ASSUME NEW o \in InOrder(FALSE, outs), ~Dead(o), NEW m \in 1..n,
             \A k \in 1..(m - 1) : OK \in outs2[k], OK \notin outs2[m],
             OK \in outs[m]
      PROVE  \E x \in InOrder(FALSE, outs2) : Dead(x)
  <2>1. PICK x \in outs2[m] : TRUE
    BY DEF Decides
  <2>2. m \in Yes
    BY <1>1, DeadFacts DEF Decides
  <2>3. Dead(x) /\ x # OK
    BY <1>1, <2>1, <2>2 DEF Decides
  <2>4. x \in InOrder(FALSE, outs2)
    BY <1>1, <2>1, <2>3, OrderFacts
  <2> QED BY <2>3, <2>4
<1>2. ASSUME NEW o \in InOrder(FALSE, outs), ~Dead(o)
      PROVE  Held(o, InOrder(FALSE, outs2))
  <2>1. CASE o = OK /\ \A i \in DOMAIN outs : OK \in outs[i]
    <3>1. CASE \A i \in 1..n : OK \in outs2[i]
      <4>1. OK \in InOrder(FALSE, outs2)
        BY <3>1, OrderFacts
      <4> QED BY <2>1, <4>1 DEF Held
    <3>2. CASE ~\A i \in 1..n : OK \in outs2[i]
      <4>1. PICK m \in 1..n : OK \notin outs2[m] /\ \A k \in 1..(m - 1) : OK \in outs2[k]
        BY <3>2, FirstDoubtful
      <4> QED BY <1>1, <1>2, <2>1, <4>1 DEF Held
    <3> QED BY <3>1, <3>2 DEF Held
  <2>2. CASE o # OK /\ \E i \in DOMAIN outs : o \in outs[i] /\ \A k \in 1..(i - 1) : OK \in outs[k]
    <3>1. PICK i \in 1..n : o \in outs[i] /\ \A k \in 1..(i - 1) : OK \in outs[k]
      BY <2>2
    <3>2. CASE \A k \in 1..(i - 1) : OK \in outs2[k]
      <4>1. PICK x \in outs2[i] : Dead(x) \/ o \subseteq x
        BY <1>2, <3>1 DEF AmongThose, Held
      <4>2. x # OK
        BY <2>2, <4>1, DeadFacts DEF OK
      <4>3. x \in InOrder(FALSE, outs2)
        BY <3>2, <4>1, <4>2, OrderFacts
      <4> QED BY <4>1, <4>3 DEF Held
    <3>3. CASE ~\A k \in 1..(i - 1) : OK \in outs2[k]
      <4>1. ~\A k \in 1..n : OK \in outs2[k]
        <5>1. 1..(i - 1) \subseteq 1..n
          OBVIOUS
        <5> QED BY <3>3, <5>1 DEF Held
      <4>2. PICK m \in 1..n : OK \notin outs2[m] /\ \A k \in 1..(m - 1) : OK \in outs2[k]
        BY <4>1, FirstDoubtful
      <4>3. m \in 1..(i - 1)
        <5>1. PICK k \in 1..(i - 1) : OK \notin outs2[k]
          BY <3>3
        <5>2. ~(k \in 1..(m - 1))
          BY <4>2, <5>1
        <5> QED BY <5>2 DEF Held
      <4>4. OK \in outs[m]
        BY <3>1, <4>3
      <4> QED BY <1>1, <1>2, <4>2, <4>4 DEF Held
    <3> QED BY <3>2, <3>3 DEF Held
  <2>3. \/ o # OK /\ \E i \in DOMAIN outs : o \in outs[i] /\ \A k \in 1..(i - 1) : OK \in outs[k]
        \/ o = OK /\ \A i \in DOMAIN outs : OK \in outs[i]
    BY <1>2, InOrderElements
  <2> QED BY <2>1, <2>2, <2>3
<1> QED BY <1>2 DEF AmongThose

LEMMA OneOfAmong ==
  ASSUME NEW n \in Nat, NEW outs, NEW outs2, DOMAIN outs = 1..n, DOMAIN outs2 = 1..n, NEW Yes,
         \A i \in 1..n : Decides(outs[i], i \in Yes) /\ Decides(outs2[i], i \in Yes),
         NEW mode \in Settings, NEW mode2 \in Settings, ~mode.failfast, ~mode2.failfast
  PROVE  AmongThose(OneOf(outs, mode), OneOf(outs2, mode2))
<1>1. ASSUME NEW o \in OneOf(outs, mode), ~Dead(o)
      PROVE  Held(o, OneOf(outs2, mode2))
  <2>1. PICK pick \in Picks(outs) : (\A i \in 1..n : ~Dead(pick[i])) /\ o = OneOfResult(pick, mode)
    BY <1>1, OneOfIs
  <2>2. PICK pick2 \in Picks(outs2) : TRUE
    BY PickExists DEF Decides
  <2>3. PICK x \in OneOf(outs2, mode2) :
            IF \A i \in 1..n : ~Dead(pick2[i]) THEN x = OneOfResult(pick2, mode2) ELSE Dead(x)
    BY OneOfGives
  <2>4. CASE \A i \in 1..n : ~Dead(pick2[i])
    <3>1. DOMAIN pick = 1..n /\ \A i \in 1..n : pick[i] \in outs[i]
      BY PicksFacts
    <3>2. DOMAIN pick2 = 1..n /\ \A i \in 1..n : pick2[i] \in outs2[i]
      BY PicksFacts
    <3>3. {i \in DOMAIN pick : pick[i] = OK} = {i \in DOMAIN pick2 : pick2[i] = OK}
      BY <2>1, <2>4, <3>1, <3>2 DEF Decides
    <3>4. OneOfResult(pick, mode) = OneOfResult(pick2, mode2)
      <4>1. PICK c : c = Cardinality({i \in DOMAIN pick : pick[i] = OK})
        OBVIOUS
      <4>2. OneOfResult(pick, mode) = OneOfOutcome(c, mode) /\ OneOfResult(pick2, mode2) = OneOfOutcome(c, mode2)
        BY <3>3, <4>1 DEF OneOfResult
      <4>3. OneOfOutcome(c, mode) = OneOfOutcome(c, mode2)
        BY OneOfOutcomeFacts
      <4> QED BY <4>2, <4>3 DEF Held
    <3>5. x = o
      BY <2>1, <2>3, <2>4, <3>4
    <3> QED BY <3>5 DEF Held
  <2>5. CASE ~\A i \in 1..n : ~Dead(pick2[i])
    BY <2>3, <2>5 DEF Held
  <2> QED BY <2>4, <2>5
<1> QED BY <1>1 DEF AmongThose

LEMMA AnyOfAmong ==
  ASSUME NEW n \in Nat, NEW outs, NEW outs2, DOMAIN outs = 1..n, DOMAIN outs2 = 1..n, NEW Yes,
         \A i \in 1..n : Decides(outs[i], i \in Yes) /\ Decides(outs2[i], i \in Yes),
         NEW mode \in Settings, NEW mode2 \in Settings, ~mode.failfast, ~mode2.failfast
  PROVE  AmongThose(AnyOf(outs, mode), AnyOf(outs2, mode2))
<1>1. ASSUME NEW o \in AnyOf(outs, mode), ~Dead(o)
      PROVE  Held(o, AnyOf(outs2, mode2))
  <2>1. PICK pick \in Picks(outs) : (\A i \in Tried(pick) : ~Dead(pick[i])) /\ o = AnyOfResult(pick, mode)
    BY <1>1, AnyOfIs
  <2>2. PICK pick2 \in Picks(outs2) : TRUE
    BY PickExists DEF Decides
  <2>3. PICK x \in AnyOf(outs2, mode2) :
            IF \A i \in Tried(pick2) : ~Dead(pick2[i]) THEN x = AnyOfResult(pick2, mode2) ELSE Dead(x)
    BY AnyOfGives
  <2>4. CASE \A i \in Tried(pick2) : ~Dead(pick2[i])
    <3>1. (\E i \in DOMAIN pick : pick[i] = OK) <=> (\E i \in 1..n : i \in Yes)
      BY <2>1, AnyOfAlive
    <3>2. (\E i \in DOMAIN pick2 : pick2[i] = OK) <=> (\E i \in 1..n : i \in Yes)
      BY <2>2, <2>4, AnyOfAlive
    <3>3. Failing(mode, "anyOf") = Failing(mode2, "anyOf")
      BY FailingFacts
    <3>4. AnyOfResult(pick, mode) = AnyOfResult(pick2, mode2)
      <4> DEFINE A == \E i \in DOMAIN pick : pick[i] = OK
                 B == \E i \in DOMAIN pick2 : pick2[i] = OK
      <4>1. A <=> B
        BY <3>1, <3>2
      <4>2. AnyOfResult(pick, mode) = (IF A THEN OK ELSE Failing(mode, "anyOf"))
            /\ AnyOfResult(pick2, mode2) = (IF B THEN OK ELSE Failing(mode2, "anyOf"))
        BY DEF AnyOfResult
      <4> HIDE DEF A, B
      <4> QED BY <3>3, <4>1, <4>2 DEF Held
    <3>5. x = o
      BY <2>1, <2>3, <2>4, <3>4
    <3> QED BY <3>5 DEF Held
  <2>5. CASE ~\A i \in Tried(pick2) : ~Dead(pick2[i])
    BY <2>3, <2>5 DEF Held
  <2> QED BY <2>4, <2>5
<1> QED BY <1>1 DEF AmongThose

-----------------------------------------------------------------------------
(* Documents.                                                               *)

LEMMA SchemaFacts ==
  ASSUME NEW d, IsDocument(d), NEW n \in DOMAIN d
  PROVE  /\ IsFiniteSet(DOMAIN d) /\ Cardinality(DOMAIN d) \in Nat
         /\ Operands(d[n]) \subseteq Children(d[n])
         /\ Children(d[n]) \subseteq DOMAIN d
         /\ d[n].not # None => d[n].not \in Operands(d[n])
         /\ \A i \in DOMAIN d[n].oneOf : d[n].oneOf[i] \in Operands(d[n])
         /\ \A i \in DOMAIN d[n].anyOf : d[n].anyOf[i] \in Operands(d[n])
         /\ \A i \in DOMAIN d[n].allOf : d[n].allOf[i] \in Operands(d[n])
         /\ d[n].items # None => d[n].items \in Children(d[n])
         /\ d[n].additional # None => d[n].additional \in Children(d[n])
         /\ \A k \in DOMAIN d[n].properties : d[n].properties[k] \in Children(d[n])
         /\ Len(d[n].oneOf) \in Nat /\ DOMAIN d[n].oneOf = 1..Len(d[n].oneOf)
         /\ Len(d[n].anyOf) \in Nat /\ DOMAIN d[n].anyOf = 1..Len(d[n].anyOf)
         /\ Len(d[n].allOf) \in Nat /\ DOMAIN d[n].allOf = 1..Len(d[n].allOf)
<1> DEFINE s == d[n]
<1>1. IsSchema(DOMAIN d, s)
  BY DEF IsDocument
<1>2. s.oneOf \in Seq(DOMAIN d) /\ s.anyOf \in Seq(DOMAIN d) /\ s.allOf \in Seq(DOMAIN d)
  BY <1>1 DEF IsSchema
<1>3. /\ s.not = None \/ s.not \in DOMAIN d
      /\ s.items = None \/ s.items \in DOMAIN d
      /\ s.additional = None \/ s.additional \in DOMAIN d
      /\ \A k \in DOMAIN s.properties : s.properties[k] \in DOMAIN d
  BY <1>1 DEF IsSchema
<1> HIDE DEF s
<1>4. Operands(s) \subseteq DOMAIN d
  BY <1>2, <1>3 DEF Operands, Given, ToSet
<1>5. Children(s) \subseteq DOMAIN d
  BY <1>3, <1>4 DEF Children, Given, PropertySchemas
<1>6. /\ Operands(s) \subseteq Children(s)
      /\ s.not # None => s.not \in Operands(s)
      /\ s.items # None => s.items \in Children(s)
      /\ s.additional # None => s.additional \in Children(s)
      /\ \A k \in DOMAIN s.properties : s.properties[k] \in Children(s)
  BY DEF Operands, Children, Given, PropertySchemas
<1>7. /\ \A i \in DOMAIN s.oneOf : s.oneOf[i] \in Operands(s)
      /\ \A i \in DOMAIN s.anyOf : s.anyOf[i] \in Operands(s)
      /\ \A i \in DOMAIN s.allOf : s.allOf[i] \in Operands(s)
  BY DEF Operands, ToSet
<1>8. IsFiniteSet(DOMAIN d) /\ Cardinality(DOMAIN d) \in Nat
  BY FS_CardinalityType DEF IsDocument
<1>9. /\ Len(s.oneOf) \in Nat /\ DOMAIN s.oneOf = 1..Len(s.oneOf)
      /\ Len(s.anyOf) \in Nat /\ DOMAIN s.anyOf = 1..Len(s.anyOf)
      /\ Len(s.allOf) \in Nat /\ DOMAIN s.allOf = 1..Len(s.allOf)
  BY <1>2
<1> QED BY <1>4, <1>5, <1>6, <1>7, <1>8, <1>9 DEF s

\* What is left of a finite set, when one more of it is taken away.
LEMMA OneLess ==
  ASSUME NEW N, IsFiniteSet(N), NEW A \in SUBSET N, NEW x \in N, x \notin A
  PROVE  /\ Cardinality(N \ A) \in Nat /\ Cardinality(N \ A) <= Cardinality(N)
         /\ Cardinality(N \ (A \cup {x})) \in Nat
         /\ Cardinality(N \ (A \cup {x})) < Cardinality(N \ A)
<1>1. IsFiniteSet(N \ A) /\ Cardinality(N \ A) <= Cardinality(N)
  <2>1. N \ A \subseteq N
    OBVIOUS
  <2> QED BY <2>1, FS_Subset
<1>2. N \ (A \cup {x}) = (N \ A) \ {x} /\ x \in N \ A
  OBVIOUS
<1>3. Cardinality((N \ A) \ {x}) = Cardinality(N \ A) - 1 /\ IsFiniteSet((N \ A) \ {x})
  BY <1>1, <1>2, FS_RemoveElement
<1>4. Cardinality(N \ A) \in Nat /\ Cardinality((N \ A) \ {x}) \in Nat
  BY <1>1, <1>3, FS_CardinalityType
<1>5. N \ (A \cup {x}) = (N \ A) \ {x}
  BY <1>2
<1> QED BY <1>1, <1>3, <1>4, <1>5

\* The frames a frame asks: none, if its schema is being asked already.
FrameAsks(d) == [c \in Frames(d) |->
                    IF c.schema \in c.above THEN {} ELSE {Callee(c, m) : m \in Children(d[c.schema])}]
FrameWeight(d) == [c \in Frames(d) |-> Cardinality(DOMAIN d \ c.above)]

LEMMA FrameFacts ==
  ASSUME NEW d, IsDocument(d)
  PROVE  /\ FrameWeight(d) \in [Frames(d) -> Nat]
         /\ \A c \in Frames(d) : /\ c.schema \in DOMAIN d /\ c.above \in SUBSET DOMAIN d
                                 /\ FrameWeight(d)[c] <= Cardinality(DOMAIN d)
                                 /\ FrameAsks(d)[c] \subseteq Frames(d)
                                 /\ \A b \in FrameAsks(d)[c] : FrameWeight(d)[b] < FrameWeight(d)[c]
         /\ \A n \in DOMAIN d : Frame(n, {}) \in Frames(d)
<1>1. \A c \in Frames(d) : c.schema \in DOMAIN d /\ c.above \in SUBSET DOMAIN d
  BY DEF Frames
<1>2. IsFiniteSet(DOMAIN d) /\ Cardinality(DOMAIN d) \in Nat
  BY FS_CardinalityType DEF IsDocument
<1>3. \A A \in SUBSET DOMAIN d : Cardinality(DOMAIN d \ A) \in Nat /\ Cardinality(DOMAIN d \ A) <= Cardinality(DOMAIN d)
  <2>1. ASSUME NEW A \in SUBSET DOMAIN d
        PROVE  Cardinality(DOMAIN d \ A) \in Nat /\ Cardinality(DOMAIN d \ A) <= Cardinality(DOMAIN d)
    <3>1. DOMAIN d \ A \subseteq DOMAIN d
      OBVIOUS
    <3> QED BY <1>2, <3>1, FS_Subset, FS_CardinalityType
  <2> QED BY <2>1
<1>4. ASSUME NEW c \in Frames(d), NEW b \in FrameAsks(d)[c]
      PROVE  b \in Frames(d) /\ FrameWeight(d)[b] < FrameWeight(d)[c]
  <2>1. PICK m \in Children(d[c.schema]) : c.schema \notin c.above /\ b = Callee(c, m)
    BY DEF FrameAsks
  <2>2. c.schema \in DOMAIN d /\ c.above \in SUBSET DOMAIN d /\ m \in DOMAIN d
    BY <1>1, <2>1, SchemaFacts
  <2>3. b.schema = m /\ b.above = c.above \cup {c.schema}
    BY <2>1 DEF Callee, Frame
  <2>4. b \in Frames(d)
    BY <2>1, <2>2 DEF Callee, Frame, Frames
  <2>5. Cardinality(DOMAIN d \ (c.above \cup {c.schema})) < Cardinality(DOMAIN d \ c.above)
    BY <1>2, <2>1, <2>2, OneLess
  <2> QED BY <2>3, <2>4, <2>5 DEF FrameWeight
<1>5. \A n \in DOMAIN d : Frame(n, {}) \in Frames(d)
  BY DEF Frame, Frames
<1>6. FrameWeight(d) \in [Frames(d) -> Nat] /\ \A c \in Frames(d) : FrameWeight(d)[c] <= Cardinality(DOMAIN d)
  BY <1>1, <1>3 DEF FrameWeight
<1> QED BY <1>1, <1>4, <1>5, <1>6

\* What holds of a frame if it holds of those it asks, holds of all.
LEMMA FrameInduction ==
  ASSUME NEW d, IsDocument(d), NEW P,
         \A c \in Frames(d) : FrameAsks(d)[c] \subseteq P => c \in P
  PROVE  \A c \in Frames(d) : c \in P
<1>1. PICK S, asks, weight : S = Frames(d) /\ asks = FrameAsks(d) /\ weight = FrameWeight(d)
  OBVIOUS
<1>2. weight \in [S -> Nat]
  BY <1>1, FrameFacts
<1>3. \A x \in S : asks[x] \subseteq S /\ \A y \in asks[x] : weight[y] < weight[x]
  BY <1>1, FrameFacts
<1>4. \A x \in S : asks[x] \subseteq P => x \in P
  BY <1>1
<1>5. S \subseteq P
  BY <1>2, <1>3, <1>4, CallInduction
<1> QED BY <1>1, <1>5

-----------------------------------------------------------------------------
(* IsEmpty.                                                                 *)

AnswerOf(answers, c, m) == IF m = None THEN {OK} ELSE answers[Callee(c, m)]
AnswersOf(answers, c, ms) == [i \in DOMAIN ms |-> answers[Callee(c, ms[i])]]
EmptinessBelow(answers, s, c) ==
    Then(FALSE, AnswerOf(answers, c, s.not),
    Then(FALSE, AnswerOf(answers, c, s.additional),
    Then(FALSE, {IF s.additionalAllowed = FALSE THEN NotEmpty ELSE OK},
    Then(FALSE, AnswerOf(answers, c, s.items),
    Then(FALSE, AnyOrder(FALSE, AnswersOf(answers, c, s.properties)),
    Then(FALSE, InOrder(FALSE, AnswersOf(answers, c, s.oneOf)),
    Then(FALSE, InOrder(FALSE, AnswersOf(answers, c, s.anyOf)),
                InOrder(FALSE, AnswersOf(answers, c, s.allOf)))))))))

LEMMA EmptinessParts ==
  ASSUME NEW answers, NEW d, NEW c
  PROVE  EmptinessOf(answers, d, c) =
            IF c.schema \in c.above THEN {Overflow}
            ELSE IF OwnKeyword(d[c.schema]) THEN {NotEmpty}
            ELSE EmptinessBelow(answers, d[c.schema], c)
BY Zenon DEF EmptinessOf, EmptinessBelow, AnswerOf, AnswersOf

LEMMA AnswersLocal ==
  ASSUME NEW d, IsDocument(d), NEW c \in Frames(d), c.schema \notin c.above,
         NEW f, NEW g, \A b \in FrameAsks(d)[c] : f[b] = g[b]
  PROVE  /\ \A m \in Children(d[c.schema]) : f[Callee(c, m)] = g[Callee(c, m)]
         /\ \A m : m = None \/ m \in Children(d[c.schema]) => AnswerOf(f, c, m) = AnswerOf(g, c, m)
         /\ \A ms : (\A i \in DOMAIN ms : ms[i] \in Children(d[c.schema])) => AnswersOf(f, c, ms) = AnswersOf(g, c, ms)
<1>1. ASSUME NEW m \in Children(d[c.schema]) PROVE f[Callee(c, m)] = g[Callee(c, m)]
  BY DEF FrameAsks
<1>2. \A m : m = None \/ m \in Children(d[c.schema]) => AnswerOf(f, c, m) = AnswerOf(g, c, m)
  BY <1>1 DEF AnswerOf
<1>3. ASSUME NEW ms, \A i \in DOMAIN ms : ms[i] \in Children(d[c.schema])
      PROVE  AnswersOf(f, c, ms) = AnswersOf(g, c, ms)
  <2>1. \A i \in DOMAIN ms : f[Callee(c, ms[i])] = g[Callee(c, ms[i])]
    BY <1>1, <1>3
  <2> QED BY <2>1 DEF AnswersOf
<1> QED BY <1>1, <1>2, <1>3

LEMMA EmptinessLocal ==
  ASSUME NEW d, IsDocument(d), NEW c \in Frames(d), NEW f, NEW g, \A b \in FrameAsks(d)[c] : f[b] = g[b]
  PROVE  EmptinessOf(f, d, c) = EmptinessOf(g, d, c)
<1>1. CASE c.schema \in c.above
  BY <1>1, EmptinessParts
<1>2. CASE c.schema \notin c.above
  <2> DEFINE s == d[c.schema]
  <2>1. c.schema \in DOMAIN d
    BY FrameFacts
  <2>2. /\ s.not = None \/ s.not \in Children(s)
        /\ s.additional = None \/ s.additional \in Children(s)
        /\ s.items = None \/ s.items \in Children(s)
        /\ \A i \in DOMAIN s.properties : s.properties[i] \in Children(s)
        /\ \A i \in DOMAIN s.oneOf : s.oneOf[i] \in Children(s)
        /\ \A i \in DOMAIN s.anyOf : s.anyOf[i] \in Children(s)
        /\ \A i \in DOMAIN s.allOf : s.allOf[i] \in Children(s)
    BY <2>1, SchemaFacts
  <2>3. /\ AnswerOf(f, c, s.not) = AnswerOf(g, c, s.not)
        /\ AnswerOf(f, c, s.additional) = AnswerOf(g, c, s.additional)
        /\ AnswerOf(f, c, s.items) = AnswerOf(g, c, s.items)
        /\ AnswersOf(f, c, s.properties) = AnswersOf(g, c, s.properties)
        /\ AnswersOf(f, c, s.oneOf) = AnswersOf(g, c, s.oneOf)
        /\ AnswersOf(f, c, s.anyOf) = AnswersOf(g, c, s.anyOf)
        /\ AnswersOf(f, c, s.allOf) = AnswersOf(g, c, s.allOf)
    BY <1>2, <2>2, AnswersLocal
  <2> HIDE DEF s
  <2>4. EmptinessBelow(f, s, c) = EmptinessBelow(g, s, c)
    BY Zenon, <2>3 DEF EmptinessBelow
  <2> QED BY <2>4, EmptinessParts DEF s
<1> QED BY <1>1, <1>2

\* The answers are what they are made of.
LEMMA EmptyIs ==
  ASSUME NEW d, IsDocument(d)
  PROVE  EmptyCalls(d) = [x \in Frames(d) |-> EmptinessOf(EmptyCalls(d), d, x)]
<1> DEFINE Upto(n) == {x \in Frames(d) : FrameWeight(d)[x] < n}
           F(g, n) == [x \in Upto(n) |-> EmptinessOf(g, d, x)]
           B == Cardinality(DOMAIN d) + 1
           T == {n \in 0..B : \E g : g = F(g, n)}
<1>0. B \in Nat /\ \A x \in Frames(d) : FrameWeight(d)[x] \in Nat /\ FrameWeight(d)[x] < B
  BY FrameFacts, FS_CardinalityType DEF IsDocument
<1> HIDE DEF B
<1>1. 0 \in T
  <2>1. Upto(0) = {}
    BY <1>0
  <2>2. PICK g : g = F(g, 0)
    BY <2>1
  <2> HIDE DEF F
  <2> QED BY <1>0, <2>2
<1>2. ASSUME NEW n \in 1..B, n - 1 \in T PROVE n \in T
  <2>1. PICK old : old = F(old, n - 1)
    BY <1>2
  <2>2. PICK g : g = F(old, n)
    OBVIOUS
  <2>3. ASSUME NEW x \in Upto(n) PROVE EmptinessOf(old, d, x) = EmptinessOf(g, d, x)
    <3>0. x \in Frames(d)
      OBVIOUS
    <3>1. ASSUME NEW y \in FrameAsks(d)[x] PROVE old[y] = g[y]
      <4>1. y \in Frames(d) /\ FrameWeight(d)[y] < FrameWeight(d)[x]
        BY <3>0, <3>1, FrameFacts
      <4>2. y \in Upto(n - 1) /\ y \in Upto(n)
        BY <1>0, <4>1
      <4>3. old[y] = EmptinessOf(old, d, y) /\ g[y] = EmptinessOf(old, d, y)
        <5> HIDE DEF Upto
        <5> QED BY <2>1, <2>2, <4>2
      <4> QED BY <4>3
    <3> QED BY <3>0, <3>1, EmptinessLocal
  <2>4. g = F(g, n)
    <3> HIDE DEF Upto
    <3> QED BY <2>2, <2>3
  <2> QED BY <2>4
<1>3. \A n \in 0..B : n \in T
  <2> HIDE DEF T
  <2> QED BY <1>0, <1>1, <1>2, Upwards
<1>4. PICK g : g = F(g, B)
  <2>1. B \in T
    <3> HIDE DEF T
    <3> QED BY <1>0, <1>3
  <2> HIDE DEF F
  <2> QED BY <2>1
<1>5. Upto(B) = Frames(d)
  BY <1>0
<1>6. g = [x \in Frames(d) |-> EmptinessOf(g, d, x)]
  BY <1>4, <1>5
<1> DEFINE chosen == CHOOSE f : f = [x \in Frames(d) |-> EmptinessOf(f, d, x)]
<1>7. chosen = [x \in Frames(d) |-> EmptinessOf(chosen, d, x)]
  BY <1>6
<1>8. chosen = EmptyCalls(d)
  BY Zenon DEF EmptyCalls
<1> HIDE DEF chosen
<1> QED BY <1>7, <1>8

LEMMA EmptyUnfolds ==
  ASSUME NEW d, IsDocument(d), NEW c \in Frames(d)
  PROVE  EmptyCalls(d)[c] = EmptinessOf(EmptyCalls(d), d, c)
BY EmptyIs, Zenon

\* An answer that may be "empty" is sure to be.
Sure(O) == O # {} /\ O \subseteq {OK, NotEmpty, Overflow} /\ (OK \in O => O = {OK})

LEMMA AnswersDiffer ==
  /\ NotEmpty # OK /\ Overflow # OK /\ NotEmpty # Overflow
  /\ ~Dead(NotEmpty) /\ Dead(Overflow)
<1>1. NotEmpty # OK /\ Overflow # OK
  BY DEF NotEmpty, Overflow, OK
<1>2. ~Dead(NotEmpty)
  BY DEF NotEmpty, Dead, Panic, Overflow, Error
<1>3. Dead(Overflow)
  BY DeadFacts
<1> QED BY <1>1, <1>2, <1>3

LEMMA ThenSure ==
  ASSUME NEW O, NEW P, Sure(O), Sure(P)
  PROVE  Sure(Then(FALSE, O, P))
<1>1. Then(FALSE, O, P) # {}
  BY ThenFacts DEF Sure
<1>2. \A o \in Then(FALSE, O, P) : o \in {OK, NotEmpty, Overflow}
  BY ThenElements DEF Sure
<1>3. ASSUME OK \in Then(FALSE, O, P) PROVE \A o \in Then(FALSE, O, P) : o = OK
  <2>1. O = {OK} /\ P = {OK}
    BY <1>3, ThenElements DEF Sure
  <2> QED BY <2>1, ThenElements
<1> QED BY <1>1, <1>2, <1>3 DEF Sure

LEMMA RowSure ==
  ASSUME NEW outs, \A i \in DOMAIN outs : Sure(outs[i])
  PROVE  /\ Sure(AnyOrder(FALSE, outs))
         /\ \A n \in Nat : DOMAIN outs = 1..n => Sure(InOrder(FALSE, outs))
<1>1. Sure(AnyOrder(FALSE, outs))
  <2>1. CASE \A i \in DOMAIN outs : OK \in outs[i]
    <3>1. \A i \in DOMAIN outs : outs[i] = {OK}
      BY <2>1 DEF Sure
    <3>2. OK \in AnyOrder(FALSE, outs)
      BY <2>1, OrderFacts
    <3>3. ASSUME NEW o \in AnyOrder(FALSE, outs) PROVE o = OK
      <4>1. o = OK \/ \E i \in DOMAIN outs : o \in outs[i]
        BY AnyOrderElements
      <4> QED BY <3>1, <4>1
    <3> QED BY <3>2, <3>3 DEF Sure
  <2>2. CASE ~\A i \in DOMAIN outs : OK \in outs[i]
    <3>1. PICK i \in DOMAIN outs : OK \notin outs[i]
      BY <2>2
    <3>2. PICK o \in outs[i] : o # OK
      BY <3>1 DEF Sure
    <3>3. o \in AnyOrder(FALSE, outs)
      BY <3>2, OrderFacts
    <3>4. OK \notin AnyOrder(FALSE, outs)
      BY <2>2, AnyOrderElements
    <3>5. \A x \in AnyOrder(FALSE, outs) : x \in {OK, NotEmpty, Overflow}
      BY AnyOrderElements DEF Sure
    <3> QED BY <3>3, <3>4, <3>5 DEF Sure
  <2> QED BY <2>1, <2>2
<1>2. ASSUME NEW n \in Nat, DOMAIN outs = 1..n PROVE Sure(InOrder(FALSE, outs))
  <2>1. CASE \A i \in DOMAIN outs : OK \in outs[i]
    <3>1. \A i \in DOMAIN outs : outs[i] = {OK}
      BY <2>1 DEF Sure
    <3>2. OK \in InOrder(FALSE, outs)
      BY <2>1, OrderFacts
    <3>3. ASSUME NEW o \in InOrder(FALSE, outs) PROVE o = OK
      <4>1. o = OK \/ \E i \in DOMAIN outs : o \in outs[i]
        BY InOrderElements
      <4> QED BY <3>1, <4>1
    <3> QED BY <3>2, <3>3 DEF Sure
  <2>2. CASE ~\A i \in DOMAIN outs : OK \in outs[i]
    <3>1. PICK i \in 1..n : OK \notin outs[i] /\ \A k \in 1..(i - 1) : OK \in outs[k]
      BY <1>2, <2>2, FirstDoubtful
    <3>2. PICK o \in outs[i] : o # OK
      BY <1>2, <3>1 DEF Sure
    <3>3. o \in InOrder(FALSE, outs)
      BY <1>2, <3>1, <3>2, OrderFacts
    <3>4. OK \notin InOrder(FALSE, outs)
      BY <2>2, InOrderElements
    <3>5. \A x \in InOrder(FALSE, outs) : x \in {OK, NotEmpty, Overflow}
      BY InOrderElements DEF Sure
    <3> QED BY <3>3, <3>4, <3>5 DEF Sure
  <2> QED BY <2>1, <2>2
<1> QED BY <1>1, <1>2

LEMMA EmptinessSure ==
  ASSUME NEW d, IsDocument(d), NEW n \in DOMAIN d
  PROVE  Sure(Emptiness(d, n))
<1> DEFINE E == EmptyCalls(d)
           P == {c \in Frames(d) : Sure(E[c])}
<1>1. ASSUME NEW c \in Frames(d), FrameAsks(d)[c] \subseteq P PROVE c \in P
  <2>1. E[c] = IF c.schema \in c.above THEN {Overflow}
               ELSE IF OwnKeyword(d[c.schema]) THEN {NotEmpty}
               ELSE EmptinessBelow(E, d[c.schema], c)
    BY EmptyUnfolds, EmptinessParts
  <2>2. Sure({Overflow}) /\ Sure({NotEmpty}) /\ Sure({OK})
    BY AnswersDiffer DEF Sure
  <2>3. CASE c.schema \notin c.above
    <3> DEFINE s == d[c.schema]
    <3>1. c.schema \in DOMAIN d
      BY FrameFacts
    <3>2. \A m \in Children(s) : Sure(E[Callee(c, m)])
      BY <1>1, <2>3 DEF FrameAsks
    <3> HIDE DEF E, P
    <3>3. \A m : m = None \/ m \in Children(s) => Sure(AnswerOf(E, c, m))
      BY <2>2, <3>2 DEF AnswerOf
    <3>4. ASSUME NEW ms, \A i \in DOMAIN ms : ms[i] \in Children(s)
          PROVE  /\ Sure(AnyOrder(FALSE, AnswersOf(E, c, ms)))
                 /\ \A k \in Nat : DOMAIN ms = 1..k => Sure(InOrder(FALSE, AnswersOf(E, c, ms)))
      <4>1. DOMAIN AnswersOf(E, c, ms) = DOMAIN ms /\ \A i \in DOMAIN ms : Sure(AnswersOf(E, c, ms)[i])
        BY <3>2, <3>4 DEF AnswersOf
      <4> QED BY <4>1, RowSure
    <3>5. /\ s.not = None \/ s.not \in Children(s)
          /\ s.additional = None \/ s.additional \in Children(s)
          /\ s.items = None \/ s.items \in Children(s)
          /\ \A i \in DOMAIN s.properties : s.properties[i] \in Children(s)
      BY <3>1, SchemaFacts
    <3>6. /\ (\A i \in DOMAIN s.oneOf : s.oneOf[i] \in Children(s))
          /\ Len(s.oneOf) \in Nat /\ DOMAIN s.oneOf = 1..Len(s.oneOf)
          /\ (\A i \in DOMAIN s.anyOf : s.anyOf[i] \in Children(s))
          /\ Len(s.anyOf) \in Nat /\ DOMAIN s.anyOf = 1..Len(s.anyOf)
          /\ (\A i \in DOMAIN s.allOf : s.allOf[i] \in Children(s))
          /\ Len(s.allOf) \in Nat /\ DOMAIN s.allOf = 1..Len(s.allOf)
      BY <3>1, SchemaFacts
    <3> HIDE DEF s
    <3>7. /\ Sure(AnswerOf(E, c, s.not)) /\ Sure(AnswerOf(E, c, s.additional)) /\ Sure(AnswerOf(E, c, s.items))
          /\ Sure(AnyOrder(FALSE, AnswersOf(E, c, s.properties)))
      BY <3>3, <3>4, <3>5
    <3>8. Sure(InOrder(FALSE, AnswersOf(E, c, s.oneOf)))
      BY <3>4, <3>6
    <3>9. Sure(InOrder(FALSE, AnswersOf(E, c, s.anyOf)))
      BY <3>4, <3>6
    <3>10. Sure(InOrder(FALSE, AnswersOf(E, c, s.allOf)))
      BY <3>4, <3>6
    <3>11. Sure({IF s.additionalAllowed = FALSE THEN NotEmpty ELSE OK})
      BY <2>2
    <3>12. Sure(EmptinessBelow(E, s, c))
      BY <3>7, <3>8, <3>9, <3>10, <3>11, ThenSure DEF EmptinessBelow
    <3>13. Sure(E[c])
      BY <2>1, <2>2, <2>3, <3>12 DEF s
    <3> QED BY <3>13 DEF P
  <2> QED BY <2>1, <2>2, <2>3
<1>2. \A c \in Frames(d) : c \in P
  <2> HIDE DEF P
  <2> QED BY <1>1, FrameInduction
<1>3. Frame(n, {}) \in Frames(d)
  BY FrameFacts
<1> QED BY <1>2, <1>3 DEF Emptiness

-----------------------------------------------------------------------------
(* What a document's root, or a schema, reaches.                            *)

ReachOf(d) == ReachableFrom(ToChildren(d), {Root})

LEMMA ReachFacts ==
  ASSUME NEW d, IsDocument(d)
  PROVE  /\ Root \in ReachOf(d) /\ ReachOf(d) \subseteq DOMAIN d
         /\ \A n \in ReachOf(d) : Children(d[n]) \subseteq ReachOf(d)
         /\ \A R \in SUBSET DOMAIN d :
               Root \in R /\ (\A n \in R : Children(d[n]) \subseteq R) => ReachOf(d) \subseteq R
<1>1. IsFiniteSet(DOMAIN d) /\ Root \in DOMAIN d
  BY DEF IsDocument
<1>2. ToChildren(d) \in [DOMAIN d -> SUBSET DOMAIN d] /\ \A n \in DOMAIN d : ToChildren(d)[n] = Children(d[n])
  BY SchemaFacts DEF ToChildren
<1>3. PICK next : next = ToChildren(d)
  OBVIOUS
<1>4. /\ {Root} \subseteq ReachableFrom(next, {Root})
      /\ ReachableFrom(next, {Root}) \subseteq DOMAIN d
      /\ \A n \in ReachableFrom(next, {Root}) : next[n] \subseteq ReachableFrom(next, {Root})
      /\ \A R \in SUBSET DOMAIN d : {Root} \subseteq R /\ (\A n \in R : next[n] \subseteq R)
                                  => ReachableFrom(next, {Root}) \subseteq R
  BY <1>1, <1>2, <1>3, ReachableFacts
<1>5. PICK R : R = ReachableFrom(next, {Root})
  OBVIOUS
<1>6. ReachOf(d) = R
  BY <1>3, <1>5 DEF ReachOf
<1>7. /\ Root \in R /\ R \subseteq DOMAIN d
      /\ \A n \in R : next[n] \subseteq R
      /\ \A X \in SUBSET DOMAIN d : Root \in X /\ (\A n \in X : next[n] \subseteq X) => R \subseteq X
  BY <1>4, <1>5
<1>8. \A n \in DOMAIN d : next[n] = Children(d[n])
  BY <1>2, <1>3
<1> QED BY <1>6, <1>7, <1>8

\* The schemas that come after a, by all it refers to or by its operands.
After(d, a) == ReachableFrom(ToChildren(d), Children(d[a]))
AfterAlike(d, a) == ReachableFrom(ToOperands(d), Operands(d[a]))

LEMMA AfterFacts ==
  ASSUME NEW d, IsDocument(d), NEW a \in DOMAIN d
  PROVE  /\ Children(d[a]) \subseteq After(d, a) /\ After(d, a) \subseteq DOMAIN d
         /\ \A n \in After(d, a) : Children(d[n]) \subseteq After(d, a)
         /\ Operands(d[a]) \subseteq AfterAlike(d, a) /\ AfterAlike(d, a) \subseteq DOMAIN d
         /\ \A n \in AfterAlike(d, a) : Operands(d[n]) \subseteq AfterAlike(d, a)
<1>1. IsFiniteSet(DOMAIN d)
  BY DEF IsDocument
<1>2. \A n \in DOMAIN d : Children(d[n]) \in SUBSET DOMAIN d /\ Operands(d[n]) \in SUBSET DOMAIN d
  <2>1. ASSUME NEW n \in DOMAIN d PROVE Children(d[n]) \in SUBSET DOMAIN d /\ Operands(d[n]) \in SUBSET DOMAIN d
    <3>1. Operands(d[n]) \subseteq Children(d[n]) /\ Children(d[n]) \subseteq DOMAIN d
      BY SchemaFacts
    <3> QED BY <3>1
  <2> QED BY <2>1
<1>3. PICK next : next = ToChildren(d)
  OBVIOUS
<1>4. next \in [DOMAIN d -> SUBSET DOMAIN d] /\ \A n \in DOMAIN d : next[n] = Children(d[n])
  BY <1>2, <1>3 DEF ToChildren
<1>5. PICK alike : alike = ToOperands(d)
  OBVIOUS
<1>6. alike \in [DOMAIN d -> SUBSET DOMAIN d] /\ \A n \in DOMAIN d : alike[n] = Operands(d[n])
  BY <1>2, <1>5 DEF ToOperands
<1>7. PICK A : A = Children(d[a])
  OBVIOUS
<1>8. PICK O : O = Operands(d[a])
  OBVIOUS
<1>9. /\ A \subseteq ReachableFrom(next, A) /\ ReachableFrom(next, A) \subseteq DOMAIN d
      /\ \A n \in ReachableFrom(next, A) : next[n] \subseteq ReachableFrom(next, A)
  BY <1>1, <1>2, <1>4, <1>7, ReachableFacts
<1>10. /\ O \subseteq ReachableFrom(alike, O) /\ ReachableFrom(alike, O) \subseteq DOMAIN d
       /\ \A n \in ReachableFrom(alike, O) : alike[n] \subseteq ReachableFrom(alike, O)
  BY <1>1, <1>2, <1>6, <1>8, ReachableFacts
<1>11. After(d, a) = ReachableFrom(next, A) /\ AfterAlike(d, a) = ReachableFrom(alike, O)
  BY <1>3, <1>5, <1>7, <1>8 DEF After, AfterAlike
<1>12. PICK X : X = After(d, a)
  OBVIOUS
<1>13. PICK Y : Y = AfterAlike(d, a)
  OBVIOUS
<1>14. A \subseteq X /\ X \subseteq DOMAIN d /\ \A n \in X : Children(d[n]) \subseteq X
  <2>1. A \subseteq X /\ X \subseteq DOMAIN d /\ \A n \in X : next[n] \subseteq X
    BY <1>9, <1>11, <1>12
  <2> QED BY <1>4, <2>1
<1>15. O \subseteq Y /\ Y \subseteq DOMAIN d /\ \A n \in Y : Operands(d[n]) \subseteq Y
  <2>1. O \subseteq Y /\ Y \subseteq DOMAIN d /\ \A n \in Y : alike[n] \subseteq Y
    BY <1>10, <1>11, <1>13
  <2> QED BY <1>6, <2>1
<1> QED BY <1>7, <1>8, <1>12, <1>13, <1>14, <1>15

-----------------------------------------------------------------------------
(* IsEmpty dies only on a chain of schemas without keywords.                *)

\* `o` comes from a schema below, if it is among O.
FromBelow(answers, d, c, o, O) == o \in O => \E m \in Children(d[c.schema]) : o \in answers[Callee(c, m)]

LEMMA FromBelowFacts ==
  ASSUME NEW answers, NEW d, NEW c, NEW o, o # OK
  PROVE  /\ \A O, P : FromBelow(answers, d, c, o, O) /\ FromBelow(answers, d, c, o, P)
                         => FromBelow(answers, d, c, o, Then(FALSE, O, P))
         /\ \A outs : (\A i \in DOMAIN outs : FromBelow(answers, d, c, o, outs[i]))
                         => /\ FromBelow(answers, d, c, o, AnyOrder(FALSE, outs))
                            /\ FromBelow(answers, d, c, o, InOrder(FALSE, outs))
<1>1. ASSUME NEW O, NEW P, FromBelow(answers, d, c, o, O), FromBelow(answers, d, c, o, P)
      PROVE  FromBelow(answers, d, c, o, Then(FALSE, O, P))
  BY <1>1, ThenElements DEF FromBelow
<1>2. ASSUME NEW outs, \A i \in DOMAIN outs : FromBelow(answers, d, c, o, outs[i])
      PROVE  FromBelow(answers, d, c, o, AnyOrder(FALSE, outs))
  <2>1. o \in AnyOrder(FALSE, outs) => \E i \in DOMAIN outs : o \in outs[i]
    BY AnyOrderElements
  <2> QED BY <1>2, <2>1 DEF FromBelow
<1>3. ASSUME NEW outs, \A i \in DOMAIN outs : FromBelow(answers, d, c, o, outs[i])
      PROVE  FromBelow(answers, d, c, o, InOrder(FALSE, outs))
  <2>1. o \in InOrder(FALSE, outs) => \E i \in DOMAIN outs : o \in outs[i]
    BY InOrderElements
  <2> QED BY <1>3, <2>1 DEF FromBelow
<1> QED BY <1>1, <1>2, <1>3

LEMMA BelowElements ==
  ASSUME NEW d, IsDocument(d), NEW c \in Frames(d), NEW answers,
         NEW o \in EmptinessBelow(answers, d[c.schema], c), o # OK, o # NotEmpty
  PROVE  \E m \in Children(d[c.schema]) : o \in answers[Callee(c, m)]
<1> DEFINE s == d[c.schema]
           From(O) == FromBelow(answers, d, c, o, O)
<1>1. c.schema \in DOMAIN d
  BY FrameFacts
<1>2. \A m : m = None \/ m \in Children(s) => From(AnswerOf(answers, c, m))
  BY DEF AnswerOf, FromBelow
<1>3. ASSUME NEW ms, \A i \in DOMAIN ms : ms[i] \in Children(s)
      PROVE  From(AnyOrder(FALSE, AnswersOf(answers, c, ms))) /\ From(InOrder(FALSE, AnswersOf(answers, c, ms)))
  <2>1. PICK outs : outs = AnswersOf(answers, c, ms)
    OBVIOUS
  <2>2. \A i \in DOMAIN outs : From(outs[i])
    BY <1>3, <2>1 DEF AnswersOf, FromBelow
  <2>3. From(AnyOrder(FALSE, outs)) /\ From(InOrder(FALSE, outs))
    BY <2>2, FromBelowFacts
  <2> QED BY <2>1, <2>3
<1>4. /\ s.not = None \/ s.not \in Children(s)
      /\ s.additional = None \/ s.additional \in Children(s)
      /\ s.items = None \/ s.items \in Children(s)
  BY <1>1, SchemaFacts
<1>5. /\ \A i \in DOMAIN s.properties : s.properties[i] \in Children(s)
      /\ \A i \in DOMAIN s.oneOf : s.oneOf[i] \in Children(s)
      /\ \A i \in DOMAIN s.anyOf : s.anyOf[i] \in Children(s)
      /\ \A i \in DOMAIN s.allOf : s.allOf[i] \in Children(s)
  BY <1>1, SchemaFacts
<1>6. From({IF s.additionalAllowed = FALSE THEN NotEmpty ELSE OK})
  BY DEF FromBelow
<1>7. \A O, P : From(O) /\ From(P) => From(Then(FALSE, O, P))
  BY FromBelowFacts
<1>8. From(EmptinessBelow(answers, s, c))
  <2> HIDE DEF From, s
  <2>1. From(AnswerOf(answers, c, s.not)) /\ From(AnswerOf(answers, c, s.additional)) /\ From(AnswerOf(answers, c, s.items))
    BY <1>2, <1>4
  <2>2. /\ From(AnyOrder(FALSE, AnswersOf(answers, c, s.properties)))
        /\ From(InOrder(FALSE, AnswersOf(answers, c, s.oneOf)))
        /\ From(InOrder(FALSE, AnswersOf(answers, c, s.anyOf)))
        /\ From(InOrder(FALSE, AnswersOf(answers, c, s.allOf)))
    BY <1>3, <1>5
  <2> QED BY <1>6, <1>7, <2>1, <2>2 DEF EmptinessBelow
<1> QED BY <1>8 DEF FromBelow

\* Schemas without a keyword that come back to where they began.
EmptyCycle(d, R) == \E n \in R : ~OwnKeyword(d[n]) /\ n \in After(d, n)

LEMMA EmptinessDeath ==
  ASSUME NEW d, IsDocument(d), NEW R \in SUBSET DOMAIN d, \A n \in R : Children(d[n]) \subseteq R,
         NEW n \in R, Overflow \in Emptiness(d, n)
  PROVE  EmptyCycle(d, R)
<1> DEFINE E == EmptyCalls(d)
           Led(c) == /\ c.schema \in R /\ Overflow \in E[c]
                     /\ \A a \in c.above : a \in R /\ ~OwnKeyword(d[a]) /\ c.schema \in After(d, a)
           P == {c \in Frames(d) : Led(c) => EmptyCycle(d, R)}
<1>1. ASSUME NEW c \in Frames(d), FrameAsks(d)[c] \subseteq P PROVE c \in P
  <2>1. SUFFICES ASSUME Led(c) PROVE EmptyCycle(d, R)
    OBVIOUS
  <2>2. CASE c.schema \in c.above
    <3>1. c.schema \in R /\ ~OwnKeyword(d[c.schema]) /\ c.schema \in After(d, c.schema)
      BY <2>1, <2>2
    <3> QED BY <3>1 DEF EmptyCycle
  <2>3. CASE c.schema \notin c.above
    <3>1. E[c] = IF OwnKeyword(d[c.schema]) THEN {NotEmpty} ELSE EmptinessBelow(E, d[c.schema], c)
      BY <2>3, EmptyUnfolds, EmptinessParts
    <3>2. ~OwnKeyword(d[c.schema]) /\ Overflow \in EmptinessBelow(E, d[c.schema], c)
      BY <2>1, <3>1, AnswersDiffer
    <3>3. PICK m \in Children(d[c.schema]) : Overflow \in E[Callee(c, m)]
      <4> HIDE DEF E
      <4> QED BY <3>2, AnswersDiffer, BelowElements
    <3>4. Callee(c, m) \in FrameAsks(d)[c]
      BY <2>3 DEF FrameAsks
    <3>5. PICK b : b = Callee(c, m)
      OBVIOUS
    <3>6. b.schema = m /\ b.above = c.above \cup {c.schema}
      BY <3>5 DEF Callee, Frame
    <3>7. c.schema \in DOMAIN d /\ c.schema \in R
      BY <2>1
    <3>8. m \in R /\ m \in After(d, c.schema)
      BY <3>7, AfterFacts
    <3>9. \A a \in c.above : a \in R /\ ~OwnKeyword(d[a]) /\ m \in After(d, a)
      <4>1. ASSUME NEW a \in c.above PROVE a \in R /\ ~OwnKeyword(d[a]) /\ m \in After(d, a)
        <5>1. a \in R /\ ~OwnKeyword(d[a]) /\ c.schema \in After(d, a)
          BY <2>1
        <5>2. Children(d[c.schema]) \subseteq After(d, a)
          BY <5>1, AfterFacts
        <5> QED BY <5>1, <5>2
      <4> QED BY <4>1
    <3>10. Overflow \in E[b]
      BY <3>3, <3>5
    <3>11. b \in P
      BY <1>1, <3>4, <3>5
    <3> HIDE DEF E
    <3>12. Led(b)
      BY <3>2, <3>6, <3>7, <3>8, <3>9, <3>10
    <3> QED BY <3>11, <3>12
  <2> QED BY <2>2, <2>3
<1>2. \A c \in Frames(d) : c \in P
  <2> HIDE DEF P
  <2> QED BY <1>1, FrameInduction
<1>3. PICK c : c = Frame(n, {})
  OBVIOUS
<1>4. c \in Frames(d) /\ c.schema = n /\ c.above = {} /\ Overflow \in E[c]
  BY <1>3, FrameFacts DEF Frame, Emptiness
<1>5. Led(c)
  BY <1>4
<1> QED BY <1>2, <1>4, <1>5

-----------------------------------------------------------------------------
(* Schema.Validate.                                                         *)

\* The schemas below that are found valid, and what a schema makes of them.
ValidBelow(valid, d, c) == {m \in Children(d[c.schema]) : valid[Callee(c, m)]}
ValidWith(s, V) ==
    LET before == ToSet(s.anyOf) \cup ToSet(s.allOf) \cup Given(s.not)
        after  == Given(s.items) \cup PropertySchemas(s) \cup Given(s.additional)
    IN  /\ ~(s.readOnly /\ s.writeOnly)
        /\ \/ \E m \in ToSet(s.oneOf) : m \in V
           \/ /\ before \subseteq V
              /\ TypeSupported(s)
              /\ after \subseteq V
              /\ s.oneOf = <<>> \/ before \cup after # {}

LEMMA ValidityParts ==
  ASSUME NEW valid, NEW d, NEW c
  PROVE  ValidityOf(valid, d, c) = (c.schema \in c.above \/ ValidWith(d[c.schema], ValidBelow(valid, d, c)))
<1> DEFINE s == d[c.schema]
           V == ValidBelow(valid, d, c)
           before == ToSet(s.anyOf) \cup ToSet(s.allOf) \cup Given(s.not)
           after  == Given(s.items) \cup PropertySchemas(s) \cup Given(s.additional)
<1>1. before \subseteq Children(s) /\ after \subseteq Children(s) /\ ToSet(s.oneOf) \subseteq Children(s)
  BY DEF Children, Operands
<1>2. \A m \in Children(s) : m \in V <=> valid[Callee(c, m)]
  BY DEF ValidBelow
<1>3. /\ (\A m \in before : valid[Callee(c, m)]) <=> before \subseteq V
      /\ (\A m \in after : valid[Callee(c, m)]) <=> after \subseteq V
      /\ (\E m \in ToSet(s.oneOf) : valid[Callee(c, m)]) <=> \E m \in ToSet(s.oneOf) : m \in V
  <2> HIDE DEF before, after, V, s
  <2> QED BY <1>1, <1>2
<1>4. ValidityOf(valid, d, c) <=> (c.schema \in c.above \/ ValidWith(s, V))
  <2>1. ValidityOf(valid, d, c) <=>
          \/ c.schema \in c.above
          \/ /\ ~(s.readOnly /\ s.writeOnly)
             /\ \/ \E m \in ToSet(s.oneOf) : valid[Callee(c, m)]
                \/ /\ \A m \in before : valid[Callee(c, m)]
                   /\ TypeSupported(s)
                   /\ \A m \in after : valid[Callee(c, m)]
                   /\ s.oneOf = <<>> \/ before \cup after # {}
    BY Zenon DEF ValidityOf
  <2>2. ValidWith(s, V) <=>
             /\ ~(s.readOnly /\ s.writeOnly)
             /\ \/ \E m \in ToSet(s.oneOf) : m \in V
                \/ /\ before \subseteq V
                   /\ TypeSupported(s)
                   /\ after \subseteq V
                   /\ s.oneOf = <<>> \/ before \cup after # {}
    BY Zenon DEF ValidWith
  <2> HIDE DEF before, after, V, s
  <2> QED BY <1>3, <2>1, <2>2
<1>5. ValidityOf(valid, d, c) \in BOOLEAN /\ ValidWith(s, V) \in BOOLEAN
  BY DEF ValidityOf, ValidWith
<1> QED BY <1>4, <1>5

LEMMA ValidityLocal ==
  ASSUME NEW d, IsDocument(d), NEW c \in Frames(d), NEW f, NEW g, \A b \in FrameAsks(d)[c] : f[b] = g[b]
  PROVE  ValidityOf(f, d, c) = ValidityOf(g, d, c)
<1>1. CASE c.schema \in c.above
  BY <1>1, ValidityParts
<1>2. CASE c.schema \notin c.above
  <2>1. \A m \in Children(d[c.schema]) : f[Callee(c, m)] = g[Callee(c, m)]
    BY <1>2, AnswersLocal
  <2>2. ValidBelow(f, d, c) = ValidBelow(g, d, c)
    BY <2>1 DEF ValidBelow
  <2> QED BY <2>2, ValidityParts
<1> QED BY <1>1, <1>2

\* Every frame finds what it is made to find by those below.
LEMMA ValidIs ==
  ASSUME NEW d, IsDocument(d)
  PROVE  ValidCalls(d) = [x \in Frames(d) |-> ValidityOf(ValidCalls(d), d, x)]
<1> DEFINE Upto(n) == {x \in Frames(d) : FrameWeight(d)[x] < n}
           F(g, n) == [x \in Upto(n) |-> ValidityOf(g, d, x)]
           B == Cardinality(DOMAIN d) + 1
           T == {n \in 0..B : \E g : g = F(g, n)}
<1>0. B \in Nat /\ \A x \in Frames(d) : FrameWeight(d)[x] \in Nat /\ FrameWeight(d)[x] < B
  BY FrameFacts, FS_CardinalityType DEF IsDocument
<1> HIDE DEF B
<1>1. 0 \in T
  <2>1. Upto(0) = {}
    BY <1>0
  <2>2. PICK g : g = F(g, 0)
    BY <2>1
  <2> HIDE DEF F
  <2> QED BY <1>0, <2>2
<1>2. ASSUME NEW n \in 1..B, n - 1 \in T PROVE n \in T
  <2>1. PICK old : old = F(old, n - 1)
    BY <1>2
  <2>2. PICK g : g = F(old, n)
    OBVIOUS
  <2>3. ASSUME NEW x \in Upto(n) PROVE ValidityOf(old, d, x) = ValidityOf(g, d, x)
    <3>0. x \in Frames(d)
      OBVIOUS
    <3>1. ASSUME NEW y \in FrameAsks(d)[x] PROVE old[y] = g[y]
      <4>1. y \in Frames(d) /\ FrameWeight(d)[y] < FrameWeight(d)[x]
        BY <3>0, <3>1, FrameFacts
      <4>2. y \in Upto(n - 1) /\ y \in Upto(n)
        BY <1>0, <4>1
      <4>3. old[y] = ValidityOf(old, d, y) /\ g[y] = ValidityOf(old, d, y)
        <5> HIDE DEF Upto
        <5> QED BY <2>1, <2>2, <4>2
      <4> QED BY <4>3
    <3> QED BY <3>0, <3>1, ValidityLocal
  <2>4. g = F(g, n)
    <3> HIDE DEF Upto
    <3> QED BY <2>2, <2>3
  <2> QED BY <2>4
<1>3. \A n \in 0..B : n \in T
  <2> HIDE DEF T
  <2> QED BY <1>0, <1>1, <1>2, Upwards
<1>4. PICK g : g = F(g, B)
  <2>1. B \in T
    <3> HIDE DEF T
    <3> QED BY <1>0, <1>3
  <2> HIDE DEF F
  <2> QED BY <2>1
<1>5. Upto(B) = Frames(d)
  BY <1>0
<1>6. g = [x \in Frames(d) |-> ValidityOf(g, d, x)]
  BY <1>4, <1>5
<1> DEFINE chosen == CHOOSE f : f = [x \in Frames(d) |-> ValidityOf(f, d, x)]
<1>7. chosen = [x \in Frames(d) |-> ValidityOf(chosen, d, x)]
  BY <1>6
<1>8. chosen = ValidCalls(d)
  BY Zenon DEF ValidCalls
<1> HIDE DEF chosen
<1> QED BY <1>7, <1>8

LEMMA ValidUnfolds ==
  ASSUME NEW d, IsDocument(d), NEW c \in Frames(d)
  PROVE  ValidCalls(d)[c] = (c.schema \in c.above \/ ValidWith(d[c.schema], ValidBelow(ValidCalls(d), d, c)))
<1>1. ValidCalls(d)[c] = ValidityOf(ValidCalls(d), d, c)
  BY ValidIs, Zenon
<1> QED BY <1>1, ValidityParts

WellFormed(s) ==
    ~ \/ (s.readOnly /\ s.writeOnly)
      \/ (s.type = "array" /\ s.items = None)
      \/ s.type \notin {"", "boolean", "number", "integer", "string", "array", "object"}
      \/ (s.type \in {"number", "integer", "string"} /\ s.format = "unknown")

\* Without oneOf, a schema is valid if it is well formed and what it refers to is valid.
LEMMA ValidWithoutOneOf ==
  ASSUME NEW s, NEW V, s.oneOf = <<>>
  PROVE  ValidWith(s, V) <=> WellFormed(s) /\ Children(s) \subseteq V
<1>1. ToSet(s.oneOf) = {}
  BY DEF ToSet
<1>2. WellFormed(s) <=> ~(s.readOnly /\ s.writeOnly) /\ TypeSupported(s)
  BY DEF WellFormed, TypeSupported
<1>3. Children(s) = (ToSet(s.anyOf) \cup ToSet(s.allOf) \cup Given(s.not))
                    \cup (Given(s.items) \cup PropertySchemas(s) \cup Given(s.additional))
  BY <1>1 DEF Children, Operands
<1> QED BY <1>1, <1>2, <1>3 DEF ValidWith

\* Sets of well-formed schemas that refer to one another, or to A.
Sound(d, R, A, S) == S \subseteq R /\ \A x \in S : WellFormed(d[x]) /\ Children(d[x]) \subseteq S \cup A
SoundBut(d, R, A) == UNION {S \in SUBSET R : Sound(d, R, A, S)}

LEMMA SoundFacts ==
  ASSUME NEW d, NEW R, NEW A
  PROVE  /\ Sound(d, R, A, SoundBut(d, R, A))
         /\ \A n \in R : WellFormed(d[n]) /\ Children(d[n]) \subseteq SoundBut(d, R, A \cup {n}) \cup A \cup {n}
                           => n \in SoundBut(d, R, A)
<1>1. Sound(d, R, A, SoundBut(d, R, A))
  BY DEF Sound, SoundBut
<1>2. ASSUME NEW n \in R, WellFormed(d[n]), Children(d[n]) \subseteq SoundBut(d, R, A \cup {n}) \cup A \cup {n}
      PROVE  n \in SoundBut(d, R, A)
  <2>1. PICK S : S = SoundBut(d, R, A \cup {n})
    OBVIOUS
  <2>2. S \subseteq R /\ \A x \in S : WellFormed(d[x]) /\ Children(d[x]) \subseteq S \cup (A \cup {n})
    BY <2>1 DEF Sound, SoundBut
  <2>3. Sound(d, R, A, S \cup {n})
    BY <1>2, <2>1, <2>2 DEF Sound
  <2> QED BY <2>2, <2>3 DEF SoundBut
<1> QED BY <1>1, <1>2

LEMMA ValidExactly ==
  ASSUME NEW d, IsDocument(d), \A n \in ReachOf(d) : d[n].oneOf = <<>>
  PROVE  ValidSchema(d, Root) <=> \A n \in ReachOf(d) : WellFormed(d[n])
<1> DEFINE V == ValidCalls(d)
           R == ReachOf(d)
<1>1. R \subseteq DOMAIN d /\ Root \in R /\ \A n \in R : Children(d[n]) \subseteq R
  BY ReachFacts
<1>2. ASSUME NEW c \in Frames(d), c.schema \in R
      PROVE  V[c] <=> c.schema \in c.above
                      \/ (WellFormed(d[c.schema]) /\ Children(d[c.schema]) \subseteq ValidBelow(V, d, c))
  <2>1. ValidWith(d[c.schema], ValidBelow(V, d, c))
          <=> WellFormed(d[c.schema]) /\ Children(d[c.schema]) \subseteq ValidBelow(V, d, c)
    BY <1>2, ValidWithoutOneOf
  <2>2. V[c] = (c.schema \in c.above \/ ValidWith(d[c.schema], ValidBelow(V, d, c)))
    BY ValidUnfolds
  <2> QED BY Zenon, <2>1, <2>2
<1> HIDE DEF V, R
<1>3. \A c \in Frames(d) : c.schema \in R =>
        (V[c] <=> c.schema \in c.above
                  \/ (WellFormed(d[c.schema]) /\ \A m \in Children(d[c.schema]) : V[Callee(c, m)]))
  BY <1>2 DEF ValidBelow
<1>4. \A c \in Frames(d) : c.schema \in R => c.schema \in c.above \/ \A m \in Children(d[c.schema]) :
            /\ Callee(c, m) \in FrameAsks(d)[c]
            /\ Callee(c, m).schema = m /\ m \in R /\ Callee(c, m).above = c.above \cup {c.schema}
  BY <1>1 DEF FrameAsks, Callee, Frame
<1>5. ASSUME \A n \in R : WellFormed(d[n]) PROVE ValidSchema(d, Root)
  <2> DEFINE P == {c \in Frames(d) : c.schema \in R => V[c]}
  <2>1. ASSUME NEW c \in Frames(d), FrameAsks(d)[c] \subseteq P PROVE c \in P
    BY <1>3, <1>4, <1>5, <2>1
  <2>2. \A c \in Frames(d) : c \in P
    <3> HIDE DEF P
    <3> QED BY <2>1, FrameInduction
  <2>3. Frame(Root, {}) \in Frames(d) /\ Frame(Root, {}).schema = Root
    BY <1>1, FrameFacts DEF Frame
  <2> QED BY <1>1, <2>2, <2>3 DEF ValidSchema, V
<1>6. ASSUME ValidSchema(d, Root) PROVE \A n \in R : WellFormed(d[n])
  <2> DEFINE G(A) == SoundBut(d, R, A)
             P == {c \in Frames(d) : c.schema \in R /\ V[c] => c.schema \in G(c.above) \cup c.above}
  <2>1. ASSUME NEW c \in Frames(d), FrameAsks(d)[c] \subseteq P PROVE c \in P
    <3>1. SUFFICES ASSUME c.schema \in R, V[c], c.schema \notin c.above PROVE c.schema \in G(c.above)
      OBVIOUS
    <3>2. WellFormed(d[c.schema]) /\ \A m \in Children(d[c.schema]) : V[Callee(c, m)]
      BY <1>3, <3>1
    <3>3. ASSUME NEW m \in Children(d[c.schema])
          PROVE  m \in G(c.above \cup {c.schema}) \cup (c.above \cup {c.schema})
      <4>1. PICK b : b = Callee(c, m)
        OBVIOUS
      <4>2. b \in P /\ b.schema = m /\ m \in R /\ b.above = c.above \cup {c.schema} /\ V[b]
        BY <1>4, <2>1, <3>1, <3>2, <4>1
      <4> HIDE DEF G
      <4> QED BY <4>2
    <3>4. Children(d[c.schema]) \subseteq G(c.above \cup {c.schema}) \cup c.above \cup {c.schema}
      <4> HIDE DEF G
      <4> QED BY <3>3
    <3> QED BY <3>1, <3>2, <3>4, SoundFacts
  <2>2. \A c \in Frames(d) : c \in P
    <3> HIDE DEF P
    <3> QED BY <2>1, FrameInduction
  <2>3. PICK c : c = Frame(Root, {})
    OBVIOUS
  <2>4. c \in Frames(d) /\ c.schema = Root /\ c.above = {} /\ V[c]
    BY <1>1, <1>6, <2>3, FrameFacts DEF Frame, ValidSchema, V
  <2>5. Root \in G({})
    <3>1. c \in P
      BY <2>2, <2>4
    <3> QED BY <1>1, <2>4, <3>1
  <2>6. PICK S : S = G({})
    OBVIOUS
  <2>7. S \subseteq R /\ \A x \in S : WellFormed(d[x]) /\ Children(d[x]) \subseteq S
    <3>1. Sound(d, R, {}, S)
      BY <2>6, SoundFacts
    <3> QED BY <3>1 DEF Sound
  <2>8. R \subseteq S
    BY <1>1, <2>5, <2>6, <2>7, ReachFacts DEF R
  <2> QED BY <2>7, <2>8
<1> QED BY <1>5, <1>6 DEF R

-----------------------------------------------------------------------------
(* The parts of a visit.  `visits` has the outcomes of the calls below.     *)

NotPart(visits, s, c) ==
    IF s.not = None THEN {OK}
    ELSE {NotOutcome(o, c.mode) : o \in visits[Operand(c, s.not, Quiet(c.mode))]}
OneRow(visits, fast, s, c) ==
    [i \in DOMAIN s.oneOf |->
        {Counted(fast, s, c.value, s.oneOf[i], o) : o \in visits[Operand(c, s.oneOf[i], Quiet(c.mode))]}]
OnePart(visits, fast, s, c) ==
    IF s.oneOf = <<>> THEN {OK} ELSE OneOf(OneRow(visits, fast, s, c), c.mode)
AnyRow(visits, s, c) == [i \in DOMAIN s.anyOf |-> visits[Operand(c, s.anyOf[i], Quiet(c.mode))]]
AnyPart(visits, s, c) == IF s.anyOf = <<>> THEN {OK} ELSE AnyOf(AnyRow(visits, s, c), c.mode)
AllRow(visits, s, c) ==
    [i \in DOMAIN s.allOf |->
        {AllOfOutcome(o, c.mode) : o \in visits[Operand(c, s.allOf[i], Loud(c.mode))]}]

LEMMA OperationsParts ==
  ASSUME NEW visits, NEW fast, NEW d, NEW c
  PROVE  SetOperations(visits, fast, d, c) =
            IF d[c.schema].enum # <<>> THEN {EnumOutcome(fast, d[c.schema], c.value, c.mode)}
            ELSE Then(FALSE, NotPart(visits, d[c.schema], c),
                 Then(FALSE, OnePart(visits, fast, d[c.schema], c),
                 Then(FALSE, AnyPart(visits, d[c.schema], c), InOrder(FALSE, AllRow(visits, d[c.schema], c)))))
BY Zenon DEF SetOperations, NotPart, OneRow, OnePart, AnyRow, AnyPart, AllRow

ItemRow(visits, s, c) ==
    [i \in DOMAIN c.value.items |->
        {Mark(ToString(i - 1), o) : o \in visits[Inside(c, s.items, c.value.items[i])]}]
MemberRow(visits, fast, d, c) ==
    [i \in DOMAIN c.value.pairs |-> MemberOutcomes(visits, fast, d, c, c.value.pairs[i])]
Ranged(visits, fast, d, c) ==
    IF fast /\ ~Collects(c.mode) THEN LastWins(MemberRow(visits, fast, d, c))
    ELSE AnyOrder(Collects(c.mode), MemberRow(visits, fast, d, c))

LEMMA ArrayParts ==
  ASSUME NEW visits, NEW d, NEW c
  PROVE  VisitArray(visits, d, c) =
            IF WrongType(d[c.schema], c.value) THEN {Failing(c.mode, "type")}
            ELSE IF Stops(Report(c.mode, ArrayChecks(d[c.schema], c.value)), c.mode) \/ d[c.schema].items = None
                 THEN {Report(c.mode, ArrayChecks(d[c.schema], c.value))}
            ELSE Then(c.mode.multiError, {Report(c.mode, ArrayChecks(d[c.schema], c.value))},
                      InOrder(c.mode.multiError, ItemRow(visits, d[c.schema], c)))
BY Zenon DEF VisitArray, ItemRow

LEMMA ObjectParts ==
  ASSUME NEW visits, NEW fast, NEW d, NEW c
  PROVE  VisitObject(visits, fast, d, c) =
            IF WrongType(d[c.schema], c.value) THEN {Failing(c.mode, "type")}
            ELSE IF Stops(Report(c.mode, PropertyCountChecks(d[c.schema], c.value)), c.mode)
                 THEN {Report(c.mode, PropertyCountChecks(d[c.schema], c.value))}
            ELSE Then(Collects(c.mode), {Report(c.mode, PropertyCountChecks(d[c.schema], c.value))},
                      Then(Collects(c.mode), Ranged(visits, fast, d, c),
                           {Report(c.mode, RequiredChecks(d, d[c.schema], c.value, c.mode))}))
BY Zenon DEF VisitObject, MemberRow, Ranged

-----------------------------------------------------------------------------
(* The calls of a visit are finitely many: each is of a part of the value,  *)
(* or has one more schema above it.                                         *)

CalledBy(d) == [c \in Calls(d) |->
    IF c.schema \in c.above THEN {}
    ELSE {Operand(c, m, how) : m \in Operands(d[c.schema]), how \in Settings}
         \cup {Inside(c, m, x) : m \in Children(d[c.schema]), x \in Members(c.value)}]
CallWeight(d) == [c \in Calls(d) |->
    Depth(c.value) * (Cardinality(DOMAIN d) + 1) + Cardinality(DOMAIN d \ c.above)]

LEMMA SettingsFacts ==
  ASSUME NEW mode \in Settings
  PROVE  /\ mode.failfast \in BOOLEAN /\ mode.multiError \in BOOLEAN /\ mode.asreq \in BOOLEAN /\ mode.asrep \in BOOLEAN
         /\ Quiet(mode) \in Settings /\ Quiet(mode).failfast /\ Quiet(mode).multiError = mode.multiError
         /\ Quiet(mode).asreq = mode.asreq /\ Quiet(mode).asrep = mode.asrep
         /\ Loud(mode) \in Settings /\ ~Loud(mode).failfast /\ Loud(mode).multiError = mode.multiError
         /\ Loud(mode).asreq = mode.asreq /\ Loud(mode).asrep = mode.asrep
         /\ Collects(mode) \in BOOLEAN /\ (Collects(mode) <=> mode.multiError /\ ~mode.failfast)
BY DEF Settings, Quiet, Loud, Collects

LEMMA CallParts ==
  ASSUME NEW d, NEW c \in Calls(d)
  PROVE  /\ c.schema \in DOMAIN d /\ c.value \in Universe /\ c.mode \in Settings /\ c.above \in SUBSET DOMAIN d
         /\ \A m, how : /\ Operand(c, m, how).schema = m /\ Operand(c, m, how).value = c.value
                        /\ Operand(c, m, how).mode = how /\ Operand(c, m, how).above = c.above \cup {c.schema}
                        /\ m \in DOMAIN d /\ how \in Settings => Operand(c, m, how) \in Calls(d)
         /\ \A m, x : /\ Inside(c, m, x).schema = m /\ Inside(c, m, x).value = x
                      /\ Inside(c, m, x).mode = c.mode /\ Inside(c, m, x).above = {}
                      /\ m \in DOMAIN d /\ x \in Universe => Inside(c, m, x) \in Calls(d)
         /\ \A m \in DOMAIN d, x \in Universe, how \in Settings : Call(m, x, how) \in Calls(d)
<1>1. c.schema \in DOMAIN d /\ c.value \in Universe /\ c.mode \in Settings /\ c.above \in SUBSET DOMAIN d
  BY DEF Calls
<1>2. ASSUME NEW m, NEW how
      PROVE  /\ Operand(c, m, how).schema = m /\ Operand(c, m, how).value = c.value
             /\ Operand(c, m, how).mode = how /\ Operand(c, m, how).above = c.above \cup {c.schema}
  BY DEF Operand, Calls
<1>3. \A m, x : Inside(c, m, x) = [schema |-> m, value |-> x, mode |-> c.mode, above |-> {}]
  BY DEF Inside, Call
<1>4. ASSUME NEW m \in DOMAIN d, NEW how \in Settings PROVE Operand(c, m, how) \in Calls(d)
  BY DEF Operand, Calls
<1>5. \A m \in DOMAIN d, x \in Universe : Inside(c, m, x) \in Calls(d)
  BY <1>1, <1>3 DEF Calls
<1>6. \A m \in DOMAIN d, x \in Universe, how \in Settings : Call(m, x, how) \in Calls(d)
  BY DEF Calls, Call
<1> QED BY <1>1, <1>2, <1>3, <1>4, <1>5, <1>6

LEMMA MulLess ==
  ASSUME NEW a \in Nat, NEW b \in Nat, NEW k \in Nat, a < b
  PROVE  a * k + k <= b * k /\ a * k \in Nat /\ b * k \in Nat
<1>1. PICK e \in Nat : b = a + 1 + e
  <2>1. b - a - 1 \in Nat /\ b = a + 1 + (b - a - 1)
    OBVIOUS
  <2> QED BY <2>1
<1>2. b * k = a * k + k + e * k
  BY <1>1
<1>3. a * k \in Nat /\ e * k \in Nat
  OBVIOUS
<1> QED BY <1>2, <1>3

LEMMA CallFacts ==
  ASSUME NEW d, IsDocument(d)
  PROVE  /\ CallWeight(d) \in [Calls(d) -> Nat]
         /\ \A c \in Calls(d) : /\ CallWeight(d)[c] <= MaxNesting * (Cardinality(DOMAIN d) + 1) + Cardinality(DOMAIN d)
                                /\ CalledBy(d)[c] \subseteq Calls(d)
                                /\ \A b \in CalledBy(d)[c] : CallWeight(d)[b] < CallWeight(d)[c]
<1>1. PICK N : N = Cardinality(DOMAIN d)
  OBVIOUS
<1>2. IsFiniteSet(DOMAIN d) /\ N \in Nat
  BY <1>1, FS_CardinalityType DEF IsDocument
<1>3. \A A \in SUBSET DOMAIN d : Cardinality(DOMAIN d \ A) \in Nat /\ Cardinality(DOMAIN d \ A) <= N
  <2>1. ASSUME NEW A \in SUBSET DOMAIN d
        PROVE  Cardinality(DOMAIN d \ A) \in Nat /\ Cardinality(DOMAIN d \ A) <= N
    <3>1. DOMAIN d \ A \subseteq DOMAIN d
      OBVIOUS
    <3> QED BY <1>1, <1>2, <3>1, FS_Subset, FS_CardinalityType
  <2> QED BY <2>1
<1>4. \A c \in Calls(d) : CallWeight(d)[c] = Depth(c.value) * (N + 1) + Cardinality(DOMAIN d \ c.above)
  BY <1>1 DEF CallWeight
<1>5. ASSUME NEW c \in Calls(d)
      PROVE  CallWeight(d)[c] \in Nat /\ CallWeight(d)[c] <= MaxNesting * (N + 1) + N
  <2>1. Depth(c.value) \in 0..MaxNesting /\ MaxNesting \in Nat
    BY CallParts, DepthFacts, SchemaAssumption
  <2>2. PICK D \in 0..MaxNesting : D = Depth(c.value)
    BY <2>1
  <2>3. PICK C \in Nat : C = Cardinality(DOMAIN d \ c.above) /\ C <= N
    BY <1>3, CallParts
  <2>4. D * (N + 1) \in Nat /\ MaxNesting * (N + 1) \in Nat /\ D * (N + 1) <= MaxNesting * (N + 1)
    <3>1. D \in Nat /\ N + 1 \in Nat /\ MaxNesting \in Nat
      BY <1>2, <2>1
    <3>2. CASE D = MaxNesting
      BY <3>1, <3>2
    <3>3. CASE D < MaxNesting
      <4>1. D * (N + 1) + (N + 1) <= MaxNesting * (N + 1) /\ D * (N + 1) \in Nat /\ MaxNesting * (N + 1) \in Nat
        BY <3>1, <3>3, MulLess
      <4> QED BY <3>1, <4>1
    <3> QED BY <2>1, <3>2, <3>3
  <2>5. CallWeight(d)[c] = D * (N + 1) + C
    BY <1>4, <2>2, <2>3
  <2> QED BY <1>2, <2>3, <2>4, <2>5
<1>6. ASSUME NEW c \in Calls(d), NEW b \in CalledBy(d)[c]
      PROVE  b \in Calls(d) /\ CallWeight(d)[b] < CallWeight(d)[c]
  <2>1. c.schema \in DOMAIN d /\ c.value \in Universe /\ c.mode \in Settings /\ c.above \in SUBSET DOMAIN d
    BY CallParts
  <2>2. Operands(d[c.schema]) \subseteq DOMAIN d /\ Children(d[c.schema]) \subseteq DOMAIN d
    BY <2>1, SchemaFacts
  <2>3. c.schema \notin c.above /\ ((\E m \in Operands(d[c.schema]), how \in Settings : b = Operand(c, m, how))
                                    \/ (\E m \in Children(d[c.schema]), x \in Members(c.value) : b = Inside(c, m, x)))
    BY DEF CalledBy
  <2>4. CASE \E m \in Operands(d[c.schema]), how \in Settings : b = Operand(c, m, how)
    <3>1. b \in Calls(d) /\ b.value = c.value /\ b.above = c.above \cup {c.schema}
      BY <2>2, <2>4, CallParts
    <3>2. PICK C \in Nat : C = Cardinality(DOMAIN d \ c.above)
      BY <1>3, <2>1
    <3>3. PICK B \in Nat : B = Cardinality(DOMAIN d \ (c.above \cup {c.schema})) /\ B < C
      BY <1>2, <2>1, <2>3, <3>2, OneLess
    <3>4. PICK D \in Nat : D = Depth(c.value) * (N + 1)
      <4>1. Depth(c.value) \in Nat
        BY <2>1, DepthFacts
      <4>2. \A a, k \in Nat : a * k \in Nat
        OBVIOUS
      <4> QED BY <1>2, <4>1, <4>2
    <3>5. CallWeight(d)[b] = D + B /\ CallWeight(d)[c] = D + C
      BY <1>4, <3>1, <3>2, <3>3, <3>4
    <3> QED BY <3>1, <3>3, <3>5
  <2>5. CASE \E m \in Children(d[c.schema]), x \in Members(c.value) : b = Inside(c, m, x)
    <3>1. PICK m \in Children(d[c.schema]), x \in Members(c.value) : b = Inside(c, m, x)
      BY <2>5
    <3>2. x \in Universe /\ Depth(x) < Depth(c.value)
      BY <2>1, UniverseFacts
    <3>3. b \in Calls(d) /\ b.value = x /\ b.above = {}
      BY <2>2, <3>1, <3>2, CallParts
    <3>4. PICK D \in Nat : D = Depth(c.value)
      BY <2>1, DepthFacts
    <3>5. PICK X \in Nat : X = Depth(x)
      BY <3>2, DepthFacts
    <3>6. X * (N + 1) + (N + 1) <= D * (N + 1) /\ X * (N + 1) \in Nat /\ D * (N + 1) \in Nat
      <4>1. N + 1 \in Nat /\ X < D
        BY <1>2, <3>2, <3>4, <3>5
      <4> QED BY <4>1, MulLess
    <3>7. PICK B \in Nat : B = Cardinality(DOMAIN d \ b.above) /\ B <= N
      BY <1>3, <3>3
    <3>8. PICK C \in Nat : C = Cardinality(DOMAIN d \ c.above)
      BY <1>3, <2>1
    <3>9. CallWeight(d)[b] = X * (N + 1) + B /\ CallWeight(d)[c] = D * (N + 1) + C
      BY <1>4, <3>3, <3>4, <3>5, <3>7, <3>8
    <3> QED BY <1>2, <3>3, <3>6, <3>7, <3>9
  <2> QED BY <2>3, <2>4, <2>5
<1>7. CallWeight(d) \in [Calls(d) -> Nat]
  BY <1>5 DEF CallWeight
<1> QED BY <1>1, <1>5, <1>6, <1>7

LEMMA VisitInduction ==
  ASSUME NEW d, IsDocument(d), NEW P,
         \A c \in Calls(d) : CalledBy(d)[c] \subseteq P => c \in P
  PROVE  \A c \in Calls(d) : c \in P
<1>1. PICK S, asks, weight : S = Calls(d) /\ asks = CalledBy(d) /\ weight = CallWeight(d)
  OBVIOUS
<1>2. weight \in [S -> Nat]
  BY <1>1, CallFacts
<1>3. \A x \in S : asks[x] \subseteq S /\ \A y \in asks[x] : weight[y] < weight[x]
  BY <1>1, CallFacts
<1>4. \A x \in S : asks[x] \subseteq P => x \in P
  BY <1>1
<1>5. S \subseteq P
  BY <1>2, <1>3, <1>4, CallInduction
<1> QED BY <1>1, <1>5

-----------------------------------------------------------------------------
(* A visit is made of the outcomes of the calls below it, and of no others. *)

LEMMA BelowLocal ==
  ASSUME NEW d, NEW c \in Calls(d), c.schema \notin c.above, NEW f, NEW g, \A b \in CalledBy(d)[c] : f[b] = g[b]
  PROVE  /\ \A m \in Operands(d[c.schema]), how \in Settings : f[Operand(c, m, how)] = g[Operand(c, m, how)]
         /\ \A m \in Children(d[c.schema]), x \in Members(c.value) : f[Inside(c, m, x)] = g[Inside(c, m, x)]
<1>1. ASSUME NEW m \in Operands(d[c.schema]), NEW how \in Settings PROVE Operand(c, m, how) \in CalledBy(d)[c]
  BY DEF CalledBy
<1>2. ASSUME NEW m \in Children(d[c.schema]), NEW x \in Members(c.value) PROVE Inside(c, m, x) \in CalledBy(d)[c]
  BY DEF CalledBy
<1> QED BY <1>1, <1>2

LEMMA OperationsLocal ==
  ASSUME NEW d, IsDocument(d), NEW c \in Calls(d), c.schema \notin c.above, NEW fast,
         NEW f, NEW g, \A b \in CalledBy(d)[c] : f[b] = g[b]
  PROVE  SetOperations(f, fast, d, c) = SetOperations(g, fast, d, c)
<1> DEFINE s == d[c.schema]
<1>1. c.schema \in DOMAIN d /\ Quiet(c.mode) \in Settings /\ Loud(c.mode) \in Settings
  BY CallParts, SettingsFacts
<1>2. /\ s.not # None => s.not \in Operands(s)
      /\ \A i \in DOMAIN s.oneOf : s.oneOf[i] \in Operands(s)
      /\ \A i \in DOMAIN s.anyOf : s.anyOf[i] \in Operands(s)
      /\ \A i \in DOMAIN s.allOf : s.allOf[i] \in Operands(s)
  BY <1>1, SchemaFacts
<1>3. \A m \in Operands(s) : /\ f[Operand(c, m, Quiet(c.mode))] = g[Operand(c, m, Quiet(c.mode))]
                             /\ f[Operand(c, m, Loud(c.mode))] = g[Operand(c, m, Loud(c.mode))]
  BY <1>1, BelowLocal
<1> HIDE DEF s
<1>4. NotPart(f, s, c) = NotPart(g, s, c)
  BY <1>2, <1>3 DEF NotPart
<1>5. OneRow(f, fast, s, c) = OneRow(g, fast, s, c)
  <2>1. \A i \in DOMAIN s.oneOf : f[Operand(c, s.oneOf[i], Quiet(c.mode))] = g[Operand(c, s.oneOf[i], Quiet(c.mode))]
    BY <1>2, <1>3
  <2> QED BY <2>1 DEF OneRow
<1>6. AnyRow(f, s, c) = AnyRow(g, s, c)
  <2>1. \A i \in DOMAIN s.anyOf : f[Operand(c, s.anyOf[i], Quiet(c.mode))] = g[Operand(c, s.anyOf[i], Quiet(c.mode))]
    BY <1>2, <1>3
  <2> QED BY <2>1 DEF AnyRow
<1>7. AllRow(f, s, c) = AllRow(g, s, c)
  <2>1. \A i \in DOMAIN s.allOf : f[Operand(c, s.allOf[i], Loud(c.mode))] = g[Operand(c, s.allOf[i], Loud(c.mode))]
    BY <1>2, <1>3
  <2> QED BY <2>1 DEF AllRow
<1> QED BY <1>4, <1>5, <1>6, <1>7, OperationsParts DEF s, OnePart, AnyPart

LEMMA PartsOfValues ==
  ASSUME NEW v
  PROVE  /\ v.t = "arr" => \A i \in DOMAIN v.items : v.items[i] \in Members(v)
         /\ v.t = "obj" => \A i \in DOMAIN v.pairs : v.pairs[i].v \in Members(v)
BY DEF Members

LEMMA KindLocal ==
  ASSUME NEW d, IsDocument(d), NEW c \in Calls(d), c.schema \notin c.above, NEW fast,
         NEW f, NEW g, \A b \in CalledBy(d)[c] : f[b] = g[b]
  PROVE  ByKind(f, fast, d, c) = ByKind(g, fast, d, c)
<1> DEFINE s == d[c.schema]
           v == c.value
<1>1. c.schema \in DOMAIN d
  BY CallParts
<1>2. /\ s.items # None => s.items \in Children(s)
      /\ s.additional # None => s.additional \in Children(s)
      /\ \A k \in DOMAIN s.properties : s.properties[k] \in Children(s)
  BY <1>1, SchemaFacts
<1>3. \A m \in Children(s), x \in Members(v) : f[Inside(c, m, x)] = g[Inside(c, m, x)]
  BY BelowLocal
<1>4. CASE v.t = "arr"
  <2>1. s.items # None => ItemRow(f, s, c) = ItemRow(g, s, c)
    <3> HIDE DEF s
    <3>1. s.items # None => \A i \in DOMAIN c.value.items :
             f[Inside(c, s.items, c.value.items[i])] = g[Inside(c, s.items, c.value.items[i])]
      BY <1>2, <1>3, <1>4, PartsOfValues
    <3> QED BY <3>1 DEF ItemRow
  <2>2. VisitArray(f, d, c) = VisitArray(g, d, c)
    BY <2>1, ArrayParts
  <2>3. c.value.t = "arr"
    BY <1>4
  <2> HIDE DEF s, v
  <2> QED BY <2>2, <2>3 DEF ByKind
<1>5. CASE v.t = "obj"
  <2>1. ASSUME NEW i \in DOMAIN c.value.pairs
        PROVE  MemberOutcomes(f, fast, d, c, c.value.pairs[i]) = MemberOutcomes(g, fast, d, c, c.value.pairs[i])
    <3>1. PICK p : p = c.value.pairs[i]
      OBVIOUS
    <3>2. \A m \in Children(s) : f[Inside(c, m, p.v)] = g[Inside(c, m, p.v)]
      BY <1>3, <1>5, <3>1, PartsOfValues
    <3>3. \A m \in Children(s) : {Keyed(p.k, o, c.mode) : o \in f[Inside(c, m, p.v)]}
                                  = {Keyed(p.k, o, c.mode) : o \in g[Inside(c, m, p.v)]}
      BY <3>2
    <3> HIDE DEF s
    <3>4. MemberOutcomes(f, fast, d, c, p) = MemberOutcomes(g, fast, d, c, p)
      BY <1>2, <3>3 DEF MemberOutcomes, s
    <3> QED BY <3>1, <3>4
  <2>2. MemberRow(f, fast, d, c) = MemberRow(g, fast, d, c)
    BY <2>1 DEF MemberRow
  <2>3. VisitObject(f, fast, d, c) = VisitObject(g, fast, d, c)
    BY <2>2, ObjectParts DEF Ranged
  <2>4. c.value.t = "obj"
    BY <1>5
  <2> HIDE DEF s, v
  <2> QED BY <2>3, <2>4 DEF ByKind
<1>6. CASE v.t # "arr" /\ v.t # "obj"
  <2>1. v.t \in Kinds
    BY CallParts, UniverseFacts
  <2> QED BY <1>6, <2>1 DEF ByKind, Kinds
<1> QED BY <1>4, <1>5, <1>6

LEMMA OutcomesLocal ==
  ASSUME NEW d, IsDocument(d), NEW c \in Calls(d), NEW fast, NEW f, NEW g, \A b \in CalledBy(d)[c] : f[b] = g[b]
  PROVE  OutcomesOf(f, fast, d, c) = OutcomesOf(g, fast, d, c)
<1>1. CASE c.schema \in c.above
  BY <1>1 DEF OutcomesOf
<1>2. CASE c.schema \notin c.above
  <2>1. SetOperations(f, fast, d, c) = SetOperations(g, fast, d, c) /\ ByKind(f, fast, d, c) = ByKind(g, fast, d, c)
    BY <1>2, OperationsLocal, KindLocal
  <2> QED BY <2>1 DEF OutcomesOf
<1> QED BY <1>1, <1>2

LEMMA BoundFacts ==
  ASSUME NEW d, IsDocument(d)
  PROVE  /\ MaxNesting * (Cardinality(DOMAIN d) + 1) + Cardinality(DOMAIN d) + 1 \in Nat
         /\ \A c \in Calls(d) :
               /\ CallWeight(d)[c] \in Nat
               /\ CallWeight(d)[c] < MaxNesting * (Cardinality(DOMAIN d) + 1) + Cardinality(DOMAIN d) + 1
<1>1. PICK N \in Nat : N = Cardinality(DOMAIN d)
  BY FS_CardinalityType DEF IsDocument
<1>2. \A a, b \in Nat : a * b \in Nat
  OBVIOUS
<1>3. PICK M \in Nat : M = MaxNesting * (N + 1)
  BY <1>2, SchemaAssumption
<1>4. \A c \in Calls(d) : CallWeight(d)[c] \in Nat /\ CallWeight(d)[c] <= M + N
  BY <1>1, <1>3, CallFacts
<1>5. \A c \in Calls(d) : CallWeight(d)[c] < M + N + 1
  BY <1>4
<1> QED BY <1>1, <1>3, <1>4, <1>5

\* The outcomes of a call are what those of the calls below it make.
LEMMA VisitIs ==
  ASSUME NEW d, IsDocument(d), NEW fast
  PROVE  VisitCalls(fast, d) = [x \in Calls(d) |-> OutcomesOf(VisitCalls(fast, d), fast, d, x)]
<1> DEFINE Upto(n) == {x \in Calls(d) : CallWeight(d)[x] < n}
           F(g, n) == [x \in Upto(n) |-> OutcomesOf(g, fast, d, x)]
           B == MaxNesting * (Cardinality(DOMAIN d) + 1) + Cardinality(DOMAIN d) + 1
           T == {n \in 0..B : \E g : g = F(g, n)}
<1>0. B \in Nat /\ \A x \in Calls(d) : CallWeight(d)[x] \in Nat /\ CallWeight(d)[x] < B
  BY BoundFacts
<1> HIDE DEF B
<1>1. 0 \in T
  <2>1. Upto(0) = {}
    BY <1>0
  <2>2. PICK g : g = F(g, 0)
    BY <2>1
  <2> HIDE DEF F
  <2> QED BY <1>0, <2>2
<1>2. ASSUME NEW n \in 1..B, n - 1 \in T PROVE n \in T
  <2>1. PICK old : old = F(old, n - 1)
    BY <1>2
  <2>2. PICK g : g = F(old, n)
    OBVIOUS
  <2>3. ASSUME NEW x \in Upto(n) PROVE OutcomesOf(old, fast, d, x) = OutcomesOf(g, fast, d, x)
    <3>0. x \in Calls(d)
      OBVIOUS
    <3>1. ASSUME NEW y \in CalledBy(d)[x] PROVE old[y] = g[y]
      <4>1. y \in Calls(d) /\ CallWeight(d)[y] < CallWeight(d)[x]
        BY <3>0, <3>1, CallFacts
      <4>2. y \in Upto(n - 1) /\ y \in Upto(n)
        BY <1>0, <4>1
      <4>3. old[y] = OutcomesOf(old, fast, d, y) /\ g[y] = OutcomesOf(old, fast, d, y)
        <5> HIDE DEF Upto
        <5> QED BY <2>1, <2>2, <4>2
      <4> QED BY <4>3
    <3> QED BY <3>0, <3>1, OutcomesLocal
  <2>4. g = F(g, n)
    <3> HIDE DEF Upto
    <3> QED BY <2>2, <2>3
  <2> QED BY <2>4
<1>3. \A n \in 0..B : n \in T
  <2> HIDE DEF T
  <2> QED BY <1>0, <1>1, <1>2, Upwards
<1>4. PICK g : g = F(g, B)
  <2>1. B \in T
    <3> HIDE DEF T
    <3> QED BY <1>0, <1>3
  <2> HIDE DEF F
  <2> QED BY <2>1
<1>5. Upto(B) = Calls(d)
  BY <1>0
<1>6. g = [x \in Calls(d) |-> OutcomesOf(g, fast, d, x)]
  BY <1>4, <1>5
<1> DEFINE chosen == CHOOSE f : f = [x \in Calls(d) |-> OutcomesOf(f, fast, d, x)]
<1>7. chosen = [x \in Calls(d) |-> OutcomesOf(chosen, fast, d, x)]
  BY <1>6
<1>8. chosen = VisitCalls(fast, d)
  BY Zenon DEF VisitCalls
<1> HIDE DEF chosen
<1> QED BY <1>7, <1>8

LEMMA VisitUnfolds ==
  ASSUME NEW d, IsDocument(d), NEW fast, NEW c \in Calls(d)
  PROVE  VisitCalls(fast, d)[c] = OutcomesOf(VisitCalls(fast, d), fast, d, c)
BY VisitIs, Zenon

-----------------------------------------------------------------------------
(* What a schema asks is made of what those below it ask.                   *)

\* A call, whatever its mode, and what it is held against.
AskOf(c) == [schema |-> c.schema, value |-> c.value, above |-> c.above]
AskedBy(d) == [a \in Asks(d) |->
    IF a.schema \in a.above THEN {}
    ELSE {AskAlso(a, m) : m \in Operands(d[a.schema])}
         \cup {Ask(m, x) : m \in Children(d[a.schema]), x \in Members(a.value)}]
SomeMode == CHOOSE mode \in Settings : TRUE
CallOf(a) == [schema |-> a.schema, value |-> a.value, mode |-> SomeMode, above |-> a.above]
AskWeight(d) == [a \in Asks(d) |-> CallWeight(d)[CallOf(a)]]

LEMMA SomeModeIs == SomeMode \in Settings
<1>1. [failfast |-> FALSE, multiError |-> FALSE, asreq |-> FALSE, asrep |-> FALSE] \in Settings
  BY DEF Settings
<1> QED BY <1>1 DEF SomeMode

LEMMA AskParts ==
  ASSUME NEW d, NEW a \in Asks(d)
  PROVE  /\ a.schema \in DOMAIN d /\ a.value \in Universe /\ a.above \in SUBSET DOMAIN d
         /\ CallOf(a) \in Calls(d)
         /\ CallOf(a).schema = a.schema /\ CallOf(a).value = a.value /\ CallOf(a).above = a.above
<1>1. a.schema \in DOMAIN d /\ a.value \in Universe /\ a.above \in SUBSET DOMAIN d
  BY DEF Asks
<1>2. /\ CallOf(a) \in Calls(d)
      /\ CallOf(a).schema = a.schema /\ CallOf(a).value = a.value /\ CallOf(a).above = a.above
  BY <1>1, SomeModeIs DEF CallOf, Calls
<1> QED BY <1>1, <1>2

LEMMA AskAlsoParts ==
  ASSUME NEW d, NEW a \in Asks(d), NEW m \in DOMAIN d
  PROVE  /\ AskAlso(a, m) \in Asks(d)
         /\ AskAlso(a, m).schema = m /\ AskAlso(a, m).value = a.value
         /\ AskAlso(a, m).above = a.above \cup {a.schema}
<1>1. AskAlso(a, m).schema = m /\ AskAlso(a, m).value = a.value /\ AskAlso(a, m).above = a.above \cup {a.schema}
  BY DEF AskAlso, Asks
<1>2. AskAlso(a, m) \in Asks(d)
  BY DEF AskAlso, Asks
<1> QED BY <1>1, <1>2

LEMMA AskInsideParts ==
  ASSUME NEW d, NEW m \in DOMAIN d, NEW x \in Universe
  PROVE  /\ Ask(m, x) \in Asks(d)
         /\ Ask(m, x).schema = m /\ Ask(m, x).value = x /\ Ask(m, x).above = {}
BY DEF Ask, Asks

LEMMA AskFacts ==
  ASSUME NEW d, IsDocument(d)
  PROVE  /\ \A a \in Asks(d) : /\ AskWeight(d)[a] \in Nat
                               /\ AskWeight(d)[a] < MaxNesting * (Cardinality(DOMAIN d) + 1) + Cardinality(DOMAIN d) + 1
                               /\ AskedBy(d)[a] \subseteq Asks(d)
                               /\ \A b \in AskedBy(d)[a] : AskWeight(d)[b] < AskWeight(d)[a]
<1>1. \A a \in Asks(d) : AskWeight(d)[a] = CallWeight(d)[CallOf(a)]
  BY DEF AskWeight
<1>2. ASSUME NEW a \in Asks(d), NEW b \in AskedBy(d)[a]
      PROVE  b \in Asks(d) /\ AskWeight(d)[b] < AskWeight(d)[a]
  <2>1. PICK c \in Calls(d) : c = CallOf(a) /\ c.schema = a.schema /\ c.value = a.value /\ c.above = a.above
    BY AskParts
  <2>2. a.schema \in DOMAIN d /\ a.value \in Universe
    BY AskParts
  <2>3. Operands(d[a.schema]) \subseteq DOMAIN d /\ Children(d[a.schema]) \subseteq DOMAIN d
    BY <2>2, SchemaFacts
  <2>4. a.schema \notin a.above /\ ((\E m \in Operands(d[a.schema]) : b = AskAlso(a, m))
                                    \/ (\E m \in Children(d[a.schema]), x \in Members(a.value) : b = Ask(m, x)))
    BY DEF AskedBy
  <2>5. ASSUME NEW e \in CalledBy(d)[c], b \in Asks(d), e.value = b.value, e.above = b.above
        PROVE  AskWeight(d)[b] < AskWeight(d)[a]
    <3>1. e \in Calls(d) /\ CallWeight(d)[e] < CallWeight(d)[c]
      BY CallFacts
    <3>2. CallOf(b) \in Calls(d) /\ CallOf(b).value = e.value /\ CallOf(b).above = e.above
      BY <2>5, AskParts
    <3>3. CallWeight(d)[CallOf(b)] = CallWeight(d)[e]
      BY <3>1, <3>2 DEF CallWeight
    <3> QED BY <1>1, <2>1, <2>5, <3>1, <3>3
  <2>6. CASE \E m \in Operands(d[a.schema]) : b = AskAlso(a, m)
    <3>1. PICK m \in Operands(d[a.schema]) : b = AskAlso(a, m)
      BY <2>6
    <3>2. b \in Asks(d) /\ b.value = a.value /\ b.above = a.above \cup {a.schema}
      <4>1. m \in DOMAIN d
        BY <2>3
      <4>2. /\ AskAlso(a, m) \in Asks(d) /\ AskAlso(a, m).value = a.value
            /\ AskAlso(a, m).above = a.above \cup {a.schema}
        BY <4>1, AskAlsoParts
      <4> QED BY <3>1, <4>2
    <3>3. PICK e : e = Operand(c, m, SomeMode)
      OBVIOUS
    <3>4. e \in CalledBy(d)[c]
      BY <2>1, <2>4, <3>1, <3>3, SomeModeIs DEF CalledBy
    <3>5. e.value = a.value /\ e.above = a.above \cup {a.schema}
      BY <2>1, <3>3, CallParts
    <3> QED BY <2>5, <3>2, <3>4, <3>5
  <2>7. CASE \E m \in Children(d[a.schema]), x \in Members(a.value) : b = Ask(m, x)
    <3>1. PICK m \in Children(d[a.schema]), x \in Members(a.value) : b = Ask(m, x)
      BY <2>7
    <3>2. x \in Universe
      BY <2>2, UniverseFacts
    <3>3. b \in Asks(d) /\ b.value = x /\ b.above = {}
      <4>1. m \in DOMAIN d
        BY <2>3
      <4>2. Ask(m, x) \in Asks(d) /\ Ask(m, x).value = x /\ Ask(m, x).above = {}
        BY <3>2, <4>1, AskInsideParts
      <4> QED BY <3>1, <4>2
    <3>4. PICK e : e = Inside(c, m, x)
      OBVIOUS
    <3>5. e \in CalledBy(d)[c]
      BY <2>1, <2>4, <3>1, <3>4 DEF CalledBy
    <3>6. e.value = x /\ e.above = {}
      BY <3>4, CallParts
    <3> QED BY <2>5, <3>3, <3>5, <3>6
  <2> QED BY <2>4, <2>6, <2>7
<1>3. ASSUME NEW a \in Asks(d)
      PROVE  /\ AskWeight(d)[a] \in Nat
             /\ AskWeight(d)[a] < MaxNesting * (Cardinality(DOMAIN d) + 1) + Cardinality(DOMAIN d) + 1
  <2>1. PICK w : w = CallWeight(d)[CallOf(a)]
    OBVIOUS
  <2>2. w \in Nat /\ w < MaxNesting * (Cardinality(DOMAIN d) + 1) + Cardinality(DOMAIN d) + 1
    BY <2>1, AskParts, BoundFacts
  <2> QED BY <1>1, <2>1, <2>2
<1> QED BY <1>2, <1>3

LEMMA ConformsLocal ==
  ASSUME NEW d, IsDocument(d), NEW a \in Asks(d), NEW mode, NEW f, NEW g, \A b \in AskedBy(d)[a] : f[b] = g[b]
  PROVE  ConformsIn(f, d, a, mode) = ConformsIn(g, d, a, mode)
<1>1. CASE a.schema \in a.above
  BY <1>1 DEF ConformsIn
<1>2. CASE a.schema \notin a.above
  <2> DEFINE s == d[a.schema]
             v == a.value
  <2>1. a.schema \in DOMAIN d
    BY AskParts
  <2>2. \A m \in Operands(s) : f[AskAlso(a, m)] = g[AskAlso(a, m)]
    BY <1>2 DEF AskedBy
  <2>3. \A m \in Children(s), x \in Members(v) : f[Ask(m, x)] = g[Ask(m, x)]
    BY <1>2 DEF AskedBy
  <2>4. /\ s.not # None => s.not \in Operands(s)
        /\ \A i \in DOMAIN s.oneOf : s.oneOf[i] \in Operands(s)
        /\ \A i \in DOMAIN s.anyOf : s.anyOf[i] \in Operands(s)
        /\ \A i \in DOMAIN s.allOf : s.allOf[i] \in Operands(s)
    BY <2>1, SchemaFacts
  <2>5. /\ s.items # None => s.items \in Children(s)
        /\ s.additional # None => s.additional \in Children(s)
        /\ \A k \in DOMAIN s.properties : s.properties[k] \in Children(s)
    BY <2>1, SchemaFacts
  <2>6. OperandsConform(f, d, a) = OperandsConform(g, d, a)
    <3>1. s.not # None => f[AskAlso(a, s.not)] = g[AskAlso(a, s.not)]
      BY <2>2, <2>4
    <3>2. /\ \A i \in DOMAIN s.oneOf : f[AskAlso(a, s.oneOf[i])] = g[AskAlso(a, s.oneOf[i])]
          /\ \A i \in DOMAIN s.anyOf : f[AskAlso(a, s.anyOf[i])] = g[AskAlso(a, s.anyOf[i])]
          /\ \A i \in DOMAIN s.allOf : f[AskAlso(a, s.allOf[i])] = g[AskAlso(a, s.allOf[i])]
      BY <2>2, <2>4
    <3>3. {i \in DOMAIN s.oneOf : f[AskAlso(a, s.oneOf[i])] /\ Chosen(s, v, s.oneOf[i])}
          = {i \in DOMAIN s.oneOf : g[AskAlso(a, s.oneOf[i])] /\ Chosen(s, v, s.oneOf[i])}
      BY <3>2
    <3>4. (\E i \in DOMAIN s.anyOf : f[AskAlso(a, s.anyOf[i])]) <=> (\E i \in DOMAIN s.anyOf : g[AskAlso(a, s.anyOf[i])])
      BY <3>2
    <3>5. (\A i \in DOMAIN s.allOf : f[AskAlso(a, s.allOf[i])]) <=> (\A i \in DOMAIN s.allOf : g[AskAlso(a, s.allOf[i])])
      BY <3>2
    <3>6. CASE s.enum # <<>>
      BY <3>6 DEF OperandsConform
    <3>7. CASE s.enum = <<>>
      <4>1. \A h : OperandsConform(h, d, a) =
               (/\ s.not # None => ~h[AskAlso(a, s.not)]
                /\ s.oneOf # <<>> => Cardinality({i \in DOMAIN s.oneOf : h[AskAlso(a, s.oneOf[i])] /\ Chosen(s, v, s.oneOf[i])}) = 1
                /\ s.anyOf # <<>> => \E i \in DOMAIN s.anyOf : h[AskAlso(a, s.anyOf[i])]
                /\ \A i \in DOMAIN s.allOf : h[AskAlso(a, s.allOf[i])])
        BY <3>7 DEF OperandsConform
      <4> HIDE DEF s, v
      <4> QED BY <3>1, <3>3, <3>4, <3>5, <4>1
    <3> QED BY <3>6, <3>7
  <2>7. v.t = "arr" => ItemsConform(f, s, v) = ItemsConform(g, s, v)
    <3>1. v.t = "arr" /\ s.items # None => \A i \in DOMAIN v.items : f[Ask(s.items, v.items[i])] = g[Ask(s.items, v.items[i])]
      <4> HIDE DEF s, v
      <4> QED BY <2>3, <2>5, PartsOfValues
    <3> HIDE DEF s, v
    <3>2. ItemsConform(f, s, v) \in BOOLEAN /\ ItemsConform(g, s, v) \in BOOLEAN
      BY DEF ItemsConform
    <3>3. v.t = "arr" => (ItemsConform(f, s, v) <=> ItemsConform(g, s, v))
      BY <3>1 DEF ItemsConform
    <3> QED BY <3>2, <3>3
  <2>8. v.t = "obj" => ObjectConforms(f, d, s, v, mode) = ObjectConforms(g, d, s, v, mode)
    <3>1. ASSUME v.t = "obj", NEW i \in DOMAIN v.pairs
          PROVE  MemberConforms(f, s, v.pairs[i]) = MemberConforms(g, s, v.pairs[i])
      <4>1. v.pairs[i].v \in Members(v)
        BY <3>1, PartsOfValues
      <4>2. \A m \in Children(s) : f[Ask(m, v.pairs[i].v)] = g[Ask(m, v.pairs[i].v)]
        BY <2>3, <4>1
      <4> HIDE DEF s, v
      <4> QED BY <2>5, <4>2 DEF MemberConforms
    <3>2. v.t = "obj" => ((\A i \in DOMAIN v.pairs : MemberConforms(f, s, v.pairs[i]))
                          <=> (\A i \in DOMAIN v.pairs : MemberConforms(g, s, v.pairs[i])))
      BY <3>1
    <3> HIDE DEF s, v
    <3> QED BY <3>2 DEF ObjectConforms
  <2> HIDE DEF s, v
  <2> QED BY <2>6, <2>7, <2>8 DEF ConformsIn, s, v
<1> QED BY <1>1, <1>2

\* What is asked is what is made of what is asked below.
LEMMA ConformIs ==
  ASSUME NEW d, IsDocument(d), NEW mode
  PROVE  ConformCalls(d, mode) = [x \in Asks(d) |-> ConformsIn(ConformCalls(d, mode), d, x, mode)]
<1> DEFINE Upto(n) == {x \in Asks(d) : AskWeight(d)[x] < n}
           F(g, n) == [x \in Upto(n) |-> ConformsIn(g, d, x, mode)]
           B == MaxNesting * (Cardinality(DOMAIN d) + 1) + Cardinality(DOMAIN d) + 1
           T == {n \in 0..B : \E g : g = F(g, n)}
<1>0. B \in Nat /\ \A x \in Asks(d) : AskWeight(d)[x] \in Nat /\ AskWeight(d)[x] < B
  BY BoundFacts, AskFacts
<1> HIDE DEF B
<1>1. 0 \in T
  <2>1. Upto(0) = {}
    BY <1>0
  <2>2. PICK g : g = F(g, 0)
    BY <2>1
  <2> HIDE DEF F
  <2> QED BY <1>0, <2>2
<1>2. ASSUME NEW n \in 1..B, n - 1 \in T PROVE n \in T
  <2>1. PICK old : old = F(old, n - 1)
    BY <1>2
  <2>2. PICK g : g = F(old, n)
    OBVIOUS
  <2>3. ASSUME NEW x \in Upto(n) PROVE ConformsIn(old, d, x, mode) = ConformsIn(g, d, x, mode)
    <3>0. x \in Asks(d)
      OBVIOUS
    <3>1. ASSUME NEW y \in AskedBy(d)[x] PROVE old[y] = g[y]
      <4>1. y \in Asks(d) /\ AskWeight(d)[y] < AskWeight(d)[x]
        BY <3>0, <3>1, AskFacts
      <4>2. y \in Upto(n - 1) /\ y \in Upto(n)
        BY <1>0, <4>1
      <4>3. old[y] = ConformsIn(old, d, y, mode) /\ g[y] = ConformsIn(old, d, y, mode)
        <5> HIDE DEF Upto
        <5> QED BY <2>1, <2>2, <4>2
      <4> QED BY <4>3
    <3> QED BY <3>0, <3>1, ConformsLocal
  <2>4. g = F(g, n)
    <3> HIDE DEF Upto
    <3> QED BY <2>2, <2>3
  <2> QED BY <2>4
<1>3. \A n \in 0..B : n \in T
  <2> HIDE DEF T
  <2> QED BY <1>0, <1>1, <1>2, Upwards
<1>4. PICK g : g = F(g, B)
  <2>1. B \in T
    <3> HIDE DEF T
    <3> QED BY <1>0, <1>3
  <2> HIDE DEF F
  <2> QED BY <2>1
<1>5. Upto(B) = Asks(d)
  BY <1>0
<1>6. g = [x \in Asks(d) |-> ConformsIn(g, d, x, mode)]
  BY <1>4, <1>5
<1> DEFINE chosen == CHOOSE f : f = [x \in Asks(d) |-> ConformsIn(f, d, x, mode)]
<1>7. chosen = [x \in Asks(d) |-> ConformsIn(chosen, d, x, mode)]
  BY <1>6
<1>8. chosen = ConformCalls(d, mode)
  BY Zenon DEF ConformCalls
<1> HIDE DEF chosen
<1> QED BY <1>7, <1>8

LEMMA ConformUnfolds ==
  ASSUME NEW d, IsDocument(d), NEW mode, NEW a \in Asks(d)
  PROVE  /\ ConformCalls(d, mode)[a] = ConformsIn(ConformCalls(d, mode), d, a, mode)
         /\ ConformCalls(d, mode)[a] \in BOOLEAN
<1>1. ConformCalls(d, mode)[a] = ConformsIn(ConformCalls(d, mode), d, a, mode)
  BY ConformIs, Zenon
<1>2. d[a.schema].nullable \in BOOLEAN
  <2>1. a.schema \in DOMAIN d
    BY AskParts
  <2>2. IsSchema(DOMAIN d, d[a.schema])
    BY <2>1 DEF IsDocument
  <2> QED BY <2>2 DEF IsSchema
<1>3. \A f : ConformsIn(f, d, a, mode) \in BOOLEAN
  BY <1>2 DEF ConformsIn
<1> QED BY <1>1, <1>3

-----------------------------------------------------------------------------
(* The keywords of one kind of value.                                       *)

\* A report decides b if b follows when nothing is violated, and if what b
\* leaves violated is, at the first of it, a panic.
LEMMA ReportDecides ==
  ASSUME NEW n \in Nat, NEW checks, DOMAIN checks = 1..n, NEW mode \in Settings, NEW b \in BOOLEAN,
         (\A i \in 1..n : ~checks[i][2]) => b,
         b => \A i \in 1..n : checks[i][2] /\ (\A j \in 1..(i - 1) : ~checks[j][2]) => Dead({checks[i][1]})
  PROVE  Decides({Report(mode, checks)}, b)
<1>1. CASE Report(mode, checks) = OK
  <2>1. b
    BY <1>1, ReportFacts
  <2> QED BY <1>1, <2>1, OneDecides
<1>2. CASE Report(mode, checks) # OK
  <2>1. PICK i \in 1..n : /\ checks[i][2]
                          /\ \A j \in 1..(i - 1) : ~checks[j][2]
                          /\ Dead({checks[i][1]}) => Dead(Report(mode, checks))
    BY <1>2, ReportFacts
  <2>2. b => Dead(Report(mode, checks))
    BY <2>1
  <2> QED BY <1>2, <2>2, OneDecides
<1> QED BY <1>1, <1>2

LEMMA FailingDecides ==
  ASSUME NEW mode \in Settings, NEW f, f \notin {"panic", "overflow"}, NEW b \in BOOLEAN, ~b
  PROVE  Decides({Failing(mode, f)}, b)
BY FailingFacts, OneDecides

\* The remainder of a division is the code's way to ask for a multiple.
LEMMA AbsFacts ==
  ASSUME NEW n \in Int
  PROVE  Abs(n) \in Nat /\ (Abs(n) = n \/ Abs(n) = -n) /\ (n # 0 => Abs(n) > 0)
BY DEF Abs

LEMMA TimesTurned == \A a, b \in Int : a * b = b * a
OBVIOUS

LEMMA NoRemainder ==
  ASSUME NEW n \in Int, NEW k \in Nat, k > 0
  PROVE  n % k = 0 <=> \E q \in Int : q * k = n
<1>1. n = k * (n \div k) + (n % k) /\ n % k \in 0..(k - 1) /\ n \div k \in Int
  OBVIOUS
<1>2. ASSUME n % k = 0 PROVE \E q \in Int : q * k = n
  <2>1. PICK q \in Int : q = n \div k
    BY <1>1
  <2>2. n = k * q
    BY <1>1, <1>2, <2>1
  <2>3. q * k = k * q
    BY <2>1, TimesTurned
  <2> QED BY <2>2, <2>3
<1>3. ASSUME NEW q \in Int, q * k = n PROVE n % k = 0
  <2>1. PICK p \in Int, r \in 0..(k - 1) : p = n \div k /\ r = n % k /\ n = k * p + r
    BY <1>1
  <2>2. PICK e \in Int : e = q - p
    OBVIOUS
  <2>3. k * e = r
    <3>1. k * e = k * q - k * p
      BY <2>2
    <3>2. k * q = q * k
      BY TimesTurned
    <3> QED BY <1>3, <2>1, <3>1, <3>2
  <2>4. CASE e = 0
    BY <2>1, <2>3, <2>4
  <2>5. CASE e > 0
    <3>1. PICK a \in Nat : e = a + 1
      <4>1. e - 1 \in Nat /\ e = (e - 1) + 1
        BY <2>5
      <4> QED BY <4>1
    <3>2. k * e = k * a + k /\ k * a \in Nat
      BY <3>1
    <3> QED BY <2>1, <2>3, <3>2
  <2>6. CASE e < 0
    <3>1. PICK a \in Nat : e = -(a + 1)
      <4>1. -e - 1 \in Nat /\ e = -((-e - 1) + 1)
        BY <2>6
      <4> QED BY <4>1
    <3>2. k * e = -(k * a) - k /\ k * a \in Nat
      BY <3>1
    <3> QED BY <2>1, <2>3, <3>2
  <2> QED BY <2>4, <2>5, <2>6
<1> QED BY <1>2, <1>3

LEMMA DividesFacts ==
  ASSUME NEW n \in Int, NEW m \in Int, m # 0
  PROVE  n % Abs(m) = 0 <=> \E q \in -Abs(n)..Abs(n) : q * m = n
<1>1. PICK k \in Nat : k = Abs(m) /\ k > 0 /\ (k = m \/ k = -m)
  BY AbsFacts
<1>2. n % k = 0 <=> \E q \in Int : q * k = n
  BY <1>1, NoRemainder
<1>3. (\E q \in Int : q * k = n) <=> \E q \in Int : q * m = n
  <2>1. ASSUME NEW q \in Int PROVE q * k = (IF k = m THEN q ELSE -q) * m /\ q * m = (IF k = m THEN q ELSE -q) * k
    <3>1. CASE k = m
      BY <3>1
    <3>2. CASE k = -m
      <4>1. m = -k
        BY <1>1, <3>2
      <4>2. q * (-m) = (-q) * m /\ q * (-k) = (-q) * k
        OBVIOUS
      <4> QED BY <3>2, <4>1, <4>2
    <3> QED BY <1>1, <3>1, <3>2
  <2>2. \A q \in Int : (IF k = m THEN q ELSE -q) \in Int
    OBVIOUS
  <2> QED BY <2>1, <2>2
<1>4. ASSUME NEW q \in Int, q * m = n PROVE q \in -Abs(n)..Abs(n)
  <2>1. \A x \in Nat, y \in Nat : y > 0 => x <= x * y
    <3>1. ASSUME NEW x \in Nat, NEW y \in Nat, y > 0 PROVE x <= x * y
      <4>1. PICK z \in Nat : y = z + 1
        <5>1. y - 1 \in Nat /\ y = (y - 1) + 1
          BY <3>1
        <5> QED BY <5>1
      <4>2. x * y = x * z + x /\ x * z \in Nat
        BY <4>1
      <4> QED BY <4>2
    <3> QED BY <3>1
  <2>2. Abs(q) <= Abs(q) * Abs(m)
    BY <1>1, <2>1, AbsFacts
  <2>3. Abs(q) * Abs(m) = Abs(n)
    <3>1. /\ q * m = (-q) * (-m) /\ -(q * m) = (-q) * m /\ -(q * m) = q * (-m)
      OBVIOUS
    <3>2. (q >= 0 /\ m >= 0 => q * m >= 0) /\ (q < 0 /\ m < 0 => q * m >= 0)
      OBVIOUS
    <3>3. (q >= 0 /\ m < 0 => q * m <= 0) /\ (q < 0 /\ m >= 0 => q * m <= 0)
      OBVIOUS
    <3> QED BY <1>4, <3>1, <3>2, <3>3 DEF Abs
  <2>4. PICK a \in Nat, x \in Nat : a = Abs(n) /\ x = Abs(q) /\ (x = q \/ x = -q)
    BY AbsFacts
  <2>5. x <= a
    BY <2>2, <2>3, <2>4
  <2> QED BY <2>4, <2>5
<1>5. \A q \in -Abs(n)..Abs(n) : q \in Int
  BY AbsFacts
<1>6. (\E q \in Int : q * m = n) <=> \E q \in -Abs(n)..Abs(n) : q * m = n
  <2>1. PICK R : R = -Abs(n)..Abs(n)
    OBVIOUS
  <2>2. (\A q \in Int : q * m = n => q \in R) /\ \A q \in R : q \in Int
    BY <1>4, <1>5, <2>1
  <2>3. (\E q \in Int : q * m = n) <=> \E q \in R : q * m = n
    BY <2>2
  <2> QED BY <2>1, <2>3
<1> QED BY <1>1, <1>2, <1>3, <1>6

-----------------------------------------------------------------------------
(* Each kind of value is held against the keywords of its kind.             *)

LEMMA BoundTypes ==
  ASSUME NEW d, IsDocument(d), NEW n \in DOMAIN d
  PROVE  /\ d[n].exclusiveMin \in BOOLEAN /\ d[n].exclusiveMax \in BOOLEAN /\ d[n].uniqueItems \in BOOLEAN
         /\ d[n].nullable \in BOOLEAN
         /\ d[n].min # None => d[n].min \in Int
         /\ d[n].max # None => d[n].max \in Int
         /\ d[n].multipleOf # None => d[n].multipleOf \in Int
         /\ d[n].minLength \in Nat /\ d[n].minItems \in Nat /\ d[n].minProps \in Nat
         /\ d[n].maxLength # None => d[n].maxLength \in Nat
         /\ d[n].maxItems # None => d[n].maxItems \in Nat
         /\ d[n].maxProps # None => d[n].maxProps \in Nat
         /\ d[n].required \in Seq(STRING)
         /\ d[n].enum \in Seq(Universe)
<1>1. IsSchema(DOMAIN d, d[n])
  BY DEF IsDocument
<1>2. PICK s : s = d[n]
  OBVIOUS
<1>3. IsSchema(DOMAIN d, s)
  BY <1>1, <1>2
<1>4. /\ {s.nullable, s.readOnly, s.writeOnly, s.allowEmptyValue, s.uniqueItems, s.exclusiveMin, s.exclusiveMax}
            \subseteq BOOLEAN
      /\ {s.min, s.max, s.multipleOf} \subseteq {None} \cup Int
      /\ {s.minLength, s.minItems, s.minProps} \subseteq Nat
      /\ {s.maxLength, s.maxItems, s.maxProps} \subseteq {None} \cup Nat
      /\ s.required \in Seq(STRING) /\ s.enum \in Seq(Universe)
  BY <1>3 DEF IsSchema
<1>5. s.exclusiveMin \in BOOLEAN /\ s.exclusiveMax \in BOOLEAN /\ s.uniqueItems \in BOOLEAN /\ s.nullable \in BOOLEAN
  BY <1>4
<1>6. s.min \in {None} \cup Int /\ s.max \in {None} \cup Int /\ s.multipleOf \in {None} \cup Int
  BY <1>4
<1>7. s.maxLength \in {None} \cup Nat /\ s.maxItems \in {None} \cup Nat /\ s.maxProps \in {None} \cup Nat
  BY <1>4
<1>8. s.minLength \in Nat /\ s.minItems \in Nat /\ s.minProps \in Nat
  BY <1>4
<1> QED BY <1>2, <1>4, <1>5, <1>6, <1>7, <1>8

LEMMA BooleanDecides ==
  ASSUME NEW s, NEW v, v.t = "bool", NEW mode \in Settings
  PROVE  Decides({VisitBoolean(s, v, mode)}, HasType(s, v))
<1> DEFINE checks == <<Check("type", WrongType(s, v))>>
<1>1. DOMAIN checks = 1..1 /\ checks[1][2] = WrongType(s, v)
  BY DEF Check
<1>2. WrongType(s, v) <=> ~HasType(s, v)
  BY DEF WrongType, TypeOf, HasType
<1>3. HasType(s, v) \in BOOLEAN
  BY DEF HasType
<1> HIDE DEF checks
<1>4. Decides({Report(mode, checks)}, HasType(s, v))
  <2>1. \A i \in 1..1 : i = 1
    OBVIOUS
  <2>2. (\A i \in 1..1 : ~checks[i][2]) => HasType(s, v)
    BY <1>1, <1>2
  <2>3. HasType(s, v) => \A i \in 1..1 : ~checks[i][2]
    BY <1>1, <1>2, <2>1
  <2>4. PICK b \in BOOLEAN : b = HasType(s, v)
    BY <1>3
  <2>5. Decides({Report(mode, checks)}, b)
    BY <1>1, <2>2, <2>3, <2>4, ReportDecides
  <2> QED BY <2>4, <2>5
<1> QED BY <1>4 DEF VisitBoolean, checks

\* What makes the checks of a number: the numbers themselves.
NumberChecksAre(checks, s, v) ==
    /\ DOMAIN checks = 1..10
    /\ (~checks[1][2])
    /\ (checks[2][2] <=> s.type = "integer" /\ ~(v.n % 2 = 0))
    /\ (checks[3][1] = Error("panic") /\ (checks[3][2] <=> s.exclusiveMin /\ s.min = None))
    /\ (checks[4][2] <=> s.exclusiveMin /\ s.min # None /\ ~(s.min < v.n))
    /\ (checks[5][1] = Error("panic") /\ (checks[5][2] <=> s.exclusiveMax /\ s.max = None))
    /\ (checks[6][2] <=> s.exclusiveMax /\ s.max # None /\ ~(s.max > v.n))
    /\ (checks[7][2] <=> s.min # None /\ ~(s.min <= v.n))
    /\ (checks[8][2] <=> s.max # None /\ ~(s.max >= v.n))
    /\ (checks[9][1] = Error("panic") /\ (checks[9][2] <=> s.multipleOf # None /\ v.n = 0 /\ s.multipleOf = 0))
    /\ (checks[10][2] <=> s.multipleOf # None /\ ~(s.multipleOf # 0 /\ v.n % Abs(s.multipleOf) = 0))

LEMMA CheckFacts ==
  ASSUME NEW f, NEW b \in BOOLEAN
  PROVE  Check(f, b)[1] = Error(f) /\ Check(f, b)[2] = b
BY DEF Check

LEMMA NumberChecksFacts ==
  ASSUME NEW s, NEW v, v.t = "num"
  PROVE  NumberChecksAre(NumberChecks(s, v), s, v)
<1> DEFINE checks == NumberChecks(s, v)
<1>0. DOMAIN checks = 1..10
  BY DEF NumberChecks
<1>1. ~checks[1][2]
  BY DEF NumberChecks, Check, IsInt
<1>2. checks[2][2] <=> s.type = "integer" /\ ~(v.n % 2 = 0)
  BY DEF NumberChecks, Check, IsInt
<1>3. checks[3][1] = Error("panic") /\ (checks[3][2] <=> s.exclusiveMin /\ s.min = None)
  BY DEF NumberChecks, Check
<1>4. checks[4][2] <=> s.exclusiveMin /\ s.min # None /\ ~(s.min < v.n)
  BY DEF NumberChecks, Check, Less
<1>5. checks[5][1] = Error("panic") /\ (checks[5][2] <=> s.exclusiveMax /\ s.max = None)
  BY DEF NumberChecks, Check
<1>6. checks[6][2] <=> s.exclusiveMax /\ s.max # None /\ ~(s.max > v.n)
  BY DEF NumberChecks, Check, More
<1>7. checks[7][2] <=> s.min # None /\ ~(s.min <= v.n)
  BY DEF NumberChecks, Check, AtMost
<1>8. checks[8][2] <=> s.max # None /\ ~(s.max >= v.n)
  BY DEF NumberChecks, Check, AtLeast
<1>9. checks[9][1] = Error("panic") /\ (checks[9][2] <=> s.multipleOf # None /\ v.n = 0 /\ s.multipleOf = 0)
  BY DEF NumberChecks, Check
<1>10. checks[10][2] <=> s.multipleOf # None /\ ~(s.multipleOf # 0 /\ v.n % Abs(s.multipleOf) = 0)
  BY DEF NumberChecks, Check
<1> QED BY <1>0, <1>1, <1>2, <1>3, <1>4, <1>5, <1>6, <1>7, <1>8, <1>9, <1>10 DEF NumberChecksAre

LEMMA NumberDecides ==
  ASSUME NEW d, IsDocument(d), NEW n \in DOMAIN d, NEW v \in Universe, v.t = "num", NEW mode \in Settings
  PROVE  Decides({VisitNumber(d[n], v, mode)}, HasType(d[n], v) /\ NumberConforms(d[n], v))
<1> DEFINE s == d[n]
           b == HasType(s, v) /\ NumberConforms(s, v)
<1>1. v.n \in Int
  BY UniverseFacts
<1>2. /\ s.exclusiveMin \in BOOLEAN /\ s.exclusiveMax \in BOOLEAN
      /\ s.min # None => s.min \in Int
      /\ s.max # None => s.max \in Int
      /\ s.multipleOf # None => s.multipleOf \in Int
  BY BoundTypes
<1>3. b \in BOOLEAN
  BY DEF HasType
<1>4. CASE s.type \notin {"", "integer", "number"}
  <2>1. ~b
    BY <1>4 DEF HasType
  <2>2. VisitNumber(s, v, mode) = Failing(mode, "type")
    BY <1>4 DEF VisitNumber
  <2> HIDE DEF b
  <2> QED BY <1>3, <2>1, <2>2, FailingDecides DEF b
<1>5. CASE s.type \in {"", "integer", "number"}
  <2>1. PICK checks : checks = NumberChecks(s, v)
    OBVIOUS
  <2>2. VisitNumber(s, v, mode) = Report(mode, checks)
    BY <1>5, <2>1 DEF VisitNumber
  <2>3. /\ DOMAIN checks = 1..10
        /\ (~checks[1][2])
        /\ (checks[2][2] <=> s.type = "integer" /\ ~(v.n % 2 = 0))
        /\ (checks[3][1] = Error("panic") /\ (checks[3][2] <=> s.exclusiveMin /\ s.min = None))
        /\ (checks[4][2] <=> s.exclusiveMin /\ s.min # None /\ ~(s.min < v.n))
        /\ (checks[5][1] = Error("panic") /\ (checks[5][2] <=> s.exclusiveMax /\ s.max = None))
        /\ (checks[6][2] <=> s.exclusiveMax /\ s.max # None /\ ~(s.max > v.n))
        /\ (checks[7][2] <=> s.min # None /\ ~(s.min <= v.n))
        /\ (checks[8][2] <=> s.max # None /\ ~(s.max >= v.n))
        /\ (checks[9][1] = Error("panic") /\ (checks[9][2] <=> s.multipleOf # None /\ v.n = 0 /\ s.multipleOf = 0))
        /\ (checks[10][2] <=> s.multipleOf # None /\ ~(s.multipleOf # 0 /\ v.n % Abs(s.multipleOf) = 0))
    BY <2>1, NumberChecksFacts DEF NumberChecksAre
  <2>4. s.multipleOf # None /\ s.multipleOf # 0
          => (v.n % Abs(s.multipleOf) = 0 <=> \E q \in -Abs(v.n)..Abs(v.n) : q * s.multipleOf = v.n)
    BY <1>1, <1>2, DividesFacts
  <2>5. HasType(s, v) <=> (s.type = "integer" => v.n % 2 = 0)
    BY <1>5 DEF HasType
  <2>6. 1 \in 1..10 /\ 2 \in 1..10 /\ 3 \in 1..10 /\ 4 \in 1..10 /\ 5 \in 1..10 /\ 6 \in 1..10
        /\ 7 \in 1..10 /\ 8 \in 1..10 /\ 9 \in 1..10 /\ 10 \in 1..10
    OBVIOUS
  <2> HIDE DEF s
  <2>7. ASSUME \A i \in 1..10 : ~checks[i][2] PROVE b
    <3>1. /\ ~checks[2][2] /\ ~checks[3][2] /\ ~checks[4][2] /\ ~checks[5][2] /\ ~checks[6][2]
          /\ ~checks[7][2] /\ ~checks[8][2] /\ ~checks[10][2]
      BY <2>6, <2>7
    <3>2. ~(s.exclusiveMin /\ s.min = None) /\ ~(s.exclusiveMax /\ s.max = None)
      BY <2>3, <3>1
    <3>3. HasType(s, v)
      BY <2>3, <2>5, <3>1
    <3>4. /\ s.min # None => s.min <= v.n
          /\ s.exclusiveMin => s.min # v.n
      BY <1>1, <1>2, <2>3, <3>1, <3>2
    <3>5. /\ s.max # None => v.n <= s.max
          /\ s.exclusiveMax => s.max # v.n
      BY <1>1, <1>2, <2>3, <3>1, <3>2
    <3>6. s.multipleOf # None => \E q \in -Abs(v.n)..Abs(v.n) : q * s.multipleOf = v.n
      BY <2>3, <2>4, <3>1
    <3> QED BY <3>3, <3>4, <3>5, <3>6 DEF NumberConforms
  <2>8. ASSUME b, NEW i \in 1..10, checks[i][2], \A j \in 1..(i - 1) : ~checks[j][2]
        PROVE  Dead({checks[i][1]})
    <3>1. i # 1 /\ i # 2
      BY <2>3, <2>5, <2>8
    <3>2. i # 4 /\ i # 7
      BY <1>1, <1>2, <2>3, <2>8 DEF NumberConforms
    <3>3. i # 6 /\ i # 8
      BY <1>1, <1>2, <2>3, <2>8 DEF NumberConforms
    <3>4. i # 10
      <4>1. SUFFICES ASSUME i = 10 PROVE FALSE
        OBVIOUS
      <4>2. ~checks[9][2] /\ checks[10][2]
        BY <2>8, <4>1
      <4>3. s.multipleOf # None /\ (v.n = 0 => s.multipleOf # 0)
        BY <2>3, <4>2
      <4>4. PICK q \in -Abs(v.n)..Abs(v.n) : q * s.multipleOf = v.n
        BY <2>8, <4>3 DEF NumberConforms
      <4>5. q \in Int
        BY <1>1, AbsFacts
      <4>6. s.multipleOf # 0
        <5>1. q * 0 = 0
          BY <4>5
        <5> QED BY <4>3, <4>4, <5>1
      <4> QED BY <2>3, <2>4, <4>2, <4>3, <4>4, <4>6
    <3>5. i = 3 \/ i = 5 \/ i = 9
      BY <3>1, <3>2, <3>3, <3>4
    <3>6. checks[i][1] = Error("panic")
      BY <2>3, <3>5
    <3> QED BY <3>6, DeadIs
  <2> HIDE DEF b
  <2>9. Decides({Report(mode, checks)}, b)
    BY <1>3, <2>3, <2>7, <2>8, ReportDecides
  <2> QED BY <2>2, <2>9 DEF b, s
<1> QED BY <1>4, <1>5

LEMMA ReportOK ==
  ASSUME NEW n \in Nat, NEW checks, DOMAIN checks = 1..n, NEW mode \in Settings
  PROVE  Report(mode, checks) = OK <=> \A i \in 1..n : ~checks[i][2]
BY ReportFacts

LEMMA StringDecides ==
  ASSUME NEW d, IsDocument(d), NEW n \in DOMAIN d, NEW v \in Universe, v.t = "str", NEW mode \in Settings
  PROVE  Decides({VisitString(d[n], v, mode)}, HasType(d[n], v) /\ TextConforms(d[n], v))
<1> DEFINE s == d[n]
           b == HasType(s, v) /\ TextConforms(s, v)
           lengths == LengthChecks(s, v)
           texts == TextChecks(s, v)
<1>1. StrLen[v.s] \in Nat /\ s.minLength \in Nat /\ (s.maxLength # None => s.maxLength \in Nat)
  BY UniverseFacts, SchemaAssumption, BoundTypes
<1>2. /\ DOMAIN lengths = 1..2 /\ DOMAIN texts = 1..2
      /\ (lengths[1][2] <=> s.minLength # 0 /\ StrLen[v.s] < s.minLength)
      /\ (lengths[2][2] <=> s.maxLength # None /\ StrLen[v.s] > s.maxLength)
      /\ (texts[1][2] <=> s.pattern # "" /\ <<s.pattern, v.s>> \notin Matches)
      /\ (texts[2][2] <=> <<s.format, v.s>> \in BadFormat)
  <2> HIDE DEF s
  <2>1. DOMAIN lengths = 1..2 /\ DOMAIN texts = 1..2
    BY DEF LengthChecks, TextChecks
  <2>2. lengths[1][2] <=> s.minLength # 0 /\ StrLen[v.s] < s.minLength
    BY DEF LengthChecks, Check
  <2>3. lengths[2][2] <=> s.maxLength # None /\ StrLen[v.s] > s.maxLength
    BY DEF LengthChecks, Check
  <2>4. texts[1][2] <=> s.pattern # "" /\ <<s.pattern, v.s>> \notin Matches
    BY DEF TextChecks, Check
  <2>5. texts[2][2] <=> <<s.format, v.s>> \in BadFormat
    BY DEF TextChecks, Check
  <2> QED BY <2>1, <2>2, <2>3, <2>4, <2>5
<1>3. WrongType(s, v) <=> ~HasType(s, v)
  BY DEF WrongType, TypeOf, HasType
<1>4. b \in BOOLEAN
  BY DEF HasType
<1>5. VisitString(s, v, mode) =
         IF WrongType(s, v) THEN Failing(mode, "type")
         ELSE IF Stops(Report(mode, lengths), mode) THEN Report(mode, lengths)
         ELSE Report(mode, lengths) \cup Report(Loud(mode), texts)
  BY DEF VisitString
<1>6. CASE WrongType(s, v)
  <2>1. ~b
    BY <1>3, <1>6
  <2> HIDE DEF b, s
  <2> QED BY <1>4, <1>5, <1>6, <2>1, FailingDecides DEF b, s
<1>7. CASE ~WrongType(s, v)
  <2>1. Loud(mode) \in Settings
    BY SettingsFacts
  <2> HIDE DEF lengths, texts
  <2>2. Report(mode, lengths) = OK <=> \A i \in 1..2 : ~lengths[i][2]
    BY <1>2, ReportOK
  <2>3. Report(Loud(mode), texts) = OK <=> \A i \in 1..2 : ~texts[i][2]
    BY <1>2, <2>1, ReportOK
  <2>4. (\A i \in 1..2 : ~lengths[i][2]) <=> ~lengths[1][2] /\ ~lengths[2][2]
    OBVIOUS
  <2>5. (\A i \in 1..2 : ~texts[i][2]) <=> ~texts[1][2] /\ ~texts[2][2]
    OBVIOUS
  <2> HIDE DEF s
  <2>6. (~lengths[1][2] /\ ~lengths[2][2]) <=> (StrLen[v.s] >= s.minLength /\ (s.maxLength # None => StrLen[v.s] <= s.maxLength))
    <3>0. PICK len \in Nat, least \in Nat : len = StrLen[v.s] /\ least = s.minLength
      BY <1>1
    <3>1. ~lengths[1][2] <=> StrLen[v.s] >= s.minLength
      <4>1. ~(least # 0 /\ len < least) <=> len >= least
        OBVIOUS
      <4> QED BY <1>2, <3>0, <4>1
    <3>2. ~lengths[2][2] <=> (s.maxLength # None => StrLen[v.s] <= s.maxLength)
      <4>1. s.maxLength # None => (~(len > s.maxLength) <=> len <= s.maxLength)
        BY <1>1
      <4> QED BY <1>2, <3>0, <4>1
    <3> QED BY <3>1, <3>2
  <2>7. b <=> Report(mode, lengths) = OK /\ Report(Loud(mode), texts) = OK
    BY <1>2, <1>3, <1>7, <2>2, <2>3, <2>4, <2>5, <2>6 DEF TextConforms
  <2> HIDE DEF b
  <2>8. VisitString(s, v, mode) = OK <=> b
    BY <1>5, <1>7, <2>7 DEF Stops, OK
  <2> QED BY <1>4, <2>8, OneDecides DEF b, s
<1> QED BY <1>6, <1>7

\* Items are told apart exactly if there are as many printed items as items.
LEMMA UniqueFacts ==
  ASSUME NEW S, NEW items \in Seq(S)
  PROVE  Cardinality(ToSet(items)) = Len(items) <=> \A i, j \in DOMAIN items : items[i] = items[j] => i = j
<1>1. PICK n \in Nat : n = Len(items) /\ DOMAIN items = 1..n /\ items \in [1..n -> S]
  BY LenProperties
<1>2. PICK T : T = ToSet(items)
  OBVIOUS
<1>3. items \in Surjection(1..n, T)
  BY <1>1, <1>2 DEF Surjection, ToSet
<1>4. IsFiniteSet(1..n) /\ Cardinality(1..n) = n
  BY FS_Interval, FS_CountingElements
<1>5. Cardinality(T) = Cardinality(1..n) <=> items \in Injection(1..n, T)
  BY <1>3, <1>4, FS_Surjection
<1>6. items \in [1..n -> T]
  BY <1>3 DEF Surjection
<1>7. items \in Injection(1..n, T) <=> \A i, j \in 1..n : items[i] = items[j] => i = j
  <2>1. items \in Injection(1..n, T) => \A i, j \in 1..n : items[i] = items[j] => i = j
    BY DEF Injection, IsInjective
  <2>2. ASSUME \A i, j \in 1..n : items[i] = items[j] => i = j PROVE items \in Injection(1..n, T)
    BY <1>6, <2>2 DEF Injection, IsInjective
  <2> QED BY <2>1, <2>2
<1> QED BY <1>1, <1>2, <1>4, <1>5, <1>7

-----------------------------------------------------------------------------
(* What is made of the outcomes of one call decides what it is made for.    *)

LEMMA NotDecides ==
  ASSUME NEW O, NEW b \in BOOLEAN, Decides(O, b), NEW mode \in Settings
  PROVE  Decides({NotOutcome(o, mode) : o \in O}, ~b)
<1>1. ASSUME NEW o \in O, ~Dead(NotOutcome(o, mode)) PROVE NotOutcome(o, mode) = OK <=> ~b
  <2>1. ~Dead(o)
    BY <1>1 DEF NotOutcome
  <2>2. o = OK <=> b
    BY <2>1 DEF Decides
  <2>3. Failing(mode, "not") # OK
    BY FailingFacts
  <2> QED BY <2>1, <2>2, <2>3 DEF NotOutcome
<1>2. O # {}
  BY DEF Decides
<1> QED BY <1>1, <1>2 DEF Decides

LEMMA AllOfDecides ==
  ASSUME NEW O, NEW b \in BOOLEAN, Decides(O, b), NEW mode \in Settings
  PROVE  Decides({AllOfOutcome(o, mode) : o \in O}, b)
<1>1. ASSUME NEW o \in O, ~Dead(AllOfOutcome(o, mode)) PROVE AllOfOutcome(o, mode) = OK <=> b
  <2>1. ~Dead(o)
    BY <1>1 DEF AllOfOutcome
  <2>2. o = OK <=> b
    BY <2>1 DEF Decides
  <2>3. Failing(mode, "allOf") # OK
    BY FailingFacts
  <2> QED BY <2>1, <2>2, <2>3 DEF AllOfOutcome
<1>2. O # {}
  BY DEF Decides
<1> QED BY <1>1, <1>2 DEF Decides

\* The discriminator asks for an item by name, or dies on what is no name.
LEMMA CountedOK ==
  ASSUME NEW fast \in BOOLEAN, NEW s, NEW v, NEW item
  PROVE  /\ Dead(Counted(fast, s, v, item, OK)) \/ (Counted(fast, s, v, item, OK) = OK <=> Chosen(s, v, item))
         /\ Counted(fast, s, v, item, OK) \in {OK, Panic, {Error("discriminator")}}
<1> DEFINE disc == s.discriminator
           named == Member(v, disc.prop)
           text == FastString(named)
<1>1. {Error("discriminator")} # OK /\ Dead(Panic)
  BY DeadFacts DEF OK
<1>2. Counted(fast, s, v, item, OK) =
         IF disc = None THEN OK
         ELSE IF v.t # "obj" \/ disc.prop \notin KeysOf(v) THEN {Error("discriminator")}
         ELSE IF ~fast /\ named.t # "str" THEN Panic
         ELSE IF text \in DOMAIN disc.mapping /\ disc.mapping[text] = item THEN OK ELSE {Error("discriminator")}
  BY Zenon DEF Counted
<1>3. Chosen(s, v, item) <=>
         \/ disc = None
         \/ v.t = "obj" /\ disc.prop \in KeysOf(v) /\ text \in DOMAIN disc.mapping /\ disc.mapping[text] = item
  BY Zenon DEF Chosen
<1> HIDE DEF disc, named, text
<1> QED BY <1>1, <1>2, <1>3

LEMMA CountedDecides ==
  ASSUME NEW O, NEW b \in BOOLEAN, Decides(O, b), NEW fast \in BOOLEAN, NEW s, NEW v, NEW item,
         NEW both \in BOOLEAN, both <=> b /\ Chosen(s, v, item),
         NEW Q, Q # {}, (\A q \in Q : \E o \in O : q = Counted(fast, s, v, item, o))
  PROVE  Decides(Q, both)
<1>1. ASSUME NEW o \in O, ~Dead(Counted(fast, s, v, item, o))
      PROVE  Counted(fast, s, v, item, o) = OK <=> both
  <2>1. CASE o # OK
    <3>1. Counted(fast, s, v, item, o) = o
      BY <2>1 DEF Counted
    <3>2. o = OK <=> b
      BY <1>1, <3>1 DEF Decides
    <3> QED BY <2>1, <3>1, <3>2
  <2>2. CASE o = OK
    <3>1. b
      BY <2>2, DeadFacts DEF Decides
    <3>2. Counted(fast, s, v, item, OK) = OK <=> Chosen(s, v, item)
      BY <1>1, <2>2, CountedOK
    <3> QED BY <2>2, <3>1, <3>2
  <2> QED BY <2>1, <2>2
<1>2. ASSUME NEW q \in Q, ~Dead(q) PROVE q = OK <=> both
  <2>1. PICK o \in O : q = Counted(fast, s, v, item, o)
    OBVIOUS
  <2> QED BY <1>1, <1>2, <2>1
<1> QED BY <1>2 DEF Decides

LEMMA CountedChosen ==
  ASSUME NEW O, NEW b \in BOOLEAN, Decides(O, b), NEW fast \in BOOLEAN, NEW s, NEW v, NEW item,
         Chosen(s, v, item),
         NEW Q, Q # {}, (\A q \in Q : \E o \in O : q = Counted(fast, s, v, item, o))
  PROVE  Decides(Q, b)
<1>1. PICK both \in BOOLEAN : both <=> b /\ Chosen(s, v, item)
  OBVIOUS
<1>2. Decides(Q, both)
  BY <1>1, CountedDecides
<1> QED BY <1>1, <1>2

LEMMA CountedPassed ==
  ASSUME NEW O, NEW b \in BOOLEAN, Decides(O, b), NEW fast \in BOOLEAN, NEW s, NEW v, NEW item,
         ~Chosen(s, v, item), NEW no \in BOOLEAN, ~no,
         NEW Q, Q # {}, (\A q \in Q : \E o \in O : q = Counted(fast, s, v, item, o))
  PROVE  Decides(Q, no)
<1>1. no <=> b /\ Chosen(s, v, item)
  OBVIOUS
<1> QED BY <1>1, CountedDecides

\* An error that is marked stays an error, and a death a death.
LEMMA MarkFacts ==
  ASSUME NEW step, NEW o
  PROVE  /\ Mark(step, o) = OK <=> o = OK
         /\ Dead(o) => Dead(Mark(step, o))
         /\ \A x : o \subseteq x => Mark(step, o) \subseteq Mark(step, x)
<1>1. Mark(step, o) = OK <=> o = OK
  BY DEF Mark, OK
<1>2. ASSUME Dead(o) PROVE Dead(Mark(step, o))
  <2>1. PICK e \in o : e = Error("panic") \/ e = Error("overflow")
    BY <1>2, DeadIs
  <2>2. e.field \in Unmarked
    BY <2>1 DEF Error, Unmarked
  <2>3. e \in Mark(step, o)
    BY <2>2 DEF Mark
  <2> QED BY <2>1, <2>3, DeadIs
<1>3. \A x : o \subseteq x => Mark(step, o) \subseteq Mark(step, x)
  BY DEF Mark
<1> QED BY <1>1, <1>2, <1>3

LEMMA MarkDecides ==
  ASSUME NEW O, NEW b \in BOOLEAN, Decides(O, b), NEW step
  PROVE  Decides({Mark(step, o) : o \in O}, b)
<1>1. ASSUME NEW o \in O, ~Dead(Mark(step, o)) PROVE Mark(step, o) = OK <=> b
  <2>1. ~Dead(o)
    BY <1>1, MarkFacts
  <2>2. o = OK <=> b
    BY <2>1 DEF Decides
  <2>3. Mark(step, o) = OK <=> o = OK
    BY MarkFacts
  <2> QED BY <2>2, <2>3
<1>2. O # {}
  BY DEF Decides
<1> QED BY <1>1, <1>2 DEF Decides

LEMMA KeyedDecides ==
  ASSUME NEW O, NEW b \in BOOLEAN, Decides(O, b), NEW k, NEW mode
  PROVE  Decides({Keyed(k, o, mode) : o \in O}, b)
<1>1. ASSUME NEW o \in O, ~Dead(Keyed(k, o, mode)) PROVE Keyed(k, o, mode) = OK <=> b
  <2>1. ~Dead(o)
    BY <1>1, MarkFacts DEF Keyed
  <2>2. o = OK <=> b
    BY <2>1 DEF Decides
  <2>3. Mark(k, o) = OK <=> o = OK
    BY MarkFacts
  <2>4. {ErrSchema} # OK
    BY DEF OK
  <2> QED BY <2>1, <2>2, <2>3, <2>4 DEF Keyed
<1>2. O # {}
  BY DEF Decides
<1> QED BY <1>1, <1>2 DEF Decides

LEMMA TruthOfIn ==
  ASSUME NEW v, NEW X
  PROVE  \E b \in BOOLEAN : b = (v \in X)
<1>1. (v \in X) \in BOOLEAN
  OBVIOUS
<1> QED BY <1>1, Zenon

LEMMA EnumDecides ==
  ASSUME NEW s, NEW v, NEW mode \in Settings
  PROVE  Decides({EnumOutcome(FALSE, s, v, mode)}, v \in ToSet(s.enum))
<1>1. Failing(mode, "enum") # OK /\ Dead(Panic)
  BY FailingFacts, DeadFacts
<1>2. v \in ToSet(s.enum) <=> \E i \in DOMAIN s.enum : s.enum[i] = v
  BY DEF ToSet
<1>3. InEnum(FALSE, s, v) <=>
         \E i \in DOMAIN s.enum : s.enum[i].t = v.t /\ (v.t \in {"arr", "obj"} \/ s.enum[i] = v)
  BY DEF InEnum
<1>4. EnumOutcome(FALSE, s, v, mode) =
         IF ~InEnum(FALSE, s, v) THEN Failing(mode, "enum")
         ELSE IF v.t \in {"arr", "obj"} THEN Panic ELSE OK
  BY DEF EnumOutcome
<1>5. v \in ToSet(s.enum) => InEnum(FALSE, s, v)
  BY <1>2, <1>3
<1>6. InEnum(FALSE, s, v) /\ v.t \notin {"arr", "obj"} => v \in ToSet(s.enum)
  BY <1>2, <1>3
<1>7. ~Dead(EnumOutcome(FALSE, s, v, mode)) => (EnumOutcome(FALSE, s, v, mode) = OK <=> v \in ToSet(s.enum))
  BY <1>1, <1>4, <1>5, <1>6
<1>8. PICK b \in BOOLEAN : b = (v \in ToSet(s.enum))
  BY TruthOfIn
<1>9. Decides({EnumOutcome(FALSE, s, v, mode)}, b)
  BY <1>7, <1>8, OneDecides
<1> QED BY <1>8, <1>9

-----------------------------------------------------------------------------
(* The set operations.                                                      *)

\* The operands that are met.
OneYes(conforms, s, a) ==
    {i \in DOMAIN s.oneOf : conforms[AskAlso(a, s.oneOf[i])] /\ Chosen(s, a.value, s.oneOf[i])}
AnyYes(conforms, s, a) == {i \in DOMAIN s.anyOf : conforms[AskAlso(a, s.anyOf[i])]}
AllYes(conforms, s, a) == {i \in DOMAIN s.allOf : conforms[AskAlso(a, s.allOf[i])]}

LEMMA OneRowDecides ==
  ASSUME NEW d, IsDocument(d), NEW c \in Calls(d), NEW fast \in BOOLEAN, NEW visits, NEW conforms,
         \A m \in Operands(d[c.schema]) :
            /\ conforms[AskAlso(AskOf(c), m)] \in BOOLEAN
            /\ Decides(visits[Operand(c, m, Quiet(c.mode))], conforms[AskAlso(AskOf(c), m)])
            /\ Decides(visits[Operand(c, m, Loud(c.mode))], conforms[AskAlso(AskOf(c), m)])
  PROVE  \A i \in DOMAIN d[c.schema].oneOf :
            Decides(OneRow(visits, fast, d[c.schema], c)[i], i \in OneYes(conforms, d[c.schema], AskOf(c)))
<1> DEFINE s == d[c.schema]
           a == AskOf(c)
           Also(m) == conforms[AskAlso(a, m)]
<1>1. c.schema \in DOMAIN d /\ c.mode \in Settings
  BY CallParts
<1>2. a.value = c.value
  BY DEF AskOf
<1>3. \A i \in DOMAIN s.oneOf : s.oneOf[i] \in Operands(s)
  BY <1>1, SchemaFacts
<1>4. PICK IOne : IOne = OneYes(conforms, s, a)
  OBVIOUS
<1>5. ASSUME NEW i \in DOMAIN s.oneOf PROVE Decides(OneRow(visits, fast, s, c)[i], i \in IOne)
  <2>1. PICK O : O = visits[Operand(c, s.oneOf[i], Quiet(c.mode))]
    OBVIOUS
  <2>2. PICK b \in BOOLEAN : b = Also(s.oneOf[i]) /\ Decides(O, b)
    BY <1>3, <2>1
  <2>3. PICK item : item = s.oneOf[i]
    OBVIOUS
  <2>4. PICK value : value = c.value
    OBVIOUS
  <2>5. i \in IOne <=> b /\ Chosen(s, value, item)
    BY <1>2, <1>4, <2>2, <2>3, <2>4 DEF OneYes
  <2> HIDE DEF s, a, Also
  <2>6. PICK Q : Q = {Counted(fast, s, value, item, o) : o \in O}
    OBVIOUS
  <2>7. Q # {} /\ \A q \in Q : \E o \in O : q = Counted(fast, s, value, item, o)
    BY <2>2, <2>6 DEF Decides
  <2>8. OneRow(visits, fast, s, c)[i] = Q
    BY <2>1, <2>3, <2>4, <2>6 DEF OneRow
  <2>9. CASE Chosen(s, value, item)
    <3>1. Decides(Q, b)
      BY <2>2, <2>7, <2>9, CountedChosen
    <3>2. (i \in IOne) = b
      BY <2>5, <2>9
    <3> QED BY <2>8, <3>1, <3>2
  <2>10. CASE ~Chosen(s, value, item)
    <3>1. PICK no \in BOOLEAN : no = (i \in IOne)
      BY TruthOfIn
    <3>2. ~no
      BY <2>5, <2>10, <3>1
    <3>3. Decides(Q, no)
      BY <2>2, <2>7, <2>10, <3>2, CountedPassed
    <3> QED BY <2>8, <3>1, <3>3
  <2> QED BY <2>9, <2>10
<1> QED BY <1>4, <1>5

LEMMA AnyRowDecides ==
  ASSUME NEW d, IsDocument(d), NEW c \in Calls(d), NEW visits, NEW conforms,
         \A m \in Operands(d[c.schema]) :
            /\ conforms[AskAlso(AskOf(c), m)] \in BOOLEAN
            /\ Decides(visits[Operand(c, m, Quiet(c.mode))], conforms[AskAlso(AskOf(c), m)])
            /\ Decides(visits[Operand(c, m, Loud(c.mode))], conforms[AskAlso(AskOf(c), m)])
  PROVE  \A i \in DOMAIN d[c.schema].anyOf :
            Decides(AnyRow(visits, d[c.schema], c)[i], i \in AnyYes(conforms, d[c.schema], AskOf(c)))
<1> DEFINE s == d[c.schema]
           a == AskOf(c)
           Also(m) == conforms[AskAlso(a, m)]
<1>1. c.schema \in DOMAIN d /\ c.mode \in Settings
  BY CallParts
<1>2. a.value = c.value
  BY DEF AskOf
<1>3. \A i \in DOMAIN s.anyOf : s.anyOf[i] \in Operands(s)
  BY <1>1, SchemaFacts
<1>4. PICK I : I = AnyYes(conforms, s, a)
  OBVIOUS
<1>5. ASSUME NEW i \in DOMAIN s.anyOf PROVE Decides(AnyRow(visits, s, c)[i], i \in I)
  <2>1. AnyRow(visits, s, c)[i] = visits[Operand(c, s.anyOf[i], Quiet(c.mode))]
    BY DEF AnyRow
  <2>2. (i \in I) = Also(s.anyOf[i])
    BY <1>3, <1>4 DEF AnyYes
  <2> QED BY <1>3, <2>1, <2>2
<1> QED BY <1>4, <1>5

LEMMA AllRowDecides ==
  ASSUME NEW d, IsDocument(d), NEW c \in Calls(d), NEW visits, NEW conforms,
         \A m \in Operands(d[c.schema]) :
            /\ conforms[AskAlso(AskOf(c), m)] \in BOOLEAN
            /\ Decides(visits[Operand(c, m, Quiet(c.mode))], conforms[AskAlso(AskOf(c), m)])
            /\ Decides(visits[Operand(c, m, Loud(c.mode))], conforms[AskAlso(AskOf(c), m)])
  PROVE  \A i \in DOMAIN d[c.schema].allOf :
            Decides(AllRow(visits, d[c.schema], c)[i], i \in AllYes(conforms, d[c.schema], AskOf(c)))
<1> DEFINE s == d[c.schema]
           a == AskOf(c)
           Also(m) == conforms[AskAlso(a, m)]
<1>1. c.schema \in DOMAIN d /\ c.mode \in Settings
  BY CallParts
<1>2. a.value = c.value
  BY DEF AskOf
<1>3. \A i \in DOMAIN s.allOf : s.allOf[i] \in Operands(s)
  BY <1>1, SchemaFacts
<1>4. PICK I : I = AllYes(conforms, s, a)
  OBVIOUS
<1>5. ASSUME NEW i \in DOMAIN s.allOf PROVE Decides(AllRow(visits, s, c)[i], i \in I)
  <2>1. PICK O : O = visits[Operand(c, s.allOf[i], Loud(c.mode))]
    OBVIOUS
  <2>2. PICK b \in BOOLEAN : b = Also(s.allOf[i]) /\ Decides(O, b)
    BY <1>3, <2>1
  <2>3. PICK mode : mode = c.mode
    OBVIOUS
  <2>4. Decides({AllOfOutcome(o, mode) : o \in O}, b)
    BY <1>1, <2>2, <2>3, AllOfDecides
  <2>5. AllRow(visits, s, c)[i] = {AllOfOutcome(o, mode) : o \in O}
    BY <2>1, <2>3 DEF AllRow
  <2>6. (i \in I) = b
    BY <1>4, <2>2 DEF AllYes
  <2> QED BY <2>4, <2>5, <2>6
<1> QED BY <1>4, <1>5

\* What the operands of a schema are asked.
NotAsked(conforms, s, a) == s.not # None => ~conforms[AskAlso(a, s.not)]
OneAsked(conforms, s, a) ==
    s.oneOf # <<>> =>
       Cardinality({i \in DOMAIN s.oneOf :
                       conforms[AskAlso(a, s.oneOf[i])] /\ Chosen(s, a.value, s.oneOf[i])}) = 1
AnyAsked(conforms, s, a) == s.anyOf # <<>> => \E i \in DOMAIN s.anyOf : conforms[AskAlso(a, s.anyOf[i])]
AllAsked(conforms, s, a) == \A i \in DOMAIN s.allOf : conforms[AskAlso(a, s.allOf[i])]

Answer(conforms, visits, fast, s, c, n, x, y, z) ==
    /\ n <=> NotAsked(conforms, s, AskOf(c))
    /\ x <=> OneAsked(conforms, s, AskOf(c))
    /\ y <=> AnyAsked(conforms, s, AskOf(c))
    /\ z <=> AllAsked(conforms, s, AskOf(c))
    /\ Decides(NotPart(visits, s, c), n)
    /\ Decides(OnePart(visits, fast, s, c), x)
    /\ Decides(AnyPart(visits, s, c), y)
    /\ Decides(InOrder(FALSE, AllRow(visits, s, c)), z)

LEMMA PartsDecide ==
  ASSUME NEW d, IsDocument(d), NEW c \in Calls(d), NEW fast \in BOOLEAN, NEW visits, NEW conforms,
         \A m \in Operands(d[c.schema]) :
            /\ conforms[AskAlso(AskOf(c), m)] \in BOOLEAN
            /\ Decides(visits[Operand(c, m, Quiet(c.mode))], conforms[AskAlso(AskOf(c), m)])
            /\ Decides(visits[Operand(c, m, Loud(c.mode))], conforms[AskAlso(AskOf(c), m)])
  PROVE  \E n, x, y, z \in BOOLEAN : Answer(conforms, visits, fast, d[c.schema], c, n, x, y, z)
<1> DEFINE s == d[c.schema]
           a == AskOf(c)
           Also(m) == conforms[AskAlso(a, m)]
<1>1. c.schema \in DOMAIN d /\ c.mode \in Settings
  BY CallParts
<1>2. a.schema = c.schema /\ a.value = c.value
  BY DEF AskOf
<1>4. \E n, x, y, z \in BOOLEAN : Answer(conforms, visits, fast, s, c, n, x, y, z)
  <2>1. /\ (s.not # None => s.not \in Operands(s))
        /\ (\A i \in DOMAIN s.oneOf : s.oneOf[i] \in Operands(s))
        /\ (\A i \in DOMAIN s.anyOf : s.anyOf[i] \in Operands(s))
        /\ (\A i \in DOMAIN s.allOf : s.allOf[i] \in Operands(s))
        /\ Len(s.oneOf) \in Nat /\ DOMAIN s.oneOf = 1..Len(s.oneOf)
        /\ Len(s.anyOf) \in Nat /\ DOMAIN s.anyOf = 1..Len(s.anyOf)
        /\ Len(s.allOf) \in Nat /\ DOMAIN s.allOf = 1..Len(s.allOf)
    BY <1>1, SchemaFacts
  <2>2. \A m \in Operands(s) : /\ Also(m) \in BOOLEAN
                               /\ Decides(visits[Operand(c, m, Quiet(c.mode))], Also(m))
                               /\ Decides(visits[Operand(c, m, Loud(c.mode))], Also(m))
    OBVIOUS
  <2> DEFINE N == s.not # None => ~Also(s.not)
             IOne == {i \in DOMAIN s.oneOf : Also(s.oneOf[i]) /\ Chosen(s, c.value, s.oneOf[i])}
             X == s.oneOf # <<>> => Cardinality(IOne) = 1
             Y == s.anyOf # <<>> => \E i \in DOMAIN s.anyOf : Also(s.anyOf[i])
             Z == \A i \in DOMAIN s.allOf : Also(s.allOf[i])
  <2>4. /\ N <=> NotAsked(conforms, s, a)
        /\ X <=> OneAsked(conforms, s, a)
        /\ Y <=> AnyAsked(conforms, s, a)
        /\ Z <=> AllAsked(conforms, s, a)
    BY <1>2, Zenon DEF NotAsked, OneAsked, AnyAsked, AllAsked
  <2>4a. \A i \in DOMAIN s.oneOf : Decides(OneRow(visits, fast, s, c)[i], i \in IOne)
    <3>1. IOne = OneYes(conforms, s, a)
      BY <1>2 DEF OneYes
    <3> HIDE DEF IOne
    <3> QED BY <1>1, <3>1, OneRowDecides
  <2>4b. \A i \in DOMAIN s.anyOf : Decides(AnyRow(visits, s, c)[i], i \in {i_1 \in DOMAIN s.anyOf : Also(s.anyOf[i_1])})
    <3>1. PICK I : I = {i \in DOMAIN s.anyOf : Also(s.anyOf[i])}
      OBVIOUS
    <3>2. I = AnyYes(conforms, s, a)
      BY <3>1 DEF AnyYes
    <3>3. \A i \in DOMAIN s.anyOf : Decides(AnyRow(visits, s, c)[i], i \in I)
      BY <3>2, AnyRowDecides
    <3> QED BY <3>1, <3>3
  <2>4c. \A i \in DOMAIN s.allOf : Decides(AllRow(visits, s, c)[i], i \in {i_1 \in DOMAIN s.allOf : Also(s.allOf[i_1])})
    <3>1. PICK I : I = {i \in DOMAIN s.allOf : Also(s.allOf[i])}
      OBVIOUS
    <3>2. I = AllYes(conforms, s, a)
      BY <3>1 DEF AllYes
    <3>3. \A i \in DOMAIN s.allOf : Decides(AllRow(visits, s, c)[i], i \in I)
      BY <3>2, AllRowDecides
    <3> QED BY <3>1, <3>3
  <2> HIDE DEF s, a, Also
  <2>5. Decides({OK}, TRUE)
    BY OneDecides
  <2>6. Decides(NotPart(visits, s, c), N)
    <3>1. CASE s.not = None
      BY <2>5, <3>1 DEF NotPart
    <3>2. CASE s.not # None
      <4>1. PICK O : O = visits[Operand(c, s.not, Quiet(c.mode))]
        OBVIOUS
      <4>2. PICK b \in BOOLEAN : b = Also(s.not) /\ Decides(O, b)
        BY <2>1, <2>2, <3>2, <4>1
      <4>3. Decides({NotOutcome(o, c.mode) : o \in O}, ~b)
        BY <1>1, <4>2, NotDecides
      <4>4. NotPart(visits, s, c) = {NotOutcome(o, c.mode) : o \in O} /\ N = ~b
        BY <3>2, <4>1, <4>2 DEF NotPart
      <4> QED BY <4>3, <4>4
    <3> QED BY <3>1, <3>2
  <2>7. Decides(OnePart(visits, fast, s, c), X)
    <3>1. CASE s.oneOf = <<>>
      BY <2>5, <3>1 DEF OnePart
    <3>2. CASE s.oneOf # <<>>
      <4>1. PICK outs : outs = OneRow(visits, fast, s, c)
        OBVIOUS
      <4>2. DOMAIN outs = 1..Len(s.oneOf) /\ IOne \subseteq 1..Len(s.oneOf)
        BY <2>1, <4>1 DEF OneRow
      <4>3. ASSUME NEW i \in 1..Len(s.oneOf) PROVE Decides(outs[i], i \in IOne)
        BY <2>1, <2>4a, <4>1
      <4>4. PICK I : I = IOne
        OBVIOUS
      <4>5. Decides(OneOf(outs, c.mode), Cardinality({i \in 1..Len(s.oneOf) : i \in I}) = 1)
        <5>1. \A i \in 1..Len(s.oneOf) : Decides(outs[i], i \in I)
          BY <4>3, <4>4
        <5> QED BY <1>1, <2>1, <4>2, <5>1, OneOfDecides
      <4>6. {i \in 1..Len(s.oneOf) : i \in I} = I
        BY <4>2, <4>4
      <4>7. X = (Cardinality(I) = 1)
        BY <3>2, <4>4
      <4>8. OnePart(visits, fast, s, c) = OneOf(outs, c.mode)
        BY <3>2, <4>1 DEF OnePart
      <4> QED BY <4>5, <4>6, <4>7, <4>8
    <3> QED BY <3>1, <3>2
  <2>8. Decides(AnyPart(visits, s, c), Y)
    <3>1. CASE s.anyOf = <<>>
      BY <2>5, <3>1 DEF AnyPart
    <3>2. CASE s.anyOf # <<>>
      <4>1. PICK outs : outs = AnyRow(visits, s, c)
        OBVIOUS
      <4>2. PICK I : I = {i \in DOMAIN s.anyOf : Also(s.anyOf[i])}
        OBVIOUS
      <4>3. DOMAIN outs = 1..Len(s.anyOf)
        BY <2>1, <4>1 DEF AnyRow
      <4>4. ASSUME NEW i \in 1..Len(s.anyOf) PROVE Decides(outs[i], i \in I)
        BY <2>1, <2>4b, <4>1, <4>2
      <4>5. Decides(AnyOf(outs, c.mode), \E i \in 1..Len(s.anyOf) : i \in I)
        BY <1>1, <2>1, <4>3, <4>4, AnyOfDecides
      <4>6. Y = \E i \in 1..Len(s.anyOf) : i \in I
        BY <2>1, <3>2, <4>2
      <4>7. AnyPart(visits, s, c) = AnyOf(outs, c.mode)
        BY <3>2, <4>1 DEF AnyPart
      <4> QED BY <4>5, <4>6, <4>7
    <3> QED BY <3>1, <3>2
  <2>9. Decides(InOrder(FALSE, AllRow(visits, s, c)), Z)
    <3>1. PICK outs : outs = AllRow(visits, s, c)
      OBVIOUS
    <3>2. PICK I : I = {i \in DOMAIN s.allOf : Also(s.allOf[i])}
      OBVIOUS
    <3>3. DOMAIN outs = 1..Len(s.allOf)
      BY <2>1, <3>1 DEF AllRow
    <3>4. ASSUME NEW i \in DOMAIN outs PROVE Decides(outs[i], i \in I)
      BY <2>1, <2>4c, <3>1, <3>2, <3>3
    <3>5. Decides(InOrder(FALSE, outs), \A i \in DOMAIN outs : i \in I)
      BY <2>1, <3>3, <3>4, InOrderDecides
    <3>6. Z = \A i \in DOMAIN outs : i \in I
      BY <2>1, <3>2, <3>3
    <3> QED BY <3>1, <3>5, <3>6
  <2>10. N \in BOOLEAN /\ X \in BOOLEAN /\ Y \in BOOLEAN /\ Z \in BOOLEAN
    OBVIOUS
  <2> HIDE DEF N, X, Y, Z
  <2>11. PICK n \in BOOLEAN, x \in BOOLEAN, y \in BOOLEAN, z \in BOOLEAN : n = N /\ x = X /\ y = Y /\ z = Z
    BY <2>10
  <2>12. /\ Decides(NotPart(visits, s, c), n)
         /\ Decides(OnePart(visits, fast, s, c), x)
         /\ Decides(AnyPart(visits, s, c), y)
         /\ Decides(InOrder(FALSE, AllRow(visits, s, c)), z)
    BY <2>6, <2>7, <2>8, <2>9, <2>11
  <2>13. Answer(conforms, visits, fast, s, c, n, x, y, z)
    BY <2>4, <2>11, <2>12 DEF Answer, a
  <2> QED BY <2>13
<1> QED BY <1>4

LEMMA OperationsDecide ==
  ASSUME NEW d, IsDocument(d), NEW c \in Calls(d), NEW fast \in BOOLEAN, NEW visits, NEW conforms,
         fast => d[c.schema].enum = <<>>,
         \A m \in Operands(d[c.schema]) :
            /\ conforms[AskAlso(AskOf(c), m)] \in BOOLEAN
            /\ Decides(visits[Operand(c, m, Quiet(c.mode))], conforms[AskAlso(AskOf(c), m)])
            /\ Decides(visits[Operand(c, m, Loud(c.mode))], conforms[AskAlso(AskOf(c), m)])
  PROVE  /\ OperandsConform(conforms, d, AskOf(c)) \in BOOLEAN
         /\ Decides(SetOperations(visits, fast, d, c), OperandsConform(conforms, d, AskOf(c)))
<1> DEFINE s == d[c.schema]
           a == AskOf(c)
           Also(m) == conforms[AskAlso(a, m)]
<1>1. c.schema \in DOMAIN d /\ c.mode \in Settings
  BY CallParts
<1>2. a.schema = c.schema /\ a.value = c.value
  BY DEF AskOf
<1>3. CASE s.enum # <<>>
  <2>1. ~fast
    BY <1>3
  <2>2. SetOperations(visits, fast, d, c) = {EnumOutcome(FALSE, s, c.value, c.mode)}
    BY <1>3, <2>1, OperationsParts
  <2>3. OperandsConform(conforms, d, a) = (c.value \in ToSet(s.enum))
    BY <1>2, <1>3 DEF OperandsConform
  <2>4. PICK b \in BOOLEAN : b = (c.value \in ToSet(s.enum))
    BY TruthOfIn
  <2>5. Decides({EnumOutcome(FALSE, s, c.value, c.mode)}, b)
    BY <1>1, <2>4, EnumDecides
  <2>6. OperandsConform(conforms, d, a) = b
    BY <2>3, <2>4
  <2> QED BY <2>2, <2>5, <2>6
<1>4. CASE s.enum = <<>>
  <2>1. SetOperations(visits, fast, d, c) =
           Then(FALSE, NotPart(visits, s, c), Then(FALSE, OnePart(visits, fast, s, c),
           Then(FALSE, AnyPart(visits, s, c), InOrder(FALSE, AllRow(visits, s, c)))))
    BY <1>4, OperationsParts
  <2>2. OperandsConform(conforms, d, a) <=>
           /\ NotAsked(conforms, s, a) /\ OneAsked(conforms, s, a)
           /\ AnyAsked(conforms, s, a) /\ AllAsked(conforms, s, a)
    BY <1>2, <1>4 DEF OperandsConform, NotAsked, OneAsked, AnyAsked, AllAsked
  <2>3. PICK P1, P2, P3, P4 : /\ P1 = NotPart(visits, s, c) /\ P2 = OnePart(visits, fast, s, c)
                              /\ P3 = AnyPart(visits, s, c) /\ P4 = InOrder(FALSE, AllRow(visits, s, c))
    OBVIOUS
  <2>4. PICK n, x, y, z \in BOOLEAN : Answer(conforms, visits, fast, s, c, n, x, y, z)
    BY PartsDecide
  <2>5. OperandsConform(conforms, d, a) \in BOOLEAN
    BY <1>2, <1>4 DEF OperandsConform
  <2> HIDE DEF s, a, Also
  <2>6. Decides(SetOperations(visits, fast, d, c), n /\ (x /\ (y /\ z)))
    <3>1. Decides(P1, n) /\ Decides(P2, x) /\ Decides(P3, y) /\ Decides(P4, z)
      BY <2>3, <2>4 DEF Answer
    <3>2. PICK P34 : P34 = Then(FALSE, P3, P4)
      OBVIOUS
    <3>3. Decides(Then(FALSE, P3, P4), y /\ z)
      BY <3>1, ThenDecides, ZenonT(30)
    <3>4. Decides(P34, y /\ z)
      BY <3>2, <3>3
    <3>5. PICK P24 : P24 = Then(FALSE, P2, P34)
      OBVIOUS
    <3>6. Decides(Then(FALSE, P2, P34), x /\ (y /\ z))
      BY <3>1, <3>4, ThenDecides, ZenonT(30)
    <3>7. Decides(P24, x /\ (y /\ z))
      BY <3>5, <3>6
    <3>8. Decides(Then(FALSE, P1, P24), n /\ (x /\ (y /\ z)))
      BY <3>1, <3>7, ThenDecides, ZenonT(30)
    <3> QED BY <2>1, <2>3, <3>2, <3>5, <3>8
  <2>7. OperandsConform(conforms, d, a) = (n /\ (x /\ (y /\ z)))
    BY <2>2, <2>4, <2>5 DEF Answer, a
  <2> QED BY <2>5, <2>6, <2>7 DEF a
<1> QED BY <1>3, <1>4

-----------------------------------------------------------------------------
(* Arrays.                                                                  *)

\* The checks of an array's own keywords.
LEMMA ArrayOwn ==
  ASSUME NEW d, IsDocument(d), NEW n \in DOMAIN d, NEW v \in Universe, v.t = "arr", NEW mode \in Settings
  PROVE  Report(mode, ArrayChecks(d[n], v)) = OK <=>
            /\ Len(v.items) >= d[n].minItems
            /\ d[n].maxItems # None => Len(v.items) <= d[n].maxItems
            /\ d[n].uniqueItems => \A i, j \in DOMAIN v.items : v.items[i] = v.items[j] => i = j
<1> DEFINE s == d[n]
           checks == ArrayChecks(s, v)
<1>1. v.items \in Seq(Universe)
  BY UniverseFacts
<1>2. PICK len \in Nat : len = Len(v.items)
  BY <1>1
<1>3. s.minItems \in Nat /\ (s.maxItems # None => s.maxItems \in Nat)
  BY BoundTypes
<1> HIDE DEF s
<1>4. DOMAIN checks = 1..3
  BY DEF ArrayChecks
<1>5. checks[1][2] <=> s.minItems # 0 /\ len < s.minItems
  BY <1>2 DEF ArrayChecks, Check
<1>6. checks[2][2] <=> s.maxItems # None /\ len > s.maxItems
  BY <1>2 DEF ArrayChecks, Check
<1>7. checks[3][2] <=> s.uniqueItems /\ Cardinality(ToSet(v.items)) # Len(v.items)
  BY DEF ArrayChecks, Check
<1> HIDE DEF checks
<1>8. ~checks[1][2] <=> len >= s.minItems
  BY <1>3, <1>5
<1>9. ~checks[2][2] <=> (s.maxItems # None => len <= s.maxItems)
  BY <1>3, <1>6
<1>10. ~checks[3][2] <=> (s.uniqueItems => \A i, j \in DOMAIN v.items : v.items[i] = v.items[j] => i = j)
  <2>1. Cardinality(ToSet(v.items)) = Len(v.items) <=> \A i, j \in DOMAIN v.items : v.items[i] = v.items[j] => i = j
    BY <1>1, UniqueFacts
  <2> QED BY <1>7, <2>1
<1>11. Report(mode, checks) = OK <=> \A i \in 1..3 : ~checks[i][2]
  BY <1>4, ReportOK
<1>12. (\A i \in 1..3 : ~checks[i][2]) <=> ~checks[1][2] /\ ~checks[2][2] /\ ~checks[3][2]
  OBVIOUS
<1> QED BY <1>2, <1>8, <1>9, <1>10, <1>11, <1>12 DEF checks, s

LEMMA ItemsDecide ==
  ASSUME NEW d, IsDocument(d), NEW c \in Calls(d), c.value.t = "arr", d[c.schema].items # None,
         NEW visits, NEW conforms,
         \A m \in Children(d[c.schema]), x \in Members(c.value) :
            conforms[Ask(m, x)] \in BOOLEAN /\ Decides(visits[Inside(c, m, x)], conforms[Ask(m, x)]),
         NEW collects \in BOOLEAN
  PROVE  \E b \in BOOLEAN :
            /\ b <=> \A i \in DOMAIN c.value.items : conforms[Ask(d[c.schema].items, c.value.items[i])]
            /\ Decides(InOrder(collects, ItemRow(visits, d[c.schema], c)), b)
<1> DEFINE s == d[c.schema]
           items == c.value.items
<1>1. items \in Seq(Universe) /\ s.items \in Children(s)
  BY CallParts, UniverseFacts, SchemaFacts
<1>2. PICK outs : outs = ItemRow(visits, s, c)
  OBVIOUS
<1>3. DOMAIN outs = 1..Len(items) /\ DOMAIN items = 1..Len(items) /\ Len(items) \in Nat
  BY <1>1, <1>2 DEF ItemRow
<1>4. PICK Yes : Yes = {i \in DOMAIN items : conforms[Ask(s.items, items[i])]}
  OBVIOUS
<1>5. ASSUME NEW i \in DOMAIN outs PROVE Decides(outs[i], i \in Yes)
  <2>1. items[i] \in Members(c.value)
    BY <1>3, PartsOfValues
  <2>2. PICK O : O = visits[Inside(c, s.items, items[i])]
    OBVIOUS
  <2>3. PICK w \in BOOLEAN : w = conforms[Ask(s.items, items[i])] /\ Decides(O, w)
    BY <1>1, <2>1, <2>2
  <2>4. PICK step : step = ToString(i - 1)
    OBVIOUS
  <2>5. Decides({Mark(step, o) : o \in O}, w)
    BY <2>3, MarkDecides
  <2>6. outs[i] = {Mark(step, o) : o \in O}
    BY <1>2, <1>3, <2>2, <2>4 DEF ItemRow
  <2>7. (i \in Yes) = w
    BY <1>3, <1>4, <2>3
  <2> QED BY <2>5, <2>6, <2>7
<1>6. Decides(InOrder(collects, outs), \A i \in DOMAIN outs : i \in Yes)
  BY <1>3, <1>5, InOrderDecides
<1>7. (\A i \in DOMAIN outs : i \in Yes) <=> \A i \in DOMAIN items : conforms[Ask(s.items, items[i])]
  BY <1>3, <1>4
<1>8. (\A i \in DOMAIN outs : i \in Yes) \in BOOLEAN
  OBVIOUS
<1>9. PICK b \in BOOLEAN : b = (\A i \in DOMAIN outs : i \in Yes)
  BY <1>8, Zenon
<1>10. Decides(InOrder(collects, outs), b)
  BY <1>6, <1>9
<1>11. b <=> \A i \in DOMAIN items : conforms[Ask(s.items, items[i])]
  BY <1>7, <1>9
<1> QED BY <1>2, <1>10, <1>11

LEMMA ArrayDecides ==
  ASSUME NEW d, IsDocument(d), NEW c \in Calls(d), c.value.t = "arr", NEW visits, NEW conforms,
         \A m \in Children(d[c.schema]), x \in Members(c.value) :
            conforms[Ask(m, x)] \in BOOLEAN /\ Decides(visits[Inside(c, m, x)], conforms[Ask(m, x)]),
         NEW b \in BOOLEAN, b <=> HasType(d[c.schema], c.value) /\ ItemsConform(conforms, d[c.schema], c.value)
  PROVE  Decides(VisitArray(visits, d, c), b)
<1> DEFINE s == d[c.schema]
           v == c.value
<1>1. c.schema \in DOMAIN d /\ c.value \in Universe /\ c.mode \in Settings
  BY CallParts
<1>2. WrongType(s, v) <=> ~HasType(s, v)
  BY DEF WrongType, TypeOf, HasType
<1>3. PICK own : own = Report(c.mode, ArrayChecks(s, v))
  OBVIOUS
<1> DEFINE Each == \A i \in DOMAIN v.items : conforms[Ask(s.items, v.items[i])]
<1>4. ItemsConform(conforms, s, v) <=> own = OK /\ (s.items # None => Each)
  BY <1>1, <1>3, ArrayOwn DEF ItemsConform
<1>5. VisitArray(visits, d, c) =
         IF WrongType(s, v) THEN {Failing(c.mode, "type")}
         ELSE IF Stops(own, c.mode) \/ s.items = None THEN {own}
         ELSE Then(c.mode.multiError, {own}, InOrder(c.mode.multiError, ItemRow(visits, s, c)))
  BY <1>3, ArrayParts
<1>6. CASE WrongType(s, v)
  <2>1. ~b
    BY <1>2, <1>6
  <2>2. Decides({Failing(c.mode, "type")}, b)
    BY <1>1, <2>1, FailingDecides
  <2> QED BY <1>5, <1>6, <2>2
<1>7. CASE ~WrongType(s, v) /\ (Stops(own, c.mode) \/ s.items = None)
  <2>1. own = OK <=> b
    BY <1>2, <1>4, <1>7 DEF Stops
  <2> QED BY <1>5, <1>7, <2>1, OneDecides
<1>8. CASE ~WrongType(s, v) /\ ~Stops(own, c.mode) /\ s.items # None
  <2>1. PICK a \in BOOLEAN : a <=> own = OK
    <3>1. CASE own = OK
      BY <3>1
    <3>2. CASE own # OK
      BY <3>2
    <3> QED BY <3>1, <3>2
  <2>3. Decides({own}, a)
    BY <2>1, OneDecides
  <2>4. PICK collects \in BOOLEAN : collects = c.mode.multiError
    BY <1>1, SettingsFacts
  <2>5. PICK e \in BOOLEAN : (e <=> Each) /\ Decides(InOrder(collects, ItemRow(visits, s, c)), e)
    BY <1>8, ItemsDecide
  <2>6. PICK P : P = InOrder(collects, ItemRow(visits, s, c))
    OBVIOUS
  <2>7. Decides(Then(collects, {own}, P), a /\ e)
    BY <2>3, <2>5, <2>6, ThenDecides
  <2>8. b = (a /\ e)
    BY <1>2, <1>4, <1>8, <2>1, <2>5
  <2> QED BY <1>5, <1>8, <2>4, <2>6, <2>7, <2>8
<1> QED BY <1>6, <1>7, <1>8

-----------------------------------------------------------------------------
(* Objects.                                                                 *)

\* The checks of an object's own keywords.
LEMMA ObjectOwn ==
  ASSUME NEW d, IsDocument(d), NEW n \in DOMAIN d, NEW v \in Universe, v.t = "obj", NEW mode \in Settings
  PROVE  Report(mode, PropertyCountChecks(d[n], v)) = OK <=>
            /\ Len(v.pairs) >= d[n].minProps
            /\ d[n].maxProps # None => Len(v.pairs) <= d[n].maxProps
<1> DEFINE s == d[n]
           checks == PropertyCountChecks(s, v)
<1>1. v.pairs \in Seq([k : STRING, v : Universe])
  BY UniverseFacts
<1>2. PICK len \in Nat : len = Len(v.pairs)
  BY <1>1
<1>3. s.minProps \in Nat /\ (s.maxProps # None => s.maxProps \in Nat)
  BY BoundTypes
<1> HIDE DEF s
<1>4. DOMAIN checks = 1..2
  BY DEF PropertyCountChecks
<1>5. checks[1][2] <=> s.minProps # 0 /\ len < s.minProps
  BY <1>2 DEF PropertyCountChecks, Check
<1>6. checks[2][2] <=> s.maxProps # None /\ len > s.maxProps
  BY <1>2 DEF PropertyCountChecks, Check
<1> HIDE DEF checks
<1>7. ~checks[1][2] <=> len >= s.minProps
  BY <1>3, <1>5
<1>8. ~checks[2][2] <=> (s.maxProps # None => len <= s.maxProps)
  BY <1>3, <1>6
<1>9. Report(mode, checks) = OK <=> \A i \in 1..2 : ~checks[i][2]
  BY <1>4, ReportOK
<1>10. (\A i \in 1..2 : ~checks[i][2]) <=> ~checks[1][2] /\ ~checks[2][2]
  OBVIOUS
<1> QED BY <1>2, <1>7, <1>8, <1>9, <1>10 DEF checks, s

\* What a schema asks about its required properties.
RequiredMet(d, s, v, mode) ==
    \A i \in DOMAIN s.required :
       LET k == s.required[i]
       IN  \/ \E j \in DOMAIN v.pairs : v.pairs[j].k = k
           \/ /\ k \in DOMAIN s.properties
              /\ \/ d[s.properties[k]].readOnly /\ mode.asreq
                 \/ d[s.properties[k]].writeOnly /\ mode.asrep

LEMMA RequiredOwn ==
  ASSUME NEW d, IsDocument(d), NEW n \in DOMAIN d, NEW v, NEW mode \in Settings,
         NEW mode0, mode0.asreq = mode.asreq, mode0.asrep = mode.asrep
  PROVE  Report(mode, RequiredChecks(d, d[n], v, mode)) = OK <=> RequiredMet(d, d[n], v, mode0)
<1> DEFINE s == d[n]
           checks == RequiredChecks(d, s, v, mode)
<1>1. s.required \in Seq(STRING)
  BY BoundTypes
<1> HIDE DEF s
<1>2. PICK len \in Nat : len = Len(s.required) /\ DOMAIN s.required = 1..len
  BY <1>1
<1>3. DOMAIN checks = 1..len
  BY <1>2 DEF RequiredChecks
<1>4. ASSUME NEW i \in 1..len
      PROVE  ~checks[i][2] <=> s.required[i] \in KeysOf(v) \/ Exempt(d, s, s.required[i], mode)
  BY <1>2 DEF RequiredChecks
<1>5. ASSUME NEW i \in 1..len
      PROVE  s.required[i] \in KeysOf(v) <=> \E j \in DOMAIN v.pairs : v.pairs[j].k = s.required[i]
  BY DEF KeysOf
<1>6. ASSUME NEW k
      PROVE  Exempt(d, s, k, mode) <=>
                /\ k \in DOMAIN s.properties
                /\ \/ d[s.properties[k]].readOnly /\ mode0.asreq
                   \/ d[s.properties[k]].writeOnly /\ mode0.asrep
  BY DEF Exempt
<1>7. Report(mode, checks) = OK <=> \A i \in 1..len : ~checks[i][2]
  <2> HIDE DEF checks
  <2> QED BY <1>3, ReportOK
<1> HIDE DEF checks
<1>8. (\A i \in 1..len : ~checks[i][2]) <=> RequiredMet(d, s, v, mode0)
  BY <1>2, <1>4, <1>5, <1>6 DEF RequiredMet
<1> QED BY <1>7, <1>8 DEF checks, s

\* The fast visitor passes a member that is forbidden, in single mode.
Passes(fast, s, mode) == fast /\ ~mode.multiError /\ ~mode.failfast /\ s.additionalAllowed = FALSE

LEMMA MemberDecides ==
  ASSUME NEW d, IsDocument(d), NEW c \in Calls(d), c.value.t = "obj", NEW fast \in BOOLEAN,
         ~Passes(fast, d[c.schema], c.mode),
         NEW visits, NEW conforms,
         \A m \in Children(d[c.schema]), x \in Members(c.value) :
            conforms[Ask(m, x)] \in BOOLEAN /\ Decides(visits[Inside(c, m, x)], conforms[Ask(m, x)]),
         NEW p, p.v \in Members(c.value)
  PROVE  \E b \in BOOLEAN : /\ b <=> MemberConforms(conforms, d[c.schema], p)
                            /\ Decides(MemberOutcomes(visits, fast, d, c, p), b)
<1> DEFINE s == d[c.schema]
<1>1. c.schema \in DOMAIN d /\ c.mode \in Settings
  BY CallParts
<1>2. /\ \A k \in DOMAIN s.properties : s.properties[k] \in Children(s)
      /\ s.additional # None => s.additional \in Children(s)
  BY <1>1, SchemaFacts
<1>3. ASSUME NEW m \in Children(s)
      PROVE  \E b \in BOOLEAN : /\ b <=> conforms[Ask(m, p.v)]
                                /\ Decides({Keyed(p.k, o, c.mode) : o \in visits[Inside(c, m, p.v)]}, b)
  <2>1. PICK O : O = visits[Inside(c, m, p.v)]
    OBVIOUS
  <2>2. PICK b \in BOOLEAN : b = conforms[Ask(m, p.v)] /\ Decides(O, b)
    BY <2>1
  <2>3. PICK k : k = p.k
    OBVIOUS
  <2>4. PICK mode : mode = c.mode
    OBVIOUS
  <2>5. Decides({Keyed(k, o, mode) : o \in O}, b)
    BY <2>2, KeyedDecides
  <2> QED BY <2>1, <2>2, <2>3, <2>4, <2>5
<1>4. CASE p.k \in DOMAIN s.properties
  <2>1. PICK m \in Children(s) : m = s.properties[p.k]
    BY <1>2, <1>4
  <2>2. MemberConforms(conforms, s, p) <=> conforms[Ask(m, p.v)]
    BY <1>4, <2>1 DEF MemberConforms
  <2>3. MemberOutcomes(visits, fast, d, c, p) = {Keyed(p.k, o, c.mode) : o \in visits[Inside(c, m, p.v)]}
    BY <1>4, <2>1 DEF MemberOutcomes
  <2> QED BY <1>3, <2>2, <2>3
<1>5. CASE p.k \notin DOMAIN s.properties /\ s.additional # None
  <2>1. PICK m \in Children(s) : m = s.additional
    BY <1>2, <1>5
  <2>2. MemberConforms(conforms, s, p) <=> conforms[Ask(m, p.v)]
    BY <1>5, <2>1 DEF MemberConforms
  <2>3. MemberOutcomes(visits, fast, d, c, p) = {Keyed(p.k, o, c.mode) : o \in visits[Inside(c, m, p.v)]}
    BY <1>5, <2>1 DEF MemberOutcomes
  <2> QED BY <1>3, <2>2, <2>3
<1>6. CASE p.k \notin DOMAIN s.properties /\ s.additional = None
  <2>1. MemberConforms(conforms, s, p) <=> s.additionalAllowed # FALSE
    BY <1>6 DEF MemberConforms
  <2>2. CASE s.additionalAllowed = FALSE
    <3>1. Unsupported(fast, c.mode) = Failing(c.mode, "properties")
      BY <2>2 DEF Unsupported, Passes
    <3>2. MemberOutcomes(visits, fast, d, c, p) = {Failing(c.mode, "properties")}
      BY <1>6, <2>2, <3>1 DEF MemberOutcomes
    <3>3. PICK b \in BOOLEAN : ~b
      OBVIOUS
    <3>4. Decides({Failing(c.mode, "properties")}, b)
      BY <1>1, <3>3, FailingDecides
    <3> QED BY <2>1, <2>2, <3>2, <3>3, <3>4
  <2>3. CASE s.additionalAllowed # FALSE
    <3>1. MemberOutcomes(visits, fast, d, c, p) = {OK}
      BY <1>6, <2>3 DEF MemberOutcomes
    <3>2. PICK b \in BOOLEAN : b
      OBVIOUS
    <3>3. Decides({OK}, b)
      BY <3>2, OneDecides
    <3> QED BY <2>1, <2>3, <3>1, <3>2, <3>3
  <2> QED BY <2>2, <2>3
<1> QED BY <1>4, <1>5, <1>6

LEMMA RangedDecides ==
  ASSUME NEW d, IsDocument(d), NEW c \in Calls(d), c.value.t = "obj", NEW fast \in BOOLEAN,
         ~Passes(fast, d[c.schema], c.mode),
         NEW visits, NEW conforms,
         \A m \in Children(d[c.schema]), x \in Members(c.value) :
            conforms[Ask(m, x)] \in BOOLEAN /\ Decides(visits[Inside(c, m, x)], conforms[Ask(m, x)])
  PROVE  \E b \in BOOLEAN :
            /\ b <=> \A i \in DOMAIN c.value.pairs : MemberConforms(conforms, d[c.schema], c.value.pairs[i])
            /\ Decides(Ranged(visits, fast, d, c), b)
<1> DEFINE s == d[c.schema]
           pairs == c.value.pairs
<1>1. pairs \in Seq([k : STRING, v : Universe]) /\ c.mode \in Settings
  BY CallParts, UniverseFacts
<1>2. PICK outs : outs = MemberRow(visits, fast, d, c)
  OBVIOUS
<1>3. DOMAIN outs = 1..Len(pairs) /\ DOMAIN pairs = 1..Len(pairs) /\ Len(pairs) \in Nat
  BY <1>1, <1>2 DEF MemberRow
<1>4. PICK Yes : Yes = {i \in DOMAIN pairs : MemberConforms(conforms, s, pairs[i])}
  OBVIOUS
<1>5. ASSUME NEW i \in DOMAIN outs PROVE Decides(outs[i], i \in Yes)
  <2>1. PICK p : p = pairs[i] /\ p.v \in Members(c.value)
    BY <1>3, PartsOfValues
  <2>2. PICK b \in BOOLEAN : /\ b <=> MemberConforms(conforms, s, p)
                             /\ Decides(MemberOutcomes(visits, fast, d, c, p), b)
    BY <2>1, MemberDecides
  <2>3. outs[i] = MemberOutcomes(visits, fast, d, c, p)
    BY <1>2, <1>3, <2>1 DEF MemberRow
  <2>4. (i \in Yes) = b
    BY <1>3, <1>4, <2>1, <2>2
  <2> QED BY <2>2, <2>3, <2>4
<1>6. Decides(LastWins(outs), \A i \in DOMAIN outs : i \in Yes)
  BY <1>3, <1>5, LastWinsDecides
<1>7. PICK collects \in BOOLEAN : collects = Collects(c.mode)
  BY <1>1, SettingsFacts
<1>8. Decides(AnyOrder(collects, outs), \A i \in DOMAIN outs : i \in Yes)
  BY <1>5, AnyOrderDecides
<1>9. (\A i \in DOMAIN outs : i \in Yes) <=> \A i \in DOMAIN pairs : MemberConforms(conforms, s, pairs[i])
  BY <1>3, <1>4
<1>10. (\A i \in DOMAIN outs : i \in Yes) \in BOOLEAN
  OBVIOUS
<1>11. PICK b \in BOOLEAN : b = (\A i \in DOMAIN outs : i \in Yes)
  BY <1>10, Zenon
<1>12. Decides(LastWins(outs), b) /\ Decides(AnyOrder(collects, outs), b)
  BY <1>6, <1>8, <1>11
<1>13. b <=> \A i \in DOMAIN pairs : MemberConforms(conforms, s, pairs[i])
  BY <1>9, <1>11
<1>14. Ranged(visits, fast, d, c) = IF fast /\ ~collects THEN LastWins(outs) ELSE AnyOrder(collects, outs)
  BY <1>2, <1>7 DEF Ranged
<1>15. Decides(Ranged(visits, fast, d, c), b)
  BY <1>12, <1>14
<1> QED BY <1>13, <1>15

LEMMA ObjectDecides ==
  ASSUME NEW d, IsDocument(d), NEW c \in Calls(d), c.value.t = "obj", NEW fast \in BOOLEAN,
         ~Passes(fast, d[c.schema], c.mode),
         NEW visits, NEW conforms,
         \A m \in Children(d[c.schema]), x \in Members(c.value) :
            conforms[Ask(m, x)] \in BOOLEAN /\ Decides(visits[Inside(c, m, x)], conforms[Ask(m, x)]),
         NEW mode0, mode0.asreq = c.mode.asreq, mode0.asrep = c.mode.asrep,
         NEW b \in BOOLEAN,
         b <=> HasType(d[c.schema], c.value) /\ ObjectConforms(conforms, d, d[c.schema], c.value, mode0)
  PROVE  Decides(VisitObject(visits, fast, d, c), b)
<1> DEFINE s == d[c.schema]
           v == c.value
<1>1. c.schema \in DOMAIN d /\ c.value \in Universe /\ c.mode \in Settings
  BY CallParts
<1>2. WrongType(s, v) <=> ~HasType(s, v)
  BY DEF WrongType, TypeOf, HasType
<1>3. PICK own, missing, ranged : /\ own = Report(c.mode, PropertyCountChecks(s, v))
                                  /\ missing = Report(c.mode, RequiredChecks(d, s, v, c.mode))
                                  /\ ranged = Ranged(visits, fast, d, c)
  OBVIOUS
<1> DEFINE Each == \A i \in DOMAIN v.pairs : MemberConforms(conforms, s, v.pairs[i])
<1>4. ObjectConforms(conforms, d, s, v, mode0) <=> own = OK /\ Each /\ missing = OK
  <2>1. own = OK <=> /\ Len(v.pairs) >= s.minProps
                     /\ s.maxProps # None => Len(v.pairs) <= s.maxProps
    BY <1>1, <1>3, ObjectOwn
  <2>2. missing = OK <=> RequiredMet(d, s, v, mode0)
    BY <1>1, <1>3, RequiredOwn
  <2> QED BY <2>1, <2>2 DEF ObjectConforms, RequiredMet
<1>5. PICK collects \in BOOLEAN : collects = Collects(c.mode)
  BY <1>1, SettingsFacts
<1>6. VisitObject(visits, fast, d, c) =
         IF WrongType(s, v) THEN {Failing(c.mode, "type")}
         ELSE IF Stops(own, c.mode) THEN {own}
         ELSE Then(collects, {own}, Then(collects, ranged, {missing}))
  BY <1>3, <1>5, ObjectParts
<1>7. CASE WrongType(s, v)
  <2>1. ~b
    BY <1>2, <1>7
  <2>2. Decides({Failing(c.mode, "type")}, b)
    BY <1>1, <2>1, FailingDecides
  <2> QED BY <1>6, <1>7, <2>2
<1>8. CASE ~WrongType(s, v) /\ Stops(own, c.mode)
  <2>1. own = OK <=> b
    BY <1>2, <1>4, <1>8 DEF Stops
  <2> QED BY <1>6, <1>8, <2>1, OneDecides
<1>9. CASE ~WrongType(s, v) /\ ~Stops(own, c.mode)
  <2>1. PICK e \in BOOLEAN : (e <=> Each) /\ Decides(ranged, e)
    BY <1>3, RangedDecides
  <2>2. ASSUME NEW o PROVE \E a \in BOOLEAN : (a <=> o = OK) /\ Decides({o}, a)
    <3>1. CASE o = OK
      BY <3>1, OneDecides
    <3>2. CASE o # OK
      BY <3>2, OneDecides
    <3> QED BY <3>1, <3>2
  <2>3. PICK a \in BOOLEAN : (a <=> own = OK) /\ Decides({own}, a)
    BY <2>2
  <2>4. PICK r \in BOOLEAN : (r <=> missing = OK) /\ Decides({missing}, r)
    BY <2>2
  <2>5. PICK P : P = Then(collects, ranged, {missing})
    OBVIOUS
  <2>6. Decides(P, e /\ r)
    BY <2>1, <2>4, <2>5, ThenDecides
  <2>7. PICK both \in BOOLEAN : both = (e /\ r)
    <3>1. (e /\ r) \in BOOLEAN
      OBVIOUS
    <3> QED BY <3>1, Zenon
  <2>8. Decides(P, both)
    BY <2>6, <2>7
  <2>9. Decides(Then(collects, {own}, P), a /\ both)
    BY <2>3, <2>8, ThenDecides
  <2>10. b = (a /\ both)
    BY <1>2, <1>4, <1>9, <2>1, <2>3, <2>4, <2>7
  <2> QED BY <1>6, <1>9, <2>5, <2>9, <2>10
<1> QED BY <1>7, <1>8, <1>9

\* What the keywords for one kind of value ask.
KindConforms(conforms, d, s, v, mode) ==
    /\ HasType(s, v)
    /\ v.t = "num" => NumberConforms(s, v)
    /\ v.t = "str" => TextConforms(s, v)
    /\ v.t = "arr" => ItemsConform(conforms, s, v)
    /\ v.t = "obj" => ObjectConforms(conforms, d, s, v, mode)

LEMMA KindDecides ==
  ASSUME NEW d, IsDocument(d), NEW c \in Calls(d), c.value.t \notin {"null", "nan", "inf", "raw"},
         NEW fast \in BOOLEAN, ~Passes(fast, d[c.schema], c.mode),
         NEW visits, NEW conforms,
         \A m \in Children(d[c.schema]), x \in Members(c.value) :
            conforms[Ask(m, x)] \in BOOLEAN /\ Decides(visits[Inside(c, m, x)], conforms[Ask(m, x)]),
         NEW mode0, mode0.asreq = c.mode.asreq, mode0.asrep = c.mode.asrep
  PROVE  \E b \in BOOLEAN : /\ b <=> KindConforms(conforms, d, d[c.schema], c.value, mode0)
                            /\ Decides(ByKind(visits, fast, d, c), b)
<1> DEFINE s == d[c.schema]
           v == c.value
<1>1. c.schema \in DOMAIN d /\ c.value \in Universe /\ c.mode \in Settings
  BY CallParts
<1>2. v.t \in {"bool", "num", "str", "arr", "obj"}
  BY <1>1, UniverseFacts DEF Kinds
<1>3. ASSUME NEW F PROVE \E b \in BOOLEAN : b <=> F
  <2>1. CASE F
    BY <2>1
  <2>2. CASE ~F
    BY <2>2
  <2> QED BY <2>1, <2>2
<1>4. CASE v.t = "bool"
  <2>1. KindConforms(conforms, d, s, v, mode0) <=> HasType(s, v)
    BY <1>4 DEF KindConforms
  <2>2. ByKind(visits, fast, d, c) = {VisitBoolean(s, v, c.mode)}
    BY <1>4 DEF ByKind
  <2>3. HasType(s, v) \in BOOLEAN
    BY DEF HasType
  <2>4. PICK b \in BOOLEAN : b = HasType(s, v)
    BY <2>3
  <2>5. Decides({VisitBoolean(s, v, c.mode)}, b)
    BY <1>1, <1>4, <2>4, BooleanDecides
  <2> QED BY <2>1, <2>2, <2>4, <2>5
<1>5. CASE v.t = "num"
  <2>1. KindConforms(conforms, d, s, v, mode0) <=> HasType(s, v) /\ NumberConforms(s, v)
    BY <1>5 DEF KindConforms
  <2>2. ByKind(visits, fast, d, c) = {VisitNumber(s, v, c.mode)}
    BY <1>5 DEF ByKind
  <2>3. (HasType(s, v) /\ NumberConforms(s, v)) \in BOOLEAN
    OBVIOUS
  <2>4. PICK b \in BOOLEAN : b = (HasType(s, v) /\ NumberConforms(s, v))
    BY <2>3, Zenon
  <2>5. Decides({VisitNumber(s, v, c.mode)}, b)
    BY <1>1, <1>5, <2>4, NumberDecides
  <2> QED BY <2>1, <2>2, <2>4, <2>5
<1>6. CASE v.t = "str"
  <2>1. KindConforms(conforms, d, s, v, mode0) <=> HasType(s, v) /\ TextConforms(s, v)
    BY <1>6 DEF KindConforms
  <2>2. ByKind(visits, fast, d, c) = {VisitString(s, v, c.mode)}
    BY <1>6 DEF ByKind
  <2>3. (HasType(s, v) /\ TextConforms(s, v)) \in BOOLEAN
    OBVIOUS
  <2>4. PICK b \in BOOLEAN : b = (HasType(s, v) /\ TextConforms(s, v))
    BY <2>3, Zenon
  <2>5. Decides({VisitString(s, v, c.mode)}, b)
    BY <1>1, <1>6, <2>4, StringDecides
  <2> QED BY <2>1, <2>2, <2>4, <2>5
<1>7. CASE v.t = "arr"
  <2>1. KindConforms(conforms, d, s, v, mode0) <=> HasType(s, v) /\ ItemsConform(conforms, s, v)
    BY <1>7 DEF KindConforms
  <2>2. ByKind(visits, fast, d, c) = VisitArray(visits, d, c)
    BY <1>7 DEF ByKind
  <2>3. \A b \in BOOLEAN : (b <=> HasType(s, v) /\ ItemsConform(conforms, s, v)) => Decides(VisitArray(visits, d, c), b)
    BY <1>7, ArrayDecides
  <2>4. PICK b \in BOOLEAN : b <=> HasType(s, v) /\ ItemsConform(conforms, s, v)
    BY <1>3
  <2> QED BY <2>1, <2>2, <2>3, <2>4
<1>8. CASE v.t = "obj"
  <2>1. KindConforms(conforms, d, s, v, mode0) <=> HasType(s, v) /\ ObjectConforms(conforms, d, s, v, mode0)
    BY <1>8 DEF KindConforms
  <2>2. ByKind(visits, fast, d, c) = VisitObject(visits, fast, d, c)
    BY <1>8 DEF ByKind
  <2>3. \A b \in BOOLEAN : (b <=> HasType(s, v) /\ ObjectConforms(conforms, d, s, v, mode0))
                             => Decides(VisitObject(visits, fast, d, c), b)
    BY <1>8, ObjectDecides
  <2>4. PICK b \in BOOLEAN : b <=> HasType(s, v) /\ ObjectConforms(conforms, d, s, v, mode0)
    BY <1>3
  <2> QED BY <2>1, <2>2, <2>3, <2>4
<1> QED BY <1>2, <1>4, <1>5, <1>6, <1>7, <1>8

-----------------------------------------------------------------------------
(* The visitors decide what Conforms asks.                                  *)

\* What a call asks is among the asks.
LEMMA AskOfFacts ==
  ASSUME NEW d, IsDocument(d), NEW c \in Calls(d)
  PROVE  /\ AskOf(c) \in Asks(d) /\ AskOf(c).schema = c.schema /\ AskOf(c).value = c.value /\ AskOf(c).above = c.above
         /\ \A m \in DOMAIN d, how \in Settings : AskOf(Operand(c, m, how)) = AskAlso(AskOf(c), m)
         /\ \A m \in DOMAIN d, x \in Universe : AskOf(Inside(c, m, x)) = Ask(m, x)
<1>1. AskOf(c) \in Asks(d) /\ AskOf(c).schema = c.schema /\ AskOf(c).value = c.value /\ AskOf(c).above = c.above
  BY CallParts DEF AskOf, Asks
<1>2. ASSUME NEW b1 \in Asks(d), NEW b2 \in Asks(d),
             b1.schema = b2.schema /\ b1.value = b2.value /\ b1.above = b2.above
      PROVE  b1 = b2
  BY <1>2 DEF Asks
<1>3. ASSUME NEW m \in DOMAIN d, NEW how \in Settings PROVE AskOf(Operand(c, m, how)) = AskAlso(AskOf(c), m)
  <2>1. PICK b1 : b1 = AskOf(Operand(c, m, how))
    OBVIOUS
  <2>2. PICK b2 : b2 = AskAlso(AskOf(c), m)
    OBVIOUS
  <2>3. b1 \in Asks(d) /\ b1.schema = m /\ b1.value = c.value /\ b1.above = c.above \cup {c.schema}
    BY <2>1, CallParts DEF AskOf, Asks
  <2>4. b2 \in Asks(d) /\ b2.schema = m /\ b2.value = c.value /\ b2.above = c.above \cup {c.schema}
    BY <1>1, <2>2, AskAlsoParts
  <2> QED BY <1>2, <2>1, <2>2, <2>3, <2>4
<1>4. ASSUME NEW m \in DOMAIN d, NEW x \in Universe PROVE AskOf(Inside(c, m, x)) = Ask(m, x)
  <2>1. PICK b1 : b1 = AskOf(Inside(c, m, x))
    OBVIOUS
  <2>2. PICK b2 : b2 = Ask(m, x)
    OBVIOUS
  <2>3. b1 \in Asks(d) /\ b1.schema = m /\ b1.value = x /\ b1.above = {}
    BY <2>1, CallParts DEF AskOf, Asks
  <2>4. b2 \in Asks(d) /\ b2.schema = m /\ b2.value = x /\ b2.above = {}
    BY <2>2, AskInsideParts
  <2> QED BY <1>2, <2>1, <2>2, <2>3, <2>4
<1> QED BY <1>1, <1>3, <1>4

\* What a call comes to, case by case.
LEMMA OutcomesParts ==
  ASSUME NEW visits, NEW fast, NEW d, NEW c
  PROVE  OutcomesOf(visits, fast, d, c) =
            IF c.schema \in c.above THEN {Overflow}
            ELSE IF ~fast /\ c.value.t \in {"null", "nan", "inf"}
            THEN {EarlyOutcome(c.value, d[c.schema], c.mode)}
            ELSE (Emptiness(d, c.schema) \ {NotEmpty})
                 \cup (IF NotEmpty \in Emptiness(d, c.schema)
                       THEN Then(FALSE, SetOperations(visits, fast, d, c), ByKind(visits, fast, d, c))
                       ELSE {})
BY Zenon DEF OutcomesOf

LEMMA ConformsParts ==
  ASSUME NEW conforms, NEW d, NEW a, NEW mode
  PROVE  ConformsIn(conforms, d, a, mode) <=>
            /\ a.schema \notin a.above
            /\ IF a.value.t = "null" THEN d[a.schema].nullable
               ELSE /\ a.value.t \notin {"nan", "inf"}
                    /\ \/ Emptiness(d, a.schema) = {OK}
                       \/ /\ a.value.t # "raw"
                          /\ OperandsConform(conforms, d, a)
                          /\ KindConforms(conforms, d, d[a.schema], a.value, mode)
BY DEF ConformsIn, KindConforms

LEMMA EarlyDecides ==
  ASSUME NEW d, IsDocument(d), NEW c \in Calls(d), c.value.t \in {"null", "nan", "inf"},
         NEW b \in BOOLEAN, b <=> c.value.t = "null" /\ d[c.schema].nullable
  PROVE  Decides({EarlyOutcome(c.value, d[c.schema], c.mode)}, b)
<1> DEFINE s == d[c.schema]
<1>1. c.schema \in DOMAIN d /\ c.mode \in Settings /\ s.nullable \in BOOLEAN
  BY CallParts, BoundTypes
<1>2. CASE c.value.t = "null"
  <2>1. PICK checks : checks = <<Check("nullable", ~s.nullable)>>
    OBVIOUS
  <2>2. DOMAIN checks = 1..1 /\ (checks[1][2] <=> ~s.nullable)
    <3>1. DOMAIN checks = 1..1
      BY <2>1
    <3>2. checks[1] = Check("nullable", ~s.nullable)
      BY <2>1
    <3>3. Check("nullable", ~s.nullable)[2] <=> ~s.nullable
      BY DEF Check
    <3> QED BY <3>1, <3>2, <3>3
  <2>3. Report(c.mode, checks) = OK <=> \A i \in 1..1 : ~checks[i][2]
    BY <1>1, <2>2, ReportOK
  <2>4. Report(c.mode, checks) = OK <=> b
    BY <1>2, <2>2, <2>3
  <2>5. EarlyOutcome(c.value, s, c.mode) = Report(c.mode, checks)
    BY <1>2, <2>1 DEF EarlyOutcome, VisitNull
  <2> QED BY <2>4, <2>5, OneDecides
<1>3. CASE c.value.t # "null"
  <2>1. EarlyOutcome(c.value, s, c.mode) # OK
    <3>1. EarlyOutcome(c.value, s, c.mode) \in {{Error("NaN")}, {Error("Inf")}}
      BY <1>3 DEF EarlyOutcome
    <3> QED BY <3>1 DEF OK
  <2> QED BY <1>3, <2>1, OneDecides
<1> QED BY <1>2, <1>3

\* What is refused in the end is refused.
LEMMA ThenRefuses ==
  ASSUME NEW O, NEW a \in BOOLEAN, Decides(O, a), NEW o, o # OK, NEW b \in BOOLEAN, ~b
  PROVE  Decides(Then(FALSE, O, {o}), b)
<1>1. \A x \in Then(FALSE, O, {o}) : x # OK
  BY ThenIs
<1>2. O # {}
  BY DEF Decides
<1>3. Then(FALSE, O, {o}) # {}
  BY <1>2, ThenFacts
<1> QED BY <1>1, <1>3 DEF Decides

\* A call whose schema is not waiting for itself.
LEMMA CallDecides ==
  ASSUME NEW d, IsDocument(d), NEW c \in Calls(d), c.schema \notin c.above,
         c.value.t \notin {"null", "nan", "inf"}, NEW fast \in BOOLEAN,
         ~Passes(fast, d[c.schema], c.mode), fast => d[c.schema].enum = <<>>,
         NEW visits, NEW conforms,
         \A m \in Operands(d[c.schema]) :
            /\ conforms[AskAlso(AskOf(c), m)] \in BOOLEAN
            /\ Decides(visits[Operand(c, m, Quiet(c.mode))], conforms[AskAlso(AskOf(c), m)])
            /\ Decides(visits[Operand(c, m, Loud(c.mode))], conforms[AskAlso(AskOf(c), m)]),
         \A m \in Children(d[c.schema]), x \in Members(c.value) :
            conforms[Ask(m, x)] \in BOOLEAN /\ Decides(visits[Inside(c, m, x)], conforms[Ask(m, x)]),
         NEW mode0, mode0.asreq = c.mode.asreq, mode0.asrep = c.mode.asrep,
         NEW b \in BOOLEAN, b <=> ConformsIn(conforms, d, AskOf(c), mode0)
  PROVE  Decides(OutcomesOf(visits, fast, d, c), b)
<1> DEFINE s == d[c.schema]
           v == c.value
<1>1. c.schema \in DOMAIN d /\ c.value \in Universe /\ c.mode \in Settings
  BY CallParts
<1>2. PICK E : E = Emptiness(d, c.schema)
  OBVIOUS
<1>3. E # {} /\ E \subseteq {OK, NotEmpty, Overflow} /\ (OK \in E => E = {OK})
  BY <1>1, <1>2, EmptinessSure DEF Sure
<1>4. PICK S, K : S = SetOperations(visits, fast, d, c) /\ K = ByKind(visits, fast, d, c)
  OBVIOUS
<1>5. OutcomesOf(visits, fast, d, c) = (E \ {NotEmpty}) \cup (IF NotEmpty \in E THEN Then(FALSE, S, K) ELSE {})
  BY <1>2, <1>4, OutcomesParts
<1> DEFINE Ops  == OperandsConform(conforms, d, AskOf(c))
           Kind == KindConforms(conforms, d, s, v, mode0)
<1>6. b <=> E = {OK} \/ (v.t # "raw" /\ Ops /\ Kind)
  <2>1. AskOf(c).schema = c.schema /\ AskOf(c).value = c.value /\ AskOf(c).above = c.above
    BY AskOfFacts
  <2> QED BY <1>2, <2>1, ConformsParts
<1>7. CASE OK \in E
  <2>1. OutcomesOf(visits, fast, d, c) = {OK} /\ b
    BY <1>3, <1>5, <1>6, <1>7, AnswersDiffer
  <2> QED BY <2>1, OneDecides
<1>8. CASE OK \notin E
  <2>1. b <=> v.t # "raw" /\ Ops /\ Kind
    BY <1>6, <1>8
  <2>2. Decides(Then(FALSE, S, K), b)
    <3>1. PICK x \in BOOLEAN : (x <=> Ops) /\ Decides(S, x)
      BY <1>4, OperationsDecide
    <3>2. CASE v.t = "raw"
      <4>1. K = {{Error("type")}}
        BY <1>4, <3>2 DEF ByKind
      <4>2. {Error("type")} # OK
        BY DEF OK
      <4>3. ~b
        BY <2>1, <3>2
      <4> QED BY <3>1, <4>1, <4>2, <4>3, ThenRefuses
    <3>3. CASE v.t # "raw"
      <4>0. c.value.t \notin {"null", "nan", "inf", "raw"}
        BY <3>3
      <4>1. PICK y \in BOOLEAN : (y <=> Kind) /\ Decides(K, y)
        <5>1. \E y \in BOOLEAN : /\ y <=> KindConforms(conforms, d, d[c.schema], c.value, mode0)
                                /\ Decides(ByKind(visits, fast, d, c), y)
          BY <4>0, KindDecides
        <5> QED BY <1>4, <5>1
      <4>2. Decides(Then(FALSE, S, K), x /\ y)
        BY <3>1, <4>1, ThenDecides, ZenonT(30)
      <4>3. b = (x /\ y)
        BY <2>1, <3>1, <3>3, <4>1
      <4> QED BY <4>2, <4>3
    <3> QED BY <3>2, <3>3
  <2>3. \A o \in OutcomesOf(visits, fast, d, c) : o = Overflow \/ o \in Then(FALSE, S, K)
    BY <1>3, <1>5, <1>8
  <2>4. OutcomesOf(visits, fast, d, c) # {}
    <3>1. Then(FALSE, S, K) # {}
      BY <2>2 DEF Decides
    <3>2. PICK o : o \in E
      BY <1>3
    <3> QED BY <1>3, <1>5, <1>8, <3>1, <3>2
  <2> QED BY <2>2, <2>3, <2>4, DeadFacts DEF Decides
<1> QED BY <1>7, <1>8

\* A call of a visit with the settings of `mode`, whose schemas are among R and
\* which the fast visitor is not known to judge otherwise.
Comparable(d, fast, R, mode, c) ==
    /\ c.mode.asreq = mode.asreq /\ c.mode.asrep = mode.asrep
    /\ fast => /\ c.schema \in R
               /\ ~Has(c.value, {"null", "nan", "inf"})
               /\ c.mode.multiError \/ \A n \in R : d[n].additionalAllowed # FALSE

LEMMA ComparableBelow ==
  ASSUME NEW d, IsDocument(d), NEW fast \in BOOLEAN, NEW mode, NEW R \in SUBSET DOMAIN d,
         fast => \A n \in R : Children(d[n]) \subseteq R,
         NEW c \in Calls(d), Comparable(d, fast, R, mode, c)
  PROVE  /\ \A m \in Operands(d[c.schema]) : /\ Comparable(d, fast, R, mode, Operand(c, m, Quiet(c.mode)))
                                             /\ Comparable(d, fast, R, mode, Operand(c, m, Loud(c.mode)))
         /\ \A m \in Children(d[c.schema]), x \in Members(c.value) : Comparable(d, fast, R, mode, Inside(c, m, x))
<1>1. c.schema \in DOMAIN d /\ c.value \in Universe /\ c.mode \in Settings
  BY CallParts
<1>2. Operands(d[c.schema]) \subseteq Children(d[c.schema])
  BY <1>1, SchemaFacts
<1>3. c.mode.asreq = mode.asreq /\ c.mode.asrep = mode.asrep
  BY DEF Comparable
<1>4. fast => /\ \A m \in Children(d[c.schema]) : m \in R
              /\ ~Has(c.value, {"null", "nan", "inf"})
              /\ \A x \in Members(c.value) : ~Has(x, {"null", "nan", "inf"})
              /\ c.mode.multiError \/ \A n \in R : d[n].additionalAllowed # FALSE
  BY <1>1, HasFacts DEF Comparable
<1>5. ASSUME NEW m \in Operands(d[c.schema]), NEW how \in {Quiet(c.mode), Loud(c.mode)}
      PROVE  Comparable(d, fast, R, mode, Operand(c, m, how))
  <2>1. PICK b : b = Operand(c, m, how)
    OBVIOUS
  <2>2. b.schema = m /\ b.value = c.value /\ b.mode = how
    BY <2>1, CallParts
  <2>3. how.asreq = c.mode.asreq /\ how.asrep = c.mode.asrep /\ how.multiError = c.mode.multiError
    BY <1>1, SettingsFacts
  <2> QED BY <1>2, <1>3, <1>4, <2>1, <2>2, <2>3 DEF Comparable
<1>6. ASSUME NEW m \in Children(d[c.schema]), NEW x \in Members(c.value)
      PROVE  Comparable(d, fast, R, mode, Inside(c, m, x))
  <2>1. PICK b : b = Inside(c, m, x)
    OBVIOUS
  <2>2. b.schema = m /\ b.value = x /\ b.mode = c.mode
    BY <2>1, CallParts
  <2> QED BY <1>3, <1>4, <2>1, <2>2 DEF Comparable
<1> QED BY <1>5, <1>6

\* Every call that is comparable decides what it is asked.
LEMMA CallsDecide ==
  ASSUME NEW d, IsDocument(d), NEW fast \in BOOLEAN, NEW mode, NEW R \in SUBSET DOMAIN d,
         fast => \A n \in R : Children(d[n]) \subseteq R /\ d[n].enum = <<>>
  PROVE  \A c \in Calls(d) : Comparable(d, fast, R, mode, c) =>
            Decides(VisitCalls(fast, d)[c], ConformCalls(d, mode)[AskOf(c)])
<1>1. PICK visits, conforms : visits = VisitCalls(fast, d) /\ conforms = ConformCalls(d, mode)
  OBVIOUS
<1>2. \A c \in Calls(d) : visits[c] = OutcomesOf(visits, fast, d, c)
  BY <1>1, VisitUnfolds
<1>3. \A a \in Asks(d) : conforms[a] = ConformsIn(conforms, d, a, mode) /\ conforms[a] \in BOOLEAN
  BY <1>1, ConformUnfolds
<1> DEFINE P == {c \in Calls(d) : Comparable(d, fast, R, mode, c) => Decides(visits[c], conforms[AskOf(c)])}
<1>4. ASSUME NEW c \in Calls(d), CalledBy(d)[c] \subseteq P, Comparable(d, fast, R, mode, c)
      PROVE  Decides(visits[c], conforms[AskOf(c)])
  <2> DEFINE s == d[c.schema]
  <2>1. c.schema \in DOMAIN d /\ c.value \in Universe /\ c.mode \in Settings /\ s.nullable \in BOOLEAN
    BY CallParts, BoundTypes
  <2>2. AskOf(c) \in Asks(d) /\ AskOf(c).schema = c.schema /\ AskOf(c).value = c.value /\ AskOf(c).above = c.above
    BY AskOfFacts
  <2>3. PICK b \in BOOLEAN : b = conforms[AskOf(c)]
    BY <1>3, <2>2
  <2>4. b <=> ConformsIn(conforms, d, AskOf(c), mode)
    BY <1>3, <2>2, <2>3
  <2>5. Operands(s) \subseteq DOMAIN d /\ Children(s) \subseteq DOMAIN d
    BY <2>1, SchemaFacts
  <2>6. CASE c.schema \in c.above
    <3>1. visits[c] = {Overflow}
      BY <1>2, <2>6, OutcomesParts
    <3>2. Decides({Overflow}, b)
      BY DeadFacts, OneDecides
    <3> QED BY <2>3, <3>1, <3>2
  <2>7. CASE c.schema \notin c.above /\ c.value.t \in {"null", "nan", "inf"}
    <3>1. ~fast
      BY <1>4, <2>1, <2>7, HasFacts DEF Comparable
    <3>2. visits[c] = {EarlyOutcome(c.value, s, c.mode)}
      BY <1>2, <2>7, <3>1, OutcomesParts
    <3>3. b <=> c.value.t = "null" /\ s.nullable
      BY <2>2, <2>4, <2>7, ConformsParts
    <3>4. Decides({EarlyOutcome(c.value, s, c.mode)}, b)
      BY <2>7, <3>3, EarlyDecides
    <3> QED BY <2>3, <3>2, <3>4
  <2>8. CASE c.schema \notin c.above /\ c.value.t \notin {"null", "nan", "inf"}
    <3>1. Quiet(c.mode) \in Settings /\ Loud(c.mode) \in Settings
      BY <2>1, SettingsFacts
    <3>2. ASSUME NEW m \in Operands(s), NEW how \in {Quiet(c.mode), Loud(c.mode)}
          PROVE  Decides(visits[Operand(c, m, how)], conforms[AskAlso(AskOf(c), m)])
      <4>1. Operand(c, m, how) \in CalledBy(d)[c]
        BY <2>8, <3>1 DEF CalledBy
      <4>2. Comparable(d, fast, R, mode, Operand(c, m, how))
        BY <1>4, ComparableBelow
      <4>3. AskOf(Operand(c, m, how)) = AskAlso(AskOf(c), m)
        BY <2>5, <3>1, AskOfFacts
      <4> QED BY <1>4, <4>1, <4>2, <4>3
    <3>3. ASSUME NEW m \in Operands(s) PROVE conforms[AskAlso(AskOf(c), m)] \in BOOLEAN
      BY <1>3, <2>2, <2>5, AskAlsoParts
    <3>4. ASSUME NEW m \in Children(s), NEW x \in Members(c.value)
          PROVE  conforms[Ask(m, x)] \in BOOLEAN /\ Decides(visits[Inside(c, m, x)], conforms[Ask(m, x)])
      <4>1. Inside(c, m, x) \in CalledBy(d)[c]
        BY <2>8 DEF CalledBy
      <4>2. Comparable(d, fast, R, mode, Inside(c, m, x))
        BY <1>4, ComparableBelow
      <4>3. x \in Universe
        BY <2>1, UniverseFacts
      <4>4. AskOf(Inside(c, m, x)) = Ask(m, x)
        BY <2>5, <4>3, AskOfFacts
      <4>5. conforms[Ask(m, x)] \in BOOLEAN
        BY <1>3, <2>5, <4>3, AskInsideParts
      <4> QED BY <1>4, <4>1, <4>2, <4>4, <4>5
    <3>5. ~Passes(fast, s, c.mode) /\ (fast => s.enum = <<>>)
      BY <1>4 DEF Passes, Comparable
    <3>6. mode.asreq = c.mode.asreq /\ mode.asrep = c.mode.asrep
      BY <1>4 DEF Comparable
    <3>7. Decides(OutcomesOf(visits, fast, d, c), b)
      BY <2>4, <2>8, <3>2, <3>3, <3>4, <3>5, <3>6, CallDecides
    <3> QED BY <1>2, <2>3, <3>7
  <2> QED BY <2>6, <2>7, <2>8
<1>5. \A c \in Calls(d) : CalledBy(d)[c] \subseteq P => c \in P
  BY <1>4
<1> HIDE DEF P
<1>6. \A c \in Calls(d) : c \in P
  BY <1>5, VisitInduction
<1> QED BY <1>1, <1>6 DEF P

LEMMA VisitJSONDecides ==
  ASSUME NEW d, IsDocument(d), NEW v \in Universe, NEW mode \in Settings
  PROVE  Decides(VisitJSON(FALSE, d, Root, v, mode), Conforms(d, Root, v, mode))
<1>1. PICK c : c = Call(Root, v, mode)
  OBVIOUS
<1>2. Root \in DOMAIN d
  BY DEF IsDocument
<1>3. c \in Calls(d) /\ c.mode = mode
  BY <1>1, <1>2 DEF Call, Calls
<1>4. Comparable(d, FALSE, {}, mode, c)
  BY <1>3 DEF Comparable
<1>5. Decides(VisitCalls(FALSE, d)[c], ConformCalls(d, mode)[AskOf(c)])
  BY <1>3, <1>4, CallsDecide
<1>6. AskOf(c) = Ask(Root, v)
  BY <1>1 DEF AskOf, Ask, Call
<1> QED BY <1>1, <1>5, <1>6 DEF VisitJSON, Conforms

LEMMA VisitFastDecides ==
  ASSUME NEW d, IsDocument(d), NEW v \in Universe, NEW mode \in Settings,
         ~Has(v, {"null", "nan", "inf"}), \A n \in ReachOf(d) : d[n].enum = <<>>,
         mode.multiError \/ \A n \in ReachOf(d) : d[n].additionalAllowed # FALSE
  PROVE  Decides(VisitJSON(TRUE, d, Root, v, mode), Conforms(d, Root, v, mode))
<1>1. PICK c : c = Call(Root, v, mode)
  OBVIOUS
<1>2. PICK R : R = ReachOf(d)
  OBVIOUS
<1>3. Root \in R /\ R \in SUBSET DOMAIN d /\ \A n \in R : Children(d[n]) \subseteq R /\ d[n].enum = <<>>
  BY <1>2, ReachFacts
<1>4. c \in Calls(d) /\ c.mode = mode /\ c.schema = Root /\ c.value = v
  BY <1>1, <1>3 DEF Call, Calls
<1>5. Comparable(d, TRUE, R, mode, c)
  BY <1>2, <1>3, <1>4 DEF Comparable
<1>6. Decides(VisitCalls(TRUE, d)[c], ConformCalls(d, mode)[AskOf(c)])
  BY <1>3, <1>4, <1>5, CallsDecide
<1>7. AskOf(c) = Ask(Root, v)
  BY <1>1 DEF AskOf, Ask, Call
<1> QED BY <1>1, <1>6, <1>7 DEF VisitJSON, Conforms

-----------------------------------------------------------------------------
(* Single mode against multi-error mode: the error a visit returns alone is *)
(* among those that it collects.                                            *)

Single(mode) == mode \in Settings /\ ~mode.multiError /\ ~mode.failfast
Multiple(mode) == mode \in Settings /\ mode.multiError /\ ~mode.failfast

LEMMA AmongIs ==
  ASSUME NEW O, NEW P, \A o \in O : ~Dead(o) => \E p \in P : Dead(p) \/ o \subseteq p
  PROVE  AmongThose(O, P)
BY DEF AmongThose, Held

LEMMA ReportAmong ==
  ASSUME NEW n \in Nat, NEW checks, DOMAIN checks = 1..n, NEW mode, NEW mode2, Single(mode), Multiple(mode2)
  PROVE  Dead(Report(mode2, checks)) \/ Report(mode, checks) \subseteq Report(mode2, checks)
<1>1. PICK o, o2 : o = Report(mode, checks) /\ o2 = Report(mode2, checks)
  OBVIOUS
<1>2. CASE o = OK
  BY <1>1, <1>2 DEF OK
<1>3. CASE o # OK /\ ~Dead(o2)
  <2>0. mode \in Settings /\ ~mode.multiError /\ ~mode.failfast
    BY DEF Single
  <2>1. PICK i \in 1..n : checks[i][2] /\ o = {checks[i][1]}
    <3>1. Report(mode, checks) # OK
      BY <1>1, <1>3
    <3>2. Report(mode, checks) # OK =>
             \E i \in 1..n : /\ checks[i][2]
                             /\ \A j \in 1..(i - 1) : ~checks[j][2]
                             /\ Dead({checks[i][1]}) => Dead(Report(mode, checks))
                             /\ ~mode.multiError /\ ~mode.failfast => Report(mode, checks) = {checks[i][1]}
      BY <2>0, ReportFacts, Zenon
    <3> QED BY <1>1, <2>0, <3>1, <3>2
  <2>2. o2 = {checks[j][1] : j \in {j \in 1..n : checks[j][2]}}
    BY <1>1, <1>3, ReportFacts DEF Multiple
  <2> QED BY <1>1, <2>1, <2>2
<1> QED BY <1>1, <1>2, <1>3

LEMMA FailingAlike ==
  ASSUME NEW mode, NEW mode2, Single(mode), Multiple(mode2), NEW f, f \notin {"panic", "overflow"}
  PROVE  Failing(mode, f) = {Error(f)} /\ Failing(mode2, f) = {Error(f)}
BY FailingFacts DEF Single, Multiple

LEMMA NotAmong ==
  ASSUME NEW O, NEW O2, NEW b \in BOOLEAN, Decides(O, b), Decides(O2, b),
         NEW mode, NEW mode2, Single(mode), Multiple(mode2)
  PROVE  AmongThose({NotOutcome(o, mode) : o \in O}, {NotOutcome(o, mode2) : o \in O2})
<1>1. Failing(mode, "not") = {Error("not")} /\ Failing(mode2, "not") = {Error("not")}
  BY FailingAlike
<1>2. ASSUME NEW o \in O, ~Dead(NotOutcome(o, mode))
      PROVE  \E p \in O2 : Dead(NotOutcome(p, mode2)) \/ NotOutcome(o, mode) \subseteq NotOutcome(p, mode2)
  <2>1. PICK p : p \in O2
    BY DEF Decides
  <2>2. ~Dead(o)
    BY <1>2 DEF NotOutcome
  <2>3. o = OK <=> b
    BY <2>2 DEF Decides
  <2>4. CASE Dead(p)
    BY <2>1, <2>4 DEF NotOutcome
  <2>5. CASE ~Dead(p)
    <3>1. p = OK <=> b
      BY <2>1, <2>5 DEF Decides
    <3>2. NotOutcome(o, mode) = NotOutcome(p, mode2)
      BY <1>1, <2>2, <2>3, <2>5, <3>1 DEF NotOutcome
    <3> QED BY <2>1, <3>2
  <2> QED BY <2>4, <2>5
<1> QED BY <1>2, AmongIs

LEMMA AllOfAmong ==
  ASSUME NEW O, NEW O2, NEW b \in BOOLEAN, Decides(O, b), Decides(O2, b),
         NEW mode, NEW mode2, Single(mode), Multiple(mode2)
  PROVE  AmongThose({AllOfOutcome(o, mode) : o \in O}, {AllOfOutcome(o, mode2) : o \in O2})
<1>1. Failing(mode, "allOf") = {Error("allOf")} /\ Failing(mode2, "allOf") = {Error("allOf")}
  BY FailingAlike
<1>2. ASSUME NEW o \in O, ~Dead(AllOfOutcome(o, mode))
      PROVE  \E p \in O2 : Dead(AllOfOutcome(p, mode2)) \/ AllOfOutcome(o, mode) \subseteq AllOfOutcome(p, mode2)
  <2>1. PICK p : p \in O2
    BY DEF Decides
  <2>2. ~Dead(o)
    BY <1>2 DEF AllOfOutcome
  <2>3. o = OK <=> b
    BY <2>2 DEF Decides
  <2>4. CASE Dead(p)
    BY <2>1, <2>4 DEF AllOfOutcome
  <2>5. CASE ~Dead(p)
    <3>1. p = OK <=> b
      BY <2>1, <2>5 DEF Decides
    <3>2. AllOfOutcome(o, mode) = AllOfOutcome(p, mode2)
      BY <1>1, <2>2, <2>3, <2>5, <3>1 DEF AllOfOutcome
    <3> QED BY <2>1, <3>2
  <2> QED BY <2>4, <2>5
<1> QED BY <1>2, AmongIs

LEMMA MarkAmong ==
  ASSUME NEW O, NEW O2, AmongThose(O, O2), NEW step
  PROVE  AmongThose({Mark(step, o) : o \in O}, {Mark(step, o) : o \in O2})
<1>1. ASSUME NEW o \in O, ~Dead(Mark(step, o))
      PROVE  \E p \in O2 : Dead(Mark(step, p)) \/ Mark(step, o) \subseteq Mark(step, p)
  <2>1. ~Dead(o)
    BY <1>1, MarkFacts
  <2>2. PICK p \in O2 : Dead(p) \/ o \subseteq p
    BY <2>1 DEF AmongThose, Held
  <2> QED BY <2>2, MarkFacts
<1> QED BY <1>1, AmongIs

LEMMA KeyedAmong ==
  ASSUME NEW O, NEW O2, AmongThose(O, O2), NEW k, NEW mode, NEW mode2, Single(mode), Multiple(mode2)
  PROVE  AmongThose({Keyed(k, o, mode) : o \in O}, {Keyed(k, o, mode2) : o \in O2})
<1>1. ASSUME NEW o \in O, ~Dead(Keyed(k, o, mode))
      PROVE  \E p \in O2 : Dead(Keyed(k, p, mode2)) \/ Keyed(k, o, mode) \subseteq Keyed(k, p, mode2)
  <2>1. ~Dead(o)
    BY <1>1, MarkFacts DEF Keyed
  <2>2. PICK p \in O2 : Dead(p) \/ o \subseteq p
    BY <2>1 DEF AmongThose, Held
  <2>3. CASE Dead(p)
    BY <2>2, <2>3, MarkFacts DEF Keyed
  <2>4. CASE o = OK
    <3>1. Keyed(k, o, mode) = {}
      <4>1. Keyed(k, o, mode) = Mark(k, o) /\ Mark(k, o) = OK
        BY <2>4, MarkFacts DEF Keyed
      <4> QED BY <4>1 DEF OK
    <3> QED BY <2>2, <3>1
  <2>5. CASE ~Dead(p) /\ o # OK
    <3>1. o \subseteq p /\ p # OK
      BY <2>2, <2>5 DEF OK
    <3>2. Keyed(k, o, mode) = Mark(k, o)
      BY <2>1, <2>5 DEF Keyed, Single
    <3>3. Keyed(k, p, mode2) = Mark(k, p)
      BY <2>5, <3>1 DEF Keyed, Multiple
    <3>4. Mark(k, o) \subseteq Mark(k, p)
      BY <3>1, MarkFacts
    <3> QED BY <2>2, <3>2, <3>3, <3>4
  <2> QED BY <2>3, <2>4, <2>5
<1> QED BY <1>1, AmongIs

\* The call of the other mode: the same question.
Twins(d, c, t) ==
    /\ c \in Calls(d) /\ t \in Calls(d)
    /\ t.schema = c.schema /\ t.value = c.value /\ t.above = c.above
    /\ Single(c.mode) /\ Multiple(t.mode)
    /\ t.mode.asreq = c.mode.asreq /\ t.mode.asrep = c.mode.asrep

\* What is known of the calls for the same value.
Operable(visits, conforms, d, c) ==
    \A m \in Operands(d[c.schema]) :
       /\ conforms[AskAlso(AskOf(c), m)] \in BOOLEAN
       /\ Decides(visits[Operand(c, m, Quiet(c.mode))], conforms[AskAlso(AskOf(c), m)])
       /\ Decides(visits[Operand(c, m, Loud(c.mode))], conforms[AskAlso(AskOf(c), m)])

LEMMA OperationsAmong ==
  ASSUME NEW d, IsDocument(d), NEW c, NEW t, Twins(d, c, t), NEW fast \in BOOLEAN,
         fast => d[c.schema].enum = <<>>,
         NEW visits, NEW conforms, Operable(visits, conforms, d, c), Operable(visits, conforms, d, t)
  PROVE  AmongThose(SetOperations(visits, fast, d, c), SetOperations(visits, fast, d, t))
<1> DEFINE s == d[c.schema]
<1>1. /\ c \in Calls(d) /\ t \in Calls(d) /\ t.schema = c.schema /\ t.value = c.value
      /\ Single(c.mode) /\ Multiple(t.mode) /\ c.mode \in Settings /\ t.mode \in Settings
      /\ c.schema \in DOMAIN d
  BY CallParts DEF Twins, Single, Multiple
<1>2. AskOf(t) = AskOf(c)
  BY DEF Twins, AskOf
<1>3. CASE s.enum # <<>>
  <2>1. ~fast
    BY <1>3
  <2>2. /\ SetOperations(visits, fast, d, c) = {EnumOutcome(FALSE, s, c.value, c.mode)}
        /\ SetOperations(visits, fast, d, t) = {EnumOutcome(FALSE, s, c.value, t.mode)}
    BY <1>1, <1>3, <2>1, OperationsParts
  <2>3. Failing(c.mode, "enum") = {Error("enum")} /\ Failing(t.mode, "enum") = {Error("enum")}
    BY <1>1, FailingAlike
  <2>4. EnumOutcome(FALSE, s, c.value, c.mode) = EnumOutcome(FALSE, s, c.value, t.mode)
    BY <2>3 DEF EnumOutcome
  <2> QED BY <2>2, <2>4, AmongSelf
<1>4. CASE s.enum = <<>>
  <2>1. /\ Len(s.oneOf) \in Nat /\ DOMAIN s.oneOf = 1..Len(s.oneOf)
        /\ Len(s.anyOf) \in Nat /\ DOMAIN s.anyOf = 1..Len(s.anyOf)
        /\ Len(s.allOf) \in Nat /\ DOMAIN s.allOf = 1..Len(s.allOf)
        /\ s.not # None => s.not \in Operands(s)
    BY <1>1, SchemaFacts
  <2>2. PICK N, X, Y, Z : /\ N = NotPart(visits, s, c) /\ X = OnePart(visits, fast, s, c)
                          /\ Y = AnyPart(visits, s, c) /\ Z = InOrder(FALSE, AllRow(visits, s, c))
    OBVIOUS
  <2>3. PICK N2, X2, Y2, Z2 : /\ N2 = NotPart(visits, s, t) /\ X2 = OnePart(visits, fast, s, t)
                              /\ Y2 = AnyPart(visits, s, t) /\ Z2 = InOrder(FALSE, AllRow(visits, s, t))
    OBVIOUS
  <2>4. \A m \in Operands(s) :
           /\ conforms[AskAlso(AskOf(c), m)] \in BOOLEAN
           /\ Decides(visits[Operand(c, m, Quiet(c.mode))], conforms[AskAlso(AskOf(c), m)])
           /\ Decides(visits[Operand(c, m, Loud(c.mode))], conforms[AskAlso(AskOf(c), m)])
    BY DEF Operable
  <2>5. \A m \in Operands(s) :
           /\ conforms[AskAlso(AskOf(t), m)] \in BOOLEAN
           /\ Decides(visits[Operand(t, m, Quiet(t.mode))], conforms[AskAlso(AskOf(t), m)])
           /\ Decides(visits[Operand(t, m, Loud(t.mode))], conforms[AskAlso(AskOf(t), m)])
    BY <1>1 DEF Operable
  <2>6. PICK n, x, y, z \in BOOLEAN : Answer(conforms, visits, fast, s, c, n, x, y, z)
    BY <1>1, <2>4, PartsDecide
  <2>7. PICK n2, x2, y2, z2 \in BOOLEAN : Answer(conforms, visits, fast, s, t, n2, x2, y2, z2)
    <3>1. \E n2, x2, y2, z2 \in BOOLEAN : Answer(conforms, visits, fast, d[t.schema], t, n2, x2, y2, z2)
      <4>1. \A m \in Operands(d[t.schema]) :
               /\ conforms[AskAlso(AskOf(t), m)] \in BOOLEAN
               /\ Decides(visits[Operand(t, m, Quiet(t.mode))], conforms[AskAlso(AskOf(t), m)])
               /\ Decides(visits[Operand(t, m, Loud(t.mode))], conforms[AskAlso(AskOf(t), m)])
        BY DEF Operable
      <4> QED BY <1>1, <4>1, PartsDecide
    <3> QED BY <1>1, <3>1
  <2> HIDE DEF s
  <2>8. Decides(N, n) /\ Decides(X, x) /\ Decides(Y, y) /\ Decides(Z, z)
    BY <2>2, <2>6 DEF Answer
  <2>9. n2 = n /\ x2 = x /\ y2 = y /\ z2 = z
    BY <1>2, <2>6, <2>7 DEF Answer
  <2>10. Decides(N2, n) /\ Decides(X2, x) /\ Decides(Y2, y) /\ Decides(Z2, z)
    <3>1. Decides(N2, n2) /\ Decides(X2, x2) /\ Decides(Y2, y2) /\ Decides(Z2, z2)
      BY <2>3, <2>7 DEF Answer
    <3> QED BY <2>9, <3>1
  <2>11. AmongThose(N, N2)
    <3>1. CASE s.not = None
      BY <2>2, <2>3, <3>1, AmongSelf DEF NotPart
    <3>2. CASE s.not # None
      <4>1. PICK O, O2 : O = visits[Operand(c, s.not, Quiet(c.mode))] /\ O2 = visits[Operand(t, s.not, Quiet(t.mode))]
        OBVIOUS
      <4>2. PICK b \in BOOLEAN : b = conforms[AskAlso(AskOf(c), s.not)] /\ Decides(O, b)
        BY <2>1, <2>4, <3>2, <4>1
      <4>3. Decides(O2, b)
        BY <1>2, <2>1, <2>5, <3>2, <4>1, <4>2
      <4>4. PICK mode, mode2 : mode = c.mode /\ mode2 = t.mode /\ Single(mode) /\ Multiple(mode2)
        BY <1>1
      <4>5. AmongThose({NotOutcome(o, mode) : o \in O}, {NotOutcome(o, mode2) : o \in O2})
        BY <4>2, <4>3, <4>4, NotAmong
      <4>6. N = {NotOutcome(o, mode) : o \in O} /\ N2 = {NotOutcome(o, mode2) : o \in O2}
        BY <2>2, <2>3, <3>2, <4>1, <4>4 DEF NotPart
      <4> QED BY <4>5, <4>6
    <3> QED BY <3>1, <3>2
  <2>12. AmongThose(X, X2)
    <3>1. CASE s.oneOf = <<>>
      BY <2>2, <2>3, <3>1, AmongSelf DEF OnePart
    <3>2. CASE s.oneOf # <<>>
      <4>1. PICK outs, outs2 : outs = OneRow(visits, fast, s, c) /\ outs2 = OneRow(visits, fast, s, t)
        OBVIOUS
      <4>2. DOMAIN outs = 1..Len(s.oneOf) /\ DOMAIN outs2 = 1..Len(s.oneOf)
        BY <2>1, <4>1 DEF OneRow
      <4>3. PICK Yes : Yes = OneYes(conforms, s, AskOf(c))
        OBVIOUS
      <4>4. \A i \in 1..Len(s.oneOf) : Decides(outs[i], i \in Yes)
        BY <1>1, <2>1, <2>4, <4>1, <4>3, OneRowDecides DEF s
      <4>5. \A i \in 1..Len(s.oneOf) : Decides(outs2[i], i \in Yes)
        <5>1. \A i \in DOMAIN d[t.schema].oneOf :
                 Decides(OneRow(visits, fast, d[t.schema], t)[i], i \in OneYes(conforms, d[t.schema], AskOf(t)))
          BY <1>1, <2>5, OneRowDecides DEF s
        <5> QED BY <1>1, <1>2, <2>1, <4>1, <4>3, <5>1 DEF s
      <4>6. PICK k \in Nat : k = Len(s.oneOf)
        BY <2>1
      <4>7. \A i \in 1..k : Decides(outs[i], i \in Yes) /\ Decides(outs2[i], i \in Yes)
        BY <4>4, <4>5, <4>6
      <4>8. ~c.mode.failfast /\ ~t.mode.failfast
        BY <1>1 DEF Single, Multiple
      <4>9. AmongThose(OneOf(outs, c.mode), OneOf(outs2, t.mode))
        BY <1>1, <4>2, <4>6, <4>7, <4>8, OneOfAmong
      <4> QED BY <2>2, <2>3, <3>2, <4>1, <4>9 DEF OnePart
    <3> QED BY <3>1, <3>2
  <2>13. AmongThose(Y, Y2)
    <3>1. CASE s.anyOf = <<>>
      BY <2>2, <2>3, <3>1, AmongSelf DEF AnyPart
    <3>2. CASE s.anyOf # <<>>
      <4>1. PICK outs, outs2 : outs = AnyRow(visits, s, c) /\ outs2 = AnyRow(visits, s, t)
        OBVIOUS
      <4>2. DOMAIN outs = 1..Len(s.anyOf) /\ DOMAIN outs2 = 1..Len(s.anyOf)
        BY <2>1, <4>1 DEF AnyRow
      <4>3. PICK Yes : Yes = AnyYes(conforms, s, AskOf(c))
        OBVIOUS
      <4>4. \A i \in 1..Len(s.anyOf) : Decides(outs[i], i \in Yes)
        BY <1>1, <2>1, <2>4, <4>1, <4>3, AnyRowDecides DEF s
      <4>5. \A i \in 1..Len(s.anyOf) : Decides(outs2[i], i \in Yes)
        <5>1. \A i \in DOMAIN d[t.schema].anyOf :
                 Decides(AnyRow(visits, d[t.schema], t)[i], i \in AnyYes(conforms, d[t.schema], AskOf(t)))
          BY <1>1, <2>5, AnyRowDecides DEF s
        <5> QED BY <1>1, <1>2, <2>1, <4>1, <4>3, <5>1 DEF s
      <4>6. PICK k \in Nat : k = Len(s.anyOf)
        BY <2>1
      <4>7. \A i \in 1..k : Decides(outs[i], i \in Yes) /\ Decides(outs2[i], i \in Yes)
        BY <4>4, <4>5, <4>6
      <4>8. ~c.mode.failfast /\ ~t.mode.failfast
        BY <1>1 DEF Single, Multiple
      <4>9. AmongThose(AnyOf(outs, c.mode), AnyOf(outs2, t.mode))
        BY <1>1, <4>2, <4>6, <4>7, <4>8, AnyOfAmong
      <4> QED BY <2>2, <2>3, <3>2, <4>1, <4>9 DEF AnyPart
    <3> QED BY <3>1, <3>2
  <2>14. AmongThose(Z, Z2)
    <3>1. PICK outs, outs2 : outs = AllRow(visits, s, c) /\ outs2 = AllRow(visits, s, t)
      OBVIOUS
    <3>2. DOMAIN outs = 1..Len(s.allOf) /\ DOMAIN outs2 = 1..Len(s.allOf)
      BY <2>1, <3>1 DEF AllRow
    <3>3. PICK Yes : Yes = AllYes(conforms, s, AskOf(c))
      OBVIOUS
    <3>4. \A i \in 1..Len(s.allOf) : Decides(outs[i], i \in Yes)
      BY <1>1, <2>1, <2>4, <3>1, <3>3, AllRowDecides DEF s
    <3>5. \A i \in 1..Len(s.allOf) : Decides(outs2[i], i \in Yes)
      <4>1. \A i \in DOMAIN d[t.schema].allOf :
               Decides(AllRow(visits, d[t.schema], t)[i], i \in AllYes(conforms, d[t.schema], AskOf(t)))
        BY <1>1, <2>5, AllRowDecides DEF s
      <4> QED BY <1>1, <1>2, <2>1, <3>1, <3>3, <4>1 DEF s
    <3>6. ASSUME NEW i \in 1..Len(s.allOf) PROVE AmongThose(outs[i], outs2[i])
      <4>0. s.allOf[i] \in Operands(s)
        BY <1>1, <2>1, SchemaFacts DEF s
      <4>1. PICK O, O2 : O = visits[Operand(c, s.allOf[i], Loud(c.mode))] /\ O2 = visits[Operand(t, s.allOf[i], Loud(t.mode))]
        OBVIOUS
      <4>2. PICK b \in BOOLEAN : b = conforms[AskAlso(AskOf(c), s.allOf[i])] /\ Decides(O, b)
        BY <2>4, <4>0, <4>1
      <4>3. Decides(O2, b)
        BY <1>2, <2>5, <4>0, <4>1, <4>2
      <4>4. PICK mode, mode2 : mode = c.mode /\ mode2 = t.mode /\ Single(mode) /\ Multiple(mode2)
        BY <1>1
      <4>5. AmongThose({AllOfOutcome(o, mode) : o \in O}, {AllOfOutcome(o, mode2) : o \in O2})
        BY <4>2, <4>3, <4>4, AllOfAmong
      <4>6. outs[i] = {AllOfOutcome(o, mode) : o \in O} /\ outs2[i] = {AllOfOutcome(o, mode2) : o \in O2}
        BY <2>1, <3>1, <4>1, <4>4 DEF AllRow
      <4> QED BY <4>5, <4>6
    <3>7. PICK k \in Nat : k = Len(s.allOf)
      BY <2>1
    <3>8. \A i \in 1..k : /\ Decides(outs[i], i \in Yes) /\ Decides(outs2[i], i \in Yes)
                          /\ AmongThose(outs[i], outs2[i])
      BY <3>4, <3>5, <3>6, <3>7
    <3>9. AmongThose(InOrder(FALSE, outs), InOrder(FALSE, outs2))
      BY <3>2, <3>7, <3>8, InOrderAmong
    <3> QED BY <2>2, <2>3, <3>1, <3>9
  <2>15. N2 # {} /\ X2 # {} /\ Y2 # {} /\ Z2 # {}
    BY <2>10 DEF Decides
  <2>16. AmongThose(Then(FALSE, Y, Z), Then(FALSE, Y2, Z2)) /\ Then(FALSE, Y2, Z2) # {}
    BY <2>8, <2>10, <2>13, <2>14, <2>15, ThenAmong, ThenFacts
  <2>17. AmongThose(Then(FALSE, X, Then(FALSE, Y, Z)), Then(FALSE, X2, Then(FALSE, Y2, Z2)))
         /\ Then(FALSE, X2, Then(FALSE, Y2, Z2)) # {}
    BY <2>8, <2>10, <2>12, <2>15, <2>16, ThenAmong, ThenFacts
  <2>18. AmongThose(Then(FALSE, N, Then(FALSE, X, Then(FALSE, Y, Z))), Then(FALSE, N2, Then(FALSE, X2, Then(FALSE, Y2, Z2))))
    BY <2>8, <2>10, <2>11, <2>17, ThenAmong
  <2>19. SetOperations(visits, fast, d, c) = Then(FALSE, N, Then(FALSE, X, Then(FALSE, Y, Z)))
    BY <1>4, <2>2, OperationsParts DEF s
  <2>20. SetOperations(visits, fast, d, t) = Then(FALSE, N2, Then(FALSE, X2, Then(FALSE, Y2, Z2)))
    BY <1>1, <1>4, <2>3, OperationsParts DEF s
  <2> QED BY <2>18, <2>19, <2>20
<1> QED BY <1>3, <1>4

LEMMA NullAmong ==
  ASSUME NEW s, NEW mode, NEW mode2, Single(mode), Multiple(mode2)
  PROVE  AmongThose({VisitNull(s, mode)}, {VisitNull(s, mode2)})
<1>1. PICK checks : checks = <<Check("nullable", ~s.nullable)>>
  OBVIOUS
<1>2. DOMAIN checks = 1..1
  BY <1>1
<1>3. Dead(Report(mode2, checks)) \/ Report(mode, checks) \subseteq Report(mode2, checks)
  BY <1>2, ReportAmong
<1>4. VisitNull(s, mode) = Report(mode, checks) /\ VisitNull(s, mode2) = Report(mode2, checks)
  BY <1>1 DEF VisitNull
<1> QED BY <1>3, <1>4, AmongIs

LEMMA BooleanAmong ==
  ASSUME NEW s, NEW v, NEW mode, NEW mode2, Single(mode), Multiple(mode2)
  PROVE  AmongThose({VisitBoolean(s, v, mode)}, {VisitBoolean(s, v, mode2)})
<1>1. PICK checks : checks = <<Check("type", WrongType(s, v))>>
  OBVIOUS
<1>2. DOMAIN checks = 1..1
  BY <1>1
<1>3. Dead(Report(mode2, checks)) \/ Report(mode, checks) \subseteq Report(mode2, checks)
  BY <1>2, ReportAmong
<1>4. VisitBoolean(s, v, mode) = Report(mode, checks) /\ VisitBoolean(s, v, mode2) = Report(mode2, checks)
  BY <1>1 DEF VisitBoolean
<1> QED BY <1>3, <1>4, AmongIs

LEMMA NumberAmong ==
  ASSUME NEW s, NEW v, NEW mode, NEW mode2, Single(mode), Multiple(mode2)
  PROVE  AmongThose({VisitNumber(s, v, mode)}, {VisitNumber(s, v, mode2)})
<1>1. PICK checks : checks = NumberChecks(s, v)
  OBVIOUS
<1>2. DOMAIN checks = 1..10
  BY <1>1 DEF NumberChecks
<1>3. Dead(Report(mode2, checks)) \/ Report(mode, checks) \subseteq Report(mode2, checks)
  BY <1>2, ReportAmong
<1>4. Failing(mode, "type") = {Error("type")} /\ Failing(mode2, "type") = {Error("type")}
  BY FailingAlike
<1>5. /\ VisitNumber(s, v, mode) = IF s.type \notin {"", "integer", "number"} THEN {Error("type")} ELSE Report(mode, checks)
      /\ VisitNumber(s, v, mode2) = IF s.type \notin {"", "integer", "number"} THEN {Error("type")} ELSE Report(mode2, checks)
  BY <1>1, <1>4 DEF VisitNumber
<1>6. Dead(VisitNumber(s, v, mode2)) \/ VisitNumber(s, v, mode) \subseteq VisitNumber(s, v, mode2)
  <2>1. CASE s.type \notin {"", "integer", "number"}
    BY <1>5, <2>1
  <2>2. CASE s.type \in {"", "integer", "number"}
    BY <1>3, <1>5, <2>2
  <2> QED BY <2>1, <2>2
<1> QED BY <1>6, AmongIs

LEMMA StringAmong ==
  ASSUME NEW s, NEW v, NEW mode, NEW mode2, Single(mode), Multiple(mode2)
  PROVE  AmongThose({VisitString(s, v, mode)}, {VisitString(s, v, mode2)})
<1>1. PICK lengths, texts : lengths = LengthChecks(s, v) /\ texts = TextChecks(s, v)
  OBVIOUS
<1>2. DOMAIN lengths = 1..2 /\ DOMAIN texts = 1..2
  <2>1. DOMAIN LengthChecks(s, v) = 1..2
    BY DEF LengthChecks
  <2>2. DOMAIN TextChecks(s, v) = 1..2
    BY DEF TextChecks
  <2> QED BY <1>1, <2>1, <2>2
<1>3. Single(Loud(mode)) /\ Multiple(Loud(mode2))
  <2>1. mode \in Settings /\ ~mode.multiError /\ mode2 \in Settings /\ mode2.multiError
    BY DEF Single, Multiple
  <2>2. /\ Loud(mode) \in Settings /\ ~Loud(mode).failfast /\ Loud(mode).multiError = mode.multiError
        /\ Loud(mode2) \in Settings /\ ~Loud(mode2).failfast /\ Loud(mode2).multiError = mode2.multiError
    BY <2>1, SettingsFacts
  <2> QED BY <2>1, <2>2 DEF Single, Multiple
<1>4. PICK o1, o2, p1, p2 : /\ o1 = Report(mode, lengths) /\ o2 = Report(mode2, lengths)
                            /\ p1 = Report(Loud(mode), texts) /\ p2 = Report(Loud(mode2), texts)
  OBVIOUS
<1>5. (Dead(o2) \/ o1 \subseteq o2) /\ (Dead(p2) \/ p1 \subseteq p2)
  BY <1>2, <1>3, <1>4, ReportAmong
<1>6. Failing(mode, "type") = {Error("type")} /\ Failing(mode2, "type") = {Error("type")}
  BY FailingAlike
<1>7. ~Collects(mode) /\ Collects(mode2)
  BY DEF Single, Multiple, Collects
<1>8. VisitString(s, v, mode) = IF WrongType(s, v) THEN {Error("type")} ELSE IF o1 # OK THEN o1 ELSE o1 \cup p1
  BY <1>1, <1>4, <1>6, <1>7 DEF VisitString, Stops
<1>9. VisitString(s, v, mode2) = IF WrongType(s, v) THEN {Error("type")} ELSE o2 \cup p2
  BY <1>1, <1>4, <1>6, <1>7 DEF VisitString, Stops
<1>10. Dead(VisitString(s, v, mode2)) \/ VisitString(s, v, mode) \subseteq VisitString(s, v, mode2)
  <2>1. CASE WrongType(s, v)
    BY <1>8, <1>9, <2>1
  <2>2. CASE ~WrongType(s, v)
    <3>1. VisitString(s, v, mode) \subseteq o1 \cup p1
      BY <1>8, <2>2
    <3>2. VisitString(s, v, mode2) = o2 \cup p2
      BY <1>9, <2>2
    <3> QED BY <1>5, <3>1, <3>2, DeadFacts
  <2> QED BY <2>1, <2>2
<1> QED BY <1>10, AmongIs

\* What is known of the calls for the parts of the value.
PartsAmong(visits, d, c, t) ==
    \A m \in Children(d[c.schema]), x \in Members(c.value) :
       visits[Inside(t, m, x)] # {} /\ AmongThose(visits[Inside(c, m, x)], visits[Inside(t, m, x)])

\* An error of one's own ends a visit in single mode and is kept in the other.
LEMMA OwnAmong ==
  ASSUME NEW own, NEW own2, Dead(own2) \/ own \subseteq own2, NEW P, NEW P2, P2 # {},
         own = OK => AmongThose(P, P2)
  PROVE  AmongThose(IF own # OK THEN {own} ELSE P, Then(TRUE, {own2}, P2))
<1>1. PICK T : T = Then(TRUE, {own2}, P2)
  OBVIOUS
<1>2. \A b \in P2 : own2 \cup b \in T
  BY <1>1, ThenIs
<1>3. CASE own # OK
  <2>1. PICK b : b \in P2
    OBVIOUS
  <2>2. Dead(own2 \cup b) \/ own \subseteq own2 \cup b
    BY DeadFacts
  <2>3. AmongThose({own}, T)
    BY <1>2, <2>1, <2>2, AmongIs
  <2> QED BY <1>1, <1>3, <2>3
<1>4. CASE own = OK
  <2>1. ASSUME NEW o \in P, ~Dead(o) PROVE \E p \in T : Dead(p) \/ o \subseteq p
    <3>1. AmongThose(P, P2)
      BY <1>4
    <3>2. PICK b \in P2 : Dead(b) \/ o \subseteq b
      BY <2>1, <3>1 DEF AmongThose, Held
    <3>3. Dead(b) => Dead(own2 \cup b)
      BY DeadFacts
    <3>4. o \subseteq b => o \subseteq own2 \cup b
      OBVIOUS
    <3> QED BY <1>2, <3>2, <3>3, <3>4
  <2>2. AmongThose(P, T)
    BY <2>1, AmongIs
  <2> QED BY <1>1, <1>4, <2>2
<1> QED BY <1>3, <1>4

LEMMA ThenOwn ==
  ASSUME NEW own, NEW P
  PROVE  Then(FALSE, {own}, P) = IF own # OK THEN {own} ELSE P
BY DEF Then

LEMMA ArrayAmong ==
  ASSUME NEW d, IsDocument(d), NEW c, NEW t, Twins(d, c, t), c.value.t = "arr",
         NEW visits, PartsAmong(visits, d, c, t)
  PROVE  AmongThose(VisitArray(visits, d, c), VisitArray(visits, d, t))
<1> DEFINE s == d[c.schema]
           v == c.value
<1>1. /\ c \in Calls(d) /\ t \in Calls(d) /\ t.schema = c.schema /\ t.value = c.value
      /\ Single(c.mode) /\ Multiple(t.mode) /\ c.schema \in DOMAIN d /\ c.value \in Universe
  BY CallParts DEF Twins
<1>2. PICK own, own2 : own = Report(c.mode, ArrayChecks(s, v)) /\ own2 = Report(t.mode, ArrayChecks(s, v))
  OBVIOUS
<1>3. Dead(own2) \/ own \subseteq own2
  <2>1. PICK checks : checks = ArrayChecks(s, v)
    OBVIOUS
  <2>2. DOMAIN checks = 1..3
    BY <2>1 DEF ArrayChecks
  <2> QED BY <1>1, <1>2, <2>1, <2>2, ReportAmong
<1>4. Failing(c.mode, "type") = {Error("type")} /\ Failing(t.mode, "type") = {Error("type")}
  BY <1>1, FailingAlike
<1>5. ~Collects(c.mode) /\ Collects(t.mode) /\ c.mode.multiError = FALSE /\ t.mode.multiError = TRUE
  BY <1>1, SettingsFacts DEF Single, Multiple, Collects
<1>6. PICK row, row2 : row = ItemRow(visits, s, c) /\ row2 = ItemRow(visits, s, t)
  OBVIOUS
<1>7. VisitArray(visits, d, c) = IF WrongType(s, v) THEN {{Error("type")}}
                                 ELSE IF own # OK \/ s.items = None THEN {own}
                                 ELSE Then(FALSE, {own}, InOrder(FALSE, row))
  BY <1>2, <1>4, <1>5, <1>6, ArrayParts DEF Stops
<1>8. VisitArray(visits, d, t) = IF WrongType(s, v) THEN {{Error("type")}}
                                 ELSE IF s.items = None THEN {own2}
                                 ELSE Then(TRUE, {own2}, InOrder(TRUE, row2))
  BY <1>1, <1>2, <1>4, <1>5, <1>6, ArrayParts DEF Stops
<1>9. CASE WrongType(s, v)
  BY <1>7, <1>8, <1>9, AmongSelf
<1>10. CASE ~WrongType(s, v) /\ s.items = None
  BY <1>3, <1>7, <1>8, <1>10, AmongIs
<1>11. CASE ~WrongType(s, v) /\ s.items # None
  <2>1. v.items \in Seq(Universe) /\ s.items \in Children(s)
    BY <1>1, <1>11, UniverseFacts, SchemaFacts
  <2>2. PICK k \in Nat : k = Len(v.items) /\ DOMAIN v.items = 1..k
    BY <2>1
  <2>3. DOMAIN row = 1..k /\ DOMAIN row2 = 1..k
    BY <1>1, <1>6, <2>2 DEF ItemRow
  <2>4. ASSUME NEW i \in 1..k PROVE row2[i] # {} /\ AmongThose(row[i], row2[i])
    <3>1. v.items[i] \in Members(v)
      BY <2>2, PartsOfValues
    <3>2. PICK O, O2 : O = visits[Inside(c, s.items, v.items[i])] /\ O2 = visits[Inside(t, s.items, v.items[i])]
      OBVIOUS
    <3>3. O2 # {} /\ AmongThose(O, O2)
      BY <2>1, <3>1, <3>2 DEF PartsAmong
    <3>4. PICK step : step = ToString(i - 1)
      OBVIOUS
    <3>5. row[i] = {Mark(step, o) : o \in O} /\ row2[i] = {Mark(step, o) : o \in O2}
      BY <1>1, <1>6, <2>2, <3>2, <3>4 DEF ItemRow
    <3> QED BY <3>3, <3>5, MarkAmong
  <2>5. AmongThose(InOrder(FALSE, row), All(row2))
    BY <2>3, <2>4, RowsAmongAll
  <2>6. All(row2) # {} /\ InOrder(TRUE, row2) = All(row2)
    BY <2>3, <2>4, AllFacts, OrderFacts
  <2>7. PICK P, P2 : P = InOrder(FALSE, row) /\ P2 = All(row2)
    OBVIOUS
  <2>8. AmongThose(IF own # OK THEN {own} ELSE P, Then(TRUE, {own2}, P2))
    BY <1>3, <2>5, <2>6, <2>7, OwnAmong
  <2>9. VisitArray(visits, d, c) = IF own # OK THEN {own} ELSE P
    BY <1>7, <1>11, <2>7, ThenOwn
  <2>10. VisitArray(visits, d, t) = Then(TRUE, {own2}, P2)
    BY <1>8, <1>11, <2>6, <2>7
  <2> QED BY <2>8, <2>9, <2>10
<1> QED BY <1>9, <1>10, <1>11

LEMMA MemberAmong ==
  ASSUME NEW d, IsDocument(d), NEW c, NEW t, Twins(d, c, t), NEW fast \in BOOLEAN,
         fast => d[c.schema].additionalAllowed # FALSE,
         NEW visits, PartsAmong(visits, d, c, t), NEW p, p.v \in Members(c.value)
  PROVE  /\ AmongThose(MemberOutcomes(visits, fast, d, c, p), MemberOutcomes(visits, fast, d, t, p))
         /\ MemberOutcomes(visits, fast, d, t, p) # {}
<1> DEFINE s == d[c.schema]
<1>1. /\ c \in Calls(d) /\ t \in Calls(d) /\ t.schema = c.schema
      /\ Single(c.mode) /\ Multiple(t.mode) /\ c.schema \in DOMAIN d
  BY CallParts DEF Twins
<1>2. /\ \A k \in DOMAIN s.properties : s.properties[k] \in Children(s)
      /\ s.additional # None => s.additional \in Children(s)
  BY <1>1, SchemaFacts
<1>3. ASSUME NEW m \in Children(s)
      PROVE  /\ AmongThose({Keyed(p.k, o, c.mode) : o \in visits[Inside(c, m, p.v)]},
                           {Keyed(p.k, o, t.mode) : o \in visits[Inside(t, m, p.v)]})
             /\ {Keyed(p.k, o, t.mode) : o \in visits[Inside(t, m, p.v)]} # {}
  <2>1. PICK O, O2 : O = visits[Inside(c, m, p.v)] /\ O2 = visits[Inside(t, m, p.v)]
    OBVIOUS
  <2>2. O2 # {} /\ AmongThose(O, O2)
    BY <2>1 DEF PartsAmong
  <2>3. PICK k, mode, mode2 : k = p.k /\ mode = c.mode /\ mode2 = t.mode /\ Single(mode) /\ Multiple(mode2)
    BY <1>1
  <2>4. AmongThose({Keyed(k, o, mode) : o \in O}, {Keyed(k, o, mode2) : o \in O2})
    BY <2>2, <2>3, KeyedAmong
  <2>5. {Keyed(k, o, mode2) : o \in O2} # {}
    BY <2>2
  <2> QED BY <2>1, <2>3, <2>4, <2>5
<1>4. ASSUME NEW m \in Children(s),
             MemberOutcomes(visits, fast, d, c, p) = {Keyed(p.k, o, c.mode) : o \in visits[Inside(c, m, p.v)]},
             MemberOutcomes(visits, fast, d, t, p) = {Keyed(p.k, o, t.mode) : o \in visits[Inside(t, m, p.v)]}
      PROVE  /\ AmongThose(MemberOutcomes(visits, fast, d, c, p), MemberOutcomes(visits, fast, d, t, p))
             /\ MemberOutcomes(visits, fast, d, t, p) # {}
  BY <1>3, <1>4
<1>5. CASE p.k \in DOMAIN s.properties
  <2>1. PICK m \in Children(s) : m = s.properties[p.k]
    BY <1>2, <1>5
  <2>2. MemberOutcomes(visits, fast, d, c, p) = {Keyed(p.k, o, c.mode) : o \in visits[Inside(c, m, p.v)]}
    BY <1>5, <2>1 DEF MemberOutcomes
  <2>3. MemberOutcomes(visits, fast, d, t, p) = {Keyed(p.k, o, t.mode) : o \in visits[Inside(t, m, p.v)]}
    BY <1>1, <1>5, <2>1 DEF MemberOutcomes
  <2> QED BY <1>4, <2>2, <2>3
<1>6. CASE p.k \notin DOMAIN s.properties /\ s.additional # None
  <2>1. PICK m \in Children(s) : m = s.additional
    BY <1>2, <1>6
  <2>2. MemberOutcomes(visits, fast, d, c, p) = {Keyed(p.k, o, c.mode) : o \in visits[Inside(c, m, p.v)]}
    BY <1>6, <2>1 DEF MemberOutcomes
  <2>3. MemberOutcomes(visits, fast, d, t, p) = {Keyed(p.k, o, t.mode) : o \in visits[Inside(t, m, p.v)]}
    BY <1>1, <1>6, <2>1 DEF MemberOutcomes
  <2> QED BY <1>4, <2>2, <2>3
<1>7. CASE p.k \notin DOMAIN s.properties /\ s.additional = None /\ s.additionalAllowed = FALSE
  <2>1. Unsupported(fast, c.mode) = {Error("properties")} /\ Unsupported(fast, t.mode) = {Error("properties")}
    BY <1>1, <1>7, FailingAlike DEF Unsupported
  <2>2. MemberOutcomes(visits, fast, d, c, p) = {{Error("properties")}}
    BY <1>7, <2>1 DEF MemberOutcomes
  <2>3. MemberOutcomes(visits, fast, d, t, p) = {{Error("properties")}}
    BY <1>1, <1>7, <2>1 DEF MemberOutcomes
  <2> QED BY <2>2, <2>3, AmongSelf
<1>8. CASE p.k \notin DOMAIN s.properties /\ s.additional = None /\ s.additionalAllowed # FALSE
  <2>1. MemberOutcomes(visits, fast, d, c, p) = {OK}
    BY <1>8 DEF MemberOutcomes
  <2>2. MemberOutcomes(visits, fast, d, t, p) = {OK}
    BY <1>1, <1>8 DEF MemberOutcomes
  <2> QED BY <2>1, <2>2, AmongSelf
<1> QED BY <1>5, <1>6, <1>7, <1>8

LEMMA ObjectAmong ==
  ASSUME NEW d, IsDocument(d), NEW c, NEW t, Twins(d, c, t), c.value.t = "obj", NEW fast \in BOOLEAN,
         fast => d[c.schema].additionalAllowed # FALSE,
         NEW visits, PartsAmong(visits, d, c, t)
  PROVE  AmongThose(VisitObject(visits, fast, d, c), VisitObject(visits, fast, d, t))
<1> DEFINE s == d[c.schema]
           v == c.value
<1>1. /\ c \in Calls(d) /\ t \in Calls(d) /\ t.schema = c.schema /\ t.value = c.value
      /\ Single(c.mode) /\ Multiple(t.mode) /\ c.schema \in DOMAIN d /\ c.value \in Universe
      /\ t.mode.asreq = c.mode.asreq /\ t.mode.asrep = c.mode.asrep
  BY CallParts DEF Twins
<1>2. PICK own, own2 : own = Report(c.mode, PropertyCountChecks(s, v)) /\ own2 = Report(t.mode, PropertyCountChecks(s, v))
  OBVIOUS
<1>3. Dead(own2) \/ own \subseteq own2
  <2>1. PICK checks : checks = PropertyCountChecks(s, v)
    OBVIOUS
  <2>2. DOMAIN checks = 1..2
    BY <2>1 DEF PropertyCountChecks
  <2> QED BY <1>1, <1>2, <2>1, <2>2, ReportAmong
<1>4. PICK checks : checks = RequiredChecks(d, s, v, c.mode)
  OBVIOUS
<1>5. RequiredChecks(d, s, v, t.mode) = checks
  <2>1. \A k : Exempt(d, s, k, t.mode) <=> Exempt(d, s, k, c.mode)
    BY <1>1 DEF Exempt
  <2> QED BY <1>4, <2>1 DEF RequiredChecks
<1>6. PICK missing, missing2 : missing = Report(c.mode, checks) /\ missing2 = Report(t.mode, checks)
  OBVIOUS
<1>7. Dead(missing2) \/ missing \subseteq missing2
  <2>1. s.required \in Seq(STRING)
    BY <1>1, BoundTypes
  <2>2. PICK k \in Nat : k = Len(s.required) /\ DOMAIN s.required = 1..k
    BY <2>1
  <2>3. DOMAIN checks = 1..k
    BY <1>4, <2>2 DEF RequiredChecks
  <2> QED BY <1>1, <1>6, <2>3, ReportAmong
<1>8. Failing(c.mode, "type") = {Error("type")} /\ Failing(t.mode, "type") = {Error("type")}
  BY <1>1, FailingAlike
<1>9. Collects(c.mode) = FALSE /\ Collects(t.mode) = TRUE
  BY <1>1, SettingsFacts DEF Single, Multiple, Collects
<1>10. PICK row, row2 : row = MemberRow(visits, fast, d, c) /\ row2 = MemberRow(visits, fast, d, t)
  OBVIOUS
<1>11. Ranged(visits, fast, d, c) = (IF fast THEN LastWins(row) ELSE AnyOrder(FALSE, row))
  BY <1>9, <1>10 DEF Ranged
<1>12. Ranged(visits, fast, d, t) = All(row2)
  BY <1>9, <1>10, OrderFacts DEF Ranged
<1>13. PICK ranged, ranged2 : ranged = Ranged(visits, fast, d, c) /\ ranged2 = Ranged(visits, fast, d, t)
  OBVIOUS
<1>14. VisitObject(visits, fast, d, c) = IF WrongType(s, v) THEN {{Error("type")}}
                                         ELSE IF own # OK THEN {own}
                                         ELSE Then(FALSE, {own}, Then(FALSE, ranged, {missing}))
  BY <1>2, <1>4, <1>6, <1>8, <1>9, <1>13, ObjectParts DEF Stops
<1>15. VisitObject(visits, fast, d, t) = IF WrongType(s, v) THEN {{Error("type")}}
                                         ELSE Then(TRUE, {own2}, Then(TRUE, ranged2, {missing2}))
  BY <1>1, <1>2, <1>5, <1>6, <1>8, <1>9, <1>13, ObjectParts DEF Stops
<1>16. AmongThose(ranged, ranged2) /\ ranged2 # {}
  <2>1. v.pairs \in Seq([k : STRING, v : Universe])
    BY <1>1, UniverseFacts
  <2>2. PICK k \in Nat : k = Len(v.pairs) /\ DOMAIN v.pairs = 1..k
    BY <2>1
  <2>3. DOMAIN row = 1..k /\ DOMAIN row2 = 1..k
    BY <1>1, <1>10, <2>2 DEF MemberRow
  <2>4. ASSUME NEW i \in 1..k PROVE row2[i] # {} /\ AmongThose(row[i], row2[i])
    <3>1. PICK p : p = v.pairs[i] /\ p.v \in Members(v)
      BY <2>2, PartsOfValues
    <3>2. row[i] = MemberOutcomes(visits, fast, d, c, p) /\ row2[i] = MemberOutcomes(visits, fast, d, t, p)
      BY <1>1, <1>10, <2>2, <3>1 DEF MemberRow
    <3> QED BY <3>1, <3>2, MemberAmong
  <2>5. AmongThose(LastWins(row), All(row2)) /\ AmongThose(AnyOrder(FALSE, row), All(row2))
    BY <2>3, <2>4, RowsAmongAll
  <2>6. All(row2) # {}
    BY <2>3, <2>4, AllFacts
  <2>7. ranged2 = All(row2) /\ (ranged = LastWins(row) \/ ranged = AnyOrder(FALSE, row))
    BY <1>11, <1>12, <1>13
  <2> QED BY <2>5, <2>6, <2>7
<1>17. CASE WrongType(s, v)
  BY <1>14, <1>15, <1>17, AmongSelf
<1>18. CASE ~WrongType(s, v)
  <2>1. AmongThose({missing}, {missing2})
    BY <1>7, AmongIs
  <2>2. PICK P, P2 : P = Then(FALSE, ranged, {missing}) /\ P2 = Then(TRUE, ranged2, {missing2})
    OBVIOUS
  <2>3. AmongThose(P, P2)
    BY <1>16, <2>1, <2>2, ThenAmongAll
  <2>4. P2 # {}
    BY <1>16, <2>2, ThenFacts
  <2>5. AmongThose(IF own # OK THEN {own} ELSE P, Then(TRUE, {own2}, P2))
    BY <1>3, <2>3, <2>4, OwnAmong
  <2>6. VisitObject(visits, fast, d, c) = IF own # OK THEN {own} ELSE P
    BY <1>14, <1>18, <2>2, ThenOwn
  <2>7. VisitObject(visits, fast, d, t) = Then(TRUE, {own2}, P2)
    BY <1>15, <1>18, <2>2
  <2> QED BY <2>5, <2>6, <2>7
<1> QED BY <1>17, <1>18

LEMMA KindAmong ==
  ASSUME NEW d, IsDocument(d), NEW c, NEW t, Twins(d, c, t), NEW fast \in BOOLEAN,
         fast => d[c.schema].additionalAllowed # FALSE, c.value.t \notin {"null", "nan", "inf"},
         NEW visits, PartsAmong(visits, d, c, t)
  PROVE  AmongThose(ByKind(visits, fast, d, c), ByKind(visits, fast, d, t))
<1> DEFINE s == d[c.schema]
           v == c.value
<1>1. /\ c \in Calls(d) /\ t \in Calls(d) /\ t.schema = c.schema /\ t.value = c.value
      /\ Single(c.mode) /\ Multiple(t.mode) /\ v \in Universe
  BY CallParts DEF Twins
<1>2. v.t \in {"bool", "num", "str", "arr", "obj", "raw"}
  BY <1>1, UniverseFacts DEF Kinds
<1>3. CASE v.t = "bool"
  <2>1. ByKind(visits, fast, d, c) = {VisitBoolean(s, v, c.mode)} /\ ByKind(visits, fast, d, t) = {VisitBoolean(s, v, t.mode)}
    BY <1>1, <1>3 DEF ByKind
  <2> QED BY <1>1, <2>1, BooleanAmong
<1>4. CASE v.t = "num"
  <2>1. ByKind(visits, fast, d, c) = {VisitNumber(s, v, c.mode)} /\ ByKind(visits, fast, d, t) = {VisitNumber(s, v, t.mode)}
    BY <1>1, <1>4 DEF ByKind
  <2> QED BY <1>1, <2>1, NumberAmong
<1>5. CASE v.t = "str"
  <2>1. ByKind(visits, fast, d, c) = {VisitString(s, v, c.mode)} /\ ByKind(visits, fast, d, t) = {VisitString(s, v, t.mode)}
    BY <1>1, <1>5 DEF ByKind
  <2> QED BY <1>1, <2>1, StringAmong
<1>6. CASE v.t = "arr"
  <2>1. ByKind(visits, fast, d, c) = VisitArray(visits, d, c) /\ ByKind(visits, fast, d, t) = VisitArray(visits, d, t)
    BY <1>1, <1>6 DEF ByKind
  <2> QED BY <1>6, <2>1, ArrayAmong
<1>7. CASE v.t = "obj"
  <2>1. ByKind(visits, fast, d, c) = VisitObject(visits, fast, d, c) /\ ByKind(visits, fast, d, t) = VisitObject(visits, fast, d, t)
    BY <1>1, <1>7 DEF ByKind
  <2> QED BY <1>7, <2>1, ObjectAmong
<1>8. CASE v.t = "raw"
  <2>1. ByKind(visits, fast, d, c) = {{Error("type")}} /\ ByKind(visits, fast, d, t) = {{Error("type")}}
    BY <1>1, <1>8 DEF ByKind
  <2> QED BY <2>1, AmongSelf
<1> QED BY <1>2, <1>3, <1>4, <1>5, <1>6, <1>7, <1>8

TwinOf(c) == [schema |-> c.schema, value |-> c.value,
              mode |-> [c.mode EXCEPT !.multiError = TRUE], above |-> c.above]

LEMMA TwinFacts ==
  ASSUME NEW d, NEW c \in Calls(d), Single(c.mode)
  PROVE  Twins(d, c, TwinOf(c))
<1>1. PICK mode, mode2 : mode = c.mode /\ mode2 = [c.mode EXCEPT !.multiError = TRUE]
  OBVIOUS
<1>2. mode \in Settings /\ ~mode.multiError /\ ~mode.failfast
  BY <1>1 DEF Single
<1>3. mode2 \in Settings /\ mode2.multiError /\ ~mode2.failfast /\ mode2.asreq = mode.asreq /\ mode2.asrep = mode.asrep
  BY <1>1, <1>2 DEF Settings
<1>4. PICK t : t = TwinOf(c)
  OBVIOUS
<1>5. t.schema = c.schema /\ t.value = c.value /\ t.above = c.above /\ t.mode = mode2
  BY <1>1, <1>4 DEF TwinOf
<1>6. t \in Calls(d)
  BY <1>1, <1>3, <1>4, CallParts DEF TwinOf, Calls
<1> QED BY <1>1, <1>3, <1>4, <1>5, <1>6 DEF Twins, Multiple

LEMMA TwinInside ==
  ASSUME NEW d, NEW c \in Calls(d), NEW m, NEW x
  PROVE  TwinOf(Inside(c, m, x)) = Inside(TwinOf(c), m, x)
BY DEF TwinOf, Inside, Call

LEMMA ComparableTwin ==
  ASSUME NEW d, NEW fast \in BOOLEAN, NEW R, NEW mode, NEW c, NEW t, Twins(d, c, t), Comparable(d, fast, R, mode, c)
  PROVE  Comparable(d, fast, R, mode, t)
BY DEF Comparable, Twins, Multiple

\* What is known of the calls below one that decide what they are asked.
LEMMA BelowDecides ==
  ASSUME NEW d, IsDocument(d), NEW fast \in BOOLEAN, NEW mode, NEW R \in SUBSET DOMAIN d,
         fast => \A n \in R : Children(d[n]) \subseteq R /\ d[n].enum = <<>>,
         NEW visits, visits = VisitCalls(fast, d), NEW conforms, conforms = ConformCalls(d, mode),
         NEW c \in Calls(d), Comparable(d, fast, R, mode, c)
  PROVE  /\ Operable(visits, conforms, d, c)
         /\ \A m \in Children(d[c.schema]), x \in Members(c.value) :
               conforms[Ask(m, x)] \in BOOLEAN /\ Decides(visits[Inside(c, m, x)], conforms[Ask(m, x)])
<1> DEFINE s == d[c.schema]
<1>1. \A b \in Calls(d) : Comparable(d, fast, R, mode, b) => Decides(visits[b], conforms[AskOf(b)])
  BY CallsDecide
<1>2. \A a \in Asks(d) : conforms[a] \in BOOLEAN
  BY ConformUnfolds
<1>3. c.schema \in DOMAIN d /\ c.value \in Universe /\ c.mode \in Settings
  BY CallParts
<1>4. Operands(s) \subseteq DOMAIN d /\ Children(s) \subseteq DOMAIN d
  BY <1>3, SchemaFacts
<1>5. Quiet(c.mode) \in Settings /\ Loud(c.mode) \in Settings
  BY <1>3, SettingsFacts
<1>6. ASSUME NEW m \in Operands(s), NEW how \in {Quiet(c.mode), Loud(c.mode)}
      PROVE  Decides(visits[Operand(c, m, how)], conforms[AskAlso(AskOf(c), m)])
  <2>1. Operand(c, m, how) \in Calls(d)
    BY <1>4, <1>5, CallParts
  <2>2. Comparable(d, fast, R, mode, Operand(c, m, how))
    BY ComparableBelow
  <2>3. AskOf(Operand(c, m, how)) = AskAlso(AskOf(c), m)
    BY <1>4, <1>5, AskOfFacts
  <2> QED BY <1>1, <2>1, <2>2, <2>3
<1>7. ASSUME NEW m \in Operands(s) PROVE conforms[AskAlso(AskOf(c), m)] \in BOOLEAN
  BY <1>2, <1>4, AskOfFacts, AskAlsoParts
<1>8. ASSUME NEW m \in Children(s), NEW x \in Members(c.value)
      PROVE  conforms[Ask(m, x)] \in BOOLEAN /\ Decides(visits[Inside(c, m, x)], conforms[Ask(m, x)])
  <2>1. x \in Universe
    BY <1>3, UniverseFacts
  <2>2. Inside(c, m, x) \in Calls(d)
    BY <1>4, <2>1, CallParts
  <2>3. Comparable(d, fast, R, mode, Inside(c, m, x))
    BY ComparableBelow
  <2>4. AskOf(Inside(c, m, x)) = Ask(m, x)
    BY <1>4, <2>1, AskOfFacts
  <2>5. conforms[Ask(m, x)] \in BOOLEAN
    BY <1>2, <1>4, <2>1, AskInsideParts
  <2> QED BY <1>1, <2>2, <2>3, <2>4, <2>5
<1>9. Operable(visits, conforms, d, c)
  BY <1>6, <1>7 DEF Operable
<1> QED BY <1>8, <1>9

LEMMA CallsAmong ==
  ASSUME NEW d, IsDocument(d), NEW fast \in BOOLEAN, NEW mode, NEW R \in SUBSET DOMAIN d,
         fast => \A n \in R : Children(d[n]) \subseteq R /\ d[n].enum = <<>>
  PROVE  \A c \in Calls(d) : Comparable(d, fast, R, mode, c) /\ Single(c.mode) =>
            AmongThose(VisitCalls(fast, d)[c], VisitCalls(fast, d)[TwinOf(c)])
<1>1. PICK visits, conforms : visits = VisitCalls(fast, d) /\ conforms = ConformCalls(d, mode)
  OBVIOUS
<1>2. \A c \in Calls(d) : visits[c] = OutcomesOf(visits, fast, d, c)
  BY <1>1, VisitUnfolds
<1> DEFINE P == {c \in Calls(d) : Comparable(d, fast, R, mode, c) /\ Single(c.mode) => AmongThose(visits[c], visits[TwinOf(c)])}
<1>3. ASSUME NEW c \in Calls(d), CalledBy(d)[c] \subseteq P, Comparable(d, fast, R, mode, c), Single(c.mode)
      PROVE  AmongThose(visits[c], visits[TwinOf(c)])
  <2> DEFINE s == d[c.schema]
  <2>1. PICK t : t = TwinOf(c) /\ Twins(d, c, t)
    BY <1>3, TwinFacts
  <2>2. /\ t \in Calls(d) /\ t.schema = c.schema /\ t.value = c.value /\ t.above = c.above
        /\ Single(c.mode) /\ Multiple(t.mode) /\ c.schema \in DOMAIN d /\ c.value \in Universe
        /\ t.mode \in Settings /\ t.mode.multiError
    BY <2>1, CallParts DEF Twins, Multiple
  <2>3. Comparable(d, fast, R, mode, t)
    BY <1>3, <2>1, ComparableTwin
  <2>4. visits[t] = OutcomesOf(visits, fast, d, t)
    BY <1>2, <2>2
  <2>5. CASE c.schema \in c.above
    <3>1. visits[c] = {Overflow}
      BY <1>2, <2>5, OutcomesParts
    <3>2. visits[t] = {Overflow}
      BY <2>2, <2>4, <2>5, OutcomesParts
    <3> QED BY <2>1, <3>1, <3>2, AmongSelf
  <2>6. CASE c.schema \notin c.above /\ c.value.t \in {"null", "nan", "inf"}
    <3>1. ~fast
      BY <1>3, <2>2, <2>6, HasFacts DEF Comparable
    <3>2. visits[c] = {EarlyOutcome(c.value, s, c.mode)}
      BY <1>2, <2>6, <3>1, OutcomesParts
    <3>3. visits[t] = {EarlyOutcome(c.value, s, t.mode)}
      BY <2>2, <2>4, <2>6, <3>1, OutcomesParts
    <3>4. CASE c.value.t = "null"
      <4>1. EarlyOutcome(c.value, s, c.mode) = VisitNull(s, c.mode) /\ EarlyOutcome(c.value, s, t.mode) = VisitNull(s, t.mode)
        BY <3>4 DEF EarlyOutcome
      <4>2. AmongThose({VisitNull(s, c.mode)}, {VisitNull(s, t.mode)})
        BY <2>2, NullAmong
      <4> QED BY <2>1, <3>2, <3>3, <4>1, <4>2
    <3>5. CASE c.value.t # "null"
      <4>1. EarlyOutcome(c.value, s, c.mode) = EarlyOutcome(c.value, s, t.mode)
        BY <2>6, <3>5 DEF EarlyOutcome
      <4> QED BY <2>1, <3>2, <3>3, <4>1, AmongSelf
    <3> QED BY <3>4, <3>5
  <2>7. CASE c.schema \notin c.above /\ c.value.t \notin {"null", "nan", "inf"}
    <3>1. PICK E : E = Emptiness(d, c.schema) /\ E \subseteq {OK, NotEmpty, Overflow}
      BY <2>2, EmptinessSure DEF Sure
    <3>2. PICK S, K, S2, K2 : /\ S = SetOperations(visits, fast, d, c) /\ K = ByKind(visits, fast, d, c)
                              /\ S2 = SetOperations(visits, fast, d, t) /\ K2 = ByKind(visits, fast, d, t)
      OBVIOUS
    <3>3. visits[c] = (E \ {NotEmpty}) \cup (IF NotEmpty \in E THEN Then(FALSE, S, K) ELSE {})
      BY <1>2, <2>7, <3>1, <3>2, OutcomesParts
    <3>4. visits[t] = (E \ {NotEmpty}) \cup (IF NotEmpty \in E THEN Then(FALSE, S2, K2) ELSE {})
      BY <2>2, <2>4, <2>7, <3>1, <3>2, OutcomesParts
    <3>5. fast => s.enum = <<>> /\ s.additionalAllowed # FALSE
      BY <1>3 DEF Comparable, Single
    <3>6. Operable(visits, conforms, d, c) /\ Operable(visits, conforms, d, t)
      BY <1>1, <1>3, <2>2, <2>3, BelowDecides
    <3>7. AmongThose(S, S2)
      BY <2>1, <3>2, <3>5, <3>6, OperationsAmong
    <3>8. PartsAmong(visits, d, c, t)
      <4>1. ASSUME NEW m \in Children(s), NEW x \in Members(c.value)
            PROVE  visits[Inside(t, m, x)] # {} /\ AmongThose(visits[Inside(c, m, x)], visits[Inside(t, m, x)])
        <5>1. Inside(c, m, x) \in CalledBy(d)[c]
          BY <2>7 DEF CalledBy
        <5>2. Comparable(d, fast, R, mode, Inside(c, m, x))
          BY <1>3, ComparableBelow
        <5>3. Inside(c, m, x).mode = c.mode
          BY CallParts
        <5>4. TwinOf(Inside(c, m, x)) = Inside(t, m, x)
          BY <2>1, TwinInside
        <5>5. AmongThose(visits[Inside(c, m, x)], visits[Inside(t, m, x)])
          BY <1>3, <5>1, <5>2, <5>3, <5>4
        <5>6. Decides(visits[Inside(t, m, x)], conforms[Ask(m, x)])
          BY <1>1, <2>2, <2>3, BelowDecides
        <5> QED BY <5>5, <5>6 DEF Decides
      <4> QED BY <4>1 DEF PartsAmong
    <3>9. AmongThose(K, K2)
      BY <2>1, <2>7, <3>2, <3>5, <3>8, KindAmong
    <3>10. PICK a \in BOOLEAN : Decides(S, a) /\ Decides(S2, a)
      <4>1. /\ OperandsConform(conforms, d, AskOf(c)) \in BOOLEAN
            /\ Decides(SetOperations(visits, fast, d, c), OperandsConform(conforms, d, AskOf(c)))
        BY <3>5, <3>6, OperationsDecide DEF Operable
      <4>2. Decides(SetOperations(visits, fast, d, t), OperandsConform(conforms, d, AskOf(t)))
        BY <2>2, <3>5, <3>6, OperationsDecide DEF Operable
      <4>3. AskOf(t) = AskOf(c)
        BY <2>2 DEF AskOf
      <4> QED BY <3>2, <4>1, <4>2, <4>3
    <3>11. K2 # {}
      <4>1. CASE c.value.t = "raw"
        BY <2>2, <3>2, <4>1 DEF ByKind
      <4>2. CASE c.value.t # "raw"
        <5>1. ~Passes(fast, d[t.schema], t.mode)
          BY <2>2 DEF Passes
        <5>2. \A m \in Children(d[t.schema]), x \in Members(t.value) :
                 conforms[Ask(m, x)] \in BOOLEAN /\ Decides(visits[Inside(t, m, x)], conforms[Ask(m, x)])
          BY <1>1, <2>2, <2>3, BelowDecides, ZenonT(30)
        <5>3. mode.asreq = t.mode.asreq /\ mode.asrep = t.mode.asrep
          BY <2>3 DEF Comparable
        <5>4. t.value.t \notin {"null", "nan", "inf", "raw"}
          BY <2>2, <2>7, <4>2
        <5>5. \E b \in BOOLEAN : Decides(ByKind(visits, fast, d, t), b)
          BY <2>2, <5>1, <5>2, <5>3, <5>4, KindDecides
        <5> QED BY <3>2, <5>5 DEF Decides
      <4> QED BY <4>1, <4>2
    <3>12. AmongThose(Then(FALSE, S, K), Then(FALSE, S2, K2))
      BY <3>7, <3>9, <3>10, <3>11, ThenAmong
    <3>13. ASSUME NEW o \in visits[c], ~Dead(o) PROVE \E p \in visits[t] : Dead(p) \/ o \subseteq p
      <4>1. CASE o \in E \ {NotEmpty}
        BY <3>4, <4>1
      <4>2. CASE NotEmpty \in E /\ o \in Then(FALSE, S, K)
        <5>1. PICK p \in Then(FALSE, S2, K2) : Dead(p) \/ o \subseteq p
          BY <3>12, <3>13, <4>2 DEF AmongThose, Held
        <5> QED BY <3>4, <4>2, <5>1
      <4> QED BY <3>3, <3>13, <4>1, <4>2
    <3> QED BY <2>1, <3>13, AmongIs
  <2> QED BY <2>5, <2>6, <2>7
<1>4. \A c \in Calls(d) : CalledBy(d)[c] \subseteq P => c \in P
  BY <1>3
<1> HIDE DEF P
<1>5. \A c \in Calls(d) : c \in P
  BY <1>4, VisitInduction
<1> QED BY <1>1, <1>5 DEF P

LEMMA VisitAmong ==
  ASSUME NEW d, IsDocument(d), NEW v \in Universe, NEW mode, Single(mode), NEW fast \in BOOLEAN,
         fast => /\ ~Has(v, {"null", "nan", "inf"})
                 /\ \A n \in ReachOf(d) : d[n].enum = <<>>
                 /\ \A n \in ReachOf(d) : d[n].additionalAllowed # FALSE
  PROVE  AmongThose(VisitJSON(fast, d, Root, v, mode), VisitJSON(fast, d, Root, v, [mode EXCEPT !.multiError = TRUE]))
<1>1. PICK c : c = Call(Root, v, mode)
  OBVIOUS
<1>2. PICK R : R = ReachOf(d)
  OBVIOUS
<1>3. Root \in R /\ R \in SUBSET DOMAIN d /\ \A n \in R : Children(d[n]) \subseteq R
  BY <1>2, ReachFacts
<1>4. mode \in Settings
  BY DEF Single
<1>5. c \in Calls(d) /\ c.mode = mode /\ c.schema = Root /\ c.value = v
  BY <1>1, <1>3, <1>4 DEF Call, Calls
<1>6. Comparable(d, fast, R, mode, c)
  BY <1>2, <1>3, <1>5 DEF Comparable
<1>7. fast => \A n \in R : Children(d[n]) \subseteq R /\ d[n].enum = <<>>
  BY <1>2, <1>3
<1>8. AmongThose(VisitCalls(fast, d)[c], VisitCalls(fast, d)[TwinOf(c)])
  BY <1>3, <1>5, <1>6, <1>7, CallsAmong
<1>9. TwinOf(c) = Call(Root, v, [mode EXCEPT !.multiError = TRUE])
  BY <1>1 DEF TwinOf, Call
<1> QED BY <1>1, <1>8, <1>9 DEF VisitJSON

-----------------------------------------------------------------------------
(* Errors that fit a value: the path leads into it, and where there is no   *)
(* reason for a death there is none.                                        *)

\* The fields of the errors the visits report.
Fields ==
    {"schema", "NaN", "Inf", "panic", "overflow", "nullable", "type", "integer", "multipleOf",
     "minimum", "maximum", "exclusiveMinimum", "exclusiveMaximum", "minLength", "maxLength",
     "pattern", "format", "minItems", "maxItems", "uniqueItems", "minProperties", "maxProperties",
     "required", "properties", "discriminator", "enum", "not", "oneOf", "oneOf conflict", "anyOf", "allOf"}
Fit(v, may) ==
    {e \in [path : Seq(Steps), field : Fields] :
        /\ Leads(v, e.path, e.field = "required")
        /\ e.field \in Unmarked => e.path = <<>>
        /\ e.field \in {"panic", "overflow"} => may}

\* An error of the value itself.
LEMMA FitError ==
  ASSUME NEW v \in Universe, NEW may \in BOOLEAN, NEW f \in Fields, f \in {"panic", "overflow"} => may
  PROVE  Error(f) \in Fit(v, may)
<1>1. Error(f).path = <<>> /\ Error(f).field = f /\ Error(f) \in [path : Seq(Steps), field : Fields]
  BY DEF Error
<1>2. ASSUME NEW b PROVE Leads(v, <<>>, b)
  <2>1. PICK p \in Places[v] : p = <<<<>>, v>>
    BY PlacesFacts
  <2>2. p[1] = <<>>
    BY <2>1
  <2> QED BY <2>2 DEF Leads
<1> QED BY <1>1, <1>2 DEF Fit

\* A death fits only where there may be one.
LEMMA FitAlive ==
  ASSUME NEW v, NEW o, o \in SUBSET Fit(v, FALSE)
  PROVE  ~Dead(o)
<1>1. ASSUME NEW e \in o, e = Error("panic") \/ e = Error("overflow") PROVE FALSE
  <2>1. e.field \in {"panic", "overflow"}
    BY <1>1 DEF Error
  <2> QED BY <2>1 DEF Fit
<1> QED BY <1>1, DeadIs

LEMMA SeqElement ==
  ASSUME NEW S, NEW s \in Seq(S), NEW i \in DOMAIN s
  PROVE  s[i] \in S
OBVIOUS

\* All of a path but its last step.
LEMMA FrontFacts ==
  ASSUME NEW path \in Seq(Steps), path # <<>>
  PROVE  /\ Front(path) \in Seq(Steps) /\ Len(Front(path)) = Len(path) - 1
         /\ \A i \in 1..(Len(path) - 1) : Front(path)[i] = path[i]
<1>1. Len(path) \in Nat /\ Len(path) >= 1 /\ \A i \in 1..(Len(path) - 1) : path[i] \in Steps
  <2>1. Len(path) \in Nat /\ Len(path) >= 1
    OBVIOUS
  <2>2. ASSUME NEW i \in 1..(Len(path) - 1) PROVE path[i] \in Steps
    <3>1. i \in 1..Len(path)
      BY <2>1
    <3> QED BY <3>1, ElementOfSeq
  <2> QED BY <2>1, <2>2
<1>2. PICK n \in Int : n = Len(path) - 1
  <2>1. Len(path) \in Nat
    BY <1>1
  <2>2. Len(path) - 1 \in Int
    BY ONLY <2>1
  <2> QED BY ONLY <2>2, Zenon
<1>3. /\ SubSeq(path, 1, n) \in Seq(Steps) /\ Len(SubSeq(path, 1, n)) = IF 1 <= n THEN n - 1 + 1 ELSE 0
      /\ \A i \in 1..(n - 1 + 1) : SubSeq(path, 1, n)[i] = path[1 + i - 1]
  BY <1>1, <1>2, SubSeqProperties
<1>4. Front(path) = SubSeq(path, 1, n)
  BY <1>2 DEF Front
<1>5. PICK f : f = SubSeq(path, 1, n)
  OBVIOUS
<1>6. f \in Seq(Steps) /\ Len(f) = n /\ \A i \in 1..n : f[i] = path[i]
  BY <1>1, <1>2, <1>3, <1>5
<1> QED BY <1>2, <1>4, <1>5, <1>6

LEMMA FitMissing ==
  ASSUME NEW v \in Universe, v.t = "obj", NEW may \in BOOLEAN, NEW k \in STRING, k \notin KeysOf(v)
  PROVE  Missing(k) \in Fit(v, may)
<1>1. /\ Missing(k).path = <<k>> /\ Missing(k).field = "required"
      /\ Missing(k) \in [path : Seq(Steps), field : Fields]
  <2>1. k \in Steps
    BY DEF Steps
  <2>2. <<k>> \in Seq(Steps)
    BY <2>1
  <2>3. "required" \in Fields
    BY DEF Fields
  <2> QED BY <2>2, <2>3 DEF Missing
<1>2. Leads(v, <<k>>, TRUE)
  <2>1. PICK p \in Places[v] : p = <<<<>>, v>>
    BY PlacesFacts
  <2>2. p[1] = <<>> /\ p[2] = v
    BY <2>1
  <2>3. <<k>> # <<>> /\ Front(<<k>>) = <<>> /\ Last(<<k>>) = k
    BY DEF Front, Last
  <2> QED BY <2>2, <2>3 DEF Leads
<1>3. "required" \notin Unmarked /\ "required" \notin {"panic", "overflow"}
  BY DEF Unmarked
<1>4. Leads(v, <<k>>, "required" = "required")
  BY <1>2
<1> QED BY <1>1, <1>3, <1>4 DEF Fit

LEMMA StepAhead ==
  ASSUME NEW step \in Steps, NEW path \in Seq(Steps)
  PROVE  <<step>> \o path \in Seq(Steps)
OBVIOUS

\* One step more before a path.
LEMMA LongerPath ==
  ASSUME NEW step \in Steps, NEW path \in Seq(Steps)
  PROVE  /\ <<step>> \o path \in Seq(Steps) /\ <<step>> \o path # <<>>
         /\ path # <<>> => /\ Front(<<step>> \o path) = <<step>> \o Front(path)
                           /\ Last(<<step>> \o path) = Last(path)
<1>1. /\ <<step>> \o path \in Seq(Steps) /\ Len(<<step>> \o path) = Len(path) + 1 /\ Len(path) \in Nat
      /\ (<<step>> \o path)[1] = step /\ \A i \in 1..Len(path) : (<<step>> \o path)[i + 1] = path[i]
  OBVIOUS
<1>2. <<step>> \o path # <<>>
  BY <1>1
<1>3. ASSUME path # <<>> PROVE Front(<<step>> \o path) = <<step>> \o Front(path)
  <2>1. Len(path) >= 1
    BY <1>3
  <2>2. PICK front \in Seq(Steps) : front = Front(path)
    BY <1>3, FrontFacts
  <2>3. Len(front) = Len(path) - 1 /\ \A i \in 1..(Len(path) - 1) : front[i] = path[i]
    BY <1>3, <2>2, FrontFacts
  <2>4. PICK long \in Seq(Steps) : long = <<step>> \o path
    BY <1>1
  <2>5. Len(long) = Len(path) + 1 /\ long[1] = step /\ \A i \in 1..Len(path) : long[i + 1] = path[i]
    BY <1>1, <2>4
  <2>6. long # <<>>
    BY <2>1, <2>5
  <2>7. PICK whole \in Seq(Steps) : /\ whole = Front(long)
                                    /\ Len(whole) = Len(path) /\ \A i \in 1..Len(path) : whole[i] = long[i]
    <3>1. PICK whole : whole = Front(long)
      OBVIOUS
    <3>2. /\ whole \in Seq(Steps) /\ Len(whole) = Len(long) - 1
          /\ \A i \in 1..(Len(long) - 1) : whole[i] = long[i]
      BY <2>6, <3>1, FrontFacts
    <3>3. Len(long) - 1 = Len(path)
      BY <1>1, <2>5
    <3> QED BY <3>1, <3>2, <3>3
  <2>8. PICK other \in Seq(Steps) : other = <<step>> \o front
    BY <2>2, StepAhead
  <2>9. Len(other) = Len(path) /\ other[1] = step /\ \A i \in 1..(Len(path) - 1) : other[i + 1] = front[i]
    BY <2>1, <2>3, <2>8
  <2>10. ASSUME NEW i \in 1..Len(path) PROVE whole[i] = other[i]
    <3>1. CASE i = 1
      BY <1>3, <2>1, <2>5, <2>7, <2>9, <3>1
    <3>2. CASE i # 1
      <4>1. i - 1 \in 1..(Len(path) - 1) /\ i - 1 \in 1..Len(path) /\ (i - 1) + 1 = i
        BY <2>1, <3>2
      <4>2. long[i] = path[i - 1] /\ other[i] = front[i - 1] /\ front[i - 1] = path[i - 1]
        BY <2>3, <2>5, <2>9, <4>1
      <4> QED BY <2>7, <4>2
    <3> QED BY <3>1, <3>2
  <2>11. Len(whole) = Len(other) /\ \A i \in 1..Len(whole) : whole[i] = other[i]
    BY <2>7, <2>9, <2>10
  <2>12. whole = other
    BY ONLY <2>11, whole \in Seq(Steps), other \in Seq(Steps), SeqEqual
  <2> QED BY <2>2, <2>4, <2>7, <2>8, <2>12
<1>4. ASSUME path # <<>> PROVE Last(<<step>> \o path) = Last(path)
  <2>1. Len(path) >= 1 /\ Len(path) \in 1..Len(path)
    BY <1>4
  <2> QED BY <1>1, <2>1 DEF Last
<1> QED BY <1>1, <1>2, <1>3, <1>4

\* Marking an error of a member makes an error of the value of it.
LEMMA FitMark ==
  ASSUME NEW v \in Universe, NEW x \in Universe, NEW may \in BOOLEAN, NEW step \in Steps,
         \A p \in Places[x] : <<<<step>> \o p[1], p[2]>> \in Places[v],
         NEW o, o \in SUBSET Fit(x, may)
  PROVE  Mark(step, o) \in SUBSET Fit(v, may)
<1>1. SUFFICES ASSUME NEW e \in o
               PROVE  (IF e.field \in Unmarked THEN e ELSE [e EXCEPT !.path = <<step>> \o @]) \in Fit(v, may)
  BY DEF Mark
<1>2. /\ e \in [path : Seq(Steps), field : Fields] /\ Leads(x, e.path, e.field = "required")
      /\ e.field \in Unmarked => e.path = <<>>
      /\ e.field \in {"panic", "overflow"} => may
  BY DEF Fit
<1>3. CASE e.field \in Unmarked
  <2>1. e = Error(e.field) /\ e.field \in Fields
    BY <1>2, <1>3 DEF Error
  <2>2. Error(e.field) \in Fit(v, may)
    BY <1>2, <2>1, FitError
  <2> QED BY <1>3, <2>1, <2>2
<1>4. CASE e.field \notin Unmarked
  <2>1. PICK path \in Seq(Steps) : path = e.path
    BY <1>2
  <2>2. PICK long \in Seq(Steps) : long = <<step>> \o path
    BY LongerPath
  <2>3. PICK m : m = [e EXCEPT !.path = <<step>> \o @]
    OBVIOUS
  <2>4. m \in [path : Seq(Steps), field : Fields] /\ m.path = long /\ m.field = e.field
    BY <1>2, <2>1, <2>2, <2>3
  <2>5. "panic" \in Unmarked /\ "overflow" \in Unmarked
    BY DEF Unmarked
  <2>6. Leads(v, long, e.field = "required")
    <3>1. PICK p \in Places[x] : \/ path = p[1]
                                 \/ /\ e.field = "required"
                                    /\ p[2].t = "obj"
                                    /\ path # <<>> /\ p[1] = Front(path) /\ Last(path) \notin KeysOf(p[2])
      BY <1>2, <2>1 DEF Leads
    <3>2. PICK q \in Places[v] : q[1] = <<step>> \o p[1] /\ q[2] = p[2]
      OBVIOUS
    <3>3. CASE path = p[1]
      <4>1. long = q[1]
        BY <2>2, <3>2, <3>3
      <4> QED BY <4>1 DEF Leads
    <3>4. CASE /\ e.field = "required"
               /\ p[2].t = "obj"
               /\ path # <<>> /\ p[1] = Front(path) /\ Last(path) \notin KeysOf(p[2])
      <4>1. q[2].t = "obj" /\ long # <<>> /\ q[1] = Front(long) /\ Last(long) \notin KeysOf(q[2])
        BY <2>2, <3>2, <3>4, LongerPath
      <4> QED BY <3>4, <4>1 DEF Leads
    <3> QED BY <3>1, <3>3, <3>4
  <2> QED BY <1>4, <2>3, <2>4, <2>5, <2>6 DEF Fit
<1> QED BY <1>3, <1>4

LEMMA FitItem ==
  ASSUME NEW v \in Universe, v.t = "arr", NEW i \in DOMAIN v.items, NEW may \in BOOLEAN,
         NEW o, o \in SUBSET Fit(v.items[i], may)
  PROVE  Mark(ToString(i - 1), o) \in SUBSET Fit(v, may)
<1>1. v.items \in Seq(Universe)
  BY UniverseFacts
<1>2. i \in Int /\ v.items[i] \in Universe
  BY <1>1
<1>3. PICK step : step = ToString(i - 1)
  OBVIOUS
<1>4. step \in Steps
  BY <1>2, <1>3 DEF Steps
<1>5. \A p \in Places[v.items[i]] : <<<<step>> \o p[1], p[2]>> \in Places[v]
  BY <1>3, PlacesFacts
<1> QED BY <1>2, <1>3, <1>4, <1>5, FitMark

LEMMA FitPair ==
  ASSUME NEW v \in Universe, v.t = "obj", NEW i \in DOMAIN v.pairs, NEW may \in BOOLEAN,
         NEW o, o \in SUBSET Fit(v.pairs[i].v, may)
  PROVE  Mark(v.pairs[i].k, o) \in SUBSET Fit(v, may)
<1>1. v.pairs \in Seq([k : STRING, v : Universe])
  BY UniverseFacts
<1>2. v.pairs[i].k \in STRING /\ v.pairs[i].v \in Universe
  <2>1. PICK p \in [k : STRING, v : Universe] : p = v.pairs[i]
    BY <1>1, SeqElement
  <2> QED BY <2>1
<1>3. v.pairs[i].k \in Steps
  BY <1>2 DEF Steps
<1>4. \A p \in Places[v.pairs[i].v] : <<<<v.pairs[i].k>> \o p[1], p[2]>> \in Places[v]
  BY PlacesFacts
<1> QED BY <1>2, <1>3, <1>4, FitMark

LEMMA FitReport ==
  ASSUME NEW v \in Universe, NEW may \in BOOLEAN, NEW mode \in Settings,
         NEW n \in Nat, NEW checks, DOMAIN checks = 1..n,
         \A i \in 1..n : checks[i][2] => checks[i][1] \in Fit(v, may)
  PROVE  Report(mode, checks) \in SUBSET Fit(v, may)
<1>1. ErrSchema \in Fit(v, may)
  <2>1. "schema" \in Fields /\ "schema" \notin {"panic", "overflow"}
    BY DEF Fields
  <2>2. Error("schema") \in Fit(v, may)
    BY <2>1, FitError, Zenon
  <2> QED BY <2>2 DEF ErrSchema
<1>2. Report(mode, checks) \subseteq {ErrSchema} \cup {checks[i][1] : i \in {j \in 1..n : checks[j][2]}}
  BY ReportFacts
<1> QED BY <1>1, <1>2

LEMMA FitFailing ==
  ASSUME NEW v \in Universe, NEW may \in BOOLEAN, NEW mode \in Settings,
         NEW f \in Fields, f \notin {"panic", "overflow"}
  PROVE  Failing(mode, f) \in SUBSET Fit(v, may)
<1>1. Error(f) \in Fit(v, may) /\ ErrSchema \in Fit(v, may)
  <2>1. "schema" \in Fields /\ "schema" \notin {"panic", "overflow"}
    BY DEF Fields
  <2>2. Error("schema") \in Fit(v, may)
    BY <2>1, FitError, Zenon
  <2>3. Error(f) \in Fit(v, may)
    BY FitError, Zenon
  <2> QED BY <2>2, <2>3 DEF ErrSchema
<1>2. Failing(mode, f) \subseteq {ErrSchema, Error(f)}
  BY FailingFacts
<1> QED BY <1>1, <1>2

-----------------------------------------------------------------------------
(* The errors of a schema's own keywords fit the value.                     *)

\* What Validate does not look at, and a visit dies of.
Sane(fast, s) ==
    /\ ~(s.exclusiveMin /\ s.min = None)
    /\ ~(s.exclusiveMax /\ s.max = None)
    /\ s.multipleOf # 0
    /\ ~fast => s.discriminator = None /\ \A i \in DOMAIN s.enum : s.enum[i].t \notin {"arr", "obj"}

LEMMA ErrorsFit ==
  ASSUME NEW v \in Universe, NEW may \in BOOLEAN
  PROVE  /\ \A f \in Fields \ {"panic", "overflow"} : Error(f) \in Fit(v, may)
         /\ may => Panic \in SUBSET Fit(v, may) /\ Overflow \in SUBSET Fit(v, may)
         /\ OK \in SUBSET Fit(v, may)
<1>1. ASSUME may PROVE Panic \in SUBSET Fit(v, may) /\ Overflow \in SUBSET Fit(v, may)
  <2>1. "panic" \in Fields /\ "overflow" \in Fields
    BY DEF Fields
  <2>2. Error("panic") \in Fit(v, may) /\ Error("overflow") \in Fit(v, may)
    BY <1>1, <2>1, FitError
  <2> QED BY <2>2 DEF Panic, Overflow
<1>2. \A f \in Fields \ {"panic", "overflow"} : Error(f) \in Fit(v, may)
  BY FitError
<1> QED BY <1>1, <1>2 DEF OK

LEMMA NullFits ==
  ASSUME NEW s, NEW v \in Universe, NEW may \in BOOLEAN, NEW mode \in Settings
  PROVE  VisitNull(s, mode) \in SUBSET Fit(v, may)
<1> DEFINE checks == <<Check("nullable", ~s.nullable)>>
<1>1. DOMAIN checks = 1..1 /\ checks[1][1] = Error("nullable")
  BY DEF Check
<1>2. "nullable" \in Fields \ {"panic", "overflow"}
  BY DEF Fields
<1>3. Error("nullable") \in Fit(v, may)
  BY <1>2, ErrorsFit
<1> HIDE DEF checks
<1>4. 1 \in Nat /\ \A i \in 1..1 : checks[i][1] \in Fit(v, may)
  BY <1>1, <1>3
<1>5. Report(mode, checks) \in SUBSET Fit(v, may)
  BY <1>1, <1>4, FitReport
<1> QED BY <1>5 DEF VisitNull, checks

LEMMA BooleanFits ==
  ASSUME NEW s, NEW v \in Universe, NEW may \in BOOLEAN, NEW mode \in Settings
  PROVE  VisitBoolean(s, v, mode) \in SUBSET Fit(v, may)
<1> DEFINE checks == <<Check("type", WrongType(s, v))>>
<1>1. DOMAIN checks = 1..1 /\ checks[1][1] = Error("type")
  BY DEF Check
<1>2. "type" \in Fields \ {"panic", "overflow"}
  BY DEF Fields
<1>3. Error("type") \in Fit(v, may)
  BY <1>2, ErrorsFit
<1> HIDE DEF checks
<1>4. 1 \in Nat /\ \A i \in 1..1 : checks[i][1] \in Fit(v, may)
  BY <1>1, <1>3
<1>5. Report(mode, checks) \in SUBSET Fit(v, may)
  BY <1>1, <1>4, FitReport
<1> QED BY <1>5 DEF VisitBoolean, checks

LEMMA FailingsFit ==
  ASSUME NEW v \in Universe, NEW may \in BOOLEAN, NEW mode \in Settings
  PROVE  \A f \in Fields \ {"panic", "overflow"} : Failing(mode, f) \in SUBSET Fit(v, may)
BY FitFailing

LEMMA NumberFits ==
  ASSUME NEW s, NEW v \in Universe, NEW may \in BOOLEAN, NEW mode \in Settings,
         NEW fast, ~may => Sane(fast, s) /\ v.t # "nan"
  PROVE  VisitNumber(s, v, mode) \in SUBSET Fit(v, may)
<1> DEFINE checks == NumberChecks(s, v)
           G == Fit(v, may)
<1>1. DOMAIN checks = 1..10
  BY DEF NumberChecks
<1>2. /\ checks[1][1] = Error("panic") /\ (checks[1][2] => v.t = "nan")
      /\ checks[2][1] = Error("integer")
      /\ checks[3][1] = Error("panic") /\ (checks[3][2] => s.exclusiveMin /\ s.min = None)
      /\ checks[4][1] = Error("exclusiveMinimum")
      /\ checks[5][1] = Error("panic") /\ (checks[5][2] => s.exclusiveMax /\ s.max = None)
  BY DEF NumberChecks, Check
<1>3. /\ checks[6][1] = Error("exclusiveMaximum")
      /\ checks[7][1] = Error("minimum")
      /\ checks[8][1] = Error("maximum")
      /\ checks[9][1] = Error("panic") /\ (checks[9][2] => v.t = "nan" \/ s.multipleOf = 0)
      /\ checks[10][1] = Error("multipleOf")
  BY DEF NumberChecks, Check
<1>4. {"integer", "exclusiveMinimum", "exclusiveMaximum", "minimum", "maximum", "multipleOf", "type"}
          \subseteq Fields \ {"panic", "overflow"}
  BY DEF Fields
<1>5. \A f \in Fields \ {"panic", "overflow"} : Error(f) \in G
  BY ErrorsFit
<1>6. may => Error("panic") \in G
  BY ErrorsFit DEF Panic
<1>7. ~may => v.t # "nan" /\ ~(s.exclusiveMin /\ s.min = None) /\ ~(s.exclusiveMax /\ s.max = None) /\ s.multipleOf # 0
  BY DEF Sane
<1> HIDE DEF checks, G
<1>8. ASSUME NEW i \in 1..10, checks[i][2] PROVE checks[i][1] \in G
  <2>1. i = 1 \/ i = 2 \/ i = 3 \/ i = 4 \/ i = 5 \/ i = 6 \/ i = 7 \/ i = 8 \/ i = 9 \/ i = 10
    OBVIOUS
  <2>2. CASE i \in {1, 3, 5, 9}
    BY <1>2, <1>3, <1>6, <1>7, <1>8, <2>2
  <2>3. CASE i \in {2, 4}
    BY <1>2, <1>4, <1>5, <2>3
  <2>4. CASE i \in {6, 7, 8, 10}
    BY <1>3, <1>4, <1>5, <2>4
  <2> QED BY <2>1, <2>2, <2>3, <2>4
<1>9. Report(mode, checks) \in SUBSET G
  BY <1>1, <1>8, FitReport DEF G
<1>10. Failing(mode, "type") \in SUBSET G
  BY <1>4, FailingsFit DEF G
<1> QED BY <1>9, <1>10 DEF VisitNumber, checks, G

LEMMA StringFits ==
  ASSUME NEW s, NEW v \in Universe, NEW may \in BOOLEAN, NEW mode \in Settings
  PROVE  VisitString(s, v, mode) \in SUBSET Fit(v, may)
<1> DEFINE lengths == LengthChecks(s, v)
           texts == TextChecks(s, v)
           G == Fit(v, may)
<1>1. DOMAIN lengths = 1..2 /\ lengths[1][1] = Error("minLength") /\ lengths[2][1] = Error("maxLength")
  BY DEF LengthChecks, Check
<1>2. DOMAIN texts = 1..2 /\ texts[1][1] = Error("pattern") /\ texts[2][1] = Error("format")
  BY DEF TextChecks, Check
<1>3. {"minLength", "maxLength", "pattern", "format", "type"} \subseteq Fields \ {"panic", "overflow"}
  BY DEF Fields
<1>4. \A f \in Fields \ {"panic", "overflow"} : Error(f) \in G /\ Failing(mode, f) \in SUBSET G
  BY ErrorsFit, FailingsFit
<1>5. Loud(mode) \in Settings
  BY SettingsFacts
<1> HIDE DEF lengths, texts, G
<1>6. (\A i \in 1..2 : lengths[i][1] \in G) /\ \A i \in 1..2 : texts[i][1] \in G
  <2>1. \A i \in 1..2 : i = 1 \/ i = 2
    OBVIOUS
  <2> QED BY <1>1, <1>2, <1>3, <1>4, <2>1
<1>7. Report(mode, lengths) \in SUBSET G
  BY <1>1, <1>6, FitReport DEF G
<1>8. Report(Loud(mode), texts) \in SUBSET G
  BY <1>2, <1>5, <1>6, FitReport DEF G
<1>9. Failing(mode, "type") \in SUBSET G
  BY <1>3, <1>4
<1> QED BY <1>7, <1>8, <1>9 DEF VisitString, lengths, texts, G

LEMMA ArrayOwnFits ==
  ASSUME NEW s, NEW v \in Universe, NEW may \in BOOLEAN, NEW mode \in Settings
  PROVE  Report(mode, ArrayChecks(s, v)) \in SUBSET Fit(v, may)
<1> DEFINE checks == ArrayChecks(s, v)
           G == Fit(v, may)
<1>1. /\ DOMAIN checks = 1..3 /\ checks[1][1] = Error("minItems")
      /\ checks[2][1] = Error("maxItems") /\ checks[3][1] = Error("uniqueItems")
  BY DEF ArrayChecks, Check
<1>2. {"minItems", "maxItems", "uniqueItems"} \subseteq Fields \ {"panic", "overflow"}
  BY DEF Fields
<1>3. \A f \in Fields \ {"panic", "overflow"} : Error(f) \in G
  BY ErrorsFit
<1> HIDE DEF checks, G
<1>4. \A i \in 1..3 : checks[i][1] \in G
  <2>1. \A i \in 1..3 : i = 1 \/ i = 2 \/ i = 3
    OBVIOUS
  <2> QED BY <1>1, <1>2, <1>3, <2>1
<1>5. Report(mode, checks) \in SUBSET G
  BY <1>1, <1>4, FitReport DEF G
<1> QED BY <1>5 DEF checks, G

LEMMA CountFits ==
  ASSUME NEW s, NEW v \in Universe, NEW may \in BOOLEAN, NEW mode \in Settings
  PROVE  Report(mode, PropertyCountChecks(s, v)) \in SUBSET Fit(v, may)
<1> DEFINE checks == PropertyCountChecks(s, v)
           G == Fit(v, may)
<1>1. DOMAIN checks = 1..2 /\ checks[1][1] = Error("minProperties") /\ checks[2][1] = Error("maxProperties")
  BY DEF PropertyCountChecks, Check
<1>2. {"minProperties", "maxProperties"} \subseteq Fields \ {"panic", "overflow"}
  BY DEF Fields
<1>3. \A f \in Fields \ {"panic", "overflow"} : Error(f) \in G
  BY ErrorsFit
<1> HIDE DEF checks, G
<1>4. \A i \in 1..2 : checks[i][1] \in G
  <2>1. \A i \in 1..2 : i = 1 \/ i = 2
    OBVIOUS
  <2> QED BY <1>1, <1>2, <1>3, <2>1
<1>5. Report(mode, checks) \in SUBSET G
  BY <1>1, <1>4, FitReport DEF G
<1> QED BY <1>5 DEF checks, G

LEMMA RequiredFits ==
  ASSUME NEW d, IsDocument(d), NEW n \in DOMAIN d, NEW v \in Universe, v.t = "obj",
         NEW may \in BOOLEAN, NEW mode \in Settings
  PROVE  Report(mode, RequiredChecks(d, d[n], v, mode)) \in SUBSET Fit(v, may)
<1> DEFINE s == d[n]
           checks == RequiredChecks(d, s, v, mode)
           G == Fit(v, may)
<1>1. s.required \in Seq(STRING)
  BY BoundTypes
<1>2. DOMAIN s.required = 1..Len(s.required) /\ Len(s.required) \in Nat /\ \A i \in DOMAIN s.required : s.required[i] \in STRING
  BY <1>1
<1>3. DOMAIN checks = 1..Len(s.required)
  BY <1>2 DEF RequiredChecks
<1>4. ASSUME NEW i \in 1..Len(s.required), checks[i][2] PROVE checks[i][1] \in G
  <2>1. checks[i][1] = Missing(s.required[i]) /\ (checks[i][2] => s.required[i] \notin KeysOf(v))
    BY <1>2 DEF RequiredChecks
  <2>2. s.required[i] \in STRING /\ s.required[i] \notin KeysOf(v)
    BY <1>2, <1>4, <2>1
  <2> QED BY <2>1, <2>2, FitMissing
<1> HIDE DEF checks
<1>5. Report(mode, checks) \in SUBSET G
  BY <1>2, <1>3, <1>4, FitReport
<1> QED BY <1>5 DEF checks

LEMMA EarlyFits ==
  ASSUME NEW s, NEW v \in Universe, v.t \in {"null", "nan", "inf"}, NEW may \in BOOLEAN, NEW mode \in Settings
  PROVE  EarlyOutcome(v, s, mode) \in SUBSET Fit(v, may)
<1>1. {"NaN", "Inf"} \subseteq Fields \ {"panic", "overflow"}
  BY DEF Fields
<1>2. Error("NaN") \in Fit(v, may) /\ Error("Inf") \in Fit(v, may)
  BY <1>1, ErrorsFit
<1>3. VisitNull(s, mode) \in SUBSET Fit(v, may)
  BY NullFits
<1> QED BY <1>2, <1>3 DEF EarlyOutcome

-----------------------------------------------------------------------------
(* The errors of the visits below fit the value, once they are put          *)
(* together.                                                                *)

LEMMA EnumFits ==
  ASSUME NEW s, NEW v \in Universe, NEW may \in BOOLEAN, NEW mode \in Settings,
         NEW fast \in BOOLEAN, ~may => Sane(fast, s)
  PROVE  EnumOutcome(fast, s, v, mode) \in SUBSET Fit(v, may)
<1>1. "enum" \in Fields \ {"panic", "overflow"}
  BY DEF Fields
<1>2. Failing(mode, "enum") \in SUBSET Fit(v, may)
  BY <1>1, FailingsFit
<1>3. OK \in SUBSET Fit(v, may) /\ (may => Panic \in SUBSET Fit(v, may))
  BY ErrorsFit
<1>4. ASSUME InEnum(fast, s, v), ~fast, v.t \in {"arr", "obj"} PROVE may
  <2>1. PICK i \in DOMAIN s.enum : s.enum[i].t = v.t
    BY <1>4 DEF InEnum
  <2> QED BY <1>4, <2>1 DEF Sane
<1> QED BY <1>2, <1>3, <1>4 DEF EnumOutcome

LEMMA NotFits ==
  ASSUME NEW v \in Universe, NEW may \in BOOLEAN, NEW mode \in Settings, NEW o, o \in SUBSET Fit(v, may)
  PROVE  NotOutcome(o, mode) \in SUBSET Fit(v, may)
<1>1. "not" \in Fields \ {"panic", "overflow"}
  BY DEF Fields
<1>2. Failing(mode, "not") \in SUBSET Fit(v, may) /\ OK \in SUBSET Fit(v, may)
  BY <1>1, FailingsFit, ErrorsFit
<1> QED BY <1>2 DEF NotOutcome

LEMMA AllOfFits ==
  ASSUME NEW v \in Universe, NEW may \in BOOLEAN, NEW mode \in Settings, NEW o, o \in SUBSET Fit(v, may)
  PROVE  AllOfOutcome(o, mode) \in SUBSET Fit(v, may)
<1>1. "allOf" \in Fields \ {"panic", "overflow"}
  BY DEF Fields
<1>2. Failing(mode, "allOf") \in SUBSET Fit(v, may)
  BY <1>1, FailingsFit
<1> QED BY <1>2 DEF AllOfOutcome

LEMMA CountedFits ==
  ASSUME NEW s, NEW v \in Universe, NEW may \in BOOLEAN, NEW fast \in BOOLEAN, ~may => Sane(fast, s),
         NEW item, NEW o, o \in SUBSET Fit(v, may)
  PROVE  Counted(fast, s, v, item, o) \in SUBSET Fit(v, may)
<1>1. CASE o # OK
  BY <1>1 DEF Counted
<1>2. CASE o = OK
  <2>1. Counted(fast, s, v, item, OK) \in {OK, Panic, {Error("discriminator")}}
    BY CountedOK
  <2>2. "discriminator" \in Fields \ {"panic", "overflow"}
    BY DEF Fields
  <2>3. /\ Error("discriminator") \in Fit(v, may)
        /\ OK \in SUBSET Fit(v, may) /\ (may => Panic \in SUBSET Fit(v, may))
    BY <2>2, ErrorsFit
  <2>4. Counted(fast, s, v, item, OK) = Panic => s.discriminator # None /\ ~fast
    <3>1. {Error("discriminator")} # Panic /\ OK # Panic
      BY ErrorFields DEF Panic, OK
    <3> QED BY <3>1, Zenon DEF Counted
  <2>5. ~may => Counted(fast, s, v, item, OK) # Panic
    BY <2>4 DEF Sane
  <2> QED BY <1>2, <2>1, <2>3, <2>5
<1> QED BY <1>1, <1>2

LEMMA KeyedFits ==
  ASSUME NEW v \in Universe, v.t = "obj", NEW i \in DOMAIN v.pairs, NEW may \in BOOLEAN, NEW mode \in Settings,
         NEW o, o \in SUBSET Fit(v.pairs[i].v, may)
  PROVE  Keyed(v.pairs[i].k, o, mode) \in SUBSET Fit(v, may)
<1>1. "schema" \in Fields \ {"panic", "overflow"}
  BY DEF Fields
<1>2. {ErrSchema} \in SUBSET Fit(v, may)
  BY <1>1, ErrorsFit DEF ErrSchema
<1>3. Mark(v.pairs[i].k, o) \in SUBSET Fit(v, may)
  BY FitPair
<1> QED BY <1>2, <1>3 DEF Keyed

LEMMA ThenWithin ==
  ASSUME NEW G, NEW O, NEW P, O \subseteq SUBSET G, P \subseteq SUBSET G, NEW collects \in BOOLEAN
  PROVE  Then(collects, O, P) \subseteq SUBSET G
BY ThenFacts, Zenon

LEMMA OperationsFit ==
  ASSUME NEW d, IsDocument(d), NEW c \in Calls(d), NEW fast \in BOOLEAN, NEW may \in BOOLEAN,
         ~may => Sane(fast, d[c.schema]), NEW visits,
         \A m \in Operands(d[c.schema]) :
            /\ visits[Operand(c, m, Quiet(c.mode))] \subseteq SUBSET Fit(c.value, may)
            /\ visits[Operand(c, m, Loud(c.mode))] \subseteq SUBSET Fit(c.value, may)
  PROVE  SetOperations(visits, fast, d, c) \subseteq SUBSET Fit(c.value, may)
<1> DEFINE s == d[c.schema]
<1>1. c.schema \in DOMAIN d /\ c.value \in Universe /\ c.mode \in Settings
  BY CallParts
<1>2. PICK G : G = Fit(c.value, may)
  OBVIOUS
<1>3. OK \in SUBSET G
  BY <1>1, <1>2, ErrorsFit
<1>4. /\ s.not # None => s.not \in Operands(s)
      /\ \A i \in DOMAIN s.oneOf : s.oneOf[i] \in Operands(s)
      /\ \A i \in DOMAIN s.anyOf : s.anyOf[i] \in Operands(s)
      /\ \A i \in DOMAIN s.allOf : s.allOf[i] \in Operands(s)
      /\ Len(s.oneOf) \in Nat /\ DOMAIN s.oneOf = 1..Len(s.oneOf)
      /\ Len(s.anyOf) \in Nat /\ DOMAIN s.anyOf = 1..Len(s.anyOf)
  BY <1>1, SchemaFacts
<1>5. \A m \in Operands(s) : /\ visits[Operand(c, m, Quiet(c.mode))] \subseteq SUBSET G
                             /\ visits[Operand(c, m, Loud(c.mode))] \subseteq SUBSET G
  BY <1>2
<1>6. CASE s.enum # <<>>
  <2>1. EnumOutcome(fast, s, c.value, c.mode) \in SUBSET G
    BY <1>1, <1>2, EnumFits
  <2>2. SetOperations(visits, fast, d, c) = {EnumOutcome(fast, s, c.value, c.mode)}
    BY <1>6, OperationsParts
  <2> QED BY <1>2, <2>1, <2>2
<1>7. CASE s.enum = <<>>
  <2>1. NotPart(visits, s, c) \subseteq SUBSET G
    <3>1. CASE s.not = None
      BY <1>3, <3>1 DEF NotPart
    <3>2. CASE s.not # None
      <4>1. PICK O : O = visits[Operand(c, s.not, Quiet(c.mode))]
        OBVIOUS
      <4>2. \A o \in O : NotOutcome(o, c.mode) \in SUBSET G
        BY <1>1, <1>2, <1>4, <1>5, <3>2, <4>1, NotFits
      <4>3. NotPart(visits, s, c) = {NotOutcome(o, c.mode) : o \in O}
        BY <3>2, <4>1 DEF NotPart
      <4> QED BY <4>2, <4>3
    <3> QED BY <3>1, <3>2
  <2>2. OnePart(visits, fast, s, c) \subseteq SUBSET G
    <3>1. CASE s.oneOf = <<>>
      BY <1>3, <3>1 DEF OnePart
    <3>2. CASE s.oneOf # <<>>
      <4>1. PICK outs : outs = OneRow(visits, fast, s, c)
        OBVIOUS
      <4>2. DOMAIN outs = 1..Len(s.oneOf)
        BY <1>4, <4>1 DEF OneRow
      <4>3. ASSUME NEW i \in 1..Len(s.oneOf) PROVE outs[i] \subseteq SUBSET G
        <5>1. PICK O : O = visits[Operand(c, s.oneOf[i], Quiet(c.mode))]
          OBVIOUS
        <5>2. O \subseteq SUBSET G
          BY <1>4, <1>5, <5>1
        <5>3. \A o \in O : Counted(fast, s, c.value, s.oneOf[i], o) \in SUBSET G
          BY <1>1, <1>2, <5>2, CountedFits
        <5>4. outs[i] = {Counted(fast, s, c.value, s.oneOf[i], o) : o \in O}
          BY <1>4, <4>1, <5>1 DEF OneRow
        <5> QED BY <5>3, <5>4
      <4>4. {"oneOf", "oneOf conflict", "schema"} \subseteq Fields \ {"panic", "overflow"}
        BY DEF Fields
      <4>5. \A f \in Fields \ {"panic", "overflow"} : Error(f) \in G
        BY <1>1, <1>2, ErrorsFit
      <4>6. {ErrSchema, Error("oneOf"), Error("oneOf conflict")} \subseteq G
        BY <4>4, <4>5 DEF ErrSchema
      <4>7. ASSUME NEW o \in OneOf(outs, c.mode) PROVE o \in SUBSET G
        <5>1. (\E i \in 1..Len(s.oneOf) : o \in outs[i]) \/ o \subseteq {ErrSchema, Error("oneOf"), Error("oneOf conflict")}
          BY <1>1, <1>4, <4>2, OneOfWithin
        <5> QED BY <4>3, <4>6, <5>1
      <4>8. OnePart(visits, fast, s, c) = OneOf(outs, c.mode)
        BY <3>2, <4>1 DEF OnePart
      <4> QED BY <4>7, <4>8
    <3> QED BY <3>1, <3>2
  <2>3. AnyPart(visits, s, c) \subseteq SUBSET G
    <3>1. CASE s.anyOf = <<>>
      BY <1>3, <3>1 DEF AnyPart
    <3>2. CASE s.anyOf # <<>>
      <4>1. PICK outs : outs = AnyRow(visits, s, c)
        OBVIOUS
      <4>2. DOMAIN outs = 1..Len(s.anyOf)
        BY <1>4, <4>1 DEF AnyRow
      <4>3. ASSUME NEW i \in 1..Len(s.anyOf) PROVE outs[i] \subseteq SUBSET G
        <5>1. outs[i] = visits[Operand(c, s.anyOf[i], Quiet(c.mode))]
          BY <1>4, <4>1 DEF AnyRow
        <5> QED BY <1>4, <1>5, <5>1
      <4>4. {"anyOf", "schema"} \subseteq Fields \ {"panic", "overflow"}
        BY DEF Fields
      <4>5. \A f \in Fields \ {"panic", "overflow"} : Error(f) \in G
        BY <1>1, <1>2, ErrorsFit
      <4>6. {ErrSchema, Error("anyOf")} \subseteq G
        BY <4>4, <4>5 DEF ErrSchema
      <4>7. ASSUME NEW o \in AnyOf(outs, c.mode) PROVE o \in SUBSET G
        <5>1. (\E i \in 1..Len(s.anyOf) : o \in outs[i]) \/ o \subseteq {ErrSchema, Error("anyOf")}
          BY <1>1, <1>4, <4>2, AnyOfWithin
        <5> QED BY <4>3, <4>6, <5>1
      <4>8. AnyPart(visits, s, c) = AnyOf(outs, c.mode)
        BY <3>2, <4>1 DEF AnyPart
      <4> QED BY <4>7, <4>8
    <3> QED BY <3>1, <3>2
  <2>4. InOrder(FALSE, AllRow(visits, s, c)) \subseteq SUBSET G
    <3>1. PICK outs : outs = AllRow(visits, s, c)
      OBVIOUS
    <3>2. ASSUME NEW i \in DOMAIN outs PROVE outs[i] \subseteq SUBSET G
      <4>1. i \in DOMAIN s.allOf
        BY <3>1 DEF AllRow
      <4>2. PICK O : O = visits[Operand(c, s.allOf[i], Loud(c.mode))]
        OBVIOUS
      <4>3. O \subseteq SUBSET G
        BY <1>4, <1>5, <4>1, <4>2
      <4>4. \A o \in O : AllOfOutcome(o, c.mode) \in SUBSET G
        BY <1>1, <1>2, <4>3, AllOfFits
      <4>5. outs[i] = {AllOfOutcome(o, c.mode) : o \in O}
        BY <3>1, <4>1, <4>2 DEF AllRow
      <4> QED BY <4>4, <4>5
    <3>3. InOrder(FALSE, outs) \subseteq SUBSET G
      BY <3>2, OrderWithin
    <3> QED BY <3>1, <3>3
  <2>5. PICK P1, P2, P3, P4 : /\ P1 = NotPart(visits, s, c) /\ P2 = OnePart(visits, fast, s, c)
                              /\ P3 = AnyPart(visits, s, c) /\ P4 = InOrder(FALSE, AllRow(visits, s, c))
    OBVIOUS
  <2>6. P1 \subseteq SUBSET G /\ P2 \subseteq SUBSET G /\ P3 \subseteq SUBSET G /\ P4 \subseteq SUBSET G
    BY <2>1, <2>2, <2>3, <2>4, <2>5, Zenon
  <2>7. PICK P34 : P34 = Then(FALSE, P3, P4)
    OBVIOUS
  <2>8. P34 \subseteq SUBSET G
    BY <2>6, <2>7, ThenWithin, Zenon
  <2>9. PICK P24 : P24 = Then(FALSE, P2, P34)
    OBVIOUS
  <2>10. P24 \subseteq SUBSET G
    BY <2>6, <2>8, <2>9, ThenWithin, Zenon
  <2>11. Then(FALSE, P1, P24) \subseteq SUBSET G
    BY <2>6, <2>10, ThenWithin, Zenon
  <2>12. SetOperations(visits, fast, d, c) = Then(FALSE, P1, P24)
    BY <1>7, <2>5, <2>7, <2>9, OperationsParts
  <2> QED BY <1>2, <2>11, <2>12
<1> QED BY <1>6, <1>7

\* What is known of the members of the value: the errors of their visits fit them.
MembersFit(d, visits, may, c) ==
    \A m \in Children(d[c.schema]), x \in Members(c.value) : visits[Inside(c, m, x)] \subseteq SUBSET Fit(x, may)

LEMMA ArrayFits ==
  ASSUME NEW d, IsDocument(d), NEW c \in Calls(d), c.value.t = "arr", NEW may \in BOOLEAN,
         NEW visits, MembersFit(d, visits, may, c)
  PROVE  VisitArray(visits, d, c) \subseteq SUBSET Fit(c.value, may)
<1> DEFINE s == d[c.schema]
           v == c.value
           own == Report(c.mode, ArrayChecks(s, v))
<1>1. c.schema \in DOMAIN d /\ v \in Universe /\ c.mode \in Settings /\ c.mode.multiError \in BOOLEAN
  BY CallParts, SettingsFacts
<1>2. PICK G : G = Fit(v, may)
  OBVIOUS
<1>3. "type" \in Fields \ {"panic", "overflow"}
  BY DEF Fields
<1>4. Failing(c.mode, "type") \in SUBSET G /\ own \in SUBSET G
  BY <1>1, <1>2, <1>3, FailingsFit, ArrayOwnFits
<1>5. ASSUME s.items # None PROVE InOrder(c.mode.multiError, ItemRow(visits, s, c)) \subseteq SUBSET G
  <2>1. PICK outs : outs = ItemRow(visits, s, c)
    OBVIOUS
  <2>2. ASSUME NEW i \in DOMAIN outs PROVE outs[i] \subseteq SUBSET G
    <3>1. i \in DOMAIN v.items
      BY <2>1 DEF ItemRow
    <3>2. v.items[i] \in Members(v) /\ s.items \in Children(s)
      BY <1>1, <1>5, <3>1, PartsOfValues, SchemaFacts
    <3>3. PICK O : O = visits[Inside(c, s.items, v.items[i])]
      OBVIOUS
    <3>4. O \subseteq SUBSET Fit(v.items[i], may)
      BY <3>2, <3>3 DEF MembersFit
    <3>5. ASSUME NEW o \in O PROVE Mark(ToString(i - 1), o) \in SUBSET G
      <4>1. o \in SUBSET Fit(v.items[i], may)
        BY <3>4
      <4> QED BY <1>1, <1>2, <3>1, <4>1, FitItem
    <3>6. outs[i] = {Mark(ToString(i - 1), o) : o \in O}
      BY <2>1, <3>1, <3>3 DEF ItemRow
    <3> QED BY <3>5, <3>6
  <2>3. InOrder(c.mode.multiError, outs) \subseteq SUBSET G
    BY <1>1, <2>2, OrderWithin
  <2> QED BY <2>1, <2>3
<1>6. PICK O : O = {own}
  OBVIOUS
<1>7. O \subseteq SUBSET G
  BY <1>4, <1>6
<1>8. ASSUME s.items # None PROVE Then(c.mode.multiError, O, InOrder(c.mode.multiError, ItemRow(visits, s, c))) \subseteq SUBSET G
  <2>1. PICK P : P = InOrder(c.mode.multiError, ItemRow(visits, s, c))
    OBVIOUS
  <2>2. P \subseteq SUBSET G
    BY <1>5, <1>8, <2>1
  <2> QED BY <1>1, <1>7, <2>1, <2>2, ThenWithin
<1> HIDE DEF own
<1>9. VisitArray(visits, d, c) =
         IF WrongType(s, v) THEN {Failing(c.mode, "type")}
         ELSE IF Stops(own, c.mode) \/ s.items = None THEN {own}
         ELSE Then(c.mode.multiError, O, InOrder(c.mode.multiError, ItemRow(visits, s, c)))
  BY <1>6, ArrayParts DEF own
<1> QED BY <1>2, <1>4, <1>8, <1>9

LEMMA MemberFits ==
  ASSUME NEW d, IsDocument(d), NEW c \in Calls(d), c.value.t = "obj", NEW may \in BOOLEAN, NEW fast \in BOOLEAN,
         NEW visits, MembersFit(d, visits, may, c), NEW i \in DOMAIN c.value.pairs,
         NEW p, p = c.value.pairs[i], NEW made \in MemberOutcomes(visits, fast, d, c, p)
  PROVE  made \in SUBSET Fit(c.value, may)
<1> DEFINE s == d[c.schema]
           v == c.value
<1>1. c.schema \in DOMAIN d /\ v \in Universe /\ c.mode \in Settings
  BY CallParts
<1>2. PICK G : G = Fit(v, may)
  OBVIOUS
<1>3. p = v.pairs[i]
  OBVIOUS
<1>4. p.v \in Members(v)
  BY <1>3, PartsOfValues
<1>5. ASSUME NEW m \in Children(s)
      PROVE  {Keyed(p.k, o, c.mode) : o \in visits[Inside(c, m, p.v)]} \subseteq SUBSET G
  <2>1. PICK O : O = visits[Inside(c, m, p.v)]
    OBVIOUS
  <2>2. O \subseteq SUBSET Fit(p.v, may)
    BY <1>4, <2>1 DEF MembersFit
  <2>3. ASSUME NEW o \in O PROVE Keyed(p.k, o, c.mode) \in SUBSET G
    <3>1. o \in SUBSET Fit(v.pairs[i].v, may)
      BY <1>3, <2>2
    <3> QED BY <1>1, <1>2, <1>3, <3>1, KeyedFits
  <2> QED BY <2>1, <2>3
<1>6. "properties" \in Fields \ {"panic", "overflow"}
  BY DEF Fields
<1>7. OK \in SUBSET G /\ Failing(c.mode, "properties") \in SUBSET G
  BY <1>1, <1>2, <1>6, ErrorsFit, FailingsFit
<1>8. Unsupported(fast, c.mode) \in SUBSET G
  BY <1>7 DEF Unsupported
<1>9. /\ \A k \in DOMAIN s.properties : s.properties[k] \in Children(s)
      /\ s.additional # None => s.additional \in Children(s)
  BY <1>1, SchemaFacts
<1>10. CASE p.k \in DOMAIN s.properties
  <2>1. PICK m \in Children(s) : m = s.properties[p.k]
    BY <1>9, <1>10
  <2>2. MemberOutcomes(visits, fast, d, c, p) = {Keyed(p.k, o, c.mode) : o \in visits[Inside(c, m, p.v)]}
    BY <1>10, <2>1 DEF MemberOutcomes
  <2> QED BY <1>2, <1>3, <1>5, <2>2
<1>11. CASE p.k \notin DOMAIN s.properties /\ s.additional # None
  <2>1. PICK m \in Children(s) : m = s.additional
    BY <1>9, <1>11
  <2>2. MemberOutcomes(visits, fast, d, c, p) = {Keyed(p.k, o, c.mode) : o \in visits[Inside(c, m, p.v)]}
    BY <1>11, <2>1 DEF MemberOutcomes
  <2> QED BY <1>2, <1>3, <1>5, <2>2
<1>12. CASE p.k \notin DOMAIN s.properties /\ s.additional = None
  <2>1. MemberOutcomes(visits, fast, d, c, p) \in {{Unsupported(fast, c.mode)}, {OK}}
    BY <1>12 DEF MemberOutcomes
  <2> QED BY <1>2, <1>3, <1>7, <1>8, <2>1
<1> QED BY <1>10, <1>11, <1>12

LEMMA ObjectFits ==
  ASSUME NEW d, IsDocument(d), NEW c \in Calls(d), c.value.t = "obj", NEW may \in BOOLEAN, NEW fast \in BOOLEAN,
         NEW visits, MembersFit(d, visits, may, c)
  PROVE  VisitObject(visits, fast, d, c) \subseteq SUBSET Fit(c.value, may)
<1> DEFINE s == d[c.schema]
           v == c.value
           own == Report(c.mode, PropertyCountChecks(s, v))
           missing == Report(c.mode, RequiredChecks(d, s, v, c.mode))
<1>1. c.schema \in DOMAIN d /\ v \in Universe /\ c.mode \in Settings
  BY CallParts
<1>2. PICK G : G = Fit(v, may)
  OBVIOUS
<1>3. "type" \in Fields \ {"panic", "overflow"}
  BY DEF Fields
<1>4. Failing(c.mode, "type") \in SUBSET G /\ own \in SUBSET G /\ missing \in SUBSET G
  BY <1>1, <1>2, <1>3, FailingsFit, CountFits, RequiredFits
<1>5. PICK collects \in BOOLEAN : collects = Collects(c.mode)
  BY <1>1, SettingsFacts
<1>6. PICK R : R = Ranged(visits, fast, d, c)
  OBVIOUS
<1>7. R \subseteq SUBSET G
  <2>1. v.pairs \in Seq([k : STRING, v : Universe])
    BY <1>1, UniverseFacts
  <2>2. PICK outs : outs = MemberRow(visits, fast, d, c)
    OBVIOUS
  <2>3. PICK n \in Nat : n = Len(v.pairs)
    BY <2>1
  <2>4. DOMAIN outs = 1..n /\ DOMAIN v.pairs = 1..n
    BY <2>1, <2>2, <2>3 DEF MemberRow
  <2>5. ASSUME NEW i \in 1..n PROVE outs[i] \subseteq SUBSET G
    <3>1. outs[i] = MemberOutcomes(visits, fast, d, c, v.pairs[i])
      BY <2>2, <2>4 DEF MemberRow
    <3>2. PICK p : p = c.value.pairs[i]
      OBVIOUS
    <3>3. \A o \in MemberOutcomes(visits, fast, d, c, p) : o \in SUBSET Fit(c.value, may)
      BY <2>4, <3>2, MemberFits
    <3> QED BY <1>2, <3>1, <3>2, <3>3
  <2>6. LastWins(outs) \subseteq SUBSET G
    BY <2>4, <2>5, LastWinsFacts
  <2>7. AnyOrder(collects, outs) \subseteq SUBSET G
    BY <2>4, <2>5, OrderWithin
  <2>8. R = IF fast /\ ~collects THEN LastWins(outs) ELSE AnyOrder(collects, outs)
    BY <1>5, <1>6, <2>2 DEF Ranged
  <2> QED BY <2>6, <2>7, <2>8
<1>8. PICK O, M : O = {own} /\ M = {missing}
  OBVIOUS
<1>9. O \subseteq SUBSET G /\ M \subseteq SUBSET G
  BY <1>4, <1>8
<1>10. PICK P : P = Then(collects, R, M)
  OBVIOUS
<1>11. P \subseteq SUBSET G
  BY <1>7, <1>9, <1>10, ThenWithin, Zenon
<1>12. Then(collects, O, P) \subseteq SUBSET G
  BY <1>9, <1>11, ThenWithin, Zenon
<1> HIDE DEF own, missing
<1>13. VisitObject(visits, fast, d, c) =
          IF WrongType(s, v) THEN {Failing(c.mode, "type")}
          ELSE IF Stops(own, c.mode) THEN {own}
          ELSE Then(collects, O, P)
  BY <1>5, <1>6, <1>8, <1>10, ObjectParts DEF own, missing
<1> QED BY <1>2, <1>4, <1>12, <1>13

LEMMA KindFits ==
  ASSUME NEW d, IsDocument(d), NEW c \in Calls(d), NEW may \in BOOLEAN, NEW fast \in BOOLEAN,
         ~may => Sane(fast, d[c.schema]) /\ c.value.t # "nan",
         NEW visits, MembersFit(d, visits, may, c)
  PROVE  ByKind(visits, fast, d, c) \subseteq SUBSET Fit(c.value, may)
<1> DEFINE s == d[c.schema]
           v == c.value
<1>1. c.schema \in DOMAIN d /\ v \in Universe /\ c.mode \in Settings
  BY CallParts
<1>2. PICK G : G = Fit(v, may)
  OBVIOUS
<1>3. v.t \in {"null", "bool", "num", "nan", "inf", "str", "arr", "obj", "raw"}
  BY <1>1, UniverseFacts DEF Kinds
<1>4. /\ VisitNull(s, c.mode) \in SUBSET G /\ VisitBoolean(s, v, c.mode) \in SUBSET G
      /\ VisitNumber(s, v, c.mode) \in SUBSET G /\ VisitString(s, v, c.mode) \in SUBSET G
  BY <1>1, <1>2, NullFits, BooleanFits, NumberFits, StringFits
<1>5. CASE v.t = "null"
  BY <1>2, <1>4, <1>5 DEF ByKind
<1>6. CASE v.t = "bool"
  BY <1>2, <1>4, <1>6 DEF ByKind
<1>7. CASE v.t \in {"num", "nan", "inf"}
  <2>1. ByKind(visits, fast, d, c) = {VisitNumber(s, v, c.mode)}
    BY <1>7 DEF ByKind
  <2> QED BY <1>2, <1>4, <2>1
<1>8. CASE v.t = "str"
  BY <1>2, <1>4, <1>8 DEF ByKind
<1>9. CASE v.t = "arr"
  <2>1. ByKind(visits, fast, d, c) = VisitArray(visits, d, c)
    BY <1>9 DEF ByKind
  <2> QED BY <1>9, <2>1, ArrayFits
<1>10. CASE v.t = "obj"
  <2>1. ByKind(visits, fast, d, c) = VisitObject(visits, fast, d, c)
    BY <1>10 DEF ByKind
  <2> QED BY <1>10, <2>1, ObjectFits
<1>11. CASE v.t = "raw"
  <2>1. ByKind(visits, fast, d, c) = {{Error("type")}}
    BY <1>11 DEF ByKind
  <2>2. "type" \in Fields \ {"panic", "overflow"}
    BY DEF Fields
  <2>3. Error("type") \in G
    BY <1>1, <1>2, <2>2, ErrorsFit
  <2> QED BY <1>2, <2>1, <2>3
<1> QED BY <1>3, <1>5, <1>6, <1>7, <1>8, <1>9, <1>10, <1>11

\* Where a visit that only dies for a reason may have come: down from the
\* root, and through operands only since it came to the value.
Led(d, fast, R, may, c) ==
    ~may => /\ c.schema \in R
            /\ fast => ~Has(c.value, {"nan"})
            /\ \A a \in c.above : a \in R /\ c.schema \in AfterAlike(d, a)

LEMMA LedBelow ==
  ASSUME NEW d, IsDocument(d), NEW fast \in BOOLEAN, NEW may \in BOOLEAN, NEW R \in SUBSET DOMAIN d,
         ~may => \A n \in R : Children(d[n]) \subseteq R,
         NEW c \in Calls(d), Led(d, fast, R, may, c)
  PROVE  /\ \A m \in Operands(d[c.schema]), how \in Settings : Led(d, fast, R, may, Operand(c, m, how))
         /\ \A m \in Children(d[c.schema]), x \in Members(c.value) : Led(d, fast, R, may, Inside(c, m, x))
<1>1. c.schema \in DOMAIN d /\ c.value \in Universe /\ c.mode \in Settings
  BY CallParts
<1>2. Operands(d[c.schema]) \subseteq Children(d[c.schema])
  BY <1>1, SchemaFacts
<1>3. ASSUME NEW m \in Operands(d[c.schema]), NEW how \in Settings
      PROVE  Led(d, fast, R, may, Operand(c, m, how))
  <2>1. PICK b : b = Operand(c, m, how)
    OBVIOUS
  <2>2. b.schema = m /\ b.value = c.value /\ b.above = c.above \cup {c.schema}
    BY <2>1, CallParts
  <2>3. ASSUME ~may
        PROVE  /\ m \in R
               /\ fast => ~Has(c.value, {"nan"})
               /\ \A a \in c.above \cup {c.schema} : a \in R /\ m \in AfterAlike(d, a)
    <3>1. c.schema \in R /\ (fast => ~Has(c.value, {"nan"})) /\ \A a \in c.above : a \in R /\ c.schema \in AfterAlike(d, a)
      BY <2>3 DEF Led
    <3>2. m \in R /\ m \in AfterAlike(d, c.schema)
      BY <1>1, <1>2, <2>3, <3>1, AfterFacts
    <3>3. ASSUME NEW a \in c.above PROVE m \in AfterAlike(d, a)
      <4>1. a \in DOMAIN d /\ c.schema \in AfterAlike(d, a)
        BY <3>1
      <4> QED BY <4>1, AfterFacts
    <3> QED BY <3>1, <3>2, <3>3
  <2>4. Led(d, fast, R, may, b)
    BY <2>2, <2>3 DEF Led
  <2> QED BY <2>1, <2>4
<1>4. ASSUME NEW m \in Children(d[c.schema]), NEW x \in Members(c.value)
      PROVE  Led(d, fast, R, may, Inside(c, m, x))
  <2>1. PICK b : b = Inside(c, m, x)
    OBVIOUS
  <2>2. b.schema = m /\ b.value = x /\ b.above = {}
    BY <2>1, CallParts
  <2>3. ASSUME ~may PROVE m \in R /\ (fast => ~Has(x, {"nan"}))
    <3>1. c.schema \in R /\ (fast => ~Has(c.value, {"nan"}))
      BY <2>3 DEF Led
    <3> QED BY <1>1, <2>3, <3>1, HasFacts
  <2>4. Led(d, fast, R, may, b)
    BY <2>2, <2>3 DEF Led
  <2> QED BY <2>1, <2>4
<1> QED BY <1>3, <1>4

\* Every visit reports what fits its value; it dies only where it may.
LEMMA CallsFit ==
  ASSUME NEW d, IsDocument(d), NEW fast \in BOOLEAN, NEW may \in BOOLEAN, NEW R \in SUBSET DOMAIN d,
         ~may => /\ \A n \in R : Children(d[n]) \subseteq R
                 /\ \A n \in R : Sane(fast, d[n]) /\ n \notin AfterAlike(d, n)
                 /\ ~EmptyCycle(d, R)
  PROVE  \A c \in Calls(d) : Led(d, fast, R, may, c) => VisitCalls(fast, d)[c] \subseteq SUBSET Fit(c.value, may)
<1>1. PICK visits : visits = VisitCalls(fast, d)
  OBVIOUS
<1>2. \A c \in Calls(d) : visits[c] = OutcomesOf(visits, fast, d, c)
  BY <1>1, VisitUnfolds
<1> DEFINE P == {c \in Calls(d) : Led(d, fast, R, may, c) => visits[c] \subseteq SUBSET Fit(c.value, may)}
<1>3. ASSUME NEW c \in Calls(d), CalledBy(d)[c] \subseteq P, Led(d, fast, R, may, c)
      PROVE  visits[c] \subseteq SUBSET Fit(c.value, may)
  <2>1. c.schema \in DOMAIN d /\ c.value \in Universe /\ c.mode \in Settings
    BY CallParts
  <2>2. PICK G : G = Fit(c.value, may)
    OBVIOUS
  <2>3. OK \in SUBSET G /\ (may => Overflow \in SUBSET G)
    BY <2>1, <2>2, ErrorsFit
  <2>4. CASE c.schema \in c.above
    <3>1. visits[c] = {Overflow}
      BY <1>2, <2>4, OutcomesParts
    <3>2. ~may => c.schema \in R /\ c.schema \in AfterAlike(d, c.schema)
      BY <1>3, <2>4 DEF Led
    <3>3. may
      BY <3>2
    <3> QED BY <2>2, <2>3, <3>1, <3>3
  <2>5. CASE c.schema \notin c.above /\ ~fast /\ c.value.t \in {"null", "nan", "inf"}
    <3>1. visits[c] = {EarlyOutcome(c.value, d[c.schema], c.mode)}
      BY <1>2, <2>5, OutcomesParts
    <3>2. EarlyOutcome(c.value, d[c.schema], c.mode) \in SUBSET G
      BY <2>1, <2>2, <2>5, EarlyFits
    <3> QED BY <2>2, <3>1, <3>2
  <2>6. CASE c.schema \notin c.above /\ ~(~fast /\ c.value.t \in {"null", "nan", "inf"})
    <3>1. ~may => Sane(fast, d[c.schema]) /\ c.value.t # "nan"
      <4>1. ~may => c.schema \in R /\ (fast => ~Has(c.value, {"nan"}))
        BY <1>3 DEF Led
      <4>2. c.value.t \in {"nan"} => Has(c.value, {"nan"})
        BY <2>1, HasFacts
      <4> QED BY <2>6, <4>1, <4>2
    <3>2. MembersFit(d, visits, may, c)
      <4>1. ASSUME NEW m \in Children(d[c.schema]), NEW x \in Members(c.value)
            PROVE  visits[Inside(c, m, x)] \subseteq SUBSET Fit(x, may)
        <5>1. Inside(c, m, x) \in CalledBy(d)[c]
          BY <2>6 DEF CalledBy
        <5>2. Led(d, fast, R, may, Inside(c, m, x))
          BY <1>3, LedBelow
        <5>3. Inside(c, m, x).value = x
          BY CallParts
        <5> QED BY <1>3, <5>1, <5>2, <5>3
      <4> QED BY <4>1 DEF MembersFit
    <3>3. ASSUME NEW m \in Operands(d[c.schema]), NEW how \in Settings
          PROVE  visits[Operand(c, m, how)] \subseteq SUBSET Fit(c.value, may)
      <4>1. Operand(c, m, how) \in CalledBy(d)[c]
        BY <2>6 DEF CalledBy
      <4>2. Led(d, fast, R, may, Operand(c, m, how))
        BY <1>3, LedBelow
      <4>3. Operand(c, m, how).value = c.value
        BY CallParts
      <4> QED BY <1>3, <4>1, <4>2, <4>3
    <3>4. Quiet(c.mode) \in Settings /\ Loud(c.mode) \in Settings
      BY <2>1, SettingsFacts
    <3>5. PICK O : O = SetOperations(visits, fast, d, c)
      OBVIOUS
    <3>6. O \subseteq SUBSET G
      <4>1. \A m \in Operands(d[c.schema]) : /\ visits[Operand(c, m, Quiet(c.mode))] \subseteq SUBSET Fit(c.value, may)
                                             /\ visits[Operand(c, m, Loud(c.mode))] \subseteq SUBSET Fit(c.value, may)
        BY <3>3, <3>4
      <4>2. ~may => Sane(fast, d[c.schema])
        BY <3>1
      <4> QED BY <2>2, <3>5, <4>1, <4>2, OperationsFit
    <3>7. PICK K : K = ByKind(visits, fast, d, c)
      OBVIOUS
    <3>8. K \subseteq SUBSET G
      BY <2>2, <3>1, <3>2, <3>7, KindFits
    <3>9. Then(FALSE, O, K) \subseteq SUBSET G
      BY <3>6, <3>8, ThenWithin, Zenon
    <3>10. PICK E : E = Emptiness(d, c.schema)
      OBVIOUS
    <3>11. E \subseteq {OK, NotEmpty, Overflow}
      BY <2>1, <3>10, EmptinessSure DEF Sure
    <3>12. Overflow \in E => may
      <4>1. CASE may = FALSE
        <5>1. c.schema \in R /\ \A n \in R : Children(d[n]) \subseteq R
          BY <1>3, <4>1 DEF Led
        <5>2. Overflow \in E => EmptyCycle(d, R)
          BY <3>10, <5>1, EmptinessDeath
        <5> QED BY <4>1, <5>2
      <4> QED BY <4>1
    <3>13. E \ {NotEmpty} \subseteq SUBSET G
      BY <2>3, <3>11, <3>12
    <3>14. visits[c] = (E \ {NotEmpty}) \cup (IF NotEmpty \in E THEN Then(FALSE, O, K) ELSE {})
      BY <1>2, <2>6, <3>5, <3>7, <3>10, OutcomesParts
    <3> QED BY <2>2, <3>9, <3>13, <3>14
  <2> QED BY <2>4, <2>5, <2>6
<1>4. \A c \in Calls(d) : CalledBy(d)[c] \subseteq P => c \in P
  BY <1>3
<1> HIDE DEF P
<1>5. \A c \in Calls(d) : c \in P
  BY <1>4, VisitInduction
<1> QED BY <1>1, <1>5 DEF P

\* The path of every error of a visit leads into the value.
LEMMA VisitLeads ==
  ASSUME NEW d, IsDocument(d), NEW v \in Universe, NEW mode \in Settings, NEW fast \in BOOLEAN,
         NEW o \in VisitJSON(fast, d, Root, v, mode), NEW e \in o
  PROVE  Leads(v, e.path, e.field = "required")
<1>1. PICK c : c = Call(Root, v, mode)
  OBVIOUS
<1>2. c \in Calls(d) /\ c.value = v
  BY <1>1 DEF Call, Calls, IsDocument
<1>3. Led(d, fast, {}, TRUE, c)
  BY DEF Led
<1>4. VisitCalls(fast, d)[c] \subseteq SUBSET Fit(c.value, TRUE)
  BY <1>2, <1>3, CallsFit
<1>5. e \in Fit(v, TRUE)
  BY <1>1, <1>2, <1>4 DEF VisitJSON
<1> QED BY <1>5 DEF Fit

\* A visit does not die without a reason.
LEMMA VisitLives ==
  ASSUME NEW d, IsDocument(d), NEW v \in Universe, NEW mode \in Settings, NEW fast \in BOOLEAN,
         fast => ~Has(v, {"nan"}),
         \A n \in ReachOf(d) : Sane(fast, d[n]) /\ n \notin AfterAlike(d, n) /\ (n \in After(d, n) => OwnKeyword(d[n])),
         NEW o \in VisitJSON(fast, d, Root, v, mode)
  PROVE  ~Dead(o)
<1>1. PICK c : c = Call(Root, v, mode)
  OBVIOUS
<1>2. PICK R : R = ReachOf(d)
  OBVIOUS
<1>3. Root \in R /\ R \in SUBSET DOMAIN d /\ \A n \in R : Children(d[n]) \subseteq R
  BY <1>2, ReachFacts
<1>4. c \in Calls(d) /\ c.value = v /\ c.schema = Root /\ c.above = {}
  BY <1>1, <1>3 DEF Call, Calls
<1>5. Led(d, fast, R, FALSE, c)
  BY <1>3, <1>4 DEF Led
<1>6. (\A n \in R : Sane(fast, d[n]) /\ n \notin AfterAlike(d, n)) /\ ~EmptyCycle(d, R)
  BY <1>2 DEF EmptyCycle
<1>7. VisitCalls(fast, d)[c] \subseteq SUBSET Fit(c.value, FALSE)
  BY <1>3, <1>4, <1>5, <1>6, CallsFit
<1>8. o \in SUBSET Fit(v, FALSE)
  BY <1>1, <1>4, <1>7 DEF VisitJSON
<1> QED BY <1>8, FitAlive

-----------------------------------------------------------------------------
(* The state machine.                                                       *)

\* What the last visit came to is what visitJSON, or visitFastJSON, may come
\* to; a document is served exactly if Validate accepted it.
TrueVisit(r) ==
    \E fast \in BOOLEAN, v \in Universe, mode \in Settings :
        \E o \in VisitJSON(fast, doc, Root, v, mode) :
            r = [fast |-> fast, value |-> v, mode |-> mode, outcome |-> o]
Inv ==
    /\ IsDocument(doc)
    /\ phase \in {"loaded", "rejected", "serving"}
    /\ phase # "loaded" => (phase = "serving" <=> ValidSchema(doc, Root))
    /\ visit # None => TrueVisit(visit)

LEMMA InitInv == Init => Inv
BY VisitAssumption DEF Init, Inv

LEMMA NextInv == Inv /\ [Next]_vars => Inv'
<1> SUFFICES ASSUME Inv, [Next]_vars PROVE Inv'
  OBVIOUS
<1>1. ASSUME doc' = doc, visit' # None => TrueVisit(visit') PROVE (visit # None => TrueVisit(visit))'
  BY <1>1 DEF TrueVisit
<1>2. ASSUME NEW fast \in BOOLEAN, NEW v \in Universe, NEW mode \in Settings,
             \E o \in VisitJSON(fast, doc, Root, v, mode) :
                visit' = [fast |-> fast, value |-> v, mode |-> mode, outcome |-> o]
      PROVE  TrueVisit(visit')
  BY <1>2 DEF TrueVisit
<1>3. CASE Validate
  <2>1. phase \in {"loaded", "rejected", "serving"} /\ phase' = (IF ValidSchema(doc, Root) THEN "serving" ELSE "rejected")
        /\ doc' = doc /\ visit' = visit
    BY <1>3 DEF Validate, Inv
  <2>2. visit' # None => TrueVisit(visit')
    BY <2>1 DEF Inv
  <2> QED BY <1>1, <2>1, <2>2 DEF Inv
<1>4. ASSUME NEW v \in Values, NEW mode \in Modes, Visit(v, mode) PROVE Inv'
  <2>1. v \in Universe /\ mode \in Settings
    BY VisitAssumption
  <2>2. TrueVisit(visit') /\ doc' = doc /\ phase' = phase
    BY <1>2, <1>4, <2>1 DEF Visit
  <2> QED BY <1>1, <2>2 DEF Inv
<1>5. ASSUME NEW v \in FastValues, NEW mode \in Modes, VisitFast(v, mode) PROVE Inv'
  <2>1. v \in Universe /\ mode \in Settings
    BY VisitAssumption
  <2>2. TrueVisit(visit') /\ doc' = doc /\ phase' = phase
    BY <1>2, <1>5, <2>1 DEF VisitFast
  <2> QED BY <1>1, <2>2 DEF Inv
<1>6. CASE Forget
  BY <1>1, <1>6 DEF Forget, Inv
<1>7. CASE UNCHANGED vars
  <2>1. doc' = doc /\ phase' = phase /\ visit' = visit
    BY <1>7 DEF vars
  <2>2. visit' # None => TrueVisit(visit')
    BY <2>1 DEF Inv
  <2> QED BY <1>1, <2>1, <2>2 DEF Inv
<1> QED BY <1>3, <1>4, <1>5, <1>6, <1>7 DEF Next

\* The visit Inv speaks of.
LEMMA VisitIsTrue ==
  ASSUME Inv, Visited
  PROVE  /\ visit.fast \in BOOLEAN /\ visit.value \in Universe /\ visit.mode \in Settings
         /\ visit.outcome \in VisitJSON(visit.fast, doc, Root, visit.value, visit.mode)
BY DEF Inv, Visited, TrueVisit

\* The reasons PartsWays names, as the lemmas name them.
LEMMA PartsWaysIs ==
  /\ ~PartsWays => /\ ~Has(visit.value, {"null", "nan", "inf"})
                   /\ \A n \in ReachOf(doc) : doc[n].enum = <<>>
                   /\ visit.mode.multiError \/ \A n \in ReachOf(doc) : doc[n].additionalAllowed # FALSE
BY Zenon DEF PartsWays, Some, Reached, ReachOf

LEMMA InvDecides == Inv => VisitDecides
<1>1. SUFFICES ASSUME Inv, Alive, ~visit.fast PROVE visit.outcome = OK <=> Conforms(doc, Root, visit.value, visit.mode)
  BY DEF VisitDecides
<1>2. /\ visit.fast \in BOOLEAN /\ visit.value \in Universe /\ visit.mode \in Settings
      /\ visit.outcome \in VisitJSON(visit.fast, doc, Root, visit.value, visit.mode)
  BY <1>1, VisitIsTrue DEF Alive
<1>3. IsDocument(doc) /\ ~Dead(visit.outcome)
  BY <1>1 DEF Inv, Alive
<1>4. visit.fast = FALSE
  BY <1>1, <1>2
<1>5. Decides(VisitJSON(FALSE, doc, Root, visit.value, visit.mode), Conforms(doc, Root, visit.value, visit.mode))
  BY <1>2, <1>3, VisitJSONDecides
<1> QED BY <1>2, <1>3, <1>4, <1>5 DEF Decides

LEMMA InvFastDecides == Inv => FastVisitDecides
<1>1. SUFFICES ASSUME Inv, Alive, visit.fast, ~PartsWays
      PROVE  visit.outcome = OK <=> Conforms(doc, Root, visit.value, visit.mode)
  BY DEF FastVisitDecides
<1>2. /\ visit.fast \in BOOLEAN /\ visit.value \in Universe /\ visit.mode \in Settings
      /\ visit.outcome \in VisitJSON(visit.fast, doc, Root, visit.value, visit.mode)
  BY <1>1, VisitIsTrue DEF Alive
<1>3. IsDocument(doc) /\ ~Dead(visit.outcome)
  BY <1>1 DEF Inv, Alive
<1>4. visit.fast = TRUE
  BY <1>1, <1>2
<1>5. Decides(VisitJSON(TRUE, doc, Root, visit.value, visit.mode), Conforms(doc, Root, visit.value, visit.mode))
  BY <1>1, <1>2, <1>3, PartsWaysIs, VisitFastDecides
<1> QED BY <1>2, <1>3, <1>4, <1>5 DEF Decides

LEMMA InvAmong == Inv => SingleErrorIsAmongAll
<1>1. SUFFICES ASSUME Inv, Alive, ~visit.mode.multiError, ~visit.mode.failfast, visit.fast => ~PartsWays
      PROVE  \E all \in VisitJSON(visit.fast, doc, Root, visit.value, [visit.mode EXCEPT !.multiError = TRUE]) :
                Dead(all) \/ visit.outcome \subseteq all
  BY DEF SingleErrorIsAmongAll
<1>2. /\ visit.fast \in BOOLEAN /\ visit.value \in Universe /\ visit.mode \in Settings
      /\ visit.outcome \in VisitJSON(visit.fast, doc, Root, visit.value, visit.mode)
  BY <1>1, VisitIsTrue DEF Alive
<1>3. IsDocument(doc) /\ ~Dead(visit.outcome)
  BY <1>1 DEF Inv, Alive
<1>4. Single(visit.mode)
  BY <1>1, <1>2 DEF Single
<1>5. visit.fast => /\ ~Has(visit.value, {"null", "nan", "inf"})
                    /\ \A n \in ReachOf(doc) : doc[n].enum = <<>>
                    /\ \A n \in ReachOf(doc) : doc[n].additionalAllowed # FALSE
  BY <1>1, PartsWaysIs
<1>6. AmongThose(VisitJSON(visit.fast, doc, Root, visit.value, visit.mode),
                 VisitJSON(visit.fast, doc, Root, visit.value, [visit.mode EXCEPT !.multiError = TRUE]))
  BY <1>2, <1>3, <1>4, <1>5, VisitAmong
<1> QED BY <1>2, <1>3, <1>6 DEF AmongThose, Held

LEMMA InvLoad == Inv => LoadDecides
<1>1. SUFFICES ASSUME Inv, phase # "loaded", \A n \in ReachOf(doc) : doc[n].oneOf = <<>>
      PROVE  phase = "serving" <=> \A n \in ReachOf(doc) : WellFormed(doc[n])
  BY Zenon DEF LoadDecides, Some, Reached, ReachOf, WellFormed
<1>2. IsDocument(doc) /\ (phase = "serving" <=> ValidSchema(doc, Root))
  BY <1>1 DEF Inv
<1> QED BY <1>1, <1>2, ValidExactly

\* The visit's error lies where its pointer says.
LEMMA InvPointers == Inv => PointersLead
<1>1. SUFFICES ASSUME Inv, Visited, NEW e \in visit.outcome PROVE Leads(visit.value, e.path, e.field = "required")
  BY DEF PointersLead
<1>2. /\ visit.fast \in BOOLEAN /\ visit.value \in Universe /\ visit.mode \in Settings
      /\ visit.outcome \in VisitJSON(visit.fast, doc, Root, visit.value, visit.mode)
  BY <1>1, VisitIsTrue
<1>3. IsDocument(doc)
  BY <1>1 DEF Inv
<1> QED BY <1>1, <1>2, <1>3, VisitLeads

\* The reasons DeathsAreKnown names, as the lemmas name them.
LEMMA NoReasonIs ==
  ASSUME Visited, Dead(visit.outcome), ~DeathsAreKnown, visit.fast \in BOOLEAN
  PROVE  /\ visit.fast => ~Has(visit.value, {"nan"})
         /\ \A n \in ReachOf(doc) : /\ Sane(visit.fast, doc[n])
                                    /\ n \notin AfterAlike(doc, n)
                                    /\ n \in After(doc, n) => OwnKeyword(doc[n])
<1>1. visit.fast => ~Has(visit.value, {"nan"})
  BY Zenon DEF DeathsAreKnown
<1>2. ASSUME NEW n \in ReachOf(doc) PROVE Sane(visit.fast, doc[n])
  BY <1>2, Zenon DEF DeathsAreKnown, Some, Reached, ReachOf, Sane
<1>3. ASSUME NEW n \in ReachOf(doc) PROVE n \notin AfterAlike(doc, n) /\ (n \in After(doc, n) => OwnKeyword(doc[n]))
  BY <1>3, Zenon DEF DeathsAreKnown, Reached, ReachOf, After, AfterAlike
<1> QED BY <1>1, <1>2, <1>3

LEMMA InvDeaths == Inv => DeathsAreKnown
<1>1. SUFFICES ASSUME Inv, Visited, Dead(visit.outcome), ~DeathsAreKnown PROVE FALSE
  BY DEF DeathsAreKnown
<1>2. /\ visit.fast \in BOOLEAN /\ visit.value \in Universe /\ visit.mode \in Settings
      /\ visit.outcome \in VisitJSON(visit.fast, doc, Root, visit.value, visit.mode)
  BY <1>1, VisitIsTrue
<1>3. IsDocument(doc)
  BY <1>1 DEF Inv
<1>4. ~Dead(visit.outcome)
  BY <1>1, <1>2, <1>3, NoReasonIs, VisitLives
<1> QED BY <1>1, <1>4

-----------------------------------------------------------------------------
\* What Validate, visitJSON and visitFastJSON leave behind is what the calls
\* of Schema's functions may come to, whatever was visited before.
THEOREM Invariance == Spec => []Inv
BY InitInv, NextInv, PTL DEF Spec

\* visitJSON returns nil exactly if the value conforms to the schema, for every
\* document, value, mode and order of Go's maps: no keyword is skipped and none
\* is applied twice, however the combining keywords nest.
THEOREM VisitsDecide == Spec => []VisitDecides
BY Invariance, InvDecides, PTL

\* visitFastJSON is the same judge of the bodies fastjson read, except where it
\* parts ways for a named reason.
THEOREM FastVisitsDecide == Spec => []FastVisitDecides
BY Invariance, InvFastDecides, PTL

\* The error a visit returns without MultiErrors() is one of those it returns
\* with it: a MultiError loses none on the way up.
THEOREM SingleErrorsAreAmongAll == Spec => []SingleErrorIsAmongAll
BY Invariance, InvAmong, PTL

\* SchemaError.JSONPointer: markSchemaErrorKey and markSchemaErrorIndex put
\* together a path that leads into the value, at every depth of nesting.
THEOREM PointersLeadInside == Spec => []PointersLead
BY Invariance, InvPointers, PTL

\* A visit panics, or never returns, only for the reasons Schema.Validate does
\* not look at.
THEOREM DeathsHaveReasons == Spec => []DeathsAreKnown
BY Invariance, InvDeaths, PTL

\* Schema.Validate, which stops at a schema it is already inside of, accepts a
\* document without oneOf exactly if every schema in reach is well formed.
THEOREM LoadsDecide == Spec => []LoadDecides
BY Invariance, InvLoad, PTL
=============================================================================
