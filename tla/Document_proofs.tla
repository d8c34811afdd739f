---------------------------- MODULE Document_proofs ----------------------------
(***************************************************************************)
(* Proofs about the tree of suffixes and about Document, for all          *)
(* templates, texts, trees, documents, requests and orders.                *)
(*                                                                         *)
(* The tree: what matchRemaining finds, by trying suffix after suffix and  *)
(* coming back, is the first of all nodes that read the text, in the order *)
(* of SuffixList; a node reads a text exactly if the text is of the        *)
(* template that leads to it; and a more specific template leads to a node *)
(* that comes before.                                                      *)
(*                                                                         *)
(* The document: what the loader's proofs say of it holds as long as the   *)
(* process runs, what was accepted can be served, each panic has its       *)
(* cause, and a request finds the most specific of the templates its path  *)
(* is of.                                                                  *)
(***************************************************************************)
EXTENDS Answers, References_proofs

-----------------------------------------------------------------------------
(* Least and greatest numbers, and recursion over the beginnings of a      *)
(* sequence.                                                               *)

LEMMA MinIs ==
  ASSUME NEW S \in SUBSET Nat, S # {}
  PROVE  Min(S) \in S /\ \A k \in S : Min(S) <= k
<1>1. \E m \in S : \A k \in S : m <= k
  BY LeastOne
<1>2. \E x \in S : \A y \in S : x =< y
  BY <1>1
<1>3. Min(S) \in S /\ \A y \in S : Min(S) =< y
  BY <1>2 DEF Min
<1> QED BY <1>3

LEMMA MaxIs ==
  ASSUME NEW n \in Nat, NEW S \in SUBSET (0..n), S # {}
  PROVE  Max(S) \in S /\ \A k \in S : k <= Max(S)
<1> DEFINE T == {n - k : k \in S}
<1>1. T \in SUBSET Nat /\ T # {}
  <2>1. \A k \in S : n - k \in Nat
    OBVIOUS
  <2> QED BY <2>1
<1>2. PICK m \in T : \A k \in T : m <= k
  BY <1>1, LeastOne
<1>3. PICK x \in S : m = n - x
  BY <1>2
<1>4. ASSUME NEW y \in S PROVE x >= y
  BY <1>2, <1>3
<1>5. \E z \in S : \A y \in S : z >= y
  BY <1>4
<1>6. Max(S) \in S /\ \A y \in S : Max(S) >= y
  BY <1>5 DEF Max
<1> QED BY <1>6

\* A recursive definition over 0..n has the function it means.
Iterates(f, n, base, step) ==
    \A k \in 0..n : f[k] = IF k = 0 THEN base ELSE step[<<k, f[k - 1]>>]

LEMMA Recursion ==
  ASSUME NEW n \in Nat, NEW S, NEW base \in S, NEW step \in [(1..n) \X S -> S]
  PROVE  \E f \in [0..n -> S] : Iterates(f, n, base, step)
<1> DEFINE Upto(f, m) == f \in [0..m -> S] /\ \A k \in 0..m : f[k] = IF k = 0 THEN base ELSE step[<<k, f[k - 1]>>]
           T == {m \in 0..n : ~\E f : Upto(f, m)}
<1>1. ASSUME NEW m \in T, \A k \in T : m <= k PROVE FALSE
  <2>1. CASE m = 0
    <3> DEFINE f == [k \in 0..0 |-> base]
    <3>1. Upto(f, 0)
      OBVIOUS
    <3> HIDE DEF f
    <3> QED BY <2>1, <3>1
  <2>2. CASE m # 0
    <3>1. m \in Nat /\ m - 1 \in 0..n /\ ~(m <= m - 1)
      BY <2>2
    <3>2. PICK old : Upto(old, m - 1)
      BY <1>1, <3>1
    <3> DEFINE f == [k \in 0..m |-> IF k = m THEN step[<<m, old[m - 1]>>] ELSE old[k]]
    <3>3. old[m - 1] \in S /\ m \in 1..n
      BY <2>2, <3>1, <3>2
    <3>4. step[<<m, old[m - 1]>>] \in S
      BY <3>3
    <3>5. f \in [0..m -> S]
      <4>1. ASSUME NEW k \in 0..m PROVE (IF k = m THEN step[<<m, old[m - 1]>>] ELSE old[k]) \in S
        <5>1. k # m => k \in 0..(m - 1)
          BY <3>1
        <5> QED BY <3>2, <3>4, <5>1
      <4> QED BY <4>1
    <3>6. ASSUME NEW k \in 0..m PROVE f[k] = IF k = 0 THEN base ELSE step[<<k, f[k - 1]>>]
      <4>1. CASE k = m
        <5>1. f[m - 1] = old[m - 1] /\ f[m] = step[<<m, old[m - 1]>>]
          BY <2>2, <3>1
        <5> QED BY <2>2, <4>1, <5>1
      <4>2. CASE k # m
        <5>1. k \in 0..(m - 1) /\ f[k] = old[k]
          BY <3>1, <4>2
        <5>2. k # 0 => f[k - 1] = old[k - 1]
          BY <3>1, <5>1
        <5> QED BY <3>2, <5>1, <5>2
      <4> QED BY <4>1, <4>2
    <3>7. Upto(f, m)
      BY <3>5, <3>6
    <3> HIDE DEF f
    <3> QED BY <3>7
  <2> QED BY <2>1, <2>2
<1>2. T = {}
  <2> HIDE DEF T
  <2>1. T \in SUBSET Nat
    BY DEF T
  <2> QED BY <1>1, <2>1, LeastOne
<1>3. PICK f : Upto(f, n)
  BY <1>2
<1> QED BY <1>3 DEF Iterates

\* What holds of 0, and of each number after one it holds of.
LEMMA Upwards ==
  ASSUME NEW n \in Nat, NEW T, 0 \in T, \A k \in 1..n : k - 1 \in T => k \in T
  PROVE  \A k \in 0..n : k \in T
<1> DEFINE U == {k \in 0..n : k \notin T}
<1>1. ASSUME NEW m \in U, \A k \in U : m <= k PROVE FALSE
  <2>1. m \in 1..n /\ m - 1 \in 0..n /\ ~(m <= m - 1)
    OBVIOUS
  <2> QED BY <1>1, <2>1
<1>2. U = {}
  <2> HIDE DEF U
  <2>1. U \in SUBSET Nat
    BY DEF U
  <2> QED BY <1>1, <2>1, LeastOne
<1> QED BY <1>2

-----------------------------------------------------------------------------
(* Slashes at the end.                                                      *)

\* q is what is left of p without the slashes at its end.
TrimsTo(p, q) ==
    /\ Len(q) <= Len(p)
    /\ \A k \in 1..Len(q) : q[k] = p[k]
    /\ \A k \in (Len(q) + 1)..Len(p) : p[k] = "/"
    /\ q # <<>> => q[Len(q)] # "/"

LEMMA TrimmedFacts ==
  ASSUME NEW S, NEW p \in Seq(S)
  PROVE  Trimmed(p) \in Seq(S) /\ TrimsTo(p, Trimmed(p))
<1> DEFINE K == {0} \cup {k \in DOMAIN p : p[k] # "/"}
<1>1. Len(p) \in Nat /\ DOMAIN p = 1..Len(p) /\ p \in [1..Len(p) -> S]
  OBVIOUS
<1>2. K \in SUBSET (0..Len(p)) /\ K # {}
  BY <1>1
<1>3. PICK m : m = Max(K)
  OBVIOUS
<1>4. m \in K /\ \A k \in K : k <= m
  <2> HIDE DEF K
  <2> QED BY <1>1, <1>2, <1>3, MaxIs
<1>5. Trimmed(p) = SubSeq(p, 1, m)
  BY <1>3 DEF Trimmed
<1>6. m \in 0..Len(p) /\ (m # 0 => p[m] # "/") /\ \A k \in (m + 1)..Len(p) : p[k] = "/"
  BY <1>1, <1>4
<1>7. PICK q : q = SubSeq(p, 1, m)
  OBVIOUS
<1>8. q \in Seq(S) /\ Len(q) = m /\ \A k \in 1..m : q[k] = p[k]
  BY <1>1, <1>6, <1>7
<1>9. TrimsTo(p, q)
  BY <1>1, <1>6, <1>8 DEF TrimsTo
<1> QED BY <1>5, <1>7, <1>8, <1>9

LEMMA TrimsToOnce ==
  ASSUME NEW S, NEW p \in Seq(S), NEW q \in Seq(S), NEW r \in Seq(S), TrimsTo(p, q), TrimsTo(p, r)
  PROVE  q = r
<1>1. ASSUME NEW x \in Seq(S), NEW y \in Seq(S), TrimsTo(p, x), TrimsTo(p, y), Len(x) < Len(y) PROVE FALSE
  <2>1. Len(x) \in Nat /\ Len(y) \in Nat /\ Len(p) \in Nat
    OBVIOUS
  <2>2. y # <<>> /\ Len(y) \in (Len(x) + 1)..Len(p) /\ Len(y) \in 1..Len(y)
    BY <1>1, <2>1 DEF TrimsTo
  <2> QED BY <1>1, <2>2 DEF TrimsTo
<1>2. Len(q) = Len(r)
  BY <1>1
<1> QED BY <1>2 DEF TrimsTo

LEMMA TrimmedIs ==
  ASSUME NEW S, NEW p \in Seq(S), NEW q \in Seq(S), TrimsTo(p, q)
  PROVE  Trimmed(p) = q
<1> QED BY TrimmedFacts, TrimsToOnce

-----------------------------------------------------------------------------
(* The suffixes of a template.                                              *)

AllSuffixes == {Constant(s) : s \in Seq(Tokens) \ {<<>>}} \cup {Variable, Everything}

\* A token that is part of a longer constant.
Plain(token) == token \in Tokens /\ token # "/" /\ token \notin Variables

LEMMA SuffixKinds ==
  ASSUME NEW x \in AllSuffixes
  PROVE  \/ /\ x.kind = "constant" /\ x.pattern \in Seq(Tokens) /\ x.pattern # <<>> /\ x = Constant(x.pattern)
         \/ x = Variable /\ x.kind = "variable" /\ x.pattern = <<>>
         \/ x = Everything /\ x.kind = "everything" /\ x.pattern = <<>>
<1> QED BY DEF AllSuffixes, Constant, Variable, Everything

LEMMA TokensAre ==
  Wildcards \subseteq Variables /\ Variables \subseteq Tokens /\ "/" \in Tokens /\ "/" \notin Variables
<1> QED BY RouterAssumption

LEMMA SlashIs ==
  /\ Slash \in AllSuffixes /\ Slash.kind = "constant" /\ Slash.pattern = <<"/">> /\ Len(Slash.pattern) = 1
  /\ Variable \in AllSuffixes /\ Everything \in AllSuffixes
<1>1. <<"/">> \in Seq(Tokens) \ {<<>>}
  BY TokensAre
<1>2. Constant(<<"/">>) \in AllSuffixes
  BY <1>1 DEF AllSuffixes
<1>3. Variable \in AllSuffixes /\ Everything \in AllSuffixes
  BY DEF AllSuffixes
<1> QED BY <1>2, <1>3 DEF Slash, Constant

\* The constant that a plain token goes on with, and the one it begins.
LEMMA WithIs ==
  ASSUME NEW m \in Seq(AllSuffixes), NEW token \in Tokens
  PROVE  /\ token = "/" => With(m, token) = Append(m, Slash)
         /\ token \in Wildcards => With(m, token) = Append(m, Everything)
         /\ token \in Variables /\ token \notin Wildcards => With(m, token) = Append(m, Variable)
         /\ Plain(token) /\ ~Open(m) => With(m, token) = Append(m, Constant(<<token>>))
         /\ Plain(token) /\ Open(m) =>
               With(m, token) = Append(Front(m), Constant(Append(Last(m).pattern, token)))
<1>1. CASE token = "/"
  BY <1>1, TokensAre DEF With, Plain
<1>2. CASE token \in Wildcards
  BY <1>2, TokensAre DEF With, Plain
<1>3. CASE token \in Variables /\ token \notin Wildcards
  BY <1>3, TokensAre DEF With, Plain
<1>4. CASE Plain(token)
  BY <1>4, TokensAre DEF With, Plain
<1> QED BY <1>1, <1>2, <1>3, <1>4 DEF Plain

LEMMA OpenIs ==
  ASSUME NEW m \in Seq(AllSuffixes), Open(m)
  PROVE  \E f \in Seq(AllSuffixes), s \in Seq(Tokens) :
            /\ s # <<>> /\ s # <<"/">> /\ m = Append(f, Constant(s))
            /\ Front(m) = f /\ Last(m) = Constant(s) /\ Last(m).pattern = s
<1>1. m # <<>> /\ Last(m).kind = "constant" /\ Last(m) # Slash /\ Len(m) \in Nat \ {0}
  BY DEF Open
<1>2. PICK f, x : f = SubSeq(m, 1, Len(m) - 1) /\ x = m[Len(m)]
  OBVIOUS
<1>3. f \in Seq(AllSuffixes) /\ x \in AllSuffixes /\ m = Append(f, x)
  BY <1>1, <1>2
<1>4. Front(m) = f /\ Last(m) = x
  BY <1>2 DEF Front, Last
<1>5. x.pattern \in Seq(Tokens) /\ x.pattern # <<>> /\ x = Constant(x.pattern)
  BY <1>1, <1>3, <1>4, SuffixKinds
<1>6. x.pattern # <<"/">>
  BY <1>1, <1>4, <1>5 DEF Slash
<1> QED BY <1>3, <1>4, <1>5, <1>6

LEMMA WithType ==
  ASSUME NEW m \in Seq(AllSuffixes), NEW token \in Tokens
  PROVE  With(m, token) \in Seq(AllSuffixes)
<1>1. CASE token = "/" \/ token \in Variables
  <2>1. With(m, token) \in {Append(m, Slash), Append(m, Everything), Append(m, Variable)}
    BY <1>1, WithIs
  <2> QED BY <2>1, SlashIs
<1>2. CASE Plain(token) /\ ~Open(m)
  <2>1. <<token>> \in Seq(Tokens) \ {<<>>}
    OBVIOUS
  <2>2. Constant(<<token>>) \in AllSuffixes
    BY <2>1 DEF AllSuffixes
  <2> QED BY <1>2, <2>2, WithIs
<1>3. CASE Plain(token) /\ Open(m)
  <2>1. PICK f \in Seq(AllSuffixes), s \in Seq(Tokens) : Front(m) = f /\ Last(m).pattern = s
    BY <1>3, OpenIs
  <2>2. Append(s, token) \in Seq(Tokens) \ {<<>>}
    OBVIOUS
  <2>3. Constant(Append(s, token)) \in AllSuffixes
    BY <2>2 DEF AllSuffixes
  <2>4. With(m, token) = Append(f, Constant(Append(s, token)))
    BY <1>3, <2>1, WithIs
  <2> QED BY <2>3, <2>4
<1> QED BY <1>1, <1>2, <1>3 DEF Plain

ParsedBy(path, upto) ==
    /\ upto \in [0..Len(path) -> Seq(AllSuffixes)]
    /\ \A k \in 0..Len(path) : upto[k] = IF k = 0 THEN <<>> ELSE With(upto[k - 1], path[k])

LEMMA ParsedIs ==
  ASSUME NEW path \in Seq(Tokens)
  PROVE  ParsedBy(path, Parsed(path))
<1> DEFINE F(u) == [k \in 0..Len(path) |-> IF k = 0 THEN <<>> ELSE With(u[k - 1], path[k])]
           step == [z \in (1..Len(path)) \X Seq(AllSuffixes) |-> With(z[2], path[z[1]])]
<1>1. step \in [(1..Len(path)) \X Seq(AllSuffixes) -> Seq(AllSuffixes)]
  <2>1. ASSUME NEW z \in (1..Len(path)) \X Seq(AllSuffixes) PROVE With(z[2], path[z[1]]) \in Seq(AllSuffixes)
    <3>1. z[2] \in Seq(AllSuffixes) /\ path[z[1]] \in Tokens
      OBVIOUS
    <3> QED BY <3>1, WithType
  <2> QED BY <2>1
<1>2. Len(path) \in Nat /\ <<>> \in Seq(AllSuffixes)
  OBVIOUS
<1>3. PICK g \in [0..Len(path) -> Seq(AllSuffixes)] : Iterates(g, Len(path), <<>>, step)
  <2>1. PICK n, S, b : n = Len(path) /\ S = Seq(AllSuffixes) /\ b = <<>>
    OBVIOUS
  <2>2. PICK f : f = step
    OBVIOUS
  <2>3. n \in Nat /\ b \in S /\ f \in [(1..n) \X S -> S]
    BY <1>1, <1>2, <2>1, <2>2
  <2>4. \E g \in [0..n -> S] : Iterates(g, n, b, f)
    BY <2>3, Recursion
  <2> HIDE DEF step
  <2> QED BY <2>1, <2>2, <2>4
<1>4. ParsedBy(path, g)
  <2>1. ASSUME NEW k \in 0..Len(path), k # 0 PROVE step[<<k, g[k - 1]>>] = With(g[k - 1], path[k])
    <3>1. k \in 1..Len(path) /\ g[k - 1] \in Seq(AllSuffixes)
      BY <2>1
    <3> QED BY <3>1
  <2> QED BY <1>3, <2>1 DEF ParsedBy, Iterates
<1>5. g = F(g)
  BY <1>4 DEF ParsedBy
<1>6. Parsed(path) = CHOOSE u : u = F(u)
  BY Zenon DEF Parsed
<1>7. Parsed(path) = F(Parsed(path))
  <2> HIDE DEF F
  <2> QED BY <1>5, <1>6
<1>8. PICK u : u = Parsed(path)
  OBVIOUS
<1>9. u = F(u)
  BY <1>7, <1>8
<1>10. \A k \in 0..Len(path) : u[k] = IF k = 0 THEN <<>> ELSE With(u[k - 1], path[k])
  BY <1>9
<1>11. DOMAIN u = 0..Len(path)
  BY <1>9
<1>12. \A k \in 0..Len(path) : u[k] \in Seq(AllSuffixes)
  <2> DEFINE T == {k \in 0..Len(path) : u[k] \in Seq(AllSuffixes)}
  <2>1. 0 \in T
    <3>1. u[0] = <<>>
      BY <1>2, <1>10
    <3> QED BY <1>2, <3>1
  <2>2. ASSUME NEW k \in 1..Len(path), k - 1 \in T PROVE k \in T
    <3>1. k \in 0..Len(path) /\ k # 0 /\ path[k] \in Tokens /\ u[k - 1] \in Seq(AllSuffixes)
      BY <2>2
    <3>2. u[k] = With(u[k - 1], path[k])
      BY <1>10, <3>1
    <3>3. u[k] \in Seq(AllSuffixes)
      BY <3>1, <3>2, WithType
    <3> QED BY <3>1, <3>3
  <2> HIDE DEF T
  <2>3. \A k \in 0..Len(path) : k \in T
    BY <1>2, <2>1, <2>2, Upwards
  <2> QED BY <2>3 DEF T
<1>13. u \in [0..Len(path) -> Seq(AllSuffixes)]
  <2>1. u = [k \in 0..Len(path) |-> u[k]]
    BY <1>9, <1>11
  <2> QED BY <1>12, <2>1
<1> QED BY <1>8, <1>10, <1>13 DEF ParsedBy

-----------------------------------------------------------------------------
(* What a suffix takes of a text.                                           *)

\* e is where the segment that goes on at a place ends.
EndsSegment(text, at, e) ==
    /\ e \in at..Len(text)
    /\ \A j \in (at + 1)..e : text[j] # "/"
    /\ e < Len(text) => text[e + 1] = "/"

LEMMA SegmentFacts ==
  ASSUME NEW t \in Seq(Tokens), NEW a \in 0..Len(t)
  PROVE  EndsSegment(t, a, SegmentEnd(t, a))
<1> DEFINE J == {j \in (a + 1)..Len(t) : t[j] = "/"}
           K == {Len(t)} \cup {k - 1 : k \in J}
<1>1. Len(t) \in Nat /\ a \in Nat
  OBVIOUS
<1>2. K \in SUBSET Nat /\ K # {}
  BY <1>1
<1>3. PICK m : m = Min(K)
  OBVIOUS
<1>4. m \in K /\ \A k \in K : m <= k
  <2> HIDE DEF K
  <2> QED BY <1>2, <1>3, MinIs
<1>5. m \in a..Len(t) /\ (m < Len(t) => t[m + 1] = "/")
  BY <1>1, <1>4
<1>6. ASSUME NEW j \in (a + 1)..m, t[j] = "/" PROVE FALSE
  <2>1. j - 1 \in K /\ ~(m <= j - 1)
    BY <1>1, <1>5, <1>6
  <2> QED BY <1>4, <2>1
<1>7. SegmentEnd(t, a) = m
  BY <1>3 DEF SegmentEnd
<1> QED BY <1>5, <1>6, <1>7 DEF EndsSegment

LEMMA SegmentIs ==
  ASSUME NEW t \in Seq(Tokens), NEW a \in 0..Len(t), NEW e, EndsSegment(t, a, e)
  PROVE  SegmentEnd(t, a) = e
<1>1. PICK s : s = SegmentEnd(t, a)
  OBVIOUS
<1>2. EndsSegment(t, a, s)
  BY <1>1, SegmentFacts
<1>3. s \in a..Len(t) /\ e \in a..Len(t) /\ Len(t) \in Nat /\ a \in Nat
  BY <1>2 DEF EndsSegment
<1>4. CASE s < e
  <2>1. s + 1 \in (a + 1)..e /\ s < Len(t)
    BY <1>3, <1>4
  <2> QED BY <1>2, <2>1 DEF EndsSegment
<1>5. CASE e < s
  <2>1. e + 1 \in (a + 1)..s /\ e < Len(t)
    BY <1>3, <1>5
  <2> QED BY <1>2, <2>1 DEF EndsSegment
<1> QED BY <1>1, <1>3, <1>4, <1>5

\* The text goes on with s.
GoesOn(t, a, s) == a + Len(s) <= Len(t) /\ \A j \in 1..Len(s) : t[a + j] = s[j]

LEMMA GoesOnIs ==
  ASSUME NEW t \in Seq(Tokens), NEW a \in 0..Len(t), NEW s \in Seq(Tokens), s # <<>>, a + Len(s) <= Len(t)
  PROVE  SubSeq(t, a + 1, a + Len(s)) = s <=> GoesOn(t, a, s)
<1>1. PICK u : u = SubSeq(t, a + 1, a + Len(s))
  OBVIOUS
<1>2. Len(s) \in Nat \ {0} /\ a \in Nat /\ Len(t) \in Nat
  OBVIOUS
<1>3. Len(u) = Len(s) /\ u \in Seq(Tokens) /\ \A j \in 1..Len(s) : u[j] = t[a + j]
  BY <1>1, <1>2
<1>4. u = s <=> \A j \in 1..Len(s) : u[j] = s[j]
  BY <1>3
<1> QED BY <1>1, <1>3, <1>4 DEF GoesOn

LEMMA EndsIs ==
  ASSUME NEW x \in AllSuffixes, NEW t \in Seq(Tokens), NEW a \in 0..Len(t)
  PROVE  /\ x.kind = "everything" => Ends(x, t, a) = {Len(t)}
         /\ x.kind = "variable" => Ends(x, t, a) = {SegmentEnd(t, a)}
         /\ x.kind = "constant" =>
              \/ GoesOn(t, a, x.pattern) /\ Ends(x, t, a) = {a + Len(x.pattern)}
              \/ ~GoesOn(t, a, x.pattern) /\ a = Len(t) /\ x = Slash /\ Ends(x, t, a) = {a}
              \/ ~GoesOn(t, a, x.pattern) /\ ~(a = Len(t) /\ x = Slash) /\ Ends(x, t, a) = {}
<1>1. x.kind = "everything" => Ends(x, t, a) = {Len(t)}
  BY DEF Ends
<1>2. x.kind = "variable" => Ends(x, t, a) = {SegmentEnd(t, a)}
  BY DEF Ends
<1>3. ASSUME x.kind = "constant"
      PROVE  \/ GoesOn(t, a, x.pattern) /\ Ends(x, t, a) = {a + Len(x.pattern)}
             \/ ~GoesOn(t, a, x.pattern) /\ a = Len(t) /\ x = Slash /\ Ends(x, t, a) = {a}
             \/ ~GoesOn(t, a, x.pattern) /\ ~(a = Len(t) /\ x = Slash) /\ Ends(x, t, a) = {}
  <2>1. x.pattern \in Seq(Tokens) /\ x.pattern # <<>>
    BY <1>3, SuffixKinds
  <2>2. PICK s : s = x.pattern
    OBVIOUS
  <2>3. Ends(x, t, a) = IF a + Len(s) <= Len(t) /\ SubSeq(t, a + 1, a + Len(s)) = s THEN {a + Len(s)}
                        ELSE IF a = Len(t) /\ x = Slash THEN {a} ELSE {}
    BY <1>3, <2>2 DEF Ends
  <2>4. (a + Len(s) <= Len(t) /\ SubSeq(t, a + 1, a + Len(s)) = s) <=> GoesOn(t, a, s)
    <3>1. CASE a + Len(s) <= Len(t)
      BY <2>1, <2>2, <3>1, GoesOnIs
    <3>2. CASE ~(a + Len(s) <= Len(t))
      BY <3>2 DEF GoesOn
    <3> QED BY <3>1, <3>2
  <2> QED BY <2>2, <2>3, <2>4
<1> QED BY <1>1, <1>2, <1>3

LEMMA OneEnd ==
  ASSUME NEW x \in AllSuffixes, NEW t \in Seq(Tokens), NEW a \in 0..Len(t), NEW b, b \in Ends(x, t, a)
  PROVE  b \in a..Len(t) /\ b \in 0..Len(t) /\ Ends(x, t, a) = {b}
<1>1. CASE x.kind = "everything"
  BY <1>1, EndsIs
<1>2. CASE x.kind = "variable"
  BY <1>2, EndsIs, SegmentFacts DEF EndsSegment
<1>3. CASE x.kind = "constant"
  <2>1. x.pattern \in Seq(Tokens)
    BY <1>3, SuffixKinds
  <2>2. Len(x.pattern) \in Nat /\ Len(t) \in Nat
    BY <2>1
  <2>3. PICK E : E = Ends(x, t, a)
    OBVIOUS
  <2>4. (GoesOn(t, a, x.pattern) /\ E = {a + Len(x.pattern)}) \/ (a = Len(t) /\ E = {a})
    BY <1>3, <2>3, EndsIs
  <2> QED BY <2>2, <2>3, <2>4 DEF GoesOn
<1>4. x.kind \in {"constant", "variable", "everything"}
  BY SuffixKinds
<1> QED BY <1>1, <1>2, <1>3, <1>4

LEMMA TakenType ==
  ASSUME NEW x \in AllSuffixes, NEW t \in Seq(Tokens), NEW a \in 0..Len(t), NEW b \in 0..Len(t)
  PROVE  Taken(x, t, a, b) \in Seq(Seq(Tokens))
<1>1. SubSeq(t, a + 1, b) \in Seq(Tokens)
  OBVIOUS
<1> QED BY <1>1 DEF Taken

-----------------------------------------------------------------------------
(* Reading a text along the suffixes of a node: where each leaves off and  *)
(* the values up to there.  Nothing is read after an "everything".         *)

Captures == Seq(Seq(Tokens))

Reading(m, t, at, w) ==
    /\ at \in [0..Len(m) -> 0..Len(t)] /\ w \in [0..Len(m) -> Captures]
    /\ at[0] = 0 /\ w[0] = <<>>
    /\ \A k \in 1..Len(m) :
          /\ at[k] \in Ends(m[k], t, at[k - 1])
          /\ w[k] = w[k - 1] \o Taken(m[k], t, at[k - 1], at[k])
          /\ k > 1 => m[k - 1].kind # "everything"

Leads(m, t, a, v) == \E at, w : Reading(m, t, at, w) /\ at[Len(m)] = a /\ w[Len(m)] = v

LEMMA LeadsType ==
  ASSUME NEW m \in Seq(AllSuffixes), NEW t \in Seq(Tokens), NEW a, NEW v, Leads(m, t, a, v)
  PROVE  a \in 0..Len(t) /\ v \in Captures
<1>1. PICK at, w : Reading(m, t, at, w) /\ at[Len(m)] = a /\ w[Len(m)] = v
  BY DEF Leads
<1>2. Len(m) \in 0..Len(m)
  OBVIOUS
<1> QED BY <1>1, <1>2 DEF Reading

LEMMA LeadsEmpty ==
  ASSUME NEW t \in Seq(Tokens), NEW a, NEW v
  PROVE  Leads(<<>>, t, a, v) <=> a = 0 /\ v = <<>>
<1>1. ASSUME Leads(<<>>, t, a, v) PROVE a = 0 /\ v = <<>>
  BY <1>1 DEF Leads, Reading
<1>2. ASSUME a = 0, v = <<>> PROVE Leads(<<>>, t, a, v)
  <2>1. PICK at, w : at = [k \in 0..0 |-> 0] /\ w = [k \in 0..0 |-> <<>>]
    OBVIOUS
  <2>2. at \in [0..0 -> 0..Len(t)] /\ w \in [0..0 -> Captures] /\ at[0] = 0 /\ w[0] = <<>>
    BY <2>1 DEF Captures
  <2>3. Reading(<<>>, t, at, w)
    BY <2>2 DEF Reading
  <2> QED BY <1>2, <2>2, <2>3 DEF Leads
<1> QED BY <1>1, <1>2

LEMMA ReadingAgrees ==
  ASSUME NEW m \in Seq(AllSuffixes), NEW t \in Seq(Tokens), NEW at, NEW w, NEW at2, NEW w2,
         Reading(m, t, at, w), Reading(m, t, at2, w2)
  PROVE  \A k \in 0..Len(m) : at[k] = at2[k] /\ w[k] = w2[k]
<1> DEFINE T == {k \in 0..Len(m) : at[k] = at2[k] /\ w[k] = w2[k]}
<1>1. 0 \in T /\ Len(m) \in Nat
  BY DEF Reading
<1>2. ASSUME NEW k \in 1..Len(m), k - 1 \in T PROVE k \in T
  <2>1. k \in 0..Len(m) /\ k - 1 \in 0..Len(m) /\ m[k] \in AllSuffixes
    OBVIOUS
  <2>2. at[k - 1] \in 0..Len(t) /\ at2[k - 1] = at[k - 1] /\ w2[k - 1] = w[k - 1]
    BY <1>2, <2>1 DEF Reading
  <2>3. at[k] \in Ends(m[k], t, at[k - 1]) /\ at2[k] \in Ends(m[k], t, at[k - 1])
    BY <2>2 DEF Reading
  <2>4. at[k] = at2[k]
    BY <2>1, <2>2, <2>3, OneEnd
  <2>5. w[k] = w2[k]
    BY <2>2, <2>4 DEF Reading
  <2> QED BY <2>1, <2>4, <2>5
<1> HIDE DEF T
<1>3. \A k \in 0..Len(m) : k \in T
  BY <1>1, <1>2, Upwards
<1> QED BY <1>3 DEF T

LEMMA LeadsOnce ==
  ASSUME NEW m \in Seq(AllSuffixes), NEW t \in Seq(Tokens), NEW a, NEW v, NEW b, NEW u,
         Leads(m, t, a, v), Leads(m, t, b, u)
  PROVE  a = b /\ v = u
<1>1. PICK at, w : Reading(m, t, at, w) /\ at[Len(m)] = a /\ w[Len(m)] = v
  BY DEF Leads
<1>2. PICK at2, w2 : Reading(m, t, at2, w2) /\ at2[Len(m)] = b /\ w2[Len(m)] = u
  BY DEF Leads
<1>3. Len(m) \in 0..Len(m)
  OBVIOUS
<1> QED BY <1>1, <1>2, <1>3, ReadingAgrees

\* What has a reading begins with what has one.
LEMMA LeadsPrefix ==
  ASSUME NEW m \in Seq(AllSuffixes), NEW t \in Seq(Tokens), NEW a, NEW v, Leads(m, t, a, v),
         NEW n \in Seq(AllSuffixes), Len(n) <= Len(m), \A k \in 1..Len(n) : n[k] = m[k]
  PROVE  /\ \E b, u : Leads(n, t, b, u)
         /\ Len(n) < Len(m) /\ n # <<>> => Last(n).kind # "everything"
<1>1. PICK at, w : Reading(m, t, at, w)
  BY DEF Leads
<1>2. PICK L : L = Len(n)
  OBVIOUS
<1>3. L \in 0..Len(m) /\ L \in Nat /\ Len(m) \in Nat
  BY <1>2
<1>4. PICK at2, w2 : at2 = [k \in 0..L |-> at[k]] /\ w2 = [k \in 0..L |-> w[k]]
  OBVIOUS
<1>5. \A k \in 0..L : k \in 0..Len(m) /\ at2[k] = at[k] /\ w2[k] = w[k]
  BY <1>3, <1>4
<1>6. at2 \in [0..L -> 0..Len(t)] /\ w2 \in [0..L -> Captures] /\ at2[0] = 0 /\ w2[0] = <<>>
  <2>1. \A k \in 0..L : at[k] \in 0..Len(t) /\ w[k] \in Captures
    BY <1>1, <1>5 DEF Reading
  <2>2. at2 \in [0..L -> 0..Len(t)] /\ w2 \in [0..L -> Captures]
    BY <1>4, <2>1
  <2>3. 0 \in 0..L
    BY <1>3
  <2> QED BY <1>1, <1>5, <2>2, <2>3 DEF Reading
<1>7. ASSUME NEW k \in 1..L
      PROVE  /\ at2[k] \in Ends(n[k], t, at2[k - 1])
             /\ w2[k] = w2[k - 1] \o Taken(n[k], t, at2[k - 1], at2[k])
             /\ k > 1 => n[k - 1].kind # "everything"
  <2>1. k \in 1..Len(m) /\ k \in 0..L /\ k - 1 \in 0..L /\ n[k] = m[k] /\ (k > 1 => n[k - 1] = m[k - 1])
    BY <1>2, <1>3
  <2> QED BY <1>1, <1>5, <2>1 DEF Reading
<1>8. Reading(n, t, at2, w2)
  BY <1>2, <1>6, <1>7 DEF Reading
<1>9. Leads(n, t, at2[L], w2[L])
  BY <1>2, <1>8 DEF Leads
<1>10. ASSUME L < Len(m), n # <<>> PROVE Last(n).kind # "everything"
  <2>1. L + 1 \in 1..Len(m) /\ L + 1 > 1 /\ L \in 1..L /\ (L + 1) - 1 = L
    BY <1>2, <1>3, <1>10
  <2>2. m[L].kind # "everything"
    BY <1>1, <2>1 DEF Reading
  <2> QED BY <1>2, <2>1, <2>2 DEF Last
<1> QED BY <1>2, <1>9, <1>10

\* A node is read if the one above it is, and then its last suffix.
LEMMA LeadsAppend ==
  ASSUME NEW m \in Seq(AllSuffixes), NEW x \in AllSuffixes, NEW t \in Seq(Tokens), NEW b, NEW u
  PROVE  Leads(Append(m, x), t, b, u) <=>
            /\ m # <<>> => Last(m).kind # "everything"
            /\ \E a, v : Leads(m, t, a, v) /\ b \in Ends(x, t, a) /\ u = v \o Taken(x, t, a, b)
<1>1. PICK L, n : L = Len(m) /\ n = Append(m, x)
  OBVIOUS
<1>2. /\ L \in Nat /\ n \in Seq(AllSuffixes) /\ Len(n) = L + 1 /\ n[L + 1] = x
      /\ \A k \in 1..L : n[k] = m[k]
  BY <1>1
<1>3. ASSUME Leads(n, t, b, u)
      PROVE  /\ m # <<>> => Last(m).kind # "everything"
             /\ \E a, v : Leads(m, t, a, v) /\ b \in Ends(x, t, a) /\ u = v \o Taken(x, t, a, b)
  <2>1. PICK at, w : Reading(n, t, at, w) /\ at[Len(n)] = b /\ w[Len(n)] = u
    BY <1>3 DEF Leads
  <2>2. (m # <<>> => Last(m).kind # "everything") /\ \E a, v : Leads(m, t, a, v)
    <3>1. Len(m) <= Len(n) /\ Len(m) < Len(n) /\ \A k \in 1..Len(m) : m[k] = n[k]
      BY <1>1, <1>2
    <3> QED BY <1>2, <1>3, <3>1, LeadsPrefix
  <2>3. PICK at2, w2 : at2 = [k \in 0..L |-> at[k]] /\ w2 = [k \in 0..L |-> w[k]]
    OBVIOUS
  <2>4. \A k \in 0..L : k \in 0..Len(n) /\ at2[k] = at[k] /\ w2[k] = w[k]
    BY <1>2, <2>3
  <2>5. Leads(m, t, at[L], w[L])
    <3>1. \A k \in 0..L : at[k] \in 0..Len(t) /\ w[k] \in Captures
      BY <2>1, <2>4 DEF Reading
    <3>2. at2 \in [0..L -> 0..Len(t)] /\ w2 \in [0..L -> Captures] /\ 0 \in 0..L /\ L \in 0..L
      BY <1>2, <2>3, <3>1
    <3>3. at2[0] = 0 /\ w2[0] = <<>>
      BY <2>1, <2>4, <3>2 DEF Reading
    <3>4. ASSUME NEW k \in 1..L
          PROVE  /\ at2[k] \in Ends(m[k], t, at2[k - 1])
                 /\ w2[k] = w2[k - 1] \o Taken(m[k], t, at2[k - 1], at2[k])
                 /\ k > 1 => m[k - 1].kind # "everything"
      <4>1. k \in 1..Len(n) /\ k \in 0..L /\ k - 1 \in 0..L /\ n[k] = m[k] /\ (k > 1 => n[k - 1] = m[k - 1])
        BY <1>2
      <4> QED BY <2>1, <2>4, <4>1 DEF Reading
    <3>5. Reading(m, t, at2, w2)
      BY <1>1, <3>2, <3>3, <3>4 DEF Reading
    <3> QED BY <1>1, <2>4, <3>2, <3>5 DEF Leads
  <2>6. b \in Ends(x, t, at[L]) /\ u = w[L] \o Taken(x, t, at[L], b)
    <3>1. L + 1 \in 1..Len(n) /\ (L + 1) - 1 = L
      BY <1>2
    <3> QED BY <1>2, <2>1, <3>1 DEF Reading
  <2> QED BY <2>2, <2>5, <2>6
<1>4. ASSUME m # <<>> => Last(m).kind # "everything",
             NEW a, NEW v, Leads(m, t, a, v), b \in Ends(x, t, a), u = v \o Taken(x, t, a, b)
      PROVE  Leads(n, t, b, u)
  <2>1. PICK at, w : Reading(m, t, at, w) /\ at[L] = a /\ w[L] = v
    BY <1>1, <1>4 DEF Leads
  <2>2. a \in 0..Len(t) /\ v \in Captures
    BY <1>4, LeadsType
  <2>3. b \in 0..Len(t)
    BY <1>4, <2>2, OneEnd
  <2>4. u \in Captures
    BY <1>4, <2>2, <2>3, TakenType DEF Captures
  <2>5. PICK at2, w2 : /\ at2 = [k \in 0..(L + 1) |-> IF k = L + 1 THEN b ELSE at[k]]
                       /\ w2 = [k \in 0..(L + 1) |-> IF k = L + 1 THEN u ELSE w[k]]
    OBVIOUS
  <2>6. \A k \in 0..L : at2[k] = at[k] /\ w2[k] = w[k] /\ at[k] \in 0..Len(t) /\ w[k] \in Captures
    <3>1. \A k \in 0..L : k \in 0..(L + 1) /\ k # L + 1
      BY <1>2
    <3>2. \A k \in 0..L : at2[k] = at[k] /\ w2[k] = w[k]
      BY <2>5, <3>1
    <3>3. \A k \in 0..L : at[k] \in 0..Len(t) /\ w[k] \in Captures
      BY <1>1, <2>1 DEF Reading
    <3> QED BY <3>2, <3>3
  <2>7. at2[L + 1] = b /\ w2[L + 1] = u
    BY <1>2, <2>5
  <2>8. at2 \in [0..(L + 1) -> 0..Len(t)] /\ w2 \in [0..(L + 1) -> Captures]
    <3>1. ASSUME NEW k \in 0..(L + 1) PROVE at2[k] \in 0..Len(t) /\ w2[k] \in Captures
      <4>1. k = L + 1 \/ k \in 0..L
        BY <1>2
      <4> QED BY <2>3, <2>4, <2>6, <2>7, <4>1
    <3> QED BY <2>5, <3>1
  <2>9. ASSUME NEW k \in 1..(L + 1)
        PROVE  /\ at2[k] \in Ends(n[k], t, at2[k - 1])
               /\ w2[k] = w2[k - 1] \o Taken(n[k], t, at2[k - 1], at2[k])
               /\ k > 1 => n[k - 1].kind # "everything"
    <3>1. CASE k = L + 1
      <4>1. k - 1 = L /\ L \in 0..L /\ n[k] = x
        BY <1>2, <3>1
      <4>2. k > 1 => m # <<>> /\ n[k - 1] = Last(m)
        BY <1>1, <1>2, <4>1 DEF Last
      <4> QED BY <1>4, <2>1, <2>6, <2>7, <3>1, <4>1, <4>2
    <3>2. CASE k # L + 1
      <4>1. k \in 1..L /\ k \in 0..L /\ k - 1 \in 0..L /\ n[k] = m[k] /\ (k > 1 => n[k - 1] = m[k - 1])
        BY <1>2, <3>2
      <4> QED BY <1>1, <2>1, <2>6, <4>1 DEF Reading
    <3> QED BY <3>1, <3>2
  <2>10. at2[0] = 0 /\ w2[0] = <<>>
    BY <1>2, <2>1, <2>6 DEF Reading
  <2>11. Reading(n, t, at2, w2)
    BY <1>2, <2>8, <2>9, <2>10 DEF Reading
  <2> QED BY <1>2, <2>7, <2>11 DEF Leads
<1> QED BY <1>1, <1>3, <1>4

-----------------------------------------------------------------------------
(* The recursion of matchRemaining: there is one function that does as     *)
(* each call does with what the calls for the nodes below it return.       *)

\* With every node a tree has those that lead to it; it has a depth.
IsTree(tr) ==
    /\ DOMAIN tr \subseteq Seq(AllSuffixes) /\ <<>> \in DOMAIN tr
    /\ \A n \in DOMAIN tr : \A k \in 0..Len(n) : SubSeq(n, 1, k) \in DOMAIN tr
    /\ \E N \in Nat : \A n \in DOMAIN tr : Len(n) <= N

Matching(tr, t, found, node, at) ==
    {x \in SuffixesAt(tr, node) : Under(tr, found, node, x, t, at) # {}}
OneCall(tr, t, found, node, at) ==
    IF at = Len(t) /\ tr[node].value # None THEN {[node |-> node, values |-> <<>>]}
    ELSE UNION {Under(tr, found, node, x, t, at) :
                x \in {y \in Matching(tr, t, found, node, at) :
                          ~\E z \in Matching(tr, t, found, node, at) : Less(z, y)}}
AllCalls(tr, t, found) == [node \in DOMAIN tr |-> [at \in 0..Len(t) |-> OneCall(tr, t, found, node, at)]]

LEMMA AllCallsIs ==
  ASSUME NEW tr, NEW t, NEW found, NEW node \in DOMAIN tr, NEW at \in 0..Len(t)
  PROVE  AllCalls(tr, t, found)[node][at] = OneCall(tr, t, found, node, at)
<1> QED BY DEF AllCalls

LEMMA MatchIs ==
  ASSUME NEW tr, NEW t
  PROVE  MatchRemaining(tr, t) = CHOOSE f : f = AllCalls(tr, t, f)
<1> QED BY Zenon DEF MatchRemaining, AllCalls, OneCall, Matching

\* What is found below, with what a suffix takes in front.
Ahead(taken, S) == {[node |-> r.node, values |-> taken \o r.values] : r \in S}

FoundAt(tr, found, node, x, b) ==
    IF x.kind # "everything" THEN found[Append(node, x)][b]
    ELSE IF tr[Append(node, x)].value = None THEN {}
    ELSE {[node |-> Append(node, x), values |-> <<>>]}

LEMMA UnderNone ==
  ASSUME NEW tr, NEW found, NEW node, NEW x, NEW t, NEW a, Ends(x, t, a) = {}
  PROVE  Under(tr, found, node, x, t, a) = {}
<1> QED BY DEF Under

LEMMA UnderEnd ==
  ASSUME NEW tr, NEW found, NEW node, NEW x \in AllSuffixes, NEW t \in Seq(Tokens), NEW a \in 0..Len(t),
         NEW b, b \in Ends(x, t, a)
  PROVE  Under(tr, found, node, x, t, a) = Ahead(Taken(x, t, a, b), FoundAt(tr, found, node, x, b))
<1>1. Under(tr, found, node, x, t, a) =
         Ahead(Taken(x, t, a, Min(Ends(x, t, a))),
               UNION {FoundAt(tr, found, node, x, end) : end \in Ends(x, t, a)})
  BY DEF Under, Ahead, FoundAt
<1>2. Ends(x, t, a) = {b} /\ b \in Nat
  BY OneEnd
<1>3. Min({b}) = b
  <2>1. PICK B : B = {b}
    OBVIOUS
  <2>2. Min(B) \in B
    BY <1>2, <2>1, MinIs
  <2> QED BY <2>1, <2>2
<1>4. UNION {FoundAt(tr, found, node, x, end) : end \in {b}} = FoundAt(tr, found, node, x, b)
  OBVIOUS
<1> QED BY <1>1, <1>2, <1>3, <1>4

LEMMA SuffixesAtIs ==
  ASSUME NEW tr, IsTree(tr), NEW node \in DOMAIN tr, NEW x
  PROVE  x \in SuffixesAt(tr, node) <=> x \in AllSuffixes /\ Append(node, x) \in DOMAIN tr
<1>1. node \in Seq(AllSuffixes) /\ DOMAIN tr \subseteq Seq(AllSuffixes)
  BY DEF IsTree
<1>2. ASSUME NEW m \in DOMAIN tr, m # <<>>, Front(m) = node
      PROVE  Last(m) \in AllSuffixes /\ m = Append(node, Last(m))
  <2>1. m \in Seq(AllSuffixes) /\ Len(m) \in Nat /\ Len(m) # 0
    BY <1>1, <1>2
  <2>2. m[Len(m)] \in AllSuffixes /\ m = Append(SubSeq(m, 1, Len(m) - 1), m[Len(m)])
    BY <2>1
  <2> QED BY <1>2, <2>2 DEF Front, Last
<1>3. ASSUME x \in AllSuffixes
      PROVE  Append(node, x) # <<>> /\ Front(Append(node, x)) = node /\ Last(Append(node, x)) = x
  <2>1. PICK m : m = Append(node, x)
    OBVIOUS
  <2>2. Len(m) = Len(node) + 1 /\ m[Len(m)] = x /\ SubSeq(m, 1, Len(m) - 1) = node /\ m # <<>>
    BY <1>1, <1>3, <2>1
  <2> QED BY <2>1, <2>2 DEF Front, Last
<1> QED BY <1>2, <1>3 DEF SuffixesAt

\* A call does the same with what does the same for the nodes below.
LEMMA SameBelow ==
  ASSUME NEW tr, IsTree(tr), NEW t \in Seq(Tokens), NEW node \in DOMAIN tr, NEW a \in 0..Len(t), NEW f, NEW g,
         \A c \in DOMAIN tr : Len(c) = Len(node) + 1 => \A b \in 0..Len(t) : f[c][b] = g[c][b]
  PROVE  OneCall(tr, t, f, node, a) = OneCall(tr, t, g, node, a)
<1>1. ASSUME NEW x \in SuffixesAt(tr, node)
      PROVE  Under(tr, f, node, x, t, a) = Under(tr, g, node, x, t, a)
  <2>1. x \in AllSuffixes /\ Append(node, x) \in DOMAIN tr /\ node \in Seq(AllSuffixes)
    BY <1>1, SuffixesAtIs DEF IsTree
  <2>2. Len(Append(node, x)) = Len(node) + 1
    BY <2>1
  <2>3. CASE Ends(x, t, a) = {}
    <3>1. Under(tr, f, node, x, t, a) = {}
      BY <2>3, UnderNone
    <3>2. Under(tr, g, node, x, t, a) = {}
      BY <2>3, UnderNone
    <3> QED BY <3>1, <3>2
  <2>4. ASSUME NEW b \in Ends(x, t, a) PROVE Under(tr, f, node, x, t, a) = Under(tr, g, node, x, t, a)
    <3>1. b \in 0..Len(t)
      BY <2>1, <2>4, OneEnd
    <3>2. f[Append(node, x)][b] = g[Append(node, x)][b]
      BY <2>1, <2>2, <3>1
    <3>3. FoundAt(tr, f, node, x, b) = FoundAt(tr, g, node, x, b)
      BY <3>2 DEF FoundAt
    <3>4. Under(tr, f, node, x, t, a) = Ahead(Taken(x, t, a, b), FoundAt(tr, f, node, x, b))
      BY <2>1, <2>4, UnderEnd
    <3>5. Under(tr, g, node, x, t, a) = Ahead(Taken(x, t, a, b), FoundAt(tr, g, node, x, b))
      BY <2>1, <2>4, UnderEnd
    <3> QED BY <3>3, <3>4, <3>5
  <2> QED BY <2>3, <2>4
<1>2. Matching(tr, t, f, node, a) = Matching(tr, t, g, node, a)
  BY <1>1 DEF Matching
<1>3. PICK M : M = {y \in Matching(tr, t, g, node, a) : ~\E z \in Matching(tr, t, g, node, a) : Less(z, y)}
  OBVIOUS
<1>4. \A x \in M : x \in SuffixesAt(tr, node)
  BY <1>3 DEF Matching
<1>5. UNION {Under(tr, f, node, x, t, a) : x \in M} = UNION {Under(tr, g, node, x, t, a) : x \in M}
  BY <1>1, <1>4
<1> QED BY <1>2, <1>3, <1>5 DEF OneCall

\* From the deepest nodes up, there is a function that is right about each.
LEMMA FoundExists ==
  ASSUME NEW tr, IsTree(tr), NEW t \in Seq(Tokens)
  PROVE  \E f : f = AllCalls(tr, t, f)
<1>1. PICK N \in Nat : \A n \in DOMAIN tr : Len(n) <= N
  BY DEF IsTree
<1>2. \A n \in DOMAIN tr : Len(n) \in Nat
  BY DEF IsTree
<1> DEFINE Right(g, node) == \A a \in 0..Len(t) : g[node][a] = OneCall(tr, t, g, node, a)
           T == {j \in 0..(N + 1) : \E g : \A node \in DOMAIN tr : Len(node) >= (N + 1) - j => Right(g, node)}
<1>3. 0 \in T
  <2>1. \A node \in DOMAIN tr : ~(Len(node) >= (N + 1) - 0)
    BY <1>1, <1>2
  <2> HIDE DEF Right
  <2>2. \A node \in DOMAIN tr : Len(node) >= (N + 1) - 0 => Right(tr, node)
    BY <2>1
  <2> QED BY <2>2
<1>4. ASSUME NEW j \in 1..(N + 1), j - 1 \in T PROVE j \in T
  <2>1. PICK g : \A node \in DOMAIN tr : Len(node) >= (N + 1) - (j - 1) => Right(g, node)
    BY <1>4
  <2>2. PICK h : h = AllCalls(tr, t, g)
    OBVIOUS
  <2>3. \A node \in DOMAIN tr : \A a \in 0..Len(t) : h[node][a] = OneCall(tr, t, g, node, a)
    BY <2>2, AllCallsIs
  <2>4. ASSUME NEW node \in DOMAIN tr, Len(node) >= (N + 1) - j PROVE Right(h, node)
    <3>1. ASSUME NEW c \in DOMAIN tr, Len(c) = Len(node) + 1 PROVE \A b \in 0..Len(t) : h[c][b] = g[c][b]
      <4>1. Len(c) >= (N + 1) - (j - 1)
        BY <1>2, <2>4, <3>1
      <4>2. Right(g, c)
        BY <2>1, <4>1
      <4> QED BY <2>3, <4>2
    <3>2. \A a \in 0..Len(t) : OneCall(tr, t, h, node, a) = OneCall(tr, t, g, node, a)
      BY <3>1, SameBelow
    <3> QED BY <2>3, <3>2
  <2> HIDE DEF Right
  <2>5. \E k : \A node \in DOMAIN tr : Len(node) >= (N + 1) - j => Right(k, node)
    BY <2>4
  <2> QED BY <2>5
<1>5. N + 1 \in T
  <2>1. \A k \in 0..(N + 1) : k \in T
    <3> HIDE DEF T
    <3>1. N + 1 \in Nat
      BY <1>1
    <3>2. \A j \in 1..(N + 1) : j - 1 \in T => j \in T
      BY <1>4
    <3> QED BY <1>3, <3>1, <3>2, Upwards
  <2>2. N + 1 \in 0..(N + 1)
    BY <1>1
  <2> HIDE DEF T
  <2> QED BY <2>1, <2>2
<1>6. PICK g : \A node \in DOMAIN tr : Right(g, node)
  <2>1. PICK g : \A node \in DOMAIN tr : Len(node) >= (N + 1) - (N + 1) => Right(g, node)
    BY <1>5
  <2>2. \A node \in DOMAIN tr : Len(node) >= (N + 1) - (N + 1)
    BY <1>2
  <2> HIDE DEF Right
  <2> QED BY <2>1, <2>2
<1>7. PICK h : h = AllCalls(tr, t, g)
  OBVIOUS
<1>8. \A node \in DOMAIN tr : \A a \in 0..Len(t) : h[node][a] = g[node][a]
  BY <1>6, <1>7, AllCallsIs
<1>9. \A node \in DOMAIN tr : \A a \in 0..Len(t) : OneCall(tr, t, h, node, a) = OneCall(tr, t, g, node, a)
  BY <1>8, SameBelow
<1>10. AllCalls(tr, t, g) = AllCalls(tr, t, h)
  BY <1>9 DEF AllCalls
<1> QED BY <1>7, <1>10

LEMMA FoundIs ==
  ASSUME NEW tr, IsTree(tr), NEW t \in Seq(Tokens), NEW node \in DOMAIN tr, NEW a \in 0..Len(t)
  PROVE  MatchRemaining(tr, t)[node][a] = OneCall(tr, t, MatchRemaining(tr, t), node, a)
<1>1. PICK g : g = AllCalls(tr, t, g)
  BY FoundExists
<1>2. PICK f : f = MatchRemaining(tr, t)
  OBVIOUS
<1>3. f = CHOOSE h : h = AllCalls(tr, t, h)
  BY <1>2, MatchIs
<1>4. f = AllCalls(tr, t, f)
  BY <1>1, <1>3
<1>5. f[node][a] = AllCalls(tr, t, f)[node][a]
  BY <1>4
<1> QED BY <1>2, <1>5, AllCallsIs

-----------------------------------------------------------------------------
(* The order in which the suffixes are tried.                               *)

RankOf(x) == IF x.kind = "constant" THEN 1 ELSE IF x.kind = "variable" THEN 2 ELSE 3

LEMMA LessIs ==
  ASSUME NEW x \in AllSuffixes, NEW y \in AllSuffixes
  PROVE  /\ RankOf(x) \in 1..3 /\ RankOf(y) \in 1..3
         /\ Less(x, y) <=> \/ RankOf(x) < RankOf(y)
                           \/ RankOf(x) = RankOf(y) /\ Len(x.pattern) > Len(y.pattern)
<1>1. PICK order : order = <<"constant", "variable", "everything">>
  OBVIOUS
<1>2. ASSUME NEW z \in AllSuffixes
      PROVE  (CHOOSE k \in DOMAIN order : order[k] = z.kind) = RankOf(z)
  <2>1. z.kind \in {"constant", "variable", "everything"}
    BY SuffixKinds
  <2>2. DOMAIN order = 1..3 /\ order[1] = "constant" /\ order[2] = "variable" /\ order[3] = "everything"
    BY <1>1
  <2>3. RankOf(z) \in 1..3 /\ order[RankOf(z)] = z.kind /\ \A k \in 1..3 : order[k] = z.kind => k = RankOf(z)
    BY <2>1, <2>2 DEF RankOf
  <2> QED BY <2>2, <2>3
<1>3. Less(x, y) <=> LET rank(suffix) == CHOOSE k \in DOMAIN order : order[k] = suffix.kind
                     IN  \/ rank(x) < rank(y)
                         \/ rank(x) = rank(y) /\ Len(x.pattern) > Len(y.pattern)
  BY <1>1 DEF Less
<1>4. RankOf(x) \in 1..3 /\ RankOf(y) \in 1..3
  BY DEF RankOf
<1>5. Less(x, y) <=> \/ RankOf(x) < RankOf(y)
                     \/ RankOf(x) = RankOf(y) /\ Len(x.pattern) > Len(y.pattern)
  <2>1. PICK a, b : /\ a = (CHOOSE k \in DOMAIN order : order[k] = x.kind)
                    /\ b = (CHOOSE k \in DOMAIN order : order[k] = y.kind)
    OBVIOUS
  <2>2. a = RankOf(x) /\ b = RankOf(y)
    BY <1>2, <2>1
  <2>3. Less(x, y) <=> a < b \/ (a = b /\ Len(x.pattern) > Len(y.pattern))
    BY <1>3, <2>1
  <2> QED BY <2>2, <2>3
<1> QED BY <1>4, <1>5

\* What comes first among the suffixes that match: the smaller, the earlier.
KeyOf(t, x) ==
    IF x.kind = "constant" THEN (Len(t) + 1) - Len(x.pattern)
    ELSE IF x.kind = "variable" THEN Len(t) + 2 ELSE Len(t) + 3

LEMMA KeyIs ==
  ASSUME NEW t \in Seq(Tokens), NEW a \in 0..Len(t), NEW x \in AllSuffixes, NEW y \in AllSuffixes,
         Ends(x, t, a) # {}, Ends(y, t, a) # {}
  PROVE  /\ KeyOf(t, x) \in Nat /\ KeyOf(t, y) \in Nat
         /\ Less(x, y) <=> KeyOf(t, x) < KeyOf(t, y)
         /\ KeyOf(t, x) = KeyOf(t, y) => x = y
<1>1. ASSUME NEW z \in AllSuffixes, Ends(z, t, a) # {}, z.kind = "constant"
      PROVE  /\ z.pattern \in Seq(Tokens) /\ z = Constant(z.pattern) /\ Len(z.pattern) \in 1..(Len(t) + 1)
             /\ GoesOn(t, a, z.pattern) \/ (a = Len(t) /\ z = Slash /\ Len(z.pattern) = 1)
  <2>1. z.pattern \in Seq(Tokens) /\ z.pattern # <<>> /\ z = Constant(z.pattern)
    BY <1>1, SuffixKinds
  <2>2. GoesOn(t, a, z.pattern) \/ (a = Len(t) /\ z = Slash)
    BY <1>1, EndsIs
  <2>3. Len(z.pattern) \in Nat /\ Len(z.pattern) # 0
    BY <2>1
  <2>4. z = Slash => Len(z.pattern) = 1
    BY SlashIs
  <2>5. GoesOn(t, a, z.pattern) => Len(z.pattern) <= Len(t)
    BY <2>3 DEF GoesOn
  <2>6. PICK n, L : n = Len(z.pattern) /\ L = Len(t)
    OBVIOUS
  <2>7. n \in Nat /\ n # 0 /\ L \in Nat /\ (n <= L \/ n = 1)
    <3>1. L \in Nat
      BY <2>6
    <3>2. n \in Nat /\ n # 0
      BY <2>3, <2>6
    <3>3. CASE GoesOn(t, a, z.pattern)
      BY <2>5, <2>6, <3>1, <3>2, <3>3
    <3>4. CASE z = Slash
      BY <2>4, <2>6, <3>1, <3>2, <3>4
    <3> QED BY <2>2, <3>3, <3>4
  <2>8. Len(z.pattern) \in 1..(Len(t) + 1)
    <3>1. n \in 1..(L + 1)
      BY <2>7
    <3> QED BY <3>1, <2>6
  <2> QED BY <2>1, <2>2, <2>4, <2>8
<1>2. ASSUME x.kind = "constant", y.kind = "constant", Len(x.pattern) = Len(y.pattern) PROVE x = y
  <2>1. /\ x.pattern \in Seq(Tokens) /\ x = Constant(x.pattern) /\ Len(x.pattern) \in 1..(Len(t) + 1)
        /\ GoesOn(t, a, x.pattern) \/ (a = Len(t) /\ x = Slash /\ Len(x.pattern) = 1)
    BY <1>1, <1>2
  <2>2. /\ y.pattern \in Seq(Tokens) /\ y = Constant(y.pattern) /\ Len(y.pattern) \in 1..(Len(t) + 1)
        /\ GoesOn(t, a, y.pattern) \/ (a = Len(t) /\ y = Slash /\ Len(y.pattern) = 1)
    BY <1>1, <1>2
  <2>3. PICK p, q : p = x.pattern /\ q = y.pattern
    OBVIOUS
  <2>4. CASE GoesOn(t, a, p) /\ GoesOn(t, a, q)
    <3>1. \A j \in 1..Len(p) : p[j] = q[j]
      BY <1>2, <2>3, <2>4 DEF GoesOn
    <3>2. p = q
      <4>1. p \in Seq(Tokens) /\ q \in Seq(Tokens) /\ Len(p) = Len(q)
        BY ONLY <1>2, <2>1, <2>2, <2>3
      <4> QED BY ONLY <3>1, <4>1
    <3> QED BY <2>1, <2>2, <2>3, <3>2
  <2>5. CASE ~(GoesOn(t, a, p) /\ GoesOn(t, a, q))
    <3>1. a = Len(t) /\ Len(p) = 1 /\ Len(q) = 1
      BY <1>2, <2>1, <2>2, <2>3, <2>5
    <3>2. ~GoesOn(t, a, p) /\ ~GoesOn(t, a, q)
      BY <3>1 DEF GoesOn
    <3> QED BY <2>1, <2>2, <2>3, <3>2
  <2> QED BY <2>4, <2>5
<1>3. /\ x.kind = "constant" => Len(x.pattern) \in 1..(Len(t) + 1)
      /\ y.kind = "constant" => Len(y.pattern) \in 1..(Len(t) + 1)
  BY <1>1
<1>4. /\ x.kind \in {"constant", "variable", "everything"} /\ y.kind \in {"constant", "variable", "everything"}
      /\ x.kind = "variable" => x = Variable /\ Len(x.pattern) = 0
      /\ y.kind = "variable" => y = Variable /\ Len(y.pattern) = 0
      /\ x.kind = "everything" => x = Everything /\ Len(x.pattern) = 0
      /\ y.kind = "everything" => y = Everything /\ Len(y.pattern) = 0
  BY SuffixKinds
<1>5. PICK A, B, L : A = Len(x.pattern) /\ B = Len(y.pattern) /\ L = Len(t)
  OBVIOUS
<1>6. L \in Nat /\ (x.kind = "constant" => A \in 1..(L + 1)) /\ (y.kind = "constant" => B \in 1..(L + 1))
  BY <1>3, <1>5
<1>7. KeyOf(t, x) \in Nat /\ KeyOf(t, y) \in Nat
  BY <1>4, <1>5, <1>6 DEF KeyOf
<1>8. Less(x, y) <=> RankOf(x) < RankOf(y) \/ (RankOf(x) = RankOf(y) /\ A > B)
  BY <1>5, LessIs
<1>9. Less(x, y) <=> KeyOf(t, x) < KeyOf(t, y)
  <2>1. PICK K, J, R, S : K = KeyOf(t, x) /\ J = KeyOf(t, y) /\ R = RankOf(x) /\ S = RankOf(y)
    OBVIOUS
  <2>2. \/ x.kind = "constant" /\ K = (L + 1) - A /\ R = 1 /\ A \in 1..(L + 1)
        \/ x.kind = "variable" /\ K = L + 2 /\ R = 2 /\ A = 0
        \/ x.kind = "everything" /\ K = L + 3 /\ R = 3 /\ A = 0
    BY <1>4, <1>5, <1>6, <2>1 DEF KeyOf, RankOf
  <2>3. \/ y.kind = "constant" /\ J = (L + 1) - B /\ S = 1 /\ B \in 1..(L + 1)
        \/ y.kind = "variable" /\ J = L + 2 /\ S = 2 /\ B = 0
        \/ y.kind = "everything" /\ J = L + 3 /\ S = 3 /\ B = 0
    BY <1>4, <1>5, <1>6, <2>1 DEF KeyOf, RankOf
  <2>4. R < S \/ (R = S /\ A > B) <=> K < J
    BY <1>6, <2>2, <2>3
  <2> QED BY <1>8, <2>1, <2>4
<1>10. KeyOf(t, x) = KeyOf(t, y) => x = y
  <2>1. SUFFICES ASSUME KeyOf(t, x) = KeyOf(t, y) PROVE x = y
    OBVIOUS
  <2>2. PICK K : K = KeyOf(t, x) /\ K = KeyOf(t, y)
    BY <2>1
  <2>3. \/ x.kind = "constant" /\ K = (L + 1) - A /\ A \in 1..(L + 1)
        \/ x.kind = "variable" /\ K = L + 2
        \/ x.kind = "everything" /\ K = L + 3
    BY <1>4, <1>5, <1>6, <2>2 DEF KeyOf
  <2>4. \/ y.kind = "constant" /\ K = (L + 1) - B /\ B \in 1..(L + 1)
        \/ y.kind = "variable" /\ K = L + 2
        \/ y.kind = "everything" /\ K = L + 3
    BY <1>4, <1>5, <1>6, <2>2 DEF KeyOf
  <2>5. x.kind = y.kind /\ (x.kind = "constant" => A = B)
    BY <1>6, <2>3, <2>4
  <2> QED BY <1>2, <1>4, <1>5, <2>5
<1> QED BY <1>7, <1>9, <1>10

\* Of suffixes that match at a place, one comes before all others.
First(M, x) == {y \in M : ~\E z \in M : Less(z, y)} = {x} /\ \A y \in M \ {x} : Less(x, y)

LEMMA FirstMatching ==
  ASSUME NEW t \in Seq(Tokens), NEW a \in 0..Len(t), NEW M \in SUBSET AllSuffixes, M # {},
         \A x \in M : Ends(x, t, a) # {}
  PROVE  \E x \in M : First(M, x)
<1>1. {KeyOf(t, x) : x \in M} \in SUBSET Nat /\ {KeyOf(t, x) : x \in M} # {}
  BY KeyIs
<1>2. PICK k \in {KeyOf(t, x) : x \in M} : \A j \in {KeyOf(t, x) : x \in M} : k <= j
  BY <1>1, LeastOne
<1>3. PICK x \in M : k = KeyOf(t, x)
  BY <1>2
<1>4. ASSUME NEW y \in M, y # x PROVE Less(x, y) /\ ~Less(y, x)
  <2>1. KeyOf(t, x) <= KeyOf(t, y)
    BY <1>2, <1>3
  <2>2. /\ KeyOf(t, x) \in Nat /\ KeyOf(t, y) \in Nat /\ KeyOf(t, x) # KeyOf(t, y)
        /\ Less(x, y) <=> KeyOf(t, x) < KeyOf(t, y)
    BY <1>4, KeyIs
  <2>3. Less(y, x) <=> KeyOf(t, y) < KeyOf(t, x)
    BY KeyIs
  <2> QED BY <2>1, <2>2, <2>3
<1>5. ~Less(x, x)
  <2>1. KeyOf(t, x) \in Nat /\ (Less(x, x) <=> KeyOf(t, x) < KeyOf(t, x))
    BY KeyIs
  <2> QED BY <2>1
<1> QED BY <1>4, <1>5 DEF First

-----------------------------------------------------------------------------
(* What matchRemaining finds below a node is the first, in the order of    *)
(* the suffixes, of all nodes below it that have a value and read the text.*)

Starts(n, r) == Len(n) <= Len(r) /\ \A k \in 1..Len(n) : r[k] = n[k]

\* The nodes from n on that read the whole text.
Candidates(tr, t, n) ==
    {r \in DOMAIN tr : Starts(n, r) /\ tr[r].value # None /\ \E u : Leads(r, t, Len(t), u)}

\* r is tried before q: q goes on where r ends, or after what comes later.
Differ(r, q, k) == /\ \A j \in 1..(k - 1) : j <= Len(r) /\ r[j] = q[j]
                   /\ Len(r) = k - 1 \/ (k <= Len(r) /\ Less(r[k], q[k]))
Precedes(r, q) == \E k \in 1..Len(q) : Differ(r, q, k)

\* S has the first of the candidates from n on, with the values after v.
Best(tr, t, n, v, S) ==
    /\ S = {} => Candidates(tr, t, n) = {}
    /\ S # {} => \E r \in Candidates(tr, t, n), u \in Captures :
                    /\ S = {[node |-> r, values |-> u]}
                    /\ Leads(r, t, Len(t), v \o u)
                    /\ \A q \in Candidates(tr, t, n) : q # r => Precedes(r, q)

LEMMA StartsOn ==
  ASSUME NEW tr, IsTree(tr), NEW n \in DOMAIN tr, NEW r \in DOMAIN tr, Starts(n, r), r # n
  PROVE  /\ Len(n) + 1 \in 1..Len(r) /\ r[Len(n) + 1] \in AllSuffixes
         /\ Append(n, r[Len(n) + 1]) \in DOMAIN tr /\ Starts(Append(n, r[Len(n) + 1]), r)
<1>1. n \in Seq(AllSuffixes) /\ r \in Seq(AllSuffixes) /\ \A k \in 0..Len(r) : SubSeq(r, 1, k) \in DOMAIN tr
  BY DEF IsTree
<1>2. PICK L, R : L = Len(n) /\ R = Len(r)
  OBVIOUS
<1>3. L \in Nat /\ R \in Nat /\ L <= R /\ \A k \in 1..L : r[k] = n[k]
  BY <1>1, <1>2 DEF Starts
<1>4. L # R
  <2>1. SUFFICES ASSUME L = R PROVE FALSE
    OBVIOUS
  <2>2. Len(n) = Len(r) /\ \A k \in 1..Len(n) : n[k] = r[k]
    BY <1>2, <1>3, <2>1
  <2>3. n = r
    BY <1>1, <2>2
  <2> QED BY <2>3
<1>5. L + 1 \in 1..R
  BY <1>3, <1>4
<1>6. PICK x : x = r[L + 1]
  OBVIOUS
<1>7. x \in AllSuffixes
  BY <1>1, <1>2, <1>5, <1>6
<1>8. PICK c : c = Append(n, x)
  OBVIOUS
<1>9. c \in Seq(AllSuffixes) /\ Len(c) = L + 1 /\ c[L + 1] = x /\ \A k \in 1..L : c[k] = n[k]
  BY <1>1, <1>2, <1>7, <1>8
<1>10. \A k \in 1..(L + 1) : c[k] = r[k]
  <2>1. \A k \in 1..(L + 1) : k = L + 1 \/ k \in 1..L
    BY <1>3
  <2> QED BY <1>3, <1>6, <1>9, <2>1
<1>11. c = SubSeq(r, 1, L + 1)
  <2>1. PICK s : s = SubSeq(r, 1, L + 1)
    OBVIOUS
  <2>2. s \in Seq(AllSuffixes) /\ Len(s) = L + 1 /\ \A k \in 1..(L + 1) : s[k] = r[k]
    BY <1>1, <1>2, <1>5, <2>1
  <2> QED BY <1>9, <1>10, <2>1, <2>2
<1>12. c \in DOMAIN tr
  <2>1. L + 1 \in 0..Len(r)
    BY <1>2, <1>5
  <2> QED BY <1>1, <1>11, <2>1
<1>13. Starts(c, r)
  BY <1>2, <1>5, <1>9, <1>10 DEF Starts
<1> QED BY <1>2, <1>5, <1>6, <1>7, <1>8, <1>12, <1>13

LEMMA StartsBack ==
  ASSUME NEW n \in Seq(AllSuffixes), NEW x \in AllSuffixes, NEW r \in Seq(AllSuffixes), Starts(Append(n, x), r)
  PROVE  Starts(n, r) /\ Len(n) + 1 \in 1..Len(r) /\ r[Len(n) + 1] = x
<1>1. PICK L, R, c : L = Len(n) /\ R = Len(r) /\ c = Append(n, x)
  OBVIOUS
<1>2. L \in Nat /\ R \in Nat /\ Len(c) = L + 1 /\ c[L + 1] = x /\ \A k \in 1..L : c[k] = n[k]
  BY <1>1
<1>3. L + 1 <= R /\ \A k \in 1..(L + 1) : r[k] = c[k]
  BY <1>1, <1>2 DEF Starts
<1>4. L + 1 \in 1..(L + 1) /\ \A k \in 1..L : k \in 1..(L + 1)
  BY <1>2
<1>5. L <= R /\ L + 1 \in 1..R
  BY <1>2, <1>3
<1> QED BY <1>1, <1>2, <1>3, <1>4, <1>5 DEF Starts

LEMMA ConcatFacts ==
  ASSUME NEW u \in Captures, NEW v \in Captures
  PROVE  u \o v \in Captures /\ u \o <<>> = u /\ <<>> \o u = u /\ <<>> \in Captures
<1> QED BY DEF Captures

LEMMA ConcatOn ==
  ASSUME NEW u \in Captures, NEW v \in Captures, NEW w \in Captures,
         NEW p, p = u \o v, NEW p2, p2 = v \o w
  PROVE  p \o w = u \o p2
<1>1. PICK a, b, c : a = Len(u) /\ b = Len(v) /\ c = Len(w)
  OBVIOUS
<1>2. a \in Nat /\ b \in Nat /\ c \in Nat
  BY <1>1 DEF Captures
<1>3. PICK q, q2 : q = p \o w /\ q2 = u \o p2
  OBVIOUS
<1>4. p \in Captures /\ q \in Captures /\ p2 \in Captures /\ q2 \in Captures
  BY <1>3 DEF Captures
<1>5. /\ Len(p) = a + b /\ Len(q) = (a + b) + c /\ Len(p2) = b + c /\ Len(q2) = a + (b + c)
  BY <1>1, <1>3, <1>4 DEF Captures
<1>6. ASSUME NEW k \in 1..Len(q) PROVE q[k] = q2[k]
  BY <1>1, <1>2, <1>3, <1>4, <1>5, <1>6 DEF Captures
<1>7. q = q2
  BY <1>2, <1>4, <1>5, <1>6 DEF Captures
<1> QED BY <1>3, <1>7

LEMMA AheadIs ==
  ASSUME NEW taken, NEW r, NEW u
  PROVE  /\ Ahead(taken, {}) = {}
         /\ Ahead(taken, {[node |-> r, values |-> u]}) = {[node |-> r, values |-> taken \o u]}
<1> QED BY DEF Ahead

\* Below a suffix that leads on, what is found is the best of what is there.
LEMMA BestUnder ==
  ASSUME NEW tr, IsTree(tr), NEW t \in Seq(Tokens), NEW F, NEW n \in DOMAIN tr, NEW a, NEW v, Leads(n, t, a, v),
         n # <<>> => Last(n).kind # "everything",
         NEW x \in AllSuffixes, Append(n, x) \in DOMAIN tr,
         x.kind # "everything" =>
            \A b, w : Leads(Append(n, x), t, b, w) => Best(tr, t, Append(n, x), w, F[Append(n, x)][b])
  PROVE  Best(tr, t, Append(n, x), v, Under(tr, F, n, x, t, a))
<1>1. PICK c : c = Append(n, x)
  OBVIOUS
<1>2. n \in Seq(AllSuffixes) /\ c \in Seq(AllSuffixes) /\ a \in 0..Len(t) /\ v \in Captures /\ DOMAIN tr \subseteq Seq(AllSuffixes)
  BY <1>1, LeadsType DEF IsTree
<1>3. ASSUME NEW r \in Candidates(tr, t, c)
      PROVE  /\ Ends(x, t, a) # {}
             /\ x.kind = "everything" => r = c
  <2>1. PICK u : Leads(r, t, Len(t), u) /\ Starts(c, r) /\ r \in Seq(AllSuffixes)
    BY <1>2 DEF Candidates
  <2>2. Len(c) <= Len(r) /\ \A k \in 1..Len(c) : c[k] = r[k]
    BY <2>1 DEF Starts
  <2>3. /\ \E b, w : Leads(c, t, b, w)
        /\ Len(c) < Len(r) /\ c # <<>> => Last(c).kind # "everything"
    BY <1>2, <2>1, <2>2, LeadsPrefix
  <2>4. PICK b, w : Leads(c, t, b, w)
    BY <2>3
  <2>5. PICK a2, v2 : Leads(n, t, a2, v2) /\ b \in Ends(x, t, a2)
    BY <1>1, <1>2, <2>4, LeadsAppend
  <2>6. a2 = a
    BY <1>2, <2>5, LeadsOnce
  <2>7. c # <<>> /\ Last(c) = x
    BY <1>1, <1>2 DEF Last
  <2>8. ASSUME x.kind = "everything" PROVE r = c
    <3>1. ~(Len(c) < Len(r)) /\ Len(c) \in Nat /\ Len(r) \in Nat
      BY <1>2, <2>1, <2>3, <2>7, <2>8
    <3>2. Len(c) = Len(r) /\ \A k \in 1..Len(c) : c[k] = r[k]
      BY <2>2, <3>1
    <3>3. c \in Seq(AllSuffixes) /\ r \in Seq(AllSuffixes)
      BY <1>2, <2>1
    <3> QED BY <3>2, <3>3
  <2> QED BY <2>5, <2>6, <2>8
<1>4. CASE Ends(x, t, a) = {}
  <2>1. Under(tr, F, n, x, t, a) = {}
    BY <1>4, UnderNone
  <2>2. Candidates(tr, t, c) = {}
    BY <1>3, <1>4
  <2> QED BY <1>1, <2>1, <2>2 DEF Best
<1>5. CASE Ends(x, t, a) # {}
  <2>1. PICK b : b \in Ends(x, t, a)
    BY <1>5
  <2>2. PICK taken, w : taken = Taken(x, t, a, b) /\ w = v \o taken
    OBVIOUS
  <2>3. b \in 0..Len(t) /\ taken \in Captures
    BY <1>2, <2>1, <2>2, OneEnd, TakenType DEF Captures
  <2>4. Leads(c, t, b, w)
    BY <1>1, <1>2, <2>1, <2>2, LeadsAppend
  <2>5. PICK G : G = FoundAt(tr, F, n, x, b)
    OBVIOUS
  <2>6. Under(tr, F, n, x, t, a) = Ahead(taken, G)
    BY <1>2, <2>1, <2>2, <2>5, UnderEnd
  <2>7. Best(tr, t, c, w, G)
    <3>1. CASE x.kind # "everything"
      <4>1. G = F[c][b]
        BY <1>1, <2>5, <3>1 DEF FoundAt
      <4> QED BY <1>1, <2>4, <3>1, <4>1
    <3>2. CASE x.kind = "everything"
      <4>1. b = Len(t)
        BY <1>2, <2>1, <3>2, EndsIs
      <4>2. CASE tr[c].value = None
        <5>1. G = {} /\ c \notin Candidates(tr, t, c)
          BY <1>1, <2>5, <3>2, <4>2 DEF FoundAt, Candidates
        <5>2. Candidates(tr, t, c) = {}
          BY <1>3, <3>2, <5>1
        <5> QED BY <5>1, <5>2 DEF Best
      <4>3. CASE tr[c].value # None
        <5>1. G = {[node |-> c, values |-> <<>>]}
          BY <1>1, <2>5, <3>2, <4>3 DEF FoundAt
        <5>2. c \in Candidates(tr, t, c)
          <6>1. Starts(c, c)
            BY <1>2 DEF Starts
          <6> QED BY <1>1, <2>4, <4>1, <4>3, <6>1 DEF Candidates
        <5>3. w \in Captures
          BY <1>2, <2>4, LeadsType
        <5>4. <<>> \in Captures /\ w \o <<>> = w
          BY <5>3, ConcatFacts
        <5>5. \A q \in Candidates(tr, t, c) : q # c => Precedes(c, q)
          BY <1>3, <3>2
        <5>6. Leads(c, t, Len(t), w \o <<>>)
          BY <2>4, <4>1, <5>4
        <5> QED BY <5>1, <5>2, <5>4, <5>5, <5>6 DEF Best
      <4> QED BY <4>2, <4>3
    <3> QED BY <3>1, <3>2
  <2>8. CASE G = {}
    <3>1. Ahead(taken, G) = {}
      BY <2>8, AheadIs
    <3> QED BY <1>1, <2>6, <2>7, <2>8, <3>1 DEF Best
  <2>9. CASE G # {}
    <3>1. PICK r \in Candidates(tr, t, c), u \in Captures :
             /\ G = {[node |-> r, values |-> u]}
             /\ Leads(r, t, Len(t), w \o u)
             /\ \A q \in Candidates(tr, t, c) : q # r => Precedes(r, q)
      BY <2>7, <2>9 DEF Best
    <3>2. Ahead(taken, G) = {[node |-> r, values |-> taken \o u]}
      BY <3>1, AheadIs
    <3>3. taken \o u \in Captures /\ w \o u = v \o (taken \o u)
      <4>1. v \in Captures /\ taken \in Captures /\ u \in Captures
        BY <1>2, <2>3
      <4>2. PICK p2 : p2 = taken \o u
        OBVIOUS
      <4>3. w \o u = v \o p2
        BY <2>2, <4>1, <4>2, ConcatOn
      <4>4. p2 \in Captures
        BY <4>1, <4>2, ConcatFacts
      <4> QED BY <4>2, <4>3, <4>4
    <3>4. Leads(r, t, Len(t), v \o (taken \o u))
      BY <3>1, <3>3
    <3>5. Best(tr, t, c, v, Ahead(taken, G))
      <4>1. PICK u2, H : u2 = taken \o u /\ H = Ahead(taken, G)
        OBVIOUS
      <4>2. H = {[node |-> r, values |-> u2]} /\ u2 \in Captures /\ Leads(r, t, Len(t), v \o u2)
        BY <3>2, <3>3, <3>4, <4>1
      <4>3. Best(tr, t, c, v, H)
        BY <3>1, <4>2 DEF Best
      <4> QED BY <4>1, <4>3
    <3> QED BY <1>1, <2>6, <3>5
  <2> QED BY <2>8, <2>9
<1> QED BY <1>4, <1>5

\* At a node, of what is found below it, the best.
LEMMA BestHere ==
  ASSUME NEW tr, IsTree(tr), NEW t \in Seq(Tokens), NEW F, NEW n \in DOMAIN tr, NEW a, NEW v, Leads(n, t, a, v),
         n # <<>> => Last(n).kind # "everything",
         F[n][a] = OneCall(tr, t, F, n, a),
         \A x \in AllSuffixes : Append(n, x) \in DOMAIN tr /\ x.kind # "everything" =>
            \A b, w : Leads(Append(n, x), t, b, w) => Best(tr, t, Append(n, x), w, F[Append(n, x)][b])
  PROVE  Best(tr, t, n, v, F[n][a])
<1>1. n \in Seq(AllSuffixes) /\ a \in 0..Len(t) /\ v \in Captures /\ DOMAIN tr \subseteq Seq(AllSuffixes) /\ Len(t) \in Nat
  BY LeadsType DEF IsTree
<1>2. CASE a = Len(t) /\ tr[n].value # None
  <2>1. F[n][a] = {[node |-> n, values |-> <<>>]}
    BY <1>2 DEF OneCall
  <2>2. Starts(n, n)
    BY <1>1 DEF Starts
  <2>3. n \in Candidates(tr, t, n)
    BY <1>2, <2>2 DEF Candidates
  <2>4. <<>> \in Captures /\ v \o <<>> = v
    BY <1>1, ConcatFacts
  <2>5. ASSUME NEW q \in Candidates(tr, t, n), q # n PROVE Precedes(n, q)
    <3>1. Starts(n, q) /\ q \in DOMAIN tr
      BY DEF Candidates
    <3>2. Len(n) + 1 \in 1..Len(q)
      BY <2>5, <3>1, StartsOn
    <3>3. PICK L : L = Len(n)
      OBVIOUS
    <3>4. L \in Nat /\ \A j \in 1..((L + 1) - 1) : j <= L /\ n[j] = q[j]
      BY <1>1, <3>1, <3>3 DEF Starts
    <3>5. Differ(n, q, L + 1)
      BY <3>3, <3>4 DEF Differ
    <3> QED BY <3>2, <3>3, <3>5 DEF Precedes
  <2>6. Leads(n, t, Len(t), v \o <<>>)
    BY <1>2, <2>4
  <2> QED BY <2>1, <2>3, <2>4, <2>5, <2>6 DEF Best
<1>3. CASE ~(a = Len(t) /\ tr[n].value # None)
  <2>1. PICK M : M = Matching(tr, t, F, n, a)
    OBVIOUS
  <2>2. F[n][a] = UNION {Under(tr, F, n, x, t, a) : x \in {y \in M : ~\E z \in M : Less(z, y)}}
    BY <1>3, <2>1 DEF OneCall
  <2>3. ASSUME NEW x \in AllSuffixes, Append(n, x) \in DOMAIN tr
        PROVE  /\ Best(tr, t, Append(n, x), v, Under(tr, F, n, x, t, a))
               /\ x \in M <=> Under(tr, F, n, x, t, a) # {}
    <3>1. x \in SuffixesAt(tr, n)
      BY <2>3, SuffixesAtIs
    <3>2. x \in M <=> Under(tr, F, n, x, t, a) # {}
      BY <2>1, <3>1 DEF Matching
    <3> QED BY <1>1, <2>3, <3>2, BestUnder
  <2>4. ASSUME NEW q \in Candidates(tr, t, n)
        PROVE  /\ Len(n) + 1 \in 1..Len(q) /\ q[Len(n) + 1] \in M
               /\ q \in Candidates(tr, t, Append(n, q[Len(n) + 1]))
               /\ Append(n, q[Len(n) + 1]) \in DOMAIN tr
    <3>1. q \in DOMAIN tr /\ Starts(n, q) /\ tr[q].value # None
      BY DEF Candidates
    <3>2. PICK u : Leads(q, t, Len(t), u)
      BY DEF Candidates
    <3>3. q # n
      <4>1. q = n => a = Len(t)
        BY <1>1, <3>2, LeadsOnce
      <4> QED BY <1>3, <3>1, <4>1
    <3>4. PICK x : x = q[Len(n) + 1]
      OBVIOUS
    <3>5. Len(n) + 1 \in 1..Len(q) /\ x \in AllSuffixes /\ Append(n, x) \in DOMAIN tr /\ Starts(Append(n, x), q)
      BY <3>1, <3>3, <3>4, StartsOn
    <3>6. q \in Candidates(tr, t, Append(n, x))
      BY <3>1, <3>2, <3>5 DEF Candidates
    <3>7. x \in M
      BY <2>3, <3>5, <3>6 DEF Best
    <3> QED BY <3>4, <3>5, <3>6, <3>7
  <2>5. ASSUME NEW x \in M
        PROVE  x \in AllSuffixes /\ Append(n, x) \in DOMAIN tr /\ Ends(x, t, a) # {} /\ Under(tr, F, n, x, t, a) # {}
    <3>1. x \in SuffixesAt(tr, n) /\ Under(tr, F, n, x, t, a) # {}
      BY <2>1 DEF Matching
    <3>2. x \in AllSuffixes /\ Append(n, x) \in DOMAIN tr
      BY <3>1, SuffixesAtIs
    <3> QED BY <3>1, <3>2, UnderNone
  <2>6. CASE M = {}
    <3>1. F[n][a] = {}
      BY <2>2, <2>6
    <3>2. Candidates(tr, t, n) = {}
      BY <2>4, <2>6
    <3> QED BY <3>1, <3>2 DEF Best
  <2>7. CASE M # {}
    <3>1. M \in SUBSET AllSuffixes /\ \A x \in M : Ends(x, t, a) # {}
      BY <2>5
    <3>2. PICK x \in M : First(M, x)
      BY <1>1, <2>7, <3>1, FirstMatching
    <3>3. PICK S : S = Under(tr, F, n, x, t, a)
      OBVIOUS
    <3>4. F[n][a] = S
      BY <2>2, <3>2, <3>3 DEF First
    <3>5. x \in AllSuffixes /\ Append(n, x) \in DOMAIN tr /\ S # {} /\ Best(tr, t, Append(n, x), v, S)
      BY <2>3, <2>5, <3>3
    <3>6. PICK r \in Candidates(tr, t, Append(n, x)), u \in Captures :
             /\ S = {[node |-> r, values |-> u]}
             /\ Leads(r, t, Len(t), v \o u)
             /\ \A q \in Candidates(tr, t, Append(n, x)) : q # r => Precedes(r, q)
      BY <3>5 DEF Best
    <3>7. r \in Seq(AllSuffixes) /\ Starts(n, r) /\ r[Len(n) + 1] = x /\ r \in DOMAIN tr /\ Len(n) + 1 \in 1..Len(r)
      <4>1. r \in DOMAIN tr /\ Starts(Append(n, x), r)
        BY <3>6 DEF Candidates
      <4>2. r \in Seq(AllSuffixes)
        BY <1>1, <4>1
      <4> QED BY <1>1, <3>5, <4>1, <4>2, StartsBack
    <3>8. r \in Candidates(tr, t, n)
      BY <3>6, <3>7 DEF Candidates
    <3>9. ASSUME NEW q \in Candidates(tr, t, n), q # r PROVE Precedes(r, q)
      <4>1. PICK y : y = q[Len(n) + 1]
        OBVIOUS
      <4>2. Len(n) + 1 \in 1..Len(q) /\ y \in M /\ q \in Candidates(tr, t, Append(n, y))
        BY <2>4, <4>1
      <4>3. CASE y = x
        BY <3>6, <3>9, <4>2, <4>3
      <4>4. CASE y # x
        <5>1. Less(x, y)
          BY <3>2, <4>2, <4>4 DEF First
        <5>2. Starts(n, q)
          BY DEF Candidates
        <5>3. PICK L : L = Len(n)
          OBVIOUS
        <5>4. L \in Nat /\ L + 1 <= Len(r) /\ \A j \in 1..((L + 1) - 1) : j <= Len(r) /\ r[j] = q[j]
          BY <1>1, <3>7, <5>2, <5>3 DEF Starts
        <5>5. Differ(r, q, L + 1)
          BY <3>7, <4>1, <5>1, <5>3, <5>4 DEF Differ
        <5> QED BY <4>2, <5>3, <5>5 DEF Precedes
      <4> QED BY <4>3, <4>4
    <3> QED BY <3>4, <3>6, <3>8, <3>9 DEF Best
  <2> QED BY <2>6, <2>7
<1> QED BY <1>2, <1>3

\* node.go Match, matchRemaining: of the nodes that have a value and read the
\* path, the first in the order of the suffixes is found, with the values of
\* its variables; nothing is found only if no node reads the path.  Trying a
\* suffix and coming back from it misses none.
THEOREM MatchFindsFirst ==
  ASSUME NEW tr, IsTree(tr), NEW path \in Seq(Tokens)
  PROVE  Best(tr, Trimmed(path), <<>>, <<>>, Match(tr, path))
<1>1. PICK t, F : t = Trimmed(path) /\ F = MatchRemaining(tr, t)
  OBVIOUS
<1>2. t \in Seq(Tokens)
  BY <1>1, TrimmedFacts
<1>3. PICK N \in Nat : \A n \in DOMAIN tr : Len(n) <= N
  BY DEF IsTree
<1>4. DOMAIN tr \subseteq Seq(AllSuffixes) /\ <<>> \in DOMAIN tr
  BY DEF IsTree
<1> DEFINE Fine(n) == (n # <<>> => Last(n).kind # "everything") =>
                         \A a, v : Leads(n, t, a, v) => Best(tr, t, n, v, F[n][a])
           T == {k \in 0..(N + 1) : \A n \in DOMAIN tr : Len(n) + k >= N + 1 => Fine(n)}
<1>5. 0 \in T
  BY <1>3, <1>4
<1>6. ASSUME NEW k \in 1..(N + 1), k - 1 \in T PROVE k \in T
  <2>1. SUFFICES ASSUME NEW n \in DOMAIN tr, Len(n) + k >= N + 1, n # <<>> => Last(n).kind # "everything",
                        NEW a, NEW v, Leads(n, t, a, v)
                 PROVE  Best(tr, t, n, v, F[n][a])
    BY <1>6
  <2>2. a \in 0..Len(t) /\ n \in Seq(AllSuffixes) /\ Len(n) \in Nat
    BY <1>2, <1>4, <2>1, LeadsType
  <2>3. F[n][a] = OneCall(tr, t, F, n, a)
    BY <1>1, <1>2, <2>2, FoundIs
  <2>4. ASSUME NEW x \in AllSuffixes, Append(n, x) \in DOMAIN tr, x.kind # "everything",
               NEW b, NEW w, Leads(Append(n, x), t, b, w)
        PROVE  Best(tr, t, Append(n, x), w, F[Append(n, x)][b])
    <3>1. PICK c : c = Append(n, x)
      OBVIOUS
    <3>2. c \in DOMAIN tr /\ Len(c) = Len(n) + 1 /\ Last(c) = x
      BY <2>2, <2>4, <3>1 DEF Last
    <3>3. Len(c) + (k - 1) >= N + 1
      BY <2>1, <2>2, <3>2
    <3>4. Fine(c)
      BY <1>6, <3>2, <3>3
    <3> QED BY <2>4, <3>1, <3>2, <3>4
  <2> HIDE DEF T
  <2> QED BY <1>2, <2>1, <2>3, <2>4, BestHere
<1>7. N + 1 \in T
  <2> HIDE DEF T
  <2>1. N + 1 \in Nat /\ N + 1 \in 0..(N + 1)
    OBVIOUS
  <2> QED BY <1>5, <1>6, <2>1, Upwards
<1>8. Fine(<<>>)
  <2>1. Len(<<>>) = 0
    OBVIOUS
  <2> QED BY <1>4, <1>7, <2>1
<1>9. Leads(<<>>, t, 0, <<>>)
  BY <1>2, LeadsEmpty
<1>10. Best(tr, t, <<>>, <<>>, F[<<>>][0])
  BY <1>8, <1>9
<1> QED BY <1>1, <1>10 DEF Match

-----------------------------------------------------------------------------
(* Reading a text along the tokens of a template: the same as along the    *)
(* suffixes it is parsed into.                                              *)

\* Where a token that is met at a of the text leaves off.
Steps(token, t, a, b) ==
    \/ token \in Wildcards /\ b = Len(t)
    \/ token \in Variables /\ token \notin Wildcards /\ EndsSegment(t, a, b)
    \/ token \notin Variables /\ a < Len(t) /\ t[a + 1] = token /\ b = a + 1
    \/ token = "/" /\ a = Len(t) /\ b = a

TakenBy(token, t, a, b) == IF token \in Variables THEN <<SubSeq(t, a + 1, b)>> ELSE <<>>

Run(p, t, at, w) ==
    /\ at \in [0..Len(p) -> 0..Len(t)] /\ w \in [0..Len(p) -> Captures]
    /\ at[0] = 0 /\ w[0] = <<>>
    /\ \A k \in 1..Len(p) :
          /\ Steps(p[k], t, at[k - 1], at[k])
          /\ w[k] = w[k - 1] \o TakenBy(p[k], t, at[k - 1], at[k])
          /\ k > 1 => p[k - 1] \notin Wildcards

\* A node extended by a suffix ends with it.
LEMMA LastIs ==
  ASSUME NEW m \in Seq(AllSuffixes), NEW x \in AllSuffixes
  PROVE  Append(m, x) \in Seq(AllSuffixes) /\ Append(m, x) # <<>> /\ Last(Append(m, x)) = x /\ Front(Append(m, x)) = m
<1>1. PICK c, L : c = Append(m, x) /\ L = Len(m)
  OBVIOUS
<1>2. c \in Seq(AllSuffixes) /\ Len(c) = L + 1 /\ c[L + 1] = x /\ c # <<>> /\ L \in Nat
  BY <1>1
<1>3. Last(c) = x
  BY <1>2 DEF Last
<1>4. Front(c) = m
  <2>1. Front(c) = SubSeq(c, 1, L)
    BY <1>2 DEF Front
  <2>2. PICK s : s = SubSeq(c, 1, L)
    OBVIOUS
  <2>3. Len(s) = L /\ s \in Seq(AllSuffixes) /\ \A k \in 1..L : s[k] = c[k] /\ c[k] = m[k]
    BY <1>1, <1>2, <2>2
  <2>4. s = m
    BY <1>1, <2>3
  <2> QED BY <2>1, <2>2, <2>4
<1> QED BY <1>1, <1>2, <1>3, <1>4

\* What a token that begins a suffix begins.
Begun(token) ==
    IF token = "/" THEN Slash
    ELSE IF token \in Wildcards THEN Everything
    ELSE IF token \in Variables THEN Variable ELSE Constant(<<token>>)

\* The suffix a token begins: a constant, {variable} or {*}, by the kind of token.
LEMMA BegunIs ==
  ASSUME NEW token \in Tokens
  PROVE  /\ Begun(token) \in AllSuffixes
         /\ Begun(token).kind = "everything" <=> token \in Wildcards
         /\ Begun(token).kind = "variable" <=> token \in Variables /\ token \notin Wildcards
         /\ Begun(token).kind = "constant" <=> token \notin Variables
         /\ token \notin Variables => Begun(token) = Constant(<<token>>) /\ Begun(token).pattern = <<token>>
<1>1. <<token>> \in Seq(Tokens) \ {<<>>}
  OBVIOUS
<1>2. Constant(<<token>>) \in AllSuffixes
  BY <1>1 DEF AllSuffixes
<1>3. CASE token = "/"
  BY <1>3, SlashIs, TokensAre DEF Begun, Slash, Constant
<1>4. CASE token \in Variables
  BY <1>4, SlashIs, TokensAre DEF Begun, Variable, Everything
<1>5. CASE token \notin Variables /\ token # "/"
  BY <1>2, <1>5, TokensAre DEF Begun, Constant
<1> QED BY <1>3, <1>4, <1>5

\* A token begins a suffix or, plain after an open constant, makes it longer.
LEMMA WithBegun ==
  ASSUME NEW m \in Seq(AllSuffixes), NEW token \in Tokens
  PROVE  /\ ~(Plain(token) /\ Open(m)) => With(m, token) = Append(m, Begun(token))
         /\ Plain(token) /\ Open(m) =>
               \E f \in Seq(AllSuffixes), s \in Seq(Tokens) :
                  /\ s # <<>> /\ Constant(s) \in AllSuffixes /\ s # <<"/">> /\ m = Append(f, Constant(s))
                  /\ Constant(Append(s, token)) \in AllSuffixes
                  /\ With(m, token) = Append(f, Constant(Append(s, token)))
<1>1. ASSUME ~(Plain(token) /\ Open(m)) PROVE With(m, token) = Append(m, Begun(token))
  BY <1>1, WithIs, TokensAre DEF Begun, Plain
<1>2. ASSUME Plain(token), Open(m)
      PROVE  \E f \in Seq(AllSuffixes), s \in Seq(Tokens) :
                  /\ s # <<>> /\ Constant(s) \in AllSuffixes /\ s # <<"/">> /\ m = Append(f, Constant(s))
                  /\ Constant(Append(s, token)) \in AllSuffixes
                  /\ With(m, token) = Append(f, Constant(Append(s, token)))
  <2>1. PICK f \in Seq(AllSuffixes), s \in Seq(Tokens) :
            /\ s # <<>> /\ s # <<"/">> /\ m = Append(f, Constant(s))
            /\ Front(m) = f /\ Last(m).pattern = s
    BY <1>2, OpenIs
  <2>2. With(m, token) = Append(f, Constant(Append(s, token)))
    BY <1>2, <2>1, WithIs
  <2>3. Append(s, token) \in Seq(Tokens) \ {<<>>} /\ s \in Seq(Tokens) \ {<<>>}
    BY <2>1
  <2>4. Constant(Append(s, token)) \in AllSuffixes /\ Constant(s) \in AllSuffixes
    BY <2>3 DEF AllSuffixes
  <2> QED BY <2>1, <2>2, <2>4
<1> QED BY <1>1, <1>2

\* A one-token constant goes on at a if that token is there.
LEMMA GoesOnOne ==
  ASSUME NEW t \in Seq(Tokens), NEW a \in 0..Len(t), NEW token \in Tokens
  PROVE  GoesOn(t, a, <<token>>) <=> a < Len(t) /\ t[a + 1] = token
<1> QED BY DEF GoesOn

\* A longer constant goes on if the shorter one does and the next token is there.
LEMMA GoesOnMore ==
  ASSUME NEW t \in Seq(Tokens), NEW a \in 0..Len(t), NEW token \in Tokens, NEW s \in Seq(Tokens)
  PROVE  GoesOn(t, a, Append(s, token)) <=>
            GoesOn(t, a, s) /\ a + Len(s) < Len(t) /\ t[(a + Len(s)) + 1] = token
<1>1. PICK N, L, c : N = Len(t) /\ L = Len(s) /\ c = Append(s, token)
  OBVIOUS
<1>2. N \in Nat /\ L \in Nat /\ Len(c) = L + 1 /\ c[L + 1] = token /\ (\A k \in 1..L : c[k] = s[k]) /\ a \in Nat
  BY <1>1
<1>3. \A j \in 1..(L + 1) : j = L + 1 \/ j \in 1..L
  BY <1>2
<1>5. ASSUME GoesOn(t, a, c) PROVE GoesOn(t, a, s) /\ a + L < N /\ t[(a + L) + 1] = token
  <2>1. a + (L + 1) <= N /\ \A j \in 1..(L + 1) : t[a + j] = c[j]
    BY <1>1, <1>2, <1>5 DEF GoesOn
  <2>2. a + L <= N /\ a + L < N /\ a + (L + 1) = (a + L) + 1 /\ L + 1 \in 1..(L + 1)
    BY <1>2, <2>1
  <2>3. \A j \in 1..L : t[a + j] = s[j]
    <3>1. \A j \in 1..L : j \in 1..(L + 1)
      BY <1>2
    <3> QED BY <1>2, <2>1, <3>1
  <2>4. t[a + (L + 1)] = token
    BY <1>2, <2>1, <2>2
  <2> QED BY <1>1, <2>2, <2>3, <2>4 DEF GoesOn
<1>6. ASSUME GoesOn(t, a, s), a + L < N, t[(a + L) + 1] = token PROVE GoesOn(t, a, c)
  <2>1. a + (L + 1) <= N /\ a + (L + 1) = (a + L) + 1
    BY <1>2, <1>6
  <2>2. ASSUME NEW j \in 1..(L + 1) PROVE t[a + j] = c[j]
    <3>1. CASE j = L + 1
      BY <1>2, <1>6, <2>1, <3>1
    <3>2. CASE j \in 1..L
      BY <1>1, <1>2, <1>6, <3>2 DEF GoesOn
    <3> QED BY <1>3, <3>1, <3>2
  <2> QED BY <1>1, <1>2, <2>1, <2>2 DEF GoesOn
<1> QED BY <1>1, <1>5, <1>6

\* The suffix a token begins ends where the token may, and takes what it takes.
LEMMA BegunEnds ==
  ASSUME NEW token \in Tokens, NEW t \in Seq(Tokens), NEW a \in 0..Len(t), NEW b
  PROVE  /\ b \in Ends(Begun(token), t, a) <=> Steps(token, t, a, b)
         /\ Taken(Begun(token), t, a, b) = TakenBy(token, t, a, b)
<1>1. PICK x, N : x = Begun(token) /\ N = Len(t)
  OBVIOUS
<1>2. x \in AllSuffixes /\ N \in Nat /\ a \in 0..N
  <2>1. Len(t) \in Nat
    OBVIOUS
  <2> QED BY <1>1, <2>1, BegunIs
<1>3. PICK E : E = Ends(x, t, a)
  OBVIOUS
<1>4. Taken(x, t, a, b) = TakenBy(token, t, a, b)
  <2>1. x.kind = "constant" <=> token \notin Variables
    BY <1>1, BegunIs
  <2> QED BY <2>1 DEF Taken, TakenBy
<1>5. CASE token \in Wildcards
  <2>1. x.kind = "everything" /\ token \in Variables /\ token # "/"
    BY <1>1, <1>5, BegunIs, TokensAre
  <2>2. E = {N}
    BY <1>1, <1>2, <1>3, <2>1, EndsIs
  <2>3. Steps(token, t, a, b) <=> b = N
    BY <1>1, <1>5, <2>1 DEF Steps
  <2> QED BY <1>1, <1>3, <1>4, <2>2, <2>3
<1>6. CASE token \in Variables /\ token \notin Wildcards
  <2>1. x.kind = "variable" /\ token # "/"
    BY <1>1, <1>6, BegunIs, TokensAre
  <2>2. PICK e : e = SegmentEnd(t, a)
    OBVIOUS
  <2>3. E = {e}
    BY <1>1, <1>2, <1>3, <2>1, <2>2, EndsIs
  <2>4. EndsSegment(t, a, e) /\ (EndsSegment(t, a, b) => b = e)
    BY <2>2, SegmentFacts, SegmentIs
  <2>5. Steps(token, t, a, b) <=> EndsSegment(t, a, b)
    BY <1>6, <2>1 DEF Steps
  <2> QED BY <1>1, <1>3, <1>4, <2>3, <2>4, <2>5
<1>7. CASE token \notin Variables
  <2>1. x.kind = "constant" /\ x = Constant(<<token>>) /\ x.pattern = <<token>> /\ token \notin Wildcards /\ Len(x.pattern) = 1
    BY <1>1, <1>7, BegunIs, TokensAre
  <2>2. x = Slash <=> token = "/"
    <3>1. x = Slash => x.pattern = <<"/">>
      BY SlashIs
    <3>2. token = "/" => x = Slash
      BY <2>1 DEF Slash
    <3> QED BY <2>1, <3>1, <3>2
  <2>3. GoesOn(t, a, x.pattern) <=> a < N /\ t[a + 1] = token
    <3> QED BY <1>1, <2>1, GoesOnOne
  <2>4. \/ GoesOn(t, a, x.pattern) /\ E = {a + 1}
        \/ ~GoesOn(t, a, x.pattern) /\ a = N /\ x = Slash /\ E = {a}
        \/ ~GoesOn(t, a, x.pattern) /\ ~(a = N /\ x = Slash) /\ E = {}
    <3>1. Len(t) = N /\ a + Len(x.pattern) = a + 1
      BY <1>1, <2>1
    <3> QED BY <1>2, <1>3, <2>1, <3>1, EndsIs
  <2>5. Steps(token, t, a, b) <=> (a < N /\ t[a + 1] = token /\ b = a + 1) \/ (token = "/" /\ a = N /\ b = a)
    BY <1>1, <1>7, <2>1 DEF Steps
  <2> QED BY <1>1, <1>2, <1>3, <1>4, <2>2, <2>3, <2>4, <2>5
<1> QED BY <1>5, <1>6, <1>7

\* A constant that is not the slash ends behind its own tokens.
LEMMA ConstantEnds ==
  ASSUME NEW x \in AllSuffixes, x.kind = "constant", x # Slash, NEW t \in Seq(Tokens), NEW a \in 0..Len(t), NEW b
  PROVE  b \in Ends(x, t, a) <=> GoesOn(t, a, x.pattern) /\ b = a + Len(x.pattern)
<1>1. PICK E, e : E = Ends(x, t, a) /\ e = a + Len(x.pattern)
  OBVIOUS
<1>2. (GoesOn(t, a, x.pattern) /\ E = {e}) \/ (~GoesOn(t, a, x.pattern) /\ E = {})
  BY <1>1, EndsIs
<1> QED BY <1>1, <1>2

\* A reading to an extended node is a reading to the node, and one more suffix.
LEMMA LeadsAppendFrom ==
  ASSUME NEW m \in Seq(AllSuffixes), NEW x \in AllSuffixes, NEW t \in Seq(Tokens), NEW a, NEW v, NEW b, NEW u,
         m # <<>> => Last(m).kind # "everything",
         Leads(m, t, a, v), b \in Ends(x, t, a), u = v \o Taken(x, t, a, b)
  PROVE  Leads(Append(m, x), t, b, u)
<1>1. \E a1, v1 : Leads(m, t, a1, v1) /\ b \in Ends(x, t, a1) /\ u = v1 \o Taken(x, t, a1, b)
  OBVIOUS
<1> QED BY <1>1, LeadsAppend

LEMMA LeadsAppendTo ==
  ASSUME NEW m \in Seq(AllSuffixes), NEW x \in AllSuffixes, NEW t \in Seq(Tokens), NEW b, NEW u,
         Leads(Append(m, x), t, b, u)
  PROVE  /\ m # <<>> => Last(m).kind # "everything"
         /\ \E a, v : Leads(m, t, a, v) /\ b \in Ends(x, t, a) /\ u = v \o Taken(x, t, a, b)
<1>1. \E a, v : Leads(m, t, a, v) /\ b \in Ends(x, t, a) /\ u = v \o Taken(x, t, a, b)
  BY LeadsAppend
<1>2. ASSUME m # <<>> PROVE Last(m).kind # "everything"
  BY <1>2, LeadsAppend
<1> QED BY <1>1, <1>2

\* A parse and one more token.
LeadsByToken(m, token, t, b, u, closed) ==
    /\ closed
    /\ \E a, v : Leads(m, t, a, v) /\ Steps(token, t, a, b) /\ u = v \o TakenBy(token, t, a, b)

\* Parsing one token more is reading one token more.
LEMMA LeadsWith ==
  ASSUME NEW m \in Seq(AllSuffixes), NEW token \in Tokens, NEW t \in Seq(Tokens), NEW b, NEW u
  PROVE  Leads(With(m, token), t, b, u) <=>
            LeadsByToken(m, token, t, b, u, m # <<>> => Last(m).kind # "everything")
<1>1. CASE ~(Plain(token) /\ Open(m))
  <2>1. PICK x : x = Begun(token)
    OBVIOUS
  <2>2. With(m, token) = Append(m, x) /\ x \in AllSuffixes
    BY <1>1, <2>1, WithBegun, BegunIs
  <2>3. Leads(Append(m, x), t, b, u) <=>
            /\ m # <<>> => Last(m).kind # "everything"
            /\ \E a, v : Leads(m, t, a, v) /\ b \in Ends(x, t, a) /\ u = v \o Taken(x, t, a, b)
    BY <2>2, LeadsAppend
  <2>4. ASSUME NEW a, NEW v, Leads(m, t, a, v)
        PROVE  /\ b \in Ends(x, t, a) <=> Steps(token, t, a, b)
               /\ Taken(x, t, a, b) = TakenBy(token, t, a, b)
    <3>1. a \in 0..Len(t)
      BY <2>4, LeadsType
    <3> QED BY <2>1, <3>1, BegunEnds
  <2> QED BY <2>2, <2>3, <2>4 DEF LeadsByToken
<1>2. CASE Plain(token) /\ Open(m)
  <2>1. PICK f \in Seq(AllSuffixes), s \in Seq(Tokens) :
                  /\ s # <<>> /\ Constant(s) \in AllSuffixes /\ s # <<"/">> /\ m = Append(f, Constant(s))
                  /\ Constant(Append(s, token)) \in AllSuffixes
                  /\ With(m, token) = Append(f, Constant(Append(s, token)))
    BY <1>2, WithBegun
  <2>2. PICK c, x, y, L : c = Append(s, token) /\ x = Constant(s) /\ y = Constant(c) /\ L = Len(s)
    OBVIOUS
  <2>3. /\ x \in AllSuffixes /\ x.kind = "constant" /\ x.pattern = s /\ x # Slash
        /\ y \in AllSuffixes /\ y.kind = "constant" /\ y.pattern = c /\ y # Slash
        /\ m = Append(f, x) /\ With(m, token) = Append(f, y)
        /\ L \in Nat /\ Len(c) = L + 1 /\ L # 0
    <3>1. x \in AllSuffixes /\ y \in AllSuffixes /\ m = Append(f, x) /\ With(m, token) = Append(f, y)
      BY <2>1, <2>2
    <3>2. x.kind = "constant" /\ x.pattern = s /\ y.kind = "constant" /\ y.pattern = c
      BY <2>2 DEF Constant
    <3>3. L \in Nat /\ Len(c) = L + 1 /\ L # 0
      BY <2>1, <2>2
    <3>4. x # Slash
      BY <2>1, <3>2, SlashIs
    <3>5. y # Slash
      <4>1. Slash.pattern = <<"/">> /\ Len(Slash.pattern) = 1
        BY SlashIs
      <4>2. L + 1 # 1 /\ Len(y.pattern) = L + 1
        BY <3>2, <3>3
      <4> QED BY <4>1, <4>2
    <3> QED BY <3>1, <3>2, <3>3, <3>4, <3>5
  <2>4. token \notin Variables /\ token \notin Wildcards /\ token # "/"
    BY <1>2, TokensAre DEF Plain
  <2>5. m # <<>> /\ Last(m).kind # "everything"
    BY <2>1, <2>3, LastIs
  <2>6. PICK N : N = Len(t)
    OBVIOUS
  <2>7. ASSUME NEW a0 \in 0..Len(t), NEW e
        PROVE  /\ e \in Ends(x, t, a0) <=> GoesOn(t, a0, s) /\ e = a0 + L
               /\ e \in Ends(y, t, a0) <=> GoesOn(t, a0, c) /\ e = (a0 + L) + 1
               /\ GoesOn(t, a0, c) <=> GoesOn(t, a0, s) /\ a0 + L < N /\ t[(a0 + L) + 1] = token
    <3>1. a0 + Len(c) = (a0 + L) + 1
      BY <2>3
    <3>2. x \in AllSuffixes /\ x.kind = "constant" /\ x # Slash /\ x.pattern = s /\ L = Len(s)
      BY <2>2, <2>3
    <3>3. y \in AllSuffixes /\ y.kind = "constant" /\ y # Slash /\ y.pattern = c
      BY <2>3
    <3>4. e \in Ends(x, t, a0) <=> GoesOn(t, a0, s) /\ e = a0 + L
      BY <3>2, ConstantEnds
    <3>5. e \in Ends(y, t, a0) <=> GoesOn(t, a0, c) /\ e = a0 + Len(c)
      BY <3>3, ConstantEnds
    <3>6. GoesOn(t, a0, Append(s, token)) <=>
            GoesOn(t, a0, s) /\ a0 + Len(s) < Len(t) /\ t[(a0 + Len(s)) + 1] = token
      BY GoesOnMore
    <3> QED BY <2>2, <2>6, <3>1, <3>2, <3>4, <3>5, <3>6
  <2>8. \A a : TakenBy(token, t, a, b) = <<>> /\ Taken(x, t, a, b) = <<>> /\ Taken(y, t, a, b) = <<>>
    BY <2>3, <2>4 DEF TakenBy, Taken
  <2>9. \A a, b2 : Taken(x, t, a, b2) = <<>>
    BY <2>3 DEF Taken
  <2>10. \A a : Steps(token, t, a, b) <=> a < N /\ t[a + 1] = token /\ b = a + 1
    BY <2>4, <2>6 DEF Steps
  <2>11. ASSUME Leads(Append(f, y), t, b, u) PROVE LeadsByToken(m, token, t, b, u, TRUE)
    <3>0. /\ f # <<>> => Last(f).kind # "everything"
          /\ \E a0, v0 : Leads(f, t, a0, v0) /\ b \in Ends(y, t, a0) /\ u = v0 \o Taken(y, t, a0, b)
      <4>1. y \in AllSuffixes
        BY <2>3
      <4>2. f # <<>> => Last(f).kind # "everything"
        BY <2>11, <4>1, LeadsAppendTo
      <4>3. \E a0, v0 : Leads(f, t, a0, v0) /\ b \in Ends(y, t, a0) /\ u = v0 \o Taken(y, t, a0, b)
        BY <2>11, <4>1, LeadsAppendTo
      <4> QED BY <4>2, <4>3
    <3>1. PICK a0, v0 : Leads(f, t, a0, v0) /\ b \in Ends(y, t, a0) /\ u = v0 \o Taken(y, t, a0, b)
      BY <3>0
    <3>2. f # <<>> => Last(f).kind # "everything"
      BY <3>0
    <3>3. a0 \in 0..Len(t) /\ v0 \in Captures
      BY <3>1, LeadsType
    <3>4. GoesOn(t, a0, c) /\ b = (a0 + L) + 1
      BY <2>7, <3>1, <3>3
    <3>5. GoesOn(t, a0, s) /\ a0 + L < N /\ t[(a0 + L) + 1] = token
      BY <2>7, <3>3, <3>4
    <3>6. a0 + L \in Ends(x, t, a0)
      BY <2>7, <3>3, <3>5
    <3>7. v0 = v0 \o Taken(x, t, a0, a0 + L) /\ u = v0 /\ v0 \o <<>> = v0
      BY <2>8, <2>9, <3>1, <3>3, ConcatFacts
    <3>8. Leads(m, t, a0 + L, v0)
      <4>1. x \in AllSuffixes /\ m = Append(f, x)
        BY <2>3
      <4>2. Leads(f, t, a0, v0) /\ v0 = v0 \o Taken(x, t, a0, a0 + L)
        BY <3>1, <3>7
      <4>3. Leads(Append(f, x), t, a0 + L, v0)
        BY <3>2, <3>6, <4>1, <4>2, LeadsAppendFrom
      <4> QED BY <4>1, <4>3
    <3>9. Steps(token, t, a0 + L, b)
      BY <2>10, <3>4, <3>5
    <3>10. u = v0 \o TakenBy(token, t, a0 + L, b)
      BY <2>8, <3>7
    <3> QED BY <3>8, <3>9, <3>10 DEF LeadsByToken
  <2>12. ASSUME LeadsByToken(m, token, t, b, u, TRUE) PROVE Leads(Append(f, y), t, b, u)
    <3>1. PICK a, v : Leads(m, t, a, v) /\ Steps(token, t, a, b) /\ u = v \o TakenBy(token, t, a, b)
      BY <2>12 DEF LeadsByToken
    <3>2. Leads(Append(f, x), t, a, v)
      BY <2>3, <3>1
    <3>0. /\ f # <<>> => Last(f).kind # "everything"
          /\ \E a0, v0 : Leads(f, t, a0, v0) /\ a \in Ends(x, t, a0) /\ v = v0 \o Taken(x, t, a0, a)
      <4>1. x \in AllSuffixes
        BY <2>3
      <4>2. f # <<>> => Last(f).kind # "everything"
        BY <3>2, <4>1, LeadsAppendTo
      <4>3. \E a0, v0 : Leads(f, t, a0, v0) /\ a \in Ends(x, t, a0) /\ v = v0 \o Taken(x, t, a0, a)
        BY <3>2, <4>1, LeadsAppendTo
      <4> QED BY <4>2, <4>3
    <3>3. PICK a0, v0 : Leads(f, t, a0, v0) /\ a \in Ends(x, t, a0) /\ v = v0 \o Taken(x, t, a0, a)
      BY <3>0
    <3>4. f # <<>> => Last(f).kind # "everything"
      BY <3>0
    <3>5. a0 \in 0..Len(t) /\ v0 \in Captures
      BY <3>3, LeadsType
    <3>6. GoesOn(t, a0, s) /\ a = a0 + L
      BY <2>7, <3>3, <3>5
    <3>7. a0 + L < N /\ t[(a0 + L) + 1] = token /\ b = (a0 + L) + 1
      BY <2>10, <3>1, <3>6
    <3>8. b \in Ends(y, t, a0)
      BY <2>7, <3>5, <3>6, <3>7
    <3>9. u = v0 \o Taken(y, t, a0, b)
      BY <2>8, <2>9, <3>1, <3>3, <3>5, ConcatFacts
    <3>10. y \in AllSuffixes
      BY <2>3
    <3> QED BY <3>3, <3>4, <3>8, <3>9, <3>10, LeadsAppendFrom
  <2> QED BY <2>3, <2>5, <2>11, <2>12 DEF LeadsByToken
<1> QED BY <1>1, <1>2

\* The parser goes over a template token by token.
LEMMA ParsedOn ==
  ASSUME NEW p \in Seq(Tokens), NEW k \in 1..Len(p)
  PROVE  /\ Parsed(p)[k - 1] \in Seq(AllSuffixes) /\ Parsed(p)[k] \in Seq(AllSuffixes) /\ p[k] \in Tokens
         /\ Parsed(p)[k] = With(Parsed(p)[k - 1], p[k])
         /\ Parsed(p)[0] = <<>>
<1>1. PICK P : P = Parsed(p)
  OBVIOUS
<1>2. ParsedBy(p, P)
  BY <1>1, ParsedIs
<1>3. k \in 0..Len(p) /\ k - 1 \in 0..Len(p) /\ 0 \in 0..Len(p) /\ k # 0 /\ p[k] \in Tokens
  OBVIOUS
<1> QED BY <1>1, <1>2, <1>3 DEF ParsedBy

\* What was parsed ends with {*} exactly behind a wildcard.
LEMMA ParsedLast ==
  ASSUME NEW p \in Seq(Tokens), NEW k \in 1..Len(p)
  PROVE  Parsed(p)[k] # <<>> /\ (Last(Parsed(p)[k]).kind = "everything" <=> p[k] \in Wildcards)
<1>1. PICK m, n, token : m = Parsed(p)[k - 1] /\ n = Parsed(p)[k] /\ token = p[k]
  OBVIOUS
<1>2. m \in Seq(AllSuffixes) /\ n = With(m, token) /\ token \in Tokens
  BY <1>1, ParsedOn
<1>3. CASE ~(Plain(token) /\ Open(m))
  <2>1. n = Append(m, Begun(token)) /\ Begun(token) \in AllSuffixes
    BY <1>2, <1>3, WithBegun, BegunIs
  <2>2. n # <<>> /\ Last(n) = Begun(token)
    BY <1>2, <2>1, LastIs
  <2> QED BY <1>1, <1>2, <2>2, BegunIs
<1>4. CASE Plain(token) /\ Open(m)
  <2>1. PICK f \in Seq(AllSuffixes), s \in Seq(Tokens) :
           /\ Constant(Append(s, token)) \in AllSuffixes
           /\ With(m, token) = Append(f, Constant(Append(s, token)))
    BY <1>2, <1>4, WithBegun
  <2>2. n # <<>> /\ Last(n) = Constant(Append(s, token))
    BY <1>2, <2>1, LastIs
  <2>3. Last(n).kind = "constant"
    BY <2>2 DEF Constant
  <2>4. token \notin Wildcards
    BY <1>4, TokensAre DEF Plain
  <2>5. Last(n).kind # "everything"
    BY <2>3
  <2> QED BY <1>1, <2>2, <2>4, <2>5
<1> QED BY <1>3, <1>4

\* A node parsed up to token k is read as the node parsed before it, and the token.
LEMMA OneToken ==
  ASSUME NEW p \in Seq(Tokens), NEW k \in 1..Len(p), NEW t \in Seq(Tokens), NEW b, NEW u
  PROVE  Leads(Parsed(p)[k], t, b, u) <=>
            LeadsByToken(Parsed(p)[k - 1], p[k], t, b, u, k > 1 => p[k - 1] \notin Wildcards)
<1>1. PICK m, n, token : m = Parsed(p)[k - 1] /\ n = Parsed(p)[k] /\ token = p[k]
  OBVIOUS
<1>2. m \in Seq(AllSuffixes) /\ n = With(m, token) /\ token \in Tokens /\ (k = 1 => m = <<>>)
  <2>1. m \in Seq(AllSuffixes) /\ n = With(m, token) /\ token \in Tokens /\ Parsed(p)[0] = <<>>
    BY <1>1, ParsedOn
  <2>2. k = 1 => k - 1 = 0
    OBVIOUS
  <2> QED BY <1>1, <2>1, <2>2
<1>3. (m # <<>> => Last(m).kind # "everything") <=> (k > 1 => p[k - 1] \notin Wildcards)
  <2>1. CASE k = 1
    BY <1>2, <2>1
  <2>2. CASE k # 1
    <3>1. k - 1 \in 1..Len(p) /\ k > 1
      BY <2>2
    <3>2. m # <<>> /\ (Last(m).kind = "everything" <=> p[k - 1] \in Wildcards)
      BY <1>1, <3>1, ParsedLast
    <3> QED BY <3>1, <3>2
  <2> QED BY <2>1, <2>2
<1>4. Leads(n, t, b, u) <=> LeadsByToken(m, token, t, b, u, m # <<>> => Last(m).kind # "everything")
  BY <1>2, LeadsWith
<1> QED BY <1>1, <1>3, <1>4 DEF LeadsByToken

\* A run along the tokens is a reading along the suffixes.
LEMMA RunLeads ==
  ASSUME NEW p \in Seq(Tokens), NEW t \in Seq(Tokens), NEW at, NEW w, Run(p, t, at, w)
  PROVE  \A k \in 0..Len(p) : Leads(Parsed(p)[k], t, at[k], w[k])
<1> DEFINE T == {k \in 0..Len(p) : Leads(Parsed(p)[k], t, at[k], w[k])}
<1>1. 0 \in T
  <2>1. Parsed(p)[0] = <<>>
    <3>1. ParsedBy(p, Parsed(p)) /\ 0 \in 0..Len(p)
      BY ParsedIs
    <3> QED BY <3>1 DEF ParsedBy
  <2>2. Leads(<<>>, t, at[0], w[0]) /\ 0 \in 0..Len(p)
    BY LeadsEmpty DEF Run
  <2> QED BY <2>1, <2>2
<1>2. ASSUME NEW k \in 1..Len(p), k - 1 \in T PROVE k \in T
  <2>1. Leads(Parsed(p)[k - 1], t, at[k - 1], w[k - 1])
    BY <1>2
  <2>2. /\ Steps(p[k], t, at[k - 1], at[k])
        /\ w[k] = w[k - 1] \o TakenBy(p[k], t, at[k - 1], at[k])
        /\ k > 1 => p[k - 1] \notin Wildcards
    BY DEF Run
  <2>3. LeadsByToken(Parsed(p)[k - 1], p[k], t, at[k], w[k], k > 1 => p[k - 1] \notin Wildcards)
    BY <2>1, <2>2 DEF LeadsByToken
  <2>4. Leads(Parsed(p)[k], t, at[k], w[k])
    BY <2>3, OneToken
  <2> QED BY <2>4
<1>3. Len(p) \in Nat
  OBVIOUS
<1> HIDE DEF T
<1>4. \A k \in 0..Len(p) : k \in T
  BY <1>1, <1>2, <1>3, Upwards
<1> QED BY <1>4 DEF T

\* A reading along the suffixes comes from a run along the tokens.
LEMMA LeadsRun ==
  ASSUME NEW p \in Seq(Tokens), NEW t \in Seq(Tokens), NEW b, NEW u, Leads(Parsed(p)[Len(p)], t, b, u)
  PROVE  \E at, w : Run(p, t, at, w) /\ at[Len(p)] = b /\ w[Len(p)] = u
<1>1. PICK n : n = Len(p)
  OBVIOUS
<1>2. n \in Nat
  BY <1>1
<1> DEFINE T == {k \in 0..n : \E a, v : Leads(Parsed(p)[n - k], t, a, v)}
<1>3. \A k \in 0..n : \E a, v : Leads(Parsed(p)[k], t, a, v)
  <2>1. 0 \in T
    BY <1>1, <1>2
  <2>2. ASSUME NEW k \in 1..n, k - 1 \in T PROVE k \in T
    <3>1. PICK j : j = n - (k - 1)
      OBVIOUS
    <3>2. j \in 1..Len(p) /\ j - 1 = n - k /\ k \in 0..n
      BY <1>1, <1>2, <3>1
    <3>3. PICK a, v : Leads(Parsed(p)[j], t, a, v)
      BY <2>2, <3>1
    <3>4. LeadsByToken(Parsed(p)[j - 1], p[j], t, a, v, j > 1 => p[j - 1] \notin Wildcards)
      BY <3>2, <3>3, OneToken
    <3>5. \E a2, v2 : Leads(Parsed(p)[j - 1], t, a2, v2)
      BY <3>4 DEF LeadsByToken
    <3> QED BY <3>2, <3>5
  <2> HIDE DEF T
  <2>3. \A k \in 0..n : k \in T
    BY <1>2, <2>1, <2>2, Upwards
  <2>4. ASSUME NEW k \in 0..n PROVE \E a, v : Leads(Parsed(p)[k], t, a, v)
    <3>1. n - k \in 0..n /\ n - (n - k) = k
      BY <1>2
    <3> QED BY <2>3, <3>1 DEF T
  <2> QED BY <2>4
<1> HIDE DEF T
<1>4. PICK at, w : /\ at = [k \in 0..n |-> CHOOSE a : \E v : Leads(Parsed(p)[k], t, a, v)]
                   /\ w = [k \in 0..n |-> CHOOSE v : Leads(Parsed(p)[k], t, at[k], v)]
  OBVIOUS
<1>5. ASSUME NEW k \in 0..n PROVE Leads(Parsed(p)[k], t, at[k], w[k])
  <2>1. \E v : Leads(Parsed(p)[k], t, at[k], v)
    BY <1>3, <1>4
  <2> QED BY <1>4, <2>1
<1>6. ASSUME NEW k \in 0..n PROVE Parsed(p)[k] \in Seq(AllSuffixes) /\ at[k] \in 0..Len(t) /\ w[k] \in Captures
  <2>1. Parsed(p)[k] \in Seq(AllSuffixes)
    <3>1. ParsedBy(p, Parsed(p))
      BY ParsedIs
    <3> QED BY <1>1, <3>1 DEF ParsedBy
  <2> QED BY <1>5, <2>1, LeadsType
<1>7. at \in [0..n -> 0..Len(t)] /\ w \in [0..n -> Captures]
  BY <1>4, <1>6
<1>8. at[0] = 0 /\ w[0] = <<>>
  <2>1. Parsed(p)[0] = <<>>
    <3>1. ParsedBy(p, Parsed(p)) /\ 0 \in 0..Len(p)
      BY ParsedIs
    <3> QED BY <3>1 DEF ParsedBy
  <2>2. 0 \in 0..n
    BY <1>2
  <2>3. Leads(<<>>, t, at[0], w[0])
    BY <1>5, <2>1, <2>2
  <2> QED BY <2>3, LeadsEmpty
<1>9. ASSUME NEW k \in 1..n
      PROVE  /\ Steps(p[k], t, at[k - 1], at[k])
             /\ w[k] = w[k - 1] \o TakenBy(p[k], t, at[k - 1], at[k])
             /\ k > 1 => p[k - 1] \notin Wildcards
  <2>1. k \in 0..n /\ k - 1 \in 0..n /\ k \in 1..Len(p)
    BY <1>1, <1>2
  <2>2. LeadsByToken(Parsed(p)[k - 1], p[k], t, at[k], w[k], k > 1 => p[k - 1] \notin Wildcards)
    BY <1>5, <2>1, OneToken
  <2>3. PICK a, v : /\ Leads(Parsed(p)[k - 1], t, a, v) /\ Steps(p[k], t, a, at[k])
                    /\ w[k] = v \o TakenBy(p[k], t, a, at[k])
    BY <2>2 DEF LeadsByToken
  <2>4. a = at[k - 1] /\ v = w[k - 1]
    BY <1>5, <1>6, <2>1, <2>3, LeadsOnce
  <2> QED BY <2>2, <2>3, <2>4 DEF LeadsByToken
<1>10. Run(p, t, at, w)
  BY <1>1, <1>7, <1>8, <1>9 DEF Run
<1>11. at[n] = b /\ w[n] = u
  <2>1. n \in 0..n
    BY <1>2
  <2> QED BY <1>1, <1>5, <1>6, <2>1, LeadsOnce
<1> QED BY <1>1, <1>10, <1>11

-----------------------------------------------------------------------------
(* A text is of a template exactly if a run along the template reads it.    *)

FilledBy(p, values, F) ==
    /\ F \in [0..Len(p) -> Seq(Tokens)] /\ F[0] = <<>>
    /\ \A k \in 1..Len(p) : F[k] = F[k - 1] \o (IF k \in Blanks(p) THEN values[k] ELSE <<p[k]>>)

\* A filled template, token by token.
LEMMA FillingIs ==
  ASSUME NEW p \in Seq(Tokens), NEW values \in [Blanks(p) -> Seq(Tokens)]
  PROVE  FilledBy(p, values, Filling(p, values))
<1> DEFINE Part(k) == IF k \in Blanks(p) THEN values[k] ELSE <<p[k]>>
           G(u) == [k \in 0..Len(p) |-> IF k = 0 THEN <<>> ELSE u[k - 1] \o Part(k)]
           step == [z \in (1..Len(p)) \X Seq(Tokens) |-> z[2] \o Part(z[1])]
<1>1. ASSUME NEW k \in 1..Len(p) PROVE Part(k) \in Seq(Tokens)
  <2>1. p[k] \in Tokens
    OBVIOUS
  <2> QED BY <2>1
<1>2. Len(p) \in Nat /\ <<>> \in Seq(Tokens)
  OBVIOUS
<1> HIDE DEF Part
<1>3. step \in [(1..Len(p)) \X Seq(Tokens) -> Seq(Tokens)]
  <2>1. ASSUME NEW z \in (1..Len(p)) \X Seq(Tokens) PROVE z[2] \o Part(z[1]) \in Seq(Tokens)
    <3>1. PICK x, y : x = z[2] /\ y = Part(z[1])
      OBVIOUS
    <3>2. x \in Seq(Tokens) /\ y \in Seq(Tokens)
      BY <1>1, <3>1
    <3>3. x \o y \in Seq(Tokens)
      BY <3>2
    <3> QED BY <3>1, <3>3
  <2> QED BY <2>1
<1>4. PICK g \in [0..Len(p) -> Seq(Tokens)] : Iterates(g, Len(p), <<>>, step)
  <2>1. PICK n, S, b : n = Len(p) /\ S = Seq(Tokens) /\ b = <<>>
    OBVIOUS
  <2>2. PICK f : f = step
    OBVIOUS
  <2>3. n \in Nat /\ b \in S /\ f \in [(1..n) \X S -> S]
    BY <1>2, <1>3, <2>1, <2>2
  <2>4. \E h \in [0..n -> S] : Iterates(h, n, b, f)
    BY <2>3, Recursion
  <2> HIDE DEF step
  <2> QED BY <2>1, <2>2, <2>4
<1>5. \A k \in 0..Len(p) : g[k] = IF k = 0 THEN <<>> ELSE g[k - 1] \o Part(k)
  <2>1. ASSUME NEW k \in 0..Len(p), k # 0 PROVE step[<<k, g[k - 1]>>] = g[k - 1] \o Part(k)
    <3>1. k \in 1..Len(p) /\ g[k - 1] \in Seq(Tokens)
      BY <2>1
    <3> QED BY <3>1
  <2> HIDE DEF step
  <2> QED BY <1>4, <2>1 DEF Iterates
<1>6. g = G(g)
  BY <1>5
<1>7. Filling(p, values) = CHOOSE u : u = G(u)
  BY Zenon DEF Filling, Part
<1>8. Filling(p, values) = G(Filling(p, values))
  <2> HIDE DEF G
  <2> QED BY <1>6, <1>7
<1>9. PICK u : u = Filling(p, values)
  OBVIOUS
<1>10. u = G(u)
  BY <1>8, <1>9
<1>11. \A k \in 0..Len(p) : u[k] = IF k = 0 THEN <<>> ELSE u[k - 1] \o Part(k)
  BY <1>10
<1>12. DOMAIN u = 0..Len(p)
  BY <1>10
<1>13. \A k \in 0..Len(p) : u[k] \in Seq(Tokens)
  <2> DEFINE T == {k \in 0..Len(p) : u[k] \in Seq(Tokens)}
  <2>1. 0 \in T
    <3>1. u[0] = <<>> /\ 0 \in 0..Len(p)
      BY <1>2, <1>11
    <3>2. u[0] \in Seq(Tokens)
      BY <1>2, <3>1
    <3> QED BY <3>1, <3>2
  <2>2. ASSUME NEW k \in 1..Len(p), k - 1 \in T PROVE k \in T
    <3>1. k \in 0..Len(p) /\ k # 0
      OBVIOUS
    <3>2. PICK x, y : x = u[k - 1] /\ y = Part(k)
      OBVIOUS
    <3>3. x \in Seq(Tokens) /\ y \in Seq(Tokens)
      BY <1>1, <2>2, <3>2
    <3>4. u[k] = x \o y
      BY <1>11, <3>1, <3>2
    <3>5. x \o y \in Seq(Tokens)
      BY <3>3
    <3> QED BY <3>1, <3>4, <3>5
  <2> HIDE DEF T
  <2>3. \A k \in 0..Len(p) : k \in T
    BY <1>2, <2>1, <2>2, Upwards
  <2> QED BY <2>3 DEF T
<1>14. u \in [0..Len(p) -> Seq(Tokens)]
  <2>1. u = [k \in 0..Len(p) |-> u[k]]
    BY <1>10, <1>12
  <2> QED BY <1>13, <2>1
<1>15. u[0] = <<>>
  BY <1>2, <1>11
<1>16. ASSUME NEW k \in 1..Len(p) PROVE u[k] = u[k - 1] \o (IF k \in Blanks(p) THEN values[k] ELSE <<p[k]>>)
  <2>1. k \in 0..Len(p) /\ k # 0
    OBVIOUS
  <2>2. u[k] = u[k - 1] \o Part(k)
    BY <1>11, <2>1
  <2> QED BY <2>2 DEF Part
<1> QED BY <1>9, <1>14, <1>15, <1>16 DEF FilledBy

\* What is filled next is put behind.
Behind(f, x, g) ==
    /\ Len(g) = Len(f) + Len(x)
    /\ \A j \in 1..Len(f) : g[j] = f[j]
    /\ \A j \in 1..Len(x) : g[Len(f) + j] = x[j]

\* Concatenation puts one text behind another.
LEMMA BehindIs ==
  ASSUME NEW f \in Seq(Tokens), NEW x \in Seq(Tokens), NEW g, g = f \o x
  PROVE  Behind(f, x, g) /\ Len(f) \in Nat /\ Len(x) \in Nat /\ Len(g) \in Nat /\ g \in Seq(Tokens)
<1>1. PICK a, b : a = Len(f) /\ b = Len(x)
  OBVIOUS
<1>2. a \in Nat /\ b \in Nat /\ g \in Seq(Tokens) /\ Len(g) = a + b
  BY <1>1
<1>3. \A j \in 1..a : g[j] = f[j]
  BY <1>1, <1>2
<1>4. \A j \in 1..b : g[a + j] = x[j]
  BY <1>1, <1>2
<1> QED BY <1>1, <1>2, <1>3, <1>4 DEF Behind

\* Each token of a template puts its value, or itself, behind what was filled.
LEMMA FillingBehind ==
  ASSUME NEW p \in Seq(Tokens), NEW values \in [Blanks(p) -> Seq(Tokens)], NEW F, FilledBy(p, values, F),
         NEW k \in 1..Len(p)
  PROVE  /\ F[k - 1] \in Seq(Tokens) /\ F[k] \in Seq(Tokens)
         /\ p[k] \in Variables => k \in Blanks(p) /\ values[k] \in Seq(Tokens) /\ Behind(F[k - 1], values[k], F[k])
         /\ p[k] \notin Variables =>
               Len(F[k]) = Len(F[k - 1]) + 1 /\ F[k][Len(F[k - 1]) + 1] = p[k]
               /\ \A j \in 1..Len(F[k - 1]) : F[k][j] = F[k - 1][j]
         /\ Len(F[k - 1]) <= Len(F[k]) /\ \A j \in 1..Len(F[k - 1]) : F[k][j] = F[k - 1][j]
<1>1. PICK f, g, x : f = F[k - 1] /\ g = F[k] /\ x = (IF k \in Blanks(p) THEN values[k] ELSE <<p[k]>>)
  OBVIOUS
<1>2. k \in 0..Len(p) /\ k - 1 \in 0..Len(p) /\ p[k] \in Tokens /\ DOMAIN p = 1..Len(p)
  OBVIOUS
<1>3. f \in Seq(Tokens) /\ g = f \o x
  BY <1>1, <1>2 DEF FilledBy
<1>4. k \in Blanks(p) <=> p[k] \in Variables
  BY <1>2 DEF Blanks
<1>5. p[k] \in Variables => k \in Blanks(p) /\ values[k] \in Seq(Tokens) /\ x = values[k]
  BY <1>1, <1>4
<1>6. p[k] \notin Variables => x = <<p[k]>>
  BY <1>1, <1>4
<1>7. x \in Seq(Tokens)
  <2>1. <<p[k]>> \in Seq(Tokens)
    BY <1>2
  <2> QED BY <1>5, <1>6, <2>1
<1>8. Behind(f, x, g) /\ Len(f) \in Nat /\ Len(x) \in Nat /\ Len(g) \in Nat /\ g \in Seq(Tokens)
  BY <1>3, <1>7, BehindIs
<1>9. Len(f) <= Len(g) /\ \A j \in 1..Len(f) : g[j] = f[j]
  BY <1>8 DEF Behind
<1>10. p[k] \notin Variables => Len(g) = Len(f) + 1 /\ g[Len(f) + 1] = p[k]
  <2>1. SUFFICES ASSUME p[k] \notin Variables PROVE Len(g) = Len(f) + 1 /\ g[Len(f) + 1] = p[k]
    OBVIOUS
  <2>2. Len(x) = 1 /\ x[1] = p[k] /\ 1 \in 1..Len(x)
    BY <1>6, <2>1
  <2> QED BY <1>8, <2>2 DEF Behind
<1> QED BY <1>1, <1>3, <1>5, <1>8, <1>9, <1>10

\* A run, but for the values.
Walk(p, t, at) ==
    /\ at \in [0..Len(p) -> 0..Len(t)] /\ at[0] = 0
    /\ \A k \in 1..Len(p) : Steps(p[k], t, at[k - 1], at[k]) /\ (k > 1 => p[k - 1] \notin Wildcards)

\* A walk along the tokens takes values on its way.
LEMMA WalkRuns ==
  ASSUME NEW p \in Seq(Tokens), NEW t \in Seq(Tokens), NEW at, Walk(p, t, at)
  PROVE  \E w : Run(p, t, at, w)
<1> DEFINE step == [z \in (1..Len(p)) \X Captures |-> z[2] \o TakenBy(p[z[1]], t, at[z[1] - 1], at[z[1]])]
<1>1. ASSUME NEW k \in 1..Len(p) PROVE TakenBy(p[k], t, at[k - 1], at[k]) \in Captures
  <2>1. at[k - 1] \in 0..Len(t) /\ at[k] \in 0..Len(t)
    BY DEF Walk
  <2>2. SubSeq(t, at[k - 1] + 1, at[k]) \in Seq(Tokens)
    BY <2>1
  <2>3. <<>> \in Captures /\ \A x \in Seq(Tokens) : <<x>> \in Captures
    BY DEF Captures
  <2> QED BY <2>2, <2>3 DEF TakenBy
<1>2. step \in [(1..Len(p)) \X Captures -> Captures]
  <2>1. ASSUME NEW z \in (1..Len(p)) \X Captures
        PROVE  z[2] \o TakenBy(p[z[1]], t, at[z[1] - 1], at[z[1]]) \in Captures
    <3>1. PICK k, x, y : k = z[1] /\ x = z[2] /\ y = TakenBy(p[k], t, at[k - 1], at[k])
      OBVIOUS
    <3>2. x \in Captures /\ y \in Captures
      BY <1>1, <3>1
    <3> QED BY <3>1, <3>2, ConcatFacts
  <2> QED BY <2>1
<1>3. PICK w \in [0..Len(p) -> Captures] : Iterates(w, Len(p), <<>>, step)
  <2>1. PICK n, S, b : n = Len(p) /\ S = Captures /\ b = <<>>
    OBVIOUS
  <2>2. PICK f : f = step
    OBVIOUS
  <2>3. n \in Nat /\ b \in S /\ f \in [(1..n) \X S -> S]
    <3>1. <<>> \in Captures /\ Len(p) \in Nat
      BY DEF Captures
    <3> QED BY <1>2, <2>1, <2>2, <3>1
  <2>4. \E h \in [0..n -> S] : Iterates(h, n, b, f)
    BY <2>3, Recursion
  <2> HIDE DEF step
  <2> QED BY <2>1, <2>2, <2>4
<1>4. ASSUME NEW k \in 1..Len(p) PROVE w[k] = w[k - 1] \o TakenBy(p[k], t, at[k - 1], at[k])
  <2>1. k \in 0..Len(p) /\ k # 0 /\ w[k - 1] \in Captures
    OBVIOUS
  <2>2. step[<<k, w[k - 1]>>] = w[k - 1] \o TakenBy(p[k], t, at[k - 1], at[k])
    BY <2>1
  <2> HIDE DEF step
  <2> QED BY <1>3, <2>1, <2>2 DEF Iterates
<1>5. w[0] = <<>>
  <2>1. 0 \in 0..Len(p)
    OBVIOUS
  <2> HIDE DEF step
  <2> QED BY <1>3, <2>1 DEF Iterates
<1> HIDE DEF step
<1> QED BY <1>4, <1>5 DEF Run, Walk

\* Answers.tla Fills, and what IsOf says of wildcards, for all the beginnings F
\* of the filled template.
FillsTo(p, t, values, F) ==
    /\ FilledBy(p, values, F) /\ TrimsTo(F[Len(p)], t)
    /\ \A k \in Blanks(p) : p[k] \in Wildcards => k = Len(p)
    /\ \A k \in Blanks(p) : p[k] \notin Wildcards =>
          /\ \A j \in DOMAIN values[k] : values[k][j] # "/"
          /\ Len(F[k]) < Len(F[Len(p)]) => F[Len(p)][Len(F[k]) + 1] = "/"

\* A filled template is read along its tokens.
LEMMA FillsWalk ==
  ASSUME NEW p \in Seq(Tokens), NEW t \in Seq(Tokens), NEW values \in [Blanks(p) -> Seq(Tokens)],
         NEW F, FillsTo(p, t, values, F)
  PROVE  \E at : Walk(p, t, at) /\ at[Len(p)] = Len(t)
<1>0. /\ FilledBy(p, values, F) /\ TrimsTo(F[Len(p)], t)
      /\ \A k \in Blanks(p) : p[k] \in Wildcards => k = Len(p)
      /\ \A k \in Blanks(p) : p[k] \notin Wildcards =>
            /\ \A j \in DOMAIN values[k] : values[k][j] # "/"
            /\ Len(F[k]) < Len(F[Len(p)]) => F[Len(p)][Len(F[k]) + 1] = "/"
  BY DEF FillsTo
<1> USE <1>0
<1>1. PICK n, N, whole : n = Len(p) /\ N = Len(t) /\ whole = F[n]
  OBVIOUS
<1>2. n \in Nat /\ N \in Nat /\ whole \in Seq(Tokens) /\ \A k \in 0..n : F[k] \in Seq(Tokens)
  <2>1. Len(p) \in Nat /\ Len(t) \in Nat /\ Len(p) \in 0..Len(p)
    OBVIOUS
  <2>2. \A k \in 0..Len(p) : F[k] \in Seq(Tokens)
    BY DEF FilledBy
  <2> QED BY <1>1, <2>1, <2>2
<1>3. PICK W : W = Len(whole)
  OBVIOUS
<1>4. W \in Nat /\ N <= W /\ (\A k \in 1..N : t[k] = whole[k]) /\ (\A k \in (N + 1)..W : whole[k] = "/")
  BY <1>1, <1>2, <1>3 DEF TrimsTo
<1> DEFINE Begins(f) == Len(f) <= W /\ \A j \in 1..Len(f) : whole[j] = f[j]
           T == {k \in 0..n : Begins(F[n - k])}
<1>5. ASSUME NEW k \in 0..n PROVE Begins(F[k])
  <2>1. 0 \in T
    BY <1>1, <1>2, <1>3
  <2>2. ASSUME NEW k2 \in 1..n, k2 - 1 \in T PROVE k2 \in T
    <3>1. PICK j : j = n - (k2 - 1)
      OBVIOUS
    <3>2. j \in 1..Len(p) /\ j - 1 = n - k2 /\ k2 \in 0..n
      BY <1>1, <1>2, <3>1
    <3>3. PICK f, g : f = F[j - 1] /\ g = F[j]
      OBVIOUS
    <3>4. /\ f \in Seq(Tokens) /\ g \in Seq(Tokens)
          /\ Len(f) <= Len(g) /\ \A i \in 1..Len(f) : g[i] = f[i]
      BY <3>2, <3>3, FillingBehind
    <3>5. Begins(g)
      BY <2>2, <3>1, <3>3
    <3>6. Len(f) \in Nat /\ Len(g) \in Nat /\ Len(f) <= W /\ \A i \in 1..Len(f) : i \in 1..Len(g)
      BY <1>4, <3>4, <3>5
    <3>7. Begins(f)
      BY <3>4, <3>5, <3>6
    <3> QED BY <3>2, <3>3, <3>7
  <2> HIDE DEF T
  <2>3. \A k2 \in 0..n : k2 \in T
    BY <1>2, <2>1, <2>2, Upwards
  <2>4. n - k \in 0..n /\ n - (n - k) = k
    BY <1>2
  <2> QED BY <2>3, <2>4 DEF T
<1> HIDE DEF T
<1> DEFINE Within(k) == IF Len(F[k]) <= N THEN Len(F[k]) ELSE N
<1>6. PICK at : at = [k \in 0..n |-> Within(k)]
  OBVIOUS
<1>7. ASSUME NEW k \in 0..n PROVE at[k] \in 0..N /\ Len(F[k]) \in Nat /\ Len(F[k]) <= W
                                  /\ at[k] = IF Len(F[k]) <= N THEN Len(F[k]) ELSE N
  <2>1. Len(F[k]) \in Nat
    BY <1>2
  <2>2. at[k] = Within(k)
    BY <1>6
  <2> QED BY <1>2, <1>5, <2>1, <2>2
<1>8. at \in [0..Len(p) -> 0..Len(t)]
  BY <1>1, <1>6, <1>7
<1>9. at[0] = 0
  <2>1. F[0] = <<>> /\ Len(<<>>) = 0 /\ 0 \in 0..n
    BY <1>2 DEF FilledBy
  <2> QED BY <1>2, <1>7, <2>1
<1>10. at[n] = N
  <2>1. n \in 0..n /\ Len(F[n]) = W
    BY <1>1, <1>2, <1>3
  <2> QED BY <1>2, <1>4, <1>7, <2>1
<1>11. ASSUME NEW k \in 1..n PROVE Steps(p[k], t, at[k - 1], at[k])
  <2>1. k \in 1..Len(p) /\ k \in 0..n /\ k - 1 \in 0..n /\ p[k] \in Tokens
    BY <1>1, <1>2
  <2>2. PICK f, g, A, B, a, b : f = F[k - 1] /\ g = F[k] /\ A = Len(f) /\ B = Len(g) /\ a = at[k - 1] /\ b = at[k]
    OBVIOUS
  <2>3. /\ A \in Nat /\ B \in Nat /\ B <= W /\ A <= W
        /\ a = (IF A <= N THEN A ELSE N) /\ b = (IF B <= N THEN B ELSE N)
    BY <1>7, <2>1, <2>2
  <2>4. (\A j \in 1..B : whole[j] = g[j]) /\ A <= B
    BY <1>5, <2>1, <2>2, FillingBehind
  <2>5. CASE p[k] \in Wildcards
    <3>1. k \in Blanks(p)
      BY <2>1, <2>5, TokensAre DEF Blanks
    <3>2. k = n
      BY <1>1, <2>5, <3>1
    <3> QED BY <1>1, <1>10, <2>2, <2>5, <3>2 DEF Steps
  <2>6. CASE p[k] \in Variables /\ p[k] \notin Wildcards
    <3>1. PICK x : x = values[k]
      OBVIOUS
    <3>2. k \in Blanks(p) /\ x \in Seq(Tokens) /\ Behind(f, x, g)
      BY <2>1, <2>2, <2>6, <3>1, FillingBehind
    <3>3. (\A j \in 1..Len(x) : x[j] # "/") /\ (B < W => whole[B + 1] = "/")
      BY <1>1, <1>3, <2>2, <2>6, <3>1, <3>2
    <3>4. Len(x) \in Nat /\ B = A + Len(x) /\ \A j \in 1..Len(x) : g[A + j] = x[j]
      BY <2>2, <3>2 DEF Behind
    <3>5. b \in a..N
      BY <1>2, <2>3, <2>4
    <3>6. ASSUME NEW j \in (a + 1)..b PROVE t[j] # "/"
      <4>1. A <= N /\ a = A /\ j \in 1..N /\ j \in 1..B /\ j - A \in 1..Len(x) /\ A + (j - A) = j
        BY <1>2, <2>3, <2>4, <3>4
      <4>2. t[j] = whole[j] /\ whole[j] = g[j] /\ g[j] = x[j - A]
        BY <1>4, <2>4, <3>4, <4>1
      <4> QED BY <3>3, <4>1, <4>2
    <3>7. ASSUME b < N PROVE t[b + 1] = "/"
      <4>1. b = B /\ B < W /\ b + 1 \in 1..N
        BY <1>2, <1>4, <2>3, <3>7
      <4> QED BY <1>4, <3>3, <4>1
    <3>8. EndsSegment(t, a, b)
      BY <1>1, <3>5, <3>6, <3>7 DEF EndsSegment
    <3> QED BY <2>2, <2>6, <3>8 DEF Steps
  <2>7. CASE p[k] \notin Variables
    <3>1. B = A + 1 /\ g[A + 1] = p[k]
      BY <2>1, <2>2, <2>7, FillingBehind
    <3>2. whole[A + 1] = p[k]
      <4>1. A + 1 \in 1..B
        BY <2>3, <3>1
      <4> QED BY <2>4, <3>1, <4>1
    <3>3. CASE A < N
      <4>1. a = A /\ b = a + 1 /\ a + 1 \in 1..N
        BY <1>2, <2>3, <3>1, <3>3
      <4>2. t[a + 1] = p[k]
        BY <1>4, <3>2, <4>1
      <4> QED BY <1>1, <2>2, <2>7, <3>3, <4>1, <4>2 DEF Steps
    <3>4. CASE ~(A < N)
      <4>1. a = N /\ b = N /\ A + 1 \in (N + 1)..W
        BY <1>2, <1>4, <2>3, <3>1, <3>4
      <4>2. p[k] = "/"
        BY <1>4, <3>2, <4>1
      <4> QED BY <1>1, <2>2, <4>1, <4>2 DEF Steps
    <3> QED BY <3>3, <3>4
  <2> QED BY <2>5, <2>6, <2>7
<1>13. ASSUME NEW k \in 1..n, k > 1 PROVE p[k - 1] \notin Wildcards
  <2>1. SUFFICES ASSUME p[k - 1] \in Wildcards PROVE FALSE
    OBVIOUS
  <2>2. k - 1 \in DOMAIN p /\ k - 1 # n
    BY <1>1, <1>2, <1>13
  <2>3. k - 1 \in Blanks(p)
    BY <2>1, <2>2, TokensAre DEF Blanks
  <2> QED BY <1>1, <2>1, <2>2, <2>3
<1>12. Walk(p, t, at)
  BY <1>1, <1>8, <1>9, <1>11, <1>13 DEF Walk
<1> QED BY <1>1, <1>10, <1>12

\* A walk, where more may come after a wildcard.
Strides(p, t, at) ==
    /\ at \in [0..Len(p) -> 0..Len(t)] /\ at[0] = 0
    /\ \A k \in 1..Len(p) : Steps(p[k], t, at[k - 1], at[k])

\* f is the text up to a, or all of it and slashes.
On(f, t, a) ==
    /\ f \in Seq(Tokens) /\ a <= Len(f)
    /\ \A j \in 1..a : f[j] = t[j]
    /\ \A j \in (a + 1)..Len(f) : f[j] = "/"
    /\ a < Len(f) => a = Len(t)

\* A filled template that is on the text stays on it with the next token.
LEMMA OnAfter ==
  ASSUME NEW t \in Seq(Tokens), NEW token \in Tokens, NEW a \in 0..Len(t), NEW b \in 0..Len(t),
         Steps(token, t, a, b), NEW f, On(f, t, a), NEW g, g \in Seq(Tokens),
         token \in Variables => Behind(f, SubSeq(t, a + 1, b), g),
         token \notin Variables =>
            Len(g) = Len(f) + 1 /\ g[Len(f) + 1] = token /\ \A j \in 1..Len(f) : g[j] = f[j]
  PROVE  On(g, t, b)
<1>1. PICK N, A, B : N = Len(t) /\ A = Len(f) /\ B = Len(g)
  OBVIOUS
<1>2. f \in Seq(Tokens)
  BY DEF On
<1>3. N \in Nat /\ A \in Nat /\ B \in Nat /\ a \in 0..N /\ b \in 0..N
  BY <1>1, <1>2
<1>4. /\ a <= A /\ (\A j \in 1..a : f[j] = t[j]) /\ (\A j \in (a + 1)..A : f[j] = "/")
      /\ (a < A => a = N)
  BY <1>1 DEF On
<1>5. CASE token \in Variables
  <2>1. a <= b
    <3>1. token \in Wildcards => b = N
      BY <1>1, <1>5, TokensAre DEF Steps
    <3>2. token \notin Wildcards => EndsSegment(t, a, b)
      BY <1>5, TokensAre DEF Steps
    <3> QED BY <1>3, <3>1, <3>2 DEF EndsSegment
  <2>2. PICK x : x = SubSeq(t, a + 1, b)
    OBVIOUS
  <2>3. x \in Seq(Tokens) /\ Len(x) = b - a /\ \A j \in 1..(b - a) : x[j] = t[a + j]
    BY <1>1, <1>3, <2>1, <2>2
  <2>4. B = A + (b - a) /\ (\A j \in 1..A : g[j] = f[j]) /\ \A j \in 1..(b - a) : g[A + j] = x[j]
    BY <1>1, <1>5, <2>2, <2>3 DEF Behind
  <2>5. CASE a < A
    <3>1. a = N /\ b = N /\ B = A
      BY <1>3, <1>4, <2>1, <2>4, <2>5
    <3> QED BY <1>1, <1>3, <1>4, <2>4, <2>5, <3>1 DEF On
  <2>6. CASE a = A
    <3>1. B = b
      BY <1>3, <2>4, <2>6
    <3>2. ASSUME NEW j \in 1..b PROVE g[j] = t[j]
      <4>1. CASE j <= a
        BY <1>3, <1>4, <2>4, <2>6, <4>1
      <4>2. CASE a < j
        <5>1. j - a \in 1..(b - a) /\ a + (j - a) = j
          BY <1>3, <4>2
        <5>2. g[a + (j - a)] = x[j - a] /\ x[j - a] = t[a + (j - a)]
          BY <2>3, <2>4, <2>6, <5>1
        <5> QED BY <5>1, <5>2
      <4> QED BY <1>3, <4>1, <4>2
    <3>3. \A j \in (b + 1)..B : g[j] = "/"
      BY <1>3, <3>1
    <3> QED BY <1>1, <1>3, <3>1, <3>2, <3>3 DEF On
  <2> QED BY <1>3, <1>4, <2>5, <2>6
<1>6. CASE token \notin Variables
  <2>1. B = A + 1 /\ g[A + 1] = token /\ \A j \in 1..A : g[j] = f[j]
    BY <1>1, <1>6
  <2>2. (a < N /\ t[a + 1] = token /\ b = a + 1) \/ (token = "/" /\ a = N /\ b = a)
    BY <1>1, <1>6, TokensAre DEF Steps
  <2>3. CASE a < N /\ t[a + 1] = token /\ b = a + 1
    <3>1. A = a /\ B = b
      BY <1>3, <1>4, <2>1, <2>3
    <3>2. ASSUME NEW j \in 1..b PROVE g[j] = t[j]
      <4>1. CASE j = b
        BY <2>1, <2>3, <3>1, <4>1
      <4>2. CASE j # b
        <5>1. j \in 1..a
          BY <1>3, <2>3, <4>2
        <5> QED BY <1>4, <2>1, <3>1, <5>1
      <4> QED BY <4>1, <4>2
    <3>3. \A j \in (b + 1)..B : g[j] = "/"
      BY <1>3, <3>1
    <3> QED BY <1>1, <1>3, <3>1, <3>2, <3>3 DEF On
  <2>4. CASE token = "/" /\ a = N /\ b = a
    <3>1. \A j \in 1..b : g[j] = t[j]
      BY <1>3, <1>4, <2>1, <2>4
    <3>2. ASSUME NEW j \in (b + 1)..B PROVE g[j] = "/"
      <4>1. CASE j = A + 1
        BY <2>1, <2>4, <4>1
      <4>2. CASE j # A + 1
        <5>1. j \in (a + 1)..A /\ j \in 1..A
          BY <1>3, <2>1, <2>4, <4>2
        <5> QED BY <1>4, <2>1, <5>1
      <4> QED BY <4>1, <4>2
    <3> QED BY <1>1, <1>3, <1>4, <2>1, <2>4, <3>1, <3>2 DEF On
  <2> QED BY <2>2, <2>3, <2>4
<1> QED BY <1>5, <1>6

\* A template filled with what its tokens took is the text, all of the way.
LEMMA StridesFill ==
  ASSUME NEW p \in Seq(Tokens), NEW t \in Seq(Tokens), NEW at, Strides(p, t, at),
         NEW values \in [Blanks(p) -> Seq(Tokens)], NEW F, FilledBy(p, values, F),
         \A k \in Blanks(p) : values[k] = SubSeq(t, at[k - 1] + 1, at[k])
  PROVE  \A k \in 0..Len(p) : On(F[k], t, at[k])
<1> DEFINE T == {k \in 0..Len(p) : On(F[k], t, at[k])}
<1>1. 0 \in T
  <2>1. F[0] = <<>> /\ at[0] = 0 /\ 0 \in 0..Len(p)
    BY DEF FilledBy, Strides
  <2>2. PICK f, a : f = F[0] /\ a = at[0]
    OBVIOUS
  <2>3. f \in Seq(Tokens) /\ Len(f) = 0 /\ a = 0
    BY <2>1, <2>2
  <2>4. On(f, t, a)
    BY <2>3 DEF On
  <2> QED BY <2>1, <2>2, <2>4
<1>2. ASSUME NEW k \in 1..Len(p), k - 1 \in T PROVE k \in T
  <2>1. k \in 0..Len(p) /\ k - 1 \in 0..Len(p) /\ p[k] \in Tokens
    OBVIOUS
  <2>2. PICK f, g, a, b, token : f = F[k - 1] /\ g = F[k] /\ a = at[k - 1] /\ b = at[k] /\ token = p[k]
    OBVIOUS
  <2>3. a \in 0..Len(t) /\ b \in 0..Len(t) /\ Steps(token, t, a, b) /\ token \in Tokens /\ On(f, t, a)
    BY <1>2, <2>1, <2>2 DEF Strides
  <2>4. g \in Seq(Tokens)
    BY <2>2, FillingBehind
  <2>5. token \in Variables => Behind(f, SubSeq(t, a + 1, b), g)
    <3>1. token \in Variables => k \in Blanks(p) /\ Behind(f, values[k], g)
      BY <2>2, FillingBehind
    <3> QED BY <2>2, <3>1
  <2>6. token \notin Variables =>
            Len(g) = Len(f) + 1 /\ g[Len(f) + 1] = token /\ \A j \in 1..Len(f) : g[j] = f[j]
    BY <2>2, FillingBehind
  <2>7. On(g, t, b)
    BY <2>3, <2>4, <2>5, <2>6, OnAfter
  <2> QED BY <2>1, <2>2, <2>7
<1>3. \A k \in 0..Len(p) : k \in T
  <2> HIDE DEF T
  <2>1. Len(p) \in Nat
    OBVIOUS
  <2> QED BY <1>1, <1>2, <2>1, Upwards
<1> QED BY <1>3

\* Without slashes at its end.
Bare(t) == t # <<>> => t[Len(t)] # "/"

\* On all of a text, and only slashes behind: the same text without them.
LEMMA OnTrims ==
  ASSUME NEW t \in Seq(Tokens), Bare(t), NEW f, On(f, t, Len(t))
  PROVE  TrimsTo(f, t)
<1>1. Len(t) \in Nat /\ f \in Seq(Tokens)
  BY DEF On
<1> QED BY <1>1 DEF On, TrimsTo, Bare

\* Answers.tla Fills: a template that is walked along a text is filled with
\* what its variables took.
LEMMA WalkFills ==
  ASSUME NEW p \in Seq(Tokens), NEW t \in Seq(Tokens), Bare(t), NEW at, Walk(p, t, at), at[Len(p)] = Len(t),
         NEW values \in [Blanks(p) -> Seq(Tokens)], NEW F, FilledBy(p, values, F),
         \A k \in Blanks(p) : values[k] = SubSeq(t, at[k - 1] + 1, at[k])
  PROVE  FillsTo(p, t, values, F)
<1>1. PICK n, N, whole : n = Len(p) /\ N = Len(t) /\ whole = F[n]
  OBVIOUS
<1>2. n \in Nat /\ N \in Nat /\ n \in 0..Len(p) /\ DOMAIN p = 1..n
  <2>1. Len(p) \in Nat /\ Len(t) \in Nat /\ Len(p) \in 0..Len(p) /\ DOMAIN p = 1..Len(p)
    OBVIOUS
  <2> QED BY <1>1, <2>1
<1>3. \A k \in 0..Len(p) : On(F[k], t, at[k])
  <2>1. Strides(p, t, at)
    BY DEF Walk, Strides
  <2> QED BY <2>1, StridesFill
<1>4. On(whole, t, N)
  BY <1>1, <1>2, <1>3
<1>5. TrimsTo(whole, t)
  BY <1>1, <1>4, OnTrims
<1>6. ASSUME NEW k \in Blanks(p), p[k] \in Wildcards PROVE k = Len(p)
  <2>1. k \in 1..n
    BY <1>2 DEF Blanks
  <2>2. SUFFICES ASSUME k # n PROVE FALSE
    BY <1>1
  <2>3. k + 1 \in 1..Len(p) /\ k + 1 > 1 /\ (k + 1) - 1 = k
    BY <1>1, <1>2, <2>1, <2>2
  <2>4. p[(k + 1) - 1] \notin Wildcards
    BY <2>3 DEF Walk
  <2> QED BY <1>6, <2>3, <2>4
<1>7. ASSUME NEW k \in Blanks(p), p[k] \notin Wildcards
      PROVE  /\ \A j \in DOMAIN values[k] : values[k][j] # "/"
             /\ Len(F[k]) < Len(F[Len(p)]) => F[Len(p)][Len(F[k]) + 1] = "/"
  <2>1. k \in 1..Len(p) /\ k \in 0..Len(p) /\ k - 1 \in 0..Len(p) /\ p[k] \in Variables
    BY <1>1, <1>2 DEF Blanks
  <2>2. PICK a, b, f : a = at[k - 1] /\ b = at[k] /\ f = F[k]
    OBVIOUS
  <2>3. a \in 0..N /\ b \in 0..N /\ Steps(p[k], t, a, b)
    BY <1>1, <2>1, <2>2 DEF Walk
  <2>4. EndsSegment(t, a, b)
    BY <1>7, <2>1, <2>3, TokensAre DEF Steps
  <2>5. On(f, t, b)
    BY <1>3, <2>1, <2>2
  <2>6. ASSUME NEW j \in DOMAIN values[k] PROVE values[k][j] # "/"
    <3>1. PICK x : x = SubSeq(t, a + 1, b)
      OBVIOUS
    <3>2. values[k] = x /\ b \in a..N
      BY <1>1, <2>2, <2>4, <3>1 DEF EndsSegment
    <3>3. DOMAIN x = 1..(b - a) /\ \A i \in 1..(b - a) : x[i] = t[a + i]
      BY <1>1, <1>2, <2>3, <3>1, <3>2
    <3>4. j \in 1..(b - a) /\ a + j \in (a + 1)..b
      BY <1>2, <2>3, <2>6, <3>2, <3>3
    <3> QED BY <2>4, <3>2, <3>3, <3>4 DEF EndsSegment
  <2>7. ASSUME Len(f) < Len(whole) PROVE whole[Len(f) + 1] = "/"
    <3>1. PICK L, W : L = Len(f) /\ W = Len(whole)
      OBVIOUS
    <3>2. L \in Nat /\ W \in Nat
      BY <1>4, <2>5, <3>1 DEF On
    <3>3. b <= L /\ (b < L => b = N)
      BY <1>1, <2>5, <3>1 DEF On
    <3>4. (\A j \in 1..N : whole[j] = t[j]) /\ \A j \in (N + 1)..W : whole[j] = "/"
      BY <1>4, <3>1 DEF On
    <3>5. CASE L < N
      <4>1. b = L /\ L + 1 \in 1..N
        BY <1>2, <2>3, <3>2, <3>3, <3>5
      <4>2. t[b + 1] = "/"
        BY <1>1, <1>2, <2>3, <2>4, <3>5, <4>1 DEF EndsSegment
      <4> QED BY <3>1, <3>4, <4>1, <4>2
    <3>6. CASE ~(L < N)
      <4>1. L + 1 \in (N + 1)..W
        BY <1>2, <2>7, <3>1, <3>2, <3>6
      <4> QED BY <3>1, <3>4, <4>1
    <3> QED BY <3>5, <3>6
  <2> QED BY <1>1, <2>2, <2>6, <2>7
<1> QED BY <1>1, <1>5, <1>6, <1>7 DEF FillsTo

\* Answers.tla IsOf, said by a walk.
WalkedBy(p, t) == \E at : Walk(p, t, at) /\ at[Len(p)] = Len(t)

\* The pieces of a text are texts.
LEMMA TextsType ==
  ASSUME NEW t \in Seq(Tokens)
  PROVE  /\ Texts(t) \subseteq Seq(Tokens)
         /\ \A a, b \in 0..Len(t) : SubSeq(t, a + 1, b) \in Texts(t)
<1>1. ASSUME NEW j \in 1..(Len(t) + 1), NEW k \in 0..Len(t) PROVE SubSeq(t, j, k) \in Seq(Tokens)
  OBVIOUS
<1>2. ASSUME NEW a \in 0..Len(t), NEW b \in 0..Len(t) PROVE SubSeq(t, a + 1, b) \in Texts(t)
  <2>1. PICK j \in 1..(Len(t) + 1) : j = a + 1
    OBVIOUS
  <2>2. PICK x : x = SubSeq(t, j, b)
    OBVIOUS
  <2>3. x \in Texts(t)
    BY <2>2 DEF Texts
  <2> QED BY <2>1, <2>2, <2>3
<1>3. ASSUME NEW x \in Texts(t) PROVE x \in Seq(Tokens)
  <2>1. PICK j \in 1..(Len(t) + 1), k \in 0..Len(t) : x = SubSeq(t, j, k)
    BY DEF Texts
  <2> QED BY <1>1, <2>1
<1> QED BY <1>2, <1>3

\* Answers.tla IsOf says of the whole text what a walk says of its tokens.
LEMMA IsOfWalks ==
  ASSUME NEW text \in Seq(Tokens), NEW path \in Seq(Tokens)
  PROVE  IsOf(text, path) <=> WalkedBy(Trimmed(path), Trimmed(text))
<1>1. PICK p, t : p = Trimmed(path) /\ t = Trimmed(text)
  OBVIOUS
<1>2. p \in Seq(Tokens) /\ t \in Seq(Tokens) /\ Bare(t)
  BY <1>1, TrimmedFacts DEF TrimsTo, Bare
<1>3. ASSUME IsOf(text, path) PROVE WalkedBy(p, t)
  <2>1. PICK values \in [Blanks(p) -> Texts(t)] : Fills(text, p, values)
    BY <1>1, <1>3 DEF IsOf
  <2>2. values \in [Blanks(p) -> Seq(Tokens)]
    BY <1>2, <2>1, TextsType
  <2>3. PICK F : F = Filling(p, values)
    OBVIOUS
  <2>4. FilledBy(p, values, F)
    BY <1>2, <2>2, <2>3, FillingIs
  <2>5. Len(p) \in 0..Len(p) /\ F[Len(p)] \in Seq(Tokens)
    <3>1. Len(p) \in 0..Len(p)
      BY <1>2
    <3> QED BY <2>4, <3>1 DEF FilledBy
  <2>6. Trimmed(F[Len(p)]) = t
    BY <1>1, <2>1, <2>3 DEF Fills, Filled
  <2>7. TrimsTo(F[Len(p)], t)
    BY <2>5, <2>6, TrimmedFacts
  <2>8. \A k \in Blanks(p) : p[k] \in Wildcards => k = Len(p)
    BY <1>1, <1>3 DEF IsOf
  <2>9. \A k \in Blanks(p) : p[k] \notin Wildcards =>
            /\ \A j \in DOMAIN values[k] : values[k][j] # "/"
            /\ Len(F[k]) < Len(F[Len(p)]) => F[Len(p)][Len(F[k]) + 1] = "/"
    BY <2>1, <2>3 DEF Fills, Filled
  <2>10. FillsTo(p, t, values, F)
    BY <2>4, <2>7, <2>8, <2>9 DEF FillsTo
  <2>11. \E at : Walk(p, t, at) /\ at[Len(p)] = Len(t)
    BY <1>2, <2>2, <2>10, FillsWalk
  <2> QED BY <2>11 DEF WalkedBy
<1>4. ASSUME WalkedBy(p, t) PROVE IsOf(text, path)
  <2>1. PICK at : Walk(p, t, at) /\ at[Len(p)] = Len(t)
    BY <1>4 DEF WalkedBy
  <2>2. PICK values : values = [k \in Blanks(p) |-> SubSeq(t, at[k - 1] + 1, at[k])]
    OBVIOUS
  <2>3. ASSUME NEW k \in Blanks(p) PROVE SubSeq(t, at[k - 1] + 1, at[k]) \in Texts(t)
    <3>1. k \in 1..Len(p)
      BY <1>2 DEF Blanks
    <3>2. k - 1 \in 0..Len(p) /\ k \in 0..Len(p)
      BY <1>2, <3>1
    <3>3. at[k - 1] \in 0..Len(t) /\ at[k] \in 0..Len(t)
      BY <2>1, <3>2 DEF Walk
    <3> QED BY <1>2, <3>3, TextsType
  <2>4. values \in [Blanks(p) -> Texts(t)]
    BY <2>2, <2>3
  <2>5. values \in [Blanks(p) -> Seq(Tokens)]
    BY <1>2, <2>4, TextsType
  <2>6. PICK F : F = Filling(p, values)
    OBVIOUS
  <2>7. FilledBy(p, values, F)
    BY <1>2, <2>5, <2>6, FillingIs
  <2>8. \A k \in Blanks(p) : values[k] = SubSeq(t, at[k - 1] + 1, at[k])
    BY <2>2
  <2>9. /\ TrimsTo(F[Len(p)], t)
        /\ \A k \in Blanks(p) : p[k] \in Wildcards => k = Len(p)
        /\ \A k \in Blanks(p) : p[k] \notin Wildcards =>
              /\ \A j \in DOMAIN values[k] : values[k][j] # "/"
              /\ Len(F[k]) < Len(F[Len(p)]) => F[Len(p)][Len(F[k]) + 1] = "/"
    <3>1. FillsTo(p, t, values, F)
      BY <1>2, <2>1, <2>5, <2>7, <2>8, WalkFills
    <3> QED BY <3>1 DEF FillsTo
  <2>10. Len(p) \in 0..Len(p) /\ F[Len(p)] \in Seq(Tokens)
    <3>1. Len(p) \in 0..Len(p)
      BY <1>2
    <3> QED BY <2>7, <3>1 DEF FilledBy
  <2>11. Trimmed(F[Len(p)]) = t
    BY <1>2, <2>9, <2>10, TrimmedIs
  <2>12. Fills(text, p, values)
    BY <1>1, <2>6, <2>9, <2>11 DEF Fills, Filled
  <2> QED BY <1>1, <2>4, <2>9, <2>12 DEF IsOf
<1> QED BY <1>1, <1>3, <1>4

-----------------------------------------------------------------------------
(* The method in front of a path.                                           *)

\* A sequence with one element in front.
LEMMA InFront ==
  ASSUME NEW S, NEW m \in S, NEW p \in Seq(S), NEW c, c = <<m>> \o p
  PROVE  /\ c \in Seq(S) /\ Len(c) = Len(p) + 1 /\ c[1] = m /\ Len(p) \in Nat
         /\ \A k \in 1..Len(p) : c[k + 1] = p[k]
         /\ \A k \in 2..Len(c) : c[k] = p[k - 1] /\ k - 1 \in 1..Len(p)
<1>1. PICK x, L : x = <<m>> /\ L = Len(p)
  OBVIOUS
<1>2. x \in Seq(S) /\ Len(x) = 1 /\ x[1] = m /\ L \in Nat
  BY <1>1
<1>3. c \in Seq(S) /\ Len(c) = L + 1 /\ c[1] = m /\ \A k \in 1..L : c[k + 1] = p[k]
  BY <1>1, <1>2
<1>4. ASSUME NEW k \in 2..Len(c) PROVE c[k] = p[k - 1] /\ k - 1 \in 1..L
  <2>1. k - 1 \in 1..L /\ (k - 1) + 1 = k
    BY <1>2, <1>3
  <2>2. c[(k - 1) + 1] = p[k - 1]
    BY <1>3, <2>1
  <2> QED BY <2>1, <2>2
<1> QED BY <1>1, <1>2, <1>3, <1>4

\* A method is a plain token of its own.
LEMMA VerbIs ==
  ASSUME NEW m \in Verbs
  PROVE  m \in Tokens /\ m \notin Variables /\ m \notin Wildcards /\ m # "/"
<1> QED BY TokensAre DEF Verbs

\* The slashes at the end are cut the same with a method in front.
LEMMA TrimmedBehind ==
  ASSUME NEW m \in Verbs, NEW p \in Seq(Tokens)
  PROVE  Trimmed(<<m>> \o p) = <<m>> \o Trimmed(p)
<1>1. PICK q, c, d : q = Trimmed(p) /\ c = <<m>> \o p /\ d = <<m>> \o q
  OBVIOUS
<1>2. q \in Seq(Tokens) /\ TrimsTo(p, q) /\ m \in Tokens /\ m # "/"
  BY <1>1, TrimmedFacts, VerbIs
<1>3. /\ c \in Seq(Tokens) /\ Len(c) = Len(p) + 1 /\ c[1] = m /\ Len(p) \in Nat
      /\ \A k \in 2..Len(c) : c[k] = p[k - 1] /\ k - 1 \in 1..Len(p)
  BY <1>1, <1>2, InFront
<1>4. /\ d \in Seq(Tokens) /\ Len(d) = Len(q) + 1 /\ d[1] = m /\ Len(q) \in Nat
      /\ \A k \in 2..Len(d) : d[k] = q[k - 1] /\ k - 1 \in 1..Len(q)
  BY <1>1, <1>2, InFront
<1>5. Len(d) <= Len(c)
  BY <1>2, <1>3, <1>4 DEF TrimsTo
<1>6. ASSUME NEW k \in 1..Len(d) PROVE d[k] = c[k]
  <2>1. CASE k = 1
    BY <1>3, <1>4, <2>1
  <2>2. CASE k # 1
    <3>1. k \in 2..Len(d) /\ k \in 2..Len(c)
      BY <1>3, <1>4, <1>5, <2>2
    <3>2. q[k - 1] = p[k - 1]
      BY <1>2, <1>4, <3>1 DEF TrimsTo
    <3> QED BY <1>3, <1>4, <3>1, <3>2
  <2> QED BY <2>1, <2>2
<1>7. ASSUME NEW k \in (Len(d) + 1)..Len(c) PROVE c[k] = "/"
  <2>1. k \in 2..Len(c) /\ k - 1 \in (Len(q) + 1)..Len(p)
    BY <1>3, <1>4
  <2>2. p[k - 1] = "/"
    BY <1>2, <2>1 DEF TrimsTo
  <2> QED BY <1>3, <2>1, <2>2
<1>8. d[Len(d)] # "/"
  <2>1. CASE Len(q) = 0
    BY <1>2, <1>4, <2>1
  <2>2. CASE Len(q) # 0
    <3>1. Len(d) \in 2..Len(d) /\ Len(d) - 1 = Len(q)
      BY <1>4, <2>2
    <3>2. q[Len(q)] # "/"
      BY <1>2, <2>2 DEF TrimsTo
    <3> QED BY <1>4, <3>1, <3>2
  <2> QED BY <2>1, <2>2
<1>9. TrimsTo(c, d)
  BY <1>5, <1>6, <1>7, <1>8 DEF TrimsTo
<1>10. Trimmed(c) = d
  BY <1>3, <1>4, <1>9, TrimmedIs
<1> QED BY <1>1, <1>10

InFrontOf(m, t, T) == T = <<m>> \o t

\* A token reads the same one place further.
LEMMA StepsShift ==
  ASSUME NEW m \in Tokens, NEW t \in Seq(Tokens), NEW T, InFrontOf(m, t, T), NEW token \in Tokens,
         NEW a \in 0..Len(t), NEW b \in 0..Len(t)
  PROVE  /\ Steps(token, T, a + 1, b + 1) <=> Steps(token, t, a, b)
         /\ TakenBy(token, T, a + 1, b + 1) = TakenBy(token, t, a, b)
<1>1. PICK N : N = Len(t)
  OBVIOUS
<1>2. /\ T \in Seq(Tokens) /\ Len(T) = N + 1 /\ N \in Nat /\ a \in 0..N /\ b \in 0..N
      /\ \A k \in 1..N : T[k + 1] = t[k]
  BY <1>1, InFront DEF InFrontOf
<1>3. EndsSegment(T, a + 1, b + 1) <=> EndsSegment(t, a, b)
  <2>1. b + 1 \in (a + 1)..Len(T) <=> b \in a..N
    BY <1>2
  <2>2. (\A j \in ((a + 1) + 1)..(b + 1) : T[j] # "/") <=> (\A j \in (a + 1)..b : t[j] # "/")
    <3>1. ASSUME \A j \in ((a + 1) + 1)..(b + 1) : T[j] # "/", NEW j \in (a + 1)..b PROVE t[j] # "/"
      <4>1. j + 1 \in ((a + 1) + 1)..(b + 1) /\ j \in 1..N
        BY <1>2
      <4> QED BY <1>2, <3>1, <4>1
    <3>2. ASSUME \A j \in (a + 1)..b : t[j] # "/", NEW j \in ((a + 1) + 1)..(b + 1) PROVE T[j] # "/"
      <4>1. j - 1 \in (a + 1)..b /\ j - 1 \in 1..N /\ (j - 1) + 1 = j
        BY <1>2
      <4>2. T[(j - 1) + 1] = t[j - 1]
        BY <1>2, <4>1
      <4> QED BY <3>2, <4>1, <4>2
    <3> QED BY <3>1, <3>2
  <2>3. (b + 1 < Len(T) => T[(b + 1) + 1] = "/") <=> (b < N => t[b + 1] = "/")
    <3>1. b < N => b + 1 \in 1..N
      BY <1>2
    <3> QED BY <1>2, <3>1
  <2> QED BY <1>1, <2>1, <2>2, <2>3 DEF EndsSegment
<1>4. (a + 1 < Len(T) /\ T[(a + 1) + 1] = token /\ b + 1 = (a + 1) + 1) <=> (a < N /\ t[a + 1] = token /\ b = a + 1)
  <2>1. a < N => a + 1 \in 1..N
    BY <1>2
  <2> QED BY <1>2, <2>1
<1>5. (b + 1 = Len(T) <=> b = N) /\ (a + 1 = Len(T) <=> a = N) /\ (b + 1 = a + 1 <=> b = a)
  BY <1>2
<1>6. Steps(token, T, a + 1, b + 1) <=> Steps(token, t, a, b)
  BY <1>1, <1>3, <1>4, <1>5 DEF Steps
<1>7. SubSeq(T, (a + 1) + 1, b + 1) = SubSeq(t, a + 1, b)
  <2>1. PICK x, y : x = SubSeq(T, (a + 1) + 1, b + 1) /\ y = SubSeq(t, a + 1, b)
    OBVIOUS
  <2>2. CASE a <= b
    <3>1. x \in Seq(Tokens) /\ Len(x) = b - a /\ \A j \in 1..(b - a) : x[j] = T[(a + 1) + j]
      <4>1. PICK c, e : c = a + 1 /\ e = b + 1
        OBVIOUS
      <4>2. /\ c \in 1..Len(T) + 1 /\ e \in 0..Len(T) /\ c <= e /\ e - c = b - a
            /\ c \in Nat /\ e \in Nat /\ x = SubSeq(T, c + 1, e)
        BY <1>2, <2>1, <2>2, <4>1
      <4>3. x \in Seq(Tokens) /\ Len(x) = e - c /\ \A j \in 1..(e - c) : x[j] = T[c + j]
        BY <1>2, <4>2
      <4> QED BY <4>1, <4>2, <4>3
    <3>2. y \in Seq(Tokens) /\ Len(y) = b - a /\ \A j \in 1..(b - a) : y[j] = t[a + j]
      BY <1>1, <1>2, <2>1, <2>2
    <3>3. ASSUME NEW j \in 1..(b - a) PROVE x[j] = y[j]
      <4>1. a + j \in 1..N /\ (a + 1) + j = (a + j) + 1
        BY <1>2
      <4>2. T[(a + j) + 1] = t[a + j]
        BY <1>2, <4>1
      <4> QED BY <3>1, <3>2, <4>1, <4>2
    <3> QED BY <2>1, <3>1, <3>2, <3>3
  <2>3. CASE ~(a <= b)
    <3>1. x = <<>> /\ y = <<>>
      BY <1>1, <1>2, <2>1, <2>3
    <3> QED BY <2>1, <3>1
  <2> QED BY <2>2, <2>3, <1>2
<1>8. TakenBy(token, T, a + 1, b + 1) = TakenBy(token, t, a, b)
  BY <1>7 DEF TakenBy
<1> QED BY <1>6, <1>8

\* A run stays a run with the method in front of template and text.
LEMMA RunForth ==
  ASSUME NEW m \in Verbs, NEW p \in Seq(Tokens), NEW t \in Seq(Tokens), NEW at, NEW w, Run(p, t, at, w)
  PROVE  \E at2, w2 : /\ Run(<<m>> \o p, <<m>> \o t, at2, w2)
                      /\ at2[Len(p) + 1] = at[Len(p)] + 1 /\ w2[Len(p) + 1] = w[Len(p)]
<1>1. PICK q, T, n : q = <<m>> \o p /\ T = <<m>> \o t /\ n = Len(p)
  OBVIOUS
<1>2. m \in Tokens /\ m \notin Variables /\ m \notin Wildcards
  BY VerbIs
<1>3. /\ q \in Seq(Tokens) /\ Len(q) = n + 1 /\ q[1] = m /\ n \in Nat
      /\ \A k \in 2..Len(q) : q[k] = p[k - 1] /\ k - 1 \in 1..n
  BY <1>1, <1>2, InFront
<1>4. T \in Seq(Tokens) /\ Len(T) = Len(t) + 1 /\ T[1] = m /\ Len(t) \in Nat
  BY <1>1, <1>2, InFront
<1>20. InFrontOf(m, t, T)
  BY <1>1 DEF InFrontOf
<1>5. PICK at2, w2 : /\ at2 = [k \in 0..(n + 1) |-> IF k = 0 THEN 0 ELSE at[k - 1] + 1]
                     /\ w2 = [k \in 0..(n + 1) |-> IF k = 0 THEN <<>> ELSE w[k - 1]]
  OBVIOUS
<1>6. at2[0] = 0 /\ w2[0] = <<>> /\ \A k \in 1..(n + 1) : at2[k] = at[k - 1] + 1 /\ w2[k] = w[k - 1]
  BY <1>3, <1>5
<1>7. \A k \in 0..n : at[k] \in 0..Len(t) /\ w[k] \in Captures
  BY <1>1 DEF Run
<1>8. at2 \in [0..Len(q) -> 0..Len(T)] /\ w2 \in [0..Len(q) -> Captures]
  <2>1. ASSUME NEW k \in 0..(n + 1)
        PROVE  /\ (IF k = 0 THEN 0 ELSE at[k - 1] + 1) \in 0..Len(T)
               /\ (IF k = 0 THEN <<>> ELSE w[k - 1]) \in Captures
    <3>1. CASE k = 0
      <4>1. <<>> \in Captures
        BY DEF Captures
      <4> QED BY <1>4, <3>1, <4>1
    <3>2. CASE k # 0
      <4>1. k - 1 \in 0..n
        BY <1>3, <3>2
      <4> QED BY <1>4, <1>7, <3>2, <4>1
    <3> QED BY <3>1, <3>2
  <2> QED BY <1>3, <1>5, <2>1
<1>9. at[0] = 0 /\ w[0] = <<>>
  BY DEF Run
<1>10. ASSUME NEW k \in 1..Len(q)
       PROVE  /\ Steps(q[k], T, at2[k - 1], at2[k])
              /\ w2[k] = w2[k - 1] \o TakenBy(q[k], T, at2[k - 1], at2[k])
  <2>1. CASE k = 1
    <3>1. at2[1] = 1 /\ w2[1] = <<>> /\ at2[1 - 1] = 0 /\ w2[1 - 1] = <<>>
      BY <1>3, <1>6, <1>9
    <3>2. Steps(m, T, 0, 1)
      BY <1>2, <1>4 DEF Steps
    <3>3. TakenBy(m, T, 0, 1) = <<>>
      BY <1>2 DEF TakenBy
    <3> QED BY <1>3, <2>1, <3>1, <3>2, <3>3
  <2>2. CASE k # 1
    <3>1. k - 1 \in 1..n /\ q[k] = p[k - 1] /\ k - 1 \in 1..(n + 1) /\ k \in 1..(n + 1) /\ (k - 1) - 1 \in 0..n /\ k - 1 \in 0..n
      BY <1>3, <2>2
    <3>2. PICK j : j = k - 1
      OBVIOUS
    <3>3. j \in 1..n /\ j \in 0..n /\ j - 1 \in 0..n /\ q[k] = p[j] /\ j \in 1..Len(p) /\ p[j] \in Tokens
      BY <1>1, <3>1, <3>2
    <3>4. at2[k] = at[j] + 1 /\ at2[j] = at[j - 1] + 1 /\ w2[k] = w[j] /\ w2[j] = w[j - 1]
      BY <1>6, <3>1, <3>2
    <3>5. Steps(p[j], t, at[j - 1], at[j]) /\ w[j] = w[j - 1] \o TakenBy(p[j], t, at[j - 1], at[j])
      BY <3>3 DEF Run
    <3>6. PICK a, b, token : a = at[j - 1] /\ b = at[j] /\ token = p[j]
      OBVIOUS
    <3>7. a \in 0..Len(t) /\ b \in 0..Len(t) /\ token \in Tokens
      BY <1>7, <3>3, <3>6
    <3>8. /\ Steps(token, T, a + 1, b + 1) <=> Steps(token, t, a, b)
          /\ TakenBy(token, T, a + 1, b + 1) = TakenBy(token, t, a, b)
      BY <1>2, <1>20, <3>7, StepsShift
    <3> QED BY <3>2, <3>3, <3>4, <3>5, <3>6, <3>8
  <2> QED BY <2>1, <2>2
<1>11. ASSUME NEW k \in 1..Len(q), k > 1 PROVE q[k - 1] \notin Wildcards
  <2>1. CASE k = 2
    BY <1>2, <1>3, <2>1
  <2>2. CASE k # 2
    <3>1. PICK j : j = k - 1
      OBVIOUS
    <3>2. j \in 2..Len(q) /\ j \in 1..n /\ j > 1 /\ j \in 1..Len(p)
      BY <1>1, <1>3, <1>11, <2>2, <3>1
    <3>3. q[j] = p[j - 1] /\ p[j - 1] \notin Wildcards
      BY <1>3, <3>2 DEF Run
    <3> QED BY <3>1, <3>3
  <2> QED BY <2>1, <2>2
<1>12. Run(q, T, at2, w2)
  BY <1>6, <1>8, <1>10, <1>11 DEF Run
<1>13. at2[n + 1] = at[n] + 1 /\ w2[n + 1] = w[n]
  <2>1. n + 1 \in 1..(n + 1) /\ (n + 1) - 1 = n
    BY <1>3
  <2> QED BY <1>6, <2>1
<1> QED BY <1>1, <1>12, <1>13

\* A run behind a method is a run, and both methods are the same.
LEMMA RunBack ==
  ASSUME NEW m \in Verbs, NEW mm \in Verbs, NEW p \in Seq(Tokens), NEW t \in Seq(Tokens), NEW at, NEW w,
         Run(<<mm>> \o p, <<m>> \o t, at, w)
  PROVE  /\ mm = m
         /\ \E at2, w2 : /\ Run(p, t, at2, w2)
                         /\ at2[Len(p)] = at[Len(p) + 1] - 1 /\ w2[Len(p)] = w[Len(p) + 1]
<1>1. PICK q, T, n : q = <<mm>> \o p /\ T = <<m>> \o t /\ n = Len(p)
  OBVIOUS
<1>2. m \in Tokens /\ mm \in Tokens /\ mm \notin Variables /\ mm \notin Wildcards /\ mm # "/"
  BY VerbIs
<1>3. /\ q \in Seq(Tokens) /\ Len(q) = n + 1 /\ q[1] = mm /\ n \in Nat
      /\ \A k \in 1..n : q[k + 1] = p[k]
  BY <1>1, <1>2, InFront
<1>4. T \in Seq(Tokens) /\ Len(T) = Len(t) + 1 /\ T[1] = m /\ Len(t) \in Nat
  BY <1>1, <1>2, InFront
<1>20. InFrontOf(m, t, T)
  BY <1>1 DEF InFrontOf
<1>5. /\ at \in [0..(n + 1) -> 0..(Len(t) + 1)] /\ w \in [0..(n + 1) -> Captures] /\ at[0] = 0 /\ w[0] = <<>>
      /\ \A k \in 1..(n + 1) :
            /\ Steps(q[k], T, at[k - 1], at[k])
            /\ w[k] = w[k - 1] \o TakenBy(q[k], T, at[k - 1], at[k])
            /\ k > 1 => q[k - 1] \notin Wildcards
  BY <1>1, <1>3, <1>4 DEF Run
<1>6. mm = m /\ at[1] = 1 /\ w[1] = <<>>
  <2>1. 1 \in 1..(n + 1) /\ 1 - 1 = 0
    BY <1>3
  <2>2. Steps(mm, T, 0, at[1]) /\ w[1] = <<>> \o TakenBy(mm, T, 0, at[1])
    BY <1>3, <1>5, <2>1
  <2>3. T[0 + 1] = mm /\ at[1] = 0 + 1
    BY <1>2, <2>2 DEF Steps
  <2>4. w[1] = <<>>
    BY <1>2, <2>2 DEF TakenBy
  <2> QED BY <1>4, <2>3, <2>4
<1>7. ASSUME NEW k \in 1..n PROVE k + 1 \in 1..(n + 1) /\ k \in 0..(n + 1) /\ (k + 1) - 1 = k
  BY <1>3
<1> DEFINE U == {k \in 0..n : at[k + 1] >= 1}
<1>8. \A k \in 0..n : at[k + 1] >= 1 /\ at[k + 1] \in 0..(Len(t) + 1)
  <2>1. 0 \in U
    BY <1>3, <1>6
  <2>2. ASSUME NEW k \in 1..n, k - 1 \in U PROVE k \in U
    <3>1. PICK a, b : a = at[k] /\ b = at[k + 1]
      OBVIOUS
    <3>2. k + 1 \in 0..(n + 1) /\ k \in 0..n /\ (k - 1) + 1 = k
      BY <1>3
    <3>3. a >= 1 /\ a \in 0..Len(T) /\ b \in 0..Len(T)
      BY <1>4, <1>5, <1>7, <2>2, <3>1, <3>2
    <3>4. Steps(q[k + 1], T, a, b)
      BY <1>5, <1>7, <3>1
    <3>5. b >= a
      BY <1>4, <3>3, <3>4 DEF Steps, EndsSegment
    <3> QED BY <1>4, <3>1, <3>2, <3>3, <3>5
  <2> HIDE DEF U
  <2>3. \A k \in 0..n : k \in U
    BY <1>3, <2>1, <2>2, Upwards
  <2>4. ASSUME NEW k \in 0..n PROVE at[k + 1] >= 1 /\ at[k + 1] \in 0..(Len(t) + 1)
    <3>1. at[k + 1] >= 1
      BY <2>3 DEF U
    <3>2. k + 1 \in 0..(n + 1)
      BY <1>3
    <3>3. at[k + 1] \in 0..(Len(t) + 1)
      BY <1>5, <3>2
    <3> QED BY <3>1, <3>3
  <2> QED BY <2>4
<1>9. PICK at2, w2 : at2 = [k \in 0..n |-> at[k + 1] - 1] /\ w2 = [k \in 0..n |-> w[k + 1]]
  OBVIOUS
<1>10. \A k \in 0..n : at2[k] \in 0..Len(t) /\ at2[k] + 1 = at[k + 1] /\ w2[k] = w[k + 1] /\ w2[k] \in Captures
  <2>1. \A k \in 0..n : at2[k] = at[k + 1] - 1 /\ w2[k] = w[k + 1] /\ k + 1 \in 0..(n + 1)
    BY <1>3, <1>9
  <2> SUFFICES ASSUME NEW k \in 0..n
               PROVE  at2[k] \in 0..Len(t) /\ at2[k] + 1 = at[k + 1] /\ w2[k] = w[k + 1] /\ w2[k] \in Captures
    OBVIOUS
  <2>2. PICK a : a = at[k + 1]
    OBVIOUS
  <2>3. a >= 1 /\ a \in 0..(Len(t) + 1) /\ at2[k] = a - 1
    BY <1>8, <2>1, <2>2
  <2>4. a - 1 \in 0..Len(t) /\ (a - 1) + 1 = a
    BY <1>4, <2>3
  <2>5. w2[k] = w[k + 1] /\ w[k + 1] \in Captures
    BY <1>5, <2>1
  <2> QED BY <2>2, <2>3, <2>4, <2>5
<1>11. at2 \in [0..n -> 0..Len(t)] /\ w2 \in [0..n -> Captures]
  BY <1>9, <1>10
<1>12. at2[0] = 0 /\ w2[0] = <<>>
  <2>1. 0 \in 0..n /\ 0 + 1 = 1
    BY <1>3
  <2> QED BY <1>6, <1>9, <2>1
<1>13. ASSUME NEW k \in 1..n
       PROVE  /\ Steps(p[k], t, at2[k - 1], at2[k])
              /\ w2[k] = w2[k - 1] \o TakenBy(p[k], t, at2[k - 1], at2[k])
  <2>1. k \in 0..n /\ k - 1 \in 0..n /\ (k - 1) + 1 = k /\ k \in 1..Len(p)
    BY <1>1, <1>3
  <2>2. PICK a, b, token : a = at2[k - 1] /\ b = at2[k] /\ token = p[k]
    OBVIOUS
  <2>3. a \in 0..Len(t) /\ b \in 0..Len(t) /\ token \in Tokens /\ at[k] = a + 1 /\ at[k + 1] = b + 1
    BY <1>10, <2>1, <2>2
  <2>4. q[k + 1] = token /\ w2[k] = w[k + 1] /\ w2[k - 1] = w[k]
    BY <1>3, <1>10, <2>1, <2>2
  <2>5. Steps(token, T, a + 1, b + 1) /\ w[k + 1] = w[k] \o TakenBy(token, T, a + 1, b + 1)
    BY <1>5, <1>7, <2>3, <2>4
  <2>6. /\ Steps(token, T, a + 1, b + 1) <=> Steps(token, t, a, b)
        /\ TakenBy(token, T, a + 1, b + 1) = TakenBy(token, t, a, b)
    BY <1>2, <1>20, <2>3, StepsShift
  <2> QED BY <2>2, <2>4, <2>5, <2>6
<1>14. ASSUME NEW k \in 1..n, k > 1 PROVE p[k - 1] \notin Wildcards
  <2>1. k - 1 \in 1..n /\ (k - 1) + 1 = k /\ k + 1 > 1
    BY <1>3, <1>14
  <2>2. q[(k + 1) - 1] \notin Wildcards
    BY <1>5, <1>7, <2>1
  <2> QED BY <1>3, <1>7, <2>1, <2>2
<1>15. Run(p, t, at2, w2)
  BY <1>1, <1>11, <1>12, <1>13, <1>14 DEF Run
<1>16. at2[n] = at[n + 1] - 1 /\ w2[n] = w[n + 1]
  <2>1. n \in 0..n
    BY <1>3
  <2> QED BY <1>9, <2>1
<1> QED BY <1>1, <1>6, <1>15, <1>16

-----------------------------------------------------------------------------
(* The variables of a template and what they took.                          *)

\* A run that goes on through the slashes at the end of the template.
Paced(p, t, at, w) ==
    /\ Strides(p, t, at)
    /\ w \in [0..Len(p) -> Captures] /\ w[0] = <<>>
    /\ \A k \in 1..Len(p) : w[k] = w[k - 1] \o TakenBy(p[k], t, at[k - 1], at[k])

\* A run along the trimmed template goes on to the end of the template.
LEMMA RunOn ==
  ASSUME NEW p \in Seq(Tokens), NEW q \in Seq(Tokens), TrimsTo(p, q), NEW t \in Seq(Tokens),
         NEW at, NEW w, Run(q, t, at, w), at[Len(q)] = Len(t)
  PROVE  \E at2, w2 : Paced(p, t, at2, w2) /\ at2[Len(p)] = Len(t) /\ w2[Len(p)] = w[Len(q)]
<1>1. PICK n, m, N : n = Len(p) /\ m = Len(q) /\ N = Len(t)
  OBVIOUS
<1>2. n \in Nat /\ m \in Nat /\ N \in Nat /\ m <= n
  BY <1>1 DEF TrimsTo
<1>3. /\ at \in [0..m -> 0..N] /\ w \in [0..m -> Captures] /\ at[0] = 0 /\ w[0] = <<>> /\ at[m] = N
      /\ \A k \in 1..m : Steps(q[k], t, at[k - 1], at[k]) /\ w[k] = w[k - 1] \o TakenBy(q[k], t, at[k - 1], at[k])
  BY <1>1 DEF Run
<1>4. PICK at2, w2 : /\ at2 = [k \in 0..n |-> IF k <= m THEN at[k] ELSE N]
                     /\ w2 = [k \in 0..n |-> IF k <= m THEN w[k] ELSE w[m]]
  OBVIOUS
<1>5. ASSUME NEW k \in 0..n
      PROVE  /\ k <= m => at2[k] = at[k] /\ w2[k] = w[k] /\ k \in 0..m
             /\ k >= m => at2[k] = N /\ w2[k] = w[m]
             /\ at2[k] \in 0..N /\ w2[k] \in Captures
  <2>1. at2[k] = (IF k <= m THEN at[k] ELSE N) /\ w2[k] = (IF k <= m THEN w[k] ELSE w[m])
    BY <1>4
  <2>2. m \in 0..m /\ N \in 0..N
    BY <1>2
  <2>3. CASE k <= m
    <3>1. k \in 0..m
      BY <1>2, <2>3
    <3>2. k >= m => k = m
      BY <1>2, <2>3
    <3> QED BY <1>3, <2>1, <2>3, <3>1, <3>2
  <2>4. CASE ~(k <= m)
    BY <1>3, <2>1, <2>2, <2>4
  <2> QED BY <2>3, <2>4
<1>6. at2 \in [0..n -> 0..N] /\ w2 \in [0..n -> Captures]
  <2>1. at2 = [k \in 0..n |-> at2[k]] /\ w2 = [k \in 0..n |-> w2[k]]
    BY <1>4
  <2> QED BY <1>5, <2>1
<1>7. at2[0] = 0 /\ w2[0] = <<>>
  <2>1. 0 \in 0..n /\ 0 <= m
    BY <1>2
  <2> QED BY <1>3, <1>5, <2>1
<1>8. ASSUME NEW k \in 1..n
      PROVE  Steps(p[k], t, at2[k - 1], at2[k]) /\ w2[k] = w2[k - 1] \o TakenBy(p[k], t, at2[k - 1], at2[k])
  <2>1. k \in 0..n /\ k - 1 \in 0..n
    BY <1>2
  <2>2. CASE k <= m
    <3>1. k - 1 <= m /\ k \in 1..m
      BY <1>2, <2>2
    <3>2. at2[k] = at[k] /\ w2[k] = w[k] /\ at2[k - 1] = at[k - 1] /\ w2[k - 1] = w[k - 1]
      BY <1>5, <2>1, <2>2, <3>1
    <3>3. p[k] = q[k]
      BY <1>1, <3>1 DEF TrimsTo
    <3> QED BY <1>3, <3>1, <3>2, <3>3
  <2>3. CASE ~(k <= m)
    <3>1. k >= m /\ k - 1 >= m /\ k \in (m + 1)..n
      BY <1>2, <2>3
    <3>2. at2[k] = N /\ at2[k - 1] = N /\ w2[k] = w[m] /\ w2[k - 1] = w[m] /\ w[m] \in Captures
      BY <1>2, <1>3, <1>5, <2>1, <3>1
    <3>3. p[k] = "/"
      BY <1>1, <3>1 DEF TrimsTo
    <3>4. Steps(p[k], t, N, N)
      BY <1>1, <3>3 DEF Steps
    <3>5. TakenBy(p[k], t, N, N) = <<>>
      BY <3>3, TokensAre DEF TakenBy
    <3>6. w[m] \o <<>> = w[m]
      BY <3>2, ConcatFacts
    <3> QED BY <3>2, <3>4, <3>5, <3>6
  <2> QED BY <2>2, <2>3
<1>9. Paced(p, t, at2, w2)
  BY <1>1, <1>6, <1>7, <1>8 DEF Paced, Strides
<1>10. at2[n] = N /\ w2[n] = w[m]
  <2>1. n \in 0..n /\ n >= m
    BY <1>2
  <2> QED BY <1>5, <2>1
<1> QED BY <1>1, <1>9, <1>10

NamedBy(p, names) ==
    /\ names \in [0..Len(p) -> Seq(Tokens)] /\ names[0] = <<>>
    /\ \A k \in 1..Len(p) : names[k] = IF p[k] \in Variables THEN Append(names[k - 1], p[k]) ELSE names[k - 1]

\* The names of a template, token by token.
LEMMA NamesIs ==
  ASSUME NEW p \in Seq(Tokens)
  PROVE  NamedBy(p, NamesUpto(p))
<1> DEFINE Next1(k, x) == IF p[k] \in Variables THEN Append(x, p[k]) ELSE x
           G(u) == [k \in 0..Len(p) |-> IF k = 0 THEN <<>>
                                        ELSE IF p[k] \in Variables THEN Append(u[k - 1], p[k]) ELSE u[k - 1]]
           step == [z \in (1..Len(p)) \X Seq(Tokens) |-> Next1(z[1], z[2])]
<1>1. ASSUME NEW k \in 1..Len(p), NEW x \in Seq(Tokens) PROVE Next1(k, x) \in Seq(Tokens)
  <2>1. p[k] \in Tokens
    OBVIOUS
  <2> QED BY <2>1
<1>2. Len(p) \in Nat /\ <<>> \in Seq(Tokens)
  OBVIOUS
<1> HIDE DEF Next1
<1>3. step \in [(1..Len(p)) \X Seq(Tokens) -> Seq(Tokens)]
  <2>1. ASSUME NEW z \in (1..Len(p)) \X Seq(Tokens) PROVE Next1(z[1], z[2]) \in Seq(Tokens)
    <3>1. z[1] \in 1..Len(p) /\ z[2] \in Seq(Tokens)
      OBVIOUS
    <3> QED BY <1>1, <3>1
  <2> QED BY <2>1
<1>4. PICK g \in [0..Len(p) -> Seq(Tokens)] : Iterates(g, Len(p), <<>>, step)
  <2>1. PICK n, S, b : n = Len(p) /\ S = Seq(Tokens) /\ b = <<>>
    OBVIOUS
  <2>2. PICK f : f = step
    OBVIOUS
  <2>3. n \in Nat /\ b \in S /\ f \in [(1..n) \X S -> S]
    BY <1>2, <1>3, <2>1, <2>2
  <2>4. \E h \in [0..n -> S] : Iterates(h, n, b, f)
    BY <2>3, Recursion
  <2> HIDE DEF step
  <2> QED BY <2>1, <2>2, <2>4
<1>5. \A k \in 0..Len(p) : g[k] = IF k = 0 THEN <<>> ELSE Next1(k, g[k - 1])
  <2>1. ASSUME NEW k \in 0..Len(p), k # 0 PROVE step[<<k, g[k - 1]>>] = Next1(k, g[k - 1])
    <3>1. k \in 1..Len(p) /\ g[k - 1] \in Seq(Tokens)
      BY <2>1
    <3> QED BY <3>1
  <2> HIDE DEF step
  <2> QED BY <1>4, <2>1 DEF Iterates
<1>6. g = G(g)
  BY <1>5 DEF Next1
<1>7. NamesUpto(p) = CHOOSE u : u = G(u)
  BY Zenon DEF NamesUpto
<1>8. NamesUpto(p) = G(NamesUpto(p))
  <2> HIDE DEF G
  <2> QED BY <1>6, <1>7
<1>9. PICK u : u = NamesUpto(p)
  OBVIOUS
<1>10. u = G(u)
  BY <1>8, <1>9
<1>11. \A k \in 0..Len(p) : u[k] = IF k = 0 THEN <<>> ELSE Next1(k, u[k - 1])
  BY <1>10 DEF Next1
<1>12. DOMAIN u = 0..Len(p)
  BY <1>10
<1>13. \A k \in 0..Len(p) : u[k] \in Seq(Tokens)
  <2> DEFINE T == {k \in 0..Len(p) : u[k] \in Seq(Tokens)}
  <2>1. 0 \in T
    <3>1. u[0] = <<>> /\ 0 \in 0..Len(p)
      BY <1>2, <1>11
    <3>2. u[0] \in Seq(Tokens)
      BY <1>2, <3>1
    <3> QED BY <3>1, <3>2
  <2>2. ASSUME NEW k \in 1..Len(p), k - 1 \in T PROVE k \in T
    <3>1. k \in 0..Len(p) /\ k # 0 /\ u[k - 1] \in Seq(Tokens)
      BY <2>2
    <3>2. u[k] = Next1(k, u[k - 1])
      BY <1>11, <3>1
    <3>3. Next1(k, u[k - 1]) \in Seq(Tokens)
      BY <1>1, <3>1
    <3> QED BY <3>1, <3>2, <3>3
  <2> HIDE DEF T
  <2>3. \A k \in 0..Len(p) : k \in T
    BY <1>2, <2>1, <2>2, Upwards
  <2> QED BY <2>3 DEF T
<1>14. u \in [0..Len(p) -> Seq(Tokens)]
  <2>1. u = [k \in 0..Len(p) |-> u[k]]
    BY <1>10, <1>12
  <2> QED BY <1>13, <2>1
<1>15. u[0] = <<>>
  BY <1>2, <1>11
<1>16. ASSUME NEW k \in 1..Len(p) PROVE u[k] = IF p[k] \in Variables THEN Append(u[k - 1], p[k]) ELSE u[k - 1]
  <2>1. k \in 0..Len(p) /\ k # 0
    OBVIOUS
  <2>2. u[k] = Next1(k, u[k - 1])
    BY <1>11, <2>1
  <2> QED BY <2>2 DEF Next1
<1> QED BY <1>9, <1>14, <1>15, <1>16 DEF NamedBy

-----------------------------------------------------------------------------
(* A more specific template leads to a node that comes before.              *)

\* Of two nodes at most one comes before the other.
LEMMA PrecedesOneWay ==
  ASSUME NEW r \in Seq(AllSuffixes), NEW q \in Seq(AllSuffixes), Precedes(r, q), Precedes(q, r) \/ r = q
  PROVE  FALSE
<1>1. ASSUME NEW x \in AllSuffixes, NEW y \in AllSuffixes, Less(x, y) PROVE ~Less(y, x) /\ x # y
  <2>1. PICK a, b, c, d : a = RankOf(x) /\ b = RankOf(y) /\ c = Len(x.pattern) /\ d = Len(y.pattern)
    OBVIOUS
  <2>2. c \in Nat /\ d \in Nat
    BY <2>1, SuffixKinds
  <2>3. a \in 1..3 /\ b \in 1..3 /\ (a < b \/ (a = b /\ c > d))
    BY <1>1, <2>1, LessIs
  <2>4. Less(y, x) <=> b < a \/ (b = a /\ d > c)
    BY <2>1, LessIs
  <2>5. ~Less(y, x)
    BY <2>2, <2>3, <2>4
  <2> QED BY <1>1, <2>5
<1>2. PICK k \in 1..Len(q) : Differ(r, q, k)
  BY DEF Precedes
<1>3. Len(r) \in Nat /\ Len(q) \in Nat
  OBVIOUS
<1>4. \A j \in 1..(k - 1) : j <= Len(r) /\ r[j] = q[j]
  BY <1>2 DEF Differ
<1>5. Len(r) = k - 1 \/ (k <= Len(r) /\ Less(r[k], q[k]))
  BY <1>2 DEF Differ
<1>6. CASE r = q
  <2>1. Less(r[k], r[k]) /\ r[k] \in AllSuffixes
    BY <1>2, <1>3, <1>5, <1>6
  <2> QED BY <1>1, <2>1
<1>7. CASE Precedes(q, r)
  <2>1. PICK l \in 1..Len(r) : Differ(q, r, l)
    BY <1>7 DEF Precedes
  <2>2. \A j \in 1..(l - 1) : j <= Len(q) /\ q[j] = r[j]
    BY <2>1 DEF Differ
  <2>3. Len(q) = l - 1 \/ (l <= Len(q) /\ Less(q[l], r[l]))
    BY <2>1 DEF Differ
  <2>4. CASE k < l
    <3>1. k \in 1..(l - 1) /\ k <= Len(r) /\ k \in 1..Len(r)
      BY <1>2, <1>3, <2>1, <2>4
    <3>2. r[k] \in AllSuffixes /\ q[k] = r[k]
      BY <2>2, <3>1
    <3>3. Less(r[k], q[k])
      BY <1>3, <1>5, <3>1
    <3> QED BY <1>1, <3>2, <3>3
  <2>5. CASE l < k
    <3>1. l \in 1..(k - 1) /\ l <= Len(q) /\ l \in 1..Len(q)
      BY <1>2, <1>3, <2>1, <2>5
    <3>2. q[l] \in AllSuffixes /\ q[l] = r[l]
      BY <1>4, <3>1
    <3>3. Less(q[l], r[l])
      BY <1>3, <2>3, <3>1
    <3> QED BY <1>1, <3>2, <3>3
  <2>6. CASE k = l
    <3>1. k \in 1..Len(r) /\ r[k] \in AllSuffixes /\ q[k] \in AllSuffixes
      BY <1>2, <2>1, <2>6
    <3>2. Less(r[k], q[k]) /\ Less(q[k], r[k])
      BY <1>2, <1>3, <1>5, <2>1, <2>3, <2>6, <3>1
    <3> QED BY <1>1, <3>1, <3>2
  <2> QED BY <1>2, <1>3, <2>1, <2>4, <2>5, <2>6
<1> QED BY <1>6, <1>7

\* n goes on from m: the last suffix of m may have become longer.
Grows(m, n) ==
    /\ Len(m) <= Len(n)
    /\ \A k \in 1..Len(m) : k < Len(m) => n[k] = m[k]
    /\ m # <<>> => n[Len(m)].kind = m[Len(m)].kind /\ Len(n[Len(m)].pattern) >= Len(m[Len(m)].pattern)

\* A node and one suffix more.
LEMMA AppendFacts ==
  ASSUME NEW m \in Seq(AllSuffixes), NEW x \in AllSuffixes, NEW n, n = Append(m, x)
  PROVE  /\ n \in Seq(AllSuffixes) /\ Len(n) = Len(m) + 1 /\ n[Len(m) + 1] = x /\ Len(m) \in Nat
         /\ \A k \in 1..Len(m) : n[k] = m[k]
<1> QED OBVIOUS

\* A pattern has a length.
LEMMA PatternLength ==
  ASSUME NEW x \in AllSuffixes
  PROVE  Len(x.pattern) \in Nat
<1> QED BY SuffixKinds

\* One token more makes a node grow.
LEMMA GrowsWith ==
  ASSUME NEW m \in Seq(AllSuffixes), NEW token \in Tokens
  PROVE  Grows(m, With(m, token))
<1>1. CASE ~(Plain(token) /\ Open(m))
  <2>1. PICK x, n : x = Begun(token) /\ n = With(m, token)
    OBVIOUS
  <2>2. x \in AllSuffixes /\ n = Append(m, x)
    BY <1>1, <2>1, WithBegun, BegunIs
  <2>3. Len(n) = Len(m) + 1 /\ Len(m) \in Nat /\ \A k \in 1..Len(m) : n[k] = m[k]
    BY <2>2, AppendFacts
  <2>4. m # <<>> => n[Len(m)] = m[Len(m)] /\ Len(m[Len(m)].pattern) \in Nat
    <3>1. SUFFICES ASSUME m # <<>> PROVE n[Len(m)] = m[Len(m)] /\ Len(m[Len(m)].pattern) \in Nat
      OBVIOUS
    <3>2. Len(m) \in 1..Len(m) /\ m[Len(m)] \in AllSuffixes
      BY <3>1
    <3> QED BY <2>3, <3>2, PatternLength
  <2>5. m # <<>> => n[Len(m)].kind = m[Len(m)].kind /\ Len(n[Len(m)].pattern) >= Len(m[Len(m)].pattern)
    BY <2>4
  <2> QED BY <2>1, <2>3, <2>5 DEF Grows
<1>2. CASE Plain(token) /\ Open(m)
  <2>1. PICK f \in Seq(AllSuffixes), s \in Seq(Tokens) :
           /\ Constant(s) \in AllSuffixes /\ m = Append(f, Constant(s))
           /\ Constant(Append(s, token)) \in AllSuffixes
           /\ With(m, token) = Append(f, Constant(Append(s, token)))
    BY <1>2, WithBegun
  <2>2. PICK n, x, y, L : n = With(m, token) /\ x = Constant(s) /\ y = Constant(Append(s, token)) /\ L = Len(f) + 1
    OBVIOUS
  <2>3. /\ Len(m) = L /\ Len(n) = L /\ L \in Nat /\ L = Len(f) + 1 /\ Len(f) \in Nat /\ m[L] = x /\ n[L] = y
        /\ \A k \in 1..Len(f) : m[k] = f[k] /\ n[k] = f[k]
    BY <2>1, <2>2, AppendFacts
  <2>4. x.kind = "constant" /\ y.kind = "constant" /\ Len(x.pattern) = Len(s) /\ Len(y.pattern) = Len(s) + 1 /\ Len(s) \in Nat
    BY <2>2 DEF Constant
  <2>5. \A k \in 1..Len(m) : k < Len(m) => n[k] = m[k]
    BY <2>3
  <2> QED BY <2>2, <2>3, <2>4, <2>5 DEF Grows
<1> QED BY <1>1, <1>2

\* What grows twice grows.
LEMMA GrowsOn ==
  ASSUME NEW m \in Seq(AllSuffixes), NEW n \in Seq(AllSuffixes), NEW o \in Seq(AllSuffixes), Grows(m, n), Grows(n, o)
  PROVE  Grows(m, o)
<1>1. PICK a, b, c : a = Len(m) /\ b = Len(n) /\ c = Len(o)
  OBVIOUS
<1>2. a \in Nat /\ b \in Nat /\ c \in Nat /\ a <= b /\ b <= c
  BY <1>1 DEF Grows
<1>3. ASSUME NEW k \in 1..a, k < a PROVE o[k] = m[k]
  <2>1. k \in 1..b /\ k < b
    BY <1>2, <1>3
  <2> QED BY <1>1, <1>3, <2>1 DEF Grows
<1>4. ASSUME m # <<>> PROVE o[a].kind = m[a].kind /\ Len(o[a].pattern) >= Len(m[a].pattern)
  <2>1. a \in 1..a /\ a \in 1..b /\ a \in 1..c /\ b \in 1..b /\ n # <<>>
    BY <1>1, <1>2, <1>4
  <2>2. m[a] \in AllSuffixes /\ n[a] \in AllSuffixes /\ o[a] \in AllSuffixes
    BY <1>1, <2>1
  <2>3. Len(m[a].pattern) \in Nat /\ Len(n[a].pattern) \in Nat /\ Len(o[a].pattern) \in Nat
    BY <2>2, PatternLength
  <2>4. n[a].kind = m[a].kind /\ Len(n[a].pattern) >= Len(m[a].pattern)
    BY <1>1, <1>4 DEF Grows
  <2>5. o[a].kind = n[a].kind /\ Len(o[a].pattern) >= Len(n[a].pattern)
    <3>1. CASE a = b
      BY <1>1, <2>1, <3>1 DEF Grows
    <3>2. CASE a < b
      <4>1. o[a] = n[a]
        BY <1>1, <2>1, <3>2 DEF Grows
      <4> QED BY <2>3, <4>1
    <3> QED BY <1>2, <3>1, <3>2
  <2>6. o[a].kind = m[a].kind
    BY <2>4, <2>5
  <2>7. \A i, j, l \in Nat : i >= j /\ j >= l => i >= l
    OBVIOUS
  <2> QED BY <2>3, <2>4, <2>5, <2>6, <2>7
<1>5. a <= c
  BY <1>2
<1>6. m # <<>> => o[Len(m)].kind = m[Len(m)].kind /\ Len(o[Len(m)].pattern) >= Len(m[Len(m)].pattern)
  BY <1>1, <1>4
<1>7. \A k \in 1..Len(m) : k < Len(m) => o[k] = m[k]
  BY <1>1, <1>3
<1> QED BY <1>1, <1>5, <1>6, <1>7 DEF Grows

\* What is parsed of a beginning grows to what is parsed of the template.
LEMMA GrowsUpto ==
  ASSUME NEW p \in Seq(Tokens), NEW d \in 0..Len(p)
  PROVE  /\ Parsed(p)[d] \in Seq(AllSuffixes) /\ Parsed(p)[Len(p)] \in Seq(AllSuffixes)
         /\ Grows(Parsed(p)[d], Parsed(p)[Len(p)])
<1>1. PICK n, u : n = Len(p) /\ u = Parsed(p)
  OBVIOUS
<1>2. n \in Nat /\ d \in 0..n
  BY <1>1
<1>3. u \in [0..n -> Seq(AllSuffixes)]
  BY <1>1, ParsedIs DEF ParsedBy
<1>4. PICK T : T = {k \in 0..n : k >= d => Grows(u[d], u[k])}
  OBVIOUS
<1>5. Grows(u[d], u[d])
  <2>1. PICK m \in Seq(AllSuffixes) : m = u[d]
    BY <1>2, <1>3
  <2>2. m # <<>> => Len(m[Len(m)].pattern) \in Nat
    <3>1. SUFFICES ASSUME m # <<>> PROVE Len(m[Len(m)].pattern) \in Nat
      OBVIOUS
    <3>2. m[Len(m)] \in AllSuffixes
      BY <3>1
    <3> QED BY <3>2, PatternLength
  <2>3. Len(m) \in Nat
    OBVIOUS
  <2>4. Grows(m, m)
    BY <2>2, <2>3 DEF Grows
  <2> QED BY <2>1, <2>4
<1>6. 0 \in T
  <2>1. 0 \in 0..n /\ (0 >= d => d = 0)
    BY <1>2
  <2> QED BY <1>4, <1>5, <2>1
<1>7. ASSUME NEW k \in 1..n, k - 1 \in T PROVE k \in T
  <2>1. k \in 0..n /\ k - 1 \in 0..n
    BY <1>2
  <2>2. CASE k <= d
    <3>1. k >= d => k = d
      BY <1>2, <2>1, <2>2
    <3> QED BY <1>4, <1>5, <2>1, <3>1
  <2>3. CASE k > d
    <3>1. k - 1 >= d
      BY <1>2, <2>3
    <3>2. Grows(u[d], u[k - 1])
      BY <1>4, <1>7, <3>1
    <3>3. u[k] = With(u[k - 1], p[k]) /\ p[k] \in Tokens
      BY <1>1, ParsedOn
    <3>4. u[k - 1] \in Seq(AllSuffixes) /\ u[k] \in Seq(AllSuffixes) /\ u[d] \in Seq(AllSuffixes)
      BY <1>2, <1>3, <2>1
    <3>5. Grows(u[k - 1], u[k])
      BY <3>3, <3>4, GrowsWith
    <3>6. Grows(u[d], u[k])
      BY <3>2, <3>4, <3>5, GrowsOn
    <3> QED BY <1>4, <2>1, <3>6
  <2> QED BY <1>2, <2>1, <2>2, <2>3
<1>8. \A k \in 0..n : k \in T
  BY <1>2, <1>6, <1>7, Upwards
<1>9. n \in 0..n /\ n >= d
  BY <1>2
<1>10. Grows(u[d], u[n])
  BY <1>4, <1>8, <1>9
<1> QED BY <1>1, <1>2, <1>3, <1>9, <1>10

\* Answers.tla MoreSpecific: what it compares of two templates.
TokenRank(path, k) == IF k > Len(path) THEN 0
                      ELSE CASE path[k] \in Wildcards             -> 3
                             [] path[k] \in Variables \ Wildcards -> 2
                             [] OTHER                             -> 1

\* The ranks are apart.
LEMMA TokenRankIs ==
  ASSUME NEW p \in Seq(Tokens), NEW k \in Nat
  PROVE  /\ k > Len(p) <=> TokenRank(p, k) = 0
         /\ k <= Len(p) /\ p[k] \in Wildcards <=> TokenRank(p, k) = 3
         /\ k <= Len(p) /\ p[k] \in Variables \ Wildcards <=> TokenRank(p, k) = 2
         /\ k <= Len(p) /\ p[k] \notin Variables <=> TokenRank(p, k) = 1
         /\ TokenRank(p, k) \in 0..3
<1>1. Len(p) \in Nat
  OBVIOUS
<1>2. CASE k > Len(p)
  <2>1. TokenRank(p, k) = 0
    BY <1>2 DEF TokenRank
  <2> QED BY <1>1, <1>2, <2>1
<1>3. CASE k <= Len(p) /\ p[k] \in Wildcards
  <2>1. TokenRank(p, k) = 3
    BY <1>1, <1>3 DEF TokenRank
  <2> QED BY <1>1, <1>3, <2>1, TokensAre
<1>4. CASE k <= Len(p) /\ p[k] \in Variables \ Wildcards
  <2>1. TokenRank(p, k) = 2
    BY <1>1, <1>4 DEF TokenRank
  <2> QED BY <1>1, <1>4, <2>1
<1>5. CASE k <= Len(p) /\ p[k] \notin Variables
  <2>1. TokenRank(p, k) = 1
    BY <1>1, <1>5, TokensAre DEF TokenRank
  <2> QED BY <1>1, <1>5, <2>1, TokensAre
<1> QED BY <1>1, <1>2, <1>3, <1>4, <1>5

SameToken(x, y) ==
    /\ x \in Variables <=> y \in Variables
    /\ x \in Wildcards <=> y \in Wildcards
    /\ x \notin Variables => x = y

\* p says more of a path than q from the d-th token on.
SaysMore(p, q, d) ==
    /\ d \in 1..Len(q) /\ d - 1 <= Len(p)
    /\ \A j \in 1..(d - 1) : SameToken(p[j], q[j])
    /\ \/ Len(p) = d - 1
       \/ d <= Len(p) /\ p[d] \notin Variables /\ q[d] \in Variables
       \/ d <= Len(p) /\ p[d] \in Variables \ Wildcards /\ q[d] \in Wildcards

\* A more specific template has a first token that says more.
LEMMA MoreSpecificSays ==
  ASSUME NEW p \in Seq(Tokens), NEW q \in Seq(Tokens), MoreSpecific(p, q)
  PROVE  \E d \in Nat : SaysMore(p, q, d)
<1>1. PICK D : D = {k \in 1..(Len(p) + Len(q)) :
                       \/ TokenRank(p, k) # TokenRank(q, k)
                       \/ TokenRank(p, k) = 1 /\ p[k] # q[k]}
  OBVIOUS
<1>2. D # {} /\ TokenRank(p, Min(D)) < TokenRank(q, Min(D))
  BY <1>1 DEF MoreSpecific, TokenRank
<1>3. PICK n, m : n = Len(p) /\ m = Len(q)
  OBVIOUS
<1>4. n \in Nat /\ m \in Nat /\ D \in SUBSET Nat
  BY <1>1, <1>3
<1>5. PICK d : d = Min(D)
  OBVIOUS
<1>6. d \in D /\ \A k \in D : d <= k
  BY <1>2, <1>4, <1>5, MinIs
<1>7. d \in 1..(n + m) /\ TokenRank(p, d) < TokenRank(q, d)
  BY <1>1, <1>2, <1>3, <1>5, <1>6
<1>8. d \in 1..m
  <2>1. ~(d > m)
    BY <1>3, <1>4, <1>7, TokenRankIs
  <2> QED BY <1>4, <1>7, <2>1
<1>9. ASSUME NEW j \in 1..(d - 1) PROVE j <= n /\ SameToken(p[j], q[j])
  <2>1. j \in Nat /\ j < d /\ j <= m /\ j \in 1..(n + m)
    BY <1>4, <1>8
  <2>2. j \notin D
    BY <1>4, <1>6, <2>1
  <2>3. TokenRank(p, j) = TokenRank(q, j) /\ (TokenRank(p, j) = 1 => p[j] = q[j])
    BY <1>1, <1>3, <2>1, <2>2
  <2>4. TokenRank(q, j) # 0
    BY <1>3, <1>4, <2>1, TokenRankIs
  <2>5. j <= n
    BY <1>3, <1>4, <2>1, <2>3, <2>4, TokenRankIs
  <2>6. /\ p[j] \in Wildcards <=> TokenRank(p, j) = 3
        /\ p[j] \in Variables \ Wildcards <=> TokenRank(p, j) = 2
        /\ p[j] \notin Variables <=> TokenRank(p, j) = 1
    BY <1>3, <2>1, <2>5, TokenRankIs
  <2>7. /\ q[j] \in Wildcards <=> TokenRank(q, j) = 3
        /\ q[j] \in Variables \ Wildcards <=> TokenRank(q, j) = 2
        /\ q[j] \notin Variables <=> TokenRank(q, j) = 1
    BY <1>3, <2>1, TokenRankIs
  <2>8. PICK a : a = TokenRank(p, j)
    OBVIOUS
  <2>9. SameToken(p[j], q[j])
    BY <2>3, <2>6, <2>7, <2>8, TokensAre DEF SameToken
  <2> QED BY <2>5, <2>9
<1>10. d - 1 <= n
  <2>1. CASE d = 1
    BY <1>4, <2>1
  <2>2. CASE d # 1
    <3>1. d - 1 \in 1..(d - 1)
      BY <1>8, <2>2
    <3> QED BY <1>9, <3>1
  <2> QED BY <2>1, <2>2
<1>11. \/ n = d - 1
       \/ d <= n /\ p[d] \notin Variables /\ q[d] \in Variables
       \/ d <= n /\ p[d] \in Variables \ Wildcards /\ q[d] \in Wildcards
  <2>1. CASE n < d
    BY <1>4, <1>8, <1>10, <2>1
  <2>2. CASE d <= n
    <3>1. PICK a, b : a = TokenRank(p, d) /\ b = TokenRank(q, d)
      OBVIOUS
    <3>2. d \in Nat /\ a < b /\ a \in 0..3 /\ b \in 0..3
      BY <1>7, <1>8, <3>1, TokenRankIs
    <3>3. /\ p[d] \in Wildcards <=> a = 3
          /\ p[d] \in Variables \ Wildcards <=> a = 2
          /\ p[d] \notin Variables <=> a = 1
      BY <1>3, <1>4, <2>2, <3>1, <3>2, TokenRankIs
    <3>4. /\ q[d] \in Wildcards <=> b = 3
          /\ q[d] \in Variables \ Wildcards <=> b = 2
          /\ q[d] \notin Variables <=> b = 1
      BY <1>3, <1>4, <1>8, <3>1, <3>2, TokenRankIs
    <3>5. (a = 1 /\ (b = 2 \/ b = 3)) \/ (a = 2 /\ b = 3)
      <4>1. a # 0
        BY <1>3, <1>4, <2>2, <3>1, <3>2, TokenRankIs
      <4>2. a = 1 \/ a = 2 \/ a = 3
        BY <3>2, <4>1
      <4>3. b = 1 \/ b = 2 \/ b = 3
        BY <3>2, <4>2
      <4>4. a < b
        BY <3>2
      <4>5. CASE a = 1
        BY <4>3, <4>4, <4>5
      <4>6. CASE a = 2
        BY <4>3, <4>4, <4>6
      <4>7. CASE a = 3
        BY <4>3, <4>4, <4>7
      <4> QED BY <4>2, <4>5, <4>6, <4>7
    <3>6. CASE a = 1
      <4>1. p[d] \notin Variables /\ (q[d] \in Variables \ Wildcards \/ q[d] \in Wildcards)
        BY <3>3, <3>4, <3>5, <3>6
      <4> QED BY <2>2, <4>1, TokensAre
    <3>7. CASE a = 2
      <4>1. p[d] \in Variables \ Wildcards /\ q[d] \in Wildcards
        BY <3>3, <3>4, <3>5, <3>7
      <4> QED BY <2>2, <4>1
    <3> QED BY <3>5, <3>6, <3>7
  <2> QED BY <1>4, <1>8, <2>1, <2>2
<1>12. d \in Nat
  BY <1>8
<1> QED BY <1>3, <1>8, <1>9, <1>10, <1>11, <1>12 DEF SaysMore

\* It says more one place further, with the method in front.
LEMMA SaysMoreShift ==
  ASSUME NEW m \in Tokens, m \notin Variables, NEW p \in Seq(Tokens), NEW q \in Seq(Tokens), NEW P, NEW Q,
         P = <<m>> \o p, Q = <<m>> \o q, NEW d \in Nat, SaysMore(p, q, d)
  PROVE  SaysMore(P, Q, d + 1)
<1>1. /\ P \in Seq(Tokens) /\ Len(P) = Len(p) + 1 /\ P[1] = m /\ Len(p) \in Nat
      /\ \A k \in 1..Len(p) : P[k + 1] = p[k]
  BY InFront
<1>2. /\ Q \in Seq(Tokens) /\ Len(Q) = Len(q) + 1 /\ Q[1] = m /\ Len(q) \in Nat
      /\ \A k \in 1..Len(q) : Q[k + 1] = q[k]
  BY InFront
<1>3. d \in 1..Len(q) /\ d - 1 <= Len(p)
  BY DEF SaysMore
<1>4. ASSUME NEW j \in 1..d PROVE SameToken(P[j], Q[j])
  <2>1. CASE j = 1
    BY <1>1, <1>2, <2>1 DEF SameToken
  <2>2. CASE j # 1
    <3>1. PICK i \in 1..(d - 1) : j = i + 1
      <4>1. j - 1 \in 1..(d - 1) /\ j = (j - 1) + 1
        BY <1>3, <2>2
      <4> QED BY <4>1
    <3>2. SameToken(p[i], q[i]) /\ i \in 1..Len(p) /\ i \in 1..Len(q)
      BY <1>1, <1>2, <1>3 DEF SaysMore
    <3> QED BY <1>1, <1>2, <3>1, <3>2
  <2> QED BY <2>1, <2>2
<1>5. Q[d + 1] = q[d] /\ (d <= Len(p) => P[d + 1] = p[d])
  BY <1>1, <1>2, <1>3
<1>6. \/ Len(P) = (d + 1) - 1
      \/ d + 1 <= Len(P) /\ P[d + 1] \notin Variables /\ Q[d + 1] \in Variables
      \/ d + 1 <= Len(P) /\ P[d + 1] \in Variables \ Wildcards /\ Q[d + 1] \in Wildcards
  <2>1. CASE Len(p) = d - 1
    BY <1>1, <1>3, <2>1
  <2>2. CASE d <= Len(p) /\ p[d] \notin Variables /\ q[d] \in Variables
    <3>1. d + 1 <= Len(P)
      BY <1>1, <1>3, <2>2
    <3> QED BY <1>5, <2>2, <3>1
  <2>3. CASE d <= Len(p) /\ p[d] \in Variables \ Wildcards /\ q[d] \in Wildcards
    <3>1. d + 1 <= Len(P)
      BY <1>1, <1>3, <2>3
    <3> QED BY <1>5, <2>3, <3>1
  <2> QED BY <2>1, <2>2, <2>3 DEF SaysMore
<1>7. d + 1 \in 1..Len(Q) /\ (d + 1) - 1 <= Len(P) /\ (d + 1) - 1 = d
  BY <1>1, <1>2, <1>3
<1> QED BY <1>4, <1>6, <1>7 DEF SaysMore

\* Two variables, or two wildcards, are parsed to the same suffix.
LEMMA SameWith ==
  ASSUME NEW m \in Seq(AllSuffixes), NEW x \in Tokens, NEW y \in Tokens, SameToken(x, y)
  PROVE  With(m, x) = With(m, y)
<1>1. CASE x \notin Variables
  BY <1>1 DEF SameToken
<1>2. CASE x \in Wildcards
  <2>1. y \in Wildcards
    BY <1>2 DEF SameToken
  <2> QED BY <1>2, <2>1, WithIs
<1>3. CASE x \in Variables /\ x \notin Wildcards
  <2>1. y \in Variables /\ y \notin Wildcards
    BY <1>3 DEF SameToken
  <2> QED BY <1>3, <2>1, WithIs
<1> QED BY <1>1, <1>2, <1>3

\* Templates alike up to a token are parsed to the same node.
LEMMA SameParse ==
  ASSUME NEW p \in Seq(Tokens), NEW q \in Seq(Tokens), NEW d \in Nat, d <= Len(p), d <= Len(q),
         \A j \in 1..d : SameToken(p[j], q[j])
  PROVE  Parsed(p)[d] = Parsed(q)[d]
<1>1. PICK T : T = {k \in 0..d : Parsed(p)[k] = Parsed(q)[k]}
  OBVIOUS
<1>2. 0 \in 0..Len(p) /\ 0 \in 0..Len(q) /\ 0 \in 0..d /\ Len(p) \in Nat /\ Len(q) \in Nat
  OBVIOUS
<1>3. 0 \in T
  <2>1. Parsed(p)[0] = <<>> /\ Parsed(q)[0] = <<>>
    BY <1>2, ParsedIs DEF ParsedBy
  <2> QED BY <1>1, <1>2, <2>1
<1>4. ASSUME NEW k \in 1..d, k - 1 \in T PROVE k \in T
  <2>1. k \in 1..Len(p) /\ k \in 1..Len(q) /\ k \in 0..d
    BY <1>2
  <2>2. Parsed(p)[k] = With(Parsed(p)[k - 1], p[k]) /\ Parsed(p)[k - 1] \in Seq(AllSuffixes) /\ p[k] \in Tokens
    BY <2>1, ParsedOn
  <2>3. Parsed(q)[k] = With(Parsed(q)[k - 1], q[k]) /\ q[k] \in Tokens
    BY <2>1, ParsedOn
  <2>4. Parsed(p)[k - 1] = Parsed(q)[k - 1]
    BY <1>1, <1>4
  <2>5. SameToken(p[k], q[k])
    OBVIOUS
  <2>6. With(Parsed(p)[k - 1], p[k]) = With(Parsed(p)[k - 1], q[k])
    BY <2>2, <2>3, <2>5, SameWith
  <2> QED BY <1>1, <2>1, <2>2, <2>3, <2>4, <2>6
<1>5. \A k \in 0..d : k \in T
  BY <1>3, <1>4, Upwards
<1> QED BY <1>1, <1>5

\* What grows from an extended node has its suffix, or a longer one.
LEMMA GrowsAppend ==
  ASSUME NEW m \in Seq(AllSuffixes), NEW x \in AllSuffixes, NEW s \in Seq(AllSuffixes), Grows(Append(m, x), s)
  PROVE  /\ Len(m) + 1 <= Len(s) /\ Len(m) \in Nat
         /\ \A k \in 1..Len(m) : s[k] = m[k]
         /\ s[Len(m) + 1] \in AllSuffixes
         /\ s[Len(m) + 1].kind = x.kind /\ Len(s[Len(m) + 1].pattern) >= Len(x.pattern)
<1>1. PICK n, L : n = Append(m, x) /\ L = Len(m)
  OBVIOUS
<1>2. Len(n) = L + 1 /\ n[L + 1] = x /\ L \in Nat /\ \A k \in 1..L : n[k] = m[k]
  BY <1>1, AppendFacts
<1>3. n # <<>>
  BY <1>2
<1>4. Grows(n, s)
  BY <1>1
<1>5. L + 1 <= Len(s) /\ s[L + 1].kind = x.kind /\ Len(s[L + 1].pattern) >= Len(x.pattern)
  BY <1>2, <1>3, <1>4 DEF Grows
<1>6. \A k \in 1..L : s[k] = m[k]
  <2>1. SUFFICES ASSUME NEW k \in 1..L PROVE s[k] = m[k]
    OBVIOUS
  <2>2. k \in 1..(L + 1) /\ k < L + 1
    BY <1>2
  <2> QED BY <1>2, <1>4, <2>2 DEF Grows
<1>7. s[L + 1] \in AllSuffixes
  <2>1. L + 1 \in 1..Len(s)
    BY <1>2, <1>5
  <2> QED BY <2>1
<1> QED BY <1>1, <1>2, <1>5, <1>6, <1>7

\* The first suffix that differs decides which node comes before.
LEMMA PrecedesAt ==
  ASSUME NEW r \in Seq(AllSuffixes), NEW s \in Seq(AllSuffixes), NEW k \in Nat, k + 1 <= Len(r), k + 1 <= Len(s),
         \A j \in 1..k : r[j] = s[j], Less(r[k + 1], s[k + 1])
  PROVE  Precedes(r, s)
<1>1. k + 1 \in 1..Len(s) /\ (k + 1) - 1 = k /\ Len(r) \in Nat
  OBVIOUS
<1>2. \A j \in 1..k : j <= Len(r) /\ r[j] = s[j]
  BY <1>1
<1>3. Differ(r, s, k + 1)
  BY <1>1, <1>2 DEF Differ
<1> QED BY <1>1, <1>3 DEF Precedes

\* The last suffix of what is read before the tokens differ, in front of what
\* comes next, and what comes next in both.
LEMMA SpecificPrecedes ==
  ASSUME NEW p \in Seq(Tokens), NEW q \in Seq(Tokens), NEW d \in Nat, SaysMore(p, q, d), NEW t \in Seq(Tokens),
         NEW u, Leads(Parsed(p)[Len(p)], t, Len(t), u), NEW v, Leads(Parsed(q)[Len(q)], t, Len(t), v)
  PROVE  Precedes(Parsed(p)[Len(p)], Parsed(q)[Len(q)])
<1>1. PICK n, l, m, sp, sq : /\ n = Len(p) /\ l = Len(q) /\ m = Parsed(q)[d - 1]
                             /\ sp = Parsed(p)[n] /\ sq = Parsed(q)[l]
  OBVIOUS
<1>2. n \in Nat /\ l \in Nat /\ d \in 1..l /\ d - 1 <= n /\ d - 1 \in Nat
  BY <1>1 DEF SaysMore
<1>3. Parsed(p)[d - 1] = m
  <2>1. d - 1 <= Len(p) /\ d - 1 <= Len(q) /\ \A j \in 1..(d - 1) : SameToken(p[j], q[j])
    BY <1>1, <1>2 DEF SaysMore
  <2> QED BY <1>1, <1>2, <2>1, SameParse
<1>4. Parsed(q)[d] = With(m, q[d]) /\ m \in Seq(AllSuffixes) /\ q[d] \in Tokens
  BY <1>1, <1>2, ParsedOn
<1>5. Grows(With(m, q[d]), sq) /\ sq \in Seq(AllSuffixes)
  <2>1. d \in 0..Len(q)
    BY <1>1, <1>2
  <2> QED BY <1>1, <1>4, <2>1, GrowsUpto
<1>6. sp \in Seq(AllSuffixes)
  <2>1. d - 1 \in 0..Len(p)
    BY <1>1, <1>2
  <2> QED BY <1>1, <2>1, GrowsUpto
<1>7. PICK L : L = Len(m)
  OBVIOUS
<1>8. L \in Nat
  BY <1>4, <1>7
<1>9. CASE n = d - 1
  <2>1. sp = m
    BY <1>1, <1>3, <1>9
  <2>2. CASE ~(Plain(q[d]) /\ Open(m))
    <3>1. With(m, q[d]) = Append(m, Begun(q[d])) /\ Begun(q[d]) \in AllSuffixes
      BY <1>4, <2>2, WithBegun, BegunIs
    <3>2. L + 1 <= Len(sq) /\ \A k \in 1..L : sq[k] = m[k]
      BY <1>4, <1>5, <1>7, <3>1, GrowsAppend
    <3>3. Len(sp) = L /\ \A k \in 1..L : k <= L /\ sp[k] = sq[k]
      BY <1>7, <1>8, <2>1, <3>2
    <3>4. Differ(sp, sq, L + 1) /\ L + 1 \in 1..Len(sq)
      <4>1. Len(sq) \in Nat
        BY <1>5
      <4>2. (L + 1) - 1 = L /\ L + 1 \in 1..Len(sq)
        BY <1>8, <3>2, <4>1
      <4> QED BY <3>3, <4>2 DEF Differ
    <3> QED BY <1>1, <3>4 DEF Precedes
  <2>3. CASE Plain(q[d]) /\ Open(m)
    <3>1. PICK at, w : Run(q, t, at, w) /\ at[l] = Len(t)
      <4>1. PICK b : b = Len(t)
        OBVIOUS
      <4>2. Leads(Parsed(q)[Len(q)], t, b, v)
        BY <4>1
      <4>3. \E at, w : Run(q, t, at, w) /\ at[Len(q)] = b /\ w[Len(q)] = v
        BY <4>2, LeadsRun
      <4> QED BY <1>1, <4>1, <4>3
    <3>2. Leads(m, t, at[d - 1], w[d - 1])
      <4>1. d - 1 \in 0..Len(q)
        BY <1>1, <1>2
      <4> QED BY <1>1, <3>1, <4>1, RunLeads
    <3>3. Leads(m, t, Len(t), u)
      BY <1>1, <2>1
    <3>4. at[d - 1] = Len(t)
      BY <1>4, <3>2, <3>3, LeadsOnce
    <3>5. Steps(q[d], t, Len(t), at[d])
      BY <1>1, <1>2, <3>1, <3>4 DEF Run
    <3>6. q[d] \notin Variables /\ q[d] # "/" /\ q[d] \notin Wildcards
      BY <2>3, TokensAre DEF Plain
    <3>7. Len(t) < Len(t)
      BY <3>5, <3>6 DEF Steps
    <3> QED BY <3>7
  <2> QED BY <2>2, <2>3
<1>10. CASE n # d - 1
  <2>1. d \in 1..n
    BY <1>1, <1>2, <1>10 DEF SaysMore
  <2>2. \/ p[d] \notin Variables /\ q[d] \in Variables
        \/ p[d] \in Variables \ Wildcards /\ q[d] \in Wildcards
    BY <1>1, <1>10 DEF SaysMore
  <2>3. Parsed(p)[d] = With(m, p[d]) /\ p[d] \in Tokens
    BY <1>1, <1>3, <2>1, ParsedOn
  <2>4. Grows(With(m, p[d]), sp)
    <3>1. d \in 0..Len(p)
      BY <1>1, <2>1
    <3> QED BY <1>1, <2>3, <3>1, GrowsUpto
  <2>5. PICK y : y = Begun(q[d])
    OBVIOUS
  <2>6. ~Plain(q[d])
    BY <2>2, TokensAre DEF Plain
  <2>7. y \in AllSuffixes /\ With(m, q[d]) = Append(m, y)
    BY <1>4, <2>5, <2>6, WithBegun, BegunIs
  <2>8. /\ L + 1 <= Len(sq) /\ \A k \in 1..L : sq[k] = m[k]
        /\ sq[L + 1] \in AllSuffixes /\ sq[L + 1].kind = y.kind
    BY <1>4, <1>5, <1>7, <2>7, GrowsAppend
  <2>9. CASE ~(Plain(p[d]) /\ Open(m))
    <3>1. PICK x : x = Begun(p[d])
      OBVIOUS
    <3>2. x \in AllSuffixes /\ With(m, p[d]) = Append(m, x)
      BY <1>4, <2>3, <2>9, <3>1, WithBegun, BegunIs
    <3>3. /\ L + 1 <= Len(sp) /\ \A k \in 1..L : sp[k] = m[k]
          /\ sp[L + 1] \in AllSuffixes /\ sp[L + 1].kind = x.kind
      BY <1>4, <1>6, <1>7, <2>4, <3>2, GrowsAppend
    <3>4. \/ x.kind = "constant" /\ y.kind # "constant"
          \/ x.kind = "variable" /\ y.kind = "everything"
      BY <1>4, <2>2, <2>3, <2>5, <3>1, BegunIs, TokensAre
    <3>5. RankOf(sp[L + 1]) < RankOf(sq[L + 1])
      BY <2>8, <3>3, <3>4 DEF RankOf
    <3>6. Less(sp[L + 1], sq[L + 1])
      BY <2>8, <3>3, <3>5, LessIs
    <3>7. \A j \in 1..L : sp[j] = sq[j]
      BY <2>8, <3>3
    <3> QED BY <1>1, <1>5, <1>6, <1>8, <2>8, <3>3, <3>6, <3>7, PrecedesAt
  <2>10. CASE Plain(p[d]) /\ Open(m)
    <3>1. PICK f \in Seq(AllSuffixes), s \in Seq(Tokens) :
             /\ Constant(s) \in AllSuffixes /\ m = Append(f, Constant(s))
             /\ Constant(Append(s, p[d])) \in AllSuffixes
             /\ With(m, p[d]) = Append(f, Constant(Append(s, p[d])))
      BY <1>4, <2>3, <2>10, WithBegun
    <3>2. PICK x, z, i : x = Constant(s) /\ z = Constant(Append(s, p[d])) /\ i = Len(f)
      OBVIOUS
    <3>3. i \in Nat /\ L = i + 1 /\ m[i + 1] = x /\ \A k \in 1..i : m[k] = f[k]
      BY <1>7, <3>1, <3>2, AppendFacts
    <3>4. /\ i + 1 <= Len(sp) /\ \A k \in 1..i : sp[k] = f[k]
          /\ sp[i + 1] \in AllSuffixes /\ sp[i + 1].kind = z.kind /\ Len(sp[i + 1].pattern) >= Len(z.pattern)
      BY <1>6, <2>4, <3>1, <3>2, GrowsAppend
    <3>5. sq[i + 1] = x
      <4>1. i + 1 \in 1..L
        BY <3>3
      <4> QED BY <2>8, <3>3, <4>1
    <3>6. \A j \in 1..i : sp[j] = sq[j]
      <4>1. \A j \in 1..i : j \in 1..L
        BY <3>3
      <4> QED BY <2>8, <3>3, <3>4, <4>1
    <3>7. x.kind = "constant" /\ z.kind = "constant" /\ Len(x.pattern) \in Nat /\ Len(z.pattern) = Len(x.pattern) + 1
      BY <2>3, <3>2 DEF Constant
    <3>8. Less(sp[i + 1], sq[i + 1])
      <4>1. Len(sp[i + 1].pattern) \in Nat
        BY <3>4, PatternLength
      <4>2. Len(sp[i + 1].pattern) > Len(x.pattern)
        BY <3>4, <3>7, <4>1
      <4>3. RankOf(sp[i + 1]) = 1 /\ RankOf(x) = 1
        BY <3>4, <3>7 DEF RankOf
      <4>4. x \in AllSuffixes
        BY <3>1, <3>2
      <4> QED BY <3>4, <3>5, <4>2, <4>3, <4>4, LessIs
    <3>9. i + 1 <= Len(sq)
      BY <2>8, <3>3, <1>5
    <3> QED BY <1>1, <1>5, <1>6, <3>3, <3>4, <3>6, <3>8, <3>9, PrecedesAt
  <2> QED BY <2>9, <2>10
<1> QED BY <1>9, <1>10

-----------------------------------------------------------------------------
(* What a node reads, with a method in front.                               *)

\* A method in front has no name.
LEMMA NamesBehind ==
  ASSUME NEW m \in Tokens, m \notin Variables, NEW p \in Seq(Tokens)
  PROVE  VariableNames(<<m>> \o p) = VariableNames(p)
<1>1. PICK P, n : P = <<m>> \o p /\ n = Len(p)
  OBVIOUS
<1>2. /\ P \in Seq(Tokens) /\ Len(P) = n + 1 /\ P[1] = m /\ n \in Nat
      /\ \A k \in 1..n : P[k + 1] = p[k]
  BY <1>1, InFront
<1>3. PICK f, g : f = NamesUpto(p) /\ g = NamesUpto(P)
  OBVIOUS
<1>4. NamedBy(p, f) /\ NamedBy(P, g)
  BY <1>2, <1>3, NamesIs
<1>5. PICK T : T = {k \in 0..n : g[k + 1] = f[k]}
  OBVIOUS
<1>6. 0 \in T
  <2>1. g[1] = g[0]
    <3>1. 1 \in 1..Len(P) /\ 1 - 1 = 0
      BY <1>2
    <3> QED BY <1>2, <1>4, <3>1 DEF NamedBy
  <2>2. g[0] = <<>> /\ f[0] = <<>> /\ 0 + 1 = 1 /\ 0 \in 0..n
    BY <1>2, <1>4 DEF NamedBy
  <2> QED BY <1>5, <2>1, <2>2
<1>7. ASSUME NEW k \in 1..n, k - 1 \in T PROVE k \in T
  <2>1. k + 1 \in 1..Len(P) /\ (k + 1) - 1 = k /\ (k - 1) + 1 = k /\ k \in 0..n /\ k \in 1..Len(p)
    BY <1>1, <1>2
  <2>2. g[k] = f[k - 1]
    BY <1>5, <1>7, <2>1
  <2>3. g[k + 1] = IF P[k + 1] \in Variables THEN Append(g[k], P[k + 1]) ELSE g[k]
    BY <1>4, <2>1 DEF NamedBy
  <2>4. f[k] = IF p[k] \in Variables THEN Append(f[k - 1], p[k]) ELSE f[k - 1]
    BY <1>4, <2>1 DEF NamedBy
  <2>5. P[k + 1] = p[k]
    BY <1>2
  <2> QED BY <1>5, <2>1, <2>2, <2>3, <2>4, <2>5
<1>8. \A k \in 0..n : k \in T
  BY <1>2, <1>6, <1>7, Upwards
<1>9. n \in 0..n
  BY <1>2
<1> QED BY <1>1, <1>2, <1>3, <1>5, <1>8, <1>9 DEF VariableNames

\* The template is run through along the path.
Through(path, rest, at, w) ==
    Run(Trimmed(path), Trimmed(rest), at, w) /\ at[Len(Trimmed(path))] = Len(Trimmed(rest))

\* A node that reads a request has its method, and its template runs along the path.
LEMMA ReadRun ==
  ASSUME NEW m \in Verbs, NEW mm \in Verbs, NEW path \in Seq(Tokens), NEW rest \in Seq(Tokens), NEW u,
         Leads(SuffixesOf(<<mm>> \o path), Trimmed(<<m>> \o rest), Len(Trimmed(<<m>> \o rest)), u)
  PROVE  /\ mm = m
         /\ \E at, w : Through(path, rest, at, w) /\ w[Len(Trimmed(path))] = u
<1>1. PICK p, t, P, T, b : /\ p = Trimmed(path) /\ t = Trimmed(rest) /\ P = <<mm>> \o p /\ T = <<m>> \o t /\ b = Len(T)
  OBVIOUS
<1>2. p \in Seq(Tokens) /\ t \in Seq(Tokens)
  BY <1>1, TrimmedFacts
<1>3. Trimmed(<<mm>> \o path) = P /\ Trimmed(<<m>> \o rest) = T
  BY <1>1, TrimmedBehind
<1>4. m \in Tokens /\ mm \in Tokens
  BY VerbIs
<1>5. P \in Seq(Tokens) /\ Len(P) = Len(p) + 1 /\ T \in Seq(Tokens) /\ b = Len(t) + 1 /\ Len(t) \in Nat
  BY <1>1, <1>2, <1>4, InFront
<1>6. Leads(Parsed(P)[Len(P)], T, b, u)
  BY <1>1, <1>3 DEF SuffixesOf
<1>7. PICK at, w : Run(P, T, at, w) /\ at[Len(P)] = b /\ w[Len(P)] = u
  <2>1. \E at, w : Run(P, T, at, w) /\ at[Len(P)] = b /\ w[Len(P)] = u
    <3>1. P \in Seq(Tokens) /\ T \in Seq(Tokens)
      BY <1>5
    <3>2. Leads(Parsed(P)[Len(P)], T, b, u)
      BY <1>6
    <3> QED BY <3>1, <3>2, LeadsRun
  <2> QED BY <2>1
<1>8. Run(<<mm>> \o p, <<m>> \o t, at, w)
  BY <1>1, <1>7
<1>9. /\ mm = m
      /\ \E at2, w2 : /\ Run(p, t, at2, w2)
                      /\ at2[Len(p)] = at[Len(p) + 1] - 1 /\ w2[Len(p)] = w[Len(p) + 1]
  BY <1>2, <1>8, RunBack
<1>10. PICK at2, w2 : Run(p, t, at2, w2) /\ at2[Len(p)] = at[Len(p) + 1] - 1 /\ w2[Len(p)] = w[Len(p) + 1]
  BY <1>9
<1>11. at2[Len(p)] = Len(t) /\ w2[Len(p)] = u
  BY <1>5, <1>7, <1>10
<1> QED BY <1>1, <1>9, <1>10, <1>11 DEF Through

\* A template that runs along the path leads to a node that reads the request.
LEMMA RunRead ==
  ASSUME NEW m \in Verbs, NEW path \in Seq(Tokens), NEW rest \in Seq(Tokens), NEW at, NEW w,
         Through(path, rest, at, w)
  PROVE  \E u : Leads(SuffixesOf(<<m>> \o path), Trimmed(<<m>> \o rest), Len(Trimmed(<<m>> \o rest)), u)
<1>1. PICK p, t, P, T : p = Trimmed(path) /\ t = Trimmed(rest) /\ P = <<m>> \o p /\ T = <<m>> \o t
  OBVIOUS
<1>2. p \in Seq(Tokens) /\ t \in Seq(Tokens)
  BY <1>1, TrimmedFacts
<1>3. Trimmed(<<m>> \o path) = P /\ Trimmed(<<m>> \o rest) = T
  BY <1>1, TrimmedBehind
<1>4. m \in Tokens
  BY VerbIs
<1>5. P \in Seq(Tokens) /\ Len(P) = Len(p) + 1 /\ T \in Seq(Tokens) /\ Len(T) = Len(t) + 1 /\ Len(P) \in 0..Len(P)
  BY <1>1, <1>2, <1>4, InFront
<1>6. Run(p, t, at, w) /\ at[Len(p)] = Len(t)
  BY <1>1 DEF Through
<1>7. PICK at2, w2 : /\ Run(<<m>> \o p, <<m>> \o t, at2, w2)
                     /\ at2[Len(p) + 1] = at[Len(p)] + 1 /\ w2[Len(p) + 1] = w[Len(p)]
  BY <1>2, <1>6, RunForth
<1>8. Run(P, T, at2, w2) /\ at2[Len(P)] = Len(T)
  BY <1>1, <1>5, <1>6, <1>7
<1>9. Leads(Parsed(P)[Len(P)], T, at2[Len(P)], w2[Len(P)])
  BY <1>5, <1>8, RunLeads
<1> QED BY <1>1, <1>3, <1>8, <1>9 DEF SuffixesOf

\* Answers.tla IsOf: a node reads a request if the route that leads to it has
\* the method of the request and a template the path is of, and only then.
THEOREM ReadsWhatIsOf ==
  ASSUME NEW m \in Verbs, NEW mm \in Verbs, NEW path \in Seq(Tokens), NEW rest \in Seq(Tokens)
  PROVE  (\E u : Leads(SuffixesOf(<<mm>> \o path), Trimmed(<<m>> \o rest), Len(Trimmed(<<m>> \o rest)), u))
            <=> mm = m /\ IsOf(rest, path)
<1>1. PICK p, t : p = Trimmed(path) /\ t = Trimmed(rest)
  OBVIOUS
<1>2. p \in Seq(Tokens) /\ t \in Seq(Tokens)
  BY <1>1, TrimmedFacts
<1>3. IsOf(rest, path) <=> \E at : Walk(p, t, at) /\ at[Len(p)] = Len(t)
  BY <1>1, IsOfWalks DEF WalkedBy
<1>4. ASSUME NEW u, Leads(SuffixesOf(<<mm>> \o path), Trimmed(<<m>> \o rest), Len(Trimmed(<<m>> \o rest)), u)
      PROVE  mm = m /\ IsOf(rest, path)
  <2>1. mm = m /\ \E at, w : Through(path, rest, at, w)
    BY <1>4, ReadRun
  <2>2. PICK at, w : Run(p, t, at, w) /\ at[Len(p)] = Len(t)
    BY <1>1, <2>1 DEF Through
  <2>3. Walk(p, t, at)
    BY <2>2 DEF Run, Walk
  <2> QED BY <1>3, <2>1, <2>2, <2>3
<1>5. ASSUME mm = m, IsOf(rest, path)
      PROVE  \E u : Leads(SuffixesOf(<<mm>> \o path), Trimmed(<<m>> \o rest), Len(Trimmed(<<m>> \o rest)), u)
  <2>1. PICK at : Walk(p, t, at) /\ at[Len(p)] = Len(t)
    BY <1>3, <1>5
  <2>2. PICK w : Run(p, t, at, w)
    BY <1>2, <2>1, WalkRuns
  <2>3. Through(path, rest, at, w)
    BY <1>1, <2>1, <2>2 DEF Through
  <2> QED BY <1>5, <2>3, RunRead
<1> QED BY <1>4, <1>5

\* Answers.tla MoreSpecific: the node of a more specific template comes before.
THEOREM SpecificFirst ==
  ASSUME NEW m \in Verbs, NEW p \in Seq(Tokens), NEW q \in Seq(Tokens), MoreSpecific(Trimmed(p), Trimmed(q)),
         NEW t \in Seq(Tokens), NEW u, NEW v,
         Leads(SuffixesOf(<<m>> \o p), t, Len(t), u), Leads(SuffixesOf(<<m>> \o q), t, Len(t), v)
  PROVE  Precedes(SuffixesOf(<<m>> \o p), SuffixesOf(<<m>> \o q))
<1>1. PICK a, b, A, B : a = Trimmed(p) /\ b = Trimmed(q) /\ A = <<m>> \o a /\ B = <<m>> \o b
  OBVIOUS
<1>2. a \in Seq(Tokens) /\ b \in Seq(Tokens)
  BY <1>1, TrimmedFacts
<1>3. m \in Tokens /\ m \notin Variables
  BY VerbIs
<1>4. Trimmed(<<m>> \o p) = A /\ Trimmed(<<m>> \o q) = B
  BY <1>1, TrimmedBehind
<1>5. A \in Seq(Tokens) /\ B \in Seq(Tokens)
  BY <1>1, <1>2, <1>3, InFront
<1>6. PICK d \in Nat : SaysMore(a, b, d)
  BY <1>1, <1>2, MoreSpecificSays
<1>7. SaysMore(A, B, d + 1)
  BY <1>1, <1>2, <1>3, <1>6, SaysMoreShift
<1>8. SuffixesOf(<<m>> \o p) = Parsed(A)[Len(A)] /\ SuffixesOf(<<m>> \o q) = Parsed(B)[Len(B)]
  BY <1>4 DEF SuffixesOf
<1>9. Leads(Parsed(A)[Len(A)], t, Len(t), u) /\ Leads(Parsed(B)[Len(B)], t, Len(t), v)
  BY <1>8
<1>10. Precedes(Parsed(A)[Len(A)], Parsed(B)[Len(B)])
  <2>1. d + 1 \in Nat
    OBVIOUS
  <2> QED BY <1>5, <1>7, <1>9, <2>1, SpecificPrecedes
<1> QED BY <1>8, <1>10

-----------------------------------------------------------------------------
(* The values of the variables.                                             *)

\* Up to the k-th token: a name and a value for each variable.
Took(p, t, at, names, w, k) ==
    /\ names[k] \in Seq(Tokens) /\ w[k] \in Captures /\ Len(names[k]) = Len(w[k])
    /\ \A i \in 1..Len(names[k]) : \E j \in 1..k :
          p[j] \in Variables /\ names[k][i] = p[j] /\ w[k][i] = SubSeq(t, at[j - 1] + 1, at[j])
    /\ \A j \in 1..k : p[j] \in Variables => \E i \in 1..Len(names[k]) : names[k][i] = p[j]

\* One token more keeps each value with its name.
LEMMA TookMore ==
  ASSUME NEW p, NEW t, NEW at, NEW names, NEW w, NEW k \in Nat, k >= 1, Took(p, t, at, names, w, k - 1),
         p[k] \in Tokens, SubSeq(t, at[k - 1] + 1, at[k]) \in Seq(Tokens),
         p[k] \in Variables => names[k] = Append(names[k - 1], p[k]),
         p[k] \notin Variables => names[k] = names[k - 1],
         w[k] = w[k - 1] \o TakenBy(p[k], t, at[k - 1], at[k])
  PROVE  Took(p, t, at, names, w, k)
<1>1. PICK x, y, f, g, s : x = names[k - 1] /\ y = names[k] /\ f = w[k - 1] /\ g = w[k] /\ s = SubSeq(t, at[k - 1] + 1, at[k])
  OBVIOUS
<1>2. PICK n : n = Len(x)
  OBVIOUS
<1>3. /\ x \in Seq(Tokens) /\ f \in Seq(Seq(Tokens)) /\ n = Len(f) /\ n \in Nat
      /\ \A i \in 1..n : \E j \in 1..(k - 1) :
            p[j] \in Variables /\ x[i] = p[j] /\ f[i] = SubSeq(t, at[j - 1] + 1, at[j])
      /\ \A j \in 1..(k - 1) : p[j] \in Variables => \E i \in 1..n : x[i] = p[j]
  BY <1>1, <1>2 DEF Took, Captures
<1>4. CASE p[k] \notin Variables
  <2>1. y = x
    BY <1>1, <1>4
  <2>2. g = f
    <3>1. g = f \o <<>>
      BY <1>1, <1>4 DEF TakenBy
    <3> QED BY <1>3, <3>1
  <2>3. \A i \in 1..Len(y) : \E j \in 1..k :
            p[j] \in Variables /\ y[i] = p[j] /\ g[i] = SubSeq(t, at[j - 1] + 1, at[j])
    <3>1. SUFFICES ASSUME NEW i \in 1..Len(y) 
                   PROVE  \E j \in 1..k : p[j] \in Variables /\ y[i] = p[j] /\ g[i] = SubSeq(t, at[j - 1] + 1, at[j])
      OBVIOUS
    <3>2. i \in 1..n
      BY <1>2, <2>1
    <3>3. PICK j \in 1..(k - 1) : p[j] \in Variables /\ x[i] = p[j] /\ f[i] = SubSeq(t, at[j - 1] + 1, at[j])
      BY <1>3, <3>2
    <3>4. j \in 1..k
      OBVIOUS
    <3> QED BY <2>1, <2>2, <3>3, <3>4
  <2>4. ASSUME NEW j \in 1..k, p[j] \in Variables PROVE \E i \in 1..Len(y) : y[i] = p[j]
    <3>1. j \in 1..(k - 1)
      BY <1>4, <2>4
    <3> QED BY <1>2, <1>3, <2>1, <2>4, <3>1
  <2>5. y \in Seq(Tokens) /\ g \in Captures /\ Len(y) = Len(g)
    BY <1>2, <1>3, <2>1, <2>2 DEF Captures
  <2> QED BY <1>1, <2>3, <2>4, <2>5 DEF Took
<1>5. CASE p[k] \in Variables
  <2>1. y = Append(x, p[k])
    BY <1>1, <1>5
  <2>2. g = f \o <<s>>
    BY <1>1, <1>5 DEF TakenBy
  <2>3. y \in Seq(Tokens) /\ Len(y) = n + 1 /\ y[n + 1] = p[k] /\ \A i \in 1..n : y[i] = x[i]
    <3>1. PICK z : z = p[k]
      OBVIOUS
    <3>2. x \in Seq(Tokens) /\ n = Len(x) /\ z \in Tokens /\ y = Append(x, z)
      BY <1>2, <1>3, <2>1, <3>1
    <3>3. y \in Seq(Tokens) /\ Len(y) = n + 1 /\ y[n + 1] = z /\ \A i \in 1..n : y[i] = x[i]
      BY <3>2
    <3> QED BY <3>1, <3>3
  <2>4. g \in Seq(Seq(Tokens)) /\ Len(g) = n + 1 /\ g[n + 1] = s /\ \A i \in 1..n : g[i] = f[i]
    <3>1. s \in Seq(Tokens)
      BY <1>1
    <3>2. PICK S : S = Seq(Tokens)
      OBVIOUS
    <3>3. f \in Seq(S) /\ s \in S
      BY <1>3, <3>1, <3>2
    <3>4. g \in Seq(S) /\ Len(g) = n + 1 /\ g[n + 1] = s /\ \A i \in 1..n : g[i] = f[i]
      BY <1>3, <2>2, <3>3
    <3> QED BY <3>2, <3>4
  <2>5. ASSUME NEW i \in 1..Len(y)
        PROVE  \E j \in 1..k : p[j] \in Variables /\ y[i] = p[j] /\ g[i] = SubSeq(t, at[j - 1] + 1, at[j])
    <3>1. CASE i \in 1..n
      <4>1. PICK j \in 1..(k - 1) : p[j] \in Variables /\ x[i] = p[j] /\ f[i] = SubSeq(t, at[j - 1] + 1, at[j])
        BY <1>3, <3>1
      <4>2. j \in 1..k
        OBVIOUS
      <4> QED BY <2>3, <2>4, <3>1, <4>1, <4>2
    <3>2. CASE i \notin 1..n
      <4>1. i = n + 1
        BY <1>3, <2>3, <3>2
      <4>2. k \in 1..k
        OBVIOUS
      <4> QED BY <1>1, <1>5, <2>3, <2>4, <4>1, <4>2
    <3> QED BY <3>1, <3>2
  <2>6. ASSUME NEW j \in 1..k, p[j] \in Variables PROVE \E i \in 1..Len(y) : y[i] = p[j]
    <3>1. CASE j = k
      <4>1. n + 1 \in 1..Len(y)
        BY <1>3, <2>3
      <4> QED BY <2>3, <3>1, <4>1
    <3>2. CASE j # k
      <4>1. j \in 1..(k - 1)
        BY <3>2
      <4>2. PICK i \in 1..n : x[i] = p[j]
        BY <1>3, <2>6, <4>1
      <4>3. i \in 1..Len(y) /\ y[i] = x[i]
        BY <1>3, <2>3
      <4> QED BY <4>2, <4>3
    <3> QED BY <3>1, <3>2
  <2>7. y \in Seq(Tokens) /\ g \in Captures /\ Len(y) = Len(g)
    BY <2>3, <2>4 DEF Captures
  <2> QED BY <1>1, <2>5, <2>6, <2>7 DEF Took
<1> QED BY <1>4, <1>5

\* Each value the node took belongs to the name in its place.
LEMMA TookAll ==
  ASSUME NEW p \in Seq(Tokens), NEW t \in Seq(Tokens), NEW at, NEW w, Paced(p, t, at, w), NEW names, NamedBy(p, names)
  PROVE  Took(p, t, at, names, w, Len(p))
<1>1. PICK n, N : n = Len(p) /\ N = Len(t)
  OBVIOUS
<1>2. n \in Nat /\ N \in Nat
  BY <1>1
<1>3. /\ at \in [0..n -> 0..N] /\ w \in [0..n -> Captures] /\ w[0] = <<>>
      /\ \A k \in 1..n : w[k] = w[k - 1] \o TakenBy(p[k], t, at[k - 1], at[k])
  BY <1>1 DEF Paced, Strides
<1>4. /\ names \in [0..n -> Seq(Tokens)] /\ names[0] = <<>>
      /\ \A k \in 1..n : names[k] = IF p[k] \in Variables THEN Append(names[k - 1], p[k]) ELSE names[k - 1]
  BY <1>1 DEF NamedBy
<1>5. PICK T : T = {k \in 0..n : Took(p, t, at, names, w, k)}
  OBVIOUS
<1>6. 0 \in T
  <2>1. 0 \in 0..n /\ Len(<<>>) = 0 /\ names[0] \in Seq(Tokens) /\ w[0] \in Captures
    BY <1>2, <1>3, <1>4
  <2> QED BY <1>3, <1>4, <1>5, <2>1 DEF Took
<1>7. ASSUME NEW k \in 1..n, k - 1 \in T PROVE k \in T
  <2>1. k \in Nat /\ k >= 1 /\ k \in 0..n /\ k - 1 \in 0..n
    BY <1>2
  <2>2. Took(p, t, at, names, w, k - 1)
    BY <1>5, <1>7
  <2>3. p[k] \in Tokens
    BY <1>1, <1>2
  <2>4. SubSeq(t, at[k - 1] + 1, at[k]) \in Seq(Tokens)
    <3>1. at[k - 1] \in 0..Len(t) /\ at[k] \in 0..Len(t)
      BY <1>1, <1>3, <2>1
    <3> QED BY <3>1
  <2>5. /\ p[k] \in Variables => names[k] = Append(names[k - 1], p[k])
        /\ p[k] \notin Variables => names[k] = names[k - 1]
    BY <1>4
  <2>6. w[k] = w[k - 1] \o TakenBy(p[k], t, at[k - 1], at[k])
    BY <1>3
  <2>7. Took(p, t, at, names, w, k)
    BY <2>1, <2>2, <2>3, <2>4, <2>5, <2>6, TookMore
  <2> QED BY <1>5, <2>1, <2>7
<1>8. \A k \in 0..n : k \in T
  BY <1>2, <1>6, <1>7, Upwards
<1>9. n \in 0..n
  BY <1>2
<1> QED BY <1>1, <1>5, <1>8, <1>9

\* Document.tla ParamsOf: each name has one of its values.
LEMMA ParamsAre ==
  ASSUME NEW names, NEW n \in Nat, DOMAIN names = 1..n, NEW values, NEW others, NEW i \in 1..n
  PROVE  \E j \in 1..n : names[j] = names[i] /\ ParamsOf(names, values, others)[names[i]] = values[j]
<1>1. PICK x, M, j : x = names[i] /\ M = {k \in DOMAIN names : names[k] = x} /\ j = Max(M)
  OBVIOUS
<1>2. i \in M /\ M \in SUBSET (0..n)
  BY <1>1
<1>3. j \in M
  <2>1. M # {}
    BY <1>2
  <2> QED BY <1>1, <1>2, <2>1, MaxIs
<1>4. j \in 1..n /\ names[j] = x
  BY <1>1, <1>3
<1>5. ParamsOf(names, values, others)[x] = values[j]
  BY <1>1, <1>4 DEF ParamsOf
<1> QED BY <1>1, <1>4, <1>5

\* The name of a variable among the parameters.
Plainly(x) == IF x \in Wildcards THEN Unstarred[x] ELSE x
Distinct(path) == \A j, k \in Blanks(path) : j # k => Plainly(path[j]) # Plainly(path[k])
PutBack(path, params) == Filled(path, [k \in Blanks(path) |-> params[Plainly(path[k])]])

NamedAs(path, names) ==
    /\ DOMAIN names = DOMAIN VariableNames(path)
    /\ \A i \in DOMAIN names : names[i] = Plainly(VariableNames(path)[i])

\* What was returned for the variables, put in their place, is the path.
THEOREM FillsBack ==
  ASSUME NEW path \in Seq(Tokens), NEW rest \in Seq(Tokens), NEW at, NEW w,
         Through(path, rest, at, w), Distinct(path), NEW names, NamedAs(path, names), NEW others
  PROVE  Trimmed(PutBack(path, ParamsOf(names, w[Len(Trimmed(path))], others))) = Trimmed(rest)
<1>1. PICK p, t, u, params, values, own :
         /\ p = Trimmed(path) /\ t = Trimmed(rest) /\ u = w[Len(Trimmed(path))] /\ params = ParamsOf(names, u, others)
         /\ values = [k \in Blanks(path) |-> params[Plainly(path[k])]] /\ own = VariableNames(path)
  OBVIOUS
<1>2. p \in Seq(Tokens) /\ t \in Seq(Tokens) /\ TrimsTo(path, p) /\ TrimsTo(rest, t)
  BY <1>1, TrimmedFacts
<1>3. PICK at2, w2 : Paced(path, t, at2, w2) /\ at2[Len(path)] = Len(t) /\ w2[Len(path)] = u
  <2>1. Run(p, t, at, w) /\ at[Len(p)] = Len(t) /\ u = w[Len(p)]
    BY <1>1 DEF Through
  <2> QED BY <1>2, <2>1, RunOn
<1>4. NamedBy(path, NamesUpto(path)) /\ own = NamesUpto(path)[Len(path)]
  BY <1>1, NamesIs DEF VariableNames
<1>5. PICK l : l = Len(own)
  OBVIOUS
<1>6. Took(path, t, at2, NamesUpto(path), w2, Len(path))
  BY <1>2, <1>3, <1>4, TookAll
<1>7. /\ own \in Seq(Tokens) /\ u \in Captures /\ l = Len(u) /\ l \in Nat /\ DOMAIN own = 1..l
      /\ \A i \in 1..l : \E j \in 1..Len(path) :
            path[j] \in Variables /\ own[i] = path[j] /\ u[i] = SubSeq(t, at2[j - 1] + 1, at2[j])
      /\ \A j \in 1..Len(path) : path[j] \in Variables => \E i \in 1..l : own[i] = path[j]
  BY <1>3, <1>4, <1>5, <1>6 DEF Took
<1>19. DOMAIN names = 1..l /\ \A i \in 1..l : names[i] = Plainly(own[i])
  <2>1. DOMAIN VariableNames(path) = 1..l
    BY <1>1, <1>7
  <2>2. DOMAIN names = 1..l
    BY <2>1 DEF NamedAs
  <2>3. ASSUME NEW i \in 1..l PROVE names[i] = Plainly(own[i])
    <3>1. i \in DOMAIN names
      BY <2>2
    <3>2. names[i] = Plainly(VariableNames(path)[i])
      BY <3>1 DEF NamedAs
    <3>3. VariableNames(path)[i] = own[i]
      BY <1>1
    <3> QED BY <3>2, <3>3
  <2> QED BY <2>2, <2>3
<1>8. ASSUME NEW k \in Blanks(path) PROVE values[k] = SubSeq(t, at2[k - 1] + 1, at2[k])
  <2>1. k \in 1..Len(path) /\ path[k] \in Variables
    BY DEF Blanks
  <2>2. PICK i \in 1..l : own[i] = path[k]
    BY <1>7, <2>1
  <2>3. DOMAIN names = 1..l /\ names[i] = Plainly(path[k])
    BY <1>19, <2>2
  <2>4. PICK j \in 1..l : names[j] = names[i] /\ params[names[i]] = u[j]
    <3>1. l \in Nat /\ DOMAIN names = 1..l
      BY <1>7, <2>3
    <3>2. \E j \in 1..l : names[j] = names[i] /\ ParamsOf(names, u, others)[names[i]] = u[j]
      BY <3>1, ParamsAre
    <3> QED BY <1>1, <3>2
  <2>5. PICK h \in 1..Len(path) : path[h] \in Variables /\ own[j] = path[h] /\ u[j] = SubSeq(t, at2[h - 1] + 1, at2[h])
    BY <1>7
  <2>6. names[j] = Plainly(path[h])
    BY <1>19, <2>5
  <2>7. h \in Blanks(path)
    BY <2>5 DEF Blanks
  <2>8. h = k
    BY <2>3, <2>4, <2>6, <2>7 DEF Distinct
  <2>9. values[k] = params[Plainly(path[k])]
    BY <1>1
  <2> QED BY <2>3, <2>4, <2>5, <2>8, <2>9
<1>9. values \in [Blanks(path) -> Seq(Tokens)]
  <2>1. ASSUME NEW k \in Blanks(path) PROVE values[k] \in Seq(Tokens)
    <3>1. k \in 1..Len(path)
      BY DEF Blanks
    <3>2. k \in 0..Len(path) /\ k - 1 \in 0..Len(path)
      BY <3>1
    <3>3. at2[k - 1] \in 0..Len(t) /\ at2[k] \in 0..Len(t)
      BY <1>3, <3>2 DEF Paced, Strides
    <3>4. SubSeq(t, at2[k - 1] + 1, at2[k]) \in Seq(Tokens)
      BY <1>2, <3>3
    <3> QED BY <1>8, <3>4
  <2>2. values = [k \in Blanks(path) |-> values[k]]
    BY <1>1
  <2> QED BY <2>1, <2>2
<1>10. PICK F : F = Filling(path, values)
  OBVIOUS
<1>11. FilledBy(path, values, F)
  BY <1>9, <1>10, FillingIs
<1>12. \A k \in 0..Len(path) : On(F[k], t, at2[k])
  <2>1. Strides(path, t, at2)
    BY <1>3 DEF Paced
  <2> QED BY <1>2, <1>8, <1>9, <1>11, <2>1, StridesFill
<1>13. On(F[Len(path)], t, Len(t))
  <2>1. Len(path) \in 0..Len(path)
    OBVIOUS
  <2> QED BY <1>3, <1>12, <2>1
<1>14. F[Len(path)] \in Seq(Tokens)
  BY <1>13 DEF On
<1>15. TrimsTo(F[Len(path)], t)
  <2>1. Bare(t)
    BY <1>2 DEF TrimsTo, Bare
  <2> QED BY <1>2, <1>13, <2>1, OnTrims
<1>16. Trimmed(F[Len(path)]) = t
  BY <1>2, <1>14, <1>15, TrimmedIs
<1>17. Trimmed(Filled(path, values)) = t
  BY <1>10, <1>16 DEF Filled
<1>18. PutBack(path, params) = Filled(path, values)
  BY <1>1 DEF PutBack
<1> QED BY <1>1, <1>17, <1>18


LoaderStages == {"loading", "loaded", "refused", "panicked", "overflow"}

-----------------------------------------------------------------------------
(* What the loader leaves behind.                                           *)

\* A null media type in a request body or a parameter, a reference to a nil
\* pointer of the kind that is asked for.
NullMedia(d, n) == d.kind[n] \in {"requestBody", "parameter"} /\
                   \E t \in Below(d, n) : t[1] = "content" /\ t[3] = Nil
NullMet(d) == \E n \in Reached(d) :
    NullMedia(d, n) \/ (d.ref[n] # None /\ NilAsked(Target(d, n), d.ref[n], d.kind[n]))
Nulls == pc = "panicked" => NullMet(doc)

LEMMA InitNulls == Init => Nulls
BY DEF Init, Nulls

LEMMA NextNulls == RInv /\ Nulls /\ [Next]_vars => Nulls'
<1>1. SUFFICES ASSUME RInv, Nulls, [Next]_vars, pc' = "panicked" PROVE NullMet(doc)
  BY StepValues DEF Nulls, RInv
<1>2. CASE pc' = pc
  BY <1>1, <1>2 DEF Nulls
<1>3. SUFFICES ASSUME pc = "loading", Load, pc' # pc PROVE NullMet(doc)
  BY <1>1, <1>2 DEF Next, Ended, vars, Load, At, AlreadyVisited, Inline, FollowRef, CopyPathItem,
                    OpenValue, Descend, AllVisited
<1>4. /\ WellFormed(doc) /\ val \in Values(doc)
      /\ Top.node \in Nodes(doc) /\ Top.node \in Reached(doc)
      /\ Kind = doc.kind[Top.node] /\ Ref = doc.ref[Top.node]
      /\ Top.at \in {"value", "walk"} =>
            Value \in Nodes(doc) /\ Value \in Reached(doc) /\ doc.kind[Value] = doc.kind[Top.node]
  BY <1>1, <1>3, TopVisited DEF RInv
<1>5. CASE FollowRef
  <2>1. Ref # None /\ NilAsked(Drill(Ref), Ref, Kind)
    <3>1. PICK x : x = [Top EXCEPT !.at = "copied"]
      OBVIOUS
    <3>2. ASSUME Fits(Drill(Ref)) PROVE FALSE
      <4>1. Drill(Ref) # Nil
        BY <3>2 DEF Fits
      <4>2. Call(x, Drill(Ref), FALSE)
        BY <1>5, <3>1, <3>2, <4>1 DEF FollowRef
      <4>3. pc' \in {pc, "overflow"}
        BY <4>2 DEF Call, Fail
      <4> QED BY <1>1, <1>3, <4>3
    <3>3. ASSUME ~NilAsked(Drill(Ref), Ref, Kind) PROVE FALSE
      <4>1. Fail("refused")
        BY <1>5, <3>2, <3>3 DEF FollowRef
      <4> QED BY <1>1, <4>1 DEF Fail
    <3> QED BY <1>5, <3>3 DEF FollowRef
  <2>2. PICK n : n = Top.node
    OBVIOUS
  <2>3. Target(doc, n) = Drill(Ref)
    <3>1. Len(doc.ref[n]) \in Nat /\ Nil # None
      BY <1>4, <2>1, <2>2, DocumentsAssumption DEF WellFormed, Nodes
    <3>2. Drilled(doc, val, doc.ref[n]) = Drill(Ref) /\ Drill(Ref) = Nil
      BY <1>4, <2>1, <2>2 DEF Drill, NilAsked
    <3>3. Means(doc) \in Values(doc) /\ Later(doc, val, Means(doc))
      BY <1>1, <1>4, MeansFacts DEF RInv, Agreed, Settled
    <3> QED BY <1>4, <3>1, <3>2, <3>3, DrilledKept DEF Target
  <2>4. NilAsked(Target(doc, n), doc.ref[n], doc.kind[n]) /\ doc.ref[n] # None /\ n \in Reached(doc)
    BY <1>4, <2>1, <2>2, <2>3
  <2> QED BY <2>4 DEF NullMet
<1>6. CASE Descend
  <2>1. PICK t \in Top.todo : t[3] = Nil /\ ~LeftOut(Kind, t[1]) /\ t[1] = "content"
    <3>1. PICK t \in Top.todo :
             LET after == [Top EXCEPT !.todo = @ \ {t}]
             IN  IF t[3] # Nil THEN Call(after, t[3], TRUE)
                 ELSE IF LeftOut(Kind, t[1]) THEN stack' = <<after>> \o Tail(stack) /\ UNCHANGED pc
                 ELSE Fail(IF t[1] = "content" THEN "panicked" ELSE "refused")
      BY <1>6 DEF Descend
    <3> QED BY <1>1, <1>3, <3>1 DEF Call, Fail
  <2>2. PICK D, n, v : D = Depth /\ n = Top.node /\ v = Value
    OBVIOUS
  <2>3. Top.at = "walk"
    BY <1>6 DEF Descend, At
  <2>4. t \in Walked(n, v) /\ v \in Reached(doc) /\ doc.kind[v] = doc.kind[n] /\ Kind = doc.kind[n]
    BY <1>1, <1>3, <1>4, <2>2, <2>3, TopWalk DEF RInv
  <2>5. t \in Below(doc, v)
    BY <2>4 DEF Walked, Below
  <2>6. doc.kind[v] \in {"requestBody", "parameter"}
    BY <2>1, <2>4, <2>5 DEF Below, Slots, LeftOut
  <2> QED BY <2>1, <2>4, <2>5, <2>6 DEF NullMet, NullMedia
<1>7. ~(CopyPathItem \/ OpenValue)
  BY <1>1, <1>3 DEF CopyPathItem, OpenValue, Fail
<1>8. ~(AlreadyVisited \/ AllVisited \/ Inline)
  BY <1>1, <1>3 DEF AlreadyVisited, AllVisited, Inline, Return
<1> QED BY <1>3, <1>5, <1>6, <1>7, <1>8 DEF Load

\* What holds of a document from when it is loaded on.
Loaded ==
    /\ doc \in Documents /\ WellFormed(doc)
    /\ val \in Values(doc) /\ visited \in SUBSET Nodes(doc) /\ stack = <<>>
    /\ \A n \in Nodes(doc) : doc.kind[n] \notin Wrappers => val[n] \in Nodes(doc)
    /\ \A n \in Nodes(doc) : doc.kind[n] = "pathItem" => Finished(doc, val, visited, n) /\ doc.kind[val[n]] = "pathItem"
    /\ \A n \in Nodes(doc) : doc.kind[n] = "operation" => Black(doc, val, visited, n) /\ val[n] = n
    /\ ~Wrong(doc) /\ ~PureCycle(doc) /\ ~AliasCycle(doc, Listed(doc))
    /\ val[Root] = Root

AllResolved ==
    \A n \in visited \cup {m \in DOMAIN doc.kind : doc.kind[m] \notin Wrappers} :
        \A t \in doc.fields[val[n]] :
            t[3] # Nil /\ <<doc.kind[n], t[1]>> # <<"doc", "links">> => Resolved(t[3])

LEMMA LoadedBecomes ==
  ASSUME RInv, pc = "loaded"
  PROVE  Loaded
<1>1. /\ doc \in Documents /\ WellFormed(doc) /\ val \in Values(doc) /\ visited \in SUBSET Nodes(doc) /\ stack = <<>>
  BY LoadedFacts DEF RInv, IInv, Types
<1>2. ASSUME NEW n \in Nodes(doc), doc.kind[n] \notin Wrappers PROVE val[n] \in Nodes(doc)
  BY <1>1, <1>2 DEF RInv, IInv, ValuesOK, WellFormed, Nodes
<1>3. ASSUME NEW n \in Nodes(doc), doc.kind[n] = "pathItem"
      PROVE  Finished(doc, val, visited, n) /\ doc.kind[val[n]] = "pathItem"
  BY <1>3, LoadedFacts DEF RInv, IInv, ValuesOK
<1>4. ASSUME NEW n \in Nodes(doc), doc.kind[n] = "operation"
      PROVE  Black(doc, val, visited, n) /\ val[n] = n
  <2>1. doc.ref[n] = None
    BY <1>1, <1>4 DEF WellFormed, Nodes, Wrappers
  <2> QED BY <1>4, <2>1, LoadedFacts DEF RInv, IInv, ValuesOK
<1>5. ~Wrong(doc) /\ ~PureCycle(doc) /\ ~AliasCycle(doc, Listed(doc))
  BY LoadedRight, LoadedStraight DEF RInv
<1>6. val[Root] = Root
  BY <1>1 DEF RInv, IInv, ValuesOK, WellFormed, Nodes
<1> QED BY <1>1, <1>2, <1>3, <1>4, <1>5, <1>6 DEF Loaded

-----------------------------------------------------------------------------
(* The routes.                                                              *)

LEMMA RoutesTyped ==
  ASSUME Loaded, NEW r \in Routes
  PROVE  /\ r \in AnyRoute(doc) /\ r.method \in Methods /\ r.path \in Seq(Tokens) /\ r # None /\ r # Nil
         /\ \E t \in PathItems : /\ t[3] # Nil /\ t[2] = r.path
                                 /\ \E o \in doc.fields[val[t[3]]] :
                                       o[1] = "operations" /\ r = Route(o[2], t[2], o[3])
<1>1. PICK t \in PathItems : r \in {Route(o[2], t[2], o[3]) :
                     o \in IF t[3] = Nil THEN {} ELSE {u \in doc.fields[val[t[3]]] : u[1] = "operations"}}
  BY DEF Routes
<1>2. PICK o \in doc.fields[val[t[3]]] : t[3] # Nil /\ o[1] = "operations" /\ r = Route(o[2], t[2], o[3])
  BY <1>1
<1>3. t \in doc.fields[Root] /\ t[1] = "paths" /\ Root \in Nodes(doc) /\ doc.kind[Root] = "doc"
  BY DEF PathItems, Loaded, WellFormed, Nodes
<1>4. t[3] \in Nodes(doc) /\ doc.kind[t[3]] = "pathItem"
  BY <1>2, <1>3 DEF Loaded, WellFormed, Nodes, KindAt
<1>5. val[t[3]] \in DOMAIN doc.fields
  BY <1>4 DEF Loaded, WellFormed, Nodes, Wrappers
<1>6. r \in AnyRoute(doc)
  <2>1. PICK n : n = val[t[3]]
    OBVIOUS
  <2>2. n \in DOMAIN doc.kind /\ o \in {u \in doc.fields[n] : u[1] = "operations"}
    BY <1>2, <1>5, <2>1 DEF Loaded, WellFormed, Nodes
  <2>3. o \in UNION {{u \in doc.fields[m] : u[1] = "operations"} : m \in DOMAIN doc.fields}
    BY <1>5, <2>1, <2>2
  <2> QED BY <1>2, <1>3, <2>3 DEF AnyRoute
<1>7. r.method \in Methods /\ r.path \in Seq(Tokens) /\ r # None /\ r # Nil
  BY <1>6, RouterAssumption DEF Loaded
<1>8. t[2] = r.path
  BY <1>2 DEF Route
<1> QED BY <1>1, <1>2, <1>6, <1>7, <1>8

LEMMA OperationOf ==
  ASSUME Loaded, NEW r \in Routes
  PROVE  /\ r.operation \in Nodes(doc) /\ doc.kind[r.operation] = "operation" /\ val[r.operation] = r.operation
         /\ \A t \in doc.fields[r.operation] : t[3] \in Nodes(doc) /\ val[t[3]] # None
<1>1. PICK t \in PathItems : /\ t[3] # Nil
                             /\ \E o \in doc.fields[val[t[3]]] : o[1] = "operations" /\ r = Route(o[2], t[2], o[3])
  BY RoutesTyped
<1>2. PICK o \in doc.fields[val[t[3]]] : o[1] = "operations" /\ r = Route(o[2], t[2], o[3])
  BY <1>1
<1>3. t \in doc.fields[Root] /\ t[1] = "paths" /\ Root \in Nodes(doc) /\ doc.kind[Root] = "doc"
  BY DEF PathItems, Loaded, WellFormed, Nodes
<1>4. t[3] \in Nodes(doc) /\ doc.kind[t[3]] = "pathItem"
  BY <1>1, <1>3 DEF Loaded, WellFormed, Nodes, KindAt
<1>5. PICK n, m : n = val[t[3]] /\ m = o[3]
  OBVIOUS
<1>6. n \in Nodes(doc) /\ doc.kind[n] = "pathItem" /\ Sound(doc, n) /\ r.operation = m
  BY <1>2, <1>4, <1>5 DEF Loaded, Finished, Wrappers, Route
<1>7. m # Nil
  BY <1>2, <1>5, <1>6 DEF Sound, LeftOut, Unvisited
<1>8. m \in Nodes(doc) /\ doc.kind[m] = "operation"
  BY <1>2, <1>5, <1>6, <1>7 DEF Loaded, WellFormed, Nodes, KindAt
<1>9. Black(doc, val, visited, m) /\ val[m] = m
  BY <1>8 DEF Loaded
<1>10. ASSUME NEW u \in doc.fields[m] PROVE u[3] \in Nodes(doc) /\ val[u[3]] # None
  <2>1. u[1] # "paths"
    BY <1>8 DEF Loaded, WellFormed, Nodes, Slots
  <2>2. u[3] # Nil
    BY <1>8, <1>9, <2>1 DEF Black, Sound, LeftOut, Unvisited
  <2>3. u[3] \in Nodes(doc) /\ val[u[3]] \in visited
    BY <1>8, <1>9, <2>2 DEF Loaded, WellFormed, Nodes, Black
  <2> QED BY <2>3 DEF Loaded, WellFormed, Nodes
<1> QED BY <1>6, <1>8, <1>9, <1>10

\* A parameter that FindRoute's route has: a decoder takes it.
Decodable(n) ==
    \/ In(n, "content") # {}
    \/ \E kind \in {"primitive", "array", "object"} : Decoders!Takes(Info(n).in, Decoders!MethodOf(Info(n)), kind)
Servable == \A r \in Routes : \A n \in In(r.operation, "parameters") : Decodable(n)

LEMMA SupportedTaken ==
  ASSUME NEW in, NEW sm, Supported(in, sm)
  PROVE  \E kind \in {"primitive", "array", "object"} : Decoders!Takes(in, sm, kind)
<1>1. CASE in = "path"
  BY <1>1 DEF Supported, Decoders!Takes
<1>2. CASE in = "header"
  BY <1>2 DEF Supported, Decoders!Takes
<1>3. CASE in = "cookie"
  BY <1>3 DEF Supported, Decoders!Takes
<1>4. CASE in = "query"
  <2>1. CASE sm.style = "form"
    <3>1. Decoders!Takes(in, sm, "primitive")
      BY <1>4, <2>1 DEF Decoders!Takes
    <3> QED BY <3>1
  <2>2. CASE sm.style \in {"spaceDelimited", "pipeDelimited"}
    <3>1. Decoders!Takes(in, sm, "array")
      BY <1>4, <2>2 DEF Decoders!Takes
    <3> QED BY <3>1
  <2>3. CASE sm.style = "deepObject"
    <3>1. Decoders!Takes(in, sm, "object")
      BY <1>4, <2>3 DEF Decoders!Takes
    <3> QED BY <3>1
  <2> QED BY <1>4, <2>1, <2>2, <2>3 DEF Supported
<1> QED BY <1>1, <1>2, <1>3, <1>4 DEF Supported

LEMMA VerdictsAre ==
  /\ Verdicts \subseteq {"valid", "invalid", "panickedValidating"}
  /\ "valid" \in Verdicts => \A t \in PathItems : ValidPath(t[2], t[3])
  /\ "panickedValidating" \in Verdicts =>
        \E k \in DOMAIN doc.info[Root].servers :
           LET server == doc.info[Root].servers[k]
           IN  server = Nil \/ \E x \in DOMAIN server.variables : server.variables[x] = Nil
<1>1. PathsVerdicts \subseteq {"valid", "invalid"}
  BY DEF PathsVerdicts
<1>2. "valid" \in PathsVerdicts => \A t \in PathItems : ValidPath(t[2], t[3])
  BY DEF PathsVerdicts, PathItems
<1>3. ASSUME NEW server
      PROVE  /\ ServerVerdicts(server) \subseteq {"valid", "invalid", "panickedValidating"}
             /\ "panickedValidating" \in ServerVerdicts(server) =>
                   server = Nil \/ \E x \in DOMAIN server.variables : server.variables[x] = Nil
  BY DEF ServerVerdicts
<1>4. /\ ServersVerdicts \subseteq {"valid", "invalid", "panickedValidating"}
      /\ "panickedValidating" \in ServersVerdicts =>
            \E k \in DOMAIN doc.info[Root].servers : "panickedValidating" \in ServerVerdicts(doc.info[Root].servers[k])
  BY <1>3 DEF ServersVerdicts
<1>5. \/ Verdicts = {"invalid"}
      \/ Verdicts = (PathsVerdicts \ {"valid"}) \cup (IF "valid" \in PathsVerdicts THEN ServersVerdicts ELSE {})
  BY DEF Verdicts
<1>6. Verdicts \subseteq {"valid", "invalid", "panickedValidating"}
  BY <1>1, <1>4, <1>5
<1>7. "valid" \in Verdicts => \A t \in PathItems : ValidPath(t[2], t[3])
  BY <1>2, <1>5
<1>8. "panickedValidating" \in Verdicts => "panickedValidating" \in ServersVerdicts
  BY <1>1, <1>5
<1> QED BY <1>3, <1>4, <1>6, <1>7, <1>8

LEMMA ValidServable ==
  ASSUME Loaded, "valid" \in Verdicts
  PROVE  Servable
<1>1. SUFFICES ASSUME NEW r \in Routes, NEW n \in In(r.operation, "parameters") PROVE Decodable(n)
  BY DEF Servable
<1>2. PICK t \in PathItems : /\ t[3] # Nil
                             /\ \E o \in doc.fields[val[t[3]]] : o[1] = "operations" /\ r = Route(o[2], t[2], o[3])
  BY RoutesTyped
<1>3. PICK o \in doc.fields[val[t[3]]] : o[1] = "operations" /\ r = Route(o[2], t[2], o[3])
  BY <1>2
<1>4. o[3] \in Ops(t[3]) /\ r.operation = o[3]
  BY <1>2, <1>3 DEF Ops, In, Route
<1>5. ValidOperation(r.operation)
  BY <1>4, VerdictsAre DEF ValidPath
<1>6. ValidParameter(n)
  BY <1>5 DEF ValidOperation, ValidParameters
<1>7. Supported(Info(n).in, Decoders!MethodOf(Info(n)))
  BY <1>6 DEF ValidParameter
<1>8. PICK in, sm : in = Info(n).in /\ sm = Decoders!MethodOf(Info(n))
  OBVIOUS
<1>9. \E kind \in {"primitive", "array", "object"} : Decoders!Takes(in, sm, kind)
  BY <1>7, <1>8, SupportedTaken
<1> QED BY <1>8, <1>9 DEF Decodable

-----------------------------------------------------------------------------
(* The tree.                                                                *)

LEMMA SuffixesOfType ==
  ASSUME NEW path \in Seq(Tokens)
  PROVE  SuffixesOf(path) \in Seq(AllSuffixes)
<1>1. PICK q : q = Trimmed(path)
  OBVIOUS
<1>2. q \in Seq(Tokens)
  BY <1>1, TrimmedFacts
<1>3. ParsedBy(q, Parsed(q))
  BY <1>2, ParsedIs
<1>4. Len(q) \in 0..Len(q)
  BY <1>2
<1> QED BY <1>1, <1>3, <1>4 DEF SuffixesOf, ParsedBy

\* What Node.Add changes.
AddedTo(tr, node, names, value, tr2) ==
    /\ DOMAIN tr2 = DOMAIN tr \cup {SubSeq(node, 1, k) : k \in 0..Len(node)}
    /\ node \in DOMAIN tr2 /\ tr2[node] = [names |-> names, value |-> value]
    /\ \A n \in DOMAIN tr : n # node => tr2[n] = tr[n]
    /\ \A n \in DOMAIN tr2 : n # node /\ n \notin DOMAIN tr => tr2[n] = EmptyNode

LEMMA AddIs ==
  ASSUME NEW tr, NEW path \in Seq(Tokens), NEW value
  PROVE  AddedTo(tr, SuffixesOf(path), VariableNames(path), value, Add(tr, path, value))
<1>1. PICK node : node = SuffixesOf(path)
  OBVIOUS
<1>2. PICK with : with = [n \in DOMAIN tr \cup {SubSeq(node, 1, k) : k \in 0..Len(node)} |->
                             IF n \in DOMAIN tr THEN tr[n] ELSE EmptyNode]
  OBVIOUS
<1>3. Add(tr, path, value) = [with EXCEPT ![node] = [names |-> VariableNames(path), value |-> value]]
  BY <1>1, <1>2 DEF Add
<1>4. node \in {SubSeq(node, 1, k) : k \in 0..Len(node)}
  <2>1. node \in Seq(AllSuffixes)
    BY <1>1, SuffixesOfType
  <2>2. node = SubSeq(node, 1, Len(node)) /\ Len(node) \in 0..Len(node)
    BY <2>1
  <2> QED BY <2>2
<1>5. node \in DOMAIN with
  BY <1>2, <1>4
<1> QED BY <1>1, <1>2, <1>3, <1>5 DEF AddedTo

LEMMA AddTree ==
  ASSUME NEW tr, IsTree(tr), NEW node \in Seq(AllSuffixes), NEW names, NEW value,
         NEW tr2, AddedTo(tr, node, names, value, tr2)
  PROVE  IsTree(tr2)
<1>1. ASSUME NEW k \in 0..Len(node)
      PROVE  /\ SubSeq(node, 1, k) \in Seq(AllSuffixes) /\ Len(SubSeq(node, 1, k)) = k
             /\ \A j \in 0..k : SubSeq(SubSeq(node, 1, k), 1, j) = SubSeq(node, 1, j)
  OBVIOUS
<1>2. DOMAIN tr2 \subseteq Seq(AllSuffixes) /\ <<>> \in DOMAIN tr2
  BY <1>1 DEF IsTree, AddedTo
<1>3. ASSUME NEW n \in DOMAIN tr2, NEW k \in 0..Len(n) PROVE SubSeq(n, 1, k) \in DOMAIN tr2
  <2>1. CASE n \in DOMAIN tr
    BY <1>3, <2>1 DEF IsTree, AddedTo
  <2>2. CASE n \notin DOMAIN tr
    <3>1. PICK m \in 0..Len(node) : n = SubSeq(node, 1, m)
      BY <2>2 DEF AddedTo
    <3>2. Len(n) = m /\ k \in 0..m /\ m <= Len(node) /\ Len(node) \in Nat
      BY <1>1, <3>1
    <3>3. k \in 0..Len(node) /\ SubSeq(n, 1, k) = SubSeq(node, 1, k)
      BY <1>1, <3>1, <3>2
    <3> QED BY <3>3 DEF AddedTo
  <2> QED BY <2>1, <2>2
<1>4. PICK N \in Nat : \A n \in DOMAIN tr : Len(n) <= N
  BY DEF IsTree
<1>5. PICK L : L = Len(node)
  OBVIOUS
<1>6. L \in Nat
  BY <1>5
<1>7. \A n \in DOMAIN tr2 : Len(n) <= N + L
  <2>1. SUFFICES ASSUME NEW n \in DOMAIN tr2 PROVE Len(n) <= N + L
    OBVIOUS
  <2>2. Len(n) \in Nat
    BY <1>2
  <2>3. CASE n \in DOMAIN tr
    BY <1>4, <1>6, <2>2, <2>3
  <2>4. CASE n \notin DOMAIN tr
    <3>1. PICK m \in 0..L : n = SubSeq(node, 1, m)
      BY <1>5, <2>4 DEF AddedTo
    <3>2. Len(n) = m
      BY <1>1, <1>5, <3>1
    <3> QED BY <1>6, <3>2
  <2> QED BY <2>3, <2>4
<1>8. N + L \in Nat
  BY <1>6
<1> QED BY <1>2, <1>3, <1>7, <1>8 DEF IsTree

\* The place of a route in the tree; its method comes first.
Full(r)      == <<r.method>> \o r.path
RouteNode(r) == SuffixesOf(Full(r))

\* A node has no value, the router for one that AddRoute put there, or a
\* route that leads to it, with the names of the route's variables.
Entry(tr, n) ==
    \/ tr[n].value \in {None, Nil}
    \/ /\ tr[n].value \in Routes
       /\ RouteNode(tr[n].value) = n /\ tr[n].names = VariableNames(Full(tr[n].value))
TreeOK(tr) == IsTree(tr) /\ \A n \in DOMAIN tr : Entry(tr, n)

LEMMA FullType ==
  ASSUME Loaded, NEW r \in Routes
  PROVE  Full(r) \in Seq(Tokens)
<1>1. r.method \in Methods /\ r.path \in Seq(Tokens)
  BY RoutesTyped
<1>2. r.method \in Tokens
  BY <1>1, RouterAssumption DEF Verbs
<1> QED BY <1>1, <1>2 DEF Full

\* AddOperation adds the route, AddRoute the router.
LEMMA AddKeepsTree ==
  ASSUME TreeOK(tree), NEW path \in Seq(Tokens), NEW value,
         value = Nil \/ (value \in Routes /\ path = Full(value))
  PROVE  /\ TreeOK(Add(tree, path, value))
         /\ \A n \in DOMAIN tree : n \in DOMAIN Add(tree, path, value)
                                   /\ (tree[n].value # None => Add(tree, path, value)[n].value # None \/ value = None)
         /\ SuffixesOf(path) \in DOMAIN Add(tree, path, value)
         /\ Add(tree, path, value)[SuffixesOf(path)].value = value
<1>1. PICK tr, node, names : tr = Add(tree, path, value) /\ node = SuffixesOf(path) /\ names = VariableNames(path)
  OBVIOUS
<1>2. AddedTo(tree, node, names, value, tr) /\ node \in Seq(AllSuffixes)
  BY <1>1, AddIs, SuffixesOfType
<1>3. IsTree(tr)
  BY <1>2, AddTree DEF TreeOK
<1>4. ASSUME NEW n \in DOMAIN tr PROVE Entry(tr, n)
  <2>1. CASE n = node
    <3>1. tr[n].names = names /\ tr[n].value = value
      BY <1>2, <2>1 DEF AddedTo
    <3>2. CASE value = Nil
      BY <3>1, <3>2 DEF Entry
    <3>3. CASE value \in Routes /\ path = Full(value)
      <4>1. RouteNode(value) = n
        BY <1>1, <2>1, <3>3 DEF RouteNode
      <4> QED BY <1>1, <3>1, <3>3, <4>1 DEF Entry
    <3> QED BY <3>2, <3>3
  <2>2. CASE n # node /\ n \in DOMAIN tree
    <3>1. Entry(tree, n) /\ tr[n] = tree[n]
      BY <1>2, <2>2 DEF AddedTo, TreeOK
    <3> QED BY <3>1 DEF Entry
  <2>3. CASE n # node /\ n \notin DOMAIN tree
    <3>1. tr[n] = EmptyNode
      BY <1>2, <2>3 DEF AddedTo
    <3> QED BY <3>1 DEF Entry, EmptyNode
  <2> QED BY <2>1, <2>2, <2>3
<1>5. \A n \in DOMAIN tree : n \in DOMAIN tr /\ (tree[n].value # None => tr[n].value # None \/ value = None)
  BY <1>2 DEF AddedTo
<1>6. node \in DOMAIN tr /\ tr[node].value = value
  BY <1>2 DEF AddedTo
<1> QED BY <1>1, <1>3, <1>4, <1>5, <1>6 DEF TreeOK

-----------------------------------------------------------------------------
(* The inductive invariant.                                                 *)

\* A null server or variable of one.
NullServer(d) ==
    \E k \in DOMAIN d.info[Root].servers :
       LET server == d.info[Root].servers[k]
       IN  server = Nil \/ \E x \in DOMAIN server.variables : server.variables[x] = Nil

AnswerTyped(a) == a.how \in {"found", "path not found", "method not allowed", "died"}

\* The operations NewRouter is done with are in the tree.
Present(tr, rest) == \A r \in Routes \ rest : RouteNode(r) \in DOMAIN tr /\ tr[RouteNode(r)].value # None

BeforeRouter ==
    pc \in LoaderStages => RInv /\ Nulls /\ tree = EmptyTree /\ todo = {} /\ answer = None
AfterLoading ==
    pc \notin LoaderStages =>
        /\ Loaded /\ AllResolved
        /\ pc \in {"valid", "invalid", "panickedValidating", "unroutable", "ready", "answered"}
        /\ TreeOK(tree)
        /\ todo \subseteq Routes /\ (pc # "valid" => todo = {})
Checked ==
    /\ pc \in {"valid", "ready", "answered"} => Servable /\ Present(tree, todo)
    /\ pc = "panickedValidating" => NullServer(doc)
Answered ==
    /\ pc # "answered" => answer = None
    /\ pc = "answered" => AnswerTyped(answer)

DInv == BeforeRouter /\ AfterLoading /\ Checked /\ Answered

LEMMA DocumentKept ==
  ASSUME doc' = doc, val' = val, visited' = visited, stack' = stack
  PROVE  /\ Routes' = Routes /\ PathItems' = PathItems
         /\ Loaded => Loaded'
         /\ AllResolved => AllResolved'
         /\ Servable => Servable'
         /\ NullServer(doc)' <=> NullServer(doc)
<1>1. PathItems' = PathItems
  BY DEF PathItems
<1>2. Routes' = Routes
  BY <1>1 DEF Routes
<1>3. Loaded => Loaded'
  BY DEF Loaded, Nodes, Values
<1>4. AllResolved => AllResolved'
  BY DEF AllResolved, Resolved, Drill
<1>5. ASSUME NEW n PROVE Decodable(n)' <=> Decodable(n)
  BY DEF Decodable, In, Info
<1>6. ASSUME NEW n PROVE In(n, "parameters")' = In(n, "parameters")
  BY DEF In
<1>7. Servable => Servable'
  BY <1>2, <1>5, <1>6 DEF Servable
<1>8. NullServer(doc)' <=> NullServer(doc)
  BY DEF NullServer
<1> QED BY <1>1, <1>2, <1>3, <1>4, <1>7, <1>8

LEMMA EmptyTreeOK == TreeOK(EmptyTree)
<1>1. <<>> \in Seq(AllSuffixes) /\ Len(<<>>) = 0
  OBVIOUS
<1>2. DOMAIN EmptyTree = {<<>>} /\ EmptyTree[<<>>] = EmptyNode
  BY DEF EmptyTree
<1>3. \A k \in 0..Len(<<>>) : SubSeq(<<>>, 1, k) = <<>>
  OBVIOUS
<1>4. IsTree(EmptyTree)
  BY <1>1, <1>2, <1>3 DEF IsTree
<1> QED BY <1>2, <1>4 DEF TreeOK, Entry, EmptyNode

LEMMA AnswersTyped == \A request : AnswerTyped(FindRoute(request))
BY DEF FindRoute, AnswerTyped

LEMMA InitDInv == DocInit => DInv
<1>1. SUFFICES ASSUME DocInit PROVE DInv
  OBVIOUS
<1>2. Init /\ tree = EmptyTree /\ todo = {} /\ answer = None /\ pc = "loading"
  BY <1>1 DEF DocInit, Init
<1>3. RInv /\ Nulls
  BY <1>2, InitRInv, InitNulls
<1> QED BY <1>2, <1>3 DEF DInv, BeforeRouter, AfterLoading, Checked, Answered, LoaderStages

LEMMA LoadingKeeps == DInv /\ Loading => DInv'
<1>1. SUFFICES ASSUME DInv, Loading PROVE DInv'
  OBVIOUS
<1>2. Load /\ tree' = tree /\ todo' = todo /\ answer' = answer
  BY <1>1 DEF Loading, router
<1>3. pc = "loading"
  BY <1>2 DEF Load, At, AlreadyVisited, Inline, FollowRef, CopyPathItem, OpenValue, Descend, AllVisited
<1>4. RInv /\ Nulls /\ tree = EmptyTree /\ todo = {} /\ answer = None
  BY <1>1, <1>3 DEF DInv, BeforeRouter, LoaderStages
<1>5. [Next]_vars
  BY <1>2 DEF Next
<1>6. RInv' /\ Nulls'
  BY <1>4, <1>5, NextRInv, NextNulls
<1>7. pc' \in LoaderStages
  BY <1>6 DEF RInv, IInv, Types, LoaderStages
<1>8. EmptyTree' = EmptyTree
  BY DEF EmptyTree, EmptyNode
<1> QED BY <1>2, <1>4, <1>6, <1>7, <1>8 DEF DInv, BeforeRouter, AfterLoading, Checked, Answered, LoaderStages

LEMMA ValidateKeeps == DInv /\ Validate => DInv'
<1>1. SUFFICES ASSUME DInv, Validate PROVE DInv'
  OBVIOUS
<1>2. PICK verdict \in Verdicts : pc' = verdict /\ todo' = IF verdict = "valid" THEN Routes ELSE {}
  BY <1>1 DEF Validate
<1>3. /\ pc = "loaded"
      /\ doc' = doc /\ stack' = stack /\ val' = val /\ visited' = visited /\ tree' = tree /\ answer' = answer
  BY <1>1 DEF Validate
<1>4. RInv /\ tree = EmptyTree /\ answer = None
  BY <1>1, <1>3 DEF DInv, BeforeRouter, LoaderStages
<1>5. Loaded /\ AllResolved
  <2>1. LoadedIsResolved
    BY <1>4, ResolvedWhenLoaded DEF RInv
  <2> QED BY <1>3, <1>4, <2>1, LoadedBecomes DEF LoadedIsResolved, AllResolved
<1>6. Routes' = Routes /\ Loaded' /\ AllResolved' /\ (Servable => Servable') /\ (NullServer(doc)' <=> NullServer(doc))
  BY <1>3, <1>5, DocumentKept
<1>7. verdict \in {"valid", "invalid", "panickedValidating"}
  BY VerdictsAre
<1>8. TreeOK(tree)'
  <2>1. tree' = EmptyTree
    BY <1>3, <1>4
  <2>2. TreeOK(EmptyTree)'
    BY EmptyTreeOK, PTL
  <2> QED BY <2>1, <2>2 DEF TreeOK, Entry, EmptyTree, EmptyNode
<1>9. verdict = "valid" => Servable' /\ Present(tree, todo)'
  <2>1. verdict = "valid" => Servable
    BY <1>5, ValidServable
  <2>2. verdict = "valid" => Present(tree, todo)'
    BY <1>2, <1>6 DEF Present
  <2> QED BY <1>6, <2>1, <2>2
<1>10. verdict = "panickedValidating" => NullServer(doc)'
  <2>1. verdict = "panickedValidating" => NullServer(doc)
    BY VerdictsAre DEF NullServer
  <2> QED BY <1>6, <2>1
<1>11. todo' \subseteq Routes' /\ (verdict # "valid" => todo' = {})
  BY <1>2, <1>6
<1> QED BY <1>2, <1>3, <1>4, <1>6, <1>7, <1>8, <1>9, <1>10, <1>11
       DEF DInv, BeforeRouter, AfterLoading, Checked, Answered, LoaderStages

\* The facts of a document that is being served.
LEMMA ServedFacts ==
  ASSUME DInv, pc \in {"valid", "ready", "answered"}
  PROVE  Loaded /\ AllResolved /\ TreeOK(tree) /\ todo \subseteq Routes /\ Servable /\ Present(tree, todo)
BY DEF DInv, AfterLoading, Checked, LoaderStages

LEMMA AddOperationKeeps == DInv /\ AddOperation => DInv'
<1>1. SUFFICES ASSUME DInv, AddOperation PROVE DInv'
  OBVIOUS
<1>2. pc = "valid" /\ doc' = doc /\ stack' = stack /\ val' = val /\ visited' = visited /\ answer' = answer
  BY <1>1 DEF AddOperation
<1>3. Loaded /\ AllResolved /\ TreeOK(tree) /\ todo \subseteq Routes /\ Servable /\ Present(tree, todo) /\ answer = None
  BY <1>1, <1>2, ServedFacts DEF DInv, Answered
<1>4. Routes' = Routes /\ Loaded' /\ AllResolved' /\ Servable'
  BY <1>2, <1>3, DocumentKept
<1>5. PICK r \in todo :
          IF Malformed(r.path)
          THEN pc' = "unroutable" /\ todo' = {} /\ UNCHANGED tree
          ELSE /\ tree' = Add(tree, <<r.method>> \o r.path, r)
               /\ todo' = todo \ {r}
               /\ UNCHANGED pc
  BY <1>1 DEF AddOperation
<1>6. r \in Routes /\ r # None /\ r # Nil /\ Full(r) \in Seq(Tokens)
  BY <1>3, <1>5, FullType, RoutesTyped
<1>7. \A tr : TreeOK(tr)' <=> TreeOK(tr)
  BY <1>4 DEF TreeOK, Entry, RouteNode, Full
<1>8. CASE Malformed(r.path)
  <2>1. pc' = "unroutable" /\ todo' = {} /\ tree' = tree
    BY <1>5, <1>8
  <2>2. TreeOK(tree)'
    BY <1>3, <1>7, <2>1 DEF TreeOK, Entry, RouteNode, Full
  <2> QED BY <1>2, <1>3, <1>4, <2>1, <2>2 DEF DInv, BeforeRouter, AfterLoading, Checked, Answered, LoaderStages
<1>9. CASE ~Malformed(r.path)
  <2>1. pc' = "valid" /\ todo' = todo \ {r} /\ tree' = Add(tree, Full(r), r)
    BY <1>2, <1>5, <1>9 DEF Full
  <2>2. PICK tr : tr = Add(tree, Full(r), r)
    OBVIOUS
  <2>3. /\ TreeOK(tr)
        /\ \A n \in DOMAIN tree : n \in DOMAIN tr /\ (tree[n].value # None => tr[n].value # None)
        /\ RouteNode(r) \in DOMAIN tr /\ tr[RouteNode(r)].value = r
    BY <1>3, <1>6, <2>2, AddKeepsTree DEF RouteNode
  <2>4. Present(tr, todo \ {r})
    <3>1. SUFFICES ASSUME NEW q \in Routes \ (todo \ {r})
                   PROVE  RouteNode(q) \in DOMAIN tr /\ tr[RouteNode(q)].value # None
      BY DEF Present
    <3>2. CASE q = r
      BY <1>6, <2>3, <3>2
    <3>3. CASE q # r
      <4>1. q \in Routes \ todo
        BY <3>1, <3>3
      <4> QED BY <1>3, <2>3, <4>1 DEF Present
    <3> QED BY <3>2, <3>3
  <2>5. TreeOK(tree)'
    BY <1>4, <2>1, <2>2, <2>3 DEF TreeOK, Entry, RouteNode, Full
  <2>6. Present(tree, todo)'
    BY <1>4, <2>1, <2>2, <2>4 DEF Present, RouteNode, Full
  <2>7. todo' \subseteq Routes'
    BY <1>3, <1>4, <2>1
  <2> QED BY <1>2, <1>3, <1>4, <2>1, <2>5, <2>6, <2>7
         DEF DInv, BeforeRouter, AfterLoading, Checked, Answered, LoaderStages
<1> QED BY <1>8, <1>9

LEMMA RouterReadyKeeps == DInv /\ RouterReady => DInv'
<1>1. SUFFICES ASSUME DInv, RouterReady PROVE DInv'
  OBVIOUS
<1>2. /\ pc = "valid" /\ pc' = "ready" /\ todo = {}
      /\ doc' = doc /\ stack' = stack /\ val' = val /\ visited' = visited
      /\ tree' = tree /\ todo' = todo /\ answer' = answer
  BY <1>1 DEF RouterReady, router
<1>3. Loaded /\ AllResolved /\ TreeOK(tree) /\ todo \subseteq Routes /\ Servable /\ Present(tree, todo) /\ answer = None
  BY <1>1, <1>2, ServedFacts DEF DInv, Answered
<1>4. Routes' = Routes /\ Loaded' /\ AllResolved' /\ Servable'
  BY <1>2, <1>3, DocumentKept
<1>5. TreeOK(tree)' /\ Present(tree, todo)'
  BY <1>2, <1>3, <1>4 DEF TreeOK, Entry, RouteNode, Full, Present
<1> QED BY <1>2, <1>3, <1>4, <1>5 DEF DInv, BeforeRouter, AfterLoading, Checked, Answered, LoaderStages

LEMMA AddRouteKeeps == DInv /\ AddRoute => DInv'
<1>1. SUFFICES ASSUME DInv, AddRoute PROVE DInv'
  OBVIOUS
<1>2. /\ pc = "ready" /\ pc' = pc
      /\ doc' = doc /\ stack' = stack /\ val' = val /\ visited' = visited /\ todo' = todo /\ answer' = answer
  BY <1>1 DEF AddRoute, docVars
<1>3. PICK a \in AddedRoutes(doc) : tree' = Add(tree, <<a[1]>> \o a[2], Nil)
  BY <1>1 DEF AddRoute
<1>4. Loaded /\ AllResolved /\ TreeOK(tree) /\ todo = {} /\ Servable /\ Present(tree, todo) /\ answer = None
  BY <1>1, <1>2, ServedFacts DEF DInv, Answered, AfterLoading, LoaderStages
<1>5. Routes' = Routes /\ Loaded' /\ AllResolved' /\ Servable'
  BY <1>2, <1>4, DocumentKept
<1>6. PICK path : path = <<a[1]>> \o a[2]
  OBVIOUS
<1>7. path \in Seq(Tokens)
  <2>1. a[1] \in Verbs /\ a[2] \in Seq(Tokens)
    BY <1>4, RouterAssumption DEF Loaded
  <2> QED BY <1>6, <2>1 DEF Verbs
<1>8. PICK tr : tr = Add(tree, path, Nil)
  OBVIOUS
<1>9. TreeOK(tr) /\ \A n \in DOMAIN tree : n \in DOMAIN tr /\ (tree[n].value # None => tr[n].value # None)
  <2>1. Nil # None
    BY DocumentsAssumption
  <2> QED BY <1>4, <1>7, <1>8, <2>1, AddKeepsTree
<1>10. Present(tr, todo)
  BY <1>4, <1>9 DEF Present
<1>11. tree' = tr
  BY <1>3, <1>6, <1>8
<1>12. TreeOK(tree)' /\ Present(tree, todo)'
  BY <1>2, <1>5, <1>9, <1>10, <1>11 DEF TreeOK, Entry, RouteNode, Full, Present
<1> QED BY <1>2, <1>4, <1>5, <1>12 DEF DInv, BeforeRouter, AfterLoading, Checked, Answered, LoaderStages

LEMMA FindKeeps == DInv /\ Find => DInv'
<1>1. SUFFICES ASSUME DInv, Find PROVE DInv'
  OBVIOUS
<1>2. /\ pc = "ready" /\ pc' = "answered"
      /\ doc' = doc /\ stack' = stack /\ val' = val /\ visited' = visited /\ tree' = tree /\ todo' = todo
  BY <1>1 DEF Find
<1>3. PICK request \in Requests(doc) : answer' = FindRoute(request)
  BY <1>1 DEF Find
<1>4. Loaded /\ AllResolved /\ TreeOK(tree) /\ todo = {} /\ Servable /\ Present(tree, todo)
  BY <1>1, <1>2, ServedFacts DEF DInv, AfterLoading, LoaderStages
<1>5. Routes' = Routes /\ Loaded' /\ AllResolved' /\ Servable'
  BY <1>2, <1>4, DocumentKept
<1>6. TreeOK(tree)' /\ Present(tree, todo)'
  BY <1>2, <1>4, <1>5 DEF TreeOK, Entry, RouteNode, Full, Present
<1>7. AnswerTyped(answer')
  BY <1>3, AnswersTyped
<1>8. AnswerTyped(answer)'
  BY <1>7 DEF AnswerTyped
<1> QED BY <1>2, <1>4, <1>5, <1>6, <1>8 DEF DInv, BeforeRouter, AfterLoading, Checked, Answered, LoaderStages

LEMMA StutterKeeps == DInv /\ UNCHANGED allVars => DInv'
<1>1. SUFFICES ASSUME DInv, UNCHANGED allVars PROVE DInv'
  OBVIOUS
<1>2. /\ doc' = doc /\ pc' = pc /\ stack' = stack /\ val' = val /\ visited' = visited
      /\ tree' = tree /\ todo' = todo /\ answer' = answer
  BY <1>1 DEF allVars, docVars, router
<1>3. CASE pc \in LoaderStages
  <2>1. RInv /\ Nulls /\ tree = EmptyTree /\ todo = {} /\ answer = None
    BY <1>1, <1>3 DEF DInv, BeforeRouter
  <2>2. [Next]_vars
    BY <1>2 DEF vars
  <2>3. RInv' /\ Nulls'
    BY <2>1, <2>2, NextRInv, NextNulls
  <2>4. EmptyTree' = EmptyTree
    BY DEF EmptyTree, EmptyNode
  <2> QED BY <1>2, <1>3, <2>1, <2>3, <2>4 DEF DInv, BeforeRouter, AfterLoading, Checked, Answered, LoaderStages
<1>4. CASE pc \notin LoaderStages
  <2>1. AfterLoading /\ Checked /\ Answered /\ Loaded /\ AllResolved
    BY <1>1, <1>4 DEF DInv, AfterLoading
  <2>2. Routes' = Routes /\ Loaded' /\ AllResolved' /\ (Servable => Servable') /\ (NullServer(doc) => NullServer(doc)')
    BY <1>2, <2>1, DocumentKept
  <2>3. /\ TreeOK(tree) => TreeOK(tree)'
        /\ Present(tree, todo) => Present(tree, todo)'
    BY <1>2, <2>2 DEF TreeOK, Entry, RouteNode, Full, Present
  <2>4. AfterLoading'
    BY <1>2, <1>4, <2>1, <2>2, <2>3 DEF AfterLoading, LoaderStages
  <2>5. Checked'
    BY <1>2, <2>1, <2>2, <2>3 DEF Checked
  <2>6. Answered' /\ BeforeRouter'
    BY <1>2, <1>4, <2>1 DEF Answered, AnswerTyped, BeforeRouter, LoaderStages
  <2> QED BY <2>4, <2>5, <2>6 DEF DInv
<1> QED BY <1>3, <1>4

LEMMA NextDInv == DInv /\ [DocNext]_allVars => DInv'
<1>1. Done => UNCHANGED allVars
  BY DEF Done
<1> QED BY <1>1, LoadingKeeps, ValidateKeeps, AddOperationKeeps, RouterReadyKeeps, AddRouteKeeps, FindKeeps,
           StutterKeeps DEF DocNext

\* The loader's invariant until the document is loaded, and what it leaves
\* behind for as long as the document is served.
THEOREM DocumentInvariant == DocSpec => []DInv
<1> QED BY InitDInv, NextDInv, PTL DEF DocSpec

-----------------------------------------------------------------------------
(* What the run checks of the loader and of what was accepted.              *)

\* Answers.tla DocTypeOK: the types of the loader, the tree and the answers.
THEOREM DocTypesCorrect == DocSpec => []DocTypeOK
<1>1. ASSUME DInv PROVE DocTypeOK
  <2>1. TypeOK
    <3>1. CASE pc \in LoaderStages
      BY <1>1, <3>1, TypesCorrect DEF DInv, BeforeRouter, RInv
    <3>2. CASE pc \notin LoaderStages
      <4>1. Loaded /\ pc \in Stages
        BY <1>1, <3>2 DEF DInv, AfterLoading, Stages
      <4>2. Len(stack) <= MaxDepth /\ DOMAIN stack = {}
        BY <4>1, DocumentsAssumption DEF Loaded
      <4> QED BY <4>1, <4>2 DEF TypeOK, Loaded, WellFormed, Nodes, Values
    <3> QED BY <3>1, <3>2
  <2>2. TreeOK(tree) /\ todo \subseteq Routes
    BY <1>1, EmptyTreeOK DEF DInv, BeforeRouter, AfterLoading
  <2>3. ASSUME NEW n \in DOMAIN tree
        PROVE  /\ tree[n].value \in Routes \cup {None, Nil}
               /\ \A k \in DOMAIN n : n[k].kind \in {"constant", "variable", "everything"}
    <3>1. tree[n].value \in Routes \cup {None, Nil}
      BY <2>2 DEF TreeOK, Entry
    <3>2. n \in Seq(AllSuffixes)
      BY <2>2 DEF TreeOK, IsTree
    <3>3. ASSUME NEW k \in DOMAIN n PROVE n[k].kind \in {"constant", "variable", "everything"}
      <4>1. n[k] \in AllSuffixes
        BY <3>2
      <4> QED BY <4>1, SuffixKinds
    <3> QED BY <3>1, <3>3
  <2>4. <<>> \in DOMAIN tree
    BY <2>2 DEF TreeOK, IsTree
  <2>5. answer = None \/ answer.how \in {"found", "path not found", "method not allowed", "died"}
    BY <1>1 DEF DInv, Answered, AnswerTyped
  <2> QED BY <2>1, <2>2, <2>3, <2>4, <2>5 DEF DocTypeOK
<1> QED BY <1>1, DocumentInvariant, PTL

\* RefLoader.tla LoadedIsResolved of the whole process: neither validating nor
\* the router takes away what the loader resolved.
THEOREM DocumentResolved == DocSpec => []LoadedIsResolved
<1>1. ASSUME DInv PROVE LoadedIsResolved
  <2>1. CASE pc \in LoaderStages
    BY <1>1, <2>1, ResolvedWhenLoaded DEF DInv, BeforeRouter, RInv
  <2>2. CASE pc \notin LoaderStages
    BY <1>1, <2>2 DEF DInv, AfterLoading, AllResolved, LoadedIsResolved
  <2> QED BY <2>1, <2>2
<1> QED BY <1>1, DocumentInvariant, PTL

\* References.tla RefusedForAReason of the whole process.
THEOREM DocumentRefusals == DocSpec => []RefusedForAReason
<1>1. ASSUME DInv PROVE RefusedForAReason
  <2>1. CASE pc \in LoaderStages
    BY <1>1, <2>1, RefusalsReasoned DEF DInv, BeforeRouter
  <2>2. CASE pc \notin LoaderStages
    BY <1>1, <2>2 DEF DInv, AfterLoading, Loaded, LoaderStages, RefusedForAReason
  <2> QED BY <2>1, <2>2
<1> QED BY <1>1, DocumentInvariant, PTL

\* References.tla LoadedWithoutCycles of the whole process: no document that swagger_loader.go:680
\* would resolve anew for ever is ever validated, routed or answered from.
THEOREM DocumentCycles == DocSpec => []LoadedWithoutCycles
<1>1. ASSUME DInv PROVE LoadedWithoutCycles
  <2>1. CASE pc \in LoaderStages
    BY <1>1, <2>1, StraightWhenLoaded DEF DInv, BeforeRouter
  <2>2. CASE pc \notin LoaderStages
    BY <1>1, <2>2 DEF DInv, AfterLoading, Loaded, LoaderStages, LoadedWithoutCycles
  <2> QED BY <2>1, <2>2
<1> QED BY <1>1, DocumentInvariant, PTL

\* References.tla OverflowsOnAliasCycles of the whole process: where Go's stack
\* has room for what the size of the document allows, swagger_loader.go:680 uses
\* it up only for aliases that lead on to each other.
THEOREM DocumentOverflows == DocSpec => [](Enough(doc) < MaxDepth => OverflowsOnAliasCycles)
<1>1. ASSUME DInv PROVE Enough(doc) < MaxDepth => OverflowsOnAliasCycles
  <2>1. CASE pc \in LoaderStages
    BY <1>1, <2>1, OverflowsReasoned DEF DInv, BeforeRouter
  <2>2. CASE pc \notin LoaderStages
    BY <1>1, <2>2 DEF DInv, AfterLoading, Loaded, LoaderStages, LoadedWithoutCycles, OverflowsOnAliasCycles
  <2> QED BY <2>1, <2>2
<1> QED BY <1>1, DocumentInvariant, PTL

LEMMA DocNextImplements == DInv /\ [DocNext]_allVars => [Promise!Next]_Promise!vars
<1>1. SUFFICES ASSUME DInv, [DocNext]_allVars PROVE [Promise!Next]_Promise!vars
  OBVIOUS
<1>2. CASE Loading
  <2>1. Load /\ pc = "loading"
    BY <1>2 DEF Loading, Load, At, AlreadyVisited, Inline, FollowRef, CopyPathItem, OpenValue, Descend, AllVisited
  <2>2. RInv /\ [Next]_vars
    BY <1>1, <2>1 DEF DInv, BeforeRouter, LoaderStages, Next
  <2> QED BY <2>2, NextImplements
<1>3. CASE ~Loading
  <2>1. /\ doc' = doc /\ val' = val
        /\ pc' = pc \/ (pc \in {"loaded", "valid", "ready"} /\ pc' \notin {"loading", "refused", "panicked", "overflow"})
    BY <1>1, <1>3, VerdictsAre
       DEF DocNext, Validate, AddOperation, RouterReady, AddRoute, Find, Done, allVars, docVars, router
  <2>2. Given' = Given
    BY <2>1 DEF Given
  <2>3. Outcome' = Outcome
    BY <2>1 DEF Outcome
  <2> QED BY <2>2, <2>3 DEF Promise!vars
<1> QED BY <1>2, <1>3

\* References.tla KeepsMeaning of the whole process: validating, routing and
\* answering give no component another value.
THEOREM DocumentMeaning == DocSpec => KeepsMeaning
<1>1. DocInit => Promise!Init
  BY InitImplements DEF DocInit
<1> QED BY <1>1, DocumentInvariant, DocNextImplements, PTL DEF DocSpec, KeepsMeaning, Promise!Spec

\* parameter.go Parameter.Validate and decodeStyledParameter: every parameter
\* of an operation that is served has a serialization some decoder takes, and
\* nothing below the operation is unresolved.
THEOREM AcceptedServed == DocSpec => []AcceptedCanBeServed
<1>1. ASSUME DInv PROVE AcceptedCanBeServed
  <2>1. SUFFICES ASSUME pc \in {"ready", "answered"}, NEW r \in Routes
                 PROVE  LET below == Walked(r.operation, r.operation)
                        IN  /\ \A t \in below : val[t[3]] # None
                            /\ \A t \in below : t[1] = "parameters" =>
                                  LET p == Info(t[3])
                                  IN  \/ In(t[3], "content") # {}
                                      \/ \E kind \in {"primitive", "array", "object"} :
                                            Decoders!Takes(p.in, Decoders!MethodOf(p), kind)
    BY DEF AcceptedCanBeServed
  <2>2. Loaded /\ Servable
    BY <1>1, <2>1, ServedFacts
  <2>3. val[r.operation] = r.operation /\ \A t \in doc.fields[r.operation] : val[t[3]] # None
    BY <2>2, OperationOf
  <2>4. ASSUME NEW t \in Walked(r.operation, r.operation) PROVE t \in doc.fields[r.operation]
    BY DEF Walked
  <2>5. ASSUME NEW t \in Walked(r.operation, r.operation), t[1] = "parameters" PROVE Decodable(t[3])
    <3>1. t[3] \in In(r.operation, "parameters")
      BY <2>3, <2>4, <2>5 DEF In
    <3> QED BY <2>2, <3>1 DEF Servable
  <2> QED BY <2>3, <2>4, <2>5 DEF Decodable
<1> QED BY <1>1, DocumentInvariant, PTL

-----------------------------------------------------------------------------
(* What FindRoute looks for.                                                *)

\* Where the pattern of a server can be in the text of a request, with the
\* values so far, and a step of Server.MatchRawURL.
Spots(input) == [at : 0..Len(input), values : Seq(Seq(Tokens))]
Stop(pattern, input, k, at) ==
    Min({Len(input)} \cup
        {i - 1 : i \in {j \in (at + 1)..Len(input) :
                           input[j] = "/" \/ (k < Len(pattern) /\ input[j] = pattern[k + 1])}})
OneStep(pattern, input, k, s) ==
    IF pattern[k] \in Variables
    THEN {[at |-> Stop(pattern, input, k, s.at),
           values |-> Append(s.values, SubSeq(input, s.at + 1, Stop(pattern, input, k, s.at)))]}
    ELSE IF s.at < Len(input) /\ input[s.at + 1] = pattern[k]
    THEN {[at |-> s.at + 1, values |-> s.values]}
    ELSE {}

\* The next slash, or the end, is inside the text.
LEMMA StopIs ==
  ASSUME NEW pattern, NEW input \in Seq(Tokens), NEW k, NEW at \in 0..Len(input)
  PROVE  Stop(pattern, input, k, at) \in 0..Len(input)
<1>1. PICK n, D, S : /\ n = Len(input)
                     /\ D = {j \in (at + 1)..n : input[j] = "/" \/ (k < Len(pattern) /\ input[j] = pattern[k + 1])}
                     /\ S = {n} \cup {i - 1 : i \in D}
  OBVIOUS
<1>2. n \in Nat
  BY <1>1
<1>3. \A i \in D : i - 1 \in 0..n
  BY <1>1, <1>2
<1>4. S \in SUBSET (0..n) /\ S # {}
  BY <1>1, <1>2, <1>3
<1>5. Min(S) \in S
  <2>1. S \in SUBSET Nat
    BY <1>4
  <2> QED BY <1>4, <2>1, MinIs
<1>6. Stop(pattern, input, k, at) = Min(S)
  BY <1>1 DEF Stop
<1> QED BY <1>1, <1>4, <1>5, <1>6

\* One token of a server pattern stays inside the text.
LEMMA OneStepType ==
  ASSUME NEW pattern, NEW input \in Seq(Tokens), NEW k, NEW s \in Spots(input)
  PROVE  OneStep(pattern, input, k, s) \subseteq Spots(input)
<1>1. PICK n, a, v, e : n = Len(input) /\ a = s.at /\ v = s.values /\ e = Stop(pattern, input, k, a)
  OBVIOUS
<1>2. n \in Nat /\ a \in 0..n /\ v \in Seq(Seq(Tokens))
  BY <1>1 DEF Spots
<1>3. e \in 0..n
  BY <1>1, <1>2, StopIs
<1>4. SubSeq(input, a + 1, e) \in Seq(Tokens)
  BY <1>1, <1>2, <1>3
<1>5. Append(v, SubSeq(input, a + 1, e)) \in Seq(Seq(Tokens))
  <2>1. PICK S, x : S = Seq(Tokens) /\ x = SubSeq(input, a + 1, e)
    OBVIOUS
  <2>2. v \in Seq(S) /\ x \in S
    BY <1>2, <1>4, <2>1
  <2> QED BY <2>1, <2>2
<1>6. [at |-> e, values |-> Append(v, SubSeq(input, a + 1, e))] \in Spots(input)
  BY <1>1, <1>3, <1>5 DEF Spots
<1>7. a < n => [at |-> a + 1, values |-> v] \in Spots(input)
  <2>1. a < n => a + 1 \in 0..n
    BY <1>2
  <2> QED BY <1>1, <1>2, <2>1 DEF Spots
<1> QED BY <1>1, <1>6, <1>7 DEF OneStep

\* Server.MatchRawURL: what remains of a request is a path.
LEMMA RemainingType ==
  ASSUME NEW pattern \in Seq(Tokens), NEW input \in Seq(Tokens), NEW r \in MatchRawURL(pattern, input)
  PROVE  r.remaining \in Seq(Tokens)
<1> DEFINE last == IF pattern # <<>> /\ pattern[Len(pattern)] = "/" THEN Len(pattern) - 1 ELSE Len(pattern)
           G(u) == [k \in 0..last |-> IF k = 0 THEN {[at |-> 0, values |-> <<>>]}
                                      ELSE UNION {OneStep(pattern, input, k, s) : s \in u[k - 1]}]
           matched == CHOOSE u : u = G(u)
<1>1. MatchRawURL(pattern, input) =
         {[values |-> s.values, remaining |-> IF s.at = Len(input) THEN <<"/">> ELSE SubSeq(input, s.at + 1, Len(input))] :
            s \in {x \in matched[last] : x.at = Len(input) \/ input[x.at + 1] = "/"}}
  BY Zenon DEF MatchRawURL, OneStep, Stop
<1>2. PICK n, S, step : /\ n = last /\ S = SUBSET Spots(input)
                        /\ step = [z \in (1..n) \X S |-> UNION {OneStep(pattern, input, z[1], s) : s \in z[2]}]
  OBVIOUS
<1>3. n \in Nat
  <2>1. Len(pattern) \in Nat /\ (pattern # <<>> => Len(pattern) - 1 \in Nat)
    OBVIOUS
  <2> QED BY <1>2, <2>1
<1>4. {[at |-> 0, values |-> <<>>]} \in S
  <2>1. 0 \in 0..Len(input)
    OBVIOUS
  <2> QED BY <1>2, <2>1 DEF Spots
<1>5. ASSUME NEW k \in 1..n, NEW X \in S
      PROVE  UNION {OneStep(pattern, input, k, s) : s \in X} \in S
  <2>1. \A s \in X : OneStep(pattern, input, k, s) \subseteq Spots(input)
    BY <1>2, OneStepType
  <2> QED BY <1>2, <2>1
<1>6. step \in [(1..n) \X S -> S]
  <2>1. ASSUME NEW z \in (1..n) \X S PROVE UNION {OneStep(pattern, input, z[1], s) : s \in z[2]} \in S
    <3>1. z[1] \in 1..n /\ z[2] \in S
      OBVIOUS
    <3> QED BY <1>5, <3>1
  <2> QED BY <1>2, <2>1
<1>7. PICK base : base = {[at |-> 0, values |-> <<>>]}
  OBVIOUS
<1>8. PICK g \in [0..n -> S] : Iterates(g, n, base, step)
  BY <1>3, <1>4, <1>6, <1>7, Recursion
<1>9. ASSUME NEW k \in 0..n, k # 0
      PROVE  step[<<k, g[k - 1]>>] = UNION {OneStep(pattern, input, k, s) : s \in g[k - 1]}
  <2>1. k \in 1..n /\ g[k - 1] \in S
    BY <1>3, <1>8, <1>9
  <2> QED BY <1>2, <2>1
<1>10. \A k \in 0..n : g[k] = IF k = 0 THEN base ELSE UNION {OneStep(pattern, input, k, s) : s \in g[k - 1]}
  BY <1>8, <1>9 DEF Iterates
<1>11. g = G(g)
  <2>1. DOMAIN g = 0..n
    BY <1>8
  <2> QED BY <1>2, <1>7, <1>10, <2>1
<1>12. PICK u : u = matched
  OBVIOUS
<1>13. u = G(u)
  <2> HIDE DEF G
  <2> QED BY <1>11, <1>12
<1>14. \A k \in 0..n : u[k] = IF k = 0 THEN base ELSE UNION {OneStep(pattern, input, k, s) : s \in u[k - 1]}
  BY <1>2, <1>7, <1>13
<1>15. PICK T : T = {k \in 0..n : u[k] \in S}
  OBVIOUS
<1>16. 0 \in T
  <2>1. 0 \in 0..n
    BY <1>3
  <2>2. u[0] = base
    BY <1>14, <2>1
  <2> QED BY <1>4, <1>7, <1>15, <2>1, <2>2
<1>17. ASSUME NEW k \in 1..n, k - 1 \in T PROVE k \in T
  <2>1. k \in 0..n /\ k # 0 /\ u[k - 1] \in S
    BY <1>15, <1>17
  <2>2. u[k] = UNION {OneStep(pattern, input, k, s) : s \in u[k - 1]}
    BY <1>14, <2>1
  <2>3. u[k] \in S
    BY <1>5, <2>1, <2>2
  <2> QED BY <1>15, <2>1, <2>3
<1>18. \A k \in 0..n : k \in T
  BY <1>3, <1>16, <1>17, Upwards
<1>19. u[n] \subseteq Spots(input)
  <2>1. n \in 0..n
    BY <1>3
  <2> QED BY <1>2, <1>15, <1>18, <2>1
<1>20. \E s \in u[n] : r.remaining = IF s.at = Len(input) THEN <<"/">> ELSE SubSeq(input, s.at + 1, Len(input))
  <2>1. \E s \in {x \in matched[last] : x.at = Len(input) \/ input[x.at + 1] = "/"} :
           r = [values |-> s.values,
                remaining |-> IF s.at = Len(input) THEN <<"/">> ELSE SubSeq(input, s.at + 1, Len(input))]
    <3> HIDE DEF matched, last
    <3> QED BY <1>1
  <2> HIDE DEF matched, last
  <2> QED BY <1>2, <1>12, <2>1
<1>21. PICK s \in u[n] : r.remaining = IF s.at = Len(input) THEN <<"/">> ELSE SubSeq(input, s.at + 1, Len(input))
  BY <1>20
<1>22. s.at \in 0..Len(input)
  BY <1>19, <1>21 DEF Spots
<1>23. <<"/">> \in Seq(Tokens)
  BY TokensAre
<1>24. SubSeq(input, s.at + 1, Len(input)) \in Seq(Tokens)
  BY <1>22
<1> HIDE DEF matched, last, G
<1> QED BY <1>21, <1>23, <1>24

\* A null server is not valid.
ServersThere == \A k \in DOMAIN doc.info[Root].servers : doc.info[Root].servers[k] # Nil

\* A document that can be valid has no null server.
LEMMA ValidServers ==
  ASSUME Loaded, "valid" \in Verdicts
  PROVE  ServersThere
<1>1. ASSUME NEW x PROVE "valid" \in ServerVerdicts(x) => ServerVerdicts(x) = {"valid"} /\ x # Nil
  <2>1. CASE x = Nil
    BY <2>1 DEF ServerVerdicts
  <2>2. CASE x # Nil
    BY <2>2 DEF ServerVerdicts
  <2> QED BY <2>1, <2>2
<1>2. PICK servers, first : /\ servers = doc.info[Root].servers
                            /\ first = {k \in DOMAIN servers :
                                          /\ ServerVerdicts(servers[k]) # {"valid"}
                                          /\ \A j \in 1..(k - 1) : ServerVerdicts(servers[j]) = {"valid"}}
  OBVIOUS
<1>3. "valid" \in ServersVerdicts
  BY DEF Verdicts
<1>4. first = {}
  <2>1. SUFFICES ASSUME first # {} PROVE FALSE
    OBVIOUS
  <2>2. "valid" \in UNION {ServerVerdicts(servers[k]) : k \in first}
    BY <1>2, <1>3, <2>1 DEF ServersVerdicts
  <2>3. PICK k \in first : "valid" \in ServerVerdicts(servers[k])
    BY <2>2
  <2> QED BY <1>1, <1>2, <2>3
<1>5. PICK bad : bad = {k \in DOMAIN servers : ServerVerdicts(servers[k]) # {"valid"}}
  OBVIOUS
<1>6. DOMAIN servers = 1..Len(servers)
  BY <1>2, RouterAssumption DEF Loaded
<1>7. bad = {}
  <2>1. SUFFICES ASSUME bad # {} PROVE FALSE
    OBVIOUS
  <2>2. bad \in SUBSET Nat
    BY <1>5, <1>6
  <2>3. PICK k \in bad : \A j \in bad : k <= j
    BY <2>1, <2>2, LeastOne
  <2>4. ASSUME NEW j \in 1..(k - 1) PROVE ServerVerdicts(servers[j]) = {"valid"}
    <3>1. k \in 1..Len(servers) /\ k \in Nat
      BY <1>5, <1>6
    <3>2. j \in DOMAIN servers /\ j < k
      BY <1>6, <3>1
    <3>3. j \notin bad
      BY <2>3, <3>1, <3>2
    <3> QED BY <1>5, <3>2, <3>3
  <2>5. k \in first
    BY <1>2, <1>5, <2>4
  <2> QED BY <1>4, <2>5
<1>8. ASSUME NEW k \in DOMAIN servers PROVE servers[k] # Nil
  <2>1. ServerVerdicts(servers[k]) = {"valid"}
    BY <1>5, <1>7
  <2> QED BY <1>1, <2>1
<1> QED BY <1>2, <1>8 DEF ServersThere

\* What a server leaves of a request is a path.
LEMMA ServedType ==
  ASSUME Loaded, ServersThere, NEW request \in Requests(doc), NEW s \in Served(request)
  PROVE  s.remaining \in Seq(Tokens)
<1>1. request.host \in Seq(Tokens) /\ request.path \in Seq(Tokens) /\ Escape \in Tokens
  BY RouterAssumption DEF Loaded
<1>2. PICK servers, escaped, url :
         /\ servers = doc.info[Root].servers
         /\ escaped = [k \in DOMAIN request.path |-> IF request.path[k] \in Braces THEN Escape ELSE request.path[k]]
         /\ url = request.host \o escaped
  OBVIOUS
<1>3. escaped \in Seq(Tokens)
  <2>1. PICK p, n : p = request.path /\ n = Len(p)
    OBVIOUS
  <2>2. p \in Seq(Tokens) /\ n \in Nat /\ DOMAIN p = 1..n
    BY <1>1, <2>1
  <2>3. escaped \in [1..n -> Tokens]
    BY <1>1, <1>2, <2>1, <2>2
  <2> QED BY <2>2, <2>3
<1>4. url \in Seq(Tokens)
  BY <1>1, <1>2, <1>3
<1>5. CASE servers = <<>>
  BY <1>1, <1>2, <1>5 DEF Served
<1>6. CASE servers # <<>>
  <2>1. PICK first : first = {k \in DOMAIN servers : /\ MatchRawURL(servers[k].url, url) # {}
                                                     /\ \A j \in 1..(k - 1) : MatchRawURL(servers[j].url, url) = {}}
    OBVIOUS
  <2>2. Served(request) =
           UNION {{[params |-> ParamsOf(VariableNames(servers[k].url), m.values, <<>>), remaining |-> m.remaining] :
                     m \in MatchRawURL(servers[k].url, url)} : k \in first}
    BY <1>2, <1>6, <2>1 DEF Served
  <2>3. PICK k \in first : s \in {[params |-> ParamsOf(VariableNames(servers[k].url), m.values, <<>>),
                                   remaining |-> m.remaining] : m \in MatchRawURL(servers[k].url, url)}
    BY <2>2
  <2>4. k \in DOMAIN doc.info[Root].servers /\ servers[k] = doc.info[Root].servers[k] /\ servers[k] # Nil
    BY <1>2, <2>1 DEF ServersThere
  <2>5. servers[k].url \in Seq(Tokens)
    BY <2>4, RouterAssumption DEF Loaded
  <2>6. PICK m \in MatchRawURL(servers[k].url, url) :
           s = [params |-> ParamsOf(VariableNames(servers[k].url), m.values, <<>>), remaining |-> m.remaining]
    BY <2>3
  <2>7. s.remaining = m.remaining
    BY <2>6
  <2> QED BY <1>4, <2>5, <2>6, <2>7, RemainingType
<1> QED BY <1>5, <1>6

\* Answers.tla FindsMostSpecific and PanicsAreKnown, of one answer.
FoundRight(a) ==
    Intact /\ a.remaining # None =>
        LET fitting == {r \in Routes : r.method = a.request.method /\ IsOf(a.remaining, r.path)}
            path    == a.route.path
        IN  /\ a.how = "found" =>
                  /\ a.route \in fitting
                  /\ ~\E r \in fitting : MoreSpecific(Trimmed(r.path), Trimmed(path))
                  /\ (\A j, k \in Blanks(path) : j # k => Plainly(path[j]) # Plainly(path[k])) =>
                        Trimmed(Filled(path, [k \in Blanks(path) |-> a.params[Plainly(path[k])]])) = Trimmed(a.remaining)
            /\ a.how # "found" => fitting = {}
DeathKnown(a) ==
    LET literal == {t \in PathItems : t[2] = a.remaining}
    IN  /\ a.how = "died" =>
              /\ literal # {}
              /\ \/ a.request.method \notin Methods
                 \/ \E t \in literal : ~IsOf(t[2], t[2])
        /\ a.how = "found" /\ a.route = None => ~Intact

Methods1(literal) == UNION {IF t[3] = Nil THEN {} ELSE Keys(t[3], "operations") : t \in literal}

\* FindRoute, case by case: what it looks at, and the answer it makes of that.
Looks(request, rest, found, node, route, literal) ==
    /\ Served(request) # {} /\ rest = Only(Served(request)).remaining
    /\ found = Match(tree, <<request.method>> \o rest) /\ node = Only(found).node
    /\ route = IF found = {} \/ tree[node].value = Nil THEN None ELSE tree[node].value
    /\ literal = {t \in PathItems : t[2] = rest}
Replies(request, rest, found, node, route, literal, a) ==
    /\ a.request = request /\ a.remaining = rest /\ a.route = route
    /\ a.how = "died" => /\ route = None /\ literal # {}
                         /\ request.method \notin Methods \/ (request.method \in Methods1(literal) /\ found = {})
    /\ a.how = "found" => /\ found # {}
                          /\ a.params = ParamsOf(Names(node), Only(found).values, Only(Served(request)).params)
    /\ found # {} /\ route # None => a.how = "found"

\* The early returns of FindRoute, in their order.
LEMMA FindRouteIs ==
  ASSUME NEW request, NEW rest, NEW found, NEW node, NEW route, NEW literal, NEW a,
         Looks(request, rest, found, node, route, literal), a = FindRoute(request)
  PROVE  Replies(request, rest, found, node, route, literal, a)
<1> USE DEF Looks, Replies
<1>1. PICK methods, params : /\ methods = Methods1(literal)
                             /\ params = ParamsOf(Names(node), Only(found).values, Only(Served(request)).params)
  OBVIOUS
<1>2. PICK Ans : Ans = [how \in {"path not found", "died", "method not allowed", "found"} |->
                          [request |-> request, how |-> how, remaining |-> rest,
                           route |-> route, params |-> IF how = "found" THEN params ELSE <<>>]]
  OBVIOUS
<1>3. a = IF route = None /\ literal = {} THEN Ans["path not found"]
          ELSE IF route = None /\ request.method \notin Methods THEN Ans["died"]
          ELSE IF route = None /\ request.method \notin methods THEN Ans["method not allowed"]
          ELSE IF found = {} THEN Ans["died"]
          ELSE Ans["found"]
  BY <1>1, <1>2 DEF FindRoute, Methods1
<1>4. ASSUME NEW how \in {"path not found", "died", "method not allowed", "found"}
      PROVE  /\ Ans[how].request = request /\ Ans[how].how = how /\ Ans[how].remaining = rest /\ Ans[how].route = route
             /\ how = "found" => Ans[how].params = params
  BY <1>2
<1>5. CASE route = None /\ literal = {}
  <2>1. a = Ans["path not found"]
    BY <1>3, <1>5
  <2> QED BY <1>4, <1>5, <2>1
<1>6. CASE route = None /\ literal # {} /\ request.method \notin Methods
  <2>1. a = Ans["died"]
    BY <1>3, <1>6
  <2> QED BY <1>4, <1>6, <2>1
<1>7. CASE route = None /\ literal # {} /\ request.method \in Methods /\ request.method \notin methods
  <2>1. a = Ans["method not allowed"]
    BY <1>3, <1>7
  <2> QED BY <1>4, <1>7, <2>1
<1>8. CASE route = None /\ literal # {} /\ request.method \in Methods /\ request.method \in methods /\ found = {}
  <2>1. a = Ans["died"]
    BY <1>3, <1>8
  <2> QED BY <1>1, <1>4, <1>8, <2>1
<1>9. CASE route = None /\ literal # {} /\ request.method \in Methods /\ request.method \in methods /\ found # {}
  <2>1. a = Ans["found"]
    BY <1>3, <1>9
  <2> QED BY <1>1, <1>4, <1>9, <2>1
<1>10. CASE route # None
  <2>1. found # {}
    BY <1>10
  <2>2. a = Ans["found"]
    BY <1>3, <1>10, <2>1
  <2> QED BY <1>1, <1>4, <1>10, <2>1, <2>2
<1> QED BY <1>5, <1>6, <1>7, <1>8, <1>9, <1>10

\* A route's node reads a request exactly if the route fits it.
LEMMA FittingReads ==
  ASSUME Loaded, TreeOK(tree), Present(tree, {}), NEW m \in Verbs, NEW rest \in Seq(Tokens), NEW r \in Routes
  PROVE  RouteNode(r) \in Candidates(tree, Trimmed(<<m>> \o rest), <<>>) <=> r.method = m /\ IsOf(rest, r.path)
<1>1. r.method \in Verbs /\ r.path \in Seq(Tokens)
  BY RoutesTyped, RouterAssumption
<1>2. PICK n, T : n = RouteNode(r) /\ T = Trimmed(<<m>> \o rest)
  OBVIOUS
<1>3. n \in DOMAIN tree /\ tree[n].value # None
  BY <1>2 DEF Present
<1>4. n = SuffixesOf(<<r.method>> \o r.path)
  BY <1>2 DEF RouteNode, Full
<1>5. (\E u : Leads(n, T, Len(T), u)) <=> r.method = m /\ IsOf(rest, r.path)
  BY <1>1, <1>2, <1>4, ReadsWhatIsOf
<1>6. Starts(<<>>, n)
  <2>1. n \in Seq(AllSuffixes)
    BY <1>3 DEF TreeOK, IsTree
  <2> QED BY <2>1 DEF Starts
<1>7. n \in Candidates(tree, T, <<>>) <=> \E u : Leads(n, T, Len(T), u)
  BY <1>3, <1>6 DEF Candidates
<1> QED BY <1>2, <1>5, <1>7

\* Nothing is found only if no route fits.
LEMMA NothingFound ==
  ASSUME Loaded, TreeOK(tree), Present(tree, {}), NEW m \in Verbs, NEW rest \in Seq(Tokens),
         Match(tree, <<m>> \o rest) = {}
  PROVE  \A r \in Routes : ~(r.method = m /\ IsOf(rest, r.path))
<1>1. PICK path, found : path = <<m>> \o rest /\ found = Match(tree, path)
  OBVIOUS
<1>2. path \in Seq(Tokens)
  BY <1>1, VerbIs, InFront
<1>3. Best(tree, Trimmed(path), <<>>, <<>>, found)
  BY <1>1, <1>2, MatchFindsFirst DEF TreeOK
<1>4. Candidates(tree, Trimmed(path), <<>>) = {}
  BY <1>1, <1>3 DEF Best
<1> QED BY <1>1, <1>4, FittingReads

\* What is found is a node that reads the request, before all routes that fit.
LEMMA BestFound ==
  ASSUME Loaded, TreeOK(tree), Present(tree, {}), NEW m \in Verbs, NEW rest \in Seq(Tokens),
         NEW found, found = Match(tree, <<m>> \o rest), found # {}
  PROVE  \E n \in DOMAIN tree, u \in Captures :
            /\ Only(found) = [node |-> n, values |-> u]
            /\ tree[n].value # None
            /\ Leads(n, Trimmed(<<m>> \o rest), Len(Trimmed(<<m>> \o rest)), u)
            /\ \A r \in Routes : r.method = m /\ IsOf(rest, r.path) /\ RouteNode(r) # n => Precedes(n, RouteNode(r))
<1>1. PICK path, T : path = <<m>> \o rest /\ T = Trimmed(path)
  OBVIOUS
<1>2. path \in Seq(Tokens)
  BY <1>1, VerbIs, InFront
<1>3. Best(tree, T, <<>>, <<>>, found)
  BY <1>1, <1>2, MatchFindsFirst DEF TreeOK
<1>4. PICK n \in Candidates(tree, T, <<>>), u \in Captures :
         /\ found = {[node |-> n, values |-> u]}
         /\ Leads(n, T, Len(T), <<>> \o u)
         /\ \A q \in Candidates(tree, T, <<>>) : q # n => Precedes(n, q)
  BY <1>3 DEF Best
<1>5. <<>> \o u = u
  BY ConcatFacts
<1>6. Only(found) = [node |-> n, values |-> u]
  BY <1>4 DEF Only
<1>7. n \in DOMAIN tree /\ tree[n].value # None
  BY DEF Candidates
<1>8. ASSUME NEW r \in Routes, r.method = m, IsOf(rest, r.path), RouteNode(r) # n PROVE Precedes(n, RouteNode(r))
  <2>1. RouteNode(r) \in Candidates(tree, T, <<>>)
    BY <1>1, <1>8, FittingReads
  <2> QED BY <1>4, <1>8, <2>1
<1> QED BY <1>1, <1>4, <1>5, <1>6, <1>7, <1>8

\* What is found under a node that has a route.
LandsOn(m, rest, found, n, route) ==
    /\ found = Match(tree, <<m>> \o rest) /\ found # {}
    /\ n = Only(found).node /\ tree[n].value # Nil
    /\ route = tree[n].value
BestRoute(m, rest, found, n, route) ==
    /\ route \in Routes /\ route # None
    /\ route.method = m /\ IsOf(rest, route.path)
    /\ \A r \in Routes : r.method = m /\ IsOf(rest, r.path) => ~MoreSpecific(Trimmed(r.path), Trimmed(route.path))
    /\ Distinct(route.path) =>
          \A others : Trimmed(PutBack(route.path, ParamsOf(Names(n), Only(found).values, others))) = Trimmed(rest)

\* The route found is of the method and the path, and none is more specific.
LEMMA RouteFound ==
  ASSUME Loaded, TreeOK(tree), Present(tree, {}), NEW m \in Verbs, NEW rest \in Seq(Tokens),
         NEW found, NEW n, NEW route, LandsOn(m, rest, found, n, route)
  PROVE  BestRoute(m, rest, found, n, route)
<1> USE DEF LandsOn, BestRoute
<1>1. PICK T : T = Trimmed(<<m>> \o rest)
  OBVIOUS
<1>2. PICK u \in Captures :
         /\ n \in DOMAIN tree /\ tree[n].value # None /\ Only(found).values = u
         /\ Leads(n, T, Len(T), u)
         /\ \A r \in Routes : r.method = m /\ IsOf(rest, r.path) /\ RouteNode(r) # n => Precedes(n, RouteNode(r))
  BY <1>1, BestFound
<1>3. route \in Routes /\ RouteNode(route) = n /\ tree[n].names = VariableNames(Full(route))
  BY <1>2 DEF TreeOK, Entry
<1>4. route.method \in Verbs /\ route.path \in Seq(Tokens) /\ route # None
  BY <1>3, RoutesTyped, RouterAssumption
<1>5. n = SuffixesOf(<<route.method>> \o route.path)
  BY <1>3 DEF RouteNode, Full
<1>7. /\ route.method = m
      /\ \E at, w : Through(route.path, rest, at, w) /\ w[Len(Trimmed(route.path))] = u
  <2>1. Leads(SuffixesOf(<<route.method>> \o route.path), Trimmed(<<m>> \o rest), Len(Trimmed(<<m>> \o rest)), u)
    BY <1>1, <1>2, <1>5
  <2> QED BY <1>4, <2>1, ReadRun
<1>8. IsOf(rest, route.path)
  BY <1>1, <1>2, <1>4, <1>5, ReadsWhatIsOf
<1>9. ASSUME NEW r \in Routes, r.method = m, IsOf(rest, r.path), MoreSpecific(Trimmed(r.path), Trimmed(route.path))
      PROVE  FALSE
  <2>1. PICK l : l = RouteNode(r)
    OBVIOUS
  <2>2. l = SuffixesOf(<<m>> \o r.path) /\ r.path \in Seq(Tokens)
    BY <1>9, <2>1, RoutesTyped DEF RouteNode, Full
  <2>3. PICK v : Leads(l, T, Len(T), v)
    BY <1>1, <1>9, <2>2, ReadsWhatIsOf
  <2>4. T \in Seq(Tokens)
    <3>1. <<m>> \o rest \in Seq(Tokens)
      BY VerbIs, InFront
    <3> QED BY <1>1, <3>1, TrimmedFacts
  <2>5. n = SuffixesOf(<<m>> \o route.path)
    BY <1>5, <1>7
  <2>6. Precedes(l, n)
    BY <1>2, <1>4, <1>9, <2>2, <2>3, <2>4, <2>5, SpecificFirst
  <2>7. l # n => Precedes(n, l)
    BY <1>2, <1>9, <2>1
  <2>8. l \in Seq(AllSuffixes) /\ n \in Seq(AllSuffixes)
    <3>1. l \in DOMAIN tree
      BY <2>1 DEF Present
    <3> QED BY <1>2, <3>1 DEF TreeOK, IsTree
  <2> QED BY <2>6, <2>7, <2>8, PrecedesOneWay
<1>10. ASSUME Distinct(route.path), NEW others
       PROVE  Trimmed(PutBack(route.path, ParamsOf(Names(n), Only(found).values, others))) = Trimmed(rest)
  <2>1. PICK at, w : Through(route.path, rest, at, w) /\ w[Len(Trimmed(route.path))] = u
    BY <1>7
  <2>2. PICK path, names : path = route.path /\ names = Names(n)
    OBVIOUS
  <2>3. tree[n].names = VariableNames(path)
    <3>1. VariableNames(Full(route)) = VariableNames(path)
      BY <1>4, <2>2, VerbIs, NamesBehind DEF Full
    <3> QED BY <1>3, <3>1
  <2>4. NamedAs(path, names)
    BY <2>2, <2>3 DEF Names, Plainly, NamedAs
  <2>5. Trimmed(PutBack(path, ParamsOf(names, w[Len(Trimmed(path))], others))) = Trimmed(rest)
    <3>1. path \in Seq(Tokens) /\ Through(path, rest, at, w)
      BY <1>4, <2>1, <2>2
    <3>2. Distinct(path)
      BY <1>10, <2>2
    <3> QED BY <2>4, <3>1, <3>2, FillsBack
  <2>6. w[Len(Trimmed(path))] = Only(found).values
    BY <1>2, <2>1, <2>2
  <2> QED BY <2>2, <2>5, <2>6
<1> QED BY <1>3, <1>4, <1>7, <1>8, <1>9, <1>10

\* Router.FindRoute: what it returns for each request is right.
LEMMA FindRouteRight ==
  ASSUME Loaded, ServersThere, TreeOK(tree), Present(tree, {}), NEW request \in Requests(doc),
         NEW a, a = FindRoute(request)
  PROVE  FoundRight(a) /\ DeathKnown(a)
<1>1. CASE Served(request) = {}
  <2>1. a = [request |-> request, how |-> "path not found", remaining |-> None]
    BY <1>1 DEF FindRoute
  <2>2. ASSUME NEW e, e = [request |-> request, how |-> "path not found", remaining |-> None]
        PROVE  e.remaining = None /\ e.how = "path not found"
    BY <2>2
  <2>3. a.remaining = None /\ a.how = "path not found"
    BY <2>1, <2>2
  <2> QED BY <2>3 DEF FoundRight, DeathKnown
<1>2. CASE Served(request) # {}
  <2>1. PICK rest, m : rest = Only(Served(request)).remaining /\ m = request.method
    OBVIOUS
  <2>2. m \in Verbs
    BY <2>1, RouterAssumption DEF Loaded
  <2>3. rest \in Seq(Tokens)
    <3>1. Only(Served(request)) \in Served(request)
      BY <1>2 DEF Only
    <3> QED BY <2>1, <3>1, ServedType
  <2>4. PICK found : found = Match(tree, <<m>> \o rest)
    OBVIOUS
  <2>5. PICK node, params : node = Only(found).node
                            /\ params = ParamsOf(Names(node), Only(found).values, Only(Served(request)).params)
    OBVIOUS
  <2>6. PICK route : route = IF found = {} \/ tree[node].value = Nil THEN None ELSE tree[node].value
    OBVIOUS
  <2>7. PICK literal : literal = {t \in PathItems : t[2] = rest}
    OBVIOUS
  <2>8. /\ a.request = request /\ a.remaining = rest /\ a.route = route
        /\ a.how = "died" => /\ route = None /\ literal # {}
                             /\ m \notin Methods \/ (m \in Methods1(literal) /\ found = {})
        /\ a.how = "found" => found # {} /\ a.params = params
        /\ found # {} /\ route # None => a.how = "found"
    <3>1. Looks(request, rest, found, node, route, literal)
      BY <1>2, <2>1, <2>4, <2>5, <2>6, <2>7 DEF Looks
    <3>2. Replies(request, rest, found, node, route, literal, a)
      BY <3>1, FindRouteIs
    <3> QED BY <2>1, <2>5, <3>2 DEF Replies
  <2>9. PICK fitting : fitting = {r \in Routes : r.method = m /\ IsOf(rest, r.path)}
    OBVIOUS
  <2>10. CASE found = {}
    <3>1. \A r \in Routes : ~(r.method = m /\ IsOf(rest, r.path))
      BY <2>2, <2>3, <2>4, <2>10, NothingFound
    <3>2. fitting = {} /\ a.how # "found"
      BY <2>8, <2>9, <2>10, <3>1
    <3>3. FoundRight(a)
      BY <2>1, <2>8, <2>9, <3>2 DEF FoundRight
    <3>4. ASSUME a.how = "died", m \in Methods PROVE \E t \in literal : ~IsOf(t[2], t[2])
      <4>1. m \in Methods1(literal)
        BY <2>8, <3>4
      <4>2. PICK t \in literal : t[3] # Nil /\ m \in Keys(t[3], "operations")
        BY <4>1 DEF Methods1
      <4>3. PICK o \in doc.fields[val[t[3]]] : o[1] = "operations" /\ o[2] = m
        BY <4>2 DEF Keys
      <4>4. PICK r : r = Route(o[2], t[2], o[3])
        OBVIOUS
      <4>5. t \in PathItems /\ t[2] = rest
        BY <2>7
      <4>6. r \in Routes
        <5>1. o \in IF t[3] = Nil THEN {} ELSE {u \in doc.fields[val[t[3]]] : u[1] = "operations"}
          BY <4>2, <4>3
        <5> QED BY <4>4, <4>5, <5>1 DEF Routes
      <4>7. r.method = m /\ r.path = rest
        BY <4>3, <4>4, <4>5 DEF Route
      <4>8. ~IsOf(rest, rest)
        BY <3>1, <4>6, <4>7
      <4> QED BY <4>5, <4>8
    <3>5. DeathKnown(a)
      BY <2>1, <2>7, <2>8, <3>2, <3>4 DEF DeathKnown
    <3> QED BY <3>3, <3>5
  <2>11. CASE found # {} /\ tree[node].value = Nil
    <3>1. node \in DOMAIN tree
      <4>1. PICK n \in DOMAIN tree, u \in Captures : Only(found) = [node |-> n, values |-> u]
        BY <2>2, <2>3, <2>4, <2>11, BestFound
      <4> QED BY <2>5, <4>1
    <3>2. ~Intact
      BY <2>11, <3>1 DEF Intact
    <3>3. FoundRight(a)
      BY <3>2 DEF FoundRight
    <3>4. DeathKnown(a)
      BY <2>1, <2>7, <2>8, <2>11, <3>2 DEF DeathKnown
    <3> QED BY <3>3, <3>4
  <2>12. CASE found # {} /\ tree[node].value # Nil
    <3>1. route = tree[node].value
      BY <2>6, <2>12
    <3>2. BestRoute(m, rest, found, node, route)
      <4>1. LandsOn(m, rest, found, node, route)
        BY <2>4, <2>5, <2>12, <3>1 DEF LandsOn
      <4> QED BY <2>2, <2>3, <4>1, RouteFound
    <3>3. a.how = "found" /\ a.params = params
      BY <2>8, <2>12, <3>2 DEF BestRoute
    <3>4. DeathKnown(a)
      BY <2>8, <3>2, <3>3 DEF DeathKnown, BestRoute
    <3>5. route \in fitting /\ ~\E r \in fitting : MoreSpecific(Trimmed(r.path), Trimmed(route.path))
      BY <2>9, <3>2 DEF BestRoute
    <3>6. Distinct(route.path) => Trimmed(PutBack(route.path, params)) = Trimmed(rest)
      BY <2>5, <3>2 DEF BestRoute
    <3>7. (\A j, k \in Blanks(route.path) : j # k => Plainly(route.path[j]) # Plainly(route.path[k])) =>
             Trimmed(Filled(route.path, [k \in Blanks(route.path) |-> params[Plainly(route.path[k])]])) = Trimmed(rest)
      BY <3>6 DEF Distinct, PutBack
    <3>8. FoundRight(a)
      BY <2>1, <2>8, <2>9, <3>3, <3>5, <3>7 DEF FoundRight
    <3> QED BY <3>4, <3>8
  <2> QED BY <2>10, <2>11, <2>12
<1> QED BY <1>1, <1>2

\* The answer is right, and as long as requests may come no server is null.
Right ==
    /\ pc \in {"valid", "ready"} => ServersThere
    /\ pc = "answered" => FoundRight(answer) /\ DeathKnown(answer)

\* Nothing is answered before the document is loaded.
LEMMA InitRight == DocInit => Right
BY DEF DocInit, Init, Right

\* Each step of the process keeps the answers right.
LEMMA NextRight == DInv /\ Right /\ [DocNext]_allVars => Right'
<1>1. SUFFICES ASSUME DInv, Right, [DocNext]_allVars PROVE Right'
  OBVIOUS
<1>2. CASE Loading
  BY <1>2 DEF Loading, Load, At, AlreadyVisited, Inline, FollowRef, CopyPathItem, OpenValue, Descend, AllVisited,
              Call, Return, Fail, Right
<1>3. CASE Validate
  <2>1. PICK verdict \in Verdicts : pc' = verdict
    BY <1>3 DEF Validate
  <2>2. pc = "loaded" /\ doc' = doc
    BY <1>3 DEF Validate
  <2>3. Loaded
    BY <1>1, <2>2, LoadedBecomes DEF DInv, BeforeRouter, LoaderStages
  <2>4. verdict \in {"valid", "invalid", "panickedValidating"}
    BY VerdictsAre
  <2>5. verdict = "valid" => ServersThere
    BY <2>3, ValidServers
  <2> QED BY <2>1, <2>2, <2>4, <2>5 DEF Right, ServersThere
<1>4. CASE AddOperation \/ RouterReady \/ AddRoute
  <2>1. pc \in {"valid", "ready"} /\ pc' # "answered" /\ doc' = doc
    BY <1>4 DEF AddOperation, RouterReady, AddRoute, docVars
  <2> QED BY <1>1, <2>1 DEF Right, ServersThere
<1>5. CASE Find
  <2>1. /\ pc = "ready" /\ pc' = "answered"
        /\ doc' = doc /\ stack' = stack /\ val' = val /\ visited' = visited /\ tree' = tree /\ todo' = todo
    BY <1>5 DEF Find
  <2>2. PICK request \in Requests(doc) : answer' = FindRoute(request)
    BY <1>5 DEF Find
  <2>3. Loaded /\ TreeOK(tree) /\ todo = {} /\ Present(tree, todo) /\ ServersThere
    BY <1>1, <2>1, ServedFacts DEF DInv, AfterLoading, LoaderStages, Right
  <2>4. PICK a : a = FindRoute(request)
    OBVIOUS
  <2>5. FoundRight(a) /\ DeathKnown(a)
    BY <2>3, <2>4, FindRouteRight
  <2>6. Routes' = Routes /\ PathItems' = PathItems
    BY <2>1, DocumentKept
  <2>7. FoundRight(a)' /\ DeathKnown(a)'
    BY <2>1, <2>5, <2>6 DEF FoundRight, DeathKnown, Intact
  <2>8. FoundRight(answer)' /\ DeathKnown(answer)'
    BY <2>2, <2>4, <2>7 DEF FoundRight, DeathKnown
  <2> QED BY <2>1, <2>8 DEF Right
<1>6. CASE Done \/ UNCHANGED allVars
  <2>1. /\ doc' = doc /\ pc' = pc /\ stack' = stack /\ val' = val /\ visited' = visited
        /\ tree' = tree /\ todo' = todo /\ answer' = answer
    BY <1>6 DEF Done, allVars, docVars, router
  <2>2. Routes' = Routes /\ PathItems' = PathItems
    BY <2>1, DocumentKept
  <2>3. \A a : (FoundRight(a) => FoundRight(a)') /\ (DeathKnown(a) => DeathKnown(a)')
    BY <2>1, <2>2 DEF FoundRight, DeathKnown, Intact
  <2> QED BY <1>1, <2>1, <2>3 DEF Right, ServersThere, FoundRight, DeathKnown, Intact
<1> QED BY <1>1, <1>2, <1>3, <1>4, <1>5, <1>6 DEF DocNext

\* The answers are right as long as the process runs.
LEMMA RightHolds == DocSpec => []Right
BY DocumentInvariant, InitRight, NextRight, PTL DEF DocSpec

\* Router.FindRoute, node.go and pathpattern: whatever order NewRouter adds
\* the operations in, a request gets the route of its method whose template
\* its path is of and no other is more specific; the parameters put back into
\* the template are the path; no route is missed.
THEOREM MostSpecificFound == DocSpec => []FindsMostSpecific
<1>1. ASSUME Right PROVE FindsMostSpecific
  BY <1>1 DEF Right, FoundRight, FindsMostSpecific, Plainly
<1> QED BY <1>1, RightHolds, PTL

\* resolver, Validate and FindRoute: each panic has its cause in the document
\* or in the request.
THEOREM PanicsKnown == DocSpec => []PanicsAreKnown
<1>1. ASSUME DInv, Right PROVE PanicsAreKnown
  <2>1. pc = "panicked" => NullMet(doc)
    BY <1>1 DEF DInv, BeforeRouter, LoaderStages, Nulls
  <2>2. pc = "panickedValidating" => NullServer(doc)
    BY <1>1 DEF DInv, Checked
  <2>3. pc = "answered" => DeathKnown(answer)
    BY <1>1 DEF Right
  <2> QED BY <2>1, <2>2, <2>3 DEF PanicsAreKnown, NullMet, NullMedia, NullServer, DeathKnown
<1> QED BY <1>1, DocumentInvariant, RightHolds, PTL
=============================================================================
