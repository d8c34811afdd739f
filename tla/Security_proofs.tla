--------------------------- MODULE Security_proofs ---------------------------
(***************************************************************************)
(* Security, for every number of requests, every set of tokens and scopes, *)
(* every operation and every course of the provider: what is decided about *)
(* a request is justified by that request.                                 *)
(***************************************************************************)
EXTENDS Security, TLAPS

USE DEF world, input, Goto, Saw

\* Before the first request nothing is cached, asked or decided.
LEMMA InitIInv == Init => IInv
<1> SUFFICES ASSUME Init PROVE IInv
  OBVIOUS
<1> USE SecurityAssumption DEF Init
<1>1. TypeOK
  <2>1. srs \in [Requests -> Seq(Seq(Schemes))]
    <3>1. <<>> \in Seq(Seq(Schemes))
      OBVIOUS
    <3> QED BY <3>1
  <2>2. \A r \in Requests : pc[r] = "idle"
    OBVIOUS
  <2>3. \A r \in Requests : PlaceOK(r)
    BY <2>2 DEF PlaceOK, Deciding
  <2> QED BY <2>1, <2>3 DEF TypeOK, PCs
<1>2. AskInv /\ MetaInv /\ CacheIsGiven
  BY DEF AskInv, MetaInv, CacheIsGiven
<1>3. ProgressInv /\ AcceptedForAReason /\ RejectedForAReason
  BY DEF ProgressInv, Deciding, AcceptedForAReason, RejectedForAReason
<1> QED BY <1>1, <1>2, <1>3 DEF IInv

-----------------------------------------------------------------------------
(* Type correctness *)

\* What a sequence of requirements is made of.
LEMMA RequirementFacts ==
  ASSUME NEW s \in Seq(Seq(Schemes)), NEW n \in 1 .. Len(s)
  PROVE  /\ Len(s) \in Nat /\ DOMAIN s = 1 .. Len(s)
         /\ s[n] \in Seq(Schemes)
         /\ Len(s[n]) \in Nat /\ DOMAIN s[n] = 1 .. Len(s[n])
  OBVIOUS

\* Where the steps that end a scheme take a request.
LEMMA PassPlace ==
  ASSUME TypeOK, NEW r \in Requests, Pass(r), UNCHANGED <<srs, token>>,
         Deciding(r), j[r] <= Len(srs[r][i[r]])
  PROVE  /\ pc' \in [Requests -> PCs]
         /\ i' \in [Requests -> Nat] /\ j' \in [Requests -> Nat]
         /\ \A q \in Requests : PlaceOK(q)'
<1>1. /\ pc \in [Requests -> PCs] /\ srs[r] \in Seq(Seq(Schemes))
      /\ i \in [Requests -> Nat] /\ j \in [Requests -> Nat]
  BY DEF TypeOK
<1>2. i[r] \in 1 .. Len(srs[r]) /\ j[r] \in 1 .. Len(srs[r][i[r]])
  BY <1>1, RequirementFacts DEF TypeOK, PlaceOK
<1>3. /\ pc' = [pc EXCEPT ![r] = "scheme"]
      /\ j' = [j EXCEPT ![r] = j[r] + 1]
      /\ UNCHANGED <<i, srs, token>>
  BY DEF Pass
<1>4. pc' \in [Requests -> PCs] /\ i' \in [Requests -> Nat] /\ j' \in [Requests -> Nat]
  BY <1>1, <1>3 DEF PCs
<1>5. ASSUME NEW q \in Requests PROVE PlaceOK(q)'
  <2>1. CASE q = r
    <3>1. j'[r] = j[r] + 1 /\ i'[r] = i[r] /\ pc'[r] = "scheme"
      BY <1>1, <1>3
    <3>2. j'[r] \in 1 .. Len(srs[r][i[r]]) + 1
      BY <1>1, <1>2, <3>1, RequirementFacts
    <3> QED BY <1>2, <1>3, <2>1, <3>1, <3>2 DEF PlaceOK
  <2>2. CASE q # r
    <3>1. pc'[q] = pc[q] /\ i'[q] = i[q] /\ j'[q] = j[q] /\ PlaceOK(q)
      BY <1>1, <1>3, <2>2 DEF TypeOK
    <3> QED BY <1>3, <3>1 DEF PlaceOK, Deciding
  <2> QED BY <2>1, <2>2
<1> QED BY <1>4, <1>5

\* A failed scheme takes its request to the next requirement or to the end.
LEMMA FailPlace ==
  ASSUME TypeOK, NEW r \in Requests, Fail(r), UNCHANGED <<srs, token>>, Deciding(r)
  PROVE  /\ pc' \in [Requests -> PCs]
         /\ i' \in [Requests -> Nat] /\ j' \in [Requests -> Nat]
         /\ \A q \in Requests : PlaceOK(q)'
<1>1. /\ pc \in [Requests -> PCs] /\ srs[r] \in Seq(Seq(Schemes))
      /\ i \in [Requests -> Nat] /\ j \in [Requests -> Nat]
  BY DEF TypeOK
<1>2. i[r] \in 1 .. Len(srs[r])
  BY DEF TypeOK, PlaceOK
<1>3. pc' \in [Requests -> PCs] /\ i' \in [Requests -> Nat] /\ j' \in [Requests -> Nat]
  <2>1. CASE /\ pc' = [pc EXCEPT ![r] = "scheme"]
             /\ i' = [i EXCEPT ![r] = i[r] + 1] /\ j' = [j EXCEPT ![r] = 1]
    BY <1>1, <2>1 DEF PCs
  <2>2. CASE pc' = [pc EXCEPT ![r] = "rejected"] /\ UNCHANGED <<i, j>>
    BY <1>1, <2>2 DEF PCs
  <2> QED BY <2>1, <2>2 DEF Fail
<1>4. ASSUME NEW q \in Requests PROVE PlaceOK(q)'
  <2>1. CASE q = r /\ i[r] < Len(srs[r])
    <3>1. i'[r] = i[r] + 1 /\ j'[r] = 1 /\ pc'[r] = "scheme"
      BY <1>1, <2>1, RequirementFacts DEF Fail
    <3>2. i'[r] \in 1 .. Len(srs[r])
      BY <1>1, <1>2, <2>1, <3>1, RequirementFacts
    <3>3. Len(srs[r][i'[r]]) \in Nat
      BY <1>1, <3>2, RequirementFacts
    <3>4. j'[r] \in 1 .. Len(srs[r][i'[r]]) + 1
      BY <3>1, <3>3
    <3> QED BY <2>1, <3>1, <3>2, <3>4 DEF PlaceOK
  <2>2. CASE q = r /\ i[r] = Len(srs[r])
    BY <1>1, <2>2 DEF Fail, PlaceOK, Deciding
  <2>3. CASE q # r
    <3>1. pc'[q] = pc[q] /\ i'[q] = i[q] /\ j'[q] = j[q] /\ PlaceOK(q)
      BY <1>1, <2>3 DEF TypeOK, Fail
    <3> QED BY <3>1 DEF PlaceOK, Deciding
  <2> QED BY <1>1, <1>2, <2>1, <2>2, <2>3, RequirementFacts
<1> QED BY <1>3, <1>4

\* A step that only moves r from one place to another, past its checks.
LEMMA MovePlace ==
  ASSUME TypeOK, NEW r \in Requests, NEW p \in PCs,
         pc' = [pc EXCEPT ![r] = p], UNCHANGED <<i, j>>,
         \A q \in Requests : q # r => srs'[q] = srs[q] /\ token'[q] = token[q],
         PlaceOK(r)'
  PROVE  /\ pc' \in [Requests -> PCs]
         /\ \A q \in Requests : PlaceOK(q)'
<1>1. pc \in [Requests -> PCs]
  BY DEF TypeOK
<1>2. ASSUME NEW q \in Requests, q # r PROVE PlaceOK(q)'
  <2>1. pc'[q] = pc[q] /\ PlaceOK(q)
    BY <1>1, <1>2 DEF TypeOK
  <2> QED BY <1>2, <2>1 DEF PlaceOK, Deciding
<1> QED BY <1>1, <1>2

\* What a validator sees is kept for its token, with what was seen before.
LEMMA SawGiven ==
  ASSUME TypeOK, NEW t \in Tokens, Saw(t, granted[t])
  PROVE  /\ given' \in [Tokens -> SUBSET ({NoScope} \cup Grants)]
         /\ granted[t] \in given'[t]
         /\ \A u \in Tokens : given[u] \subseteq given'[u]
<1>1. /\ given \in [Tokens -> SUBSET ({NoScope} \cup Grants)]
      /\ granted[t] \in {NoScope} \cup Grants
  BY DEF TypeOK
<1>2. given[t] \cup {granted[t]} \in SUBSET ({NoScope} \cup Grants)
  BY <1>1
<1> QED BY <1>1, <1>2

\* No step leaves the types or the places TypeOK allows.
LEMMA StepTypeOK == TypeOK /\ [Next]_vars => TypeOK'
<1> SUFFICES ASSUME TypeOK, [Next]_vars PROVE TypeOK'
  OBVIOUS
<1> USE SecurityAssumption
<1>a. /\ pc \in [Requests -> PCs] /\ given \in [Tokens -> SUBSET ({NoScope} \cup Grants)]
      /\ \A r \in Requests : PlaceOK(r)
  BY DEF TypeOK
<1>1. ASSUME NEW r \in Requests, Begin(r) PROVE TypeOK'
  <2>1. PICK o \in Operations, c \in SUBSET Creds, t \in Tokens \cup {NoToken} :
          /\ srs' = [srs EXCEPT ![r] = Effective(o)]
          /\ creds' = [creds EXCEPT ![r] = c]
          /\ token' = [token EXCEPT ![r] = t]
          /\ i' = [i EXCEPT ![r] = 1] /\ j' = [j EXCEPT ![r] = 1]
          /\ lost' = [lost EXCEPT ![r] = FALSE]
          /\ IF Effective(o) = <<>> THEN Goto(r, "idle", "accepted")
                                    ELSE Goto(r, "idle", "scheme")
          /\ UNCHANGED <<world, given, cache, meta>>
    BY <1>1 DEF Begin
  <2>2. Effective(o) \in Seq(Seq(Schemes))
    BY DEF Effective
  <2>3. /\ srs' \in [Requests -> Seq(Seq(Schemes))]
        /\ creds' \in [Requests -> SUBSET Creds]
        /\ token' \in [Requests -> Tokens \cup {NoToken}]
        /\ i' \in [Requests -> Nat] /\ j' \in [Requests -> Nat]
        /\ lost' \in [Requests -> BOOLEAN]
    BY <2>1, <2>2 DEF TypeOK
  <2>4. pc' \in [Requests -> PCs]
    BY <1>a, <2>1 DEF PCs
  <2>5. ASSUME NEW q \in Requests PROVE PlaceOK(q)'
    <3>1. CASE q = r /\ Effective(o) = <<>>
      BY <1>a, <2>1, <3>1 DEF PlaceOK, Deciding
    <3>2. CASE q = r /\ Effective(o) # <<>>
      <4>1. /\ pc'[r] = "scheme" /\ i'[r] = 1 /\ j'[r] = 1
            /\ srs'[r] = Effective(o)
        BY <1>a, <2>1, <3>2 DEF TypeOK
      <4>2. 1 \in 1 .. Len(Effective(o))
        BY <2>2, <3>2
      <4>3. Len(Effective(o)[1]) \in Nat
        BY <2>2, <4>2, RequirementFacts
      <4> QED BY <3>2, <4>1, <4>2, <4>3 DEF PlaceOK
    <3>3. CASE q # r
      <4>1. /\ pc'[q] = pc[q] /\ i'[q] = i[q] /\ j'[q] = j[q]
            /\ srs'[q] = srs[q] /\ token'[q] = token[q]
        BY <2>1, <3>3 DEF TypeOK
      <4> QED BY <1>a, <4>1 DEF PlaceOK, Deciding
    <3> QED BY <3>1, <3>2, <3>3
  <2> QED BY <2>1, <2>3, <2>4, <2>5 DEF TypeOK
<1>2. ASSUME NEW r \in Requests, Finish(r) PROVE TypeOK'
  <2>1. /\ srs' \in [Requests -> Seq(Seq(Schemes))]
        /\ creds' \in [Requests -> SUBSET Creds]
        /\ token' \in [Requests -> Tokens \cup {NoToken}]
        /\ i' \in [Requests -> Nat] /\ j' \in [Requests -> Nat]
        /\ meta' \in [Requests -> {NoScope} \cup Grants]
        /\ lost' \in [Requests -> BOOLEAN]
    <3>1. <<>> \in Seq(Seq(Schemes))
      OBVIOUS
    <3> QED BY <1>2, <3>1 DEF Finish, TypeOK
  <2>2. pc' = [pc EXCEPT ![r] = "idle"]
    BY <1>2 DEF Finish
  <2>3. ASSUME NEW q \in Requests PROVE PlaceOK(q)'
    <3>1. CASE q = r
      BY <1>a, <2>2, <3>1 DEF PlaceOK, Deciding
    <3>2. CASE q # r
      <4>1. /\ pc'[q] = pc[q] /\ i'[q] = i[q] /\ j'[q] = j[q]
            /\ srs'[q] = srs[q] /\ token'[q] = token[q]
        BY <1>2, <3>2 DEF TypeOK, Finish
      <4> QED BY <1>a, <4>1 DEF PlaceOK, Deciding
    <3> QED BY <3>1, <3>2
  <2> QED BY <1>a, <1>2, <2>1, <2>2, <2>3 DEF TypeOK, Finish, PCs
<1>3. ASSUME NEW r \in Requests, RequirementMet(r) PROVE TypeOK'
  <2>1. PlaceOK(r)'
    BY <1>a, <1>3 DEF RequirementMet, PlaceOK, Deciding
  <2>2. /\ pc' \in [Requests -> PCs]
        /\ \A q \in Requests : PlaceOK(q)'
    BY <1>3, <2>1, MovePlace DEF RequirementMet, PCs
  <2> QED BY <1>3, <2>2 DEF RequirementMet, TypeOK
\* The steps that end a scheme.
<1>4. ASSUME NEW r \in Requests, Deciding(r), UNCHANGED <<world, input>>,
             Fail(r) \/ (Pass(r) /\ j[r] <= Len(srs[r][i[r]])),
             given' \in [Tokens -> SUBSET ({NoScope} \cup Grants)],
             cache' \in [Tokens -> {None} \cup Grants],
             meta' \in [Requests -> {NoScope} \cup Grants],
             lost' \in [Requests -> BOOLEAN]
      PROVE  TypeOK'
  <2>1. /\ pc' \in [Requests -> PCs]
        /\ i' \in [Requests -> Nat] /\ j' \in [Requests -> Nat]
        /\ \A q \in Requests : PlaceOK(q)'
    BY <1>4, PassPlace, FailPlace
  <2> QED BY <1>4, <2>1 DEF TypeOK
<1>5. ASSUME NEW r \in Requests, SimpleScheme(r) PROVE TypeOK'
  BY <1>4, <1>5 DEF SimpleScheme, AtScheme, Deciding, TypeOK
<1>6. ASSUME NEW r \in Requests, OAuthUnconfigured(r) PROVE TypeOK'
  BY <1>4, <1>6 DEF OAuthUnconfigured, AtScheme, Deciding, TypeOK
<1>7. ASSUME NEW r \in Requests, JWTValidate(r) PROVE TypeOK'
  <2>1. given' \in [Tokens -> SUBSET ({NoScope} \cup Grants)]
    BY <1>a, <1>7, SawGiven DEF JWTValidate
  <2>2. AtScheme(r) /\ UNCHANGED <<world, cache, input, meta, lost>>
    BY <1>7 DEF JWTValidate
  <2>3. Deciding(r) /\ j[r] <= Len(srs[r][i[r]])
    BY <2>2 DEF AtScheme, Deciding
  <2>4. Pass(r) \/ Fail(r)
    BY <1>7 DEF JWTValidate
  <2> QED BY <1>4, <2>1, <2>2, <2>3, <2>4 DEF TypeOK
<1>8. ASSUME NEW r \in Requests, IntrospectionBegin(r) PROVE TypeOK'
  <2>1. CASE Pass(r) \/ Fail(r)
    <3>1. AtScheme(r) /\ UNCHANGED <<world, given, cache, input, meta, lost>>
      BY <1>8 DEF IntrospectionBegin
    <3>2. Deciding(r) /\ j[r] <= Len(srs[r][i[r]])
      BY <3>1 DEF AtScheme, Deciding
    <3> QED BY <1>4, <2>1, <3>1, <3>2 DEF TypeOK
  <2>2. CASE pc' = [pc EXCEPT ![r] = "lookup"] /\ UNCHANGED <<i, j>> /\ token[r] # NoToken
    <3>1. PlaceOK(r)'
      BY <1>a, <1>8, <2>2 DEF IntrospectionBegin, AtScheme, PlaceOK, Deciding, TypeOK
    <3>2. pc' \in [Requests -> PCs] /\ \A q \in Requests : PlaceOK(q)'
      BY <1>8, <2>2, <3>1, MovePlace DEF IntrospectionBegin, PCs
    <3> QED BY <1>8, <2>2, <3>2 DEF IntrospectionBegin, TypeOK
  <2> QED BY <1>8, <2>1, <2>2 DEF IntrospectionBegin
<1>9. ASSUME NEW r \in Requests, Lookup(r) PROVE TypeOK'
  <2>1. token[r] \in Tokens
    BY <1>a, <1>9 DEF Lookup, PlaceOK, Deciding
  <2>2. PICK p \in {"ask", "check"} : pc' = [pc EXCEPT ![r] = p]
    BY <1>9 DEF Lookup
  <2>3. PlaceOK(r)'
    BY <1>a, <1>9, <2>2 DEF Lookup, PlaceOK, Deciding
  <2>4. pc' \in [Requests -> PCs] /\ \A q \in Requests : PlaceOK(q)'
    BY <1>9, <2>2, <2>3, MovePlace DEF Lookup, PCs
  <2>5. meta' \in [Requests -> {NoScope} \cup Grants]
    <3>1. meta \in [Requests -> {NoScope} \cup Grants]
      BY DEF TypeOK
    <3>2. CASE UNCHANGED meta
      BY <3>1, <3>2
    <3>3. CASE cache[token[r]] # None /\ meta' = [meta EXCEPT ![r] = cache[token[r]]]
      <4>1. cache[token[r]] \in Grants
        BY <2>1, <3>3 DEF TypeOK
      <4> QED BY <3>1, <3>3, <4>1
    <3> QED BY <1>9, <3>2, <3>3 DEF Lookup
  <2> QED BY <1>9, <2>4, <2>5 DEF Lookup, TypeOK
<1>10. ASSUME NEW r \in Requests, ProviderAnswers(r) PROVE TypeOK'
  <2>1. token[r] \in Tokens
    BY <1>a, <1>10 DEF ProviderAnswers, PlaceOK, Deciding
  <2>2. pc' = [pc EXCEPT ![r] = "check"]
    BY <1>10 DEF ProviderAnswers
  <2>3. PlaceOK(r)'
    BY <1>a, <1>10, <2>2 DEF ProviderAnswers, PlaceOK, Deciding
  <2>4. pc' \in [Requests -> PCs] /\ \A q \in Requests : PlaceOK(q)'
    BY <1>10, <2>2, <2>3, MovePlace DEF ProviderAnswers, PCs
  <2>5. /\ meta' \in [Requests -> {NoScope} \cup Grants]
        /\ given' \in [Tokens -> SUBSET ({NoScope} \cup Grants)]
    <3>1. meta \in [Requests -> {NoScope} \cup Grants] /\ granted[token[r]] \in {NoScope} \cup Grants
      BY <2>1 DEF TypeOK
    <3> QED BY <1>10, <2>1, <3>1, SawGiven DEF ProviderAnswers
  <2> QED BY <1>10, <2>4, <2>5 DEF ProviderAnswers, TypeOK
<1>11. ASSUME NEW r \in Requests, ProviderFails(r) PROVE TypeOK'
  <2>1. lost' \in [Requests -> BOOLEAN]
    BY <1>11 DEF ProviderFails, TypeOK
  <2> QED BY <1>4, <1>11, <2>1 DEF ProviderFails, Deciding, TypeOK
<1>12. ASSUME NEW r \in Requests, CheckScopes(r) PROVE TypeOK'
  <2>1. j[r] <= Len(srs[r][i[r]]) /\ Deciding(r)
    BY <1>a, <1>12 DEF CheckScopes, PlaceOK, Deciding
  <2>2. cache' \in [Tokens -> {None} \cup Grants]
    BY <1>12 DEF CheckScopes, TypeOK
  <2> QED BY <1>4, <1>12, <2>1, <2>2 DEF CheckScopes, TypeOK
<1>13. ASSUME NEW t \in Tokens, Evict(t) \/ Change(t) PROVE TypeOK'
  <2>1. /\ cache' \in [Tokens -> {None} \cup Grants]
        /\ granted' \in [Tokens -> {NoScope} \cup Grants]
    <3>1. /\ cache \in [Tokens -> {None} \cup Grants]
          /\ granted \in [Tokens -> {NoScope} \cup Grants]
      BY DEF TypeOK
    <3>2. CASE Evict(t)
      BY <3>1, <3>2 DEF Evict
    <3>3. CASE Change(t)
      BY <3>1, <3>3 DEF Change
    <3> QED BY <1>13, <3>2, <3>3
  <2>2. \A q \in Requests : PlaceOK(q)'
    BY <1>a, <1>13 DEF Evict, Change, PlaceOK, Deciding
  <2> QED BY <1>13, <2>1, <2>2 DEF Evict, Change, TypeOK
<1>14. CASE UNCHANGED vars
  BY <1>a, <1>14 DEF vars, TypeOK, PlaceOK, Deciding
<1> QED
  BY <1>1, <1>2, <1>3, <1>5, <1>6, <1>7, <1>8, <1>9, <1>10, <1>11, <1>12, <1>13, <1>14
     DEF Next, Step

-----------------------------------------------------------------------------
(* What is decided about one request *)

\* The invariant, request by request.
RInv(q) ==
  /\ pc[q] \in {"lookup", "ask", "check"} =>
       validator = "introspection" /\ Current(q).type = "oauth"
  /\ pc[q] = "check" => meta[q] \in given[token[q]]
  /\ Deciding(q) => /\ \A n \in 1 .. i[q] - 1 : Refuted(q, n)
                    /\ \A m \in 1 .. j[q] - 1 : MayPass(q, srs[q][i[q]][m])
  /\ pc[q] = "accepted" => srs[q] = <<>> \/ \E n \in DOMAIN srs[q] : Met(q, n)
  /\ pc[q] = "rejected" => \A n \in DOMAIN srs[q] : Refuted(q, n)

\* IInv is the types, the cache, and RInv of every request.
LEMMA ByRequest ==
  IInv <=> TypeOK /\ CacheIsGiven /\ \A q \in Requests : RInv(q)
BY DEF IInv, AskInv, MetaInv, ProgressInv, AcceptedForAReason, RejectedForAReason, RInv

\* For q, nothing that was a reason ceases to be one.
Kept(q) ==
  /\ validator' = validator
  /\ srs'[q] = srs[q] /\ creds'[q] = creds[q] /\ token'[q] = token[q]
  /\ \A u \in Tokens : given[u] \subseteq given'[u]
  /\ lost[q] => lost'[q]

\* Answers seen are never unseen: what may pass or fail q still may.
LEMMA ReasonsStay ==
  ASSUME TypeOK, NEW q \in Requests, Kept(q), NEW s
  PROVE  /\ MayPass(q, s) => MayPass(q, s)'
         /\ MayFail(q, s) => MayFail(q, s)'
<1>1. token[q] \in Tokens \cup {NoToken}
  BY DEF TypeOK
<1>2. MayPass(q, s) => MayPass(q, s)'
  BY DEF Kept, MayPass
<1>3. MayFail(q, s) => MayFail(q, s)'
  BY <1>1 DEF Kept, MayFail
<1> QED BY <1>2, <1>3

\* And so for whole requirements.
LEMMA MetStays ==
  ASSUME TypeOK, NEW q \in Requests, Kept(q), NEW n
  PROVE  /\ Met(q, n) => Met(q, n)'
         /\ Refuted(q, n) => Refuted(q, n)'
<1>1. srs'[q] = srs[q]
  BY DEF Kept
<1>2. Met(q, n) => Met(q, n)'
  BY <1>1, ReasonsStay DEF Met
<1>3. Refuted(q, n) => Refuted(q, n)'
  BY <1>1, ReasonsStay DEF Refuted
<1> QED BY <1>2, <1>3

\* A step of another request, or of the world, changes nothing for q.
LEMMA Frame ==
  ASSUME TypeOK, NEW q \in Requests, Kept(q), RInv(q),
         pc'[q] = pc[q], i'[q] = i[q], j'[q] = j[q], meta'[q] = meta[q]
  PROVE  RInv(q)'
<1>1. srs'[q] = srs[q] /\ token'[q] = token[q] /\ validator' = validator
  BY DEF Kept
<1>2. pc[q] \in {"lookup", "ask", "check"} => token[q] \in Tokens
  BY DEF TypeOK, PlaceOK, Deciding
<1>3. Current(q)' = Current(q)
  BY <1>1 DEF Current
<1>4. pc'[q] = "check" => meta'[q] \in given'[token'[q]]
  BY <1>1, <1>2 DEF RInv, Kept
<1>5. Deciding(q)' => /\ \A n \in 1 .. i'[q] - 1 : Refuted(q, n)'
                      /\ \A m \in 1 .. j'[q] - 1 : MayPass(q, srs[q][i[q]][m])'
  <2> SUFFICES ASSUME Deciding(q)
               PROVE  /\ \A n \in 1 .. i[q] - 1 : Refuted(q, n)'
                      /\ \A m \in 1 .. j[q] - 1 : MayPass(q, srs[q][i[q]][m])'
    BY <1>1 DEF Deciding
  <2>1. \A n \in 1 .. i[q] - 1 : Refuted(q, n)'
    BY MetStays DEF RInv
  <2>2. ASSUME NEW m \in 1 .. j[q] - 1 PROVE MayPass(q, srs[q][i[q]][m])'
    <3>1. MayPass(q, srs[q][i[q]][m])
      BY DEF RInv
    <3> QED BY <1>1, <3>1 DEF MayPass, Kept
  <2> QED BY <2>1, <2>2
<1>6. pc'[q] = "accepted" => srs'[q] = <<>> \/ \E n \in DOMAIN srs'[q] : Met(q, n)'
  BY <1>1, MetStays DEF RInv
<1>7. pc'[q] = "rejected" => \A n \in DOMAIN srs'[q] : Refuted(q, n)'
  BY <1>1, MetStays DEF RInv
<1> QED BY <1>1, <1>3, <1>4, <1>5, <1>6, <1>7 DEF RInv

\* A scheme that passed for a reason is behind r for a reason.
LEMMA PassKeeps ==
  ASSUME TypeOK, NEW r \in Requests, Kept(r), RInv(r), Deciding(r), Pass(r),
         j[r] <= Len(srs[r][i[r]]), NEW s, s = Current(r), MayPass(r, s)'
  PROVE  RInv(r)'
<1>1. /\ pc'[r] = "scheme" /\ i'[r] = i[r] /\ j'[r] = j[r] + 1 /\ j[r] \in Nat
      /\ srs'[r] = srs[r]
  BY DEF TypeOK, Pass, Kept
<1>2. \A n \in 1 .. i'[r] - 1 : Refuted(r, n)'
  BY <1>1, MetStays DEF RInv
<1>3. ASSUME NEW m \in 1 .. j'[r] - 1 PROVE MayPass(r, srs[r][i[r]][m])'
  <2>1. CASE m \in 1 .. j[r] - 1
    <3>1. MayPass(r, srs[r][i[r]][m])
      BY <2>1 DEF RInv
    <3> QED BY <1>1, <3>1 DEF MayPass, Kept
  <2>2. CASE m = j[r]
    BY <1>1, <2>2 DEF Current, MayPass
  <2> QED BY <1>1, <1>3, <2>1, <2>2
<1> QED BY <1>1, <1>2, <1>3 DEF RInv

\* A scheme that failed for a reason refutes its requirement.
LEMMA FailKeeps ==
  ASSUME TypeOK, NEW r \in Requests, Kept(r), RInv(r), Deciding(r), Fail(r),
         j[r] <= Len(srs[r][i[r]]), NEW s, s = Current(r), MayFail(r, s)'
  PROVE  RInv(r)'
<1>1. /\ i[r] \in 1 .. Len(srs[r]) /\ j[r] \in 1 .. Len(srs[r][i[r]])
      /\ srs[r] \in Seq(Seq(Schemes)) /\ srs'[r] = srs[r]
  BY RequirementFacts DEF TypeOK, PlaceOK, Kept
<1>2. /\ DOMAIN srs[r] = 1 .. Len(srs[r]) /\ Len(srs[r]) \in Nat
      /\ j[r] \in DOMAIN srs[r][i[r]]
  BY <1>1, RequirementFacts
<1>3. ASSUME NEW n, n = i[r] PROVE Refuted(r, n)'
  <2>1. j[r] \in DOMAIN srs'[r][n] /\ srs'[r][n][j[r]] = s
    BY <1>1, <1>2, <1>3 DEF Current
  <2> QED BY <2>1 DEF Refuted, MayFail
<1>4. ASSUME NEW n \in 1 .. i[r] PROVE Refuted(r, n)'
  <2>1. CASE n \in 1 .. i[r] - 1
    BY <2>1, MetStays DEF RInv
  <2> QED BY <1>1, <1>3, <2>1
<1>5. CASE i[r] < Len(srs[r])
  <2>1. pc'[r] = "scheme" /\ i'[r] = i[r] + 1 /\ j'[r] = 1
    BY <1>1, <1>2, <1>5 DEF TypeOK, Fail
  <2>2. \A n \in 1 .. i'[r] - 1 : Refuted(r, n)'
    BY <1>1, <1>4, <2>1
  <2>3. \A m \in 1 .. j'[r] - 1 : MayPass(r, srs[r][i[r]][m])'
    BY <2>1
  <2> QED BY <2>1, <2>2, <2>3 DEF RInv
<1>6. CASE i[r] = Len(srs[r])
  <2>1. pc'[r] = "rejected"
    BY <1>6 DEF TypeOK, Fail
  <2> QED BY <1>1, <1>2, <1>4, <1>6, <2>1 DEF RInv, Deciding
<1> QED BY <1>1, <1>2, <1>5, <1>6

-----------------------------------------------------------------------------
(* Every step keeps the invariant *)

\* All requests but r are where they were.
OthersStay(r) ==
  \A q \in Requests : q # r =>
    /\ Kept(q)
    /\ pc'[q] = pc[q] /\ i'[q] = i[q] /\ j'[q] = j[q] /\ meta'[q] = meta[q]

\* So it is enough to look at the request that moved.
LEMMA Others ==
  ASSUME IInv, NEW r \in Requests, OthersStay(r), RInv(r)'
  PROVE  \A q \in Requests : RInv(q)'
BY ByRequest, Frame DEF IInv, OthersStay

\* A step that ends a scheme.
LEMMA EndOfScheme ==
  ASSUME IInv, NEW r \in Requests, Deciding(r), j[r] <= Len(srs[r][i[r]]),
         validator' = validator, UNCHANGED <<srs, creds, token, meta>>,
         \A u \in Tokens : given[u] \subseteq given'[u],
         \A q \in Requests : lost[q] => lost'[q],
         NEW s, s = Current(r),
         (Pass(r) /\ MayPass(r, s)') \/ (Fail(r) /\ MayFail(r, s)')
  PROVE  \A q \in Requests : RInv(q)'
<1>1. TypeOK /\ RInv(r)
  BY ByRequest
<1>2. \A q \in Requests : Kept(q)
  BY DEF Kept
<1>3. OthersStay(r)
  BY <1>1, <1>2 DEF OthersStay, TypeOK, Pass, Fail
<1>4. RInv(r)'
  BY <1>1, <1>2, PassKeeps, FailKeeps
<1> QED BY <1>3, <1>4, Others

\* One step per action of Next.
LEMMA StepRInv == IInv /\ [Next]_vars => \A q \in Requests : RInv(q)'
<1> SUFFICES ASSUME IInv, [Next]_vars PROVE \A q \in Requests : RInv(q)'
  OBVIOUS
<1> USE SecurityAssumption
<1>a. TypeOK /\ CacheIsGiven /\ (\A q \in Requests : RInv(q)) /\ TypeOK'
  BY ByRequest, StepTypeOK
<1>b. ASSUME NEW r \in Requests
      PROVE  /\ token[r] \in Tokens \cup {NoToken}
             /\ pc[r] \in {"lookup", "ask", "check"} =>
                  /\ token[r] \in Tokens /\ j[r] <= Len(srs[r][i[r]]) /\ Deciding(r)
                  /\ Current(r).type = "oauth" /\ validator = "introspection"
  BY <1>a DEF TypeOK, PlaceOK, Deciding, RInv
<1>1. ASSUME NEW r \in Requests, Begin(r) PROVE \A q \in Requests : RInv(q)'
  <2>1. OthersStay(r)
    BY <1>a, <1>1 DEF Begin, OthersStay, Kept, TypeOK
  <2>2. /\ pc'[r] = "scheme" \/ (pc'[r] = "accepted" /\ srs'[r] = <<>>)
        /\ i'[r] = 1 /\ j'[r] = 1
    BY <1>a, <1>1 DEF Begin, TypeOK
  <2>3. RInv(r)'
    BY <2>2 DEF RInv
  <2> QED BY <2>1, <2>3, Others
<1>2. ASSUME NEW r \in Requests, Finish(r) PROVE \A q \in Requests : RInv(q)'
  <2>1. OthersStay(r)
    BY <1>a, <1>2 DEF Finish, OthersStay, Kept, TypeOK
  <2>2. pc'[r] = "idle"
    BY <1>a, <1>2 DEF Finish, TypeOK
  <2>3. RInv(r)'
    BY <2>2 DEF RInv, Deciding
  <2> QED BY <2>1, <2>3, Others
<1>3. ASSUME NEW r \in Requests, RequirementMet(r) PROVE \A q \in Requests : RInv(q)'
  <2>1. OthersStay(r)
    BY <1>a, <1>3 DEF RequirementMet, OthersStay, Kept, TypeOK
  <2>2. pc[r] = "scheme" /\ pc'[r] = "accepted" /\ j[r] - 1 = Len(srs[r][i[r]])
        /\ srs[r] \in Seq(Seq(Schemes)) /\ i[r] \in 1 .. Len(srs[r])
        /\ Kept(r)
    <3>1. pc[r] = "scheme" /\ pc'[r] = "accepted" /\ j[r] = Len(srs[r][i[r]]) + 1 /\ Kept(r)
      BY <1>a, <1>3 DEF RequirementMet, TypeOK, Kept
    <3>2. srs[r] \in Seq(Seq(Schemes)) /\ i[r] \in 1 .. Len(srs[r])
      BY <1>a, <3>1 DEF TypeOK, PlaceOK, Deciding
    <3>3. Len(srs[r][i[r]]) \in Nat
      BY <3>2, RequirementFacts
    <3> QED BY <3>1, <3>2, <3>3
  <2>3. Met(r, i[r]) /\ i[r] \in DOMAIN srs[r]
    <3>1. /\ i[r] \in DOMAIN srs[r]
          /\ DOMAIN srs[r][i[r]] = 1 .. j[r] - 1
      BY <2>2, RequirementFacts
    <3>2. \A m \in 1 .. j[r] - 1 : MayPass(r, srs[r][i[r]][m])
      BY <1>a, <2>2 DEF RInv, Deciding
    <3> QED BY <3>1, <3>2 DEF Met
  <2>4. \E n \in DOMAIN srs'[r] : Met(r, n)'
    BY <1>a, <2>2, <2>3, MetStays DEF Kept
  <2>5. RInv(r)'
    BY <2>2, <2>4 DEF RInv, Deciding
  <2> QED BY <2>1, <2>5, Others
<1>4. ASSUME NEW r \in Requests, SimpleScheme(r) PROVE \A q \in Requests : RInv(q)'
  <2>1. AtScheme(r) /\ UNCHANGED <<world, given, cache, input, meta, lost>>
    BY <1>4 DEF SimpleScheme
  <2>2. Deciding(r) /\ j[r] <= Len(srs[r][i[r]])
    BY <2>1 DEF AtScheme, Deciding
  <2>3. ASSUME NEW t, t = Current(r)
        PROVE  (Pass(r) /\ MayPass(r, t)') \/ (Fail(r) /\ MayFail(r, t)')
    BY <1>4, <2>1, <2>3 DEF SimpleScheme, MayPass, MayFail
  <2> QED BY <2>1, <2>2, <2>3, EndOfScheme
<1>5. ASSUME NEW r \in Requests, OAuthUnconfigured(r) PROVE \A q \in Requests : RInv(q)'
  <2>1. AtScheme(r) /\ UNCHANGED <<world, given, cache, input, meta, lost>>
    BY <1>5 DEF OAuthUnconfigured
  <2>2. Deciding(r) /\ j[r] <= Len(srs[r][i[r]])
    BY <2>1 DEF AtScheme, Deciding
  <2>3. ASSUME NEW t, t = Current(r)
        PROVE  Fail(r) /\ MayFail(r, t)'
    BY <1>5, <2>1, <2>3 DEF OAuthUnconfigured, MayFail
  <2> QED BY <2>1, <2>2, <2>3, EndOfScheme
<1>6. ASSUME NEW r \in Requests, JWTValidate(r) PROVE \A q \in Requests : RInv(q)'
  <2>1. AtScheme(r) /\ UNCHANGED <<world, cache, input, meta, lost>>
        /\ Current(r).type = "oauth" /\ validator = "jwt"
    BY <1>6 DEF JWTValidate
  <2>2. Deciding(r) /\ j[r] <= Len(srs[r][i[r]])
    BY <2>1 DEF AtScheme, Deciding
  <2>3. CASE token[r] = NoToken /\ Fail(r) /\ UNCHANGED given
    <3>1. ASSUME NEW t, t = Current(r) PROVE MayFail(r, t)'
      BY <2>1, <2>3, <3>1 DEF MayFail
    <3> QED BY <2>1, <2>2, <2>3, <3>1, EndOfScheme
  <2>4. CASE /\ token[r] \in Tokens /\ Saw(token[r], granted[token[r]])
             /\ IF Covers(granted[token[r]], Current(r).scopes) THEN Pass(r) ELSE Fail(r)
    <3>1. /\ granted[token[r]] \in given'[token[r]]
          /\ \A u \in Tokens : given[u] \subseteq given'[u]
      BY <1>a, <2>4, SawGiven
    <3>2. ASSUME NEW t, t = Current(r)
          PROVE  (Pass(r) /\ MayPass(r, t)') \/ (Fail(r) /\ MayFail(r, t)')
      <4>1. CASE Covers(granted[token[r]], t.scopes)
        BY <2>1, <2>4, <3>1, <3>2, <4>1 DEF MayPass
      <4>2. CASE ~Covers(granted[token[r]], t.scopes)
        BY <2>1, <2>4, <3>1, <3>2, <4>2 DEF MayFail
      <4> QED BY <4>1, <4>2
    <3> QED BY <2>1, <2>2, <3>1, <3>2, EndOfScheme
  <2> QED BY <1>6, <2>3, <2>4 DEF JWTValidate
<1>7. ASSUME NEW r \in Requests, IntrospectionBegin(r) PROVE \A q \in Requests : RInv(q)'
  <2>1. AtScheme(r) /\ UNCHANGED <<world, given, cache, input, meta, lost>>
        /\ Current(r).type = "oauth" /\ validator = "introspection"
    BY <1>7 DEF IntrospectionBegin
  <2>2. Deciding(r) /\ j[r] <= Len(srs[r][i[r]])
    BY <2>1 DEF AtScheme, Deciding
  <2>3. CASE Current(r).scopes = {} /\ Pass(r)
    <3>1. ASSUME NEW t, t = Current(r) PROVE MayPass(r, t)'
      BY <2>1, <2>3, <3>1 DEF MayPass
    <3> QED BY <2>1, <2>2, <2>3, <3>1, EndOfScheme
  <2>4. CASE token[r] = NoToken /\ Fail(r)
    <3>1. ASSUME NEW t, t = Current(r) PROVE MayFail(r, t)'
      BY <2>1, <2>4, <3>1 DEF MayFail
    <3> QED BY <2>1, <2>2, <2>4, <3>1, EndOfScheme
  <2>5. CASE pc' = [pc EXCEPT ![r] = "lookup"] /\ UNCHANGED <<i, j>>
    <3>1. \A q \in Requests : Kept(q)
      BY <2>1 DEF Kept
    <3>2. OthersStay(r) /\ pc'[r] = "lookup"
      BY <1>a, <2>1, <2>5, <3>1 DEF OthersStay, TypeOK
    <3>3. Current(r)' = Current(r)
      BY <2>1, <2>5 DEF Current
    <3>4. /\ \A n \in 1 .. i'[r] - 1 : Refuted(r, n)'
          /\ \A m \in 1 .. j'[r] - 1 : MayPass(r, srs[r][i[r]][m])'
      <4>1. RInv(r) /\ Deciding(r) /\ UNCHANGED <<i, j>>
        BY <1>a, <2>2, <2>5
      <4>2. \A n \in 1 .. i[r] - 1 : Refuted(r, n)'
        BY <1>a, <3>1, <4>1, MetStays DEF RInv
      <4>3. ASSUME NEW m \in 1 .. j[r] - 1 PROVE MayPass(r, srs[r][i[r]][m])'
        <5>1. MayPass(r, srs[r][i[r]][m])
          BY <4>1 DEF RInv
        <5> QED BY <3>1, <4>1, <5>1 DEF MayPass, Kept
      <4> QED BY <4>1, <4>2, <4>3
    <3>5. RInv(r)'
      BY <2>1, <3>2, <3>3, <3>4 DEF RInv
    <3> QED BY <3>2, <3>5, Others
  <2> QED BY <1>7, <2>3, <2>4, <2>5 DEF IntrospectionBegin
\* The answer is fetched: r stays at its scheme.
<1>8. ASSUME NEW r \in Requests, \A q \in Requests : Kept(q), OthersStay(r),
             pc[r] \in {"lookup", "ask"}, UNCHANGED <<i, j>>,
             \/ pc'[r] = "ask"
             \/ pc'[r] = "check" /\ meta'[r] \in given'[token[r]]
      PROVE  \A q \in Requests : RInv(q)'
  <2>1. RInv(r) /\ Deciding(r) /\ Current(r).type = "oauth" /\ validator' = "introspection"
        /\ srs'[r] = srs[r] /\ token'[r] = token[r]
    BY <1>a, <1>b, <1>8 DEF Kept
  <2>2. Current(r)' = Current(r)
    BY <1>8, <2>1 DEF Current
  <2>3. \A n \in 1 .. i[r] - 1 : Refuted(r, n)'
    BY <1>a, <1>8, <2>1, MetStays DEF RInv
  <2>4. ASSUME NEW m \in 1 .. j[r] - 1 PROVE MayPass(r, srs[r][i[r]][m])'
    <3>1. MayPass(r, srs[r][i[r]][m])
      BY <2>1 DEF RInv
    <3> QED BY <1>8, <2>1, <3>1 DEF MayPass, Kept
  <2>5. RInv(r)'
    BY <1>8, <2>1, <2>2, <2>3, <2>4 DEF RInv
  <2> QED BY <1>8, <2>5, Others
<1>9. ASSUME NEW r \in Requests, Lookup(r) PROVE \A q \in Requests : RInv(q)'
  <2>1. \A q \in Requests : Kept(q)
    BY <1>9 DEF Lookup, Kept
  <2>2. OthersStay(r)
    BY <1>a, <1>9, <2>1 DEF Lookup, OthersStay, TypeOK
  <2>3. \/ pc'[r] = "ask"
        \/ pc'[r] = "check" /\ meta'[r] \in given'[token[r]]
    BY <1>a, <1>b, <1>9 DEF Lookup, TypeOK, CacheIsGiven
  <2> QED BY <1>8, <1>9, <2>1, <2>2, <2>3 DEF Lookup
<1>10. ASSUME NEW r \in Requests, ProviderAnswers(r) PROVE \A q \in Requests : RInv(q)'
  <2>1. /\ granted[token[r]] \in given'[token[r]]
        /\ \A u \in Tokens : given[u] \subseteq given'[u]
    BY <1>a, <1>b, <1>10, SawGiven DEF ProviderAnswers
  <2>2. \A q \in Requests : Kept(q)
    BY <1>10, <2>1 DEF ProviderAnswers, Kept
  <2>3. OthersStay(r)
    BY <1>a, <1>10, <2>2 DEF ProviderAnswers, OthersStay, TypeOK
  <2>4. pc'[r] = "check" /\ meta'[r] \in given'[token[r]]
    BY <1>a, <1>10, <2>1 DEF ProviderAnswers, TypeOK
  <2> QED BY <1>8, <1>10, <2>2, <2>3, <2>4 DEF ProviderAnswers
<1>11. ASSUME NEW r \in Requests, ProviderFails(r) PROVE \A q \in Requests : RInv(q)'
  <2>1. UNCHANGED <<world, given, cache, input, meta>> /\ pc[r] = "ask" /\ Fail(r)
    BY <1>11 DEF ProviderFails
  <2>2. lost'[r] /\ \A q \in Requests : lost[q] => lost'[q]
    BY <1>a, <1>11 DEF ProviderFails, TypeOK
  <2>3. ASSUME NEW t, t = Current(r) PROVE MayFail(r, t)'
    BY <1>b, <2>1, <2>2, <2>3 DEF MayFail
  <2> QED BY <1>b, <2>1, <2>2, <2>3, EndOfScheme
<1>12. ASSUME NEW r \in Requests, CheckScopes(r) PROVE \A q \in Requests : RInv(q)'
  <2>1. UNCHANGED <<world, given, input, meta, lost>> /\ pc[r] = "check"
        /\ IF Covers(meta[r], Current(r).scopes) THEN Pass(r) ELSE Fail(r)
    BY <1>12 DEF CheckScopes
  <2>2. meta[r] \in given[token[r]]
    BY <1>a, <2>1 DEF RInv
  <2>3. ASSUME NEW t, t = Current(r)
        PROVE  (Pass(r) /\ MayPass(r, t)') \/ (Fail(r) /\ MayFail(r, t)')
    <3>1. CASE Covers(meta[r], t.scopes)
      BY <1>b, <2>1, <2>2, <2>3, <3>1 DEF MayPass
    <3>2. CASE ~Covers(meta[r], t.scopes)
      BY <1>b, <2>1, <2>2, <2>3, <3>2 DEF MayFail
    <3> QED BY <3>1, <3>2
  <2> QED BY <1>b, <2>1, <2>3, EndOfScheme
<1>13. ASSUME NEW t \in Tokens, Evict(t) \/ Change(t) PROVE \A q \in Requests : RInv(q)'
  BY <1>a, <1>13, Frame DEF Evict, Change, Kept
<1>14. CASE UNCHANGED vars
  BY <1>a, <1>14, Frame DEF vars, Kept
<1> QED
  BY <1>1, <1>2, <1>3, <1>4, <1>5, <1>6, <1>7, <1>9, <1>10, <1>11, <1>12, <1>13, <1>14
     DEF Next, Step

\* Only CheckScopes fills the cache, and with an answer r was given.
LEMMA StepCache == IInv /\ [Next]_vars => CacheIsGiven'
<1> SUFFICES ASSUME IInv, [Next]_vars PROVE CacheIsGiven'
  OBVIOUS
<1>1. TypeOK /\ CacheIsGiven /\ MetaInv
  BY DEF IInv
<1>2. ASSUME UNCHANGED cache, \A u \in Tokens : given[u] \subseteq given'[u]
      PROVE  CacheIsGiven'
  BY <1>1, <1>2 DEF CacheIsGiven
<1>3. ASSUME NEW r \in Requests, Begin(r) \/ Finish(r) PROVE CacheIsGiven'
  BY <1>2, <1>3 DEF Begin, Finish
<1>4. ASSUME NEW r \in Requests,
             \/ RequirementMet(r) \/ SimpleScheme(r) \/ OAuthUnconfigured(r)
             \/ IntrospectionBegin(r) \/ Lookup(r) \/ ProviderFails(r)
      PROVE  CacheIsGiven'
  BY <1>2, <1>4 DEF RequirementMet, SimpleScheme, OAuthUnconfigured, IntrospectionBegin,
                    Lookup, ProviderFails
<1>5. ASSUME NEW r \in Requests, JWTValidate(r) PROVE CacheIsGiven'
  <2>1. UNCHANGED cache /\ (UNCHANGED given \/
          (token[r] \in Tokens /\ Saw(token[r], granted[token[r]])))
    BY <1>5 DEF JWTValidate
  <2> QED BY <1>1, <1>2, <2>1, SawGiven
<1>6. ASSUME NEW r \in Requests, ProviderAnswers(r) PROVE CacheIsGiven'
  <2>1. token[r] \in Tokens
    BY <1>1, <1>6 DEF ProviderAnswers, TypeOK, PlaceOK, Deciding
  <2> QED BY <1>1, <1>2, <1>6, <2>1, SawGiven DEF ProviderAnswers
<1>7. ASSUME NEW r \in Requests, CheckScopes(r) PROVE CacheIsGiven'
  <2>1. meta[r] \in given[token[r]]
    BY <1>1, <1>7 DEF CheckScopes, MetaInv
  <2>2. UNCHANGED given
    BY <1>7 DEF CheckScopes
  <2>3. CASE UNCHANGED cache
    BY <1>1, <2>2, <2>3 DEF CacheIsGiven
  <2>4. CASE meta[r] # NoScope /\ cache' = [cache EXCEPT ![token[r]] = meta[r]]
    BY <1>1, <2>1, <2>2, <2>4 DEF CacheIsGiven, TypeOK
  <2> QED BY <1>7, <2>3, <2>4 DEF CheckScopes
<1>8. ASSUME NEW t \in Tokens, Evict(t) PROVE CacheIsGiven'
  BY <1>1, <1>8 DEF Evict, CacheIsGiven, TypeOK
<1>9. ASSUME NEW t \in Tokens, Change(t) PROVE CacheIsGiven'
  BY <1>1, <1>9 DEF Change, CacheIsGiven
<1>10. CASE UNCHANGED vars
  BY <1>1, <1>10 DEF vars, CacheIsGiven
<1> QED
  BY <1>3, <1>4, <1>5, <1>6, <1>7, <1>8, <1>9, <1>10 DEF Next, Step

-----------------------------------------------------------------------------
(* The theorems *)

\* The invariant is inductive: InitIInv, StepTypeOK, StepRInv and StepCache together.
THEOREM Invariance == Spec => []IInv
<1>1. IInv /\ [Next]_vars => IInv'
  <2> SUFFICES ASSUME IInv, [Next]_vars PROVE IInv'
    OBVIOUS
  <2>1. TypeOK' /\ CacheIsGiven' /\ \A q \in Requests : RInv(q)'
    BY StepTypeOK, StepRInv, StepCache DEF IInv
  <2> QED
    BY <2>1 DEF IInv, AskInv, MetaInv, ProgressInv, AcceptedForAReason,
                RejectedForAReason, RInv
<1> QED BY <1>1, InitIInv, PTL DEF Spec

\* Types, and where a request can be in its requirements: ValidateSecurityRequirements and
\* validateSecurityRequirement never read past their slices.
THEOREM TypeCorrect == Spec => []TypeOK
<1>1. IInv => TypeOK
  BY DEF IInv
<1> QED BY <1>1, Invariance, PTL

\* Whatever the other requests, the cache and the provider do, a request is accepted only
\* when its operation requires nothing or it meets all schemes of one requirement.
THEOREM AcceptanceIsJustified == Spec => []AcceptedForAReason
<1>1. IInv => AcceptedForAReason
  BY DEF IInv
<1> QED BY <1>1, Invariance, PTL

\* And it is rejected only when each of its requirements has a scheme that failed it.
THEOREM RejectionIsJustified == Spec => []RejectedForAReason
<1>1. IInv => RejectedForAReason
  BY DEF IInv
<1> QED BY <1>1, Invariance, PTL

\* What Introspection keeps for a token is an answer the provider gave about that token,
\* however requests interleave between Cache.Get and Cache.Set.
THEOREM CacheIsHonest == Spec => []CacheIsGiven
<1>1. IInv => CacheIsGiven
  BY DEF IInv
<1> QED BY <1>1, Invariance, PTL
==============================================================================
