------------------------------- MODULE Security -------------------------------
(***************************************************************************)
(* Security requirements of an operation, as concurrent requests evaluate  *)
(* them: ValidateSecurityRequirements (any requirement) and                *)
(* validateSecurityRequirement (all its schemes) of openapi3filter, the    *)
(* AuthenticationFunc of openapiWafHandler, and the two token validators   *)
(* of internal/platform/oauth2, of which Introspection asks a provider and *)
(* shares a cache of its answers between all requests.                     *)
(***************************************************************************)
EXTENDS Naturals, Sequences

CONSTANTS
  Requests,    \* goroutines validating a request, one after the other
  Tokens,      \* bearer tokens
  Scopes,      \* OAuth scopes
  Grants,      \* what the provider may answer about a token: a set of scopes or NoScope
  Creds,       \* names of headers, parameters and cookies a scheme looks for
  NoToken,     \* no Authorization header, or an empty token
  NoScope,     \* an answer without a scope string; a token that is not valid
  None,        \* nothing cached
  Operations,  \* the security of operations: sequences of requirements, or Unset
  Unset,       \* the operation has no "security"
  Global,      \* the document's own security
  Validators   \* which OAuth validator may be configured

\* A requirement lists its schemes in the order of their names.
Schemes ==
  [type : {"presence"}, name : Creds]              \* http basic, http bearer, apiKey
    \cup [type : {"unchecked"}]                    \* http digest, http negotiate
    \cup [type : {"oauth"}, scopes : SUBSET Scopes]  \* oauth2, openIdConnect
    \cup [type : {"undeclared"}]                   \* a name components do not have

ASSUME SecurityAssumption ==
  /\ NoToken \notin Tokens
  /\ NoScope # None
  /\ \A S \in SUBSET Scopes : S # NoScope /\ S # None
  /\ \A a \in Grants : a = NoScope \/ a \in SUBSET Scopes
  /\ Global \in Seq(Seq(Schemes))
  /\ \A o \in Operations : o = Unset \/ o \in Seq(Seq(Schemes))
  /\ Validators \subseteq {"none", "jwt", "introspection"}

VARIABLES
  validator,  \* the validator of this process
  granted,    \* what the provider would answer about a token, or the token itself says
  given,      \* given[t]: every answer about t that a validator has seen
  cache,      \* Introspection.Cache: the answer kept for a token
  pc,         \* where each request is
  srs,        \* its operation's effective security
  i, j,       \* the requirement it is at, and the scheme within it
  creds,      \* the credentials it carries
  token,      \* its bearer token
  meta,       \* the answer in its hands
  lost        \* a call to the provider failed for it

world == <<validator, granted>>
input == <<srs, creds, token>>
vars == <<world, given, cache, pc, input, i, j, meta, lost>>

PCs == {"idle", "scheme", "lookup", "ask", "check", "accepted", "rejected"}
Deciding(r) == pc[r] \in {"scheme", "lookup", "ask", "check"}

\* While it is being decided a request is at one of its requirements, at or just past
\* one of its schemes.
PlaceOK(r) ==
  Deciding(r) =>
    /\ i[r] \in 1 .. Len(srs[r])
    /\ j[r] \in 1 .. Len(srs[r][i[r]]) + 1
    /\ pc[r] # "scheme" => j[r] <= Len(srs[r][i[r]]) /\ token[r] \in Tokens

TypeOK ==
  /\ validator \in Validators
  /\ granted \in [Tokens -> {NoScope} \cup Grants]
  /\ given \in [Tokens -> SUBSET ({NoScope} \cup Grants)]
  /\ cache \in [Tokens -> {None} \cup Grants]
  /\ pc \in [Requests -> PCs]
  /\ srs \in [Requests -> Seq(Seq(Schemes))]
  /\ i \in [Requests -> Nat] /\ j \in [Requests -> Nat]
  /\ creds \in [Requests -> SUBSET Creds]
  /\ token \in [Requests -> Tokens \cup {NoToken}]
  /\ meta \in [Requests -> {NoScope} \cup Grants]
  /\ lost \in [Requests -> BOOLEAN]
  /\ \A r \in Requests : PlaceOK(r)

Init ==
  /\ validator \in Validators
  /\ granted \in [Tokens -> Grants]
  /\ given = [t \in Tokens |-> {}]
  /\ cache = [t \in Tokens |-> None]
  /\ pc = [r \in Requests |-> "idle"]
  /\ srs = [r \in Requests |-> <<>>]
  /\ i = [r \in Requests |-> 1] /\ j = [r \in Requests |-> 1]
  /\ creds = [r \in Requests |-> {}]
  /\ token = [r \in Requests |-> NoToken]
  /\ meta = [r \in Requests |-> NoScope]
  /\ lost = [r \in Requests |-> FALSE]

Goto(r, from, to) == pc[r] = from /\ pc' = [pc EXCEPT ![r] = to]

-----------------------------------------------------------------------------

\* The operation's security, or the document's when it has none of its own.
Effective(o) == IF o = Unset THEN Global ELSE o

\* A request is to be validated; no requirement at all accepts it.
Begin(r) ==
  \E o \in Operations, c \in SUBSET Creds, t \in Tokens \cup {NoToken} :
    /\ srs' = [srs EXCEPT ![r] = Effective(o)]
    /\ creds' = [creds EXCEPT ![r] = c]
    /\ token' = [token EXCEPT ![r] = t]
    /\ i' = [i EXCEPT ![r] = 1] /\ j' = [j EXCEPT ![r] = 1]
    /\ lost' = [lost EXCEPT ![r] = FALSE]
    /\ IF Effective(o) = <<>> THEN Goto(r, "idle", "accepted") ELSE Goto(r, "idle", "scheme")
    /\ UNCHANGED <<world, given, cache, meta>>

\* The decision has been used and the request is forgotten.
Finish(r) ==
  /\ Goto(r, "accepted", "idle") \/ Goto(r, "rejected", "idle")
  /\ srs' = [srs EXCEPT ![r] = <<>>]
  /\ creds' = [creds EXCEPT ![r] = {}]
  /\ token' = [token EXCEPT ![r] = NoToken]
  /\ i' = [i EXCEPT ![r] = 1] /\ j' = [j EXCEPT ![r] = 1]
  /\ meta' = [meta EXCEPT ![r] = NoScope]
  /\ lost' = [lost EXCEPT ![r] = FALSE]
  /\ UNCHANGED <<world, given, cache>>

\* The scheme r is at.
Current(r) == srs[r][i[r]][j[r]]
AtScheme(r) == pc[r] = "scheme" /\ j[r] <= Len(srs[r][i[r]])

\* f returned nil: on to the next scheme of the requirement.
Pass(r) ==
  /\ pc' = [pc EXCEPT ![r] = "scheme"]
  /\ j' = [j EXCEPT ![r] = j[r] + 1]
  /\ UNCHANGED i

\* MUTANT: an error of one requirement is the answer.
Fail_FirstOnly(r) ==
  /\ pc' = [pc EXCEPT ![r] = "rejected"]
  /\ UNCHANGED <<i, j>>

\* MUTANT: one requirement too many.
Fail_OneTooFar(r) ==
  \/ /\ i[r] <= Len(srs[r])
     /\ pc' = [pc EXCEPT ![r] = "scheme"]
     /\ i' = [i EXCEPT ![r] = i[r] + 1]
     /\ j' = [j EXCEPT ![r] = 1]
  \/ /\ i[r] > Len(srs[r])
     /\ pc' = [pc EXCEPT ![r] = "rejected"]
     /\ UNCHANGED <<i, j>>

\* f returned an error: the requirement is not met, on to the next, if any.
Fail(r) ==
  \/ /\ i[r] < Len(srs[r])
     /\ pc' = [pc EXCEPT ![r] = "scheme"]
     /\ i' = [i EXCEPT ![r] = i[r] + 1]
     /\ j' = [j EXCEPT ![r] = 1]
  \/ /\ i[r] = Len(srs[r])
     /\ pc' = [pc EXCEPT ![r] = "rejected"]
     /\ UNCHANGED <<i, j>>

\* MUTANT: one scheme of the requirement is enough.
RequirementMet_Any(r) ==
  /\ pc[r] = "scheme"
  /\ j[r] > 1 \/ srs[r][i[r]] = <<>>
  /\ pc' = [pc EXCEPT ![r] = "accepted"]
  /\ UNCHANGED <<world, given, cache, input, i, j, meta, lost>>

\* Every scheme of the requirement passed (an empty one is met).
RequirementMet(r) ==
  /\ Goto(r, "scheme", "accepted")
  /\ j[r] = Len(srs[r][i[r]]) + 1
  /\ UNCHANGED <<world, given, cache, input, i, j, meta, lost>>

\* http and apiKey schemes ask only whether the credential is there; http digest and
\* negotiate ask for nothing.  An undeclared scheme is an error.
SimpleScheme(r) ==
  /\ AtScheme(r)
  /\ \/ Current(r).type = "presence" /\ Current(r).name \in creds[r] /\ Pass(r)
     \/ Current(r).type = "presence" /\ Current(r).name \notin creds[r] /\ Fail(r)
     \/ Current(r).type = "unchecked" /\ Pass(r)
     \/ Current(r).type = "undeclared" /\ Fail(r)
  /\ UNCHANGED <<world, given, cache, input, meta, lost>>

Saw(t, a) == given' = [given EXCEPT ![t] = @ \cup {a}]

\* An answer meets a set of scopes.
Covers(a, scopes) == a # NoScope /\ scopes \subseteq a

\* oauth2 and openIdConnect without a validator: "oauth2 validator not configured".
OAuthUnconfigured(r) ==
  /\ AtScheme(r) /\ Current(r).type = "oauth"
  /\ validator = "none"
  /\ Fail(r)
  /\ UNCHANGED <<world, given, cache, input, meta, lost>>

\* JWT.Validate: the token's signature and expiry, then its own scopes.
JWTValidate(r) ==
  /\ AtScheme(r) /\ Current(r).type = "oauth"
  /\ validator = "jwt"
  /\ \/ /\ token[r] = NoToken
        /\ Fail(r)
        /\ UNCHANGED given
     \/ /\ token[r] \in Tokens
        /\ Saw(token[r], granted[token[r]])
        /\ IF Covers(granted[token[r]], Current(r).scopes) THEN Pass(r) ELSE Fail(r)
  /\ UNCHANGED <<world, cache, input, meta, lost>>

\* Introspection.Validate: without scopes nothing is asked, not even for a token.
IntrospectionBegin(r) ==
  /\ AtScheme(r) /\ Current(r).type = "oauth"
  /\ validator = "introspection"
  /\ \/ /\ Current(r).scopes = {}
        /\ Pass(r)
     \/ /\ Current(r).scopes # {} /\ token[r] = NoToken
        /\ Fail(r)
     \/ /\ Current(r).scopes # {} /\ token[r] # NoToken
        /\ pc' = [pc EXCEPT ![r] = "lookup"]
        /\ UNCHANGED <<i, j>>
  /\ UNCHANGED <<world, given, cache, input, meta, lost>>

\* i.Cache.Get: an expired entry is returned like any other.
Lookup(r) ==
  /\ \/ /\ Goto(r, "lookup", "ask")
        /\ cache[token[r]] = None
        /\ UNCHANGED meta
     \/ /\ Goto(r, "lookup", "check")
        /\ cache[token[r]] # None
        /\ meta' = [meta EXCEPT ![r] = cache[token[r]]]
  /\ UNCHANGED <<world, given, cache, input, i, j, lost>>

\* getTokenMetaInfo: the provider's answer at this moment.
ProviderAnswers(r) ==
  /\ Goto(r, "ask", "check")
  /\ meta' = [meta EXCEPT ![r] = granted[token[r]]]
  /\ Saw(token[r], granted[token[r]])
  /\ UNCHANGED <<world, cache, input, i, j, lost>>

\* The endpoint cannot be reached or its answer is not JSON.
ProviderFails(r) ==
  /\ pc[r] = "ask"
  /\ lost' = [lost EXCEPT ![r] = TRUE]
  /\ Fail(r)
  /\ UNCHANGED <<world, given, cache, input, meta>>

\* MUTANT: the answer is cached before it is looked at.
CheckScopes_CacheFirst(r) ==
  /\ pc[r] = "check"
  /\ cache' = [cache EXCEPT ![token[r]] = meta[r]]
  /\ IF Covers(meta[r], Current(r).scopes) THEN Pass(r) ELSE Fail(r)
  /\ UNCHANGED <<world, given, input, meta, lost>>

\* An answer without a scope string is an error and is not kept; any other is stored,
\* again if it came from the cache, before its scopes are compared.
CheckScopes(r) ==
  /\ pc[r] = "check"
  /\ \/ /\ meta[r] = NoScope
        /\ UNCHANGED cache
     \/ /\ meta[r] # NoScope
        /\ cache' = [cache EXCEPT ![token[r]] = meta[r]]
  /\ IF Covers(meta[r], Current(r).scopes) THEN Pass(r) ELSE Fail(r)
  /\ UNCHANGED <<world, given, input, meta, lost>>

-----------------------------------------------------------------------------
(* The world around *)

\* The cache makes room for other tokens.
Evict(t) ==
  /\ cache[t] # None
  /\ cache' = [cache EXCEPT ![t] = None]
  /\ UNCHANGED <<world, given, pc, input, i, j, meta, lost>>

\* The provider changes its mind; a JWT can only expire.
Change(t) ==
  /\ \/ /\ validator = "introspection"
        /\ \E a \in Grants : granted' = [granted EXCEPT ![t] = a]
     \/ /\ validator = "jwt"
        /\ granted' = [granted EXCEPT ![t] = NoScope]
  /\ UNCHANGED <<validator, given, cache, pc, input, i, j, meta, lost>>

Step(r) ==
  \/ RequirementMet(r) \/ SimpleScheme(r)
  \/ OAuthUnconfigured(r) \/ JWTValidate(r) \/ IntrospectionBegin(r)
  \/ Lookup(r) \/ ProviderAnswers(r) \/ ProviderFails(r) \/ CheckScopes(r)

Next ==
  \/ \E r \in Requests : Begin(r) \/ Finish(r) \/ Step(r)
  \/ \E t \in Tokens : Evict(t) \/ Change(t)

Spec == Init /\ [][Next]_vars

-----------------------------------------------------------------------------
(* Properties *)

\* What can make r pass, or fail, a scheme: with OAuth, some answer about its own token.
MayPass(r, s) ==
  \/ s.type = "presence" /\ s.name \in creds[r]
  \/ s.type = "unchecked"
  \/ /\ s.type = "oauth"
     /\ \/ validator = "introspection" /\ s.scopes = {}
        \/ /\ token[r] \in Tokens /\ validator # "none"
           /\ \E a \in given[token[r]] : Covers(a, s.scopes)

MayFail(r, s) ==
  \/ s.type = "presence" /\ s.name \notin creds[r]
  \/ s.type = "undeclared"
  \/ /\ s.type = "oauth"
     /\ \/ validator = "none" \/ token[r] = NoToken \/ lost[r]
        \/ \E a \in given[token[r]] : ~Covers(a, s.scopes)

\* Requirement n of r: every scheme of it may pass, or one of them may fail.
Met(r, n) == \A m \in DOMAIN srs[r][n] : MayPass(r, srs[r][n][m])
Refuted(r, n) == \E m \in DOMAIN srs[r][n] : MayFail(r, srs[r][n][m])

\* A request gets through only if the operation requires nothing or it meets every
\* scheme of one requirement: no interleaving lends it an answer about another token.
AcceptedForAReason ==
  \A r \in Requests : pc[r] = "accepted" =>
    srs[r] = <<>> \/ \E n \in DOMAIN srs[r] : Met(r, n)

\* And it is turned away only if in every requirement a scheme failed it.
RejectedForAReason ==
  \A r \in Requests : pc[r] = "rejected" => \A n \in DOMAIN srs[r] : Refuted(r, n)

\* The cache holds answers the provider gave about that token, and never one without
\* scopes: a token it knew nothing about is asked about again.
CacheIsGiven ==
  \A t \in Tokens : cache[t] # None => cache[t] \in given[t] \ {NoScope}

-----------------------------------------------------------------------------
(* The inductive invariant behind them *)

\* Only Introspection goes beyond a scheme's first step, and only with a token.
AskInv ==
  \A r \in Requests : pc[r] \in {"lookup", "ask", "check"} =>
    /\ validator = "introspection"
    /\ Current(r).type = "oauth"

\* What a request is about to compare is an answer about its own token.
MetaInv ==
  \A r \in Requests : pc[r] = "check" => meta[r] \in given[token[r]]

\* Half-way: the requirements behind r were refuted, the schemes behind it passed.
ProgressInv ==
  \A r \in Requests : Deciding(r) =>
    /\ \A n \in 1 .. i[r] - 1 : Refuted(r, n)
    /\ \A m \in 1 .. j[r] - 1 : MayPass(r, srs[r][i[r]][m])

IInv ==
  /\ TypeOK /\ AskInv /\ MetaInv /\ CacheIsGiven /\ ProgressInv
  /\ AcceptedForAReason /\ RejectedForAReason
==============================================================================
