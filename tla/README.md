# A verification project for the Wallarm API Firewall

The API Firewall is a reverse proxy that checks every request and every response
against an OpenAPI 3 document and forwards, logs or blocks accordingly.  This
directory holds TLA+ models of it, translated from its Go code, the TLC runs that
check them on small instances and the proofs, checked by TLAPS, of what holds for
instances of every size.

Paths below are relative to the repository's `src/`.  Short names: *pool* is
`internal/platform/proxy/chainpool.go`, *handler* is
`cmd/api-firewall/internal/handlers/openapi.go`, *main* is
`cmd/api-firewall/main.go`, *filter* is `internal/platform/openapi3filter/`,
*openapi3* is `internal/platform/openapi3/`.

## 1. Inventory

| Component | State it keeps | Operations | Talks to |
|---|---|---|---|
| client pool (*pool*) | a channel field, an RWMutex, the buffered clients | `NewChanPool`, `Get`, `Put`, `Close` | request handlers, readiness probe, `main` |
| request pipeline (*handler*, `handlers/routes.go`, `web/`, `mid/`) | per request: context, response, the borrowed client | router, Denylist, `openapiWafHandler`, error and panic middleware | pool, validators, backend |
| health service (`handlers/check.go`) | none | `Readiness`, `Liveness` | pool |
| startup and shutdown (*main*) | two channels of capacity 1 (signals, server errors) | `run` | all of the others |
| denylist (`denylist/`, `mid/denylist.go`) | a cache of tokens, their number | `New`, the middleware | a file, every request |
| security requirements (*filter* `validate_request.go:244-315`, *handler* `161-201`) | none of its own | any requirement, all of its schemes | OAuth validators |
| OAuth validators (`oauth2/`) | a cache of introspection answers shared by all requests | `JWT.Validate`, `Introspection.Validate` | the OAuth provider |
| request and response validation (*filter*) | a pool of JSON parsers | `ValidateRequest`, `ValidateResponse` | decoders, schemas |
| decoders (*filter* `req_resp_decoder.go`) | a table of body decoders | styles and `explode` of parameters, bodies by media type | schemas |
| schema validation (*openapi3* `schema.go`) | compiled patterns, filled in lazily by requests | `VisitJSON` over parsed and over fastjson values | - |
| document and its checks (*openapi3*) | the document | `Validate` of each object | reference loader |
| reference loader (*openapi3* `swagger_loader.go`) | visited sets, the values given so far, Go's stack | `ResolveRefsIn`, the `resolve*Ref` family | a file |
| routers (`router/`, `routers/legacy/`) | a list of routes; a tree of path suffixes | `NewRouter`, `AddRoute`, `FindRoute` | document |
| configuration, jsoninfo, error texts, logging | - | - | - |

What interacts with what, and where it is hard:

* **The pool is shared by goroutines that follow different rules.**  `Put` and
  `Close` use the mutex; `Get` reads the field twice without it.  `Close` runs while
  the readiness probe, on a server that is never shut down, still calls `Get` and
  `Put`.  A send on a closed channel panics.  Correctness: no panic, no client in two
  hands, nothing enters a closed pool, every call returns, and callers may think of
  the whole as a lending library.
* **A request borrows a client for its whole life** and can leave the handler in a
  dozen ways: no client, blocked before or after the backend was asked, backend
  failures, a panic of either validator.  Correctness: what is not allowed does not
  reach the backend, what the backend should not have said does not reach the client,
  and the client goes back to the pool on every way out.
* **Shutdown is a protocol between main, fasthttp's connections, the probe and the
  pool**, with failures of listeners and a second signal in between.  Correctness: the
  connections drain before the pool closes, "not ready" is said only of a closed pool,
  and a signal does stop the process.
* **Startup reads a file twice** and has arithmetic at its edges (thresholds, tenths).
* **Concurrent requests share what the OAuth provider said.**  Between the lookup in
  the cache, the question to the provider and the store lie other requests, evictions
  and a provider that changes its mind.  Correctness: each decision about a request is
  justified by that request's credentials and by answers about its own token.
* **Validation is written twice**, over parsed values and over fastjson values, and the
  two must agree; decoding depends on style, explode and the shape of the schema.
* **A document is a graph that is resolved in place**, by functions that call each
  other, through maps that Go ranges over in any order.  Correctness: the calls end,
  cyclic schemas included; what is loaded has no reference without its value; neither
  the verdict nor the value depends on the order.
* **Routes share the nodes of a tree** that is built in the order of a map too.
  Correctness: a request gets the most specific template its path is of, whatever the
  order, and with it the values that make the template its path again.

`PROJECT.json` lists every component with its status and, under `hazards`, what a
test would hardly reach, at the line where it bites.

## 2. Plan

Done, in this order: `PoolPromise`, `ProxyPool` (the component everything else
borrows from), its proofs, `Firewall` on top of the promise, `Startup`, `Security`,
its proofs, `Schema` with its reference definition `Conformance` and the state machine
`SchemaVisit`, `Decode` on top of `Schema`, `Validation`, which composes the two,
`RefLoader` with its promise `Resolution` and its reference `References`, `SpecValidate` on what it loads,
`PathPattern`, and `Document`, which composes the three, with its reference `Answers`;
then the proofs of `Firewall`, `Startup`, `RefLoader`, `References`, `PathPattern` and
`Document`; last those of `SchemaVisit` and of the protocol in `Validation`, and the bound
on the loader's calls.

```
PoolPromise <- ProxyPool <- ProxyPool_proofs
     ^
  Firewall <- Firewall_proofs       Startup <- Startup_proofs       Security <- Security_proofs

Serialization, Schema <- Decode <- ParameterStyles <- Validation
Schema, Closures <- Conformance <- SchemaVisit <- SchemaVisit_proofs
Validation, Conformance <- Judgement <- Judgement_proofs

Resolution, RefLoader, Closures <- References <- SpecValidate (uses Serialization)
SpecValidate <- Document (uses PathPattern) <- Answers
References <- References_proofs (about RefLoader too), Answers <- Document_proofs (about PathPattern too)
```

What is left: that a decoder takes exactly what a client writes in the parameter's style
(`ParameterStyles` against `Decode`), which is induction over texts, one style at a time; a
bound on the loader's calls nearer to what documents need than the third power of their
size; the hazards without a property.

Abstract specifications: the lending library, the resolution of references, what a request means (`Judgement`), what
a document means without being loaded (`References`) and what a template means without
the tree (`Answers`).

## 3. Modules and code

Actions carry the names of functions, or of the step of a function, they translate;
`map` in `PROJECT.json` gives the lines of each.  Definitions marked `MUTANT` are not
part of a model: each is a plausible bug, put in the place of the definition after it
to see that a property notices.

**`PoolPromise`**: what the pool promises.  `open`, the set `pooled` of waiting
clients, who has `asked`, and who has been `lent` what.  An open pool lends a waiting
client if there is one and a new one otherwise; a closed pool may lend or refuse, but
only refuse because it was closed; giving back to a closed or full pool drops the
client.

**`ProxyPool`**: *pool* itself.  `reverseProxyChan` is the field, `buf` and `closed` the
channel, `mutex` and `readers` the RWMutex (a writer announces itself and then waits, as
Go's does).  Each goroutine is a program counter with one action per step another
goroutine can observe.  The unlocked reads in `Get` are a data race: `GetReload` may
see the first value again or the field as it is now.  Users call `Get` and `Put`,
closers `Close`.  External: nothing; Go's channels and mutex are part of the actions.

**`Firewall`**: the running process.  A connection (`pc`) goes through fasthttp (`Accept`,
`Arrive`, `Respond`, `IdleClose`, external), the router, the middleware and
`openapiWafHandler`; validation is an oracle (`kind` of a request, `reply` of the
backend) that may also panic.  `answer` and `hop` are what `ctx.Response` holds, `main`,
`sig` and `serverErrors` are `run`'s place and its two channels.  The pool is
`INSTANCE PoolPromise`, so that what is checked here rests on the promise and not on the
pool's code, which `ProxyPool` is shown to keep.  The router's `MethodNotAllowed` and
`NotFound` handlers are one function, hence one kind of unknown request.

**`Startup`**: `run` up to the listeners, `denylist.New` line by line.  A line is empty or
not.  Any step that can return an error may (`Fail`).  The numbers 100 (pool threshold)
and 10 (progress) are the constants `BigPool` and `Tenths`.

**`Security`**: requests (`pc`, `i`, `j`: the requirement and the scheme within it) that
evaluate `[]SecurityRequirement` as `ValidateSecurityRequirements` and
`validateSecurityRequirement` do, with the scheme types the `AuthenticationFunc` tells
apart.  `granted` is what the provider would say about a token now, `cache` what
`Introspection.Cache` holds, `meta` the answer a request has in its hands.  `given` and
`lost` are history variables the properties use: all answers seen about a token, and
whether a call of this request failed.  The cache returns expired entries, so time does
not appear; eviction does.

**`Schema`**: `IsEmpty`, `validate` and both visitors of `schema.go`, without state.  A
document is a function from names to schemas and a schema names its sub-schemas, so
that a reference and a schema that refers to itself need nothing of their own.  A visit
returns a set of errors; since an object is ranged over as a Go map, in any order, the
operators give the *set* of outcomes a visit may have.  The two visitors are one
definition with a parameter `fast` and a disjunct wherever the copies differ, which is
what the module is about.  Numbers and the bounds on them are counted in halves; what a
pattern matches, a format rejects and how long a string is are constants (`Matches`,
`BadFormat`, `StrLen`).  `raw` is a fastjson value within a decoded one, which the JSON
part of a multipart body is.  A panic and an exhausted stack are outcomes, told apart
because only the first is recovered.  Values are finite: `MaxNesting`, any number, says how deep they nest (fastjson reads
no more than 300 levels).  A visit is a recursive function of its call (`Calls`): the schema,
the value, the mode, and the schemas `above` that wait for it to judge the same value;
a schema that comes back to one of them is the exhausted stack.  `uniqueItems` compares values, so two spellings of
one number in fastjson, which the code tells apart, are not represented.

**`Conformance`**: the reference definition.  `Conforms(d, n, v, mode)` says by
quantifiers, without order, modes of reporting or early returns, which values a schema
means.  It follows the code's dialect where that is deliberate: `null` is looked at by
`nullable` alone, readOnly properties are not required of requests nor writeOnly ones of
responses, a schema without keywords accepts everything.  `Leads` says when a path leads
into a value.  Which schemas a document reaches is a `ReachableFrom` of **`Closures`**, which
`References` uses too.

**`SchemaVisit`**: the life of one schema: `Validate` at load, then visits by either
visitor, each followed by the next request (`Forget`).

**`Decode`**: `req_resp_decoder.go`, `Content.Get` and the serialization methods, without
state.  A text is a sequence of tokens (names, literals, delimiters), so that splitting
and cutting are what they are in the code while characters are not spelled out.  What
`strconv` and the JSON parsers take are constants.  The path decoder has nine pairs of
delimiters, which `Delimiters` tabulates; headers and cookies are its style "simple".
What does not depend on schemas (`MethodOf`, which styles there are and which kinds of
value have a decoder) is **`Serialization`**, which `SpecValidate` uses too.
A typed nil, which Go makes of a nil slice in an `interface{}`, is the empty list or
object it is visited as (`NilOf`).  The parts of a multipart body may be bodies of that kind again,
up to `MaxNesting`.

**`Validation`**: one call of `ValidateRequest`, a parameter a step, in both error modes,
then the backend's answer and `ValidateResponse`.  `me` holds the errors.  The verdict on
each part is computed by `Decode` and `Schema`; security is an oracle, since `Security`
has it.

**`ParameterStyles`** and **`Judgement`**: the reference.  `ParameterStyles` says how a client
writes a value in each OpenAPI style, and `Judgement` what a request means: a part is good
if some conforming value is written the way the request has it.  Decoding is known to
take other values in some cases; they are named and excused there, each with its
reason: `Reinterpreted` (an absent list counts as empty, a schema without a type decodes
to nil, objects get exactly the declared properties, an empty text is null, the first of
repeated primitives counts), `Undecodable` (`anyOf`, `oneOf` and `not`, exploded lists in
cookies, content in the path, lists of lists) and, for bodies, `OwnReading` (media types
without a decoder, forms that leave out, add or repeat properties, JSON parts, readOnly
and writeOnly in responses, and what the fast visitor does in its own way).

**`RefLoader`**: `ResolveRefsIn`.  A document is a graph: nodes for the document, its path
items, operations and every reference wrapper (`SchemaRef`, ...), `doc.fields` for the
places below a node and `doc.ref` for a `$ref`, which is a fragment from the root.
`stack` is Go's stack of `resolve*Ref` calls: each action is what one call does until
its next call or return (`AlreadyVisited`, `Inline`, `FollowRef`, `CopyPathItem`,
`OpenValue`, `Descend`, `AllVisited`).  The eight functions are one: they differ in
what they visit below a value (`Slots`), in what a null does (`LeftOut`) and in the
check of parameters (`Ambiguous`).  A reference is followed the way the code does: the
target is *copied* (`own = FALSE`, with a `local` Value), the copy is resolved, and its
value handed over.  `MaxDepth` stands for the memory a stack may have; reaching it is
the outcome `overflow`.

`DocumentsAssumption` says what a document is after unmarshalling (`WellFormed`): finite,
a tree in which each Go type has the fields it has, with nothing beside a `$ref`
(`jsoninfo.UnmarshalRef`; the siblings of a path item's `$ref` OpenAPI leaves undefined).
A slot holds what Go's type says (`KindAt`), and a null in a map or a slice is the node `Nil`; a
null in a field of its own (`Pointers`) is the same to Go as no field.  A fragment (`Into`) may lead
to either kind of nil pointer: `resolveComponent` dereferences one of the type it was asked for,
which panics, and refuses any other (`NilAsked`).  It never finds `additionalProperties`, which has
no `yaml` name.  The media types of a request body or a response are visited in any order, but
each with its examples and then its schema (`Interrupts`).

**`Resolution`**: what the loader promises: in whatever order, each component is given what
it means, once and for good, and loading is over when all that is needed has it, or
fails.  `References` has the refinement (`KeepsMeaning`): `value <- val` and
`means <- Meant`, so that not even a document that is refused in the end, or whose copies
are still on the stack, has a wrong value for a moment.

**`References`**: the same document read without order.  `Means` is computed in rounds
(`Closure`): a node without a `$ref` means itself, and one whose `$ref` leads, through what
is known so far, to a node of its kind that means something, means the same.  `Reached`
is what is below the root and where references lead; what can be wrong with it is a
reference that `Dangles`, a null (`NilBelow`), `Both` schema and content, a reference that
passes through another (`PassesRef`).  References that only lead on to each other are a
`PureCycle`; values below each of which a reference to an alias (a component that is itself
only a reference) means the next of them are an `AliasCycle`, of the aliases the document
`Listed` in its components or of all it has.

**`SpecValidate`**: `Swagger.Validate` and the methods it calls, as predicates on the loaded
document; where the verdict depends on the order of a map (conflicting paths, server
variables) it is a set.  The serialization of a parameter is `Decode`'s `MethodOf`.

**`PathPattern`**: `pathpattern/node.go`.  A path is a sequence of tokens (`/`, characters,
whole variables); a node of the tree is named by the suffixes that lead to it, so that
the tree is a function from such names.  Where a text is matched is a position in it, and
`matchRemaining` a function of the node and the position, whose result is the set of what
is found: empty or one.  Of two constants Go tries the greater string
first; both match only if one begins with the other, so length is enough here.

**`Document`**: load, validate, `NewRouter` one operation at a time in any order, `AddRoute`,
`FindRoute`.  A URL is host and path; braces in a path are escaped by `url.String`, which
is what `Served` compares when there are servers.  `RouterAssumption` says of what kind routes,
requests and servers are: a method is a token of its own, no path has a method in it.

**`Answers`**: the reference for routes: `IsOf(text, path)` quantifies over the values for the
variables of a template (`Blanks`, `Filling`), `MoreSpecific` compares templates where they
first differ.

**The `_proofs` modules** hold the theorems about the module of their name; those of
`Document_proofs` are about `Answers`, which extends it, and, in its first part, about the
tree of `PathPattern`; those of `References_proofs`, in its first part, about `RefLoader`;
those of `Judgement_proofs` about `Validation` as it is stated in `Judgement`.

## 4. Runs

| Run | Module, bounds | What it checks |
|---|---|---|
| `pool` | `MCProxyPool`: 2 users, 2 closers, capacity 1, 4 clients | types and capacity, `NoPanic`, `ClientsNotShared`, `ClosedPoolOnlyDrains`, refinement `KeepsPromise`, `CloseReturns`, `CallsReturn` |
| `firewall` | `MCFirewall`: 2 connections, 1 probe, capacity 1, all 9 pairs of modes | `OnlyAllowedReachBackend`, `OnlyAllowedReachClient`, `ClientsReturned`, `PoolOutlivesConnections`, `NotReadyMeansClosed` |
| `shutdown` | `MCFirewall`: 2 connections, one pair of modes, no symmetry | `RequestsAnswered`, `SignalStops` under fairness |
| `startup` | `MCStartup`: capacities -1 to 4 around a threshold of 3, files of up to 7 lines, tenths of 3 | `EveryEntryOffered`, `CapacityAccepted` |
| `no_denylist` | the same | violation of `DenylistOptional` |
| `short_denylist` | the same | violation of `AnyNumberOfEntriesLoads` |
| `security` | `MCSecurity`: 2 requests, 2 tokens, 2 scopes, 4 operations, 3 validators | `AcceptedForAReason`, `RejectedForAReason`, `CacheIsGiven` |
| `schema_visit` | `MCSchemaVisit`: 23 roots over 9 and 3 leaves, 21 values for each visitor, 6 modes | `VisitDecides`, `FastVisitDecides`, `SingleErrorIsAmongAll`, `PointersLead`, `DeathsAreKnown`, `LoadDecides` |
| `fail_fast` | the same | violation of `FailFastIsOnlyQuicker` |
| `validation` | `MCValidation`: 122 parameters, each alone, some beside one of the path item; 14 contents for bodies and for responses; some 10,000 calls; both error modes | `PassedParametersConform`, `FailedParametersDoNot`, `BodiesAreJudged` |
| `required_param` | the same | violation of `RequiredReported` |
| `document` | `MCDocument`: 1,651 documents in families, in every order of their maps; stack of 26 calls; up to 3 templates, a dozen and more requests of each | refinement `KeepsMeaning`, `LoadedIsResolved`, `RefusedForAReason`, `OverflowsOnAliasCycles`, `FindsMostSpecific`, `AcceptedCanBeServed`, `PanicsAreKnown` |

Why the bounds suffice for what they are for.  Pool: every race is between two
operations of which one is `Put` or `Close`; two users race for the last slot of a
channel of capacity 1, which is full and empty in turn, and two closers race for the
field.  Firewall: the connections interact through the pool and through shutdown only;
two of them and a probe empty and overfill a pool of one client, and one can be idle
while the other is in any place.  Startup: seven lines give 0, 1, 2 and more tenths
and a file on both sides of ten entries' equivalent (3); the threshold is straddled.
Security: two requests with the same or different tokens produce every order of
lookup, question and store; the operations have two requirements, two schemes, empty,
undeclared and inherited ones.  Schemas: the visitors recurse on sub-schemas without memory, so that two levels under
a root show every pair of a combining keyword and what it combines; a root that refers to
itself, in `properties`, in `not` and in `allOf` (whose visit never ends, in the code as in the model),
is among them; each value lies on one side or on the edge of some bound, and the
leaves are chosen so that each accepts some and refuses some.  Validation: parameters are judged one by one, so that one of each location,
style, explode and kind of schema, beside one it may override or not, shows every decoder;
texts are samples of values in the parameter's style, the same in the style "simple", and
texts that are neither, with delimiters in front, at the end and doubled; bodies of each
sort come under each label, under a content with all four ranges of `Content.Get` too.
Documents: three schemas referring to each other, directly, into one another, through
properties and `additionalProperties`, show every cycle of aliases and values (a longer
one adds calls, not kinds of call); every kind of component has references to a sibling,
itself, a null, nothing, another kind and outside; every slot occurs; every location,
style and explode of a parameter; one flaw a document for the checks.  Legitimate documents of these
sizes need at most 11 calls, so that 26 tells an overflow from them
(`OverflowsOnAliasCycles` would fail otherwise); the bound that is proved, one more than the third power of
the number of nodes, is far above what they need.  `SiblingDoc` has its alias inside one of the
values, where loading ends or not by the order of a map.  Templates: all pairs of 16, which
cover every pair of suffix kinds at a node, and all triples of 10, for a match that
fails below a suffix and must come back.
The theorems of section 5 remove these bounds for all properties of `pool`, `firewall`, `startup`,
`security`, `schema_visit` and `document`; for the first half of `OverflowsOnAliasCycles` on
condition that the stack has room enough for the document.  The bounds remain for liveness and for
the single verdicts in `validation`; that a call puts them together rightly is proved.

`firewall` and `security` use symmetry (connections, clients; requests, tokens), which is
sound there: invariants only, and no constant distinguishes the permuted values.
Deadlock is checked in every run but those of `SchemaVisit`, where a rejected document
is the end of the process; elsewhere a process that ends stutters explicitly
(`Terminated`, `Done`).

### Fairness

`ProxyPool!FairSpec`: weak fairness of every goroutine's steps inside the pool's code
(Go's scheduler), none of calls.  It suffices because `Lock` announces itself and keeps
new readers out, which is what Go's RWMutex does.

`Firewall!FairSpec`: weak fairness of each connection's and of main's steps.  The wait
for the backend ends by the dial, read and write timeouts of `config.go`, that of an
idle client by the server's `ReadTimeout`.  Clients owe no requests, signals need not
come and nothing has to fail.  The fairness is not justified for one call:
`fasthttp.Do` to the introspection endpoint has no timeout (`introspection.go:125`), so
the liveness results assume an endpoint that answers or refuses.

### Findings

* Without a denylist file, the default, `denylist.New` returns `nil, nil` and
  `main.go:210` reads `deniedTokens.ElementsNum`: `run` panics before it listens.  The
  middleware (`mid/denylist.go:22`) plainly means the file to be optional.
* With one to nine entries `totalEntries / 10` is zero and the remainder by it at
  `denylist.go:85` panics.
* `visitFastJSONObject` in single-error mode, the mode the handler uses, ignores a
  property that `additionalProperties: false` forbids: the callback returns without
  leaving an error (`schema.go:1702`).  With `FailFast`, which is to be quicker and
  nothing else (`schema_validation_settings.go:12`), and in `visitJSONObject` the same
  value is refused.

* A required array or object parameter that is absent is accepted if an empty one
  conforms: the decoders return a nil slice or map, whose `interface{}` is not nil, and
  `ErrInvalidRequired` (`validate_request.go:113`) is not returned.

Seen while modelling and listed as hazards, without a statement of the repository to
hold them against: the introspection cache is refreshed by use, so that a revoked token
in use stays accepted; a parameter of the path with content is never found, so that a
required one is always refused; http schemes other than basic and bearer are accepted unchecked;
`LOG_ONLY` does not protect a request from a panic of the validator, which answers 502.

Some hazards no property would catch, and `PROJECT.json` says so at each.  A listener that
fails ends the process with requests in flight, which `RequestsAnswered` allows.  The two
visitors' difference in `enum`, responses that are judged as requests, and parameters of the path with
content are excused by name in the properties about validation.  Others are caught in part: of
two templates that differ in the names of variables alone `FindsMostSpecific` does not say
which is found, and `AcceptedCanBeServed` asks for a decoder of some kind of value only.

And in documents:

* A schema that reaches itself through an *alias* (`A: {properties: {x: {$ref: B}}}`,
  `B: {$ref: A}`) is resolved for ever: the copy of an unresolved reference has no value
  that could be in the visited set.  Recursion by a schema's own name ends.  Where the
  alias is no component but stands inside one of the values (`#/components/schemas/A/properties/p`),
  the same document is loaded or exhausts the stack by the order of a map.
* A path item that refers to one with a `$ref` of its own, and a fragment that passes
  through a reference, work or not by the order of a map.
* `Paths.Validate` stores the unnormalised path (`paths.go:28`), so two templates that
  differ in variable names only conflict just if one is spelled `{}`, and only in one
  order; it counts path parameters without looking at their names (47).
* `OAuthFlows.Validate` looks at the first flow only; parameters of a path item, headers of
  responses, links, examples, callbacks and encodings are never validated, and
  `components.links` never resolved.
* A null server or server variable, a null media type of a request body or parameter, and a
  reference to a null or to a field that is not there (`#/components/schemas/A/items`) panic; `FindRoute` panics if a request spells a template
  literally that no path is of.
* `AddRoute` stores the router itself where `FindRoute` expects a route.

## 5. Proofs

The eight `_proofs` modules are checked by `tlapm` to the last leaf.  They assume the named
assumptions on constants (`PoolAssumption`, `FirewallAssumption`, `StartupAssumption`,
`SecurityAssumption`, `SchemaAssumption`, `VisitAssumption`, `ValidationAssumption`,
`DocumentsAssumption`, `RouterAssumption`), which TLC evaluates in the
runs, and nothing else: any number of goroutines, clients, requests, tokens, scopes,
operations, parameters, schemas, documents, templates, tokens of a path and calls on Go's
stack, and values of any size and depth.  The
assumptions say of what type the constants are and what Go's types make of a document;
none bounds anything.

**The pool.**  `NoPanic` and `ClientsNotShared` are not inductive.  `IInv` adds `LockInv` (who
is inside the lock: a closer past `Lock` has no reader beside it), `FieldInv` (a `Put`
about to send knows the field set; `closed` implies the field nil; at most one closer
holds the duty to close, and only of an open channel) and `HoldInv` (a user has a client
exactly between `Get` and the end of `Put`).  The argument for `NoPanic`: to send, a `Put`
is a reader and saw the field; the field becomes nil only under `Lock`, which excludes
readers; the channel is closed only after that.  From `IInv` follow `TypeCorrect`,
`NeverPanics`, `ClientsNeverShared`, the action property `OnlyDrainsAfterClose`, and
`Refinement`: each step maps to a step of `PoolPromise` or to a stutter under `open <-`
the field is set, `pooled <-` the elements of the buffer, `asked <-` the users between
the test and the receive, `lent <- held`.

**Security.**  `AcceptedForAReason` speaks of the end of a request, so the invariant has to
say what is known half-way: `ProgressInv` (the requirements behind the request were each
refuted, the schemes behind it in the present one passed), `AskInv` (only introspection
goes through lookup, question and comparison, always at an OAuth scheme), `MetaInv` (the
answer in hand was given about this request's token) and `CacheIsGiven`.  A step moves
one request; reasons only accumulate (`given` grows, `lost` is not taken back), so that
`RInv` of the other requests is preserved by the lemma `Frame`, and the moving one by
`PassKeeps` and `FailKeeps`.  `TypeCorrect` includes that no index leaves its slice.

**The process.**  What is about to be forwarded or written is right because of what the
goroutine passed to be where it is: `PassedInv` (denylist, routes, request validation),
`ForwardedInv` (a request that was forwarded passed them all, wherever it is since),
`ResponseInv` (whose answer the response holds at each place, a panic's way out
included).  `PoolInv` says that a client is held exactly between `Get` and `Put`, and
`ShutdownInv` that the pool is closed after the connections.  Besides the run's
invariants: `UsesPoolAsPromised`, each step is a step of `PoolPromise` or none, so that the
pool, which implements it, and the process, which relies on it, fit; from it
`ClientsHeldAlone`; and `NoRequestRefused`: while there are connections the pool is open,
hence the handler's branch for a closed pool is never taken.

**The start.**  `Met(n)` is the number of entries in the first `n` lines, a cardinality.
`ScanInv` says that both scans have met exactly those of the lines behind them, `LoadedInv`
that the two agree in the end.  Beyond the run: `NoServiceWithoutDenylist` and
`OnlyKnownPanics` turn the two findings about the denylist into statements about every
configuration: there is no service without a denylist entry, and no other panic.

**The schemas.**  A visit depends on the visits below it, so `VisitCalls` must first be shown to
be what its definition says at every call.  `CallWeight` gives each call a number: the depth
of its value first, then how many schemas do not yet wait for it.  A member of the value
weighs less by its depth, an operand of `allOf` and the like by the schema it adds to those
that wait, and so recursion is well-founded (`VisitUnfolds`, and in the same way
`ConformUnfolds`, `EmptyUnfolds`, `ValidUnfolds`), cyclic schemas included.  Outcomes are sets,
since Go's maps have no order, and three facts are carried through every operator that
combines them (`Then`, `InOrder`, `AnyOrder`, `LastWins`, `OneOf`, `AnyOf`): `Decides(O, b)`,
there is an outcome and each that is no death is nil exactly if `b`; `AmongThose(O, P)`, the
errors of one mode are among those of another; `Fit`, each error points into the value.  Then
each keyword is compared with what `Conformance` says of it, and induction over calls
(`CallsDecide`, `CallsAmong`, `CallsFit`) puts the whole visit together.  From it
`VisitsDecide`, `FastVisitsDecide`, `SingleErrorsAreAmongAll`, `PointersLeadInside` and
`DeathsHaveReasons`.  The last follows a second line: `IsEmpty` goes round for ever only among
schemas without keywords (`EmptinessDeath`), and an operand meets a schema that waits only where
operands lead back.  `LoadsDecide` is an argument about sets: the schemas that are sound
but for those still being checked are the greatest such set (`ValidExactly`), so that a cycle does not hide a
flaw from `Validate`.  It excludes `oneOf` because the first item of
one that is valid ends the check of the whole schema.

**The call of a validator.**  What is right about a call is right because of every verdict behind it:
`ProgressInv` says that each parameter before the index was found good or reported, as long
as no error ended the call early; the parameters of the path item that an operation's override are the exception.
From it `NothingSkipped`, `NothingInvented`, and `Lifted`: `PassedParametersConform`,
`FailedParametersDoNot` and `BodiesAreJudged` hold of a call if they hold of each verdict
alone, which is why one parameter at a time is enough in the run.  Proving `TypeOK` showed the
model's first version of it to be wrong: after the loop over a path item's parameters the index is
left beyond that list, and may then be beyond the operation's.

**The loader.**  A recursive function is on the stack at several places, and the values
change while they are read.  So the invariant speaks of the frames from the outermost
(`Frame(i)`, which no call renumbers): who called whom for what (`Shape`), what it holds
(`Held`), what is behind it (`WalkOK`).  "Where the `$ref`s from `n` end" is said without a path: `EndsAt`,
what is in every set that is closed under following them.  It is enough that values only
grow (`Later`): a fragment that led somewhere leads there still (`NothingIsTakenBack`), hence
`EndsAt` is stable.  That a loaded document is resolved is the argument of a garbage
collector: a visited value is `Black`, all below it is visited, or `Grey`, some call is at it; when
the stack is empty nothing is grey.

**What references mean.**  `Closure` ends within as many rounds as there are elements
(`ClosureFacts`), so that `Means` is a least fixed point; what a component has is what it
means (`Agreed`), what is visited is `Reached` (`Visits`) and a refusal has a reason (`Refusals`).
These three and `CyclesOpen` with the loader's invariant make `RInv`, from which
`RefusalsExplained`, `CyclesNeverLoad` and the refinement `MeaningKept` follow.  `CyclesOpen`
says that nothing which leads into a circle of aliases ever gets a value: a copy of an alias
would have to return from a value whose resolution is not done, and an alias among the
components is met from the document itself only while nothing of the circle is visited.
The second argument fails for an alias inside a value; that such a document is never
loaded either is false, and `SiblingDoc` is the counterexample.  Induction over rounds, fragments and sequences
goes by the least number for which a claim fails (`LeastOne`), since a theorem about induction
cannot be instantiated here.

**How deep the calls get.**  A call is told from the others on the stack by three things: the
component its walk began in, the value it walks through, and the node it is at.  Two calls that agree in them
would have walked from a value back to itself without meeting it among the visited
(`Apart` says they have not): if no copy lies between them, by following references only, which is a
`PureCycle`; otherwise through the copy of an alias, which is an `AliasCycle`.  So without
such cycles the calls have different keys, and there are at most as many as keys, the third power of
the number of nodes, and the first call (`CallsAreBounded`).  `OverflowsExplained` says what this means for
`OverflowsOnAliasCycles`: it holds of every document for which the stack has that much room.
The hypothesis is about the stack: Go's, of a gigabyte, takes some million calls, `MaxDepth`
of the run takes 26, so that only its smallest documents meet the hypothesis. That the others, too,
need far fewer calls than the bound allows is what TLC shows, and nothing is proved of documents of more
than some hundred nodes on Go's stack.  That the calls do return, and not
only stay few, is liveness and is not proved.

**Matching.** `Leads(n, t, a, v)` says that the suffixes of node `n` read the text `t` up
to `a` and take the values `v`, `Precedes` in which order nodes are tried.
`MatchFindsFirst`: what `matchRemaining` returns is the first node with a value that reads
the whole text, for every tree, by induction on the depth below a node. What such a
reading has to do with OpenAPI is said by three more theorems. A template is parsed token
by token, and a constant suffix only grows while plain tokens follow; so a reading by
suffixes is a run by tokens (`RunLeads`, `LeadsRun`), and a run fills the template with
what it took (`WalkFills`, `FillsWalk`): `ReadsWhatIsOf`, the node of a route reads
exactly the requests of its method whose path is of its template. `SpecificFirst`: up to
the first token in which two templates differ they share their node, from there on a node
only `Grows`, and it is the first suffix after that which decides. `FillsBack`: a
variable's name and its value stand at the same place of two sequences (`Took`), so that
the parameters put into the template give the path.

**The process from text to route.** `DInv` is `RInv` until loading ends and afterwards
what is left of it (`Loaded`, `AllResolved`); the tree holds nothing but routes under
their own paths (`TreeOK`), and every operation not on the list any more (`Present`).
`Verdicts` of a valid document imply `Servable`, which gives `AcceptedServed`. The
loader's theorems hold on for the whole process. `MostSpecificFound` puts the matching on
top: every route is in the tree when requests come (`Present`), hence `MatchFindsFirst`
compares the route found with each that fits, and `SpecificFirst` excludes a more specific
one. That templates which share a node overwrite each other does no harm, since they
differ in names, and slashes at the end, alone. `PanicsKnown` needs the same for the case
that nothing is found although the path is, literally, a template (`FindRouteIs`). Where a
server's URL is cut off, what remains is shown to be a path (`RemainingType`); which
server comes first is the model's and the code's order alone. A document with a null
server never gets that far, since `Validate` panics (`ValidServers`); `FindsMostSpecific`
says nothing of a tree to which `AddRoute` was applied (`Intact`).

Model-checked only: liveness (`CloseReturns`, `CallsReturn`, `RequestsAnswered`,
`SignalStops`), which is beyond the prover; the first half of `OverflowsOnAliasCycles` on a stack
that has less room than `CallsAreBounded` asks for; and `PassedParametersConform`,
`FailedParametersDoNot` and `BodiesAreJudged` without the hypothesis of `Lifted`, that is, that
`Decode` takes a text for what `ParameterStyles` writes.  This is about splitting and joining
texts, in nine pairs of delimiters and for every shape of schema: induction over the data, with
assumptions on the tables of spellings (`ParseJSON`, `Spelled`) that only the run's have been checked for.

## 6. Not modelled, and why

* fasthttp, fasthttp/router, ristretto, ccache, the JWT library and the OAuth provider
  are not under `src/`; they are modelled from how the code uses them (`external` in the
  map), as nondeterminism where the code cannot tell.
* How fasthttp and mime/multipart take a request apart: `Validation` starts from the
  parts.  Header names are canonical, a header or cookie that is there and empty is not
  told apart from what `Peek` returns for it, and a reply has the media type fasthttp
  reports.  `ExcludeRequestBody` and the other options are as the handler sets them.
* Log lines, shadow-API reports, header rewriting and the text of errors: no property
  is about them.
* `jsoninfo` is reflection over Go types, without states of interest.
* `web.SignalShutdown` cannot be reached, since `mid.Errors` returns no error; a signal
  it would send is covered by `OsSignal`.
* Loading a second file: `IsExternalRefsAllowed` is never set, so each external reference
  is an error, which is how `RefLoader` has it.  References into extensions (`x-...`),
  which are decoded from JSON on the way, are left out, and so are references into a
  media type without a schema, which `RefLoader` has no place for.
* Building documents in Go, `JSONLookup` (json pointers), `Paths.Find`, `PathFromHost` and regular
  expressions in templates have no caller in the program.
* `validation_handler.go` is followed as far as `Load` and `FindRoute`; what it calls
  afterwards is `Validation`.
