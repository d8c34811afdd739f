------------------------------ MODULE SpecValidate ------------------------------
(***************************************************************************)
(* openapi3: Swagger.Validate and the Validate methods it calls, on a      *)
(* document whose references are resolved.                                 *)
(*                                                                         *)
(* doc.info[n] has what is written in node n itself.  A path is a sequence *)
(* of tokens: "/", characters and whole {variables}; an unclosed brace is  *)
(* its last token.                                                         *)
(***************************************************************************)
EXTENDS References

CONSTANTS
    Unnameable,   \* the keys IdentifierRegExp does not match
    Tokens,       \* what paths consist of
    Variables,    \* the tokens that are variables
    Wildcards,    \* those among them whose name ends with "*"
    OpenBrace     \* a "{" that is not closed

Decoders == INSTANCE Serialization

Info(n)        == doc.info[val[n]]
In(n, slot)    == {t[3] : t \in {u \in doc.fields[val[n]] : u[1] = slot}}
Keys(n, slot)  == {t[2] : t \in {u \in doc.fields[val[n]] : u[1] = slot}}
Unresolved(n)  == val[n] = None

\* Schema.validate: what is below a schema counts, once however often it is met.
SchemasBelow(n) == IF Unresolved(n) THEN {} ELSE {t[3] : t \in Walked(n, val[n])}
SchemasFrom(n) ==
    Closure(DOMAIN doc.kind, {n},
            [S \in SUBSET DOMAIN doc.kind |-> S \cup (DOMAIN doc.kind \cap UNION {SchemasBelow(m) : m \in S})])
ValidSchema(n) == \A m \in SchemasFrom(n) : ~Unresolved(m) /\ ~Info(m).broken

ValidContent(n) == \A m \in In(n, "content") \ {Nil} : ValidSchema(m)

\* MUTANT: the style of a header is not looked at.
Supported_AnyHeader(in, sm) ==
    CASE in = "path"   -> sm.style \in {"simple", "label", "matrix"}
      [] in = "query"  -> \/ sm.style \in {"form", "spaceDelimited", "pipeDelimited"}
                          \/ sm.style = "deepObject" /\ sm.explode
      [] in = "header" -> TRUE
      [] in = "cookie" -> sm.style = "form"
      [] OTHER         -> FALSE

\* Parameter.Validate: the locations, and the serializations of each.
Supported(in, sm) ==
    CASE in = "path"   -> sm.style \in {"simple", "label", "matrix"}
      [] in = "query"  -> \/ sm.style \in {"form", "spaceDelimited", "pipeDelimited"}
                          \/ sm.style = "deepObject" /\ sm.explode
      [] in = "header" -> sm.style = "simple"
      [] in = "cookie" -> sm.style = "form"
      [] OTHER         -> FALSE

ValidParameter(n) ==
    /\ ~Unresolved(n)
    /\ Info(n).name # ""
    /\ Supported(Info(n).in, Decoders!MethodOf(Info(n)))
    /\ (In(n, "schema") = {}) # (In(n, "content") = {})
    /\ \A m \in In(n, "schema") : ValidSchema(m)
    /\ ValidContent(n)

\* Parameters.Validate
ValidParameters(S) ==
    /\ \A n \in S : ValidParameter(n)
    /\ \A m, n \in S : m # n => <<Info(m).in, Info(m).name>> # <<Info(n).in, Info(n).name>>

ValidHeader(n)      == ~Unresolved(n) /\ \A m \in In(n, "schema") : ValidSchema(m)
ValidRequestBody(n) == ~Unresolved(n) /\ ValidContent(n)
ValidResponse(n)    == ~Unresolved(n) /\ Info(n).described /\ ValidContent(n)

\* OAuthFlows.Validate: the first flow that is there is the only one looked at.
ValidFlow(kind, flow) ==
    /\ kind \in {"implicit", "authorizationCode"} => flow.authorizationUrl
    /\ kind # "implicit" => flow.tokenUrl
    /\ flow.scopes
FlowOrder == <<"implicit", "password", "clientCredentials", "authorizationCode">>
ValidFlows(flows) ==
    \E k \in DOMAIN FlowOrder :
        /\ FlowOrder[k] \in DOMAIN flows
        /\ \A j \in 1..(k - 1) : FlowOrder[j] \notin DOMAIN flows
        /\ ValidFlow(FlowOrder[k], flows[FlowOrder[k]])

ValidSecurityScheme(n) ==
    LET ss == Info(n)
    IN  /\ ~Unresolved(n)
        /\ CASE ss.type = "apiKey"        -> ss.in \in {"query", "header", "cookie"} /\ ss.name # ""
             [] ss.type = "http"          -> ss.scheme \in {"bearer", "basic", "negotiate", "digest"}
             [] ss.type = "oauth2"        -> ss.flows # None
             [] ss.type = "openIdConnect" -> ss.openIdConnectUrl
             [] OTHER                     -> FALSE
        /\ ss.type # "apiKey" => ss.in = "" /\ ss.name = ""
        /\ ss.bearerFormat => ss.type = "http" /\ ss.scheme = "bearer"
        /\ IF ss.type = "oauth2" THEN ValidFlows(ss.flows) ELSE ss.flows = None

\* Components.Validate: not what is in Examples, Links and Callbacks.
ValidComponents ==
    /\ \A slot \in {"schemas", "parameters", "requestBodies", "responses", "headers", "securitySchemes"} :
          Keys(Root, slot) \cap Unnameable = {}
    /\ \A n \in In(Root, "schemas")         : ValidSchema(n)
    /\ \A n \in In(Root, "parameters")      : ValidParameter(n)
    /\ \A n \in In(Root, "requestBodies")   : ValidRequestBody(n)
    /\ \A n \in In(Root, "responses")       : ValidResponse(n)
    /\ \A n \in In(Root, "headers")         : ValidHeader(n)
    /\ \A n \in In(Root, "securitySchemes") : ValidSecurityScheme(n)

-----------------------------------------------------------------------------
(* Paths.                                                                   *)

Braces == Variables \cup {OpenBrace}

\* normalizeTemplatedPath: the "*" of a variable goes with its name, since cc
\* is only set for what is written.
Normalized(path)  == [k \in DOMAIN path |-> IF path[k] \in Variables THEN "{}" ELSE path[k]]
ParamsCount(path) == Cardinality({k \in DOMAIN path : path[k] \in Braces})

InPath(ns) == {n \in ns : ~Unresolved(n) /\ Info(n).in = "path"}
Ops(item)  == IF item = Nil THEN {} ELSE In(item, "operations")

\* Operation.Validate.  What the path item itself has as parameters is not looked at.
ValidOperation(o) ==
    /\ ValidParameters(In(o, "parameters"))
    /\ \A n \in In(o, "requestBody") : ValidRequestBody(n)
    /\ In(o, "responses") # {}
    /\ \A n \in In(o, "responses") : ValidResponse(n)

ValidPath(path, item) ==
    /\ path # <<>> /\ path[1] = "/"
    /\ \A o \in Ops(item) :
          /\ Cardinality(InPath(In(item, "parameters"))) + Cardinality(InPath(In(o, "parameters")))
                = ParamsCount(path)
          /\ ValidOperation(o)

\* A path conflicts with one met before if that one is its normal form: the
\* names that were met are remembered as they are.
Conflicting(path, met) == path # met /\ Normalized(path) = met

\* Paths.Validate, in any order: the set of what it may return.
PathsVerdicts ==
    LET items == {t \in doc.fields[Root] : t[1] = "paths"}
        fine  == \A t \in items : ValidPath(t[2], t[3])
        conflict == \E t, u \in items : Conflicting(t[2], u[2])
    IN  IF ~fine THEN {"invalid"} ELSE {"valid"} \cup (IF conflict THEN {"invalid"} ELSE {})

-----------------------------------------------------------------------------
(* Servers.  A variable is Nil or [name, ok]: its default and its enum are *)
(* numbers and strings.                                                     *)

\* Server.Validate
ServerVerdicts(server) ==
    IF server = Nil THEN {"panickedValidating"}
    ELSE LET braces == {k \in DOMAIN server.url : server.url[k] \in Variables}
             names  == DOMAIN server.variables
             of(x)  == IF ~\E k \in braces : server.url[k] = x THEN "invalid"
                       ELSE IF server.variables[x] = Nil THEN "panickedValidating"
                       ELSE IF server.variables[x].ok THEN "valid" ELSE "invalid"
             met    == {of(x) : x \in names}
         IN  IF server.url = <<>> THEN {"invalid"}
             ELSE IF \E k \in DOMAIN server.url : server.url[k] = OpenBrace THEN {"invalid"}
             ELSE IF Cardinality(braces) # Cardinality(names) THEN {"invalid"}
             ELSE IF met \subseteq {"valid"} THEN {"valid"} ELSE met \ {"valid"}

\* Servers.Validate: up to the first that is not valid.
ServersVerdicts ==
    LET servers == doc.info[Root].servers
        first   == {k \in DOMAIN servers : /\ ServerVerdicts(servers[k]) # {"valid"}
                                           /\ \A j \in 1..(k - 1) : ServerVerdicts(servers[j]) = {"valid"}}
    IN  IF first = {} THEN {"valid"} ELSE UNION {ServerVerdicts(servers[k]) : k \in first}

\* Info.Validate
ValidInfo ==
    LET info == doc.info[Root].info IN info # Nil /\ info.version /\ info.title /\ info.license

\* Swagger.Validate: the first error of the sections in order is returned.
\* What it may end with.
Verdicts ==
    IF ~(doc.info[Root].openapi /\ ValidComponents /\ ValidInfo /\ doc.info[Root].hasPaths)
    THEN {"invalid"}
    ELSE (PathsVerdicts \ {"valid"}) \cup (IF "valid" \in PathsVerdicts THEN ServersVerdicts ELSE {})
=============================================================================
