-------------------------------- MODULE Document --------------------------------
(***************************************************************************)
(* From the text of a specification to the route of a request: the loader  *)
(* (RefLoader), doc.Validate (SpecValidate), NewRouter, which puts the     *)
(* operations into the tree of PathPattern one by one, and FindRoute of    *)
(* routers/legacy.  ValidationHandler.Load and validateRequest make these  *)
(* calls in this order; router.NewRouter lists the same operations.        *)
(***************************************************************************)
EXTENDS SpecValidate, SequencesExt

CONSTANTS
    Methods,      \* the methods PathItem has a field for
    Unstarred,    \* each wildcard, to the variable of that name
    Escape,       \* what url.String makes of a brace in a path
    Requests(_),  \* what is asked of a document: sets of [method, host, path]
    AddedRoutes(_) \* what AddRoute may be called with: sets of <<method, path>>

VARIABLES
    tree,         \* Router.pathNode
    todo,         \* the operations NewRouter has not added yet
    answer        \* what FindRoute returned for which request

router    == <<tree, todo, answer>>
docVars   == <<doc, pc, stack, val, visited>>
allVars   == <<docVars, router>>

INSTANCE PathPattern

\* A method, with the blank that FindRoute puts after it, is one token.
Verbs == Tokens \ (Variables \cup {"/"})

\* What can be a value of the tree, whatever the references come to.
Route(method, path, operation) == [method |-> method, path |-> path, operation |-> operation]
AnyRoute(d) == {Route(o[2], t[2], o[3]) : t \in {u \in d.fields[Root] : u[1] = "paths"},
                                          o \in UNION {{u \in d.fields[n] : u[1] = "operations"} : n \in DOMAIN d.fields}}

ASSUME RouterAssumption ==
    /\ Wildcards \subseteq Variables /\ Variables \subseteq Tokens
    /\ "/" \in Tokens \ Variables /\ Escape \in Tokens
    /\ Methods \subseteq Verbs
    /\ \A d \in Documents :
          /\ {None, Nil} \cap AnyRoute(d) = {}
          /\ \A r \in AnyRoute(d) : r.method \in Methods /\ r.path \in Seq(Tokens)
          /\ \A r \in Requests(d) : r.method \in Verbs /\ r.host \in Seq(Tokens) /\ r.path \in Seq(Tokens)
          /\ \A a \in AddedRoutes(d) : a[1] \in Verbs /\ a[2] \in Seq(Tokens)
          /\ DOMAIN d.info[Root].servers = 1..Len(d.info[Root].servers)
          /\ \A k \in DOMAIN d.info[Root].servers :
                d.info[Root].servers[k] # Nil => d.info[Root].servers[k].url \in Seq(Tokens)

\* The path items of Paths; Paths.Validate replaced a nil one by an empty one.
PathItems == {t \in doc.fields[Root] : t[1] = "paths"}

\* The operations, as both NewRouters range over them.
Routes == UNION {{Route(o[2], t[2], o[3]) :
                     o \in IF t[3] = Nil THEN {} ELSE {u \in doc.fields[val[t[3]]] : u[1] = "operations"}} :
                 t \in PathItems}

-----------------------------------------------------------------------------
(* FindRoute.                                                               *)

\* Server.MatchRawURL: the values of the server's variables and what remains;
\* a slash at the end of the pattern is left for the path.
MatchRawURL(pattern, input) ==
    LET last == IF pattern # <<>> /\ pattern[Len(pattern)] = "/" THEN Len(pattern) - 1 ELSE Len(pattern)
        stops(k, at) == {i \in (at + 1)..Len(input) :
                            input[i] = "/" \/ (k < Len(pattern) /\ input[i] = pattern[k + 1])}
        stop(k, at)  == Min({Len(input)} \cup {i - 1 : i \in stops(k, at)})
        step(k, s) ==
            IF pattern[k] \in Variables
            THEN {[at |-> stop(k, s.at), values |-> Append(s.values, SubSeq(input, s.at + 1, stop(k, s.at)))]}
            ELSE IF s.at < Len(input) /\ input[s.at + 1] = pattern[k]
            THEN {[at |-> s.at + 1, values |-> s.values]}
            ELSE {}
        matched[k \in 0..last] ==
            IF k = 0 THEN {[at |-> 0, values |-> <<>>]} ELSE UNION {step(k, s) : s \in matched[k - 1]}
    IN  {[values |-> s.values, remaining |-> IF s.at = Len(input) THEN <<"/">> ELSE SubSeq(input, s.at + 1, Len(input))] :
            s \in {x \in matched[last] : x.at = Len(input) \/ input[x.at + 1] = "/"}}

\* A map of names to values, the last of a name, on top of one that is there.
ParamsOf(names, values, others) ==
    [x \in {names[k] : k \in DOMAIN names} \cup DOMAIN others |->
        IF \E k \in DOMAIN names : names[k] = x
        THEN values[Max({k \in DOMAIN names : names[k] = x})] ELSE others[x]]

\* Servers.MatchURL: the first that matches.  Without servers the path is
\* taken as it was decoded.
Served(request) ==
    LET servers == doc.info[Root].servers
        url     == request.host \o [k \in DOMAIN request.path |->
                                       IF request.path[k] \in Braces THEN Escape ELSE request.path[k]]
        match(k) == MatchRawURL(servers[k].url, url)
        first   == {k \in DOMAIN servers : match(k) # {} /\ \A j \in 1..(k - 1) : match(j) = {}}
    IN  IF servers = <<>> THEN {[params |-> <<>>, remaining |-> request.path]}
        ELSE UNION {{[params |-> ParamsOf(VariableNames(servers[k].url), m.values, <<>>), remaining |-> m.remaining] :
                        m \in match(k)} : k \in first}

Names(node) ==
    [k \in DOMAIN tree[node].names |->
        LET name == tree[node].names[k] IN IF name \in Wildcards THEN Unstarred[name] ELSE name]

Only(S) == CHOOSE x \in S : TRUE

\* Router.FindRoute: "died" for a panic.  A node whose value is no *Route has
\* been added by AddRoute.
FindRoute(request) ==
    LET served    == Served(request)
        remaining == Only(served).remaining
        found     == Match(tree, <<request.method>> \o remaining)
        node      == Only(found).node
        route     == IF found = {} \/ tree[node].value = Nil THEN None ELSE tree[node].value
        literal   == {t \in PathItems : t[2] = remaining}
        methods   == UNION {IF t[3] = Nil THEN {} ELSE Keys(t[3], "operations") : t \in literal}
        params    == ParamsOf(Names(node), Only(found).values, Only(served).params)
        Answer(how) == [request |-> request, how |-> how, remaining |-> remaining,
                        route |-> route, params |-> IF how = "found" THEN params ELSE <<>>]
    IN  IF served = {} THEN [request |-> request, how |-> "path not found", remaining |-> None]
        ELSE IF route = None /\ literal = {} THEN Answer("path not found")
        ELSE IF route = None /\ request.method \notin Methods THEN Answer("died")
        ELSE IF route = None /\ request.method \notin methods THEN Answer("method not allowed")
        ELSE IF found = {} THEN Answer("died")
        ELSE Answer("found")

-----------------------------------------------------------------------------
DocInit == Init /\ tree = EmptyTree /\ todo = {} /\ answer = None

Loading == Load /\ UNCHANGED router

\* doc.Validate at the beginning of NewRouter.
Validate ==
    /\ pc = "loaded"
    /\ \E verdict \in Verdicts :
          /\ pc' = verdict
          /\ todo' = IF verdict = "valid" THEN Routes ELSE {}
    /\ UNCHANGED <<doc, stack, val, visited, tree, answer>>

\* The next operation of NewRouter, in any order.
AddOperation ==
    /\ pc = "valid"
    /\ \E r \in todo :
          IF Malformed(r.path)
          THEN pc' = "unroutable" /\ todo' = {} /\ UNCHANGED tree
          ELSE /\ tree' = Add(tree, <<r.method>> \o r.path, r)
               /\ todo' = todo \ {r}
               /\ UNCHANGED pc
    /\ UNCHANGED <<doc, stack, val, visited, answer>>

RouterReady ==
    /\ pc = "valid" /\ todo = {}
    /\ pc' = "ready"
    /\ UNCHANGED <<doc, stack, val, visited, router>>

\* Router.AddRoute puts the router itself where a route is looked for.
AddRoute ==
    /\ pc = "ready" /\ \A n \in DOMAIN tree : tree[n].value # Nil   \* bound: once
    /\ \E a \in AddedRoutes(doc) : tree' = Add(tree, <<a[1]>> \o a[2], Nil)
    /\ UNCHANGED <<docVars, todo, answer>>

Find ==
    /\ pc = "ready"
    /\ \E request \in Requests(doc) : answer' = FindRoute(request)
    /\ pc' = "answered"
    /\ UNCHANGED <<doc, stack, val, visited, tree, todo>>

Done == pc \notin {"loading", "loaded", "valid", "ready"} /\ UNCHANGED allVars

DocNext == Loading \/ Validate \/ AddOperation \/ RouterReady \/ AddRoute \/ Find \/ Done
DocSpec == DocInit /\ [][DocNext]_allVars
=============================================================================
