--------------------------------- MODULE Answers ---------------------------------
(***************************************************************************)
(* What a specification that was accepted promises to the requests: which  *)
(* template a path belongs to, said without the tree.                      *)
(***************************************************************************)
EXTENDS Document

Texts(text) == {SubSeq(text, j, k) : j \in 1..(Len(text) + 1), k \in 0..Len(text)}

\* The beginnings of a template whose variables are replaced by values, each
\* by the value for its place.
Blanks(path) == {k \in DOMAIN path : path[k] \in Variables}
Filling(path, values) ==
    LET text[k \in 0..Len(path)] ==
            IF k = 0 THEN <<>> ELSE text[k - 1] \o (IF k \in Blanks(path) THEN values[k] ELSE <<path[k]>>)
    IN  text
Filled(path, values) == Filling(path, values)[Len(path)]

\* A text is of a template if it is the template filled, but for slashes at
\* the end; a variable stands for the rest of a segment, a wildcard, which
\* comes last, for the rest of the text.
Fills(text, path, values) ==
    LET whole == Filled(path, values)
    IN  /\ Trimmed(whole) = Trimmed(text)
        /\ \A k \in Blanks(path) : path[k] \notin Wildcards =>
              LET end == Len(Filling(path, values)[k])
              IN  /\ \A j \in DOMAIN values[k] : values[k][j] # "/"
                  /\ end < Len(whole) => whole[end + 1] = "/"

IsOf(text, path) ==
    LET trimmed == Trimmed(path)
    IN  /\ \A k \in Blanks(trimmed) : trimmed[k] \in Wildcards => k = Len(trimmed)
        /\ \E values \in [Blanks(trimmed) -> Texts(Trimmed(text))] : Fills(text, trimmed, values)

\* The one template says more of a path where they first differ: it ends, or
\* has text for a variable, or a variable for a wildcard.
MoreSpecific(p, q) ==
    LET rank(path, k) == IF k > Len(path) THEN 0
                         ELSE CASE path[k] \in Wildcards             -> 3
                                [] path[k] \in Variables \ Wildcards -> 2
                                [] OTHER                             -> 1
        differ == {k \in 1..(Len(p) + Len(q)) :
                     \/ rank(p, k) # rank(q, k)
                     \/ rank(p, k) = 1 /\ p[k] # q[k]}
    IN  differ # {} /\ rank(p, Min(differ)) < rank(q, Min(differ))

\* Nothing but the routes of the document is in the tree.
Intact == \A n \in DOMAIN tree : tree[n].value # Nil

-----------------------------------------------------------------------------
\* Whatever order the operations were added in, a request gets the operation
\* of its method whose path it is of, and of no path that is less specific
\* than another it is of; with the returned parameters, that path becomes
\* the path that was asked for.  A request that gets none is of no path with
\* an operation of its method.  Of paths that differ only in the names of
\* their variables, or in slashes at the end, the one added last is found.
FindsMostSpecific ==
    pc = "answered" /\ Intact /\ answer.remaining # None =>
        LET fitting == {r \in Routes : /\ r.method = answer.request.method
                                       /\ IsOf(answer.remaining, r.path)}
            path    == answer.route.path
            plain(x) == IF x \in Wildcards THEN Unstarred[x] ELSE x
        IN  /\ answer.how = "found" =>
                  /\ answer.route \in fitting
                  /\ ~\E r \in fitting : MoreSpecific(Trimmed(r.path), Trimmed(path))
                  /\ (\A j, k \in Blanks(path) : j # k => plain(path[j]) # plain(path[k])) =>
                        Trimmed(Filled(path, [k \in Blanks(path) |-> answer.params[plain(path[k])]]))
                            = Trimmed(answer.remaining)
            /\ answer.how # "found" => fitting = {}

\* Operations are served only from a document in which every parameter of
\* theirs can be decoded (decodeStyledParameter finds a decoder for some kind
\* of value) and every reference below them has a value.  What path items
\* have as parameters is not validated.
AcceptedCanBeServed ==
    pc \in {"ready", "answered"} =>
        \A r \in Routes :
            LET below == Walked(r.operation, r.operation)
            IN  /\ \A t \in below : val[t[3]] # None
                /\ \A t \in below : t[1] = "parameters" =>
                      LET p == Info(t[3])
                      IN  \/ In(t[3], "content") # {}
                          \/ \E kind \in {"primitive", "array", "object"} :
                                Decoders!Takes(p.in, Decoders!MethodOf(p), kind)

\* The panics there are: a null media type in a request body or a parameter,
\* a reference to a null, or to a field that is not there, where a component
\* of the kind that is asked for belongs; a null server or variable of one; a
\* request that is literally the path of a template no path is of, or literally
\* a path with a method that PathItem has no field for.  FindRoute returns no
\* route for what AddRoute added alone.
PanicsAreKnown ==
    LET nullMedia(n) == doc.kind[n] \in {"requestBody", "parameter"} /\
                        \E t \in Below(doc, n) : t[1] = "content" /\ t[3] = Nil
        literal      == {t \in PathItems : t[2] = answer.remaining}
    IN  /\ pc = "panicked" => \E n \in Reached(doc) :
              nullMedia(n) \/ (doc.ref[n] # None /\ NilAsked(Target(doc, n), doc.ref[n], doc.kind[n]))
        /\ pc = "panickedValidating" =>
              \E k \in DOMAIN doc.info[Root].servers :
                 LET server == doc.info[Root].servers[k]
                 IN  server = Nil \/ \E x \in DOMAIN server.variables : server.variables[x] = Nil
        /\ pc = "answered" /\ answer.how = "died" =>
              /\ literal # {}
              /\ \/ answer.request.method \notin Methods
                 \/ \E t \in literal : ~IsOf(t[2], t[2])
        /\ pc = "answered" /\ answer.how = "found" /\ answer.route = None => ~Intact

DocTypeOK ==
    /\ TypeOK
    /\ todo \subseteq Routes
    /\ <<>> \in DOMAIN tree
    /\ \A n \in DOMAIN tree :
          /\ tree[n].value \in Routes \cup {None, Nil}
          /\ \A k \in DOMAIN n : n[k].kind \in {"constant", "variable", "everything"}
    /\ answer = None \/ answer.how \in {"found", "path not found", "method not allowed", "died"}
=============================================================================
