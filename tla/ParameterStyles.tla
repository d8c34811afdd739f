----------------------------- MODULE ParameterStyles -----------------------------
(***************************************************************************)
(* What a client writes for a value, style by style: the serialization     *)
(* OpenAPI 3 describes, which the decoders of Decode are to undo.  A form  *)
(* is a value before it is written: a primitive, a list of primitives or a *)
(* list of named primitives, each a pair of a value and a text that spells *)
(* it.  A client that means a delimiter literally has to encode it, so     *)
(* that the texts written in lists contain none.                          *)
(***************************************************************************)
EXTENDS Decode

CONSTANTS
    Spelled,       \* the primitives: pairs <<value, text>>
    Items,         \* those that are members of lists
    Members,       \* and of objects
    PropertyNames  \* the names of properties

ASSUME ItemsAssumption == Items \cup Members \subseteq Spelled

\* The forms: lists of up to two.
Forms ==
    {[kind |-> "primitive", of |-> <<x>>, keys |-> <<>>] : x \in Spelled} \cup
    {[kind |-> "array", of |-> xs, keys |-> <<>>] :
        xs \in UNION {[1..n -> Items] : n \in 1..2}} \cup
    UNION {{[kind |-> "object", of |-> xs, keys |-> ks] :
                xs \in [1..Len(ks) -> Members]} :
           ks \in {<<k>> : k \in PropertyNames} \cup {ks \in PropertyNames \X PropertyNames : ks[1] # ks[2]}}

Means(f) ==
    CASE f.kind = "primitive" -> f.of[1][1]
      [] f.kind = "array"     -> Arr([i \in DOMAIN f.of |-> f.of[i][1]])
      [] f.kind = "object"    -> Obj([i \in DOMAIN f.of |-> [k |-> f.keys[i], v |-> f.of[i][1]]])

-----------------------------------------------------------------------------
Join(texts, delim) == FoldLeft(LAMBDA a, t : a \o delim \o t, texts[1], Tail(texts))

\* Parts of a list, with each key before its value, joined to it or apart.
Parts(f, glue) ==
    IF f.kind # "object" THEN [i \in DOMAIN f.of |-> f.of[i][2]]
    ELSE [i \in DOMAIN f.of |-> <<f.keys[i]>> \o glue \o f.of[i][2]]

\* The text of a path, header or cookie parameter, None for an empty list.
Written(name, style, explode, f) ==
    LET glue  == IF explode THEN <<"=">> ELSE <<",">>
        first == CASE style = "label"  -> <<".">>
                   [] style = "matrix" -> IF explode /\ f.kind = "object" THEN <<";">>
                                          ELSE <<";", name, "=">>
                   [] OTHER            -> <<>>
        again == IF explode /\ first # <<>> THEN first ELSE <<",">>
    IN  IF f.of = <<>> THEN None ELSE first \o Join(Parts(f, glue), again)

Paired(keys, items) == [i \in DOMAIN items |-> <<keys[i], items[i][2]>>]

\* The pairs of a query parameter.
Queried(name, style, explode, f) ==
    CASE f.kind = "primitive" -> Paired(<<<<name>>>>, f.of)
      [] style = "deepObject" -> Paired([i \in DOMAIN f.keys |-> <<name, "[", f.keys[i], "]">>], f.of)
      [] explode /\ style # "deepObject" /\ f.kind = "object" ->
            Paired([i \in DOMAIN f.keys |-> <<f.keys[i]>>], f.of)
      [] explode /\ style # "deepObject" /\ f.kind = "array" ->
            Paired([i \in DOMAIN f.of |-> <<name>>], f.of)
      [] ~explode /\ style # "deepObject" /\ f.kind # "primitive" ->
            LET delim == CASE style = "spaceDelimited" -> <<" ">>
                           [] style = "pipeDelimited"  -> <<"|">>
                           [] OTHER                    -> <<",">>
            IN  IF f.of = <<>> THEN <<>>
                ELSE <<<<<<name>>, Join(Parts(f, <<",">>), delim)>>>>

\* The tokens that a member of a list must not contain.
Delimiting(sm) ==
    CASE sm.style = "spaceDelimited" -> IF sm.explode THEN {} ELSE {" "}
      [] sm.style = "pipeDelimited"  -> IF sm.explode THEN {} ELSE {"|"}
      [] sm.style \in {"form", "deepObject"} -> IF sm.explode THEN {} ELSE {","}
      [] sm.style = "label"  -> IF sm.explode THEN {"."} ELSE {","}
      [] sm.style = "matrix" -> IF sm.explode THEN {";"} ELSE {","}
      [] OTHER               -> {","}

\* Whether a parameter's style can write a form.
Writes(p, f) ==
    LET sm == MethodOf(p)
        without(tokens) == \A x \in ToSet(f.of) : ToSet(x[2]) \cap tokens = {}
    IN  /\ sm.style = "deepObject" => f.kind = "object"
        /\ sm.style \in {"spaceDelimited", "pipeDelimited"} => f.kind = "array"
        /\ f.kind # "primitive" => without(Delimiting(sm))
        /\ f.kind = "object" /\ sm.explode /\ p.in # "query" => without({"="})
=============================================================================
