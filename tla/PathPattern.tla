------------------------------- MODULE PathPattern -------------------------------
(***************************************************************************)
(* routers/legacy/pathpattern/node.go: the tree of suffixes in which a     *)
(* route is stored under its path and found for the path of a request.     *)
(*                                                                         *)
(* A path is a sequence of tokens: "/", characters, and in a template      *)
(* whole {variables}.  A node of the tree is named by the suffixes that    *)
(* lead to it; a tree maps its nodes to their variables and value.  With   *)
(* the options that are used there are no regular expressions.             *)
(***************************************************************************)
EXTENDS Naturals, Sequences, FiniteSets, SequencesExt

CONSTANTS
    None,         \* no value
    Tokens,       \* what paths consist of
    Variables,    \* the tokens that are variables
    Wildcards,    \* those among them whose name ends with "*"
    OpenBrace     \* a "{" that is not closed

\* for strings.HasSuffix(path, "/") { path = path[:len(path)-1] }
Trimmed(path) == SubSeq(path, 1, Max({0} \cup {k \in DOMAIN path : path[k] # "/"}))

Constant(text) == [kind |-> "constant", pattern |-> text]
Slash          == Constant(<<"/">>)
Variable       == [kind |-> "variable", pattern |-> <<>>]
Everything     == [kind |-> "everything", pattern |-> <<>>]

\* CreateNode's loop, a token at a time: what is between "/" and "{" is one
\* constant, which an open one is the beginning of.
Open(suffixes) == /\ suffixes # <<>>
                  /\ Last(suffixes).kind = "constant" /\ Last(suffixes) # Slash
With(suffixes, token) ==
    CASE token = "/"         -> Append(suffixes, Slash)
      [] token \in Wildcards -> Append(suffixes, Everything)
      [] token \in Variables \ Wildcards -> Append(suffixes, Variable)
      [] OTHER ->
           IF Open(suffixes) THEN Append(Front(suffixes), Constant(Append(Last(suffixes).pattern, token)))
           ELSE Append(suffixes, Constant(<<token>>))

\* The suffixes of the beginnings of a template, and those of all of it.
Parsed(path) ==
    LET upto[k \in 0..Len(path)] == IF k = 0 THEN <<>> ELSE With(upto[k - 1], path[k])
    IN  upto
SuffixesOf(path) == Parsed(Trimmed(path))[Len(Trimmed(path))]

NamesUpto(path) ==
    LET names[k \in 0..Len(path)] ==
            IF k = 0 THEN <<>>
            ELSE IF path[k] \in Variables THEN Append(names[k - 1], path[k]) ELSE names[k - 1]
    IN  names
VariableNames(path) == NamesUpto(path)[Len(path)]

EmptyNode == [names |-> <<>>, value |-> None]
EmptyTree == [n \in {<<>>} |-> EmptyNode]

\* CreateNode: an error for a brace that is not closed, after the nodes
\* before it were made.
Malformed(path) == \E k \in DOMAIN path : path[k] = OpenBrace

\* Node.Add: the nodes that were not there, and the names and the value of
\* the last one, which replace those of a template that led to it before.
Add(tree, path, value) ==
    LET node == SuffixesOf(path)
        with == [n \in DOMAIN tree \cup {SubSeq(node, 1, k) : k \in 0..Len(node)} |->
                    IF n \in DOMAIN tree THEN tree[n] ELSE EmptyNode]
    IN  [with EXCEPT ![node] = [names |-> VariableNames(path), value |-> value]]

-----------------------------------------------------------------------------
(* Matching.                                                                *)

\* strings.IndexByte(remaining, '/'), or its length
SegmentEnd(text, at) ==
    Min({Len(text)} \cup {k - 1 : k \in {j \in (at + 1)..Len(text) : text[j] = "/"}})

\* MUTANT: wildcards and variables are tried before constants.
Less_VariablesFirst(a, b) ==
    LET order == <<"everything", "variable", "constant">>
        rank(suffix) == CHOOSE k \in DOMAIN order : order[k] = suffix.kind
    IN  \/ rank(a) < rank(b)
        \/ rank(a) = rank(b) /\ Len(a.pattern) > Len(b.pattern)

\* SuffixList.Less.  Of two constants the greater one comes first; both can
\* match only if one is the beginning of the other, and then it is the longer.
Less(a, b) ==
    LET order == <<"constant", "variable", "everything">>
        rank(suffix) == CHOOSE k \in DOMAIN order : order[k] = suffix.kind
    IN  \/ rank(a) < rank(b)
        \/ rank(a) = rank(b) /\ Len(a.pattern) > Len(b.pattern)

\* Where a suffix that is tried at a place of the text leaves off; nowhere if
\* it does not match.
Ends(suffix, text, at) ==
    CASE suffix.kind = "everything" -> {Len(text)}
      [] suffix.kind = "variable"   -> {SegmentEnd(text, at)}
      [] OTHER ->
           LET end == at + Len(suffix.pattern)
           IN  IF end <= Len(text) /\ SubSeq(text, at + 1, end) = suffix.pattern THEN {end}
               ELSE IF at = Len(text) /\ suffix = Slash THEN {at}
               ELSE {}

\* What a suffix takes for the value of its variable.
Taken(suffix, text, at, end) ==
    IF suffix.kind = "constant" THEN <<>> ELSE <<SubSeq(text, at + 1, end)>>

SuffixesAt(tree, node) == {Last(n) : n \in {m \in DOMAIN tree : m # <<>> /\ Front(m) = node}}

\* What is found under a suffix, with the value its variable takes in front.
\* What comes after an "everything" is never reached.
Under(tree, found, node, suffix, text, at) ==
    {[node |-> r.node, values |-> Taken(suffix, text, at, Min(Ends(suffix, text, at))) \o r.values] :
        r \in UNION {IF suffix.kind # "everything" THEN found[Append(node, suffix)][end]
                     ELSE IF tree[Append(node, suffix)].value = None THEN {}
                     ELSE {[node |-> Append(node, suffix), values |-> <<>>]} :
                     end \in Ends(suffix, text, at)}}

\* matchRemaining, for each node and place of the text: the node that is found
\* and the values, or nothing.
MatchRemaining(tree, text) ==
    LET found[node \in DOMAIN tree] ==
            [at \in 0..Len(text) |->
                IF at = Len(text) /\ tree[node].value # None THEN {[node |-> node, values |-> <<>>]}
                ELSE LET matching == {x \in SuffixesAt(tree, node) : Under(tree, found, node, x, text, at) # {}}
                     IN  UNION {Under(tree, found, node, x, text, at) :
                                x \in {y \in matching : ~\E z \in matching : Less(z, y)}}]
    IN  found

Match(tree, path) == MatchRemaining(tree, Trimmed(path))[<<>>][0]
=============================================================================
