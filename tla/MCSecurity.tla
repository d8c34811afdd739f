------------------------------ MODULE MCSecurity ------------------------------
\* Two requests and two tokens: both requests may carry the same one.
EXTENDS Security, TLC

CONSTANTS r1, r2, t1, t2, read, write, key

MCRequests == {r1, r2}
MCTokens == {t1, t2}
MCGrants == {NoScope, {read}}
Symmetric == Permutations(MCRequests) \cup Permutations(MCTokens)
Presence == [type |-> "presence", name |-> key]
Unchecked == [type |-> "unchecked"]
Undeclared == [type |-> "undeclared"]
OAuth(s) == [type |-> "oauth", scopes |-> s]

\* A key and a scope, or else digest and two scopes; a name nobody declared, or any
\* token; nothing; and what the document says.
MCOperations ==
  { << <<Presence, OAuth({read})>>, <<Unchecked, OAuth({read, write})>> >>,
    << <<Undeclared>>, <<OAuth({})>> >>,
    <<>>,
    Unset }
MCGlobal == << <<OAuth({read})>> >>
==============================================================================
