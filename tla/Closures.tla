-------------------------------- MODULE Closures --------------------------------
(***************************************************************************)
(* What a graph walk of the code gathers, whatever the order it walks in:  *)
(* the visits of References and the schemas of Conformance.                *)
(***************************************************************************)
EXTENDS Naturals, FiniteSets

\* `step` adds to a subset of S, from `start` on, until there is nothing to add.
Closure(S, start, step) ==
    LET after[k \in 0..Cardinality(S)] == IF k = 0 THEN start ELSE step[after[k - 1]]
    IN  after[CHOOSE k \in 0..Cardinality(S) : step[after[k]] = after[k]]

\* What is reached from `start`, itself included, when `next` has the successors.
ReachableFrom(next, start) ==
    Closure(DOMAIN next, start, [X \in SUBSET DOMAIN next |-> X \cup UNION {next[n] : n \in X}])

=============================================================================
