-------------------------------- MODULE Resolution --------------------------------
(***************************************************************************)
(* What swagger_loader.go promises about references: every component gets  *)
(* what it means, at once and for good, in whatever order, until all that  *)
(* is needed has it or loading fails.                                      *)
(***************************************************************************)
EXTENDS Naturals

CONSTANT None

VARIABLES
    means,      \* what each component means: itself, or the end of its $ref; None if nothing
    needed,     \* the components that must have a value when loading is over
    value,      \* what each has so far
    status      \* "loading", "loaded" or "failed"

\* What the document says is read, never written: means and needed are its.
vars == <<value, status>>

Init ==
    /\ status = "loading"
    /\ value = [n \in DOMAIN means |-> IF means[n] = n THEN n ELSE None]

Give(n) ==
    /\ status = "loading" /\ UNCHANGED status
    /\ value[n] = None /\ means[n] # None
    /\ value' = [value EXCEPT ![n] = means[n]]

Finish ==
    /\ status = "loading" /\ status' = "loaded"
    /\ \A n \in needed : value[n] # None
    /\ UNCHANGED value

Fail ==
    /\ status = "loading" /\ status' = "failed"
    /\ UNCHANGED value

Next == (\E n \in DOMAIN means : Give(n)) \/ Finish \/ Fail
Spec == Init /\ [][Next]_vars
=============================================================================
