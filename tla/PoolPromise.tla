----------------------------- MODULE PoolPromise -----------------------------
(***************************************************************************)
(* What the client pool of internal/platform/proxy/chainpool.go promises   *)
(* the goroutines that use it, with no channel, lock or program counter:   *)
(* a lending library of HTTP clients.  ProxyPool implements it, Firewall   *)
(* is built on it.                                                         *)
(***************************************************************************)
EXTENDS Naturals, FiniteSets

CONSTANTS
  Users,       \* goroutines that call Get and Put
  Clients,     \* identities of HTTP clients (a client nobody refers to may be reused)
  NoClient,    \* "no client", not a member of Clients
  MaxCap,      \* capacity of the pool (NewChanPool's maxCap)
  InitialCap   \* clients put into the pool at the start (NewChanPool's initialCap)

VARIABLES
  open,        \* FALSE once the pool has been closed
  pooled,      \* the clients waiting in the pool
  asked,       \* users inside a Get that found the pool open when it began
  lent         \* lent[u]: the client u borrowed and has not given back

promiseVars == <<open, pooled, asked, lent>>

TypeOK ==
  /\ open \in BOOLEAN
  /\ pooled \subseteq Clients
  /\ asked \subseteq Users
  /\ lent \in [Users -> Clients \cup {NoClient}]

Init ==
  /\ open = TRUE
  /\ pooled \in {S \in SUBSET Clients : Cardinality(S) = InitialCap}
  /\ asked = {}
  /\ lent = [u \in Users |-> NoClient]

Borrowed(c) == \E u \in Users : lent[u] = c

\* A Get begins on an open pool (on a closed one it fails at once, no step).
Ask(u) ==
  /\ open
  /\ u \notin asked
  /\ lent[u] = NoClient
  /\ asked' = asked \cup {u}
  /\ UNCHANGED <<open, pooled, lent>>

\* The Get returns a client nobody else holds.  While the pool is open it makes
\* a new one only when none is waiting.
Lend(u, c) ==
  /\ u \in asked
  /\ ~Borrowed(c)
  /\ c \in pooled \/ pooled = {} \/ ~open
  /\ asked' = asked \ {u}
  /\ pooled' = pooled \ {c}
  /\ lent' = [lent EXCEPT ![u] = c]
  /\ UNCHANGED open

\* The Get returns errClosed: only ever because the pool was closed meanwhile.
Refuse(u) ==
  /\ u \in asked
  /\ ~open
  /\ asked' = asked \ {u}
  /\ UNCHANGED <<open, pooled, lent>>

\* Put: an open pool with room keeps the client, otherwise it is dropped.
GiveBack(u) ==
  /\ lent[u] # NoClient
  /\ lent' = [lent EXCEPT ![u] = NoClient]
  /\ pooled' = IF open /\ Cardinality(pooled) < MaxCap
               THEN pooled \cup {lent[u]} ELSE pooled
  /\ UNCHANGED <<open, asked>>

\* Close.  It empties nothing: clients waiting in the pool stay there.
Shut ==
  /\ open
  /\ open' = FALSE
  /\ UNCHANGED <<pooled, asked, lent>>

Next ==
  \/ \E u \in Users : \/ Ask(u)
                      \/ \E c \in Clients : Lend(u, c)
                      \/ Refuse(u)
                      \/ GiveBack(u)
  \/ Shut

Spec == Init /\ [][Next]_promiseVars
==============================================================================
