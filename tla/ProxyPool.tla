------------------------------ MODULE ProxyPool ------------------------------
(***************************************************************************)
(* internal/platform/proxy/chainpool.go, one action per step of a          *)
(* goroutine that another goroutine can observe.  Users run Get and Put    *)
(* (request handlers and the readiness probe), closers run Close (main).   *)
(*                                                                         *)
(* chanPool.reverseProxyChan is read by Get WITHOUT the mutex, twice, and  *)
(* written by Close under it.  That is a data race: the second read may    *)
(* give the value of the first one (one load reused) or the field as it is *)
(* now, and the model allows both.                                         *)
(***************************************************************************)
EXTENDS Naturals, Sequences, FiniteSets

CONSTANTS
  Users,       \* goroutines that call Get and Put
  Closers,     \* goroutines that call Close, once each
  Clients,     \* identities of HTTP clients
  NoClient,    \* "no client" (Go's nil HTTPClient)
  NoCloser,    \* "no goroutine": the write lock is free
  MaxCap,      \* capacity of the channel
  InitialCap   \* clients in the channel when NewChanPool returns

ASSUME PoolAssumption ==
  /\ Users \cap Closers = {}
  /\ NoClient \notin Clients
  /\ NoCloser \notin Closers
  /\ MaxCap \in Nat \ {0}
  /\ InitialCap \in 0 .. MaxCap

VARIABLES
  reverseProxyChan,  \* the field: "chan" refers to the channel, "nil" after Close
  buf,               \* what is buffered in the channel
  closed,            \* close(reverseProxyChan) has been executed
  mutex,             \* the closer that announced Lock, NoCloser if none
  readers,           \* users that hold RLock
  pc,                \* where each goroutine is
  seen,              \* its local copy of the field
  held,              \* held[u]: the client in u's hands
  panicked           \* a channel operation panicked

vars == <<reverseProxyChan, buf, closed, mutex, readers, pc, seen, held, panicked>>
lockVars == <<mutex, readers>>
chanVars == <<reverseProxyChan, buf, closed>>

UserPC == {"idle", "get", "select", "refused", "using", "rlock", "check", "send", "runlock"}
CloserPC == {"idle", "lock", "wait", "take", "unlock", "close", "done"}

TypeOK ==
  /\ reverseProxyChan \in {"chan", "nil"}
  /\ buf \in Seq(Clients) /\ Len(buf) <= MaxCap
  /\ closed \in BOOLEAN
  /\ mutex \in Closers \cup {NoCloser}
  /\ readers \subseteq Users
  /\ pc \in [Users \cup Closers -> UserPC \cup CloserPC]
  /\ \A u \in Users : pc[u] \in UserPC
  /\ \A c \in Closers : pc[c] \in CloserPC
  /\ seen \in [Users \cup Closers -> {"chan", "nil"}]
  /\ held \in [Users -> Clients \cup {NoClient}]
  /\ panicked \in BOOLEAN

Buffered(c) == \E i \in DOMAIN buf : buf[i] = c
Held(c) == \E u \in Users : held[u] = c

\* NewChanPool: an open channel holding InitialCap clients, each one distinct.
Init ==
  /\ reverseProxyChan = "chan"
  /\ buf \in {s \in [1 .. InitialCap -> Clients] :
                \A i, j \in 1 .. InitialCap : s[i] = s[j] => i = j}
  /\ closed = FALSE
  /\ mutex = NoCloser
  /\ readers = {}
  /\ pc = [p \in Users \cup Closers |-> "idle"]
  /\ seen = [p \in Users \cup Closers |-> "nil"]
  /\ held = [u \in Users |-> NoClient]
  /\ panicked = FALSE

Goto(p, from, to) == pc[p] = from /\ pc' = [pc EXCEPT ![p] = to]

-----------------------------------------------------------------------------
(* Get *)

\* MUTANT: Get without its first test.
GetCheck_NoNilTest(u) ==
  /\ Goto(u, "idle", "get")
  /\ UNCHANGED <<chanVars, lockVars, seen, held, panicked>>

\* if p.reverseProxyChan == nil { return nil, errClosed }
GetCheck(u) ==
  /\ IF reverseProxyChan = "nil" THEN Goto(u, "idle", "refused")
                                 ELSE Goto(u, "idle", "get")
  /\ UNCHANGED <<chanVars, lockVars, seen, held, panicked>>

\* The operand of the select's receive: a second read of the field, or the first
\* one (which was "chan") reused.
GetReload(u) ==
  /\ Goto(u, "get", "select")
  /\ \E v \in {"chan", reverseProxyChan} : seen' = [seen EXCEPT ![u] = v]
  /\ UNCHANGED <<chanVars, lockVars, held, panicked>>

\* MUTANT: Get looks at the head of the queue and leaves it there.
GetReceive_Peek(u) ==
  /\ seen[u] = "chan"
  /\ buf # <<>>
  /\ Goto(u, "select", "using")
  /\ held' = [held EXCEPT ![u] = Head(buf)]
  /\ UNCHANGED <<chanVars, lockVars, seen, panicked>>

\* case proxy := <-ch, with a client in the buffer (closed or not).
GetReceive(u) ==
  /\ seen[u] = "chan"
  /\ buf # <<>>
  /\ Goto(u, "select", "using")
  /\ held' = [held EXCEPT ![u] = Head(buf)]
  /\ buf' = Tail(buf)
  /\ UNCHANGED <<reverseProxyChan, closed, lockVars, seen, panicked>>

\* case proxy := <-ch on a closed and drained channel: nil, so errClosed.
GetDrained(u) ==
  /\ seen[u] = "chan"
  /\ buf = <<>>
  /\ closed
  /\ Goto(u, "select", "refused")
  /\ UNCHANGED <<chanVars, lockVars, seen, held, panicked>>

\* default: nothing to receive now, or a nil channel.  factory makes a new client
\* and never fails.
GetDefault(u) ==
  /\ seen[u] = "nil" \/ (buf = <<>> /\ ~closed)
  /\ Goto(u, "select", "using")
  /\ \E c \in Clients : /\ ~Buffered(c)
                        /\ ~Held(c)
                        /\ held' = [held EXCEPT ![u] = c]
  /\ UNCHANGED <<chanVars, lockVars, seen, panicked>>

\* The caller has dealt with the error.
GetFailed(u) ==
  /\ Goto(u, "refused", "idle")
  /\ UNCHANGED <<chanVars, lockVars, seen, held, panicked>>

-----------------------------------------------------------------------------
(* Put *)

\* The user is done with its client (never nil here: both callers test it).
PutCall(u) ==
  /\ Goto(u, "using", "rlock")
  /\ UNCHANGED <<chanVars, lockVars, seen, held, panicked>>

\* MUTANT: Put without the read lock.
PutRLock_NoLock(u) ==
  /\ Goto(u, "rlock", "check")
  /\ UNCHANGED <<chanVars, lockVars, seen, held, panicked>>

\* RLock: a writer that announced itself keeps new readers out.
PutRLock(u) ==
  /\ mutex = NoCloser
  /\ Goto(u, "rlock", "check")
  /\ readers' = readers \cup {u}
  /\ UNCHANGED <<chanVars, mutex, seen, held, panicked>>

\* MUTANT: Put trusts that the pool is open.
PutCheck_NoNilTest(u) ==
  /\ Goto(u, "check", "send")
  /\ UNCHANGED <<chanVars, lockVars, seen, held, panicked>>

\* MUTANT: RUnlock at the end of Put instead of a defer: the early return skips it.
PutCheck_NoDefer(u) ==
  /\ \/ /\ reverseProxyChan = "nil"
        /\ Goto(u, "check", "idle")
        /\ held' = [held EXCEPT ![u] = NoClient]
     \/ /\ reverseProxyChan = "chan"
        /\ Goto(u, "check", "send")
        /\ UNCHANGED held
  /\ UNCHANGED <<chanVars, lockVars, seen, panicked>>

\* if p.reverseProxyChan == nil { return nil }: the client is dropped.
PutCheck(u) ==
  /\ \/ /\ reverseProxyChan = "nil"
        /\ Goto(u, "check", "runlock")
        /\ held' = [held EXCEPT ![u] = NoClient]
     \/ /\ reverseProxyChan = "chan"
        /\ Goto(u, "check", "send")
        /\ UNCHANGED held
  /\ UNCHANGED <<chanVars, lockVars, seen, panicked>>

\* MUTANT: a channel one longer than maxCap.
PutSend_OneMore(u) ==
  /\ Goto(u, "send", "runlock")
  /\ held' = [held EXCEPT ![u] = NoClient]
  /\ \/ closed /\ panicked' = TRUE /\ UNCHANGED buf
     \/ ~closed /\ Len(buf) <= MaxCap /\ buf' = Append(buf, held[u]) /\ UNCHANGED panicked
     \/ ~closed /\ Len(buf) > MaxCap /\ UNCHANGED <<buf, panicked>>
  /\ UNCHANGED <<reverseProxyChan, closed, lockVars, seen>>

\* select { case ch <- proxy: default: }.  Sending on a closed channel panics even
\* inside a select with a default.
PutSend(u) ==
  /\ Goto(u, "send", "runlock")
  /\ held' = [held EXCEPT ![u] = NoClient]
  /\ \/ closed /\ panicked' = TRUE /\ UNCHANGED buf
     \/ ~closed /\ Len(buf) < MaxCap /\ buf' = Append(buf, held[u]) /\ UNCHANGED panicked
     \/ ~closed /\ Len(buf) = MaxCap /\ UNCHANGED <<buf, panicked>>
  /\ UNCHANGED <<reverseProxyChan, closed, lockVars, seen>>

\* defer p.mutex.RUnlock()
PutRUnlock(u) ==
  /\ Goto(u, "runlock", "idle")
  /\ readers' = readers \ {u}
  /\ UNCHANGED <<chanVars, mutex, seen, held, panicked>>

-----------------------------------------------------------------------------
(* Close *)

CloseCall(c) ==
  /\ Goto(c, "idle", "lock")
  /\ UNCHANGED <<chanVars, lockVars, seen, held, panicked>>

\* Lock, first half: exclude other writers, turn new readers away.
CloseAnnounce(c) ==
  /\ mutex = NoCloser
  /\ Goto(c, "lock", "wait")
  /\ mutex' = c
  /\ UNCHANGED <<chanVars, readers, seen, held, panicked>>

\* Lock, second half: the readers that were in have left.
CloseLock(c) ==
  /\ readers = {}
  /\ Goto(c, "wait", "take")
  /\ UNCHANGED <<chanVars, lockVars, seen, held, panicked>>

CloseTake(c) ==
  /\ Goto(c, "take", "unlock")
  /\ seen' = [seen EXCEPT ![c] = reverseProxyChan]
  /\ reverseProxyChan' = "nil"
  /\ UNCHANGED <<buf, closed, lockVars, held, panicked>>

\* MUTANT: Close keeps the lock.
CloseUnlock_Forgotten(c) ==
  /\ Goto(c, "unlock", "close")
  /\ UNCHANGED <<chanVars, lockVars, seen, held, panicked>>

CloseUnlock(c) ==
  /\ Goto(c, "unlock", "close")
  /\ mutex' = NoCloser
  /\ UNCHANGED <<chanVars, readers, seen, held, panicked>>

\* if reverseProxyChan == nil { return }; close(reverseProxyChan)
CloseChan(c) ==
  /\ Goto(c, "close", "done")
  /\ \/ seen[c] = "nil" /\ UNCHANGED <<closed, panicked>>
     \/ seen[c] = "chan" /\ ~closed /\ closed' = TRUE /\ UNCHANGED panicked
     \/ seen[c] = "chan" /\ closed /\ panicked' = TRUE /\ UNCHANGED closed
  /\ UNCHANGED <<reverseProxyChan, buf, lockVars, seen, held>>

-----------------------------------------------------------------------------

\* The steps a goroutine takes inside the pool's code, once it has called it.
UserStep(u) ==
  \/ GetReload(u) \/ GetReceive(u) \/ GetDrained(u) \/ GetDefault(u) \/ GetFailed(u)
  \/ PutRLock(u) \/ PutCheck(u) \/ PutSend(u) \/ PutRUnlock(u)

CloserStep(c) ==
  CloseAnnounce(c) \/ CloseLock(c) \/ CloseTake(c) \/ CloseUnlock(c) \/ CloseChan(c)

Next ==
  \/ \E u \in Users : GetCheck(u) \/ PutCall(u) \/ UserStep(u)
  \/ \E c \in Closers : CloseCall(c) \/ CloserStep(c)

\* Go's scheduler runs every goroutine that can run; nobody is obliged to call.
Fairness ==
  /\ \A u \in Users : WF_vars(UserStep(u))
  /\ \A c \in Closers : WF_vars(CloserStep(c))

Spec == Init /\ [][Next]_vars
FairSpec == Spec /\ Fairness

-----------------------------------------------------------------------------
(* Safety *)

\* No goroutine ever sends on a closed channel or closes it twice: Put holds RLock
\* over its test and its send, Close swaps the field under Lock and closes later.
NoPanic == ~panicked

\* A client is in one place only: in one user's hands, or once in the channel.
\* fasthttp clients carry a request's connection state while it is being served.
ClientsNotShared ==
  /\ \A u, v \in Users : held[u] # NoClient /\ held[u] = held[v] => u = v
  /\ \A u \in Users : ~Buffered(held[u])
  /\ \A i, j \in DOMAIN buf : buf[i] = buf[j] => i = j

\* Once Close has taken the channel away nothing is put into it any more, not even
\* by a Put that began before; what is in it can only be received.
ClosedPoolOnlyDrains ==
  [][reverseProxyChan = "nil" =>
       buf' = buf \/ (buf # <<>> /\ buf' = Tail(buf))]_vars

\* Every interleaving of these steps is a lending library: see PoolPromise.
Promise == INSTANCE PoolPromise
  WITH open <- reverseProxyChan = "chan",
       pooled <- {buf[i] : i \in DOMAIN buf},
       asked <- {u \in Users : pc[u] \in {"get", "select"}},
       lent <- held

KeepsPromise == Promise!Spec

-----------------------------------------------------------------------------
(* The inductive invariant behind NoPanic and ClientsNotShared *)

\* Who is inside the lock: the readers are in the body of Put, one closer at most is
\* between its Lock and its Unlock, and past Lock there is no reader.
LockInv ==
  /\ \A u \in Users : u \in readers <=> pc[u] \in {"check", "send", "runlock"}
  /\ \A c \in Closers : mutex = c <=> pc[c] \in {"wait", "take", "unlock"}
  /\ \A c \in Closers : pc[c] \in {"take", "unlock"} => readers = {}

\* c took the channel out of the field and has yet to close it.
MustClose(c) == pc[c] \in {"unlock", "close"} /\ seen[c] = "chan"

\* What the field says of the channel: a Put about to send knows it open, and only
\* the one closer that took it will ever close it.
FieldInv ==
  /\ \A u \in Users : pc[u] = "send" => reverseProxyChan = "chan"
  /\ \A u \in Users : pc[u] = "select" /\ seen[u] = "nil" => reverseProxyChan = "nil"
  /\ closed => reverseProxyChan = "nil"
  /\ \A c \in Closers : MustClose(c) => reverseProxyChan = "nil" /\ ~closed
  /\ \A c, d \in Closers : MustClose(c) /\ MustClose(d) => c = d

\* A user holds a client exactly between its Get and the send of its Put.
HoldInv ==
  \A u \in Users : held[u] # NoClient <=> pc[u] \in {"using", "rlock", "check", "send"}

IInv == TypeOK /\ LockInv /\ FieldInv /\ NoPanic /\ HoldInv /\ ClientsNotShared

-----------------------------------------------------------------------------
(* Liveness *)

\* Close comes back although users keep calling: readers that come after its Lock
\* wait, and those that came before leave without waiting for anything.
CloseReturns == \A c \in Closers : pc[c] = "lock" ~> pc[c] = "done"

\* Get and Put come back: the select never blocks, and no closer keeps the lock.
CallsReturn == \A u \in Users : pc[u] \in {"get", "rlock"} ~> pc[u] \in {"idle", "using"}
==============================================================================
