--------------------------- MODULE Firewall_proofs ---------------------------
(***************************************************************************)
(* Firewall, for every number of connections, probes and clients, every    *)
(* capacity of the pool and every pair of validation modes: what reaches   *)
(* the backend, what reaches the client, and who holds a pool client when. *)
(***************************************************************************)
EXTENDS Firewall, TLAPS

-----------------------------------------------------------------------------
(* The inductive invariant.  The properties of Firewall speak of a request *)
(* that was forwarded and of a response about to be written; what makes    *)
(* them true is what a goroutine must have passed to be where it is.       *)

Routed(c) == InSpec(c) \/ "BLOCK" \notin {cfg.req, cfg.resp}
Valid(c) == cfg.req = "BLOCK" => kind[c] # "bad"
Releasable(c) == cfg.resp = "BLOCK" => reply[c] = "conforming"

\* The places of openapiWafHandler, its deferred Put and a panic's way out of it.
InHandler == {"get", "validate", "do", "wait", "check", "put", "recover"}

\* The checks a request is past.
PassedInv(c) ==
  /\ pc[c] \in {"denylist", "after"} \cup InHandler => Routed(c)
  /\ pc[c] \in InHandler => ~Denied(c)
  /\ pc[c] \in {"do", "wait", "check"} => Valid(c)

\* A forwarded request was past all of them; a reply is awaited for no other.
ForwardedInv(c) ==
  /\ forwarded[c] => /\ pc[c] \in {"wait", "check", "put", "recover", "after", "respond"}
                     /\ ~Denied(c) /\ Routed(c) /\ Valid(c)
  /\ pc[c] = "wait" => forwarded[c]

\* What ctx.Response may hold on the way out of the handler.
ResponseInv(c) ==
  /\ hop[c] => pc[c] \in {"check", "put", "recover", "after"}
  /\ panicking[c] => pc[c] \in {"put", "recover"}
  /\ pc[c] = "check" => answer[c] = "backend"
  /\ pc[c] = "put" => panicking[c] \/ answer[c] # "none"
  /\ pc[c] \in {"after", "respond"} => answer[c] # "none"
  /\ answer[c] = "backend" =>
       /\ forwarded[c]
       /\ pc[c] \in {"after", "respond"} \/ (pc[c] = "put" /\ ~panicking[c]) => Releasable(c)

ConnInv(c) == PassedInv(c) /\ ForwardedInv(c) /\ ResponseInv(c)

\* Only who is inside Get has asked; a client is held between Get and Put, nowhere
\* else; no client is in two hands, nor in a hand and in the pool.
Holding == {"validate", "do", "wait", "check", "put"}

ClientsNotShared ==
  \A u, v \in Conns \cup Probes : lent[u] = lent[v] /\ lent[u] # NoClient => u = v

PoolInv ==
  /\ \A u \in Conns \cup Probes : u \in asked => pc[u] = "get"
  /\ \A u \in Conns \cup Probes : lent[u] # NoClient <=> pc[u] \in Holding
  /\ ClientsNotShared
  /\ \A u \in Conns \cup Probes : lent[u] \notin pooled

\* Shutdown has seen every connection closed before the pool is.
ShutdownInv ==
  /\ main \in {"closing", "closed", "exited"} => \A c \in Conns : pc[c] = "closed"
  /\ ~open <=> main \in {"closed", "exited"}
  /\ \A p \in Probes : verdict[p] = "not ready" => ~open

IInv ==
  /\ TypeOK
  /\ \A c \in Conns : ConnInv(c)
  /\ PoolInv
  /\ ShutdownInv

-----------------------------------------------------------------------------
(* Initially *)

\* Before the first connection nothing is open, asked for, lent or answered.
LEMMA InitIInv == Init => IInv
<1> SUFFICES ASSUME Init PROVE IInv
  OBVIOUS
<1> USE FirewallAssumption DEF Init
<1>1. TypeOK
  BY DEF TypeOK, ConnPC, ProbePC, MainPC, Kinds, Answers, Pool!Init, Pool!TypeOK
<1>2. ASSUME NEW c \in Conns PROVE ConnInv(c)
  BY DEF ConnInv, PassedInv, ForwardedInv, ResponseInv, InHandler
<1>3. PoolInv
  BY DEF PoolInv, ClientsNotShared, Holding, Pool!Init
<1>4. ShutdownInv
  BY DEF ShutdownInv, Pool!Init
<1> QED BY <1>1, <1>2, <1>3, <1>4 DEF IInv

-----------------------------------------------------------------------------
(* Type correctness *)

USE DEF mainVars, poolVars, ctxVars, restVars

PlacesOK ==
  /\ pc \in [Conns \cup Probes -> ConnPC \cup ProbePC]
  /\ \A c \in Conns : pc[c] \in ConnPC
  /\ \A p \in Probes : pc[p] \in ProbePC

\* A goroutine that moves is in a place of its own kind, and nobody else moves.
LEMMA GotoPlaces ==
  ASSUME PlacesOK, NEW c \in Conns \cup Probes, NEW a, NEW b, Goto(c, a, b),
         c \in Conns => b \in ConnPC, c \in Probes => b \in ProbePC
  PROVE  PlacesOK'
<1>1. pc' = [pc EXCEPT ![c] = b] /\ b \in ConnPC \cup ProbePC
  BY DEF Goto
<1>2. pc' \in [Conns \cup Probes -> ConnPC \cup ProbePC]
  BY <1>1 DEF PlacesOK
<1>3. \A d \in Conns \cup Probes : pc'[d] = IF d = c THEN b ELSE pc[d]
  BY <1>1 DEF PlacesOK
<1> QED BY <1>2, <1>3 DEF PlacesOK

\* A connection or a probe that moves to a place named in the code.
LEMMA ConnMoves ==
  ASSUME TypeOK, NEW c \in Conns, NEW a, NEW b \in ConnPC, Goto(c, a, b)
  PROVE  PlacesOK'
BY GotoPlaces, FirewallAssumption DEF TypeOK, PlacesOK

LEMMA ProbeMoves ==
  ASSUME TypeOK, NEW c \in Probes, NEW a, NEW b \in ProbePC, Goto(c, a, b)
  PROVE  PlacesOK'
BY GotoPlaces, FirewallAssumption DEF TypeOK, PlacesOK

\* What ctx.Error and web.RespondError leave in the response.
LEMMA ErrorWritten ==
  ASSUME TypeOK, NEW c \in Conns, NEW status \in Answers, RespondError(c, status)
  PROVE  answer' \in [Conns -> Answers] /\ hop' \in [Conns -> BOOLEAN]
BY DEF TypeOK, RespondError

\* What the pool's operations leave of its state, from PoolPromise.
LEMMA PoolTypes ==
  ASSUME Pool!TypeOK, NEW u \in Conns \cup Probes,
         \/ Pool!Ask(u) \/ (\E k \in Clients : Pool!Lend(u, k)) \/ Pool!Refuse(u)
         \/ Pool!GiveBack(u) \/ Pool!Shut \/ UNCHANGED poolVars
  PROVE  Pool!TypeOK'
<1> USE DEF Pool!TypeOK
<1>1. CASE Pool!Ask(u) \/ Pool!Refuse(u) \/ Pool!Shut \/ UNCHANGED poolVars
  BY <1>1 DEF Pool!Ask, Pool!Refuse, Pool!Shut
<1>2. CASE \E k \in Clients : Pool!Lend(u, k)
  BY <1>2 DEF Pool!Lend
<1>3. CASE Pool!GiveBack(u)
  BY <1>3 DEF Pool!GiveBack
<1> QED BY <1>1, <1>2, <1>3

\* The steps of a connection.
LEMMA ConnTypes ==
  ASSUME TypeOK, NEW c \in Conns, Accept(c) \/ Arrive(c) \/ ConnStep(c)
  PROVE  TypeOK'
<1> USE DEF TypeOK
<1> DEFINE Rest ==
      /\ cfg' = cfg /\ main' = main /\ sig' = sig /\ serverErrors' = serverErrors
      /\ kind' \in [Conns -> Kinds]
      /\ forwarded' \in [Conns -> BOOLEAN]
      /\ reply' \in [Conns -> {"none", "conforming", "nonconforming"}]
      /\ answer' \in [Conns -> Answers]
      /\ hop' \in [Conns -> BOOLEAN]
      /\ panicking' \in [Conns -> BOOLEAN]
      /\ verdict' = verdict
<1>1. CASE Accept(c)
  <2>1. PlacesOK'
    BY <1>1, ConnMoves DEF Accept, ConnPC
  <2> QED BY <1>1, <2>1, PoolTypes DEF Accept, PlacesOK
<1>2. CASE Arrive(c)
  <2>1. PlacesOK'
    BY <1>2, ConnMoves DEF Arrive, ConnPC
  <2>2. Rest
    BY <1>2 DEF Arrive
  <2>3. Pool!TypeOK'
    BY <1>2, PoolTypes DEF Arrive
  <2> QED BY <2>1, <2>2, <2>3 DEF PlacesOK
<1>3. CASE IdleClose(c)
  <2>1. PlacesOK'
    BY <1>3, ConnMoves DEF IdleClose, ConnPC
  <2>2. Rest
    BY <1>3 DEF IdleClose
  <2>3. Pool!TypeOK'
    BY <1>3, PoolTypes DEF IdleClose
  <2> QED BY <2>1, <2>2, <2>3 DEF PlacesOK
<1>4. CASE Respond(c)
  <2>1. PlacesOK'
    BY <1>4, ConnMoves DEF Respond, ConnPC
  <2>2. Rest
    BY <1>4 DEF Respond, Kinds, Answers
  <2>3. Pool!TypeOK'
    BY <1>4, PoolTypes DEF Respond
  <2> QED BY <2>1, <2>2, <2>3 DEF PlacesOK
<1>5. CASE Route(c)
  <2>1. PlacesOK'
    BY <1>5, ConnMoves DEF Route, ConnPC
  <2>2. Rest
    BY <1>5, ErrorWritten DEF Route, Answers
  <2>3. Pool!TypeOK'
    BY <1>5, PoolTypes DEF Route
  <2> QED BY <2>1, <2>2, <2>3 DEF PlacesOK
<1>6. CASE Denylist(c)
  <2>1. PlacesOK'
    BY <1>6, ConnMoves DEF Denylist, ConnPC
  <2>2. Rest
    BY <1>6, ErrorWritten DEF Denylist, Answers
  <2>3. Pool!TypeOK'
    BY <1>6, PoolTypes DEF Denylist
  <2> QED BY <2>1, <2>2, <2>3 DEF PlacesOK
<1>7. CASE GetBegin(c)
  <2>1. Pool!TypeOK'
    BY <1>7, PoolTypes DEF GetBegin
  <2> QED BY <1>7, <2>1 DEF GetBegin
<1>8. CASE GetReturn(c)
  <2>1. PlacesOK'
    BY <1>8, ConnMoves DEF GetReturn, ConnPC
  <2>2. Rest
    BY <1>8, ErrorWritten DEF GetReturn, Answers
  <2>3. Pool!TypeOK'
    BY <1>8, PoolTypes DEF GetReturn
  <2> QED BY <2>1, <2>2, <2>3 DEF PlacesOK
<1>9. CASE ValidateRequest(c)
  <2>1. PlacesOK'
    BY <1>9, ConnMoves DEF ValidateRequest, ConnPC
  <2>2. Rest
    BY <1>9, ErrorWritten DEF ValidateRequest, Answers
  <2>3. Pool!TypeOK'
    BY <1>9, PoolTypes DEF ValidateRequest
  <2> QED BY <2>1, <2>2, <2>3 DEF PlacesOK
<1>10. CASE DoSend(c)
  <2>1. PlacesOK'
    BY <1>10, ConnMoves DEF DoSend, ConnPC
  <2>2. Rest
    BY <1>10 DEF DoSend
  <2>3. Pool!TypeOK'
    BY <1>10, PoolTypes DEF DoSend
  <2> QED BY <2>1, <2>2, <2>3 DEF PlacesOK
<1>11. CASE DoReply(c)
  <2>1. PlacesOK'
    BY <1>11, ConnMoves DEF DoReply, ConnPC
  <2>2. Rest
    BY <1>11 DEF DoReply, Answers
  <2>3. Pool!TypeOK'
    BY <1>11, PoolTypes DEF DoReply
  <2> QED BY <2>1, <2>2, <2>3 DEF PlacesOK
<1>12. CASE DoError(c)
  <2>1. PlacesOK'
    BY <1>12, ConnMoves DEF DoError, ConnPC
  <2>2. Rest
    BY <1>12, ErrorWritten DEF DoError, Answers
  <2>3. Pool!TypeOK'
    BY <1>12, PoolTypes DEF DoError
  <2> QED BY <2>1, <2>2, <2>3 DEF PlacesOK
<1>13. CASE ValidateResponse(c)
  <2>1. PlacesOK'
    BY <1>13, ConnMoves DEF ValidateResponse, ConnPC
  <2>2. Rest
    BY <1>13, ErrorWritten DEF ValidateResponse, Answers
  <2>3. Pool!TypeOK'
    BY <1>13, PoolTypes DEF ValidateResponse
  <2> QED BY <2>1, <2>2, <2>3 DEF PlacesOK
<1>14. CASE PutBack(c)
  <2>1. PlacesOK'
    BY <1>14, ConnMoves DEF PutBack, ConnPC
  <2>2. Rest
    BY <1>14 DEF PutBack
  <2>3. Pool!TypeOK'
    BY <1>14, PoolTypes DEF PutBack
  <2> QED BY <2>1, <2>2, <2>3 DEF PlacesOK
<1>15. CASE Recover(c)
  <2>1. PlacesOK'
    BY <1>15, ConnMoves DEF Recover, ConnPC
  <2>2. Rest
    BY <1>15, ErrorWritten DEF Recover, Answers
  <2>3. Pool!TypeOK'
    BY <1>15, PoolTypes DEF Recover
  <2> QED BY <2>1, <2>2, <2>3 DEF PlacesOK
<1>16. CASE ProxyAfter(c)
  <2>1. PlacesOK'
    BY <1>16, ConnMoves DEF ProxyAfter, ConnPC
  <2>2. Rest
    BY <1>16 DEF ProxyAfter
  <2>3. Pool!TypeOK'
    BY <1>16, PoolTypes DEF ProxyAfter
  <2> QED BY <2>1, <2>2, <2>3 DEF PlacesOK
<1> QED
  BY <1>1, <1>2, <1>3, <1>4, <1>5, <1>6, <1>7, <1>8, <1>9, <1>10, <1>11, <1>12, <1>13, <1>14, <1>15, <1>16
  DEF ConnStep

\* The steps of a probe.
LEMMA ProbeTypes ==
  ASSUME TypeOK, NEW p \in Probes,
         ProbeBegin(p) \/ ProbeGot(p) \/ ProbeRefused(p) \/ ProbePut(p) \/ ProbeRespond(p)
  PROVE  TypeOK'
<1> USE DEF ProbeBegin, ProbeGot, ProbeRefused, ProbePut, ProbeRespond
<1>1. PlacesOK'
  BY ProbeMoves DEF ProbePC
<1>2. Pool!TypeOK'
  BY PoolTypes DEF TypeOK
<1>3. UNCHANGED <<mainVars, ctxVars>> /\ verdict' \in [Probes -> {"none", "ok", "not ready"}]
  BY DEF TypeOK
<1> QED BY <1>1, <1>2, <1>3 DEF TypeOK, PlacesOK

\* The steps of run() and what happens to it.
LEMMA MainTypes ==
  ASSUME TypeOK, OsSignal \/ ListenerFails \/ MainStopFails \/ MainStep
  PROVE  TypeOK'
<1> USE DEF OsSignal, ListenerFails, MainStopFails, MainStep, MainServerError, MainSignal,
            MainDrained, MainClosePool, MainReturn
<1>1. UNCHANGED <<cfg, restVars>>
  OBVIOUS
<1>2. main' \in MainPC
  BY DEF TypeOK, MainPC
<1>3. sig' \in 0 .. 1 /\ serverErrors' \in 0 .. 1
  <2>1. sig' \in {0, 1, sig} /\ serverErrors' \in {0, 1, serverErrors}
    OBVIOUS
  <2>2. sig \in 0 .. 1 /\ serverErrors \in 0 .. 1
    BY DEF TypeOK
  <2> HIDE DEF OsSignal, ListenerFails, MainStopFails, MainStep
  <2> QED BY <2>1, <2>2
<1>4. Pool!TypeOK'
  <2>1. Pool!Shut \/ UNCHANGED poolVars
    OBVIOUS
  <2> QED BY <2>1 DEF TypeOK, Pool!TypeOK, Pool!Shut
<1> HIDE DEF OsSignal, ListenerFails, MainStopFails, MainStep
<1> QED BY <1>1, <1>2, <1>3, <1>4 DEF TypeOK

\* Every step keeps every variable in its type.
LEMMA TypeOKStep == TypeOK /\ [Next]_vars => TypeOK'
<1> SUFFICES ASSUME TypeOK, [Next]_vars PROVE TypeOK'
  OBVIOUS
<1>1. CASE UNCHANGED vars
  BY <1>1 DEF vars, TypeOK, Pool!TypeOK
<1> QED BY <1>1, ConnTypes, ProbeTypes, MainTypes DEF Next, Terminated

-----------------------------------------------------------------------------
(* What a request is past and what its response holds *)

\* No step changes the configuration, and a step of one goroutine leaves the
\* requests of the others alone.
LEMMA OthersAlone ==
  ASSUME TypeOK, NEW c \in Conns, Accept(c) \/ Arrive(c) \/ ConnStep(c),
         NEW d \in Conns, d # c
  PROVE  /\ cfg' = cfg /\ pc'[d] = pc[d] /\ kind'[d] = kind[d]
         /\ forwarded'[d] = forwarded[d] /\ reply'[d] = reply[d]
         /\ answer'[d] = answer[d] /\ hop'[d] = hop[d] /\ panicking'[d] = panicking[d]
<1> USE DEF Goto, RespondError
<1>1. CASE Accept(c) \/ Arrive(c) \/ IdleClose(c) \/ Respond(c) \/ Route(c) \/ Denylist(c)
  BY <1>1 DEF TypeOK, Accept, Arrive, IdleClose, Respond, Route, Denylist
<1>2. CASE GetBegin(c) \/ GetReturn(c) \/ PutBack(c) \/ Recover(c) \/ ProxyAfter(c)
  BY <1>2 DEF TypeOK, GetBegin, GetReturn, PutBack, Recover, ProxyAfter
<1>3. CASE \/ ValidateRequest(c) \/ DoSend(c) \/ DoReply(c) \/ DoError(c)
           \/ ValidateResponse(c)
  BY <1>3 DEF TypeOK, ValidateRequest, DoSend, DoReply, DoError, ValidateResponse
<1> QED BY <1>1, <1>2, <1>3 DEF ConnStep

LEMMA AloneInv ==
  ASSUME NEW d \in Conns, ConnInv(d),
         cfg' = cfg, pc'[d] = pc[d], kind'[d] = kind[d],
         forwarded'[d] = forwarded[d], reply'[d] = reply[d],
         answer'[d] = answer[d], hop'[d] = hop[d], panicking'[d] = panicking[d]
  PROVE  ConnInv(d)'
BY DEF ConnInv, PassedInv, ForwardedInv, ResponseInv, Routed, Valid, Releasable, InSpec, Denied

LEMMA ConnInvStep ==
  ASSUME TypeOK, NEW c \in Conns, ConnInv(c), Accept(c) \/ Arrive(c) \/ ConnStep(c)
  PROVE  ConnInv(c)'
<1> USE DEF ConnInv, PassedInv, ForwardedInv, ResponseInv, Routed, Valid, Releasable, InSpec,
            Denied, InHandler, Goto, RespondError
<1>1. CASE Accept(c)
  BY <1>1 DEF TypeOK, Accept
<1>2. CASE Arrive(c)
  BY <1>2 DEF TypeOK, Arrive
<1>3. CASE IdleClose(c)
  BY <1>3 DEF TypeOK, IdleClose
<1>4. CASE Respond(c)
  BY <1>4 DEF TypeOK, Respond
<1>5. CASE Route(c)
  BY <1>5 DEF TypeOK, Route
<1>6. CASE Denylist(c)
  BY <1>6 DEF TypeOK, Denylist
<1>7. CASE GetBegin(c)
  BY <1>7 DEF TypeOK, GetBegin
<1>8. CASE GetReturn(c)
  BY <1>8 DEF TypeOK, GetReturn, PassThrough
<1>9. CASE ValidateRequest(c)
  BY <1>9 DEF TypeOK, ValidateRequest
<1>10. CASE DoSend(c)
  BY <1>10 DEF TypeOK, DoSend
<1>11. CASE DoReply(c)
  <2>1. /\ pc[c] = "wait" /\ pc'[c] = IF PassThrough(c) THEN "put" ELSE "check"
        /\ answer'[c] = "backend"
        /\ UNCHANGED <<cfg, kind, forwarded, panicking>>
    BY <1>11 DEF TypeOK, DoReply
  <2>2. PassThrough(c) => cfg.resp # "BLOCK"
    BY <2>1 DEF PassThrough
  <2> QED BY <2>1, <2>2
<1>12. CASE DoError(c)
  BY <1>12 DEF TypeOK, DoError
<1>13. CASE ValidateResponse(c)
  BY <1>13 DEF TypeOK, ValidateResponse
<1>14. CASE PutBack(c)
  BY <1>14 DEF TypeOK, PutBack
<1>15. CASE Recover(c)
  BY <1>15 DEF TypeOK, Recover
<1>16. CASE ProxyAfter(c)
  BY <1>16 DEF TypeOK, ProxyAfter
<1> QED
  BY <1>1, <1>2, <1>3, <1>4, <1>5, <1>6, <1>7, <1>8, <1>9, <1>10, <1>11, <1>12, <1>13, <1>14, <1>15, <1>16
  DEF ConnStep

-----------------------------------------------------------------------------
(* Who holds a client *)

\* What a step of goroutine u is to the pool, by where it comes from and goes to.
PoolStep(u) ==
  /\ \A v \in Conns \cup Probes : v # u => pc'[v] = pc[v]
  /\ \/ Pool!Ask(u) /\ pc[u] \notin Holding /\ pc'[u] = "get"
     \/ (\E k \in Clients : Pool!Lend(u, k)) /\ pc'[u] \in Holding
     \/ Pool!Refuse(u) /\ pc[u] \notin Holding /\ pc'[u] \notin Holding
     \/ Pool!GiveBack(u) /\ pc[u] \in Holding /\ pc'[u] \notin Holding
     \/ /\ UNCHANGED poolVars
        /\ pc[u] # "get" \/ u \notin asked
        /\ pc[u] \in Holding <=> pc'[u] \in Holding

\* A goroutine that goes from one place to another.
LEMMA GotoFacts ==
  ASSUME TypeOK, NEW u \in Conns \cup Probes, NEW a, NEW b, Goto(u, a, b)
  PROVE  /\ pc[u] = a /\ pc'[u] = b
         /\ \A v \in Conns \cup Probes : v # u => pc'[v] = pc[v]
BY DEF TypeOK, Goto

LEMMA ConnPoolStep ==
  ASSUME TypeOK, NEW c \in Conns, Accept(c) \/ Arrive(c) \/ ConnStep(c)
  PROVE  PoolStep(c) /\ UNCHANGED <<mainVars, verdict>>
<1> USE DEF PoolStep, Holding
<1>1. CASE Accept(c)
  BY <1>1, GotoFacts DEF Accept
<1>2. CASE Arrive(c)
  BY <1>2, GotoFacts DEF Arrive
<1>3. CASE IdleClose(c)
  BY <1>3, GotoFacts DEF IdleClose
<1>4. CASE Respond(c)
  BY <1>4, GotoFacts DEF Respond
<1>5. CASE Route(c)
  BY <1>5, GotoFacts DEF Route
<1>6. CASE Denylist(c)
  BY <1>6, GotoFacts DEF Denylist
<1>7. CASE GetBegin(c)
  BY <1>7, GotoFacts DEF GetBegin
<1>8. CASE GetReturn(c)
  BY <1>8, GotoFacts DEF GetReturn
<1>9. CASE ValidateRequest(c)
  BY <1>9, GotoFacts DEF ValidateRequest
<1>10. CASE DoSend(c)
  BY <1>10, GotoFacts DEF DoSend
<1>11. CASE DoReply(c)
  BY <1>11, GotoFacts DEF DoReply
<1>12. CASE DoError(c)
  BY <1>12, GotoFacts DEF DoError
<1>13. CASE ValidateResponse(c)
  BY <1>13, GotoFacts DEF ValidateResponse
<1>14. CASE PutBack(c)
  BY <1>14, GotoFacts DEF PutBack
<1>15. CASE Recover(c)
  BY <1>15, GotoFacts DEF Recover
<1>16. CASE ProxyAfter(c)
  BY <1>16, GotoFacts DEF ProxyAfter
<1> QED
  BY <1>1, <1>2, <1>3, <1>4, <1>5, <1>6, <1>7, <1>8, <1>9, <1>10, <1>11, <1>12, <1>13, <1>14, <1>15, <1>16
  DEF ConnStep

LEMMA ProbePoolStep ==
  ASSUME TypeOK, NEW p \in Probes,
         ProbeBegin(p) \/ ProbeGot(p) \/ ProbeRefused(p) \/ ProbePut(p) \/ ProbeRespond(p)
  PROVE  PoolStep(p) /\ UNCHANGED <<mainVars, ctxVars>>
<1> USE DEF PoolStep, Holding
<1>1. CASE ProbeBegin(p) \/ ProbeGot(p)
  BY <1>1, GotoFacts DEF ProbeBegin, ProbeGot
<1>2. CASE ProbeRefused(p)
  <2>1. UNCHANGED <<mainVars, ctxVars>>
    BY <1>2 DEF ProbeRefused
  <2>2. CASE Goto(p, "get", "respond") /\ Pool!Refuse(p)
    BY <2>1, <2>2, GotoFacts
  <2>3. CASE Goto(p, "idle", "respond") /\ UNCHANGED poolVars
    BY <2>1, <2>3, GotoFacts
  <2> QED BY <1>2, <2>2, <2>3 DEF ProbeRefused
<1>3. CASE ProbePut(p) \/ ProbeRespond(p)
  BY <1>3, GotoFacts DEF ProbePut, ProbeRespond
<1> QED BY <1>1, <1>2, <1>3

\* Whatever a goroutine does to the pool, it holds a client in the right places, and
\* holds it alone.
LEMMA PoolInvStep ==
  ASSUME TypeOK, PoolInv, NEW u \in Conns \cup Probes, PoolStep(u)
  PROVE  PoolInv'
<1> USE FirewallAssumption DEF TypeOK, Pool!TypeOK, PoolInv, ClientsNotShared
<1>1. CASE Pool!Ask(u) /\ pc[u] \notin Holding /\ pc'[u] = "get"
  BY <1>1 DEF PoolStep, Pool!Ask, Holding
<1>2. CASE (\E k \in Clients : Pool!Lend(u, k)) /\ pc'[u] \in Holding
  <2>1. PICK k \in Clients : Pool!Lend(u, k)
    BY <1>2
  <2>2. /\ lent' = [lent EXCEPT ![u] = k] /\ pooled' = pooled \ {k} /\ asked' = asked \ {u}
        /\ k # NoClient /\ \A v \in Conns \cup Probes : lent[v] # k
    BY <2>1 DEF Pool!Lend, Pool!Borrowed
  <2>3. \A v \in Conns \cup Probes : lent'[v] = IF v = u THEN k ELSE lent[v]
    BY <2>2
  <2> QED BY <1>2, <2>2, <2>3 DEF PoolStep
<1>3. CASE Pool!Refuse(u) /\ pc[u] \notin Holding /\ pc'[u] \notin Holding
  BY <1>3 DEF PoolStep, Pool!Refuse
<1>4. CASE Pool!GiveBack(u) /\ pc[u] \in Holding /\ pc'[u] \notin Holding
  BY <1>4 DEF PoolStep, Pool!GiveBack, Holding
<1>5. CASE /\ UNCHANGED poolVars
           /\ pc[u] # "get" \/ u \notin asked
           /\ pc[u] \in Holding <=> pc'[u] \in Holding
  BY <1>5 DEF PoolStep
<1> QED BY <1>1, <1>2, <1>3, <1>4, <1>5 DEF PoolStep

-----------------------------------------------------------------------------
(* Shutdown *)

\* A closed connection stays closed once the server has stopped listening.
LEMMA ClosedStaysClosed ==
  ASSUME NEW c \in Conns, Accept(c) \/ Arrive(c) \/ ConnStep(c), pc[c] = "closed"
  PROVE  main = "serving"
<1> USE DEF Goto
<1>1. CASE Accept(c) \/ Arrive(c) \/ IdleClose(c) \/ Respond(c) \/ Route(c) \/ Denylist(c)
  BY <1>1 DEF Accept, Arrive, IdleClose, Respond, Route, Denylist
<1>2. CASE GetBegin(c) \/ GetReturn(c) \/ PutBack(c) \/ Recover(c) \/ ProxyAfter(c)
  BY <1>2 DEF GetBegin, GetReturn, PutBack, Recover, ProxyAfter
<1>3. CASE \/ ValidateRequest(c) \/ DoSend(c) \/ DoReply(c) \/ DoError(c)
           \/ ValidateResponse(c)
  BY <1>3 DEF ValidateRequest, DoSend, DoReply, DoError, ValidateResponse
<1> QED BY <1>1, <1>2, <1>3 DEF ConnStep

\* No goroutine but main's opens or closes the pool.
LEMMA OpenKept ==
  ASSUME NEW u, PoolStep(u) PROVE open' = open
BY DEF PoolStep, Pool!Ask, Pool!Lend, Pool!Refuse, Pool!GiveBack

LEMMA ShutdownInvStep ==
  ASSUME TypeOK, ShutdownInv, [Next]_vars PROVE ShutdownInv'
<1> USE DEF ShutdownInv
<1>1. ASSUME NEW c \in Conns, Accept(c) \/ Arrive(c) \/ ConnStep(c)
      PROVE  ShutdownInv'
  <2>1. UNCHANGED <<main, open, verdict>>
    BY <1>1, ConnPoolStep, OpenKept
  <2>2. pc[c] = "closed" => main = "serving"
    BY <1>1, ClosedStaysClosed
  <2>3. main \notin {"closing", "closed", "exited"}
    BY <2>2
  <2> QED BY <2>1, <2>3
<1>2. ASSUME NEW p \in Probes,
             ProbeBegin(p) \/ ProbeGot(p) \/ ProbeRefused(p) \/ ProbePut(p) \/ ProbeRespond(p)
      PROVE  ShutdownInv'
  <2>1. UNCHANGED <<main, open>> /\ \A c \in Conns : pc'[c] = pc[c]
    BY <1>2, ProbePoolStep, OpenKept, FirewallAssumption DEF PoolStep
  <2>2. \A q \in Probes : verdict'[q] = "not ready" => verdict[q] = "not ready" \/ ~open
    BY <1>2 DEF TypeOK, ProbeBegin, ProbeGot, ProbeRefused, ProbePut, ProbeRespond, Pool!Refuse
  <2> QED BY <2>1, <2>2
<1>3. CASE OsSignal \/ ListenerFails \/ MainStopFails \/ MainServerError \/ MainSignal
  <2>1. /\ UNCHANGED <<restVars, poolVars>>
        /\ \/ main' = main
           \/ main \in {"serving", "stopping"} /\ main' \in {"stopping", "failed"}
    BY <1>3 DEF OsSignal, ListenerFails, MainStopFails, MainServerError, MainSignal
  <2> QED BY <2>1
<1>4. CASE MainDrained
  BY <1>4 DEF MainDrained
<1>5. CASE MainClosePool
  BY <1>5 DEF MainClosePool, Pool!Shut
<1>6. CASE MainReturn
  BY <1>6 DEF MainReturn
<1>7. CASE UNCHANGED vars
  BY <1>7 DEF vars
<1> QED
  BY <1>1, <1>2, <1>3, <1>4, <1>5, <1>6, <1>7 DEF Next, MainStep, Terminated

-----------------------------------------------------------------------------
(* The inductive invariant is one *)

LEMMA IInvStep == IInv /\ [Next]_vars => IInv'
<1> SUFFICES ASSUME IInv, [Next]_vars PROVE IInv'
  OBVIOUS
<1>1. TypeOK /\ PoolInv /\ ShutdownInv /\ \A c \in Conns : ConnInv(c)
  BY DEF IInv
<1>2. TypeOK' /\ ShutdownInv'
  BY <1>1, TypeOKStep, ShutdownInvStep
<1>3. ASSUME NEW c \in Conns, Accept(c) \/ Arrive(c) \/ ConnStep(c)
      PROVE  IInv'
  <2>1. PoolInv'
    BY <1>1, <1>3, ConnPoolStep, PoolInvStep
  <2>2. ASSUME NEW d \in Conns PROVE ConnInv(d)'
    <3>1. CASE d = c
      BY <1>1, <1>3, <3>1, ConnInvStep
    <3>2. CASE d # c
      BY <1>1, <1>3, <3>2, OthersAlone, AloneInv
    <3> QED BY <3>1, <3>2
  <2> QED BY <1>2, <2>1, <2>2 DEF IInv
<1>4. ASSUME NEW p \in Probes,
             ProbeBegin(p) \/ ProbeGot(p) \/ ProbeRefused(p) \/ ProbePut(p) \/ ProbeRespond(p)
      PROVE  IInv'
  <2>1. PoolInv'
    BY <1>1, <1>4, ProbePoolStep, PoolInvStep
  <2>2. UNCHANGED <<mainVars, ctxVars>> /\ \A c \in Conns : pc'[c] = pc[c]
    BY <1>1, <1>4, ProbePoolStep, FirewallAssumption DEF PoolStep
  <2>3. \A c \in Conns : ConnInv(c)'
    BY <1>1, <2>2, AloneInv
  <2> QED BY <1>2, <2>1, <2>3 DEF IInv
<1>5. CASE OsSignal \/ ListenerFails \/ MainStopFails \/ MainStep
  <2>1. UNCHANGED <<cfg, restVars>> /\ (UNCHANGED poolVars \/ Pool!Shut)
    BY <1>5 DEF OsSignal, ListenerFails, MainStopFails, MainStep, MainServerError, MainSignal,
                MainDrained, MainClosePool, MainReturn
  <2>2. \A c \in Conns : ConnInv(c)'
    BY <1>1, <2>1, AloneInv
  <2>3. PoolInv'
    BY <1>1, <2>1 DEF PoolInv, ClientsNotShared, Pool!Shut
  <2> QED BY <1>2, <2>2, <2>3 DEF IInv
<1>6. CASE UNCHANGED vars
  <2>1. \A c \in Conns : ConnInv(c)'
    BY <1>1, <1>6, AloneInv DEF vars
  <2>2. PoolInv'
    BY <1>1, <1>6 DEF vars, PoolInv, ClientsNotShared
  <2> QED BY <1>2, <2>1, <2>2 DEF IInv
<1> QED BY <1>3, <1>4, <1>5, <1>6 DEF Next, Terminated

LEMMA Invariance == Spec => []IInv
<1> QED BY InitIInv, IInvStep, PTL DEF Spec

-----------------------------------------------------------------------------
(* The properties of Firewall *)

\* Every variable of the process keeps to its values, in every configuration.
THEOREM TypeCorrect == Spec => []TypeOK
<1>1. IInv => TypeOK
  BY DEF IInv
<1> QED BY <1>1, Invariance, PTL

\* client.Do is never called with a request that the denylist, the routes or the
\* request validation reject: openapiWafHandler's checks all come before it.
THEOREM BackendProtected == Spec => []OnlyAllowedReachBackend
<1>1. IInv => OnlyAllowedReachBackend
  BY DEF IInv, ConnInv, ForwardedInv, OnlyAllowedReachBackend, Routed, Valid
<1> QED BY <1>1, Invariance, PTL

\* What is written to a client is an error of the firewall's own or the reply to its
\* own, forwarded request, conforming if response validation blocks, and without the
\* backend's hop-by-hop headers.
THEOREM ClientProtected == Spec => []OnlyAllowedReachClient
<1>1. IInv => OnlyAllowedReachClient
  BY DEF IInv, ConnInv, ResponseInv, OnlyAllowedReachClient, Releasable
<1> QED BY <1>1, Invariance, PTL

\* Between Get and the deferred Put, and only there, a goroutine has a pool client.
THEOREM ClientsAreReturned == Spec => []ClientsReturned
<1>1. IInv => ClientsReturned
  BY DEF IInv, TypeOK, ProbePC, PoolInv, Holding, ClientsReturned
<1> QED BY <1>1, Invariance, PTL

\* main's order, api.Shutdown() before pool.Close(), keeps the pool open as long as a
\* connection is.
THEOREM PoolOutlives == Spec => []PoolOutlivesConnections
<1>1. IInv => PoolOutlivesConnections
  BY DEF IInv, ShutdownInv, PoolOutlivesConnections
<1> QED BY <1>1, Invariance, PTL

\* Readiness answers "not ready" only of a pool that main has closed on its way out.
THEOREM NotReadyIsTrue == Spec => []NotReadyMeansClosed
<1>1. IInv => NotReadyMeansClosed
  BY DEF IInv, ShutdownInv, NotReadyMeansClosed
<1> QED BY <1>1, Invariance, PTL

-----------------------------------------------------------------------------
(* The process and its pool *)

\* openapiWafHandler and Readiness use the pool only as PoolPromise allows: a Get at a
\* time, a Put of what was lent, one Close.
THEOREM UsesPoolAsPromised == Spec => Pool!Spec
<1>1. Init => Pool!Init
  BY DEF Init
<1>2. IInv /\ [Next]_vars => [Pool!Next]_(Pool!promiseVars)
  <2> SUFFICES ASSUME IInv, [Next]_vars PROVE Pool!Next \/ UNCHANGED poolVars
    BY DEF Pool!promiseVars
  <2>1. TypeOK
    BY DEF IInv
  <2>2. ASSUME NEW u \in Conns \cup Probes, PoolStep(u)
        PROVE  Pool!Next \/ UNCHANGED poolVars
    BY <2>2 DEF PoolStep, Pool!Next
  <2>3. ASSUME NEW c \in Conns, Accept(c) \/ Arrive(c) \/ ConnStep(c)
        PROVE  Pool!Next \/ UNCHANGED poolVars
    BY <2>1, <2>2, <2>3, ConnPoolStep
  <2>4. ASSUME NEW p \in Probes, \/ ProbeBegin(p) \/ ProbeGot(p) \/ ProbeRefused(p)
                                 \/ ProbePut(p) \/ ProbeRespond(p)
        PROVE  Pool!Next \/ UNCHANGED poolVars
    BY <2>1, <2>2, <2>4, ProbePoolStep
  <2>5. CASE OsSignal \/ ListenerFails \/ MainStopFails \/ MainStep
    <3>1. UNCHANGED poolVars \/ Pool!Shut
      BY <2>5 DEF OsSignal, ListenerFails, MainStopFails, MainStep, MainServerError, MainSignal,
                  MainDrained, MainClosePool, MainReturn
    <3> QED BY <3>1 DEF Pool!Next
  <2>6. CASE UNCHANGED vars
    BY <2>6 DEF vars
  <2> QED BY <2>3, <2>4, <2>5, <2>6 DEF Next, Terminated
<1> QED BY <1>1, <1>2, Invariance, PTL DEF Spec, Pool!Spec

\* Two requests, or a request and a probe, never have the same client of the pool in
\* hand: a fasthttp client's timeouts and connections are one goroutine's at a time.
THEOREM ClientsHeldAlone == Spec => []ClientsNotShared
<1>1. IInv => ClientsNotShared
  BY DEF IInv, PoolInv
<1> QED BY <1>1, Invariance, PTL

\* A request never finds the pool closed: the errClosed branch of openapiWafHandler,
\* which answers 503, is not taken in any run of the process.
NeverRefused == \A c \in Conns : ~(pc[c] = "get" /\ pc'[c] = "after")

THEOREM NoRequestRefused == Spec => [][NeverRefused]_vars
<1>1. IInv /\ [Next]_vars => [NeverRefused]_vars
  <2> SUFFICES ASSUME IInv, [Next]_vars, NEW d \in Conns, pc[d] = "get", pc'[d] = "after"
               PROVE  FALSE
    BY DEF NeverRefused
  <2>1. TypeOK /\ open
    BY DEF IInv, ShutdownInv
  <2>2. ASSUME NEW c \in Conns, Accept(c) \/ Arrive(c) \/ ConnStep(c) PROVE FALSE
    <3>1. d = c
      BY <2>1, <2>2, OthersAlone
    <3>2. CASE GetReturn(d)
      BY <2>1, <3>2, GotoFacts DEF GetReturn
    <3>3. CASE GetBegin(d)
      BY <3>3 DEF GetBegin
    <3>4. CASE Accept(d) \/ Arrive(d) \/ IdleClose(d) \/ Respond(d) \/ Route(d) \/ Denylist(d)
      BY <3>4 DEF Accept, Arrive, IdleClose, Respond, Route, Denylist, Goto
    <3>5. CASE \/ ValidateRequest(d) \/ DoSend(d) \/ DoReply(d) \/ DoError(d)
               \/ ValidateResponse(d) \/ PutBack(d) \/ Recover(d) \/ ProxyAfter(d)
      BY <3>5 DEF ValidateRequest, DoSend, DoReply, DoError, ValidateResponse, PutBack,
                  Recover, ProxyAfter, Goto
    <3> QED BY <2>2, <3>1, <3>2, <3>3, <3>4, <3>5 DEF ConnStep
  <2>3. ASSUME NEW p \in Probes, \/ ProbeBegin(p) \/ ProbeGot(p) \/ ProbeRefused(p)
                                 \/ ProbePut(p) \/ ProbeRespond(p)
        PROVE  FALSE
    BY <2>1, <2>3, ProbePoolStep, FirewallAssumption DEF PoolStep
  <2>4. CASE OsSignal \/ ListenerFails \/ MainStopFails \/ MainStep
    BY <2>4 DEF OsSignal, ListenerFails, MainStopFails, MainStep, MainServerError, MainSignal,
                MainDrained, MainClosePool, MainReturn
  <2>5. CASE UNCHANGED vars
    BY <2>5 DEF vars
  <2> QED BY <2>2, <2>3, <2>4, <2>5 DEF Next, Terminated
<1> QED BY <1>1, Invariance, PTL DEF Spec

==============================================================================
