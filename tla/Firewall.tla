------------------------------- MODULE Firewall -------------------------------
(***************************************************************************)
(* The running process: the life of a request through the middleware chain *)
(* and openapiWafHandler, the readiness probe, and main's shutdown, all on *)
(* top of one client pool (PoolPromise, which ProxyPool implements).       *)
(*                                                                         *)
(* Each connection carries one request at a time.  Chain, outermost first: *)
(* Logger, Errors, Panics, Proxy, Denylist, handler.  Validation itself is *)
(* an oracle here: a request has a kind, a backend reply conforms or not.  *)
(***************************************************************************)
EXTENDS Naturals, FiniteSets

CONSTANTS
  Conns,       \* client connections of the API server
  Probes,      \* connections of the health server
  Clients, NoClient, MaxCap, InitialCap,  \* of the pool
  Modes        \* the configurations to start in: [req, resp] validation modes

ASSUME FirewallAssumption ==
  /\ Conns \cap Probes = {}
  /\ NoClient \notin Clients
  /\ MaxCap \in Nat \ {0}
  /\ InitialCap \in 0 .. MaxCap
  /\ Modes \subseteq [req : {"DISABLE", "BLOCK", "LOG_ONLY"},
                      resp : {"DISABLE", "BLOCK", "LOG_ONLY"}]

VARIABLES
  cfg,                         \* RequestValidation and ResponseValidation
  main, sig, serverErrors,     \* run(): where it is; what its two channels, of capacity 1, hold
  pc,                          \* where each connection's goroutine is
  kind,                        \* what its request is like
  forwarded,                   \* client.Do has been called with it
  reply,                       \* what the backend replied
  answer,                      \* what ctx.Response holds
  hop,                         \* ctx.Response holds hop-by-hop headers of the backend
  panicking,                   \* a panic is unwinding the handler
  verdict,                     \* what a probe is about to say
  open, pooled, asked, lent    \* the pool

mainVars == <<cfg, main, sig, serverErrors>>
poolVars == <<open, pooled, asked, lent>>
ctxVars == <<kind, forwarded, reply, answer, hop, panicking>>
vars == <<mainVars, pc, ctxVars, verdict, poolVars>>

Pool == INSTANCE PoolPromise WITH Users <- Conns \cup Probes

Mode == {"DISABLE", "BLOCK", "LOG_ONLY"}
\* In the specification and conforming; in it and not conforming; not in it; and the
\* first and third with a token of the denylist.
Kinds == {"good", "bad", "unknown", "denied", "unknownDenied"}
InSpec(c) == kind[c] \in {"good", "bad", "denied"}
Denied(c) == kind[c] \in {"denied", "unknownDenied"}
Answers == {"none", "blocked", "backend", "502", "503", "504"}
ConnPC == {"closed", "idle", "route", "denylist", "get", "validate", "do", "wait",
           "check", "put", "recover", "after", "respond"}
ProbePC == {"idle", "get", "put", "respond"}
MainPC == {"serving", "stopping", "closing", "closed", "exited", "failed"}

TypeOK ==
  /\ cfg \in Modes
  /\ main \in MainPC /\ sig \in 0 .. 1 /\ serverErrors \in 0 .. 1
  /\ pc \in [Conns \cup Probes -> ConnPC \cup ProbePC]
  /\ \A c \in Conns : pc[c] \in ConnPC
  /\ \A p \in Probes : pc[p] \in ProbePC
  /\ kind \in [Conns -> Kinds]
  /\ forwarded \in [Conns -> BOOLEAN]
  /\ reply \in [Conns -> {"none", "conforming", "nonconforming"}]
  /\ answer \in [Conns -> Answers]
  /\ hop \in [Conns -> BOOLEAN]
  /\ panicking \in [Conns -> BOOLEAN]
  /\ verdict \in [Probes -> {"none", "ok", "not ready"}]
  /\ Pool!TypeOK

Init ==
  /\ cfg \in Modes
  /\ main = "serving" /\ sig = 0 /\ serverErrors = 0
  /\ pc = [c \in Conns \cup Probes |-> IF c \in Conns THEN "closed" ELSE "idle"]
  /\ kind = [c \in Conns |-> "good"]
  /\ forwarded = [c \in Conns |-> FALSE]
  /\ reply = [c \in Conns |-> "none"]
  /\ answer = [c \in Conns |-> "none"]
  /\ hop = [c \in Conns |-> FALSE]
  /\ panicking = [c \in Conns |-> FALSE]
  /\ verdict = [p \in Probes |-> "none"]
  /\ Pool!Init

\* Returning from run() ends the process and every goroutine with it.
Alive == main \notin {"exited", "failed"}

\* A goroutine steps from one place to the next.
Goto(c, from, to) == Alive /\ pc[c] = from /\ pc' = [pc EXCEPT ![c] = to]

\* ctx.Error and web.RespondError: whatever the response held is reset.
RespondError(c, status) ==
  /\ answer' = [answer EXCEPT ![c] = status]
  /\ hop' = [hop EXCEPT ![c] = FALSE]

-----------------------------------------------------------------------------
(* The HTTP server (fasthttp) *)

Accept(c) ==
  /\ main = "serving"
  /\ Goto(c, "closed", "idle")
  /\ UNCHANGED <<mainVars, ctxVars, verdict, poolVars>>

\* A request on an open connection; Shutdown does not keep it from being served.
Arrive(c) ==
  /\ Goto(c, "idle", "route")
  /\ \E k \in Kinds : kind' = [kind EXCEPT ![c] = k]
  /\ UNCHANGED <<mainVars, forwarded, reply, answer, hop, panicking, verdict, poolVars>>

\* The client leaves or the read timeout expires.
IdleClose(c) ==
  /\ Goto(c, "idle", "closed")
  /\ UNCHANGED <<mainVars, ctxVars, verdict, poolVars>>

\* MUTANT: a stopping server keeps serving its open connections.
Respond_KeepAlive(c) ==
  /\ Goto(c, "respond", "idle")
  /\ kind' = [kind EXCEPT ![c] = "good"]
  /\ forwarded' = [forwarded EXCEPT ![c] = FALSE]
  /\ reply' = [reply EXCEPT ![c] = "none"]
  /\ answer' = [answer EXCEPT ![c] = "none"]
  /\ hop' = [hop EXCEPT ![c] = FALSE]
  /\ UNCHANGED <<mainVars, panicking, verdict, poolVars>>

\* The response is written; a server that is stopping closes the connection then.
Respond(c) ==
  /\ IF main = "serving" THEN Goto(c, "respond", "idle") ELSE Goto(c, "respond", "closed")
  /\ kind' = [kind EXCEPT ![c] = "good"]
  /\ forwarded' = [forwarded EXCEPT ![c] = FALSE]
  /\ reply' = [reply EXCEPT ![c] = "none"]
  /\ answer' = [answer EXCEPT ![c] = "none"]
  /\ hop' = [hop EXCEPT ![c] = FALSE]
  /\ UNCHANGED <<mainVars, panicking, verdict, poolVars>>

-----------------------------------------------------------------------------
(* Middleware and handler *)

\* MUTANT: only the request validation mode blocks what is not in the specification.
Route_RequestModeOnly(c) ==
  /\ \/ /\ ~InSpec(c) /\ cfg.req = "BLOCK"
        /\ Goto(c, "route", "respond")
        /\ RespondError(c, "blocked")
     \/ /\ InSpec(c) \/ cfg.req # "BLOCK"
        /\ Goto(c, "route", "denylist")
        /\ UNCHANGED <<answer, hop>>
  /\ UNCHANGED <<mainVars, kind, forwarded, reply, panicking, verdict, poolVars>>

\* App.Handle and SetDefaultBehavior: a request that is not in the specification is
\* blocked before any middleware when either validation blocks.
Route(c) ==
  /\ \/ /\ ~InSpec(c) /\ "BLOCK" \in {cfg.req, cfg.resp}
        /\ Goto(c, "route", "respond")
        /\ RespondError(c, "blocked")
     \/ /\ InSpec(c) \/ "BLOCK" \notin {cfg.req, cfg.resp}
        /\ Goto(c, "route", "denylist")
        /\ UNCHANGED <<answer, hop>>
  /\ UNCHANGED <<mainVars, kind, forwarded, reply, panicking, verdict, poolVars>>

\* mid.Denylist: a denied token is blocked whatever the validation modes.
Denylist(c) ==
  /\ \/ Denied(c) /\ Goto(c, "denylist", "after") /\ RespondError(c, "blocked")
     \/ ~Denied(c) /\ Goto(c, "denylist", "get") /\ UNCHANGED <<answer, hop>>
  /\ UNCHANGED <<mainVars, kind, forwarded, reply, panicking, verdict, poolVars>>

\* client, err := s.proxyPool.Get(), in two steps: another goroutine may close the
\* pool in between.
GetBegin(c) ==
  /\ Alive /\ pc[c] = "get"
  /\ Pool!Ask(c)
  /\ UNCHANGED <<mainVars, pc, ctxVars, verdict>>

\* No validation applies: no route, or both validations disabled.
PassThrough(c) == ~InSpec(c) \/ (cfg.req = "DISABLE" /\ cfg.resp = "DISABLE")

\* With a client the handler goes on; with errClosed (found at once, or while Get ran)
\* it answers 503 and has no client to put back.
GetReturn(c) ==
  /\ \/ /\ \E k \in Clients : Pool!Lend(c, k)
        /\ IF PassThrough(c) THEN Goto(c, "get", "do") ELSE Goto(c, "get", "validate")
        /\ UNCHANGED <<answer, hop>>
     \/ /\ ~open
        /\ Pool!Refuse(c) \/ (c \notin asked /\ UNCHANGED poolVars)
        /\ Goto(c, "get", "after")
        /\ RespondError(c, "503")
  /\ UNCHANGED <<mainVars, kind, forwarded, reply, panicking, verdict>>

\* case web.ValidationBlock / ValidationLog of RequestValidation.  The validator may
\* also panic (a nil dereference in a schema, an unexpected parameter type).
ValidateRequest(c) ==
  /\ \/ /\ cfg.req = "BLOCK" /\ kind[c] = "bad"
        /\ Goto(c, "validate", "put")
        /\ RespondError(c, "blocked")
        /\ UNCHANGED panicking
     \/ /\ cfg.req # "BLOCK" \/ kind[c] # "bad"
        /\ Goto(c, "validate", "do")
        /\ UNCHANGED <<answer, hop, panicking>>
     \/ /\ cfg.req # "DISABLE"
        /\ Goto(c, "validate", "put")
        /\ panicking' = [panicking EXCEPT ![c] = TRUE]
        /\ UNCHANGED <<answer, hop>>
  /\ UNCHANGED <<mainVars, kind, forwarded, reply, verdict, poolVars>>

\* client.Do is called: from here on the backend may see the request.
DoSend(c) ==
  /\ Goto(c, "do", "wait")
  /\ forwarded' = [forwarded EXCEPT ![c] = TRUE]
  /\ UNCHANGED <<mainVars, kind, reply, answer, hop, panicking, verdict, poolVars>>

\* client.Do returns the backend's response, hop-by-hop headers included.
DoReply(c) ==
  /\ IF PassThrough(c) THEN Goto(c, "wait", "put") ELSE Goto(c, "wait", "check")
  /\ \E r \in {"conforming", "nonconforming"} : reply' = [reply EXCEPT ![c] = r]
  /\ answer' = [answer EXCEPT ![c] = "backend"]
  /\ hop' = [hop EXCEPT ![c] = TRUE]
  /\ UNCHANGED <<mainVars, kind, forwarded, panicking, verdict, poolVars>>

\* client.Do fails: dial timeout 504, no free connection 503, anything else 502.
DoError(c) ==
  /\ Goto(c, "wait", "put")
  /\ \E e \in {"502", "503", "504"} : RespondError(c, e)
  /\ UNCHANGED <<mainVars, kind, forwarded, reply, panicking, verdict, poolVars>>

\* case web.ValidationBlock / ValidationLog of ResponseValidation; may panic too.
ValidateResponse(c) ==
  /\ Goto(c, "check", "put")
  /\ \/ /\ cfg.resp = "BLOCK" /\ reply[c] = "nonconforming"
        /\ RespondError(c, "blocked")
        /\ UNCHANGED panicking
     \/ /\ cfg.resp # "BLOCK" \/ reply[c] = "conforming"
        /\ UNCHANGED <<answer, hop, panicking>>
     \/ /\ cfg.resp # "DISABLE"
        /\ panicking' = [panicking EXCEPT ![c] = TRUE]
        /\ UNCHANGED <<answer, hop>>
  /\ UNCHANGED <<mainVars, kind, forwarded, reply, verdict, poolVars>>

\* MUTANT: Put at the end of the handler instead of a defer: a panic skips it.
PutBack_NotDeferred(c) ==
  /\ IF panicking[c] THEN Goto(c, "put", "recover") /\ UNCHANGED poolVars
                     ELSE Goto(c, "put", "after") /\ Pool!GiveBack(c)
  /\ UNCHANGED <<mainVars, ctxVars, verdict>>

\* MUTANT: Put sends without a default, so it waits for room in the pool.
PutBack_Waits(c) ==
  /\ IF panicking[c] THEN Goto(c, "put", "recover") ELSE Goto(c, "put", "after")
  /\ Cardinality(pooled) < MaxCap
  /\ Pool!GiveBack(c)
  /\ UNCHANGED <<mainVars, ctxVars, verdict>>

\* defer s.proxyPool.Put(client): on every way out of the handler, panic included.
PutBack(c) ==
  /\ IF panicking[c] THEN Goto(c, "put", "recover") ELSE Goto(c, "put", "after")
  /\ Pool!GiveBack(c)
  /\ UNCHANGED <<mainVars, ctxVars, verdict>>

\* MUTANT: the status is set and the response is not reset.
Recover_NoReset(c) ==
  /\ Goto(c, "recover", "respond")
  /\ panicking' = [panicking EXCEPT ![c] = FALSE]
  /\ answer' = [answer EXCEPT ![c] = "502"]
  /\ UNCHANGED <<mainVars, kind, forwarded, reply, hop, verdict, poolVars>>

\* A panic skips what Proxy does after the handler; mid.Panics turns it into an error
\* and mid.Errors answers 502.
Recover(c) ==
  /\ Goto(c, "recover", "respond")
  /\ panicking' = [panicking EXCEPT ![c] = FALSE]
  /\ RespondError(c, "502")
  /\ UNCHANGED <<mainVars, kind, forwarded, reply, verdict, poolVars>>

\* mid.Proxy after the handler: hop-by-hop headers are removed from the response.
ProxyAfter(c) ==
  /\ Goto(c, "after", "respond")
  /\ hop' = [hop EXCEPT ![c] = FALSE]
  /\ UNCHANGED <<mainVars, kind, forwarded, reply, answer, panicking, verdict, poolVars>>

ConnStep(c) ==
  \/ IdleClose(c) \/ Respond(c) \/ Route(c) \/ Denylist(c)
  \/ GetBegin(c) \/ GetReturn(c)
  \/ ValidateRequest(c) \/ DoSend(c) \/ DoReply(c) \/ DoError(c) \/ ValidateResponse(c)
  \/ PutBack(c) \/ Recover(c) \/ ProxyAfter(c)

-----------------------------------------------------------------------------
(* Health.Readiness *)

ProbeBegin(p) ==
  /\ Goto(p, "idle", "get")
  /\ Pool!Ask(p)
  /\ UNCHANGED <<mainVars, ctxVars, verdict>>

ProbeGot(p) ==
  /\ Goto(p, "get", "put")
  /\ \E k \in Clients : Pool!Lend(p, k)
  /\ UNCHANGED <<mainVars, ctxVars, verdict>>

\* Get found the pool closed, at once or while it ran.
ProbeRefused(p) ==
  /\ \/ Goto(p, "get", "respond") /\ Pool!Refuse(p)
     \/ Goto(p, "idle", "respond") /\ ~open /\ UNCHANGED poolVars
  /\ verdict' = [verdict EXCEPT ![p] = "not ready"]
  /\ UNCHANGED <<mainVars, ctxVars>>

ProbePut(p) ==
  /\ Goto(p, "put", "respond")
  /\ Pool!GiveBack(p)
  /\ verdict' = [verdict EXCEPT ![p] = "ok"]
  /\ UNCHANGED <<mainVars, ctxVars>>

ProbeRespond(p) ==
  /\ Goto(p, "respond", "idle")
  /\ verdict' = [verdict EXCEPT ![p] = "none"]
  /\ UNCHANGED <<mainVars, ctxVars, poolVars>>

-----------------------------------------------------------------------------
(* main.run *)

restVars == <<pc, ctxVars, verdict>>

\* MUTANT: a second signal is queued behind the first.
OsSignal_Queued ==
  /\ Alive
  /\ sig' = sig + 1
  /\ UNCHANGED <<cfg, main, serverErrors, restVars, poolVars>>

\* SIGTERM or SIGINT: signal.Notify drops it when the channel is full.
OsSignal ==
  /\ Alive
  /\ sig' = 1
  /\ UNCHANGED <<cfg, main, serverErrors, restVars, poolVars>>

\* One of the two ListenAndServe calls returns an error.
ListenerFails ==
  /\ main = "serving"
  /\ serverErrors' = 1
  /\ UNCHANGED <<cfg, main, sig, restVars, poolVars>>

\* case err := <-serverErrors: return the error, in-flight requests or not.
MainServerError ==
  /\ main = "serving" /\ serverErrors = 1
  /\ serverErrors' = 0
  /\ main' = "failed"
  /\ UNCHANGED <<cfg, sig, restVars, poolVars>>

\* MUTANT: the pool is closed as soon as the signal arrives.
MainSignal_ClosesPool ==
  /\ main = "serving" /\ sig = 1
  /\ sig' = 0
  /\ main' = "stopping"
  /\ Pool!Shut
  /\ UNCHANGED <<cfg, serverErrors, restVars>>

\* case sig := <-shutdown: api.Shutdown() begins.
MainSignal ==
  /\ main = "serving" /\ sig = 1
  /\ sig' = 0
  /\ main' = "stopping"
  /\ UNCHANGED <<cfg, serverErrors, restVars, poolVars>>

\* MUTANT: the listener is closed and nobody waits for the open connections.
MainDrained_NoWait ==
  /\ main = "stopping"
  /\ main' = "closing"
  /\ UNCHANGED <<cfg, sig, serverErrors, restVars, poolVars>>

\* api.Shutdown() returns once no connection is open.
MainDrained ==
  /\ main = "stopping"
  /\ \A c \in Conns : pc[c] = "closed"
  /\ main' = "closing"
  /\ UNCHANGED <<cfg, sig, serverErrors, restVars, poolVars>>

\* "could not stop server gracefully": return without closing the pool.
MainStopFails ==
  /\ main = "stopping"
  /\ main' = "failed"
  /\ UNCHANGED <<cfg, sig, serverErrors, restVars, poolVars>>

\* pool.Close(); the health server is still serving.
MainClosePool ==
  /\ main = "closing"
  /\ main' = "closed"
  /\ Pool!Shut
  /\ UNCHANGED <<cfg, sig, serverErrors, restVars>>

MainReturn ==
  /\ main = "closed"
  /\ main' = "exited"
  /\ UNCHANGED <<cfg, sig, serverErrors, restVars, poolVars>>

MainStep == MainServerError \/ MainSignal \/ MainDrained \/ MainClosePool \/ MainReturn

\* The process is gone.
Terminated == ~Alive /\ UNCHANGED vars

Next ==
  \/ \E c \in Conns : Accept(c) \/ Arrive(c) \/ ConnStep(c)
  \/ \E p \in Probes : ProbeBegin(p) \/ ProbeGot(p) \/ ProbeRefused(p) \/ ProbePut(p)
                       \/ ProbeRespond(p)
  \/ OsSignal \/ ListenerFails \/ MainStopFails \/ MainStep
  \/ Terminated

\* The scheduler runs what can run; dial, read and write timeouts end every wait for
\* the backend and for an idle client.  Clients, signals and failures owe nothing.
Fairness ==
  /\ \A c \in Conns : WF_vars(ConnStep(c))
  /\ WF_vars(MainStep)

Spec == Init /\ [][Next]_vars
FairSpec == Spec /\ Fairness

-----------------------------------------------------------------------------
(* Properties *)

\* What the firewall is for, on the way in: client.Do is never called with a request
\* that carries a denied token, with one outside the specification when either
\* validation blocks, or with an invalid one when request validation blocks.
OnlyAllowedReachBackend ==
  \A c \in Conns : forwarded[c] =>
    /\ ~Denied(c)
    /\ InSpec(c) \/ "BLOCK" \notin {cfg.req, cfg.resp}
    /\ cfg.req = "BLOCK" => kind[c] # "bad"

\* And on the way out: the client gets the backend's response only after client.Do,
\* only a conforming one when response validation blocks, and never with hop-by-hop
\* headers, even when the validator panics after the response has been read.
OnlyAllowedReachClient ==
  \A c \in Conns : pc[c] = "respond" =>
    /\ answer[c] # "none"
    /\ ~hop[c]
    /\ answer[c] = "backend" => /\ forwarded[c]
                                /\ cfg.resp = "BLOCK" => reply[c] = "conforming"

\* A goroutine keeps a pool client exactly while it needs it: error paths and panics
\* give it back before the response goes out.
ClientsReturned ==
  /\ \A c \in Conns : lent[c] # NoClient <=>
       pc[c] \in {"validate", "do", "wait", "check", "put"}
  /\ \A p \in Probes : lent[p] # NoClient <=> pc[p] = "put"

\* Shutdown comes before Close: while a connection is open the pool is, so that no
\* request is refused by a closed pool.
PoolOutlivesConnections ==
  ~open => \A c \in Conns : pc[c] = "closed"

\* A probe says "not ready" only of a closed pool, and a pool is closed only by a
\* process that is about to leave.
NotReadyMeansClosed ==
  /\ \A p \in Probes : verdict[p] = "not ready" => ~open
  /\ ~open => main \in {"closed", "exited"}

\* Every request that arrives is answered, unless the process dies first.
RequestsAnswered ==
  \A c \in Conns : pc[c] = "route" ~> pc[c] \in {"idle", "closed"} \/ ~Alive

\* A signal stops the process although clients keep their connections busy.
SignalStops == sig = 1 ~> ~Alive
==============================================================================
