------------------------------- MODULE Validation -------------------------------
(***************************************************************************)
(* openapi3filter: ValidateRequest and ValidateResponse, from a request    *)
(* fasthttp has taken apart to the verdicts the handler acts upon.         *)
(* Security is an oracle here (module Security).                           *)
(***************************************************************************)
EXTENDS ParameterStyles

CONSTANTS
    Doc,          \* the document: its schemas by name
    Operations,   \* records [pathItem, params, body, responses]
    Requests,     \* for each, the requests it gets: [source, head, mime, body]
    Replies       \* and what the backend may answer: [status, mime, body]

Parameters == UNION {ToSet(o.pathItem) \cup ToSet(o.params) : o \in Operations}

ASSUME ValidationAssumption == \A o \in Operations : {o.pathItem, o.params} \subseteq Seq(Parameters)

VARIABLES
    operation, request, multi,    \* the call of ValidateRequest; options.MultiError
    pc, index,    \* the step of the call; the parameter that is next
    me,           \* the errors so far: [what, of, why]
    reply         \* the backend's, None before

vars == <<operation, request, multi, pc, index, me, reply>>

-----------------------------------------------------------------------------
(* The verdict on a parameter or on a body: "valid", the kind of the error  *)
(* or "panic"; a set, as a visit has a set of outcomes.                     *)

Mode(many, asreq) == [failfast |-> FALSE, multiError |-> many, asreq |-> asreq, asrep |-> FALSE]

Visited(fast, schema, value, mode) ==
    {IF o = OK THEN "valid" ELSE IF Dead(o) THEN "panic" ELSE "invalid" :
        o \in VisitJSON(fast, Doc, schema, value, mode)}

\* ValidateParameter
ParameterVerdicts(p) ==
    LET decoded == IF p.content # None THEN {DecodeContent(p, request.source)}
                   ELSE DecodeStyled(Doc, p, request.source)
        schema  == IF p.content # None THEN ContentGet(p.content, JSON).schema ELSE p.schema
        judge(r) == CASE r.err = "panic"  -> {"panic"}
                      [] r.err = "decode" -> {"undecoded"}
                      [] r.err = "none" /\ r.v = Null -> {IF p.required THEN "missing" ELSE "valid"}
                      [] r.err = "none" /\ r.v # Null ->
                            Visited(FALSE, schema, r.v, Mode(multi, FALSE))
    IN  IF p.schema = None /\ p.content = None THEN {"valid"}
        ELSE UNION {judge(r) : r \in decoded}

\* What ValidateRequestBody and ValidateResponse share: content is {} if none is declared.
ContentVerdicts(content, mime, body, many) ==
    LET media == ContentGet(content, mime)
    IN  IF DOMAIN content = {} THEN {"valid"}
        ELSE IF media = None THEN {"mime"}
        ELSE IF media.schema = None THEN {"valid"}
        ELSE UNION {CASE r.err = "panic"  -> {"panic"}
                      [] r.err = "decode" -> {"undecoded"}
                      [] r.err = "none"   -> Visited(r.fast, media.schema, r.v, Mode(many, TRUE)) :
                    r \in DecodeBody(Doc, media.schema, mime, body, media.encoding)}

\* ValidateRequestBody
BodyVerdicts ==
    IF request.body.text = <<>> THEN {IF operation.body.required THEN "missing" ELSE "valid"}
    ELSE ContentVerdicts(operation.body.content, request.mime, request.body, multi)

\* ValidateResponse; the responses to requests are visited as requests too.
ResponseVerdicts ==
    LET rs == operation.responses
    IN  IF request.head \/ reply.status \in {"304", "308", "307", "301"} \/ DOMAIN rs = {} THEN {"valid"}
        ELSE IF reply.status \in DOMAIN rs
             THEN ContentVerdicts(rs[reply.status], reply.mime, reply.body, FALSE)
        ELSE IF "default" \in DOMAIN rs
             THEN ContentVerdicts(rs["default"], reply.mime, reply.body, FALSE)
        ELSE {"status"}

-----------------------------------------------------------------------------
Init ==
    /\ operation \in Operations
    /\ request \in Requests[operation]
    /\ multi \in BOOLEAN
    /\ pc = "pathItem" /\ index = 1 /\ me = <<>> /\ reply = None

\* A check of `what`, of the parameter `of`, that ends with one of `verdicts`, and where to go then:
\* an error is returned at once, or collected with MultiError.
Judge(what, of, verdicts, next, at) ==
    \E why \in verdicts :
        /\ me' = IF why = "valid" THEN me ELSE Append(me, [what |-> what, of |-> of, why |-> why])
        /\ IF why = "valid" \/ (multi /\ why # "panic")
           THEN pc' = next /\ index' = at
           ELSE pc' = (IF why = "panic" THEN "panicked" ELSE "refused") /\ index' = index

\* MUTANT: the index is not reset for the second loop.
GoTo_KeepsIndex(next) == pc' = next /\ index' = index /\ UNCHANGED me
GoTo(next) == pc' = next /\ index' = 1 /\ UNCHANGED me

\* MUTANT: a parameter is taken for overridden by one of its name elsewhere.
Overridden_ByName(p) == \E k \in DOMAIN operation.params : operation.params[k].name = p.name
Overridden(p) ==
    \E k \in DOMAIN operation.params : operation.params[k].name = p.name /\ operation.params[k].in = p.in

PathItemParameter ==
    /\ pc = "pathItem"
    /\ IF index > Len(operation.pathItem) THEN GoTo("params")
       ELSE LET p == operation.pathItem[index]
            IN  IF Overridden(p) THEN pc' = pc /\ index' = index + 1 /\ UNCHANGED me
                ELSE Judge("parameter", p, ParameterVerdicts(p), pc, index + 1)
    /\ UNCHANGED <<operation, request, multi, reply>>

OperationParameter ==
    /\ pc = "params"
    /\ IF index > Len(operation.params) THEN GoTo("body")
       ELSE Judge("parameter", operation.params[index], ParameterVerdicts(operation.params[index]), pc, index + 1)
    /\ UNCHANGED <<operation, request, multi, reply>>

ValidateRequestBody ==
    /\ pc = "body"
    /\ IF operation.body = None THEN GoTo("security") ELSE Judge("body", None, BodyVerdicts, "security", 1)
    /\ UNCHANGED <<operation, request, multi, reply>>

ValidateSecurityRequirements ==
    /\ pc = "security"
    /\ Judge("security", None, {"valid", "insecure"}, "verdict", 1)
    /\ UNCHANGED <<operation, request, multi, reply>>

Return ==
    /\ pc = "verdict"
    /\ GoTo(IF me = <<>> THEN "accepted" ELSE "refused")
    /\ UNCHANGED <<operation, request, multi, reply>>

\* The backend answers what was accepted (module Firewall has the modes in
\* which a refusal is only logged).
Answer ==
    /\ pc = "accepted"
    /\ reply' \in Replies[operation]
    /\ GoTo("answered")
    /\ UNCHANGED <<operation, request, multi>>

ValidateResponse ==
    /\ pc = "answered"
    /\ \E why \in ResponseVerdicts :
          /\ pc' = CASE why = "valid" -> "delivered"
                     [] why = "panic" -> "panicked"
                     [] OTHER         -> "blocked"
          /\ me' = IF why = "valid" THEN me ELSE <<[what |-> "reply", of |-> None, why |-> why]>>
    /\ UNCHANGED <<operation, request, multi, index, reply>>

Done == pc \in {"refused", "panicked", "delivered", "blocked"} /\ UNCHANGED vars

Next ==
    \/ PathItemParameter \/ OperationParameter \/ ValidateRequestBody
    \/ ValidateSecurityRequirements \/ Return \/ Answer \/ ValidateResponse \/ Done

Spec == Init /\ [][Next]_vars
=============================================================================
