---------------------------- MODULE Judgement_proofs ----------------------------
(***************************************************************************)
(* Proofs about ValidateRequest and ValidateResponse for all documents,    *)
(* operations, requests and replies: what the walk over the parameters,    *)
(* the body and the reply makes of the single verdicts. It skips nothing,  *)
(* reports nothing that was not found, and what holds of every single      *)
(* verdict holds of what is accepted and refused. The invariant says what  *)
(* is behind the call as long as no error has ended it early.              *)
(***************************************************************************)
EXTENDS Judgement, SequenceTheorems, TLAPS

-----------------------------------------------------------------------------
(* The verdicts depend on the call alone, not on how far it is.             *)

\* A step of the call leaves the verdicts on the request as they were.
LEMMA Steady ==
  ASSUME operation' = operation, request' = request, multi' = multi
  PROVE  /\ \A p : ParameterVerdicts(p)' = ParameterVerdicts(p)
         /\ BodyVerdicts' = BodyVerdicts
<1>1. ASSUME NEW p PROVE ParameterVerdicts(p)' = ParameterVerdicts(p)
  BY DEF ParameterVerdicts
<1>2. BodyVerdicts' = BodyVerdicts
  BY DEF BodyVerdicts
<1> QED BY <1>1, <1>2

\* And a step after the reply the verdicts on the reply.
LEMMA SteadyReply ==
  ASSUME operation' = operation, request' = request, reply' = reply
  PROVE  ResponseVerdicts' = ResponseVerdicts
BY DEF ResponseVerdicts

-----------------------------------------------------------------------------
(* What the errors say of the verdicts.                                     *)

ErrorOf(what, of, why) == [what |-> what, of |-> of, why |-> why]

\* The errors the checks can give.
ParameterErrors(p) == {ErrorOf("parameter", p, why) : why \in ParameterVerdicts(p) \ {"valid"}}
BodyErrors  == IF operation.body = None THEN {} ELSE {ErrorOf("body", None, why) : why \in BodyVerdicts \ {"valid"}}
ReplyErrors == {ErrorOf("reply", None, why) : why \in ResponseVerdicts \ {"valid"}}
RequestErrors ==
    BodyErrors \cup {ErrorOf("security", None, "insecure")} \cup UNION {ParameterErrors(p) : p \in Effective}
Errors == RequestErrors \cup ReplyErrors

\* An error about it was kept, or it was found good.
Reported(what, of) == \E k \in DOMAIN me : <<me[k].what, me[k].of>> = <<what, of>>
Judged(what, of, verdicts) == "valid" \in verdicts \/ Reported(what, of)
ParameterJudged(p) == Judged("parameter", p, ParameterVerdicts(p))

\* What is behind the call, as long as nothing has ended it early.
ProgressInv ==
    /\ \A j \in DOMAIN operation.pathItem :
          (pc = "pathItem" => j < index) /\ ~Overridden(operation.pathItem[j]) =>
             ParameterJudged(operation.pathItem[j])
    /\ \A j \in DOMAIN operation.params :
          pc # "pathItem" /\ (pc = "params" => j < index) => ParameterJudged(operation.params[j])
    /\ pc \notin {"pathItem", "params", "body"} /\ operation.body # None => Judged("body", None, BodyVerdicts)
    /\ pc = "delivered" => "valid" \in ResponseVerdicts

Ended == pc = "panicked" \/ (pc = "refused" /\ ~multi)

JInv ==
    /\ TypeOK
    /\ me \in Seq(Errors)
    /\ pc \notin {"panicked", "blocked"} => me \in Seq(RequestErrors)
    /\ pc \in {"accepted", "answered", "delivered"} => me = <<>>
    /\ ~multi => Len(me) <= 1
    /\ ~Ended => ProgressInv

\* The two lists of parameters are sequences.
LEMMA ListFacts ==
  ASSUME operation \in Operations
  PROVE  /\ operation.pathItem \in Seq(Parameters) /\ operation.params \in Seq(Parameters)
         /\ Len(operation.pathItem) \in Nat /\ Len(operation.params) \in Nat
         /\ DOMAIN operation.pathItem = 1..Len(operation.pathItem)
         /\ DOMAIN operation.params = 1..Len(operation.params)
<1>1. operation.pathItem \in Seq(Parameters) /\ operation.params \in Seq(Parameters)
  BY ValidationAssumption
<1> QED BY <1>1, LenProperties

\* The parameters that count are those the loops judge.
LEMMA EffectiveIs ==
  ASSUME operation \in Operations
  PROVE  /\ \A j \in DOMAIN operation.params : operation.params[j] \in Effective
         /\ \A j \in DOMAIN operation.pathItem : ~Overridden(operation.pathItem[j]) => operation.pathItem[j] \in Effective
         /\ \A p \in Effective : \/ \E j \in DOMAIN operation.params : p = operation.params[j]
                                 \/ \E j \in DOMAIN operation.pathItem : p = operation.pathItem[j] /\ ~Overridden(p)
<1>1. \A p : p \in ToSet(operation.params) <=> \E j \in DOMAIN operation.params : p = operation.params[j]
  BY DEF ToSet
<1>2. \A p : p \in ToSet(operation.pathItem) <=> \E j \in DOMAIN operation.pathItem : p = operation.pathItem[j]
  BY DEF ToSet
<1>3. \A p : Overridden(p) <=> \E q \in ToSet(operation.params) : <<q.in, q.name>> = <<p.in, p.name>>
  BY <1>1 DEF Overridden
<1> QED BY <1>1, <1>2, <1>3 DEF Effective

\* ValidateRequest starts with nothing behind it.
LEMMA InitJInv == Init => JInv
<1> SUFFICES ASSUME Init PROVE JInv
  OBVIOUS
<1>1. operation \in Operations /\ pc = "pathItem" /\ index = 1 /\ me = <<>> /\ reply = None
      /\ multi \in BOOLEAN /\ request \in Requests[operation]
  BY DEF Init
<1>2. Len(operation.pathItem) \in Nat /\ Len(operation.params) \in Nat /\ DOMAIN operation.pathItem = 1..Len(operation.pathItem)
  BY <1>1, ListFacts
<1>3. TypeOK
  BY <1>1, <1>2 DEF TypeOK
<1>4. me \in Seq(Errors) /\ me \in Seq(RequestErrors) /\ Len(me) = 0
  BY <1>1
<1>5. ProgressInv
  BY <1>1, <1>2 DEF ProgressInv
<1> QED BY <1>1, <1>3, <1>4, <1>5 DEF JInv

-----------------------------------------------------------------------------
(* One check.                                                               *)

\* An error that is appended stays, with those before it.
LEMMA Kept ==
  ASSUME NEW E, me \in Seq(E), NEW e \in E, me' = Append(me, e)
  PROVE  /\ me' \in Seq(E) /\ me' # <<>> /\ Len(me') = Len(me) + 1 /\ Len(me) \in Nat
         /\ \A what, of : Reported(what, of) => Reported(what, of)'
         /\ \A what, of, why : e = ErrorOf(what, of, why) => Reported(what, of)'
<1>1. /\ me' \in Seq(E) /\ Len(me') = Len(me) + 1 /\ Len(me) \in Nat
      /\ \A k \in 1..Len(me) : me'[k] = me[k]
      /\ me'[Len(me) + 1] = e /\ DOMAIN me = 1..Len(me) /\ DOMAIN me' = 1..(Len(me) + 1)
  BY AppendProperties, LenProperties
<1>2. me' # <<>>
  BY <1>1
<1>3. ASSUME NEW what, NEW of, Reported(what, of) PROVE Reported(what, of)'
  <2>1. PICK k \in 1..Len(me) : <<me[k].what, me[k].of>> = <<what, of>>
    BY <1>1, <1>3 DEF Reported
  <2>2. k \in DOMAIN me' /\ me'[k] = me[k]
    BY <1>1
  <2> QED BY <2>1, <2>2 DEF Reported
<1>4. ASSUME NEW what, NEW of, NEW why, e = ErrorOf(what, of, why) PROVE Reported(what, of)'
  <2>1. Len(me) + 1 \in DOMAIN me' /\ me'[Len(me) + 1].what = what /\ me'[Len(me) + 1].of = of
    BY <1>1, <1>4 DEF ErrorOf
  <2> QED BY <2>1 DEF Reported
<1> QED BY <1>1, <1>2, <1>3, <1>4

\* An error ends the call, unless errors are collected and it is no panic.
LEMMA JudgeStep ==
  ASSUME NEW what, NEW of, NEW verdicts, NEW next, NEW at, NEW E,
         Judge(what, of, verdicts, next, at), me \in Seq(E), me = <<>> \/ multi,
         \A why \in verdicts \ {"valid"} : ErrorOf(what, of, why) \in E
  PROVE  /\ me' \in Seq(E) /\ (~multi => Len(me') <= 1) /\ (me # <<>> => me' # <<>>)
         /\ \A w, o : Reported(w, o) => Reported(w, o)'
         /\ \/ /\ pc' = next /\ index' = at /\ (me' = <<>> \/ multi)
               /\ "valid" \in verdicts \/ Reported(what, of)'
            \/ /\ index' = index /\ me' # <<>>
               /\ pc' = "panicked" \/ (pc' = "refused" /\ ~multi)
<1>1. PICK why \in verdicts :
        /\ me' = IF why = "valid" THEN me ELSE Append(me, [what |-> what, of |-> of, why |-> why])
        /\ IF why = "valid" \/ (multi /\ why # "panic")
           THEN pc' = next /\ index' = at
           ELSE pc' = (IF why = "panic" THEN "panicked" ELSE "refused") /\ index' = index
  BY DEF Judge
<1>2. CASE why = "valid"
  <2>1. me' = me /\ pc' = next /\ index' = at
    BY <1>1, <1>2
  <2>2. \A w, o : Reported(w, o) => Reported(w, o)'
    BY <2>1 DEF Reported
  <2>3. me = <<>> => Len(me') <= 1
    BY <2>1
  <2> QED BY <1>1, <1>2, <2>1, <2>2, <2>3
<1>3. CASE why # "valid"
  <2>1. PICK e \in E : e = ErrorOf(what, of, why)
    BY <1>1, <1>3
  <2>2. me' = Append(me, e)
    BY <1>1, <1>3, <2>1 DEF ErrorOf
  <2>3. /\ me' \in Seq(E) /\ me' # <<>> /\ Len(me') = Len(me) + 1
        /\ \A w, o : Reported(w, o) => Reported(w, o)'
        /\ Reported(what, of)'
    BY <2>1, <2>2, Kept
  <2>4. ~multi => Len(me') <= 1
    BY <2>3
  <2>5. CASE multi /\ why # "panic"
    BY <1>1, <1>3, <2>3, <2>4, <2>5
  <2>6. CASE ~(multi /\ why # "panic")
    BY <1>1, <1>3, <2>3, <2>4, <2>6
  <2> QED BY <2>5, <2>6
<1> QED BY <1>2, <1>3

-----------------------------------------------------------------------------
(* The steps.                                                               *)

\* The errors there can be are those of the call.
LEMMA SameErrors ==
  ASSUME operation' = operation, request' = request, multi' = multi
  PROVE  /\ Effective' = Effective /\ RequestErrors' = RequestErrors
         /\ \A p : Overridden(p)' = Overridden(p)
         /\ reply' = reply => Errors' = Errors
<1>1. Effective' = Effective
  BY DEF Effective
<1>2. \A p : ParameterErrors(p)' = ParameterErrors(p)
  BY Steady DEF ParameterErrors
<1>3. BodyErrors' = BodyErrors
  BY Steady DEF BodyErrors
<1>4. RequestErrors' = RequestErrors
  BY <1>1, <1>2, <1>3 DEF RequestErrors
<1>5. \A p : Overridden(p)' = Overridden(p)
  BY DEF Overridden
<1>6. ASSUME reply' = reply PROVE Errors' = Errors
  <2>1. ReplyErrors' = ReplyErrors
    BY <1>6, SteadyReply DEF ReplyErrors
  <2> QED BY <1>4, <2>1 DEF Errors
<1> QED BY <1>1, <1>4, <1>5, <1>6

\* What was judged stays so.
LEMMA StillJudged ==
  ASSUME operation' = operation, request' = request, multi' = multi,
         \A what, of : Reported(what, of) => Reported(what, of)'
  PROVE  /\ \A p : ParameterJudged(p) => ParameterJudged(p)'
         /\ Judged("body", None, BodyVerdicts) => Judged("body", None, BodyVerdicts)'
BY Steady DEF Judged, ParameterJudged

\* The error a check gives is among them.
LEMMA ErrorsHave ==
  /\ \A p \in Effective : \A why \in ParameterVerdicts(p) \ {"valid"} : ErrorOf("parameter", p, why) \in RequestErrors
  /\ operation.body # None => \A why \in BodyVerdicts \ {"valid"} : ErrorOf("body", None, why) \in RequestErrors
  /\ \A why \in {"valid", "insecure"} \ {"valid"} : ErrorOf("security", None, why) \in RequestErrors
  /\ \A why \in ResponseVerdicts \ {"valid"} : ErrorOf("reply", None, why) \in Errors
<1>1. ASSUME NEW p \in Effective, NEW why \in ParameterVerdicts(p) \ {"valid"}
      PROVE  ErrorOf("parameter", p, why) \in RequestErrors
  BY DEF RequestErrors, ParameterErrors
<1>2. ASSUME operation.body # None, NEW why \in BodyVerdicts \ {"valid"} PROVE ErrorOf("body", None, why) \in RequestErrors
  <2>1. ErrorOf("body", None, why) \in BodyErrors
    BY <1>2 DEF BodyErrors
  <2> QED BY <2>1 DEF RequestErrors
<1>3. ASSUME NEW why \in {"valid", "insecure"} \ {"valid"} PROVE ErrorOf("security", None, why) \in RequestErrors
  BY DEF RequestErrors
<1>4. ASSUME NEW why \in ResponseVerdicts \ {"valid"} PROVE ErrorOf("reply", None, why) \in Errors
  <2>1. ErrorOf("reply", None, why) \in ReplyErrors
    BY DEF ReplyErrors
  <2> QED BY <2>1 DEF Errors
<1> QED BY <1>1, <1>2, <1>3, <1>4

\* The places a check of a request goes on from.
Walking == {"pathItem", "params", "body", "security", "verdict"}

\* What a check leaves, wherever it goes: all of JInv but where it is and what is behind it.
LEMMA JudgeLeaves ==
  ASSUME JInv, pc \in Walking, NEW what, NEW of, NEW verdicts, NEW next \in Walking, NEW at,
         Judge(what, of, verdicts, next, at), UNCHANGED <<operation, request, multi, reply>>,
         \A why \in verdicts \ {"valid"} : ErrorOf(what, of, why) \in RequestErrors,
         at \in 1..(1 + Len(operation.pathItem)) \cup 1..(1 + Len(operation.params)),
         next = "pathItem" => at <= 1 + Len(operation.pathItem),
         next = "params" => at <= 1 + Len(operation.params),
         pc' = next /\ index' = at /\ ("valid" \in verdicts \/ Reported(what, of)') => ProgressInv'
  PROVE  JInv'
<1>1. /\ TypeOK /\ me \in Seq(RequestErrors) /\ (me = <<>> \/ multi) /\ (~Ended => ProgressInv)
  BY DEF JInv, Walking, TypeOK
<1>2. /\ me' \in Seq(RequestErrors) /\ (~multi => Len(me') <= 1)
      /\ \/ /\ pc' = next /\ index' = at /\ (me' = <<>> \/ multi)
            /\ "valid" \in verdicts \/ Reported(what, of)'
         \/ /\ index' = index /\ me' # <<>>
            /\ pc' = "panicked" \/ (pc' = "refused" /\ ~multi)
  BY <1>1, JudgeStep
<1>3. /\ RequestErrors' = RequestErrors /\ Errors' = Errors /\ operation' = operation /\ request' = request
      /\ multi' = multi /\ reply' = reply
  BY SameErrors
<1>4. me' \in Seq(Errors)'
  <2>1. RequestErrors \subseteq Errors
    BY DEF Errors
  <2>2. me' \in Seq(Errors)
    BY <1>2, <2>1, SeqMonotonic
  <2> QED BY <1>3, <2>2
<1>5. CASE pc' = next /\ index' = at /\ (me' = <<>> \/ multi) /\ ("valid" \in verdicts \/ Reported(what, of)')
  <2>1. TypeOK'
    BY <1>1, <1>3, <1>5 DEF TypeOK, Walking
  <2>2. ProgressInv'
    BY <1>5
  <2>3. pc' \notin {"accepted", "answered", "delivered"}
    BY <1>5 DEF Walking
  <2> QED BY <1>2, <1>3, <1>4, <2>1, <2>2, <2>3 DEF JInv
<1>6. CASE index' = index /\ me' # <<>> /\ (pc' = "panicked" \/ (pc' = "refused" /\ ~multi))
  <2>1. TypeOK'
    BY <1>1, <1>3, <1>6 DEF TypeOK
  <2>2. Ended' /\ pc' \notin {"accepted", "answered", "delivered"}
    BY <1>3, <1>6 DEF Ended
  <2> QED BY <1>2, <1>3, <1>4, <2>1, <2>2 DEF JInv
<1> QED BY <1>2, <1>5, <1>6

\* Going on without a check.
LEMMA GoLeaves ==
  ASSUME JInv, pc \in Walking, NEW next, NEW at, pc' = next, index' = at, UNCHANGED <<operation, request, multi, reply, me>>,
         next \in Walking \cup {"accepted", "refused"},
         next = "accepted" => me = <<>>, next = "refused" => me # <<>>,
         at \in 1..(1 + Len(operation.pathItem)) \cup 1..(1 + Len(operation.params)),
         next = "pathItem" => at <= 1 + Len(operation.pathItem),
         next = "params" => at <= 1 + Len(operation.params),
         ProgressInv'
  PROVE  JInv'
<1>1. /\ TypeOK /\ me \in Seq(RequestErrors) /\ (me = <<>> \/ multi) /\ me \in Seq(Errors) /\ (~multi => Len(me) <= 1)
  BY DEF JInv, Walking, TypeOK
<1>2. /\ RequestErrors' = RequestErrors /\ Errors' = Errors /\ operation' = operation /\ request' = request
      /\ multi' = multi /\ reply' = reply
  BY SameErrors
<1>3. TypeOK'
  BY <1>1, <1>2 DEF TypeOK, Walking
<1>4. pc' \in {"accepted", "answered", "delivered"} => me' = <<>>
  BY DEF Walking
<1> QED BY <1>1, <1>2, <1>3, <1>4 DEF JInv

\* The list a loop goes through, and where it is in it.
LEMMA LoopFacts ==
  ASSUME JInv
  PROVE  /\ operation \in Operations /\ index \in Nat \ {0}
         /\ Len(operation.pathItem) \in Nat /\ Len(operation.params) \in Nat
         /\ DOMAIN operation.pathItem = 1..Len(operation.pathItem)
         /\ DOMAIN operation.params = 1..Len(operation.params)
         /\ pc = "pathItem" => index \in 1..(1 + Len(operation.pathItem))
         /\ pc = "params" => index \in 1..(1 + Len(operation.params))
<1>1. TypeOK
  BY DEF JInv
<1>2. operation \in Operations
  BY <1>1 DEF TypeOK
<1>3. Len(operation.pathItem) \in Nat /\ Len(operation.params) \in Nat
  BY <1>2, ListFacts
<1>4. /\ index \in 1..(1 + Len(operation.pathItem)) \cup 1..(1 + Len(operation.params))
      /\ pc = "pathItem" => index <= 1 + Len(operation.pathItem)
      /\ pc = "params" => index <= 1 + Len(operation.params)
  BY <1>1 DEF TypeOK
<1>5. index \in Nat \ {0}
  BY <1>3, <1>4
<1> QED BY <1>2, <1>3, <1>4, <1>5, ListFacts

\* The loops, of lists that do not change.
LEMMA ProgressIs ==
  ASSUME operation' = operation, request' = request, multi' = multi,
         NEW L, L = operation.pathItem, NEW M, M = operation.params,
         \A j \in DOMAIN L : (pc' = "pathItem" => j < index') /\ ~Overridden(L[j]) => ParameterJudged(L[j])',
         \A j \in DOMAIN M : pc' # "pathItem" /\ (pc' = "params" => j < index') => ParameterJudged(M[j])',
         pc' \notin {"pathItem", "params", "body"} /\ operation.body # None => Judged("body", None, BodyVerdicts)',
         pc' # "delivered"
  PROVE  ProgressInv'
<1>1. \A p : Overridden(p)' = Overridden(p)
  BY SameErrors
<1>2. operation'.pathItem = L /\ operation'.params = M /\ operation'.body = operation.body
  OBVIOUS
<1> QED BY <1>1, <1>2 DEF ProgressInv

\* The first loop, over the path item's parameters (validate_request.go:47-63).
LEMMA PathItemKeeps == JInv /\ PathItemParameter => JInv'
<1> SUFFICES ASSUME JInv, PathItemParameter PROVE JInv'
  OBVIOUS
<1>1. pc = "pathItem" /\ UNCHANGED <<operation, request, multi, reply>> /\ ProgressInv /\ pc \in Walking
  BY DEF PathItemParameter, JInv, Ended, Walking
<1>2. PICK L, M : L = operation.pathItem /\ M = operation.params
  OBVIOUS
<1>3. /\ operation \in Operations /\ index \in 1..(1 + Len(L)) /\ Len(L) \in Nat /\ Len(M) \in Nat
      /\ DOMAIN L = 1..Len(L) /\ DOMAIN M = 1..Len(M)
  BY <1>1, <1>2, LoopFacts
<1>4. \A j \in DOMAIN L : j < index /\ ~Overridden(L[j]) => ParameterJudged(L[j])
  BY <1>1, <1>2 DEF ProgressInv
<1>5. CASE index > Len(L)
  <2>1. pc' = "params" /\ index' = 1 /\ me' = me
    BY <1>1, <1>2, <1>5 DEF PathItemParameter, GoTo
  <2>2. \A w, o : Reported(w, o) => Reported(w, o)'
    BY <2>1 DEF Reported
  <2>3. \A j \in DOMAIN L : ~Overridden(L[j]) => ParameterJudged(L[j])
    BY <1>3, <1>4, <1>5
  <2>4. \A j \in DOMAIN L : ~Overridden(L[j]) => ParameterJudged(L[j])'
    BY <1>1, <2>2, <2>3, StillJudged
  <2>5. \A j \in DOMAIN M : ~(j < index')
    BY <1>3, <2>1
  <2>6. ProgressInv'
    BY <1>1, <1>2, <2>1, <2>4, <2>5, ProgressIs
  <2> QED BY <1>1, <1>2, <1>3, <2>1, <2>6, GoLeaves DEF Walking
<1>6. CASE index <= Len(L)
  <2>1. PICK p : p = L[index]
    OBVIOUS
  <2>2. /\ index \in DOMAIN L /\ ~(index > Len(L)) /\ index + 1 \in 1..(1 + Len(L))
        /\ \A j \in DOMAIN L : j < index + 1 => j < index \/ j = index
    BY <1>3, <1>6
  <2>3. ASSUME pc' = "pathItem", index' = index + 1, Overridden(p) \/ ParameterJudged(p)',
               \A w, o : Reported(w, o) => Reported(w, o)'
        PROVE  ProgressInv'
    <3>1. ASSUME NEW j \in DOMAIN L, j < index + 1, ~Overridden(L[j]) PROVE ParameterJudged(L[j])'
      <4>1. CASE j < index
        BY <1>1, <1>4, <2>3, <3>1, <4>1, StillJudged
      <4>2. CASE j = index
        BY <2>1, <2>3, <3>1, <4>2
      <4> QED BY <2>2, <3>1, <4>1, <4>2
    <3> QED BY <1>1, <1>2, <2>3, <3>1, ProgressIs
  <2>4. CASE Overridden(p)
    <3>1. pc' = "pathItem" /\ index' = index + 1 /\ me' = me
      BY <1>1, <1>2, <2>1, <2>2, <2>4 DEF PathItemParameter
    <3>2. \A w, o : Reported(w, o) => Reported(w, o)'
      BY <3>1 DEF Reported
    <3>3. ProgressInv'
      BY <2>3, <2>4, <3>1, <3>2
    <3> QED BY <1>1, <1>2, <1>3, <2>2, <3>1, <3>3, GoLeaves DEF Walking
  <2>5. CASE ~Overridden(p)
    <3>1. Judge("parameter", p, ParameterVerdicts(p), "pathItem", index + 1)
      BY <1>1, <1>2, <2>1, <2>2, <2>5 DEF PathItemParameter
    <3>2. p \in Effective
      BY <1>2, <1>3, <2>1, <2>2, <2>5, EffectiveIs
    <3>3. \A why \in ParameterVerdicts(p) \ {"valid"} : ErrorOf("parameter", p, why) \in RequestErrors
      BY <3>2, ErrorsHave
    <3>4. \A w, o : Reported(w, o) => Reported(w, o)'
      BY <1>1, <3>1, <3>3, JudgeStep DEF JInv, TypeOK
    <3>5. pc' = "pathItem" /\ index' = index + 1 /\ ("valid" \in ParameterVerdicts(p) \/ Reported("parameter", p)')
          => ProgressInv'
      <4>1. ParameterVerdicts(p)' = ParameterVerdicts(p)
        BY <1>1, Steady
      <4> QED BY <2>3, <3>4, <4>1 DEF Judged, ParameterJudged
    <3>6. "pathItem" \in Walking /\ index + 1 <= 1 + Len(operation.pathItem)
          /\ index + 1 \in 1..(1 + Len(operation.pathItem)) \cup 1..(1 + Len(operation.params))
      BY <1>2, <1>3, <2>2 DEF Walking
    <3> QED BY <1>1, <3>1, <3>3, <3>5, <3>6, JudgeLeaves
  <2> QED BY <2>4, <2>5
<1> QED BY <1>3, <1>5, <1>6

\* The second, over the operation's own (validate_request.go:65-74).
LEMMA ParameterKeeps == JInv /\ OperationParameter => JInv'
<1> SUFFICES ASSUME JInv, OperationParameter PROVE JInv'
  OBVIOUS
<1>1. pc = "params" /\ UNCHANGED <<operation, request, multi, reply>> /\ ProgressInv /\ pc \in Walking
  BY DEF OperationParameter, JInv, Ended, Walking
<1>2. PICK L, M : L = operation.pathItem /\ M = operation.params
  OBVIOUS
<1>3. /\ operation \in Operations /\ index \in 1..(1 + Len(M)) /\ Len(L) \in Nat /\ Len(M) \in Nat
      /\ DOMAIN L = 1..Len(L) /\ DOMAIN M = 1..Len(M)
  BY <1>1, <1>2, LoopFacts
<1>4. /\ \A j \in DOMAIN L : ~Overridden(L[j]) => ParameterJudged(L[j])
      /\ \A j \in DOMAIN M : j < index => ParameterJudged(M[j])
  BY <1>1, <1>2 DEF ProgressInv
<1>5. CASE index > Len(M)
  <2>1. pc' = "body" /\ index' = 1 /\ me' = me
    BY <1>1, <1>2, <1>5 DEF OperationParameter, GoTo
  <2>2. \A w, o : Reported(w, o) => Reported(w, o)'
    BY <2>1 DEF Reported
  <2>3. \A j \in DOMAIN M : ParameterJudged(M[j])
    BY <1>3, <1>4, <1>5
  <2>4. /\ \A j \in DOMAIN L : ~Overridden(L[j]) => ParameterJudged(L[j])'
        /\ \A j \in DOMAIN M : ParameterJudged(M[j])'
    BY <1>1, <1>4, <2>2, <2>3, StillJudged
  <2>5. ProgressInv'
    BY <1>1, <1>2, <2>1, <2>4, ProgressIs
  <2> QED BY <1>1, <1>2, <1>3, <2>1, <2>5, GoLeaves DEF Walking
<1>6. CASE index <= Len(M)
  <2>1. PICK p : p = M[index]
    OBVIOUS
  <2>2. /\ index \in DOMAIN M /\ ~(index > Len(M)) /\ index + 1 \in 1..(1 + Len(M))
        /\ \A j \in DOMAIN M : j < index + 1 => j < index \/ j = index
    BY <1>3, <1>6
  <2>3. Judge("parameter", p, ParameterVerdicts(p), "params", index + 1)
    BY <1>1, <1>2, <2>1, <2>2 DEF OperationParameter
  <2>4. p \in Effective
    BY <1>2, <1>3, <2>1, <2>2, EffectiveIs
  <2>5. \A why \in ParameterVerdicts(p) \ {"valid"} : ErrorOf("parameter", p, why) \in RequestErrors
    BY <2>4, ErrorsHave
  <2>6. \A w, o : Reported(w, o) => Reported(w, o)'
    BY <1>1, <2>3, <2>5, JudgeStep DEF JInv, TypeOK
  <2>7. ASSUME pc' = "params", index' = index + 1, "valid" \in ParameterVerdicts(p) \/ Reported("parameter", p)'
        PROVE  ProgressInv'
    <3>1. ParameterJudged(p)'
      <4>1. ParameterVerdicts(p)' = ParameterVerdicts(p)
        BY <1>1, Steady
      <4> QED BY <2>7, <4>1 DEF Judged, ParameterJudged
    <3>2. ASSUME NEW j \in DOMAIN M, j < index + 1 PROVE ParameterJudged(M[j])'
      <4>1. CASE j < index
        BY <1>1, <1>4, <2>6, <3>2, <4>1, StillJudged
      <4>2. CASE j = index
        BY <2>1, <3>1, <4>2
      <4> QED BY <2>2, <3>2, <4>1, <4>2
    <3>3. \A j \in DOMAIN L : ~Overridden(L[j]) => ParameterJudged(L[j])'
      BY <1>1, <1>4, <2>6, StillJudged
    <3> QED BY <1>1, <1>2, <2>7, <3>2, <3>3, ProgressIs
  <2>8. "params" \in Walking /\ index + 1 <= 1 + Len(operation.params)
        /\ index + 1 \in 1..(1 + Len(operation.pathItem)) \cup 1..(1 + Len(operation.params))
    BY <1>2, <1>3, <2>2 DEF Walking
  <2> QED BY <1>1, <2>3, <2>5, <2>7, <2>8, JudgeLeaves
<1> QED BY <1>3, <1>5, <1>6

\* After the loops: all parameters are judged.
LEMMA LoopsDone ==
  ASSUME JInv, pc \in Walking \ {"pathItem", "params"}, NEW L, NEW M, L = operation.pathItem, M = operation.params
  PROVE  /\ ProgressInv
         /\ \A j \in DOMAIN L : ~Overridden(L[j]) => ParameterJudged(L[j])
         /\ \A j \in DOMAIN M : ParameterJudged(M[j])
<1>1. ProgressInv
  BY DEF JInv, Ended, Walking
<1> QED BY <1>1 DEF ProgressInv, Walking

\* GoTo resets the index to one the lists have.
LEMMA OneIsIndex ==
  ASSUME JInv
  PROVE  /\ 1 \in 1..(1 + Len(operation.pathItem)) \cup 1..(1 + Len(operation.params))
         /\ 1 <= 1 + Len(operation.pathItem) /\ 1 <= 1 + Len(operation.params)
BY LoopFacts

\* The body (validate_request.go:76-85).
LEMMA BodyKeeps == JInv /\ ValidateRequestBody => JInv'
<1> SUFFICES ASSUME JInv, ValidateRequestBody PROVE JInv'
  OBVIOUS
<1>1. pc = "body" /\ UNCHANGED <<operation, request, multi, reply>> /\ pc \in Walking \ {"pathItem", "params"}
  BY DEF ValidateRequestBody, Walking
<1>2. PICK L, M : L = operation.pathItem /\ M = operation.params
  OBVIOUS
<1>3. /\ \A j \in DOMAIN L : ~Overridden(L[j]) => ParameterJudged(L[j])
      /\ \A j \in DOMAIN M : ParameterJudged(M[j])
  BY <1>1, <1>2, LoopsDone
<1>4. ASSUME \A w, o : Reported(w, o) => Reported(w, o)', pc' = "security", operation.body # None => Judged("body", None, BodyVerdicts)'
      PROVE  ProgressInv'
  <2>1. /\ \A j \in DOMAIN L : ~Overridden(L[j]) => ParameterJudged(L[j])'
        /\ \A j \in DOMAIN M : ParameterJudged(M[j])'
    BY <1>1, <1>3, <1>4, StillJudged
  <2> QED BY <1>1, <1>2, <1>4, <2>1, ProgressIs
<1>5. CASE operation.body = None
  <2>1. pc' = "security" /\ index' = 1 /\ me' = me
    BY <1>1, <1>5 DEF ValidateRequestBody, GoTo
  <2>2. \A w, o : Reported(w, o) => Reported(w, o)'
    BY <2>1 DEF Reported
  <2>3. ProgressInv'
    BY <1>4, <1>5, <2>1, <2>2
  <2> QED BY <1>1, <2>1, <2>3, OneIsIndex, GoLeaves DEF Walking
<1>6. CASE operation.body # None
  <2>1. Judge("body", None, BodyVerdicts, "security", 1)
    BY <1>1, <1>6 DEF ValidateRequestBody
  <2>2. \A why \in BodyVerdicts \ {"valid"} : ErrorOf("body", None, why) \in RequestErrors
    BY <1>6, ErrorsHave
  <2>3. \A w, o : Reported(w, o) => Reported(w, o)'
    BY <1>1, <2>1, <2>2, JudgeStep DEF JInv, TypeOK
  <2>4. ASSUME pc' = "security", "valid" \in BodyVerdicts \/ Reported("body", None)' PROVE ProgressInv'
    <3>1. BodyVerdicts' = BodyVerdicts
      BY <1>1, Steady
    <3>2. Judged("body", None, BodyVerdicts)'
      BY <2>4, <3>1 DEF Judged
    <3> QED BY <1>4, <2>3, <2>4, <3>2
  <2>5. "security" \in Walking
    BY DEF Walking
  <2> QED BY <1>1, <2>1, <2>2, <2>4, <2>5, OneIsIndex, JudgeLeaves
<1> QED BY <1>5, <1>6

\* Security (validate_request.go:87-102).
LEMMA SecurityKeeps == JInv /\ ValidateSecurityRequirements => JInv'
<1> SUFFICES ASSUME JInv, ValidateSecurityRequirements PROVE JInv'
  OBVIOUS
<1>1. /\ pc = "security" /\ UNCHANGED <<operation, request, multi, reply>> /\ pc \in Walking \ {"pathItem", "params"}
      /\ Judge("security", None, {"valid", "insecure"}, "verdict", 1)
  BY DEF ValidateSecurityRequirements, Walking
<1>2. PICK L, M : L = operation.pathItem /\ M = operation.params
  OBVIOUS
<1>3. /\ \A j \in DOMAIN L : ~Overridden(L[j]) => ParameterJudged(L[j])
      /\ \A j \in DOMAIN M : ParameterJudged(M[j])
      /\ operation.body # None => Judged("body", None, BodyVerdicts)
  BY <1>1, <1>2, LoopsDone DEF ProgressInv
<1>4. \A why \in {"valid", "insecure"} \ {"valid"} : ErrorOf("security", None, why) \in RequestErrors
  BY ErrorsHave
<1>5. \A w, o : Reported(w, o) => Reported(w, o)'
  BY <1>1, <1>4, JudgeStep DEF JInv, TypeOK
<1>6. /\ \A j \in DOMAIN L : ~Overridden(L[j]) => ParameterJudged(L[j])'
      /\ \A j \in DOMAIN M : ParameterJudged(M[j])'
      /\ operation.body # None => Judged("body", None, BodyVerdicts)'
  BY <1>1, <1>3, <1>5, StillJudged
<1>7. pc' = "verdict" => ProgressInv'
  BY <1>1, <1>2, <1>6, ProgressIs
<1>8. "verdict" \in Walking
  BY DEF Walking
<1> QED BY <1>1, <1>4, <1>7, <1>8, OneIsIndex, JudgeLeaves

\* The end of ValidateRequest (validate_request.go:104-108).
LEMMA ReturnKeeps == JInv /\ Return => JInv'
<1> SUFFICES ASSUME JInv, Return PROVE JInv'
  OBVIOUS
<1>1. /\ pc = "verdict" /\ UNCHANGED <<operation, request, multi, reply, me>> /\ pc \in Walking \ {"pathItem", "params"}
      /\ pc' = (IF me = <<>> THEN "accepted" ELSE "refused") /\ index' = 1
  BY DEF Return, GoTo, Walking
<1>2. PICK L, M : L = operation.pathItem /\ M = operation.params
  OBVIOUS
<1>3. /\ \A j \in DOMAIN L : ~Overridden(L[j]) => ParameterJudged(L[j])
      /\ \A j \in DOMAIN M : ParameterJudged(M[j])
      /\ operation.body # None => Judged("body", None, BodyVerdicts)
  BY <1>1, <1>2, LoopsDone DEF ProgressInv
<1>4. \A w, o : Reported(w, o) => Reported(w, o)'
  BY <1>1 DEF Reported
<1>5. /\ \A j \in DOMAIN L : ~Overridden(L[j]) => ParameterJudged(L[j])'
      /\ \A j \in DOMAIN M : ParameterJudged(M[j])'
      /\ operation.body # None => Judged("body", None, BodyVerdicts)'
  BY <1>1, <1>3, <1>4, StillJudged
<1>6. ProgressInv'
  BY <1>1, <1>2, <1>5, ProgressIs
<1> QED BY <1>1, <1>6, OneIsIndex, GoLeaves

\* The backend's answer.
LEMMA AnswerKeeps == JInv /\ Answer => JInv'
<1> SUFFICES ASSUME JInv, Answer PROVE JInv'
  OBVIOUS
<1>1. /\ pc = "accepted" /\ UNCHANGED <<operation, request, multi, me>> /\ pc' = "answered" /\ index' = 1
      /\ reply' \in Replies[operation]
  BY DEF Answer, GoTo
<1>2. PICK L, M : L = operation.pathItem /\ M = operation.params
  OBVIOUS
<1>3. TypeOK /\ me = <<>> /\ ProgressInv
  BY <1>1 DEF JInv, Ended
<1>4. \A w, o : Reported(w, o) => Reported(w, o)'
  BY <1>1 DEF Reported
<1>5. /\ \A j \in DOMAIN L : ~Overridden(L[j]) => ParameterJudged(L[j])'
      /\ \A j \in DOMAIN M : ParameterJudged(M[j])'
      /\ operation.body # None => Judged("body", None, BodyVerdicts)'
  BY <1>1, <1>2, <1>3, <1>4, StillJudged DEF ProgressInv
<1>6. ProgressInv'
  BY <1>1, <1>2, <1>5, ProgressIs
<1>7. TypeOK'
  <2>1. 1 \in 1..(1 + Len(operation.pathItem)) \cup 1..(1 + Len(operation.params))
    BY OneIsIndex
  <2> QED BY <1>1, <1>3, <2>1 DEF TypeOK
<1>8. me' = <<>> /\ me' \in Seq(Errors)' /\ me' \in Seq(RequestErrors)' /\ Len(me') = 0
  BY <1>1, <1>3
<1> QED BY <1>1, <1>6, <1>7, <1>8 DEF JInv

\* ValidateResponse and what the handler does with its error.
LEMMA ResponseKeeps == JInv /\ ValidateResponse => JInv'
<1> SUFFICES ASSUME JInv, ValidateResponse PROVE JInv'
  OBVIOUS
<1>1. /\ pc = "answered" /\ UNCHANGED <<operation, request, multi, index, reply>>
  BY DEF ValidateResponse
<1>2. PICK why \in ResponseVerdicts :
        /\ pc' = CASE why = "valid" -> "delivered" [] why = "panic" -> "panicked" [] OTHER -> "blocked"
        /\ me' = IF why = "valid" THEN me ELSE <<ErrorOf("reply", None, why)>>
  BY DEF ValidateResponse, ErrorOf
<1>3. PICK L, M : L = operation.pathItem /\ M = operation.params
  OBVIOUS
<1>4. TypeOK /\ me = <<>> /\ ProgressInv /\ me \in Seq(RequestErrors)
  BY <1>1 DEF JInv, Ended
<1>5. \A w, o : ~Reported(w, o)
  BY <1>4 DEF Reported
<1>6. \A w, o : Reported(w, o) => Reported(w, o)'
  BY <1>5
<1>7. /\ \A j \in DOMAIN L : ~Overridden(L[j]) => ParameterJudged(L[j])'
      /\ \A j \in DOMAIN M : ParameterJudged(M[j])'
      /\ operation.body # None => Judged("body", None, BodyVerdicts)'
  BY <1>1, <1>3, <1>4, <1>6, StillJudged DEF ProgressInv
<1>8. ResponseVerdicts' = ResponseVerdicts /\ Errors' = Errors /\ RequestErrors' = RequestErrors
  BY <1>1, SteadyReply, SameErrors
<1>9. CASE why = "valid"
  <2>1. pc' = "delivered" /\ me' = <<>>
    BY <1>2, <1>4, <1>9
  <2>2. ProgressInv'
    <3>1. \A p : Overridden(p)' = Overridden(p)
      BY <1>1, SameErrors
    <3>2. operation'.pathItem = L /\ operation'.params = M /\ operation'.body = operation.body
      BY <1>1, <1>3
    <3>3. ("valid" \in ResponseVerdicts)'
      BY <1>2, <1>8, <1>9
    <3> QED BY <1>7, <3>1, <3>2, <3>3 DEF ProgressInv
  <2>3. TypeOK'
    BY <1>1, <1>4, <2>1 DEF TypeOK
  <2>4. me' \in Seq(Errors)' /\ me' \in Seq(RequestErrors)' /\ Len(me') = 0
    BY <2>1
  <2> QED BY <2>1, <2>2, <2>3, <2>4 DEF JInv
<1>10. CASE why # "valid"
  <2>1. pc' \in {"panicked", "blocked"}
    BY <1>2, <1>10
  <2>2. PICK e \in Errors : e = ErrorOf("reply", None, why)
    BY <1>2, <1>10, ErrorsHave
  <2>3. me' = <<e>>
    BY <1>2, <1>10, <2>2
  <2>4. me' \in Seq(Errors) /\ Len(me') = 1 /\ me' # <<>>
    BY <2>3
  <2>5. pc' = "blocked" => ProgressInv'
    BY <1>1, <1>3, <1>7, ProgressIs
  <2>6. TypeOK'
    BY <1>1, <1>4, <2>1, <2>4 DEF TypeOK
  <2> QED BY <1>8, <2>1, <2>4, <2>5, <2>6 DEF JInv, Ended
<1> QED BY <1>9, <1>10

\* Nothing happens.
LEMMA StutterKeeps == JInv /\ UNCHANGED vars => JInv'
<1> SUFFICES ASSUME JInv, UNCHANGED vars PROVE JInv'
  OBVIOUS
<1>1. UNCHANGED <<operation, request, multi, pc, index, me, reply>>
  BY DEF vars
<1>2. Errors' = Errors /\ RequestErrors' = RequestErrors /\ ResponseVerdicts' = ResponseVerdicts
  BY <1>1, SteadyReply, SameErrors
<1>3. TypeOK'
  BY <1>1 DEF JInv, TypeOK
<1>4. ProgressInv => ProgressInv'
  <2>1. \A w, o : Reported(w, o) => Reported(w, o)'
    BY <1>1 DEF Reported
  <2>2. PICK L, M : L = operation.pathItem /\ M = operation.params
    OBVIOUS
  <2>3. operation'.pathItem = L /\ operation'.params = M /\ operation'.body = operation.body
    BY <1>1, <2>2
  <2>4. \A p : Overridden(p)' = Overridden(p) /\ (ParameterJudged(p) => ParameterJudged(p)')
    BY <1>1, <2>1, SameErrors, StillJudged
  <2>5. Judged("body", None, BodyVerdicts) => Judged("body", None, BodyVerdicts)'
    BY <1>1, <2>1, StillJudged
  <2> QED BY <1>1, <1>2, <2>2, <2>3, <2>4, <2>5 DEF ProgressInv
<1> QED BY <1>1, <1>2, <1>3, <1>4 DEF JInv, Ended

\* The invariant is inductive.
LEMMA NextJInv == JInv /\ [Next]_vars => JInv'
<1> SUFFICES ASSUME JInv, [Next]_vars PROVE JInv'
  OBVIOUS
<1>1. CASE Done
  BY <1>1, StutterKeeps DEF Done
<1>2. CASE UNCHANGED vars
  BY <1>2, StutterKeeps
<1> QED BY <1>1, <1>2, PathItemKeeps, ParameterKeeps, BodyKeeps, SecurityKeeps, ReturnKeeps, AnswerKeeps,
           ResponseKeeps DEF Next

-----------------------------------------------------------------------------
(* What follows.                                                            *)

\* The invariant holds of every call of ValidateRequest and of what follows it.
THEOREM Invariance == Spec => []JInv
<1> QED BY InitJInv, NextJInv, PTL DEF Spec

\* The index is one the loop can use and the errors are those of the verdict (ValidateRequest).
THEOREM TypeCorrect == Spec => []TypeOK
<1>1. JInv => TypeOK
  BY DEF JInv
<1> QED BY <1>1, Invariance, PTL

\* What an error that was kept says.
LEMMA ErrorIs ==
  ASSUME JInv, NEW k \in DOMAIN me
  PROVE  /\ me[k] \in Errors
         /\ \A p : <<me[k].what, me[k].of>> = <<"parameter", p>> => p \in Effective /\ me[k].why \in ParameterVerdicts(p) \ {"valid"}
         /\ <<me[k].what, me[k].of>> = <<"body", None>> => operation.body # None /\ me[k].why \in BodyVerdicts \ {"valid"}
         /\ <<me[k].what, me[k].of>> = <<"reply", None>> => me[k].why \in ResponseVerdicts \ {"valid"}
<1>1. me \in Seq(Errors)
  BY DEF JInv
<1>2. me[k] \in Errors
  BY <1>1
<1>3. \/ \E p \in Effective : \E why \in ParameterVerdicts(p) \ {"valid"} : me[k] = ErrorOf("parameter", p, why)
      \/ operation.body # None /\ \E why \in BodyVerdicts \ {"valid"} : me[k] = ErrorOf("body", None, why)
      \/ me[k] = ErrorOf("security", None, "insecure")
      \/ \E why \in ResponseVerdicts \ {"valid"} : me[k] = ErrorOf("reply", None, why)
  BY <1>2 DEF Errors, RequestErrors, ReplyErrors, BodyErrors, ParameterErrors
<1>4. \A w, o, y : ErrorOf(w, o, y).what = w /\ ErrorOf(w, o, y).of = o /\ ErrorOf(w, o, y).why = y
  BY DEF ErrorOf
<1>5. CASE \E p \in Effective : \E why \in ParameterVerdicts(p) \ {"valid"} : me[k] = ErrorOf("parameter", p, why)
  <2>1. PICK p \in Effective : \E why \in ParameterVerdicts(p) \ {"valid"} : me[k] = ErrorOf("parameter", p, why)
    BY <1>5
  <2>2. PICK why \in ParameterVerdicts(p) \ {"valid"} : me[k] = ErrorOf("parameter", p, why)
    BY <2>1
  <2>3. me[k].what = "parameter" /\ me[k].of = p /\ me[k].why = why
    BY <2>2, <1>4
  <2>4. \A q : <<me[k].what, me[k].of>> = <<"parameter", q>> => q = p
    BY <2>3
  <2> QED BY <1>2, <2>2, <2>3, <2>4
<1>6. CASE operation.body # None /\ \E why \in BodyVerdicts \ {"valid"} : me[k] = ErrorOf("body", None, why)
  <2>2. PICK why \in BodyVerdicts \ {"valid"} : me[k] = ErrorOf("body", None, why)
    BY <1>6
  <2>3. me[k].what = "body" /\ me[k].of = None /\ me[k].why = why
    BY <2>2, <1>4
  <2> QED BY <1>2, <1>6, <2>2, <2>3
<1>7. CASE me[k] = ErrorOf("security", None, "insecure")
  <2>1. me[k].what = "security"
    BY <1>4, <1>7
  <2> QED BY <1>2, <2>1
<1>8. CASE \E why \in ResponseVerdicts \ {"valid"} : me[k] = ErrorOf("reply", None, why)
  <2>2. PICK why \in ResponseVerdicts \ {"valid"} : me[k] = ErrorOf("reply", None, why)
    BY <1>8
  <2>3. me[k].what = "reply" /\ me[k].of = None /\ me[k].why = why
    BY <2>2, <1>4
  <2> QED BY <1>2, <2>2, <2>3
<1> QED BY <1>3, <1>5, <1>6, <1>7, <1>8

\* What passed had a verdict "valid", and what failed another.
LEMMA Reasons ==
  ASSUME JInv
  PROVE  /\ \A p \in Effective : Passed("parameter", p) => "valid" \in ParameterVerdicts(p)
         /\ \A p : Failed("parameter", p) => \E why \in ParameterVerdicts(p) : why # "valid"
         /\ operation.body # None /\ Passed("body", None) => "valid" \in BodyVerdicts
         /\ Failed("body", None) => \E why \in BodyVerdicts : why # "valid"
         /\ pc = "delivered" => "valid" \in ResponseVerdicts
         /\ Failed("reply", None) => \E why \in ResponseVerdicts : why # "valid"
<1>1. \A w, o : Passed(w, o) => ~Reported(w, o) /\ pc \in {"accepted", "refused"} /\ ~Ended
  BY DEF Passed, Reported, Ended
<1>2. \A p \in Effective : Passed("parameter", p) => "valid" \in ParameterVerdicts(p)
  <2> TAKE p \in Effective
  <2> HAVE Passed("parameter", p)
  <2>1. ProgressInv /\ pc \notin {"pathItem", "params"} /\ operation \in Operations
    BY <1>1 DEF JInv, TypeOK
  <2>2. \/ \E j \in DOMAIN operation.params : p = operation.params[j]
        \/ \E j \in DOMAIN operation.pathItem : p = operation.pathItem[j] /\ ~Overridden(p)
    BY <2>1, EffectiveIs
  <2>3. ParameterJudged(p)
    BY <2>1, <2>2 DEF ProgressInv
  <2> QED BY <1>1, <2>3 DEF ParameterJudged, Judged
<1>3. operation.body # None /\ Passed("body", None) => "valid" \in BodyVerdicts
  <2> HAVE operation.body # None /\ Passed("body", None)
  <2>1. ProgressInv /\ pc \notin {"pathItem", "params", "body"}
    BY <1>1 DEF JInv
  <2> QED BY <1>1, <2>1 DEF ProgressInv, Judged
<1>4. pc = "delivered" => "valid" \in ResponseVerdicts
  BY DEF JInv, Ended, ProgressInv
<1>5. \A w, o : Failed(w, o) => \E k \in DOMAIN me : <<me[k].what, me[k].of>> = <<w, o>>
  BY DEF Failed
<1> QED
  <2>1. \A p : Failed("parameter", p) => \E why \in ParameterVerdicts(p) : why # "valid"
    <3> TAKE p
    <3> HAVE Failed("parameter", p)
    <3>1. PICK k \in DOMAIN me : <<me[k].what, me[k].of>> = <<"parameter", p>>
      BY <1>5
    <3>2. me[k].why \in ParameterVerdicts(p) \ {"valid"}
      BY <3>1, ErrorIs
    <3> QED BY <3>2
  <2>2. Failed("body", None) => \E why \in BodyVerdicts : why # "valid"
    <3> HAVE Failed("body", None)
    <3>1. PICK k \in DOMAIN me : <<me[k].what, me[k].of>> = <<"body", None>>
      BY <1>5
    <3>2. me[k].why \in BodyVerdicts \ {"valid"}
      BY <3>1, ErrorIs
    <3> QED BY <3>2
  <2>3. Failed("reply", None) => \E why \in ResponseVerdicts : why # "valid"
    <3> HAVE Failed("reply", None)
    <3>1. PICK k \in DOMAIN me : <<me[k].what, me[k].of>> = <<"reply", None>>
      BY <1>5
    <3>2. me[k].why \in ResponseVerdicts \ {"valid"}
      BY <3>1, ErrorIs
    <3> QED BY <3>2
  <2> QED BY <1>2, <1>3, <1>4, <2>1, <2>2, <2>3

\* Nothing that the operation has, or inherits and does not override, is
\* skipped: what ValidateRequest accepts, and so all that reaches the backend,
\* had a verdict "valid" on each parameter and on the body, and what is
\* delivered had one on the reply (the loops and early returns of
\* validate_request.go:47-108).
AllJudged ==
    /\ pc \in {"accepted", "answered", "delivered"} =>
          /\ \A p \in Effective : "valid" \in ParameterVerdicts(p)
          /\ operation.body # None => "valid" \in BodyVerdicts
    /\ pc = "delivered" => "valid" \in ResponseVerdicts

\* Each parameter, the body and the reply were judged before anything passed (ValidateRequest, ValidateResponse).
THEOREM NothingSkipped == Spec => []AllJudged
<1>1. JInv => AllJudged
  <2> SUFFICES ASSUME JInv PROVE AllJudged
    OBVIOUS
  <2>1. pc \in {"accepted", "answered", "delivered"} =>
          /\ \A p \in Effective : "valid" \in ParameterVerdicts(p)
          /\ operation.body # None => "valid" \in BodyVerdicts
    <3> HAVE pc \in {"accepted", "answered", "delivered"}
    <3>1. ProgressInv /\ me = <<>> /\ operation \in Operations
      BY DEF JInv, Ended, TypeOK
    <3>2. \A w, o : ~Reported(w, o)
      BY <3>1 DEF Reported
    <3>3. \A p \in Effective : ParameterJudged(p)
      BY <3>1, EffectiveIs DEF ProgressInv
    <3>4. operation.body # None => Judged("body", None, BodyVerdicts)
      BY <3>1 DEF ProgressInv
    <3> QED BY <3>2, <3>3, <3>4 DEF ParameterJudged, Judged
  <2> QED BY <2>1, Reasons DEF AllJudged
<1> QED BY <1>1, Invariance, PTL

\* Nor is anything reported that was not found: an error about a parameter,
\* the body or the reply is one of the verdicts on just that.
AllFound ==
    /\ \A p \in Parameters : Failed("parameter", p) => p \in Effective /\ \E why \in ParameterVerdicts(p) : why # "valid"
    /\ Failed("body", None) => operation.body # None /\ \E why \in BodyVerdicts : why # "valid"
    /\ Failed("reply", None) => \E why \in ResponseVerdicts : why # "valid"

\* Each reported error has its verdict (ValidateRequest, ValidateResponse).
THEOREM NothingInvented == Spec => []AllFound
<1>1. JInv => AllFound
  <2> SUFFICES ASSUME JInv PROVE AllFound
    OBVIOUS
  <2>1. \A p \in Parameters : Failed("parameter", p) => p \in Effective
    BY ErrorIs DEF Failed
  <2>2. Failed("body", None) => operation.body # None
    BY ErrorIs DEF Failed
  <2> QED BY <2>1, <2>2, Reasons DEF AllFound
<1> QED BY <1>1, Invariance, PTL

\* A single verdict agrees with what the parameter, the body or the reply means.
ParametersRight ==
    \A p \in Effective :
        /\ "valid" \in ParameterVerdicts(p) => Good(p) \/ Reinterpreted(p)
        /\ (\E why \in ParameterVerdicts(p) : why # "valid") => Undecodable(p) \/ Reinterpreted(p) \/ ~Good(p)
BodiesRight ==
    /\ operation.body # None /\ ~RequestOwn =>
          ("valid" \in BodyVerdicts => RequestGood) /\ ((\E why \in BodyVerdicts : why # "valid") => ~RequestGood)
    /\ ReplyCounts /\ ~ReplyOwn =>
          ("valid" \in ResponseVerdicts => ReplyGood) /\ ((\E why \in ResponseVerdicts : why # "valid") => ~ReplyGood)

\* Where the single verdicts are right, so are the answers of ValidateRequest and
\* ValidateResponse: no order, override, inherited parameter or collected error comes between.
THEOREM Lifted ==
  Spec => [](/\ ParametersRight => PassedParametersConform /\ FailedParametersDoNot
             /\ BodiesRight => BodiesAreJudged)
<1>1. JInv => (ParametersRight => PassedParametersConform /\ FailedParametersDoNot)
  <2> SUFFICES ASSUME JInv, ParametersRight PROVE PassedParametersConform /\ FailedParametersDoNot
    OBVIOUS
  <2>1. /\ \A p \in Effective : Passed("parameter", p) => "valid" \in ParameterVerdicts(p)
        /\ \A p : Failed("parameter", p) => \E why \in ParameterVerdicts(p) : why # "valid"
    BY Reasons
  <2>2. PassedParametersConform
    BY <2>1 DEF ParametersRight, PassedParametersConform
  <2>3. FailedParametersDoNot
    BY <2>1 DEF ParametersRight, FailedParametersDoNot
  <2> QED BY <2>2, <2>3
<1>2. JInv => (BodiesRight => BodiesAreJudged)
  <2> SUFFICES ASSUME JInv, BodiesRight PROVE BodiesAreJudged
    OBVIOUS
  <2>1. /\ operation.body # None /\ Passed("body", None) => "valid" \in BodyVerdicts
        /\ Failed("body", None) => \E why \in BodyVerdicts : why # "valid"
        /\ pc = "delivered" => "valid" \in ResponseVerdicts
        /\ Failed("reply", None) => \E why \in ResponseVerdicts : why # "valid"
    BY Reasons
  <2> QED BY <2>1 DEF BodiesRight, BodiesAreJudged
<1> QED BY <1>1, <1>2, Invariance, PTL
=============================================================================
