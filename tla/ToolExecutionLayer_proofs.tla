---------------------- MODULE ToolExecutionLayer_proofs ----------------------
(***************************************************************************)
(* Proofs about retrieval, in four parts.                                  *)
(*                                                                         *)
(* ToolExecutionLayer, for every set of families, services and requests:   *)
(* type correctness, the bound on the attempts of a request, the           *)
(* constraints every run family satisfies, that a promised retry runs and  *)
(* that a usable result is returned; and, of the requests that Research    *)
(* Executor builds, that a promised fallback finds a family.               *)
(*                                                                         *)
(* ArxivSearchClient and PoolRegistry, the two objects that all requests   *)
(* of a process share and guard with a lock, for any number of callers and *)
(* databases.  A wait is computed when the lock is taken and used later.   *)
(* What makes it still right then is that the two values it was computed   *)
(* from only change while the lock is held: LockInv says so.  Likewise, a  *)
(* pool that was missing when the lock was taken is still missing when it  *)
(* has been created: RegistryInv says so.                                  *)
(*                                                                         *)
(* SourceFamilies and EvidenceProcessing, from the hits of a search to the *)
(* answer, for any documents, limits and answers of the model.  Materials  *)
(* and evidence are folds over sequences; that a fact holds of all prefixes *)
(* follows from looking at the shortest prefix it fails of.  ToolInv relates *)
(* items to hits; EvidenceInv says that what has been handed over stays what *)
(* it was and that the answer follows from it.  The last theorem says that *)
(* this implements EvidenceStage but for its liveness.                     *)
(***************************************************************************)
EXTENDS ExecutorAcquisition, MCRetrieval, FiniteSetTheorems, SequenceTheorems,
        WellFoundedInduction, TLAPS

Active == pc \in {"run", "evaluate"} \/ retryContext # NoFamily

\* Families with spent retries are the current one and the abandoned ones; the
\* current one is not abandoned while it is active.
RetriesAreConfined ==
    /\ \A g \in Family : retries[g] <= request.budget
    /\ \A g \in Family : retries[g] > 0 => g \in blocked \cup {selected}
    /\ Active => selected \in Family \ blocked
    /\ retryContext # NoFamily => retryContext = selected
    /\ pc = "prepare" /\ retryContext = NoFamily /\ selected # NoFamily
         => selected \in blocked

\* Without a fallback every retry belongs to the current family; after one, at
\* most a budget of them belongs to the family that was left.
RetriesAreSplit ==
    /\ retryTotal <= 2 * request.budget
    /\ ~fallbackApplied /\ Active => retryTotal = retries[selected]
    /\ ~fallbackApplied /\ ~Active /\ pc # "done"
         => retryTotal = 0 /\ \A g \in Family : retries[g] = 0
    /\ fallbackApplied /\ Active => retryTotal <= request.budget + retries[selected]
    /\ fallbackApplied /\ ~Active /\ pc # "done" => retryTotal <= request.budget

\* The selected family satisfies the constraints of the request while active.
SelectionIsLegal ==
    Active =>
        /\ selected \in Registered \cap Scope
        /\ selected \notin request.blocked
        /\ request.allowed # {} => selected \in request.allowed
        /\ selected = Recall => request.owner

IInv ==
    /\ TypeOK
    /\ RecoveryIsAccounted
    /\ RetriesAreConfined
    /\ RetriesAreSplit
    /\ SelectionIsLegal

-----------------------------------------------------------------------------
(* Lemmas about the operators of the model.                                 *)

\* What the evaluator may answer: the hint of a retry is "retry", of a stop
\* "stop", and only a fallback widens the search.
LEMMA EvaluationShape ==
    /\ Evaluation \in [action: {"stop", "retry", "fallback"},
                       hint: {"stop", "retry", "within_same_family", "broader"}]
    /\ Evaluation.action = "stop" <=> Evaluation.hint = "stop"
    /\ Evaluation.action = "retry" <=> Evaluation.hint = "retry"
BY DEF Evaluation, RetryThenFallback, FallbackThenRetry, FallbackOnly, Retry, Stop, Fallback

\* Selection respects the scope and the filters.
LEMMA LeadingIsLegal ==
    ASSUME NEW f \in Leading
    PROVE  /\ f \in Scope
           /\ f \notin request.blocked \cup blocked
           /\ request.allowed # {} => f \in request.allowed
BY DEF Leading, Candidates, Filtered

\* The fields of a request have the types the model declares.
LEMMA RequestFields ==
    ASSUME TypeOK
    PROVE  /\ request \in RequestShape
           /\ request.budget \in Nat
           /\ request.blocked \subseteq Family
BY RequestAssumption DEF TypeOK, RequestShape

-----------------------------------------------------------------------------
(* Type correctness.                                                        *)

LEMMA InitTyped == Init => TypeOK
<1> SUFFICES ASSUME Init PROVE TypeOK
  OBVIOUS
<1>1. request.blocked \subseteq Family
  BY RequestAssumption DEF Init, RequestShape
<1>2. retries \in [Family -> Nat] /\ attempts \in Seq(Attempt)
  BY DEF Init
<1>3. fallbackApplied \in BOOLEAN
  BY DEF Init
<1> QED
  BY <1>1, <1>2, <1>3 DEF Init, TypeOK

LEMMA StepTyped == TypeOK /\ [Next]_vars => TypeOK'
<1> SUFFICES ASSUME TypeOK, [Next]_vars PROVE TypeOK'
  OBVIOUS
<1> USE DEF budgets
<1>1. ASSUME NEW f \in Family, NEW queryOk \in BOOLEAN, SelectFamily(f, queryOk)
      PROVE  TypeOK'
  BY <1>1 DEF SelectFamily, TypeOK
<1>2. CASE NoFamilySelected
  BY <1>2 DEF NoFamilySelected, TypeOK
<1>3. CASE ResumeRetry
  BY <1>3 DEF ResumeRetry, TypeOK
<1>4. ASSUME NEW res \in Outcome, RunFamily(res)
      PROVE  TypeOK'
  BY <1>4 DEF RunFamily, TypeOK
<1>5. ASSUME pc = "evaluate", attempts' = Recorded(Evaluation)
      PROVE  attempts' \in Seq(Attempt)
  <2>1. outcome.status \in {"success", "partial", "no_result", "failed"}
    BY <1>5 DEF TypeOK, Outcome
  <2>2. [family |-> selected, status |-> outcome.status, action |-> Evaluation.action]
          \in Attempt
    BY <1>5, <2>1, EvaluationShape DEF TypeOK, Attempt
  <2> QED
    BY <1>5, <2>2 DEF Recorded, TypeOK
<1>6. CASE ScheduleRetry
  <2>1. retries' \in [Family -> Nat] /\ retryTotal' \in Nat /\ recoveryCount' \in Nat
    BY <1>6 DEF ScheduleRetry, TypeOK
  <2> QED
    BY <1>5, <1>6, <2>1 DEF ScheduleRetry, TypeOK
<1>7. ASSUME pc = "evaluate", blocked' = BlockedAfter(Evaluation)
      PROVE  blocked' \subseteq Family
  BY <1>7 DEF BlockedAfter, TypeOK
<1>8. CASE ScheduleFallback
  BY <1>5, <1>7, <1>8 DEF ScheduleFallback, TypeOK
<1>9. CASE CompleteRequest
  <2>1. exhausted' \in {"none", "retry_budget_exhausted", "fallback_already_applied",
                       "same_family_fallback_not_executable"}
    BY <1>9, EvaluationShape DEF CompleteRequest, ExhaustedReason
  <2> QED
    BY <1>5, <1>7, <1>9, <2>1 DEF CompleteRequest, TypeOK
<1>10. CASE UNCHANGED vars
  BY <1>10 DEF vars, TypeOK
<1> QED
  BY <1>1, <1>2, <1>3, <1>4, <1>6, <1>8, <1>9, <1>10 DEF Next

\* Every reachable state of a request is well typed: TypeOK holds of every set
\* of families, services and requests.
THEOREM TypeCorrect == Spec => []TypeOK
BY InitTyped, StepTyped, PTL DEF Spec

-----------------------------------------------------------------------------
(* The inductive invariant.                                                 *)

LEMMA InitInv == Init => IInv
<1> SUFFICES ASSUME Init PROVE IInv
  OBVIOUS
<1>1. TypeOK
  BY InitTyped
<1>2. RecoveryIsAccounted
  BY DEF Init, RecoveryIsAccounted
<1>3. RetriesAreConfined
  BY <1>1, RequestFields DEF Init, RetriesAreConfined, Active
<1>4. RetriesAreSplit
  BY <1>1, RequestFields DEF Init, RetriesAreSplit, Active
<1>5. SelectionIsLegal
  BY DEF Init, SelectionIsLegal, Active
<1> QED
  BY <1>1, <1>2, <1>3, <1>4, <1>5 DEF IInv

\* Selection preserves the invariant: the chosen family is not blocked, so it
\* has spent no retry, and it passed every filter.
LEMMA SelectFamilyInv ==
    ASSUME IInv, TypeOK', NEW f \in Family, NEW queryOk \in BOOLEAN,
           SelectFamily(f, queryOk)
    PROVE  IInv'
<1> USE DEF budgets
<1>1. /\ request.budget \in Nat /\ request' = request /\ blocked' = blocked
      /\ retries \in [Family -> Nat] /\ retries' = retries /\ retryTotal \in Nat
      /\ retryTotal' = retryTotal /\ fallbackApplied' = fallbackApplied
      /\ pc = "prepare" /\ retryContext = NoFamily /\ retryContext' = NoFamily
      /\ selected' = f /\ pc' \in {"run", "done"}
  BY RequestFields DEF SelectFamily, IInv, TypeOK
<1>2. f \in Scope /\ f \notin request.blocked \cup blocked
      /\ (request.allowed # {} => f \in request.allowed)
  BY LeadingIsLegal DEF SelectFamily
<1>3. RecoveryIsAccounted'
  BY DEF SelectFamily, IInv, RecoveryIsAccounted, TypeOK
<1>4. selected # NoFamily => selected \in blocked
  BY <1>1 DEF IInv, RetriesAreConfined
<1>5. \A g \in Family : retries[g] > 0 => g \in blocked
  BY <1>1, <1>4, NoFamilyAssumption DEF IInv, RetriesAreConfined
<1>6. RetriesAreConfined'
  BY <1>1, <1>2, <1>5, NoFamilyAssumption DEF IInv, RetriesAreConfined, Active
<1>7. retries[f] = 0
  BY <1>1, <1>2, <1>5
<1>8. RetriesAreSplit'
  BY <1>1, <1>7 DEF IInv, RetriesAreSplit, Active
<1>9. SelectionIsLegal'
  <2>1. Scope' = Scope
    BY <1>1 DEF Scope
  <2>2. pc' = "run" => f \in Registered /\ (f = Recall => request.owner)
    BY <1>1 DEF SelectFamily, Ready
  <2> QED
    BY <1>1, <1>2, <2>1, <2>2 DEF SelectionIsLegal, Active
<1> QED
  BY <1>3, <1>6, <1>8, <1>9 DEF IInv

\* A scheduled retry spends one unit of the current family's budget.
LEMMA ScheduleRetryInv ==
    ASSUME IInv, TypeOK', ScheduleRetry
    PROVE  IInv'
<1>1. /\ request.budget \in Nat /\ request' = request /\ blocked' = blocked
      /\ retries \in [Family -> Nat] /\ retryTotal \in Nat /\ recoveryCount \in Nat
      /\ selected \in Family /\ selected' = selected /\ pc = "evaluate" /\ pc' = "prepare"
      /\ fallbackApplied' = fallbackApplied /\ retryContext' = selected
      /\ retryTotal' = retryTotal + 1 /\ recoveryCount' = recoveryCount + 1
      /\ verdict' = verdict /\ verdict = "none"
  BY RequestFields DEF ScheduleRetry, IInv, TypeOK
<1>2. /\ retries[selected] < request.budget
      /\ retries' = [retries EXCEPT ![selected] = @ + 1]
  BY DEF ScheduleRetry, RetryExecutable
<1>3. Len(attempts') = Len(attempts) + 1
  BY DEF ScheduleRetry, Recorded, IInv, TypeOK
<1>4. RecoveryIsAccounted'
  BY <1>1, <1>3 DEF IInv, RecoveryIsAccounted
<1>5. Active /\ Active'
  BY <1>1, NoFamilyAssumption DEF Active
<1>6. RetriesAreConfined'
  BY <1>1, <1>2, <1>5 DEF IInv, RetriesAreConfined
<1>7. RetriesAreSplit'
  BY <1>1, <1>2, <1>5 DEF IInv, RetriesAreSplit
<1>8. SelectionIsLegal'
  <2>1. Scope' = Scope
    BY <1>1 DEF Scope
  <2> QED
    BY <1>1, <1>5, <2>1 DEF IInv, SelectionIsLegal
<1> QED
  BY <1>4, <1>6, <1>7, <1>8 DEF IInv

\* The only fallback abandons the current family with the retries it spent.
LEMMA ScheduleFallbackInv ==
    ASSUME IInv, TypeOK', ScheduleFallback
    PROVE  IInv'
<1>1. /\ request.budget \in Nat /\ request' = request
      /\ blocked' = blocked \cup {selected}
      /\ retries \in [Family -> Nat] /\ retries' = retries
      /\ retryTotal \in Nat /\ retryTotal' = retryTotal
      /\ selected \in Family /\ selected' = selected /\ pc = "evaluate" /\ pc' = "prepare"
      /\ fallbackApplied = FALSE /\ fallbackApplied' = TRUE
      /\ retryContext = NoFamily /\ retryContext' = NoFamily
      /\ recoveryCount \in Nat /\ recoveryCount' = recoveryCount + 1
      /\ verdict' = verdict /\ verdict = "none"
  BY RequestFields
  DEF ScheduleFallback, FallbackExecutable, BlockedAfter, IInv, TypeOK
<1>2. Len(attempts') = Len(attempts) + 1
  BY DEF ScheduleFallback, Recorded, IInv, TypeOK
<1>3. RecoveryIsAccounted'
  BY <1>1, <1>2 DEF IInv, RecoveryIsAccounted
<1>4. Active /\ ~Active'
  BY <1>1 DEF Active
<1>5. RetriesAreConfined'
  BY <1>1, <1>4 DEF IInv, RetriesAreConfined
<1>6. RetriesAreSplit'
  BY <1>1, <1>4 DEF IInv, RetriesAreSplit, RetriesAreConfined
<1>7. SelectionIsLegal'
  BY <1>4 DEF SelectionIsLegal
<1> QED
  BY <1>3, <1>5, <1>6, <1>7 DEF IInv

\* Completion records the last attempt and leaves the budgets alone.
LEMMA CompleteRequestInv ==
    ASSUME IInv, TypeOK', CompleteRequest
    PROVE  IInv'
<1> USE DEF budgets
<1>1. /\ request' = request /\ retries' = retries /\ retryTotal' = retryTotal
      /\ blocked \subseteq blocked' /\ selected' = selected
      /\ fallbackApplied' = fallbackApplied /\ recoveryCount' = recoveryCount
      /\ pc = "evaluate" /\ pc' = "done" /\ retryContext = NoFamily
      /\ retryContext' = NoFamily /\ verdict = "none" /\ verdict' = "completed"
      /\ recoveryCount \in Nat
  BY DEF CompleteRequest, BlockedAfter, IInv, TypeOK
<1>2. Len(attempts') = Len(attempts) + 1
  BY DEF CompleteRequest, Recorded, IInv, TypeOK
<1>3. RecoveryIsAccounted'
  BY <1>1, <1>2 DEF IInv, RecoveryIsAccounted
<1>4. ~Active'
  BY <1>1 DEF Active
<1>5. RetriesAreConfined'
  BY <1>1, <1>4 DEF IInv, RetriesAreConfined
<1>6. RetriesAreSplit'
  BY <1>1, <1>4 DEF IInv, RetriesAreSplit
<1>7. SelectionIsLegal'
  BY <1>4 DEF SelectionIsLegal
<1> QED
  BY <1>3, <1>5, <1>6, <1>7 DEF IInv

LEMMA StepInv == IInv /\ [Next]_vars => IInv'
<1> SUFFICES ASSUME IInv, [Next]_vars PROVE IInv'
  OBVIOUS
<1>0. TypeOK /\ TypeOK'
  BY StepTyped DEF IInv
<1> USE DEF budgets
<1>1. ASSUME NEW f \in Family, NEW queryOk \in BOOLEAN, SelectFamily(f, queryOk)
      PROVE  IInv'
  BY <1>0, <1>1, SelectFamilyInv
<1>2. CASE NoFamilySelected
  BY <1>0, <1>2 DEF NoFamilySelected, IInv, TypeOK, RecoveryIsAccounted,
     RetriesAreConfined, RetriesAreSplit, SelectionIsLegal, Active
<1>3. CASE ResumeRetry
  <2>1. selected = retryContext /\ selected' = selected /\ pc = "prepare"
        /\ pc' \in {"run", "done"} /\ retryContext # NoFamily /\ retryContext' = NoFamily
        /\ request' = request /\ Scope' = Scope /\ blocked' = blocked /\ retries' = retries
        /\ retryTotal' = retryTotal /\ fallbackApplied' = fallbackApplied
    BY <1>3 DEF ResumeRetry, IInv, RetriesAreConfined, Scope
  <2>2. RecoveryIsAccounted'
    BY <1>0, <1>3 DEF ResumeRetry, IInv, RecoveryIsAccounted, TypeOK
  <2>3. RetriesAreConfined' /\ RetriesAreSplit' /\ SelectionIsLegal'
    BY <2>1 DEF IInv, RetriesAreConfined, RetriesAreSplit, SelectionIsLegal, Active
  <2> QED
    BY <1>0, <2>2, <2>3 DEF IInv
<1>4. ASSUME NEW res \in Outcome, RunFamily(res)
      PROVE  IInv'
  <2>1. request' = request /\ Scope' = Scope
    BY <1>4 DEF RunFamily, Scope
  <2> QED
    BY <1>0, <1>4, <2>1 DEF RunFamily, IInv, TypeOK, RecoveryIsAccounted,
       RetriesAreConfined, RetriesAreSplit, SelectionIsLegal, Active
<1>5. CASE ScheduleRetry
  BY <1>0, <1>5, ScheduleRetryInv
<1>6. CASE ScheduleFallback
  BY <1>0, <1>6, ScheduleFallbackInv
<1>7. CASE CompleteRequest
  BY <1>0, <1>7, CompleteRequestInv
<1>8. CASE UNCHANGED vars
  <2>1. request' = request /\ Scope' = Scope
    BY <1>8 DEF vars, Scope
  <2> QED
    BY <1>0, <1>8, <2>1 DEF vars, IInv, RecoveryIsAccounted,
       RetriesAreConfined, RetriesAreSplit, SelectionIsLegal, Active
<1> QED
  BY <1>1, <1>2, <1>3, <1>4, <1>5, <1>6, <1>7, <1>8 DEF Next

LEMMA Invariance == Spec => []IInv
BY InitInv, StepInv, PTL DEF Spec

-----------------------------------------------------------------------------
(* The theorems.                                                            *)

\* The counters of the execution summary agree with each other and with the
\* attempt trace in every request.
THEOREM RecoveryAccounting == Spec => []RecoveryIsAccounted
<1>1. IInv => RecoveryIsAccounted
  BY DEF IInv
<1> QED
  BY <1>1, Invariance, PTL

\* A request schedules at most 2 * retry_budget + 1 recoveries and makes at most
\* 2 * (retry_budget + 1) attempts, whatever the tools answer.
THEOREM AttemptBound == Spec => []AttemptsAreBounded
<1>1. ASSUME IInv PROVE AttemptsAreBounded
  <2>1. request.budget \in Nat /\ retryTotal \in Nat /\ recoveryCount \in Nat
    BY <1>1, RequestFields DEF IInv, TypeOK
  <2>2. retryTotal <= 2 * request.budget
    BY <1>1 DEF IInv, RetriesAreSplit
  <2>3. recoveryCount <= retryTotal + 1 /\ Len(attempts) <= recoveryCount + 1
    BY <1>1, <2>1 DEF IInv, RecoveryIsAccounted
  <2> QED
    BY <2>1, <2>2, <2>3 DEF AttemptsAreBounded
<1> QED
  BY <1>1, Invariance, PTL

\* Every family that is run has a service, lies in the scope of the action mode,
\* is allowed and not blocked, and recall is run only for an identified owner.
THEOREM ConstraintsRespected == Spec => []RunsRespectConstraints
<1>1. IInv => RunsRespectConstraints
  BY DEF IInv, SelectionIsLegal, Active, RunsRespectConstraints
<1> QED
  BY <1>1, Invariance, PTL

-----------------------------------------------------------------------------
(* What the trace of attempts says.                                         *)

\* The latest attempt asked for a retry.
EndsOnRetry == Len(attempts) > 0 /\ attempts[Len(attempts)].action = "retry"

\* A retry that was asked for is either followed by its attempt or still under way.
RetriesFollow ==
    /\ \A i \in 1..Len(attempts) :
         attempts[i].action = "retry" /\ i < Len(attempts) =>
             attempts[i + 1].family = attempts[i].family
    /\ EndsOnRetry => Active /\ attempts[Len(attempts)].family = selected

\* The request goes on only while nothing usable has been acquired.
UsableEnds ==
    (\E i \in 1..Len(attempts) : attempts[i].status \in Usable) =>
        verdict = "completed" /\ outcome.status \in Usable

TraceInv == RetriesFollow /\ UsableEnds

\* A usable outcome is always a reason to stop, and a retry is asked for only
\* within the budget.
LEMMA EvaluationAnswers ==
    ASSUME TypeOK
    PROVE  /\ outcome.status \in Usable => Evaluation = Stop
           /\ Evaluation.action = "retry" => RetryExecutable
<1>1. outcome.status \in Usable => Evaluation = Stop
  <2>1. outcome.status \in Usable => outcome.reason = "none"
    BY DEF TypeOK, Outcome, NoOutcome, Usable
  <2> QED
    BY <2>1 DEF Evaluation, Usable
<1>2. Evaluation.action = "retry" => RetryAvailable
  BY DEF Evaluation, RetryThenFallback, FallbackThenRetry, FallbackOnly, Retry, Stop, Fallback
<1> QED
  BY <1>1, <1>2 DEF RetryExecutable, RetryAvailable

\* A recorded attempt is the last one of a trace that is otherwise unchanged.
LEMMA RecordedAttempt ==
    ASSUME IInv, pc = "evaluate", attempts' = Recorded(Evaluation)
    PROVE  /\ Len(attempts) \in Nat /\ Len(attempts') = Len(attempts) + 1
           /\ \A i \in 1..Len(attempts) : attempts'[i] = attempts[i]
           /\ attempts'[Len(attempts')].family = selected
           /\ attempts'[Len(attempts')].status = outcome.status
           /\ attempts'[Len(attempts')].action = Evaluation.action
<1> DEFINE a == [family |-> selected, status |-> outcome.status, action |-> Evaluation.action]
<1>1. attempts \in Seq(Attempt) /\ attempts' = Append(attempts, a)
  BY DEF IInv, TypeOK, Recorded
<1>2. a.family = selected /\ a.status = outcome.status /\ a.action = Evaluation.action
  OBVIOUS
<1> HIDE DEF a
<1>3. /\ Len(attempts) \in Nat /\ Len(attempts') = Len(attempts) + 1
      /\ \A i \in 1..Len(attempts) : attempts'[i] = attempts[i]
      /\ attempts'[Len(attempts')] = a
  BY <1>1
<1> QED
  BY <1>2, <1>3

\* Recording an attempt keeps the trace right when a retry it asks for is under
\* way, and when the request is completed if it was usable.
LEMMA RecordedTrace ==
    ASSUME IInv, TraceInv, pc = "evaluate", attempts' = Recorded(Evaluation),
           Evaluation.action = "retry" => Active' /\ selected' = selected,
           outcome.status \in Usable => verdict' = "completed" /\ outcome' = outcome
    PROVE  TraceInv'
<1> DEFINE n == Len(attempts)
<1>1. /\ n \in Nat /\ Len(attempts') = n + 1
      /\ \A i \in 1..n : attempts'[i] = attempts[i]
      /\ attempts'[n + 1].family = selected
      /\ attempts'[n + 1].status = outcome.status
      /\ attempts'[n + 1].action = Evaluation.action
  BY RecordedAttempt
<1>2. RetriesFollow'
  <2>1. ASSUME NEW i \in 1..n, attempts'[i].action = "retry"
        PROVE  attempts'[i + 1].family = attempts'[i].family
    <3>1. CASE i < n
      <4>1. attempts'[i + 1] = attempts[i + 1] /\ attempts'[i] = attempts[i]
        BY <1>1, <3>1
      <4> QED
        BY <2>1, <3>1, <4>1 DEF TraceInv, RetriesFollow
    <3>2. CASE i = n
      <4>1. EndsOnRetry
        BY <1>1, <2>1, <3>2 DEF EndsOnRetry
      <4> QED
        BY <1>1, <3>2, <4>1 DEF TraceInv, RetriesFollow
    <3> QED
      BY <1>1, <3>1, <3>2
  <2>2. EndsOnRetry' => Active' /\ attempts'[Len(attempts')].family = selected'
    BY <1>1 DEF EndsOnRetry
  <2> QED
    BY <1>1, <2>1, <2>2 DEF RetriesFollow
<1>3. UsableEnds'
  <2> SUFFICES ASSUME NEW i \in 1..(n + 1), attempts'[i].status \in Usable
               PROVE  verdict' = "completed" /\ outcome'.status \in Usable
    BY <1>1 DEF UsableEnds, Usable
  <2>1. CASE i = n + 1
    BY <1>1, <2>1
  <2>2. CASE i \in 1..n
    <3>1. verdict = "completed"
      BY <1>1, <2>2 DEF TraceInv, UsableEnds
    <3> QED
      BY <3>1 DEF IInv, TypeOK
  <2> QED
    BY <1>1, <2>1, <2>2
<1> QED
  BY <1>2, <1>3 DEF TraceInv

\* A step that records nothing keeps the trace right when a retry under way stays
\* under way.  No attempt was usable yet.
LEMMA UnrecordedTrace ==
    ASSUME IInv, TraceInv, pc # "done", attempts' = attempts,
           EndsOnRetry => Active' /\ selected' = selected
    PROVE  TraceInv'
<1>1. verdict # "completed"
  BY DEF IInv, TypeOK
<1>2. UsableEnds'
  BY <1>1 DEF TraceInv, UsableEnds, Usable
<1>3. RetriesFollow'
  BY DEF TraceInv, RetriesFollow, EndsOnRetry
<1> QED
  BY <1>2, <1>3 DEF TraceInv

LEMMA InitTrace == Init => TraceInv
BY DEF Init, TraceInv, RetriesFollow, UsableEnds, EndsOnRetry

LEMMA StepTrace == IInv /\ TraceInv /\ [Next]_vars => TraceInv'
<1> SUFFICES ASSUME IInv, TraceInv, [Next]_vars PROVE TraceInv'
  OBVIOUS
<1> USE DEF budgets
<1>1. ASSUME NEW f \in Family, NEW queryOk \in BOOLEAN, SelectFamily(f, queryOk)
      PROVE  TraceInv'
  <2>1. ~EndsOnRetry
    BY <1>1 DEF SelectFamily, TraceInv, RetriesFollow, Active
  <2> QED
    BY <1>1, <2>1, UnrecordedTrace DEF SelectFamily
<1>2. CASE NoFamilySelected
  <2>1. ~EndsOnRetry
    BY <1>2 DEF NoFamilySelected, TraceInv, RetriesFollow, Active
  <2> QED
    BY <1>2, <2>1, UnrecordedTrace DEF NoFamilySelected
<1>3. CASE ResumeRetry
  \* The family has been run before, so it is ready.
  <2>1. retryContext = selected /\ Active
    BY <1>3 DEF ResumeRetry, IInv, RetriesAreConfined, Active
  <2>2. Ready(retryContext, TRUE)
    BY <2>1 DEF IInv, SelectionIsLegal, Ready
  <2>3. Active' /\ selected' = selected
    BY <1>3, <2>1, <2>2 DEF ResumeRetry, Active
  <2> QED
    BY <1>3, <2>3, UnrecordedTrace DEF ResumeRetry
<1>4. ASSUME NEW res \in Outcome, RunFamily(res) PROVE TraceInv'
  BY <1>4, UnrecordedTrace DEF RunFamily, Active
<1>5. CASE ScheduleRetry
  <2>1. outcome.status \notin Usable
    BY <1>5, EvaluationAnswers DEF IInv, ScheduleRetry, RetryExecutable, Stop
  <2>2. Active'
    BY <1>5, NoFamilyAssumption DEF ScheduleRetry, Active, IInv, TypeOK
  <2> QED
    BY <1>5, <2>1, <2>2, RecordedTrace DEF ScheduleRetry
<1>6. CASE ScheduleFallback
  <2>1. outcome.status \notin Usable
    BY <1>6, EvaluationAnswers DEF IInv, ScheduleFallback, FallbackExecutable, Stop
  <2>2. Evaluation.action # "retry"
    BY <1>6, EvaluationShape DEF ScheduleFallback, FallbackExecutable
  <2> QED
    BY <1>6, <2>1, <2>2, RecordedTrace DEF ScheduleFallback
<1>7. CASE CompleteRequest
  <2>1. Evaluation.action # "retry"
    BY <1>7, EvaluationAnswers DEF IInv, CompleteRequest
  <2> QED
    BY <1>7, <2>1, RecordedTrace DEF CompleteRequest
<1>8. CASE UNCHANGED vars
  BY <1>8 DEF vars, TraceInv, RetriesFollow, UsableEnds, EndsOnRetry, Active
<1> QED
  BY <1>1, <1>2, <1>3, <1>4, <1>5, <1>6, <1>7, <1>8 DEF Next

LEMMA TraceInvariance == Spec => [](IInv /\ TraceInv)
<1>1. Init => IInv /\ TraceInv
  BY InitInv, InitTrace
<1>2. IInv /\ TraceInv /\ [Next]_vars => (IInv /\ TraceInv)'
  BY StepInv, StepTrace
<1> QED
  BY <1>1, <1>2, PTL DEF Spec

\* A retry the evaluator asks for is run, on the same family, for every budget.
THEOREM RetriesRun == Spec => []PromisedRetryRuns
<1>1. ASSUME IInv, TraceInv PROVE PromisedRetryRuns
  <2> SUFFICES ASSUME NEW i \in 1..Len(attempts), attempts[i].action = "retry"
               PROVE  /\ i < Len(attempts) => attempts[i + 1].family = attempts[i].family
                      /\ pc = "done" => i < Len(attempts)
    BY DEF PromisedRetryRuns
  <2>1. Len(attempts) \in Nat
    BY <1>1 DEF IInv, TypeOK
  <2>2. pc = "done" => ~Active
    BY <1>1 DEF IInv, TypeOK, Active
  <2>3. i = Len(attempts) => EndsOnRetry
    BY <2>1 DEF EndsOnRetry
  <2> QED
    BY <1>1, <2>1, <2>2, <2>3 DEF TraceInv, RetriesFollow
<1> QED
  BY <1>1, TraceInvariance, PTL

\* A usable result is what the request returns: nothing runs after it.
THEOREM UsableReturned == Spec => []UsableResultIsReturned
<1>1. IInv /\ TraceInv => UsableResultIsReturned
  BY DEF TraceInv, UsableEnds, UsableResultIsReturned
<1> QED
  BY <1>1, TraceInvariance, PTL

-----------------------------------------------------------------------------
(* The safety part of FamilyAcquisition is implemented.                     *)

Attempted(f) == Cardinality(AttemptsOf(f))

\* The families the request has abandoned.
Left == blocked \ request.blocked

\* Every attempt at a family is one that was retried, or the one that left it.
AttemptsAreCounted ==
    pc # "done" =>
        /\ \A f \in Family : Attempted(f) = retries[f] + (IF f \in Left THEN 1 ELSE 0)
        /\ selected \notin request.blocked
        /\ ~fallbackApplied => Left = {}
        /\ \E f \in Family : Left \subseteq {f}
        /\ \A f \in Family : retries[f] > 0 => f \in Left \cup {selected}
        /\ Active /\ retries[selected] > 0 => EndsOnRetry

RefinementInv == IInv /\ TraceInv /\ AttemptsAreCounted

\* The attempts of a family form a finite set, and a recorded attempt adds one to
\* those of its own family only.
LEMMA AttemptedType ==
    ASSUME TypeOK, NEW f
    PROVE  IsFiniteSet(AttemptsOf(f)) /\ Attempted(f) \in Nat
<1>1. Len(attempts) \in Nat
  BY DEF TypeOK
<1>2. IsFiniteSet(1..Len(attempts))
  BY <1>1, FS_Interval
<1>3. AttemptsOf(f) \in SUBSET (1..Len(attempts))
  BY DEF AttemptsOf
<1>4. IsFiniteSet(AttemptsOf(f))
  BY <1>2, <1>3, FS_Subset
<1> QED
  BY <1>4, FS_CardinalityType DEF Attempted

LEMMA RecordedCount ==
    ASSUME IInv, pc = "evaluate", attempts' = Recorded(Evaluation), NEW f
    PROVE  Attempted(f)' = Attempted(f) + (IF f = selected THEN 1 ELSE 0)
<1> DEFINE n == Len(attempts)
<1>1. /\ n \in Nat /\ Len(attempts') = n + 1
      /\ \A i \in 1..n : attempts'[i] = attempts[i]
      /\ attempts'[n + 1].family = selected
  BY RecordedAttempt
<1>2. IsFiniteSet(AttemptsOf(f)) /\ Attempted(f) \in Nat
  BY AttemptedType DEF IInv
<1>3. CASE f = selected
  <2>1. AttemptsOf(f)' = AttemptsOf(f) \cup {n + 1} /\ n + 1 \notin AttemptsOf(f)
    BY <1>1, <1>3 DEF AttemptsOf
  <2>2. Cardinality(AttemptsOf(f) \cup {n + 1}) = Cardinality(AttemptsOf(f)) + 1
    BY <1>2, <2>1, FS_AddElement
  <2> QED
    BY <1>3, <2>1, <2>2 DEF Attempted
<1>4. CASE f # selected
  <2>1. AttemptsOf(f)' = AttemptsOf(f)
    BY <1>1, <1>4 DEF AttemptsOf
  <2> QED
    BY <1>2, <1>4, <2>1 DEF Attempted
<1> QED
  BY <1>3, <1>4

LEMMA UnrecordedCount ==
    ASSUME attempts' = attempts, NEW f
    PROVE  Attempted(f)' = Attempted(f)
BY DEF Attempted, AttemptsOf

LEMMA InitCounted == Init => AttemptsAreCounted
<1> SUFFICES ASSUME Init PROVE AttemptsAreCounted
  OBVIOUS
<1>1. \A f \in Family : AttemptsOf(f) = {}
  BY DEF Init, AttemptsOf
<1>2. \A f \in Family : Attempted(f) = 0
  BY <1>1, FS_EmptySet DEF Attempted
<1>3. Left = {} /\ retries = [f \in Family |-> 0] /\ retryContext = NoFamily /\ pc = "prepare"
  BY DEF Init, Left
<1>4. selected \notin request.blocked
  BY RequestAssumption, NoFamilyAssumption DEF Init, RequestShape
<1> QED
  BY <1>2, <1>3, <1>4, RecallAssumption DEF AttemptsAreCounted, Active

\* A step that records nothing and keeps the budgets keeps the count when the family
\* it selects has not been run, or was selected already.
LEMMA SameCount ==
    ASSUME RefinementInv, pc # "done",
           UNCHANGED <<request, attempts, blocked, retries, fallbackApplied>>,
           pc' # "done" => \/ selected' = selected /\ (Active' <=> Active)
                           \/ /\ selected' \in Family \ (blocked \cup request.blocked)
                              /\ selected \in blocked \cup {NoFamily}
    PROVE  AttemptsAreCounted'
<1> SUFFICES ASSUME pc' # "done" PROVE AttemptsAreCounted'
  BY DEF AttemptsAreCounted
<1> USE DEF RefinementInv, AttemptsAreCounted
<1>1. Left' = Left /\ EndsOnRetry' = EndsOnRetry
  BY DEF Left, EndsOnRetry
<1>2. \A f \in Family : Attempted(f)' = Attempted(f)
  BY UnrecordedCount
<1>3. CASE selected' = selected /\ (Active' <=> Active)
  BY <1>1, <1>2, <1>3
<1>4. CASE selected' \in Family \ (blocked \cup request.blocked)
           /\ selected \in blocked \cup {NoFamily}
  <2>1. \A f \in Family : retries[f] > 0 => f \in blocked
    BY <1>4, NoFamilyAssumption DEF IInv, RetriesAreConfined
  <2>2. retries[selected'] = 0 /\ retries \in [Family -> Nat]
    BY <1>4, <2>1 DEF IInv, TypeOK
  <2>3. \A f \in Family : retries[f] > 0 => f \in Left
    BY <1>4, <2>1, NoFamilyAssumption DEF IInv, TypeOK, Left
  <2>4. selected' \notin Left
    BY <1>4 DEF Left
  <2> QED
    BY <1>1, <1>2, <2>2, <2>3, <2>4
<1> QED
  BY <1>3, <1>4

LEMMA StepCounted == RefinementInv /\ [Next]_vars => AttemptsAreCounted'
<1> SUFFICES ASSUME RefinementInv, [Next]_vars PROVE AttemptsAreCounted'
  OBVIOUS
<1>0. IInv /\ TypeOK /\ IInv' /\ TypeOK' /\ request.budget \in Nat
  BY StepInv, RequestFields DEF RefinementInv, IInv
<1> USE DEF budgets
<1>1. ASSUME NEW f \in Family, NEW queryOk \in BOOLEAN, SelectFamily(f, queryOk)
      PROVE  AttemptsAreCounted'
  <2>1. f \in Family \ (blocked \cup request.blocked)
    BY <1>1, LeadingIsLegal DEF SelectFamily
  <2>2. selected \in blocked \cup {NoFamily}
    BY <1>0, <1>1 DEF SelectFamily, IInv, RetriesAreConfined
  <2> QED
    BY <1>1, <2>1, <2>2, SameCount DEF SelectFamily
<1>2. CASE NoFamilySelected
  BY <1>2 DEF NoFamilySelected, AttemptsAreCounted
<1>3. CASE ResumeRetry
  <2>1. selected' = selected /\ Active
    BY <1>0, <1>3 DEF ResumeRetry, IInv, RetriesAreConfined, Active
  <2>2. pc' # "done" => Active'
    BY <1>3 DEF ResumeRetry, Active
  <2> QED
    BY <1>3, <2>1, <2>2, SameCount DEF ResumeRetry, Active
<1>4. ASSUME NEW res \in Outcome, RunFamily(res) PROVE AttemptsAreCounted'
  BY <1>4, SameCount DEF RunFamily, Active
<1>5. CASE ScheduleRetry
  <2>1. /\ pc = "evaluate" /\ selected \in Family /\ selected' = selected
        /\ retries' = [retries EXCEPT ![selected] = @ + 1] /\ retries \in [Family -> Nat]
        /\ attempts' = Recorded(Evaluation) /\ fallbackApplied' = fallbackApplied
        /\ request' = request
    BY <1>0, <1>5 DEF ScheduleRetry, TypeOK
  <2>2. Left' = Left
    BY <1>5 DEF ScheduleRetry, Left
  <2>3. \A f \in Family : Attempted(f)' = Attempted(f) + (IF f = selected THEN 1 ELSE 0)
    BY <1>0, <2>1, RecordedCount
  <2>4. Active /\ Active'
    BY <1>0, <1>5, NoFamilyAssumption DEF ScheduleRetry, Active, TypeOK
  <2>5. EndsOnRetry'
    BY <1>0, <1>5, <2>1, RecordedAttempt DEF EndsOnRetry, ScheduleRetry, RetryExecutable
  <2>6. \A f \in Family : Attempted(f) \in Nat
    BY <1>0, AttemptedType
  <2> QED
    BY <2>1, <2>2, <2>3, <2>4, <2>5, <2>6 DEF RefinementInv, AttemptsAreCounted
<1>6. CASE ScheduleFallback
  <2>1. /\ pc = "evaluate" /\ selected \in Family /\ selected' = selected
        /\ retries' = retries /\ retries \in [Family -> Nat]
        /\ attempts' = Recorded(Evaluation) /\ fallbackApplied = FALSE /\ fallbackApplied' = TRUE
        /\ blocked' = blocked \cup {selected} /\ request' = request
    BY <1>0, <1>6 DEF ScheduleFallback, FallbackExecutable, BlockedAfter, TypeOK
  <2>2. Left = {}
    BY <2>1 DEF RefinementInv, AttemptsAreCounted
  <2>3. selected \notin request.blocked
    BY <1>0, <2>1 DEF IInv, SelectionIsLegal, Active
  <2>4. Left' = {selected}
    BY <2>1, <2>2, <2>3 DEF Left
  <2>5. \A f \in Family : Attempted(f)' = Attempted(f) + (IF f = selected THEN 1 ELSE 0)
    BY <1>0, <2>1, RecordedCount
  <2>6. ~Active'
    BY <1>0, <1>6 DEF ScheduleFallback, Active, TypeOK
  <2>7. \A f \in Family : Attempted(f) = retries[f] /\ (retries[f] > 0 => f = selected)
    BY <2>1, <2>2 DEF RefinementInv, AttemptsAreCounted
  <2> QED
    BY <2>1, <2>3, <2>4, <2>5, <2>6, <2>7 DEF AttemptsAreCounted
<1>7. CASE CompleteRequest
  BY <1>7 DEF CompleteRequest, AttemptsAreCounted
<1>8. CASE UNCHANGED vars
  <2>1. (Active' <=> Active) /\ UNCHANGED <<request, attempts, blocked, retries, fallbackApplied, selected>>
        /\ pc' = pc
    BY <1>8 DEF vars, Active
  <2> QED
    BY <2>1, SameCount DEF AttemptsAreCounted
<1> QED
  BY <1>1, <1>2, <1>3, <1>4, <1>5, <1>6, <1>7, <1>8 DEF Next

LEMMA RefinementInvariance == Spec => []RefinementInv
<1>1. Init => RefinementInv
  BY InitInv, InitTrace, InitCounted DEF RefinementInv
<1>2. RefinementInv /\ [Next]_vars => RefinementInv'
  BY StepInv, StepTrace, StepCounted DEF RefinementInv
<1> QED
  BY <1>1, <1>2, PTL DEF Spec

\* The state of FamilyAcquisition this state maps to.
Mapped == <<request.budget, RunCount, LatestFamily, pc = "done">>

LEMMA InitMaps == Init => Acquisition!Init
<1> SUFFICES ASSUME Init PROVE Acquisition!Init
  OBVIOUS
<1>1. request.budget \in Nat
  BY RequestAssumption DEF Init, RequestShape
<1>2. \A f \in Family : AttemptsOf(f) = {}
  BY DEF Init, AttemptsOf
<1>3. RunCount = [f \in Family |-> 0]
  <2>1. \A f \in Family : Cardinality(AttemptsOf(f)) = 0
    BY <1>2, FS_EmptySet
  <2>2. RunCount = [f \in Family |-> Cardinality(AttemptsOf(f)) + 0]
    BY DEF Init, RunCount
  <2> QED
    BY <2>1, <2>2
<1>4. LatestFamily = NoFamily /\ pc # "done"
  BY DEF Init, LatestFamily
<1> QED
  BY <1>1, <1>3, <1>4 DEF Acquisition!Init

\* The family of a recorded attempt was the current one, and its run counted, before.
LEMMA RecordingMaps ==
    ASSUME RefinementInv, pc = "evaluate", pc' # "evaluate",
           attempts' = Recorded(Evaluation)
    PROVE  RunCount' = RunCount /\ LatestFamily' = LatestFamily
<1>1. \A f \in Family : Attempted(f)' = Attempted(f) + (IF f = selected THEN 1 ELSE 0)
  BY RecordedCount DEF RefinementInv
<1>2. \A f \in Family : Attempted(f) \in Nat
  BY AttemptedType DEF RefinementInv, IInv
<1>3. RunCount = [f \in Family |-> Attempted(f) + (IF f = selected THEN 1 ELSE 0)]
  BY DEF RunCount, Attempted
<1>4. RunCount' = [f \in Family |-> Attempted(f)' + 0]
  BY DEF RunCount, Attempted
<1>5. RunCount' = RunCount
  BY <1>1, <1>2, <1>3, <1>4
<1>6. attempts' # <<>> /\ attempts'[Len(attempts')].family = selected
  BY RecordedAttempt DEF RefinementInv
<1>7. LatestFamily' = LatestFamily
  BY <1>6 DEF LatestFamily
<1> QED
  BY <1>5, <1>7

\* Preparing an attempt changes neither the runs nor the current family.
LEMMA PreparingMaps ==
    ASSUME pc # "evaluate", pc' # "evaluate", attempts' = attempts
    PROVE  RunCount' = RunCount /\ LatestFamily' = LatestFamily
<1>1. \A f : AttemptsOf(f)' = AttemptsOf(f)
  BY DEF AttemptsOf
<1>2. RunCount' = RunCount
  BY <1>1 DEF RunCount
<1> QED
  BY <1>2 DEF LatestFamily

\* Running a family is a Run step: within the budget, and of the current family or
\* of a new one beside the one that was left.
LEMMA RunningMaps ==
    ASSUME RefinementInv, NEW res \in Outcome, RunFamily(res)
    PROVE  Acquisition!Run(selected)
<1> USE DEF RefinementInv
<1>1. /\ pc = "run" /\ pc' = "evaluate" /\ selected \in Family /\ selected' = selected
      /\ UNCHANGED <<request, attempts>> /\ Active /\ TypeOK
      /\ retries \in [Family -> Nat] /\ request.budget \in Nat
  BY RequestFields DEF RunFamily, IInv, TypeOK, Active
<1>2. /\ \A f \in Family : Attempted(f) = retries[f] + (IF f \in Left THEN 1 ELSE 0)
      /\ \A f \in Family : retries[f] > 0 => f \in Left \cup {selected}
      /\ retries[selected] > 0 => EndsOnRetry
      /\ \E f \in Family : Left \subseteq {f}
  BY <1>1 DEF AttemptsAreCounted
<1>3. selected \notin Left /\ retries[selected] <= request.budget
  BY <1>1 DEF Left, IInv, RetriesAreConfined
<1>4. RunCount = [f \in Family |-> Attempted(f) + 0]
  BY <1>1 DEF RunCount, Attempted
<1>5. \A f \in Family : RunCount[f] = Attempted(f)
  BY <1>1, <1>4, AttemptedType
<1>6. RunCount[selected] = retries[selected] /\ RunCount[selected] <= request.budget
  BY <1>1, <1>2, <1>3, <1>5
<1>7. RunCount' = [RunCount EXCEPT ![selected] = @ + 1]
  <2>1. \A f : AttemptsOf(f)' = AttemptsOf(f)
    BY <1>1 DEF AttemptsOf
  <2>2. RunCount' = [f \in Family |-> Attempted(f) + (IF f = selected THEN 1 ELSE 0)]
    BY <1>1, <2>1 DEF RunCount, Attempted
  <2>3. \A f \in Family : Attempted(f) \in Nat
    BY <1>1, AttemptedType
  <2> QED
    BY <1>1, <1>4, <2>2, <2>3
<1>8. LatestFamily' = selected
  BY <1>1 DEF LatestFamily
<1>9. \/ selected = LatestFamily
      \/ /\ selected \notin Acquisition!Used
         /\ \A g, h \in Acquisition!Used : g = h
  <2>1. CASE retries[selected] > 0
    <3>1. EndsOnRetry /\ attempts[Len(attempts)].family = selected
      BY <1>2, <2>1 DEF TraceInv, RetriesFollow
    <3>2. attempts # <<>>
      BY <3>1 DEF EndsOnRetry
    <3>3. LatestFamily = attempts[Len(attempts)].family
      BY <1>1, <3>2 DEF LatestFamily
    <3> QED
      BY <3>1, <3>3
  <2>2. CASE retries[selected] = 0
    <3>1. Acquisition!Used = {f \in Family : RunCount[f] > 0}
      BY DEF Acquisition!Used
    <3>2. selected \notin Acquisition!Used
      BY <1>6, <2>2, <3>1
    <3>3. Acquisition!Used \subseteq Left
      BY <1>1, <1>2, <1>5, <2>2, <3>1
    <3>4. \A g, h \in Acquisition!Used : g = h
      BY <1>2, <3>3
    <3> QED
      BY <3>2, <3>4
  <2> QED
    BY <1>1, <2>1, <2>2
<1>10. ~(pc = "done") /\ UNCHANGED <<request.budget, pc = "done">>
  <2>1. (pc = "done")' <=> (pc = "done")
    BY <1>1
  <2>2. (pc = "done")' = (pc = "done")
    BY <2>1, Zenon
  <2> QED
    BY <1>1, <2>2
<1> QED
  BY <1>6, <1>7, <1>8, <1>9, <1>10 DEF Acquisition!Run

LEMMA StepMaps == RefinementInv /\ [Next]_vars => [Acquisition!Next]_Mapped
<1> SUFFICES ASSUME RefinementInv, [Next]_vars
             PROVE  Acquisition!Next \/ UNCHANGED Mapped
  BY DEF Mapped
<1> USE DEF budgets
\* A step that keeps the runs, the family and the request is an Answer or a stutter.
<1>1. ASSUME pc # "done", request' = request, RunCount' = RunCount,
             LatestFamily' = LatestFamily
      PROVE  Acquisition!Next \/ UNCHANGED Mapped
  <2>1. CASE pc' = "done"
    BY <1>1, <2>1 DEF Acquisition!Next, Acquisition!Answer
  <2>2. CASE pc' # "done"
    BY <1>1, <2>2 DEF Mapped
  <2> QED
    BY <2>1, <2>2
<1>2. ASSUME NEW f \in Family, NEW queryOk \in BOOLEAN, SelectFamily(f, queryOk)
      PROVE  Acquisition!Next \/ UNCHANGED Mapped
  BY <1>1, <1>2, PreparingMaps DEF SelectFamily
<1>3. CASE NoFamilySelected
  BY <1>1, <1>3, PreparingMaps DEF NoFamilySelected
<1>4. CASE ResumeRetry
  BY <1>1, <1>4, PreparingMaps DEF ResumeRetry
<1>5. ASSUME NEW res \in Outcome, RunFamily(res)
      PROVE  Acquisition!Next \/ UNCHANGED Mapped
  <2>1. selected \in Family
    BY <1>5 DEF RunFamily, RefinementInv, IInv, TypeOK
  <2> QED
    BY <1>5, <2>1, RunningMaps DEF Acquisition!Next
<1>6. CASE ScheduleRetry
  BY <1>1, <1>6, RecordingMaps DEF ScheduleRetry
<1>7. CASE ScheduleFallback
  BY <1>1, <1>7, RecordingMaps DEF ScheduleFallback
<1>8. CASE CompleteRequest
  BY <1>1, <1>8, RecordingMaps DEF CompleteRequest
<1>9. CASE UNCHANGED vars
  BY <1>9 DEF vars, Mapped, RunCount, AttemptsOf, LatestFamily
<1> QED
  BY <1>2, <1>3, <1>4, <1>5, <1>6, <1>7, <1>8, <1>9 DEF Next

\* The layer implements the safety part of what FamilyAcquisition promises: a family
\* is run at most budget + 1 times, a second one only after the first is left, none is
\* gone back to, and a request is answered once.
THEOREM ImplementsAcquisitionSafely == Spec => Acquisition!SafetySpec
<1>1. RefinementInv /\ [Next]_vars => [Acquisition!Next]_Mapped
  BY StepMaps
<1>2. Spec => Acquisition!Init /\ [][Acquisition!Next]_Mapped
  BY <1>1, InitMaps, RefinementInvariance, PTL DEF Spec
<1> QED
  BY <1>2 DEF Acquisition!SafetySpec, Mapped

-----------------------------------------------------------------------------
(* The requests of Research Executor, with a service for every family, as   *)
(* retrieval_provider wires them.                                           *)

ExecutorAsks == Registered = Family /\ Request \subseteq ExecutorRequests

\* A fallback was scheduled only when a family is left for it.
FallbackInv ==
    /\ IInv
    /\ FallbackFindsFamily
    /\ pc = "prepare" /\ retryContext = NoFamily /\ attempts # <<>> => Candidates # {}

\* Restrictions of a projected request are never empty, so no filter is void, and
\* what they leave is in the scope of the mode.
LEMMA ProjectedFields ==
    ASSUME ExecutorAsks, TypeOK
    PROVE  /\ request.provided
           /\ request.available # {} /\ EffectiveAvailable = request.available
           /\ request.mode = "memory" => request.owner
           /\ request.policy = "broader" => request.mode = "external"
           /\ request.allowed # {}
           /\ request.mode = "external" => Recall \notin request.allowed
           /\ request.mode \in {"memory", "external"}
<1>1. PICK mode \in {"memory", "external"}, chosen \in Family,
           available \in SUBSET Family, owner \in BOOLEAN :
        /\ Assessed(mode, chosen, EffectiveFamilies(available, owner))
        /\ request = ProjectedRequest(mode, chosen, EffectiveFamilies(available, owner), owner)
    BY DEF ExecutorAsks, TypeOK, ExecutorRequests
<1> DEFINE effective == EffectiveFamilies(available, owner)
<1>2. /\ chosen \in effective /\ effective \subseteq Family
      /\ mode = "memory" <=> chosen = Recall
      /\ Recall \in effective => owner
    BY <1>1 DEF Assessed, EffectiveFamilies
<1>3. /\ request.mode = mode /\ request.available = effective
      /\ request.allowed = AllowedFamilies(mode, effective)
      /\ request.policy = (IF mode = "memory" THEN "within_same_family" ELSE "broader")
      /\ request.provided = TRUE /\ request.owner = owner
    BY <1>1 DEF ProjectedRequest
<1> HIDE DEF effective
<1>4. EffectiveAvailable = request.available
    BY <1>2, <1>3 DEF EffectiveAvailable, ExecutorAsks
<1>5. request.allowed # {} /\ (mode = "external" => Recall \notin request.allowed)
    BY <1>2, <1>3 DEF AllowedFamilies
<1>6. request.mode = "memory" => request.owner
    BY <1>2, <1>3
<1>7. request.policy = "broader" => request.mode = "external"
    BY <1>3
<1> QED BY <1>2, <1>3, <1>4, <1>5, <1>6, <1>7

\* Every family such a request may select can be run at once.
LEMMA ProjectedIsReady ==
    ASSUME ExecutorAsks, TypeOK, NEW f \in Leading, NEW queryOk \in BOOLEAN,
           request.provided => queryOk
    PROVE  Ready(f, queryOk)
<1>1. f \in Scope
    BY LeadingIsLegal
<1>2. f \in Family
    BY <1>1, ProjectedFields, RecallAssumption DEF Scope
<1>3. f = Recall => request.owner
    BY <1>1, ProjectedFields DEF Scope
<1> QED BY <1>2, <1>3, ProjectedFields DEF Ready, ExecutorAsks

\* The evaluator sees a family left to fall back to; selection will find it.
LEMMA FallbackLeavesCandidates ==
    ASSUME ExecutorAsks, TypeOK, ScheduleFallback
    PROVE  Candidates' # {}
<1>1. CrossFamilyFallback
    BY DEF ScheduleFallback, FallbackExecutable, Evaluation, RetryThenFallback,
       FallbackThenRetry, FallbackOnly, Retry, Stop, Fallback, FallbackAvailable
<1>2. /\ request.mode = "external" /\ request.allowed # {}
      /\ Recall \notin request.allowed /\ EffectiveAvailable # {}
    BY <1>1, ProjectedFields DEF CrossFamilyFallback
<1>3. request' = request /\ blocked' = blocked \cup {selected}
    BY DEF ScheduleFallback, FallbackExecutable, BlockedAfter
<1>4. PICK f \in Family : /\ f \in EffectiveAvailable \cap request.allowed
                          /\ f \notin request.blocked \cup blocked \cup {selected}
    BY <1>1, <1>2 DEF CrossFamilyFallback, Filtered
<1>5. f \in Filtered(Filtered(Scope, EffectiveAvailable), request.allowed)
    BY <1>2, <1>4 DEF Filtered, Scope
<1>6. EffectiveAvailable' = EffectiveAvailable /\ Scope' = Scope
    BY <1>3 DEF EffectiveAvailable, Scope
<1>7. f \in Candidates'
    BY <1>3, <1>4, <1>5, <1>6 DEF Candidates, Filtered
<1> QED BY <1>7

LEMMA FallbackStep ==
    ASSUME ExecutorAsks, FallbackInv, IInv', [Next]_vars
    PROVE  FallbackInv'
<1>1. CASE UNCHANGED vars
    <2>1. Candidates' = Candidates
        BY <1>1 DEF vars, Candidates, Filtered, Scope, EffectiveAvailable
    <2> QED BY <1>1, <2>1 DEF vars, FallbackInv, FallbackFindsFamily
<1>2. ASSUME NEW f \in Family, NEW queryOk \in BOOLEAN, SelectFamily(f, queryOk)
      PROVE  FallbackInv'
    <2>1. Ready(f, queryOk)
        BY <1>2, ProjectedIsReady DEF SelectFamily, FallbackInv, IInv
    <2> QED BY <1>2, <2>1 DEF SelectFamily, FallbackInv, FallbackFindsFamily
<1>3. CASE NoFamilySelected
    BY <1>3 DEF NoFamilySelected, FallbackInv, FallbackFindsFamily
<1>4. CASE ResumeRetry
    <2>1. Ready(retryContext, TRUE)
        BY <1>4 DEF ResumeRetry, FallbackInv, IInv, RetriesAreConfined, SelectionIsLegal,
           Active, Ready
    <2> QED BY <1>4, <2>1 DEF ResumeRetry, FallbackInv, FallbackFindsFamily
<1>5. ASSUME NEW res \in Outcome, RunFamily(res) PROVE FallbackInv'
    BY <1>5 DEF RunFamily, FallbackInv, FallbackFindsFamily
<1>6. CASE ScheduleRetry
    <2>1. verdict' = "none" /\ retryContext' # NoFamily
        BY <1>6, NoFamilyAssumption DEF ScheduleRetry, FallbackInv, IInv, TypeOK
    <2> QED BY <2>1 DEF FallbackInv, FallbackFindsFamily
<1>7. CASE ScheduleFallback
    <2>1. verdict' = "none"
        BY <1>7 DEF ScheduleFallback, FallbackInv, IInv, TypeOK
    <2>2. Candidates' # {}
        BY <1>7, FallbackLeavesCandidates DEF FallbackInv, IInv
    <2> QED BY <2>1, <2>2 DEF FallbackInv, FallbackFindsFamily
<1>8. CASE CompleteRequest
    BY <1>8 DEF CompleteRequest, FallbackInv, FallbackFindsFamily
<1> QED
    BY <1>1, <1>2, <1>3, <1>4, <1>5, <1>6, <1>7, <1>8 DEF Next

\* A fallback the evaluator promises finds a family, for any families and whatever
\* the tools answer: the evaluator, which looks for another family in all of them,
\* and selection, which looks in the scope of the mode, agree on every request that
\* ResearchMaterialAcquirer projects.
THEOREM FallbacksFindFamilies ==
    ASSUME ExecutorAsks
    PROVE  Spec => []FallbackFindsFamily
<1>1. IInv /\ Init => FallbackInv
    BY DEF Init, FallbackInv, FallbackFindsFamily
<1>2. FallbackInv /\ IInv' /\ [Next]_vars => FallbackInv'
    BY FallbackStep
<1>3. FallbackInv => FallbackFindsFamily
    BY DEF FallbackInv
<1> QED BY <1>1, <1>2, <1>3, Invariance, PTL DEF Spec

\* A family the executor did not offer is never run: the intersection with the
\* services is not empty, so it is not taken for "no restriction".
THEOREM OnlyAvailableRun ==
    ASSUME ExecutorAsks
    PROVE  Spec => []RunsOnlyAvailable
<1> DEFINE SelectsAvailable == Active => selected \in request.available
<1>1. Init => SelectsAvailable
    BY NoFamilyAssumption DEF Init, Active
<1>2. ASSUME IInv, SelectsAvailable, [Next]_vars PROVE SelectsAvailable'
    <2>1. ASSUME NEW f \in Leading PROVE f \in request.available
        <3>1. EffectiveAvailable # {} /\ EffectiveAvailable = request.available
            BY <1>2, ProjectedFields DEF IInv
        <3>2. f \in Candidates
            BY DEF Leading
        <3> QED BY <3>1, <3>2 DEF Candidates, Filtered
    <2> USE <1>2 DEF Active
    <2>2. CASE UNCHANGED vars
        BY <2>2 DEF vars
    <2>3. ASSUME NEW f \in Family, NEW queryOk \in BOOLEAN, SelectFamily(f, queryOk)
          PROVE  SelectsAvailable'
        BY <2>1, <2>3 DEF SelectFamily
    <2>4. CASE NoFamilySelected
        BY <2>4 DEF NoFamilySelected
    <2>5. CASE ResumeRetry
        BY <2>5 DEF ResumeRetry, IInv, RetriesAreConfined
    <2>6. ASSUME NEW res \in Outcome, RunFamily(res) PROVE SelectsAvailable'
        BY <2>6 DEF RunFamily
    <2>7. CASE ScheduleRetry
        BY <2>7 DEF ScheduleRetry
    <2>8. CASE ScheduleFallback
        BY <2>8 DEF ScheduleFallback, IInv, TypeOK
    <2>9. CASE CompleteRequest
        BY <2>9 DEF CompleteRequest, IInv, TypeOK
    <2> QED
        BY <2>2, <2>3, <2>4, <2>5, <2>6, <2>7, <2>8, <2>9 DEF Next
<1>3. SelectsAvailable => RunsOnlyAvailable
    BY DEF RunsOnlyAvailable, Active
<1> HIDE DEF SelectsAvailable
<1> QED BY <1>1, <1>2, <1>3, Invariance, PTL DEF Spec

-----------------------------------------------------------------------------
(* ArxivSearchClient: the lock that spaces the searches.                    *)

OneHolder ==
    \A c, d \in Caller : c \in LockHolders /\ d \in LockHolders => c = d

\* What a waiting search computed covers all that is known, and a request that
\* runs was started when no cooldown lasted.
WaitsAreCurrent ==
    \A c \in Caller :
        /\ search[c] = "waiting" =>
             wakeAt[c] >= lastStarted + MinInterval /\ wakeAt[c] >= promised
        /\ search[c] = "requesting" => now >= promised

LockInv ==
    /\ ClientTypeOK
    /\ OneHolder
    /\ WaitsAreCurrent
    /\ promised = retryNotBefore

-----------------------------------------------------------------------------
(* Helpers. *)

LEMMA ClientInitInv == ClientInit => LockInv
BY ClientAssumption
DEF ClientInit, LockInv, ClientTypeOK, OneHolder, WaitsAreCurrent, LockHolders, SearchStep

\* A caller that enters the lock is its only holder; any other step only leaves it.
LEMMA HolderStep ==
    ASSUME LockInv, ClientTypeOK', NEW c \in Caller,
           \A d \in Caller \ {c} : search'[d] = search[d],
           c \in LockHolders' => c \in LockHolders \/ LockHolders = {}
    PROVE  OneHolder'
BY DEF LockInv, OneHolder, LockHolders

LEMMA ClientTypeStep == LockInv /\ [ClientNext]_clientVars => ClientTypeOK'
<1> SUFFICES ASSUME LockInv, [ClientNext]_clientVars PROVE ClientTypeOK'
    OBVIOUS
<1> USE ClientAssumption DEF LockInv, ClientTypeOK, SearchStep, Goes
<1>1. CASE UNCHANGED clientVars
    BY <1>1 DEF clientVars
<1>2. CASE Tick
    BY <1>2 DEF Tick
<1>3. ASSUME NEW c \in Caller, Search(c) PROVE ClientTypeOK'
    BY <1>3 DEF Search
<1>4. ASSUME NEW c \in Caller, WaitForRateLimit(c) PROVE ClientTypeOK'
    <2>1. MaxOf(lastStarted + MinInterval, retryNotBefore) \in Nat
        BY DEF MaxOf
    <2>2. MaxOf(now, MaxOf(lastStarted + MinInterval, retryNotBefore)) \in Nat
        BY <2>1 DEF MaxOf
    <2> QED BY <1>4, <2>2 DEF WaitForRateLimit
<1>5. ASSUME NEW c \in Caller, StartRequest(c) PROVE ClientTypeOK'
    BY <1>5 DEF StartRequest
<1>6. ASSUME NEW c \in Caller, RequestEnds(c) PROVE ClientTypeOK'
    BY <1>6 DEF RequestEnds
<1>7. ASSUME NEW c \in Caller, RateLimited(c) PROVE ClientTypeOK'
    <2>1. PICK delay \in 0..MaxRetryAfter :
            retryNotBefore' = now + delay /\ promised' = MaxOf(promised, now + delay)
        BY <1>7 DEF RateLimited
    <2>2. now + delay \in Nat /\ MaxOf(promised, now + delay) \in Nat
        BY DEF MaxOf
    <2> QED BY <1>7, <2>1, <2>2 DEF RateLimited
<1>8. ASSUME NEW c \in Caller, CancelSearch(c) PROVE ClientTypeOK'
    BY <1>8 DEF CancelSearch
<1> QED BY <1>1, <1>2, <1>3, <1>4, <1>5, <1>6, <1>7, <1>8 DEF ClientNext, CallerNext

-----------------------------------------------------------------------------
(* The invariant is inductive. *)

LEMMA ClientInvStep == LockInv /\ [ClientNext]_clientVars => LockInv'
<1> SUFFICES ASSUME LockInv, [ClientNext]_clientVars PROVE LockInv'
    OBVIOUS
<1>t. ClientTypeOK'
    BY ClientTypeStep
<1> USE DEF LockInv, ClientTypeOK, SearchStep, Goes
<1>1. CASE UNCHANGED clientVars
    BY <1>1, <1>t DEF clientVars, OneHolder, WaitsAreCurrent, LockHolders
<1>2. CASE Tick
    BY <1>2, <1>t DEF Tick, OneHolder, WaitsAreCurrent, LockHolders
<1>3. ASSUME NEW c \in Caller, Search(c) PROVE LockInv'
    <2>1. OneHolder'
        BY <1>3, <1>t, HolderStep DEF Search, LockHolders
    <2> QED BY <1>3, <1>t, <2>1 DEF Search, WaitsAreCurrent
<1>4. ASSUME NEW c \in Caller, WaitForRateLimit(c) PROVE LockInv'
    <2>1. OneHolder'
        BY <1>4, <1>t, HolderStep DEF WaitForRateLimit, LockHolders
    <2> DEFINE due == MaxOf(lastStarted + MinInterval, retryNotBefore)
    <2>2. due \in Nat /\ due >= lastStarted + MinInterval /\ due >= retryNotBefore
        BY ClientAssumption DEF MaxOf
    <2> HIDE DEF due
    <2>3. MaxOf(now, due) \in Nat /\ MaxOf(now, due) >= due
        BY <2>2 DEF MaxOf
    <2>4. wakeAt'[c] = MaxOf(now, due) /\ \A d \in Caller \ {c} : wakeAt'[d] = wakeAt[d]
        BY <1>4 DEF WaitForRateLimit, due
    <2>5. wakeAt'[c] >= lastStarted + MinInterval /\ wakeAt'[c] >= promised
        BY <2>2, <2>3, <2>4, ClientAssumption
    <2>6. WaitsAreCurrent'
        BY <1>4, <1>t, <2>4, <2>5 DEF WaitForRateLimit, WaitsAreCurrent
    <2> QED BY <1>4, <1>t, <2>1, <2>6 DEF WaitForRateLimit
<1>5. ASSUME NEW c \in Caller, StartRequest(c) PROVE LockInv'
    <2>1. OneHolder'
        BY <1>5, <1>t, HolderStep DEF StartRequest, LockHolders
    <2>2. now >= promised
        BY <1>5 DEF StartRequest, WaitsAreCurrent
    <2>3. \A d \in Caller \ {c} : search'[d] # "waiting"
        BY <1>5 DEF StartRequest, OneHolder, LockHolders
    <2>4. WaitsAreCurrent'
        BY <1>5, <1>t, <2>2, <2>3 DEF StartRequest, WaitsAreCurrent
    <2> QED BY <1>5, <1>t, <2>1, <2>4 DEF StartRequest
<1>6. ASSUME NEW c \in Caller, RequestEnds(c) PROVE LockInv'
    <2>1. OneHolder'
        BY <1>6, <1>t, HolderStep DEF RequestEnds, LockHolders
    <2> QED BY <1>6, <1>t, <2>1 DEF RequestEnds, WaitsAreCurrent
<1>7. ASSUME NEW c \in Caller, RateLimited(c) PROVE LockInv'
    <2>1. OneHolder'
        BY <1>7, <1>t, HolderStep DEF RateLimited, LockHolders
    <2>2. PICK delay \in 0..MaxRetryAfter :
            retryNotBefore' = now + delay /\ promised' = MaxOf(promised, now + delay)
        BY <1>7 DEF RateLimited
    <2>3. promised <= now + delay /\ now + delay \in Nat
        BY <1>7, ClientAssumption DEF RateLimited, WaitsAreCurrent
    <2>4. promised' = retryNotBefore'
        BY <2>2, <2>3 DEF MaxOf
    <2>5. \A d \in Caller : search'[d] \notin {"waiting", "requesting"}
        BY <1>7, <1>t DEF RateLimited, OneHolder, LockHolders
    <2>6. WaitsAreCurrent'
        BY <2>5 DEF WaitsAreCurrent
    <2> QED BY <1>t, <2>1, <2>4, <2>6
<1>8. ASSUME NEW c \in Caller, CancelSearch(c) PROVE LockInv'
    <2>1. OneHolder'
        BY <1>8, <1>t, HolderStep DEF CancelSearch, LockHolders
    <2> QED BY <1>8, <1>t, <2>1 DEF CancelSearch, WaitsAreCurrent
<1> QED BY <1>1, <1>2, <1>3, <1>4, <1>5, <1>6, <1>7, <1>8 DEF ClientNext, CallerNext

LEMMA LockCorrect == ClientSpec => []LockInv
BY ClientInitInv, ClientInvStep, PTL DEF ClientSpec

\* The variables of the client keep their types.
THEOREM ClientTypeCorrect == ClientSpec => []ClientTypeOK
<1>1. LockInv => ClientTypeOK
    BY DEF LockInv
<1> QED BY <1>1, LockCorrect, PTL

-----------------------------------------------------------------------------
(* Requests are spaced. *)

SpacedStep ==
    \A c \in Caller : search[c] # "requesting" /\ search'[c] = "requesting" =>
        /\ now >= lastStarted + MinInterval
        /\ now >= promised
        /\ \A d \in Caller : search[d] # "requesting"

LEMMA StepIsSpaced == LockInv /\ [ClientNext]_clientVars => [SpacedStep]_clientVars
<1> SUFFICES ASSUME LockInv, ClientNext, NEW c \in Caller,
                    search[c] # "requesting", search'[c] = "requesting"
             PROVE  /\ now >= lastStarted + MinInterval
                    /\ now >= promised
                    /\ \A d \in Caller : search[d] # "requesting"
    BY DEF SpacedStep
<1> USE DEF LockInv, ClientTypeOK, SearchStep, Goes
<1>1. StartRequest(c)
    <2>1. CASE Tick
        BY <2>1 DEF Tick
    <2>2. ASSUME NEW d \in Caller, CallerNext(d) PROVE StartRequest(c)
        BY <2>2 DEF CallerNext, Search, WaitForRateLimit, StartRequest, RequestEnds,
                    RateLimited, CancelSearch
    <2> QED BY <2>1, <2>2 DEF ClientNext
<1>2. search[c] = "waiting" /\ now >= wakeAt[c]
    BY <1>1 DEF StartRequest
<1>3. now >= lastStarted + MinInterval /\ now >= promised
    BY <1>2, ClientAssumption DEF WaitsAreCurrent
<1>4. \A d \in Caller : search[d] # "requesting"
    BY <1>2 DEF OneHolder, LockHolders
<1> QED BY <1>3, <1>4

\* However many searches share the client and however they are cancelled, a request
\* starts only after the interval, after every cooldown the provider asked for, and
\* alone.
THEOREM SpacingCorrect == ClientSpec => SearchesAreSpaced
<1>1. LockInv /\ [ClientNext]_clientVars => [SpacedStep]_clientVars
    BY StepIsSpaced
<1>2. ClientSpec => [][SpacedStep]_clientVars
    BY <1>1, LockCorrect, PTL DEF ClientSpec
<1> QED BY <1>2 DEF SearchesAreSpaced, SpacedStep

-----------------------------------------------------------------------------
(* The pool registry. *)

\* Who creates a pool is alone in the lock, and its DSN has no pool yet.
CreatesAlone ==
    \A s \in Store : getting[s] = "creating" =>
        /\ ~closed
        /\ pools[dsn[s]] = NoPool
        /\ \A r \in Store : getting[r] = "creating" => r = s

\* What the registry lists is open and belongs to the DSN it is listed under;
\* a closed registry lists nothing.
ListedPoolsAreOpen ==
    \A d \in Dsn : pools[d] # NoPool =>
        ~closed /\ pool[pools[d]] = "open" /\ dsn[pools[d]] = d

\* A call asks for a DSN once it has looked, and makes a pool only when served.
CallsAreOrdered ==
    \A s \in Store :
        /\ getting[s] \in {"queued", "creating", "served"} => dsn[s] \in Dsn
        /\ getting[s] = "served" => held[s] \in Store
        /\ pool[s] # "none" => getting[s] = "served"

RegistryInv ==
    /\ RegistryTypeOK
    /\ CreatesAlone
    /\ ListedPoolsAreOpen
    /\ CallsAreOrdered
    /\ \A p \in toClose : closed /\ pool[p] = "open"
    /\ PoolsAreShared

LEMMA RegistryInitInv == RegistryInit => RegistryInv
BY RegistryAssumption
DEF RegistryInit, RegistryInv, RegistryTypeOK, GetStep, CreatesAlone, ListedPoolsAreOpen,
    CallsAreOrdered, PoolsAreShared

LEMMA RegistryInvStep == RegistryInv /\ [RegistryNext]_registryVars => RegistryInv'
<1> SUFFICES ASSUME RegistryInv, [RegistryNext]_registryVars PROVE RegistryInv'
    OBVIOUS
<1> USE RegistryAssumption
    DEF RegistryInv, RegistryTypeOK, GetStep, CreatesAlone, ListedPoolsAreOpen,
        CallsAreOrdered, PoolsAreShared, Moves, Serves, LockIsFree
<1>1. CASE UNCHANGED registryVars
    BY <1>1 DEF registryVars
<1>2. CASE Close
    BY <1>2 DEF Close
<1>3. ASSUME NEW s \in Store, GetPool(s) PROVE RegistryInv'
    BY <1>3 DEF GetPool, Dsn
<1>4. ASSUME NEW s \in Store, TakeLock(s) PROVE RegistryInv'
    BY <1>4 DEF TakeLock
<1>5. ASSUME NEW s \in Store, CreatePool(s) PROVE RegistryInv'
    BY <1>5 DEF CreatePool
<1>6. ASSUME NEW s \in Store, CreateFails(s) PROVE RegistryInv'
    BY <1>6 DEF CreateFails
<1>7. ASSUME NEW s \in Store, CancelWaiting(s) PROVE RegistryInv'
    BY <1>7 DEF CancelWaiting
<1>8. ASSUME NEW p \in Store, ClosePool(p) PROVE RegistryInv'
    BY <1>8 DEF ClosePool
<1> QED BY <1>1, <1>2, <1>3, <1>4, <1>5, <1>6, <1>7, <1>8 DEF RegistryNext, StoreNext

LEMMA RegistryCorrect == RegistrySpec => []RegistryInv
BY RegistryInitInv, RegistryInvStep, PTL DEF RegistrySpec

\* The variables of the registry keep their types.
THEOREM RegistryTypeCorrect == RegistrySpec => []RegistryTypeOK
<1>1. RegistryInv => RegistryTypeOK
    BY DEF RegistryInv
<1> QED BY <1>1, RegistryCorrect, PTL

\* A DSN has at most one open pool, and no open pool escapes the closing of the
\* registry, for any number of calls of get_pool.
THEOREM PoolsShared == RegistrySpec => []PoolsAreShared
<1>1. RegistryInv => PoolsAreShared
    BY DEF RegistryInv
<1> QED BY <1>1, RegistryCorrect, PTL

-----------------------------------------------------------------------------
(* Folds, number by number.                                                 *)

LEMMA LeastNumber ==
    ASSUME NEW T \in SUBSET Nat, T # {}
    PROVE  \E n \in T : \A m \in T : n <= m
<1> DEFINE R == OpToRel(<, Nat)
<1>1. IsWellFoundedOn(R, Nat)
    BY NatLessThanWellFounded
<1>2. \A m, n \in Nat : m < n => <<m, n>> \in R
    BY DEF OpToRel
<1> HIDE DEF R
<1>3. PICK n \in T : \A m \in T : ~(<<m, n>> \in R)
    BY <1>1, WFMin
<1>4. \A m \in T : ~(m < n)
    BY <1>2, <1>3
<1> QED BY <1>4

\* What holds at 0 and is kept by every step holds up to n.
LEMMA IntervalInduction ==
    ASSUME NEW n \in Nat, NEW T, 0 \in T, \A i \in 1..n : i - 1 \in T => i \in T
    PROVE  \A i \in 0..n : i \in T
<1> SUFFICES ASSUME (0..n) \ T # {} PROVE FALSE
    OBVIOUS
<1>1. PICK i \in (0..n) \ T : \A m \in (0..n) \ T : i <= m
    BY LeastNumber, (0..n) \ T \in SUBSET Nat
<1>2. i \in 1..n /\ i - 1 \in 0..n
    BY <1>1
<1>3. i - 1 \in T
    BY <1>1, <1>2
<1> QED BY <1>1, <1>2, <1>3

LEMMA MaxOfNumbers ==
    ASSUME NEW n \in Nat, NEW S \in SUBSET (1..n), S # {}
    PROVE  Max(S) \in S /\ \A i \in S : i <= Max(S)
<1> DEFINE T == {d \in Nat : n - d \in S}
<1>1. \A i \in S : n - i \in T
    <2> TAKE i \in S
    <2>1. i \in 1..n /\ n - i \in Nat /\ n - (n - i) = i
        OBVIOUS
    <2> QED BY <2>1
<1>2. PICK d \in T : \A e \in T : d <= e
    BY <1>1, LeastNumber, T \in SUBSET Nat
<1>3. n - d \in S /\ d \in Nat
    OBVIOUS
<1>4. \A j \in S : j <= n - d
    <2> TAKE j \in S
    <2>1. d <= n - j
        BY <1>1, <1>2
    <2> QED BY <2>1, <1>3, j \in Nat
<1> HIDE DEF T
<1> QED BY <1>3, <1>4 DEF Max

LEMMA MaxOfInterval ==
    ASSUME NEW n \in Nat \ {0}
    PROVE  Max(1..n) = n
BY DEF Max

\* A function on the sets of numbers up to n that takes a step for every number.
Iterates(g, n, S, base, step) ==
    /\ g \in [SUBSET (1..n) -> S]
    /\ \A s \in SUBSET (1..n) :
        g[s] = IF s = {} THEN base ELSE step[<<g[s \ {Max(s)}], Max(s)>>]

\* A step for every number up to n, folded over the sets of these numbers from their
\* smallest to their largest: the function exists, which FoldLeft chooses.
LEMMA IterationExists ==
    ASSUME NEW n \in Nat, NEW S, NEW base \in S, NEW step \in [S \X (1..n) -> S]
    PROVE  \E g : Iterates(g, n, S, base, step)
<1> DEFINE Folds(k, g) ==
                \A s \in SUBSET (1..k) :
                    g[s] = IF s = {} THEN base ELSE step[<<g[s \ {Max(s)}], Max(s)>>]
           T == {k \in 0..n : \E g \in [SUBSET (1..k) -> S] : Folds(k, g)}
<1>1. 0 \in T
    <2> DEFINE g == [s \in SUBSET (1..0) |-> base]
    <2>1. g \in [SUBSET (1..0) -> S]
        OBVIOUS
    <2>2. \A s \in SUBSET (1..0) : s = {} /\ g[s] = base
        OBVIOUS
    <2>3. Folds(0, g)
        BY <2>2
    <2>4. \E f \in [SUBSET (1..0) -> S] : Folds(0, f)
        <3> HIDE DEF g, Folds
        <3> QED BY <2>1, <2>3
    <2>5. 0 \in 0..n
        OBVIOUS
    <2> HIDE DEF Folds
    <2> QED BY <2>4, <2>5, Zenon
<1>2. ASSUME NEW k \in 1..n, k - 1 \in T
      PROVE  k \in T
    <2>1. PICK g \in [SUBSET (1..(k - 1)) -> S] : Folds(k - 1, g)
        BY <1>2
    <2> DEFINE h == [s \in SUBSET (1..k) |->
                        IF k \in s THEN step[<<g[s \ {k}], k>>] ELSE g[s]]
    <2>2. ASSUME NEW s \in SUBSET (1..k), k \in s
          PROVE  /\ s \ {k} \in SUBSET (1..(k - 1))
                 /\ Max(s) = k
                 /\ h[s \ {k}] = g[s \ {k}]
                 /\ h[s] = step[<<g[s \ {k}], k>>]
                 /\ h[s] \in S
        <3>1. s \ {k} \in SUBSET (1..(k - 1)) /\ k \in Nat
            BY <2>2
        <3>2. Max(s) \in s /\ k <= Max(s)
            BY <2>2, MaxOfNumbers, k \in Nat
        <3>3. Max(s) = k
            BY <3>2, Max(s) \in 1..k
        <3>4. s \ {k} \in SUBSET (1..k) /\ k \notin s \ {k}
            OBVIOUS
        <3>5. h[s \ {k}] = g[s \ {k}]
            BY <3>4
        <3>6. h[s] = step[<<g[s \ {k}], k>>]
            BY <2>2
        <3>7. g[s \ {k}] \in S
            BY <3>1
        <3> HIDE DEF h
        <3> QED BY <3>1, <3>3, <3>5, <3>6, <3>7
    <2>3. ASSUME NEW s \in SUBSET (1..k), k \notin s
          PROVE  s \in SUBSET (1..(k - 1)) /\ h[s] = g[s] /\ h[s] \in S
        <3>1. s \in SUBSET (1..(k - 1))
            BY <2>3
        <3>2. h[s] = g[s]
            BY <2>3
        <3> HIDE DEF h
        <3> QED BY <3>1, <3>2
    <2>4. h \in [SUBSET (1..k) -> S]
        <3>1. \A s \in SUBSET (1..k) : h[s] \in S
            <4> HIDE DEF h
            <4> QED BY <2>2, <2>3
        <3> QED BY <3>1
    <2>5. ASSUME NEW s \in SUBSET (1..k)
          PROVE  h[s] = IF s = {} THEN base ELSE step[<<h[s \ {Max(s)}], Max(s)>>]
        <3>1. CASE k \in s
            <4> HIDE DEF h
            <4> QED BY <2>2, <3>1
        <3>2. CASE k \notin s
            <4>1. s \in SUBSET (1..(k - 1)) /\ h[s] = g[s]
                BY <2>3, <3>2
            <4>2. h[s \ {Max(s)}] = g[s \ {Max(s)}]
                <5> HIDE DEF h
                <5> QED BY <2>3, <3>2
            <4>3. g[s] = IF s = {} THEN base ELSE step[<<g[s \ {Max(s)}], Max(s)>>]
                BY <2>1, <4>1
            <4> HIDE DEF h, Folds
            <4> QED BY <4>1, <4>2, <4>3
        <3> HIDE DEF h
        <3> QED BY <3>1, <3>2
    <2>6. Folds(k, h)
        <3> HIDE DEF h
        <3> QED BY <2>5
    <2> HIDE DEF h, Folds
    <2> QED BY <2>4, <2>6
<1>3. n \in T
    <2> HIDE DEF T
    <2> QED BY <1>1, <1>2, IntervalInduction
<1> QED BY <1>3 DEF Iterates

LEMMA SmallestOf ==
    ASSUME NEW n \in Nat, NEW indexes \in SUBSET (1..n), indexes # {}
    PROVE  Smallest(indexes) \in indexes
BY LeastNumber, indexes \in SUBSET Nat DEF Smallest

-----------------------------------------------------------------------------
(* Deduplication of materials.                                              *)

LEMMA AddMaterialType ==
    ASSUME NEW kept \in Seq(Item), NEW m \in Item
    PROVE  AddMaterial(kept, m) \in Seq(Item)
<1> DEFINE same == {i \in DOMAIN kept : IsDuplicate(kept[i], m)}
<1>1. CASE same = {}
    BY <1>1 DEF AddMaterial
<1>2. CASE same # {}
    <2>1. Smallest(same) \in same /\ Smallest(same) \in 1..Len(kept)
        BY <1>2, SmallestOf, same \in SUBSET (1..Len(kept)), Len(kept) \in Nat
    <2> HIDE DEF same
    <2>2. [kept EXCEPT ![Smallest(same)] = m] \in Seq(Item)
        BY <2>1, ExceptSeq
    <2> QED BY <1>2, <2>2 DEF AddMaterial, same
<1> QED BY <1>1, <1>2

\* Deduplication adds the materials one by one, in their order.
LEMMA DedupIsIterated ==
    ASSUME NEW offered \in Seq(Item)
    PROVE  \E kept \in [0..Len(offered) -> Seq(Item)] :
                /\ kept[0] = <<>>
                /\ \A i \in 1..Len(offered) : kept[i] = AddMaterial(kept[i - 1], offered[i])
                /\ DedupMaterials(offered) = kept[Len(offered)]
<1> DEFINE n == Len(offered)
           step == [p \in Seq(Item) \X (1..n) |-> AddMaterial(p[1], offered[p[2]])]
           Folds(g) == g = [s \in SUBSET DOMAIN offered |->
                                IF s = {} THEN <<>>
                                ELSE AddMaterial(g[s \ {Max(s)}], offered[Max(s)])]
<1>1. n \in Nat /\ DOMAIN offered = 1..n /\ \A i \in 1..n : offered[i] \in Item
    OBVIOUS
<1>2. step \in [Seq(Item) \X (1..n) -> Seq(Item)]
    <2>1. \A p \in Seq(Item) \X (1..n) : AddMaterial(p[1], offered[p[2]]) \in Seq(Item)
        BY <1>1, AddMaterialType
    <2> QED BY <2>1
<1> DEFINE Kept == Seq(Item)
           none == <<>>
<1>3. none \in Kept
    OBVIOUS
<1>4. \A kept \in Kept, i \in 1..n : step[<<kept, i>>] = AddMaterial(kept, offered[i])
    OBVIOUS
<1>5. PICK g : Iterates(g, n, Kept, none, step)
    <2>1. step \in [Kept \X (1..n) -> Kept] /\ n \in Nat
        BY <1>1, <1>2
    <2> HIDE DEF n, step, Kept, none
    <2> QED BY <2>1, <1>3, IterationExists
<1> HIDE DEF n, step
<1>6. ASSUME NEW s \in SUBSET (1..n), s # {}
      PROVE  Max(s) \in 1..n /\ s \ {Max(s)} \in SUBSET (1..n)
    BY <1>6, <1>1, MaxOfNumbers
<1>7. ASSUME NEW s \in SUBSET (1..n)
      PROVE  g[s] = IF s = {} THEN <<>> ELSE AddMaterial(g[s \ {Max(s)}], offered[Max(s)])
    <2> HIDE DEF Kept
    <2> QED BY <1>4, <1>5, <1>6 DEF Iterates
<1>8. Folds(g)
    BY <1>1, <1>5, <1>7 DEF Iterates
<1>9. PICK it : DedupMaterials(offered) = it[DOMAIN offered] /\ it = CHOOSE f : Folds(f)
    BY Zenon DEF DedupMaterials, FoldLeft, MapThenFoldSet
<1>10. Folds(it)
    <2> HIDE DEF Folds
    <2> QED BY <1>8, <1>9, Zenon
<1> DEFINE kept == [k \in 0..n |-> it[1..k]]
<1>11. \A s \in SUBSET (1..n) :
        it[s] = IF s = {} THEN <<>> ELSE AddMaterial(it[s \ {Max(s)}], offered[Max(s)])
    BY <1>1, <1>10
<1>12. kept[0] = <<>> /\ kept[n] = DedupMaterials(offered)
    <2>1. 1..0 = {} /\ {} \in SUBSET (1..n)
        OBVIOUS
    <2>2. it[{}] = <<>>
        BY <1>11, <2>1
    <2> QED BY <1>1, <1>9, <2>1, <2>2
<1>13. ASSUME NEW i \in 1..n
      PROVE  kept[i] = AddMaterial(kept[i - 1], offered[i])
    <2>1. /\ i \in Nat \ {0} /\ 1..i \in SUBSET (1..n) /\ i \in 1..i
          /\ (1..i) \ {i} = 1..(i - 1)
        BY <1>1
    <2>2. it[1..i] = AddMaterial(it[1..(i - 1)], offered[i])
        BY <1>11, <2>1, MaxOfInterval, 1..i # {}
    <2>3. i \in 0..n /\ i - 1 \in 0..n
        BY <1>1
    <2> QED BY <2>2, <2>3
<1> HIDE DEF kept
<1>14. \A k \in 0..n : kept[k] \in Seq(Item)
    <2> DEFINE T == {k \in 0..n : kept[k] \in Seq(Item)}
    <2>1. 0 \in T
        BY <1>1, <1>12, 0 \in 0..n, <<>> \in Seq(Item)
    <2>2. ASSUME NEW i \in 1..n, i - 1 \in T PROVE i \in T
        <3>1. i \in 0..n /\ kept[i - 1] \in Seq(Item) /\ offered[i] \in Item
            BY <1>1, <2>2
        <3> QED BY <1>13, <3>1, AddMaterialType
    <2> HIDE DEF T
    <2>3. \A k \in 0..n : k \in T
        BY <1>1, <2>1, <2>2, IntervalInduction
    <2> QED BY <2>3 DEF T
<1>15. kept \in [0..n -> Seq(Item)]
    BY <1>14 DEF kept
<1> QED BY <1>12, <1>13, <1>15 DEF n

LEMMA TextsAreFinite ==
    ASSUME NEW a \in Text
    PROVE  IsFiniteSet(a) /\ Cardinality(a) \in Nat /\ (Cardinality(a) = 0 <=> a = {})
BY FS_Subset, FS_CardinalityType, FS_EmptySet, TextAssumption DEF Text

LEMMA LongerTextsSaySomething ==
    ASSUME NEW a, NEW b, a.content \in Text, b.content \in Text
    PROVE  /\ Longer(a, b) => a.content # {}
           /\ ~Longer(a, b) /\ a.content # {} => b.content # {}
<1>1. /\ Cardinality(a.content) \in Nat /\ (Cardinality(a.content) = 0 <=> a.content = {})
      /\ Cardinality(b.content) \in Nat /\ (Cardinality(b.content) = 0 <=> b.content = {})
    BY TextsAreFinite
<1> QED BY <1>1 DEF Longer

KeepsSources(kept, m, new) ==
    /\ new # <<>>
    /\ \A j \in DOMAIN new : new[j] = m \/ \E k \in DOMAIN kept : new[j] = kept[k]
    /\ \A old \in {kept[k] : k \in DOMAIN kept} \cup {m} :
        \E j \in DOMAIN new :
            /\ SourceRef(new[j]) = SourceRef(old)
            /\ old.content # {} => new[j].content # {}

\* A material that is added leaves for every material, itself included, one with the
\* same source, and with some text if that one had any.
LEMMA AddMaterialKeepsSources ==
    ASSUME NEW kept \in Seq(Item), NEW m \in Item,
           \A k \in DOMAIN kept : kept[k].doc = m.doc => SourceRef(kept[k]) = SourceRef(m)
    PROVE  KeepsSources(kept, m, AddMaterial(kept, m))
<1> DEFINE same == {i \in DOMAIN kept : IsDuplicate(kept[i], m)}
           s == Smallest(same)
<1>1. DOMAIN kept = 1..Len(kept) /\ Len(kept) \in Nat
    OBVIOUS
<1>2. CASE same = {}
    <2>1. AddMaterial(kept, m) = Append(kept, m)
        BY <1>2 DEF AddMaterial
    <2>2. /\ DOMAIN Append(kept, m) = 1..(Len(kept) + 1)
          /\ \A k \in DOMAIN kept : Append(kept, m)[k] = kept[k]
          /\ Append(kept, m)[Len(kept) + 1] = m
        BY <1>1
    <2> HIDE DEF same
    <2> QED BY <1>1, <2>1, <2>2 DEF KeepsSources
<1>3. CASE same # {}
    <2>1. s \in DOMAIN kept /\ IsDuplicate(kept[s], m)
        <3>1. s \in same
            BY <1>1, <1>3, SmallestOf, same \in SUBSET (1..Len(kept))
        <3> HIDE DEF s
        <3> QED BY <3>1
    <2> HIDE DEF same, s
    <2>2. SourceRef(kept[s]) = SourceRef(m)
        BY <2>1 DEF IsDuplicate, SameIdentityOrExactDuplicate, SameSourceContainment
    <2>3. /\ kept[s] \in Item
          /\ Longer(m, kept[s]) => m.content # {}
          /\ ~Longer(m, kept[s]) /\ m.content # {} => kept[s].content # {}
        <3>1. kept[s] \in Item
            BY <2>1
        <3>2. kept[s].content \in Text /\ m.content \in Text
            BY <3>1 DEF Item
        <3> QED BY <3>1, <3>2, LongerTextsSaySomething
    <2>4. CASE Longer(m, kept[s])
        <3>1. AddMaterial(kept, m) = [kept EXCEPT ![s] = m]
            BY <1>3, <2>4 DEF AddMaterial, same, s
        <3>2. /\ DOMAIN AddMaterial(kept, m) = DOMAIN kept
              /\ AddMaterial(kept, m)[s] = m
              /\ \A k \in DOMAIN kept \ {s} : AddMaterial(kept, m)[k] = kept[k]
            BY <2>1, <3>1
        <3>3. AddMaterial(kept, m) # <<>>
            BY <2>1, <3>2
        <3> QED BY <2>1, <2>2, <2>3, <2>4, <3>2, <3>3 DEF KeepsSources
    <2>5. CASE ~Longer(m, kept[s])
        <3>1. AddMaterial(kept, m) = kept
            BY <1>3, <2>5 DEF AddMaterial, same, s
        <3> QED BY <2>1, <2>2, <2>3, <2>5, <3>1 DEF KeepsSources
    <2> QED BY <2>4, <2>5
<1> QED BY <1>2, <1>3

SameDocSameSource(offered) ==
    \A i, j \in DOMAIN offered :
        offered[i].doc = offered[j].doc => SourceRef(offered[i]) = SourceRef(offered[j])

\* Deduplication invents no material, loses no source that said something, and leaves
\* nothing only of nothing.
THEOREM DedupKeepsSources ==
    ASSUME NEW offered \in Seq(Item), SameDocSameSource(offered)
    PROVE  /\ DedupMaterials(offered) \in Seq(Item)
           /\ offered # <<>> => DedupMaterials(offered) # <<>>
           /\ \A j \in DOMAIN DedupMaterials(offered) :
                \E i \in DOMAIN offered : DedupMaterials(offered)[j] = offered[i]
           /\ \A i \in DOMAIN offered : offered[i].content # {} =>
                \E j \in DOMAIN DedupMaterials(offered) :
                    /\ SourceRef(DedupMaterials(offered)[j]) = SourceRef(offered[i])
                    /\ DedupMaterials(offered)[j].content # {}
<1> DEFINE n == Len(offered)
<1>1. n \in Nat /\ DOMAIN offered = 1..n /\ \A i \in 1..n : offered[i] \in Item
    OBVIOUS
<1>2. PICK kept \in [0..n -> Seq(Item)] :
        /\ kept[0] = <<>>
        /\ \A i \in 1..n : kept[i] = AddMaterial(kept[i - 1], offered[i])
        /\ DedupMaterials(offered) = kept[n]
    BY DedupIsIterated
<1> DEFINE Keeps(k) ==
            /\ k # 0 => kept[k] # <<>>
            /\ \A j \in DOMAIN kept[k] : \E i \in 1..n : kept[k][j] = offered[i]
            /\ \A i \in 1..k : offered[i].content # {} =>
                \E j \in DOMAIN kept[k] :
                    SourceRef(kept[k][j]) = SourceRef(offered[i]) /\ kept[k][j].content # {}
           T == {k \in 0..n : Keeps(k)}
<1> HIDE DEF n
<1>3. 0 \in T
    <2>1. DOMAIN kept[0] = {} /\ 1..0 = {} /\ 0 \in 0..n
        BY <1>1, <1>2
    <2> QED BY <2>1
<1>4. ASSUME NEW i \in 1..n, i - 1 \in T
      PROVE  i \in T
    <2> DEFINE old == kept[i - 1]
               new == kept[i]
    <2>1. /\ old \in Seq(Item) /\ offered[i] \in Item /\ new = AddMaterial(old, offered[i])
          /\ i \in Nat /\ i - 1 \in 0..n /\ i # 0 /\ Keeps(i - 1)
        <3>1. i \in Nat /\ i - 1 \in 0..n /\ i # 0
            BY <1>1
        <3>2. Keeps(i - 1)
            <4> HIDE DEF Keeps
            <4> QED BY <1>4
        <3> HIDE DEF Keeps
        <3> QED BY <1>1, <1>2, <3>1, <3>2
    <2>2. \A j \in DOMAIN old : \E h \in 1..n : old[j] = offered[h]
        BY <2>1
    <2>3. \A h \in 1..(i - 1) : offered[h].content # {} =>
            \E j \in DOMAIN old :
                SourceRef(old[j]) = SourceRef(offered[h]) /\ old[j].content # {}
        BY <2>1
    <2> HIDE DEF old, new, Keeps
    <2>4. \A k \in DOMAIN old :
            old[k].doc = offered[i].doc => SourceRef(old[k]) = SourceRef(offered[i])
        BY <1>1, <2>2 DEF SameDocSameSource
    <2>5. KeepsSources(old, offered[i], new)
        BY <2>1, <2>4, AddMaterialKeepsSources
    <2>6. \A j \in DOMAIN new : \E h \in 1..n : new[j] = offered[h]
        BY <2>2, <2>5 DEF KeepsSources
    <2>7. ASSUME NEW h \in 1..i, offered[h].content # {}
          PROVE  \E j \in DOMAIN new :
                    SourceRef(new[j]) = SourceRef(offered[h]) /\ new[j].content # {}
        <3>1. CASE h = i
            BY <2>5, <2>7, <3>1 DEF KeepsSources
        <3>2. CASE h \in 1..(i - 1)
            <4>1. PICK k \in DOMAIN old :
                    SourceRef(old[k]) = SourceRef(offered[h]) /\ old[k].content # {}
                BY <2>3, <2>7, <3>2
            <4> QED BY <2>5, <4>1 DEF KeepsSources
        <3> QED BY <2>1, <3>1, <3>2
    <2>8. Keeps(i)
        BY <2>5, <2>6, <2>7 DEF Keeps, KeepsSources, new
    <2> QED BY <2>8, i \in 0..n
<1>5. \A k \in 0..n : k \in T
    <2> HIDE DEF T
    <2> QED BY <1>1, <1>3, <1>4, IntervalInduction
<1>6. Keeps(n)
    <2> HIDE DEF Keeps
    <2> QED BY <1>1, <1>5
<1>7. offered # <<>> => n # 0
    BY <1>1 DEF n
<1>8. kept[n] \in Seq(Item)
    BY <1>1, <1>2
<1>9. /\ DedupMaterials(offered) \in Seq(Item)
      /\ offered # <<>> => DedupMaterials(offered) # <<>>
    BY <1>2, <1>6, <1>7, <1>8
<1>10. /\ \A j \in DOMAIN DedupMaterials(offered) :
            \E i \in DOMAIN offered : DedupMaterials(offered)[j] = offered[i]
       /\ \A i \in DOMAIN offered : offered[i].content # {} =>
            \E j \in DOMAIN DedupMaterials(offered) :
                /\ SourceRef(DedupMaterials(offered)[j]) = SourceRef(offered[i])
                /\ DedupMaterials(offered)[j].content # {}
    BY <1>1, <1>2, <1>6
<1> QED BY <1>9, <1>10

-----------------------------------------------------------------------------
(* Consolidation of evidence units.                                         *)

LEMMA AddUnitType ==
    ASSUME NEW kept \in Seq(Unit), NEW u \in Unit
    PROVE  AddUnit(kept, u) \in Seq(Unit)
<1> DEFINE same == {i \in DOMAIN kept : SameEvidence(kept[i], u)}
<1>1. CASE same = {}
    BY <1>1 DEF AddUnit
<1>2. CASE same # {}
    <2>1. Smallest(same) \in same /\ Smallest(same) \in 1..Len(kept)
        BY <1>2, SmallestOf, same \in SUBSET (1..Len(kept)), Len(kept) \in Nat
    <2> HIDE DEF same
    <2>2. kept[Smallest(same)] \in Unit
        BY <2>1
    <2>3. MergeUnits(kept[Smallest(same)], u) \in Unit
        BY <2>2 DEF MergeUnits, Unit
    <2>4. [kept EXCEPT ![Smallest(same)] = MergeUnits(@, u)] \in Seq(Unit)
        BY <2>1, <2>3, ExceptSeq
    <2> QED BY <1>2, <2>4 DEF AddUnit, same
<1> QED BY <1>1, <1>2

\* So does consolidation with the units.
LEMMA ConsolidationIsIterated ==
    ASSUME NEW units \in Seq(Unit)
    PROVE  \E kept \in [0..Len(units) -> Seq(Unit)] :
                /\ kept[0] = <<>>
                /\ \A i \in 1..Len(units) : kept[i] = AddUnit(kept[i - 1], units[i])
                /\ Consolidated(units) = kept[Len(units)]
<1> DEFINE n == Len(units)
           step == [p \in Seq(Unit) \X (1..n) |-> AddUnit(p[1], units[p[2]])]
           Folds(g) == g = [s \in SUBSET DOMAIN units |->
                                IF s = {} THEN <<>>
                                ELSE AddUnit(g[s \ {Max(s)}], units[Max(s)])]
<1>1. n \in Nat /\ DOMAIN units = 1..n /\ \A i \in 1..n : units[i] \in Unit
    OBVIOUS
<1>2. step \in [Seq(Unit) \X (1..n) -> Seq(Unit)]
    <2>1. \A p \in Seq(Unit) \X (1..n) : AddUnit(p[1], units[p[2]]) \in Seq(Unit)
        BY <1>1, AddUnitType
    <2> QED BY <2>1
<1> DEFINE Kept == Seq(Unit)
           none == <<>>
<1>3. none \in Kept
    OBVIOUS
<1>4. \A kept \in Kept, i \in 1..n : step[<<kept, i>>] = AddUnit(kept, units[i])
    OBVIOUS
<1>5. PICK g : Iterates(g, n, Kept, none, step)
    <2>1. step \in [Kept \X (1..n) -> Kept] /\ n \in Nat
        BY <1>1, <1>2
    <2> HIDE DEF n, step, Kept, none
    <2> QED BY <2>1, <1>3, IterationExists
<1> HIDE DEF n, step
<1>6. ASSUME NEW s \in SUBSET (1..n), s # {}
      PROVE  Max(s) \in 1..n /\ s \ {Max(s)} \in SUBSET (1..n)
    BY <1>6, <1>1, MaxOfNumbers
<1>7. ASSUME NEW s \in SUBSET (1..n)
      PROVE  g[s] = IF s = {} THEN <<>> ELSE AddUnit(g[s \ {Max(s)}], units[Max(s)])
    <2> HIDE DEF Kept
    <2> QED BY <1>4, <1>5, <1>6 DEF Iterates
<1>8. Folds(g)
    BY <1>1, <1>5, <1>7 DEF Iterates
<1>9. PICK it : Consolidated(units) = it[DOMAIN units] /\ it = CHOOSE f : Folds(f)
    BY Zenon DEF Consolidated, FoldLeft, MapThenFoldSet
<1>10. Folds(it)
    <2> HIDE DEF Folds
    <2> QED BY <1>8, <1>9, Zenon
<1> DEFINE kept == [k \in 0..n |-> it[1..k]]
<1>11. \A s \in SUBSET (1..n) :
        it[s] = IF s = {} THEN <<>> ELSE AddUnit(it[s \ {Max(s)}], units[Max(s)])
    BY <1>1, <1>10
<1>12. kept[0] = <<>> /\ kept[n] = Consolidated(units)
    <2>1. 1..0 = {} /\ {} \in SUBSET (1..n)
        OBVIOUS
    <2>2. it[{}] = <<>>
        BY <1>11, <2>1
    <2> QED BY <1>1, <1>9, <2>1, <2>2
<1>13. ASSUME NEW i \in 1..n
      PROVE  kept[i] = AddUnit(kept[i - 1], units[i])
    <2>1. /\ i \in Nat \ {0} /\ 1..i \in SUBSET (1..n) /\ i \in 1..i
          /\ (1..i) \ {i} = 1..(i - 1)
        BY <1>1
    <2>2. it[1..i] = AddUnit(it[1..(i - 1)], units[i])
        BY <1>11, <2>1, MaxOfInterval, 1..i # {}
    <2>3. i \in 0..n /\ i - 1 \in 0..n
        BY <1>1
    <2> QED BY <2>2, <2>3
<1> HIDE DEF kept
<1>14. \A k \in 0..n : kept[k] \in Seq(Unit)
    <2> DEFINE T == {k \in 0..n : kept[k] \in Seq(Unit)}
    <2>1. 0 \in T
        BY <1>1, <1>12, 0 \in 0..n, <<>> \in Seq(Unit)
    <2>2. ASSUME NEW i \in 1..n, i - 1 \in T PROVE i \in T
        <3>1. i \in 0..n /\ kept[i - 1] \in Seq(Unit) /\ units[i] \in Unit
            BY <1>1, <2>2
        <3> QED BY <1>13, <3>1, AddUnitType
    <2> HIDE DEF T
    <2>3. \A k \in 0..n : k \in T
        BY <1>1, <2>1, <2>2, IntervalInduction
    <2> QED BY <2>3 DEF T
<1>15. kept \in [0..n -> Seq(Unit)]
    BY <1>14 DEF kept
<1> QED BY <1>12, <1>13, <1>15 DEF n

Among(units) == {units[i] : i \in DOMAIN units}

Covers(f, u) ==
    /\ f.type = u.type
    /\ u.content \subseteq f.content
    /\ u.sources \subseteq f.sources

GroundedIn(f, found) ==
    /\ \E u \in found : u.content = f.content /\ u.type = f.type
    /\ \A s \in f.sources : \E u \in found :
        s \in u.sources /\ u.type = f.type /\ u.content \subseteq f.content

LEMMA GroundIsTransitive ==
    ASSUME NEW f, NEW between, NEW found, GroundedIn(f, between),
           \A g \in between : GroundedIn(g, found)
    PROVE  GroundedIn(f, found)
<1>1. \E u \in found : u.content = f.content /\ u.type = f.type
    BY DEF GroundedIn
<1>2. ASSUME NEW s \in f.sources
      PROVE  \E u \in found :
                s \in u.sources /\ u.type = f.type /\ u.content \subseteq f.content
    <2>1. PICK g \in between :
            s \in g.sources /\ g.type = f.type /\ g.content \subseteq f.content
        BY <1>2 DEF GroundedIn
    <2>2. PICK u \in found :
            s \in u.sources /\ u.type = g.type /\ u.content \subseteq g.content
        BY <2>1 DEF GroundedIn
    <2> QED BY <2>1, <2>2
<1> QED BY <1>1, <1>2 DEF GroundedIn

\* Of two units that are the same evidence, the merged one says all that either says
\* and names the sources of both: the longer text contains the other.
LEMMA MergeCovers ==
    ASSUME NEW u \in Unit, NEW v \in Unit, SameEvidence(u, v)
    PROVE  /\ MergeUnits(u, v) \in Unit
           /\ Covers(MergeUnits(u, v), u)
           /\ Covers(MergeUnits(u, v), v)
           /\ GroundedIn(MergeUnits(u, v), {u, v})
<1> DEFINE longer == IF Longer(v, u) THEN v ELSE u
           merged == MergeUnits(u, v)
<1>1. /\ u.content \in Text /\ v.content \in Text /\ u.type = v.type
      /\ u.sources \in SUBSET Doc /\ v.sources \in SUBSET Doc
    BY DEF SameEvidence, Unit
<1>2. /\ Cardinality(u.content) \in Nat /\ Cardinality(v.content) \in Nat
      /\ IsFiniteSet(u.content) /\ IsFiniteSet(v.content)
    BY <1>1, TextsAreFinite
<1>3. u.content \subseteq longer.content /\ v.content \subseteq longer.content
    <2>1. CASE u.content = v.content
        BY <2>1
    <2>2. CASE ConservativeContainment(u.content, v.content)
        <3>1. CASE Longer(v, u)
            BY <1>2, <2>2, <3>1 DEF ConservativeContainment, Longer
        <3>2. CASE ~Longer(v, u)
            <4>1. CASE Cardinality(u.content) <= Cardinality(v.content)
                <5>1. /\ u.content \subseteq v.content
                      /\ Cardinality(u.content) = Cardinality(v.content)
                    BY <1>2, <2>2, <3>2, <4>1 DEF ConservativeContainment, Longer
                <5>2. u.content = v.content
                    BY <1>2, <5>1, FS_Subset
                <5> QED BY <5>2
            <4>2. CASE ~(Cardinality(u.content) <= Cardinality(v.content))
                BY <2>2, <3>2, <4>2 DEF ConservativeContainment
            <4> QED BY <4>1, <4>2
        <3> QED BY <3>1, <3>2
    <2> QED BY <2>1, <2>2 DEF SameEvidence
<1>4. longer \in {u, v} /\ longer \in Unit
    OBVIOUS
<1> HIDE DEF longer
<1>5. /\ merged = [longer EXCEPT !.sources = u.sources \cup v.sources]
    BY DEF MergeUnits, longer
<1>6. /\ merged.content = longer.content /\ merged.type = longer.type
      /\ merged.sources = u.sources \cup v.sources
      /\ merged \in Unit
    <2>1. u.sources \cup v.sources \in SUBSET Doc
        BY <1>1
    <2> HIDE DEF merged
    <2> QED BY <1>4, <1>5, <2>1 DEF Unit
<1> HIDE DEF merged
<1>7. merged.type = u.type /\ merged.type = v.type
    BY <1>1, <1>4, <1>6
<1>8. Covers(merged, u) /\ Covers(merged, v)
    BY <1>3, <1>6, <1>7 DEF Covers
<1>9. GroundedIn(merged, {u, v})
    BY <1>3, <1>4, <1>6, <1>7 DEF GroundedIn
<1> QED BY <1>6, <1>8, <1>9 DEF merged

\* A unit that is added leaves every unit covered, itself included, and grounds the
\* unit it is merged into.
KeepsEvidence(kept, u, new) ==
    /\ new # <<>>
    /\ \A old \in Among(kept) \cup {u} : \E f \in Among(new) : Covers(f, old)
    /\ \A f \in Among(new) : GroundedIn(f, Among(kept) \cup {u})

LEMMA UnitIsGrounded ==
    ASSUME NEW found, NEW u \in found
    PROVE  Covers(u, u) /\ GroundedIn(u, found)
BY DEF Covers, GroundedIn

LEMMA AddUnitKeepsEvidence ==
    ASSUME NEW kept \in Seq(Unit), NEW u \in Unit
    PROVE  KeepsEvidence(kept, u, AddUnit(kept, u))
<1> DEFINE same == {i \in DOMAIN kept : SameEvidence(kept[i], u)}
           s == Smallest(same)
           new == AddUnit(kept, u)
           all == Among(kept) \cup {u}
<1>1. DOMAIN kept = 1..Len(kept) /\ Len(kept) \in Nat
    OBVIOUS
<1>2. CASE same = {}
    <2>1. new = Append(kept, u)
        BY <1>2 DEF AddUnit
    <2>2. /\ DOMAIN new = 1..(Len(kept) + 1)
          /\ \A k \in DOMAIN kept : new[k] = kept[k]
          /\ new[Len(kept) + 1] = u
        <3> HIDE DEF new
        <3> QED BY <1>1, <2>1
    <2> HIDE DEF new, same
    <2>3. Among(new) = all /\ new # <<>>
        BY <1>1, <2>2 DEF Among
    <2>4. \A old \in all : Covers(old, old) /\ GroundedIn(old, all)
        <3> HIDE DEF all
        <3> QED BY UnitIsGrounded
    <2> QED BY <2>3, <2>4 DEF KeepsEvidence, new
<1>3. CASE same # {}
    <2> DEFINE merged == MergeUnits(kept[s], u)
    <2>1. s \in DOMAIN kept /\ SameEvidence(kept[s], u)
        <3>1. s \in same
            BY <1>1, <1>3, SmallestOf, same \in SUBSET (1..Len(kept))
        <3> HIDE DEF s
        <3> QED BY <3>1
    <2>2. new = [kept EXCEPT ![s] = merged]
        BY <1>3 DEF AddUnit
    <2> HIDE DEF same, s, new, merged
    <2>3. kept[s] \in Unit
        BY <2>1
    <2>4. /\ Covers(merged, kept[s]) /\ Covers(merged, u)
          /\ GroundedIn(merged, {kept[s], u})
        BY <2>1, <2>3, MergeCovers DEF merged
    <2>5. /\ DOMAIN new = DOMAIN kept /\ new[s] = merged
          /\ \A k \in DOMAIN kept \ {s} : new[k] = kept[k]
        BY <2>1, <2>2
    <2>6. \A old \in all : Covers(old, old) /\ GroundedIn(old, all)
        <3> HIDE DEF all
        <3> QED BY UnitIsGrounded
    <2>7. GroundedIn(merged, all)
        BY <2>1, <2>4, <2>6, GroundIsTransitive DEF Among
    <2>8. \A f \in Among(new) : GroundedIn(f, all)
        <3> HIDE DEF all
        <3>1. \A k \in DOMAIN kept : kept[k] \in all
            BY DEF all, Among
        <3> QED BY <2>5, <2>6, <2>7, <3>1 DEF Among
    <2>9. ASSUME NEW old \in all
          PROVE  \E f \in Among(new) : Covers(f, old)
        <3>1. merged \in Among(new)
            BY <2>1, <2>5 DEF Among
        <3>2. CASE old \in {kept[s], u}
            BY <2>4, <3>1, <3>2
        <3>3. CASE old \notin {kept[s], u}
            <4>1. PICK k \in DOMAIN kept \ {s} : old = kept[k]
                BY <3>3 DEF Among
            <4>2. old \in Among(new)
                BY <2>5, <4>1 DEF Among
            <4> QED BY <2>6, <4>2
        <3> QED BY <3>2, <3>3
    <2>10. new # <<>>
        BY <2>1, <2>5
    <2> QED BY <2>8, <2>9, <2>10 DEF KeepsEvidence, new
<1> QED BY <1>2, <1>3

LEMMA CoversIsTransitive ==
    ASSUME NEW f, NEW g, NEW u, Covers(f, g), Covers(g, u)
    PROVE  Covers(f, u)
BY DEF Covers

\* Consolidation loses no statement and no source of a unit, cites no source for what
\* it did not say a part of, and leaves nothing only of nothing.
THEOREM ConsolidationKeepsEvidence ==
    ASSUME NEW units \in Seq(Unit)
    PROVE  /\ Consolidated(units) \in Seq(Unit)
           /\ Consolidated(units) = <<>> <=> units = <<>>
           /\ \A u \in Among(units) : \E f \in Among(Consolidated(units)) : Covers(f, u)
           /\ \A f \in Among(Consolidated(units)) : GroundedIn(f, Among(units))
<1> DEFINE n == Len(units)
           First(k) == {units[i] : i \in 1..k}
<1>1. n \in Nat /\ DOMAIN units = 1..n /\ \A i \in 1..n : units[i] \in Unit
    OBVIOUS
<1>2. PICK kept \in [0..n -> Seq(Unit)] :
        /\ kept[0] = <<>>
        /\ \A i \in 1..n : kept[i] = AddUnit(kept[i - 1], units[i])
        /\ Consolidated(units) = kept[n]
    BY ConsolidationIsIterated
<1> DEFINE Keeps(k) ==
            /\ k # 0 => kept[k] # <<>>
            /\ \A u \in First(k) : \E f \in Among(kept[k]) : Covers(f, u)
            /\ \A f \in Among(kept[k]) : GroundedIn(f, First(k))
           T == {k \in 0..n : Keeps(k)}
<1> HIDE DEF n
<1>3. 0 \in T
    <2>1. Among(kept[0]) = {} /\ First(0) = {} /\ 0 \in 0..n
        BY <1>1, <1>2 DEF Among
    <2> HIDE DEF First
    <2> QED BY <2>1
<1>4. ASSUME NEW i \in 1..n, i - 1 \in T
      PROVE  i \in T
    <2> DEFINE old == kept[i - 1]
               new == kept[i]
    <2>1. i \in Nat /\ i - 1 \in 0..n /\ i # 0 /\ i \in 0..n
        BY <1>1
    <2>2. Keeps(i - 1)
        <3> HIDE DEF Keeps
        <3> QED BY <1>4
    <2>3. First(i) = First(i - 1) \cup {units[i]}
        <3>1. 1..i = (1..(i - 1)) \cup {i}
            BY <2>1
        <3> QED BY <3>1
    <2> HIDE DEF First
    <2>4. KeepsEvidence(old, units[i], new)
        BY <1>1, <1>2, <2>1, AddUnitKeepsEvidence
    <2>5. /\ \A u \in First(i - 1) : \E f \in Among(old) : Covers(f, u)
          /\ \A f \in Among(old) : GroundedIn(f, First(i - 1))
        BY <2>2
    <2> HIDE DEF old, new, Keeps
    <2>6. ASSUME NEW u \in First(i)
          PROVE  \E f \in Among(new) : Covers(f, u)
        <3>1. PICK g \in Among(old) \cup {units[i]} : Covers(g, u)
            BY <2>3, <2>5, UnitIsGrounded
        <3>2. PICK f \in Among(new) : Covers(f, g)
            BY <2>4 DEF KeepsEvidence
        <3> QED BY <3>1, <3>2, CoversIsTransitive
    <2>7. ASSUME NEW f \in Among(new)
          PROVE  GroundedIn(f, First(i))
        <3>1. GroundedIn(f, Among(old) \cup {units[i]})
            BY <2>4 DEF KeepsEvidence
        <3>2. ASSUME NEW g \in Among(old) \cup {units[i]}
              PROVE  GroundedIn(g, First(i))
            <4>1. CASE g = units[i]
                BY <2>3, <4>1, UnitIsGrounded
            <4>2. CASE g \in Among(old)
                <5>1. GroundedIn(g, First(i - 1))
                    BY <2>5, <4>2
                <5> QED BY <2>3, <5>1 DEF GroundedIn
            <4> QED BY <4>1, <4>2
        <3> QED BY <3>1, <3>2, GroundIsTransitive
    <2>8. new # <<>>
        BY <2>4 DEF KeepsEvidence
    <2>9. Keeps(i)
        BY <2>6, <2>7, <2>8 DEF Keeps, new
    <2> QED BY <2>1, <2>9
<1>5. Keeps(n)
    <2>1. \A k \in 0..n : k \in T
        <3> HIDE DEF T
        <3> QED BY <1>1, <1>3, <1>4, IntervalInduction
    <2> HIDE DEF Keeps
    <2> QED BY <1>1, <2>1
<1>6. First(n) = Among(units)
    BY <1>1 DEF Among
<1>7. n = 0 <=> units = <<>>
    BY <1>1 DEF n
<1> HIDE DEF First
<1>8. Consolidated(units) \in Seq(Unit) /\ (Consolidated(units) = <<>> <=> units = <<>>)
    BY <1>1, <1>2, <1>5, <1>7
<1> QED BY <1>2, <1>5, <1>6, <1>8

-----------------------------------------------------------------------------
(* The units of all materials.                                              *)

\* The units of the materials are joined in the order of the materials.
LEMMA JoiningIsIterated ==
    ASSUME work \in Seq(Work)
    PROVE  \E kept \in [0..Len(work) -> Seq(Unit)] :
                /\ kept[0] = <<>>
                /\ \A i \in 1..Len(work) : kept[i] = kept[i - 1] \o work[i].units
                /\ StructuredUnits = kept[Len(work)]
<1> DEFINE n == Len(work)
           step == [p \in Seq(Unit) \X (1..n) |-> p[1] \o work[p[2]].units]
           Folds(g) == g = [s \in SUBSET DOMAIN work |->
                                IF s = {} THEN <<>>
                                ELSE g[s \ {Max(s)}] \o work[Max(s)].units]
<1>1. n \in Nat /\ DOMAIN work = 1..n /\ \A i \in 1..n : work[i] \in Work
    OBVIOUS
<1>2. step \in [Seq(Unit) \X (1..n) -> Seq(Unit)]
    <2>1. \A p \in Seq(Unit) \X (1..n) : p[1] \o work[p[2]].units \in Seq(Unit)
        <3> TAKE p \in Seq(Unit) \X (1..n)
        <3>1. work[p[2]].units \in Seq(Unit) /\ p[1] \in Seq(Unit)
            BY <1>1 DEF Work
        <3> QED BY <3>1
    <2> QED BY <2>1
<1> DEFINE Kept == Seq(Unit)
           none == <<>>
<1>3. none \in Kept
    OBVIOUS
<1>4. \A kept \in Kept, i \in 1..n : step[<<kept, i>>] = kept \o work[i].units
    OBVIOUS
<1>5. PICK g : Iterates(g, n, Kept, none, step)
    <2>1. step \in [Kept \X (1..n) -> Kept] /\ n \in Nat
        BY <1>1, <1>2
    <2> HIDE DEF n, step, Kept, none
    <2> QED BY <2>1, <1>3, IterationExists
<1> HIDE DEF n, step
<1>6. ASSUME NEW s \in SUBSET (1..n), s # {}
      PROVE  Max(s) \in 1..n /\ s \ {Max(s)} \in SUBSET (1..n)
    BY <1>6, <1>1, MaxOfNumbers
<1>7. ASSUME NEW s \in SUBSET (1..n)
      PROVE  g[s] = IF s = {} THEN <<>> ELSE g[s \ {Max(s)}] \o work[Max(s)].units
    <2> HIDE DEF Kept
    <2> QED BY <1>4, <1>5, <1>6 DEF Iterates
<1>8. Folds(g)
    BY <1>1, <1>5, <1>7 DEF Iterates
<1>9. PICK it : StructuredUnits = it[DOMAIN work] /\ it = CHOOSE f : Folds(f)
    BY Zenon DEF StructuredUnits, FoldLeft, MapThenFoldSet
<1>10. Folds(it)
    <2> HIDE DEF Folds
    <2> QED BY <1>8, <1>9, Zenon
<1> DEFINE kept == [k \in 0..n |-> it[1..k]]
<1>11. \A s \in SUBSET (1..n) :
        it[s] = IF s = {} THEN <<>> ELSE it[s \ {Max(s)}] \o work[Max(s)].units
    BY <1>1, <1>10
<1>12. kept[0] = <<>> /\ kept[n] = StructuredUnits
    <2>1. 1..0 = {} /\ {} \in SUBSET (1..n)
        OBVIOUS
    <2>2. it[{}] = <<>>
        BY <1>11, <2>1
    <2> QED BY <1>1, <1>9, <2>1, <2>2
<1>13. ASSUME NEW i \in 1..n
      PROVE  kept[i] = kept[i - 1] \o work[i].units
    <2>1. /\ i \in Nat \ {0} /\ 1..i \in SUBSET (1..n) /\ i \in 1..i
          /\ (1..i) \ {i} = 1..(i - 1)
        BY <1>1
    <2>2. it[1..i] = it[1..(i - 1)] \o work[i].units
        BY <1>11, <2>1, MaxOfInterval, 1..i # {}
    <2>3. i \in 0..n /\ i - 1 \in 0..n
        BY <1>1
    <2> QED BY <2>2, <2>3
<1> HIDE DEF kept
<1>14. \A k \in 0..n : kept[k] \in Seq(Unit)
    <2> DEFINE T == {k \in 0..n : kept[k] \in Seq(Unit)}
    <2>1. 0 \in T
        BY <1>1, <1>12, 0 \in 0..n, <<>> \in Seq(Unit)
    <2>2. ASSUME NEW i \in 1..n, i - 1 \in T PROVE i \in T
        <3>1. i \in 0..n /\ kept[i - 1] \in Seq(Unit) /\ work[i] \in Work
            BY <1>1, <2>2
        <3>2. work[i].units \in Seq(Unit)
            BY <3>1 DEF Work
        <3>3. kept[i - 1] \o work[i].units \in Seq(Unit)
            BY <3>1, <3>2, ConcatProperties
        <3>4. kept[i] \in Seq(Unit)
            BY <1>13, <3>3
        <3> QED BY <3>1, <3>4
    <2> HIDE DEF T
    <2>3. \A k \in 0..n : k \in T
        BY <1>1, <2>1, <2>2, IntervalInduction
    <2> QED BY <2>3 DEF T
<1>15. kept \in [0..n -> Seq(Unit)]
    BY <1>14 DEF kept
<1> QED BY <1>12, <1>13, <1>15 DEF n

LEMMA AmongConcat ==
    ASSUME NEW s \in Seq(Unit), NEW t \in Seq(Unit)
    PROVE  Among(s \o t) = Among(s) \cup Among(t)
<1>1. /\ Len(s) \in Nat /\ Len(t) \in Nat
      /\ DOMAIN s = 1..Len(s) /\ DOMAIN t = 1..Len(t)
      /\ DOMAIN (s \o t) = 1..(Len(s) + Len(t))
      /\ \A i \in 1..Len(s) : (s \o t)[i] = s[i]
      /\ \A i \in 1..Len(t) : (s \o t)[Len(s) + i] = t[i]
    OBVIOUS
<1>2. ASSUME NEW i \in 1..(Len(s) + Len(t)), i \notin 1..Len(s)
      PROVE  i - Len(s) \in 1..Len(t) /\ i = Len(s) + (i - Len(s))
    BY <1>1, <1>2
<1>3. \A i \in 1..Len(t) : Len(s) + i \in 1..(Len(s) + Len(t))
    BY <1>1
<1>4. \A i \in 1..Len(s) : i \in 1..(Len(s) + Len(t))
    BY <1>1
<1>5. Among(s \o t) \subseteq Among(s) \cup Among(t)
    <2> SUFFICES ASSUME NEW i \in 1..(Len(s) + Len(t))
                 PROVE  (s \o t)[i] \in Among(s) \cup Among(t)
        BY <1>1 DEF Among
    <2>1. CASE i \in 1..Len(s)
        BY <1>1, <2>1 DEF Among
    <2>2. CASE i \notin 1..Len(s)
        <3>1. (s \o t)[i] = t[i - Len(s)] /\ i - Len(s) \in 1..Len(t)
            BY <1>1, <1>2, <2>2
        <3> QED BY <1>1, <3>1 DEF Among
    <2> QED BY <2>1, <2>2
<1>6. Among(s) \subseteq Among(s \o t) /\ Among(t) \subseteq Among(s \o t)
    BY <1>1, <1>3, <1>4 DEF Among
<1> QED BY <1>5, <1>6

UnitsOfMaterials == UNION {Among(work[i].units) : i \in DOMAIN work}

\* Joining loses no unit and adds none.
THEOREM JoiningKeepsUnits ==
    ASSUME work \in Seq(Work)
    PROVE  StructuredUnits \in Seq(Unit) /\ Among(StructuredUnits) = UnitsOfMaterials
<1> DEFINE n == Len(work)
           First(k) == UNION {Among(work[i].units) : i \in 1..k}
<1>1. n \in Nat /\ DOMAIN work = 1..n /\ \A i \in 1..n : work[i] \in Work
    OBVIOUS
<1>2. PICK kept \in [0..n -> Seq(Unit)] :
        /\ kept[0] = <<>>
        /\ \A i \in 1..n : kept[i] = kept[i - 1] \o work[i].units
        /\ StructuredUnits = kept[n]
    BY JoiningIsIterated
<1> HIDE DEF n
<1> DEFINE T == {k \in 0..n : Among(kept[k]) = First(k)}
<1>3. 0 \in T
    <2>1. Among(kept[0]) = {} /\ First(0) = {} /\ 0 \in 0..n
        BY <1>1, <1>2 DEF Among
    <2> HIDE DEF First
    <2> QED BY <2>1
<1>4. ASSUME NEW i \in 1..n, i - 1 \in T
      PROVE  i \in T
    <2>1. i \in 0..n /\ i - 1 \in 0..n /\ 1..i = (1..(i - 1)) \cup {i}
        BY <1>1
    <2>2. First(i) = First(i - 1) \cup Among(work[i].units)
        BY <2>1
    <2> HIDE DEF First
    <2>3. kept[i - 1] \in Seq(Unit) /\ work[i].units \in Seq(Unit)
        BY <1>1, <2>1 DEF Work
    <2>4. Among(kept[i - 1] \o work[i].units)
            = Among(kept[i - 1]) \cup Among(work[i].units)
        BY <2>3, AmongConcat
    <2> QED BY <1>2, <1>4, <2>1, <2>2, <2>4
<1>5. \A k \in 0..n : k \in T
    <2> HIDE DEF T
    <2> QED BY <1>1, <1>3, <1>4, IntervalInduction
<1>6. First(n) = UnitsOfMaterials
    BY <1>1 DEF UnitsOfMaterials
<1> HIDE DEF First
<1> QED BY <1>1, <1>2, <1>5, <1>6

-----------------------------------------------------------------------------
(* One call of a source family.                                             *)

\* A hit names its source, and hits of one document name the same.
HitsAreConsistent ==
    /\ \A i \in DOMAIN hits : hits[i].sources # <<>>
    /\ \A i, j \in DOMAIN hits :
        hits[i].doc = hits[j].doc => hits[i].sources = hits[j].sources

\* An item stands for its hit, and says something if the search said something.
ItemsStandForHits ==
    /\ DOMAIN items = DOMAIN hits
    /\ \A i \in DOMAIN hits :
        /\ items[i].doc = hits[i].doc
        /\ items[i].sources = hits[i].sources
        /\ hits[i].snippet # {} => items[i].content # {}

HasItems == toolStep = "returned" /\ acquisition \notin {"no_result", "failed"}

ToolInv ==
    /\ ToolTypeOK
    /\ toolStep \in {"select_tool", "search"} => DOMAIN pages = {}
    /\ \A i \in DOMAIN pages : pages[i] = "succeeded" => FullText[hits[i].doc] # {}
    /\ HitsAreConsistent
    /\ HasItems => ItemsStandForHits

LEMMA SelectionIsOfHits == Selection \in SUBSET DOMAIN hits
<1>1. \A indexes, k : FirstOf(indexes, k) \subseteq indexes
    BY DEF FirstOf
<1>2. WebSelection \in SUBSET DOMAIN hits
    BY <1>1 DEF WebSelection
<1> QED BY <1>1, <1>2 DEF Selection, PaperSelection, DocsSelection

LEMMA FetchStatusOfType ==
    ASSUME ToolInv, NEW i \in DOMAIN hits
    PROVE  /\ FetchStatusOf(i) \in FetchStatus
           /\ FetchStatusOf(i) = "succeeded" => FullText[hits[i].doc] # {}
<1> DEFINE j == CHOOSE k \in FetchesOf(i) : TRUE
<1>1. CASE FetchesOf(i) = {}
    BY <1>1 DEF FetchStatusOf, FetchStatus
<1>2. CASE FetchesOf(i) # {}
    <2>1. j \in FetchesOf(i)
        BY <1>2
    <2>2. FetchStatusOf(i) = pages[j]
        BY <1>2 DEF FetchStatusOf
    <2> HIDE DEF j
    <2>3. j \in DOMAIN pages /\ hits[j].doc = hits[i].doc
        BY <2>1 DEF FetchesOf
    <2> QED BY <2>2, <2>3 DEF ToolInv, ToolTypeOK
<1> QED BY <1>1, <1>2

\* Items that carry a text for every hit that carries one are what a call returns.
LEMMA MadeItems ==
    ASSUME ToolInv, family \in SourceFamily, NEW text \in [DOMAIN hits -> Text],
           \A i \in DOMAIN hits : hits[i].snippet # {} => text[i] # {}
    PROVE  LET made == [i \in DOMAIN hits |-> ItemWith(i, text[i])] IN
           /\ made \in Seq(Item)
           /\ DOMAIN made = DOMAIN hits
           /\ \A i \in DOMAIN hits :
                /\ made[i].doc = hits[i].doc
                /\ made[i].sources = hits[i].sources
                /\ hits[i].snippet # {} => made[i].content # {}
<1> DEFINE made == [i \in DOMAIN hits |-> ItemWith(i, text[i])]
<1>1. hits \in Seq(Hit) /\ DOMAIN hits = 1..Len(hits) /\ Len(hits) \in Nat
    BY DEF ToolInv, ToolTypeOK
<1>2. ASSUME NEW i \in DOMAIN hits
      PROVE  /\ ItemWith(i, text[i]) \in Item
             /\ made[i].doc = hits[i].doc
             /\ made[i].sources = hits[i].sources
             /\ made[i].content = text[i]
    <2>1. hits[i] \in Hit
        BY <1>1
    <2>2. FetchStatusOf(i) \in FetchStatus
        BY FetchStatusOfType
    <2>3. text[i] \in Text
        OBVIOUS
    <2>4. made[i] = ItemWith(i, text[i])
        OBVIOUS
    <2> HIDE DEF made
    <2> QED BY <2>1, <2>2, <2>3, <2>4 DEF ItemWith, Item, Hit
<1>3. made \in [1..Len(hits) -> Item]
    BY <1>1, <1>2
<1> HIDE DEF made
<1>4. made \in Seq(Item)
    BY <1>1, <1>3, SeqDef
<1>5. DOMAIN made = DOMAIN hits
    BY <1>1, <1>3
<1> QED BY <1>2, <1>4, <1>5 DEF made

LEMMA HitTexts ==
    ASSUME ToolInv
    PROVE  LET text == [i \in DOMAIN hits |->
                            IF FetchStatusOf(i) = "succeeded" THEN FullText[hits[i].doc]
                                                              ELSE hits[i].snippet] IN
           /\ text \in [DOMAIN hits -> Text]
           /\ \A i \in DOMAIN hits : hits[i].snippet # {} => text[i] # {}
<1>1. ASSUME NEW i \in DOMAIN hits
      PROVE  hits[i].snippet \in Text /\ FullText[hits[i].doc] \in Text
    <2>1. hits[i] \in Hit
        BY DEF ToolInv, ToolTypeOK
    <2> QED BY <2>1, TextAssumption DEF Hit
<1>2. \A i \in DOMAIN hits : FetchStatusOf(i) = "succeeded" => FullText[hits[i].doc] # {}
    BY FetchStatusOfType
<1> QED BY <1>1, <1>2

\* The hits of an answer name their documents, or are rows of a table.
LEMMA OfferedHits ==
    ASSUME NEW f \in SourceFamily, NEW found \in Offered[f]
    PROVE  /\ FirstOnes(found) \in Seq(Hit)
           /\ \A i \in DOMAIN FirstOnes(found) : FirstOnes(found)[i].sources # <<>>
           /\ \A i, j \in DOMAIN FirstOnes(found) :
                FirstOnes(found)[i].doc = FirstOnes(found)[j].doc
                    => FirstOnes(found)[i].sources = FirstOnes(found)[j].sources
<1>1. found \in Seq(Hit)
    BY OfferedAssumption
<1>2. /\ \A i \in DOMAIN found : found[i].sources # <<>>
      /\ \A i, j \in DOMAIN found :
            found[i].doc = found[j].doc => found[i].sources = found[j].sources
    <2>1. CASE f = "research_knowledge_recall"
        BY <2>1, OfferedAssumption DEF KnowledgeHit
    <2>2. CASE f # "research_knowledge_recall"
        <3>1. \A i \in DOMAIN found : NamesItself(found[i])
            BY <2>2, OfferedAssumption DEF SourceFamily, WebHit, PaperHit, DocsHit
        <3> QED BY <3>1 DEF NamesItself
    <2> QED BY <2>1, <2>2
<1> DEFINE k == IF Len(found) < MaxResults THEN Len(found) ELSE MaxResults
<1>3. k \in 0..Len(found) /\ Len(found) \in Nat
    BY <1>1, LimitAssumption
<1>4. FirstOnes(found) = SubSeq(found, 1, k)
    BY DEF FirstOnes
<1> HIDE DEF k
<1>5. /\ FirstOnes(found) \in Seq(Hit)
      /\ DOMAIN FirstOnes(found) = 1..k
      /\ \A i \in 1..k : FirstOnes(found)[i] = found[i]
    BY <1>1, <1>3, <1>4
<1>6. \A i \in 1..k : i \in DOMAIN found
    BY <1>1, <1>3
<1> QED BY <1>2, <1>5, <1>6

LEMMA SearchFindsStep ==
    ASSUME ToolInv, NEW f \in SourceFamily, NEW dropped \in BOOLEAN,
           NEW next \in {"fetch", "assemble"}, SearchFinds(f, dropped, next)
    PROVE  ToolInv'
<1>1. PICK found \in Offered[f] : hits' = FirstOnes(found)
    BY DEF SearchFinds
<1>2. /\ toolStep = "search" /\ toolStep' = next /\ malformed' = dropped
      /\ family' = family /\ pages' = pages /\ items' = items
      /\ acquisition' = acquisition
    BY DEF SearchFinds
<1>3. hits' \in Seq(Hit) /\ HitsAreConsistent'
    BY <1>1, OfferedHits DEF HitsAreConsistent
<1>4. DOMAIN pages = {}
    BY <1>2 DEF ToolInv
<1>5. ToolTypeOK'
    BY <1>2, <1>3, <1>4 DEF ToolInv, ToolTypeOK, ToolStep
<1>6. ~HasItems'
    BY <1>2 DEF HasItems
<1> QED BY <1>2, <1>3, <1>4, <1>5, <1>6 DEF ToolInv

\* A call that ends keeps its hits and pages.
LEMMA ReturnStep ==
    ASSUME ToolInv, NEW status \in AcquisitionStatus, NEW made \in Seq(Item),
           Returns(status, made), family' \in SourceFamily \cup {None},
           UNCHANGED <<hits, malformed, pages>>,
           status \in {"success", "partial_success"} => ItemsStandForHits'
    PROVE  ToolInv'
<1>1. toolStep' = "returned" /\ acquisition' = status /\ items' = made
    BY DEF Returns
<1>2. ToolTypeOK'
    BY <1>1 DEF ToolInv, ToolTypeOK, ToolStep
<1>3. HitsAreConsistent'
    BY DEF ToolInv, HitsAreConsistent
<1>4. HasItems' => status \in {"success", "partial_success"}
    BY <1>1 DEF HasItems, AcquisitionStatus
<1> QED BY <1>1, <1>2, <1>3, <1>4 DEF ToolInv

LEMMA AssembleStep ==
    ASSUME ToolInv, NEW f \in SourceFamily, NEW status \in AcquisitionStatus,
           NEW text \in [DOMAIN hits -> Text],
           \A i \in DOMAIN hits : hits[i].snippet # {} => text[i] # {},
           Assemble(f, status, [i \in DOMAIN hits |-> ItemWith(i, text[i])])
    PROVE  ToolInv'
<1> DEFINE made == [i \in DOMAIN hits |-> ItemWith(i, text[i])]
<1>1. /\ family = f /\ Returns(status, made)
      /\ UNCHANGED <<family, hits, malformed, pages>>
    BY DEF Assemble
<1>2. /\ made \in Seq(Item)
      /\ DOMAIN made = DOMAIN hits
      /\ \A i \in DOMAIN hits :
            /\ made[i].doc = hits[i].doc
            /\ made[i].sources = hits[i].sources
            /\ hits[i].snippet # {} => made[i].content # {}
    BY <1>1, MadeItems
<1> HIDE DEF made
<1>3. ItemsStandForHits'
    BY <1>1, <1>2 DEF Returns, ItemsStandForHits
<1> QED BY <1>1, <1>2, <1>3, ReturnStep

LEMMA FetchWebStep == ToolInv /\ FetchWebPages => ToolInv'
<1> SUFFICES ASSUME ToolInv, FetchWebPages PROVE ToolInv'
    OBVIOUS
<1>1. PICK ends \in [{hits[i].doc : i \in Selection} -> FetchStatus] :
        /\ \A doc \in DOMAIN ends : ends[doc] \in PageResult(doc)
        /\ pages' = [i \in Selection |-> ends[hits[i].doc]]
    BY DEF FetchWebPages
<1>2. toolStep' = "assemble" /\ UNCHANGED <<family, hits, malformed, items, acquisition>>
    BY DEF FetchWebPages
<1>3. Selection \in SUBSET DOMAIN hits
    BY SelectionIsOfHits
<1>4. ASSUME NEW i \in Selection
      PROVE  /\ pages'[i] \in FetchStatus
             /\ pages'[i] = "succeeded" => FullText[hits[i].doc] # {}
    <2>1. hits[i].doc \in {hits[j].doc : j \in Selection}
        OBVIOUS
    <2>2. pages'[i] = ends[hits[i].doc] /\ pages'[i] \in PageResult(hits[i].doc)
        BY <1>1, <2>1
    <2> QED BY <2>2 DEF PageResult, FetchStatus
<1>5. DOMAIN pages' = Selection
    BY <1>1
<1>6. ToolTypeOK'
    BY <1>2, <1>3, <1>4, <1>5 DEF ToolInv, ToolTypeOK, ToolStep
<1>7. HitsAreConsistent' /\ ~HasItems'
    BY <1>2 DEF ToolInv, HitsAreConsistent, HasItems
<1> QED BY <1>2, <1>4, <1>5, <1>6, <1>7 DEF ToolInv

LEMMA FetchNextStep ==
    ASSUME ToolInv, NEW f, FetchNextPage(f)
    PROVE  ToolInv'
<1>1. PICK end \in PageResult(hits[NextPage].doc) :
        pages' = [i \in DOMAIN pages \cup {NextPage} |->
                    IF i = NextPage THEN end ELSE pages[i]]
    BY DEF FetchNextPage
<1>2. /\ toolStep = "fetch"
      /\ UNCHANGED <<family, toolStep, hits, malformed, items, acquisition>>
      /\ Selection \ DOMAIN pages # {}
    BY DEF FetchNextPage
<1>3. NextPage \in DOMAIN hits
    <2>1. Selection \in SUBSET (1..Len(hits)) /\ Selection \in SUBSET DOMAIN hits
        BY SelectionIsOfHits DEF ToolInv, ToolTypeOK
    <2>2. Selection \ DOMAIN pages \in SUBSET Nat
        BY <2>1
    <2>3. NextPage \in Selection \ DOMAIN pages
        BY <1>2, <2>2, LeastNumber DEF NextPage
    <2> QED BY <2>1, <2>3
<1> DEFINE next == NextPage
<1> HIDE DEF next
<1>4. end \in FetchStatus /\ (end = "succeeded" => FullText[hits[next].doc] # {})
    BY <1>1 DEF PageResult, FetchStatus, next
<1>5. /\ DOMAIN pages' = DOMAIN pages \cup {next}
      /\ \A i \in DOMAIN pages' : pages'[i] = IF i = next THEN end ELSE pages[i]
    BY <1>1 DEF next
<1>6. ToolTypeOK'
    BY <1>2, <1>3, <1>4, <1>5 DEF ToolInv, ToolTypeOK, ToolStep, next
<1>7. HitsAreConsistent' /\ ~HasItems'
    BY <1>2 DEF ToolInv, HitsAreConsistent, HasItems
<1>8. \A i \in DOMAIN pages' : pages'[i] = "succeeded" => FullText[hits'[i].doc] # {}
    BY <1>2, <1>4, <1>5 DEF ToolInv
<1> QED BY <1>2, <1>6, <1>7, <1>8 DEF ToolInv

LEMMA ToolInitInv == ToolInit => ToolInv
<1> SUFFICES ASSUME ToolInit PROVE ToolInv
    OBVIOUS
<1>1. hits = <<>> /\ pages = <<>> /\ items = <<>> /\ toolStep = "select_tool"
    BY DEF ToolInit
<1>2. DOMAIN hits = {} /\ DOMAIN pages = {} /\ hits \in Seq(Hit) /\ items \in Seq(Item)
    BY <1>1
<1>3. ToolTypeOK
    BY <1>1, <1>2 DEF ToolInit, ToolTypeOK, ToolStep
<1> QED BY <1>1, <1>2, <1>3 DEF ToolInv, HitsAreConsistent, HasItems

LEMMA ToolInvStep == ToolInv /\ [ToolNext]_toolVars => ToolInv'
<1> SUFFICES ASSUME ToolInv, [ToolNext]_toolVars PROVE ToolInv'
    OBVIOUS
<1> DEFINE text == [i \in DOMAIN hits |->
                        IF FetchStatusOf(i) = "succeeded" THEN FullText[hits[i].doc]
                                                          ELSE hits[i].snippet]
           snippets == [i \in DOMAIN hits |-> hits[i].snippet]
<1>a. /\ text \in [DOMAIN hits -> Text]
      /\ \A i \in DOMAIN hits : hits[i].snippet # {} => text[i] # {}
    BY HitTexts
<1>b. /\ snippets \in [DOMAIN hits -> Text]
      /\ \A i \in DOMAIN hits : hits[i].snippet # {} => snippets[i] # {}
    <2>1. \A i \in DOMAIN hits : hits[i] \in Hit
        BY DEF ToolInv, ToolTypeOK
    <2> QED BY <2>1 DEF Hit
<1>c. /\ [i \in DOMAIN hits |-> ItemWith(i, text[i])] = [i \in DOMAIN hits |-> WebItem(i)]
      /\ [i \in DOMAIN hits |-> ItemWith(i, text[i])] = [i \in DOMAIN hits |-> PaperItem(i)]
      /\ [i \in DOMAIN hits |-> ItemWith(i, text[i])] = [i \in DOMAIN hits |-> DocsItem(i)]
      /\ [i \in DOMAIN hits |-> ItemWith(i, snippets[i])]
            = [i \in DOMAIN hits |-> KnowledgeItem(i)]
    BY DEF WebItem, PaperItem, DocsItem, KnowledgeItem
<1>d. /\ WebAcquisition \in AcquisitionStatus /\ PaperAcquisition \in AcquisitionStatus
      /\ DropAcquisition \in AcquisitionStatus
    BY DEF WebAcquisition, PaperAcquisition, DropAcquisition, AcquisitionStatus
<1>e. <<>> \in Seq(Item)
    OBVIOUS
<1> HIDE DEF text, snippets
<1>1. CASE UNCHANGED toolVars
    BY <1>1 DEF toolVars, ToolInv, ToolTypeOK, HitsAreConsistent, HasItems, ItemsStandForHits
<1>2. ASSUME NEW f \in SourceFamily, SelectTool(f) PROVE ToolInv'
    BY <1>2 DEF SelectTool, ToolInv, ToolTypeOK, ToolStep, HitsAreConsistent, HasItems
<1>3. ASSUME NEW f \in SourceFamily, NoTool(f) PROVE ToolInv'
    BY <1>3, <1>e, ReturnStep DEF NoTool, AcquisitionStatus
<1>4. CASE SearchRaises
    BY <1>4, <1>e, ReturnStep DEF SearchRaises, AcquisitionStatus, ToolInv, ToolTypeOK
<1>5. CASE SearchFindsNothing
    BY <1>5, <1>e, ReturnStep DEF SearchFindsNothing, AcquisitionStatus, ToolInv, ToolTypeOK
<1>6. CASE SearchWeb
    BY <1>6, SearchFindsStep DEF SearchWeb, SourceFamily
<1>7. CASE SearchPapers
    BY <1>7, SearchFindsStep DEF SearchPapers, SourceFamily
<1>8. CASE SearchDocs
    BY <1>8, SearchFindsStep DEF SearchDocs, SourceFamily
<1>9. CASE RecallKnowledge
    BY <1>9, SearchFindsStep DEF RecallKnowledge, SourceFamily
<1>10. CASE FetchWebPages
    BY <1>10, FetchWebStep
<1>11. CASE FetchPaper \/ FetchDocsPage
    BY <1>11, FetchNextStep DEF FetchPaper, FetchDocsPage
<1>12. CASE FetchEnds
    BY <1>12 DEF FetchEnds, ToolInv, ToolTypeOK, ToolStep, HitsAreConsistent, HasItems
<1>13. CASE AssembleWeb
    BY <1>13, <1>a, <1>c, <1>d, AssembleStep DEF AssembleWeb, SourceFamily
<1>14. CASE AssemblePapers
    BY <1>14, <1>a, <1>c, <1>d, AssembleStep DEF AssemblePapers, SourceFamily
<1>15. CASE AssembleDocs
    BY <1>15, <1>a, <1>c, <1>d, AssembleStep DEF AssembleDocs, SourceFamily
<1>16. CASE AssembleKnowledge
    BY <1>16, <1>b, <1>c, <1>d, AssembleStep DEF AssembleKnowledge, SourceFamily
<1>17. CASE FetchDocsRaises
    BY <1>17, <1>e, ReturnStep DEF FetchDocsRaises, AcquisitionStatus, ToolInv, ToolTypeOK
<1> QED BY <1>1, <1>2, <1>3, <1>4, <1>5, <1>6, <1>7, <1>8, <1>9, <1>10, <1>11, <1>12,
           <1>13, <1>14, <1>15, <1>16, <1>17 DEF ToolNext

-----------------------------------------------------------------------------
(* The coroutines of evidence processing.                                   *)

\* What a coroutine has done agrees with where it is: it has no units before its end,
\* its units name the sources of its material, and without extraction only a
\* material that says nothing has none.
WorkIsConsistent(i) ==
    LET w == work[i] IN
    /\ w.step # "done" => w.units = <<>> /\ ~w.failed
    /\ w.step = "calling" => extraction
    /\ \A u \in Among(w.units) : u.sources = ToSet(materials[i].sources)
    /\ w.step = "done" /\ w.units = <<>> /\ ~w.failed =>
         extraction \/ materials[i].content = {}

Answer ==
    LET units == Consolidated(StructuredUnits) IN
    [units |-> units,
     status |-> ProcessingStatusOf(
                    Len(units),
                    Cardinality({i \in DOMAIN work : work[i].failed}),
                    Cardinality({i \in DOMAIN work : work[i].units = <<>>}),
                    Len(items))]

EvidenceInv ==
    /\ EvidenceTypeOK
    /\ materials # <<>> =>
        /\ HasItems /\ items # <<>>
        /\ materials = DedupMaterials(items)
    /\ \A i \in DOMAIN work : WorkIsConsistent(i)
    /\ result # None /\ materials = <<>> =>
        /\ toolStep = "returned" /\ (~HasItems \/ items = <<>>)
        /\ result = [status |-> "no_result", units |-> <<>>]
    /\ result # None /\ materials # <<>> =>
        /\ \A i \in DOMAIN work : work[i].step = "done"
        /\ result = Answer

LEMMA ItemsNameTheirSources ==
    ASSUME ToolInv, HasItems
    PROVE  items \in Seq(Item) /\ SameDocSameSource(items)
<1>1. ItemsStandForHits /\ HitsAreConsistent
    BY DEF ToolInv
<1>2. SameDocSameSource(items)
    BY <1>1 DEF ItemsStandForHits, HitsAreConsistent, SameDocSameSource, SourceRef
<1> QED BY <1>2 DEF ToolInv, ToolTypeOK

LEMMA UnitOfType ==
    ASSUME NEW m \in Item, NEW content \in Text, NEW type \in EvidenceType
    PROVE  /\ UnitOf(m, content, type) \in Unit
           /\ UnitOf(m, content, type).sources = ToSet(m.sources)
<1>1. m.sources \in Seq(Doc)
    BY DEF Item
<1>2. ToSet(m.sources) \in SUBSET Doc
    BY <1>1 DEF ToSet
<1> QED BY <1>2 DEF UnitOf, Unit

LEMMA DoneType ==
    ASSUME NEW units \in Seq(Unit), NEW failed \in BOOLEAN
    PROVE  /\ Done(units, failed) \in Work
           /\ Done(units, failed).step = "done"
           /\ Done(units, failed).units = units
           /\ Done(units, failed).failed = failed
<1>1. 0 \in 0..(MaxRetries + 1) /\ {} \in Text
    BY EvidenceAssumption DEF Text
<1> QED BY <1>1 DEF Done, Work, WorkStep

\* What a coroutine may be, of the material m.
ConsistentWork(w, m) ==
    /\ w \in Work
    /\ w.step # "done" => w.units = <<>> /\ ~w.failed
    /\ w.step = "calling" => extraction
    /\ \A u \in Among(w.units) : u.sources = ToSet(m.sources)
    /\ w.step = "done" /\ w.units = <<>> /\ ~w.failed => extraction \/ m.content = {}

LEMMA DoneIsConsistent ==
    ASSUME NEW m, NEW units \in Seq(Unit), NEW failed \in BOOLEAN,
           \A u \in Among(units) : u.sources = ToSet(m.sources),
           units = <<>> /\ ~failed => extraction \/ m.content = {}
    PROVE  ConsistentWork(Done(units, failed), m)
BY DoneType DEF ConsistentWork

LEMMA OneUnit ==
    ASSUME NEW m \in Item, NEW content \in Text
    PROVE  LET units == <<UnitOf(m, content, "supporting_signal")>> IN
           /\ units \in Seq(Unit) /\ units # <<>>
           /\ \A u \in Among(units) : u.sources = ToSet(m.sources)
<1>1. /\ UnitOf(m, content, "supporting_signal") \in Unit
      /\ UnitOf(m, content, "supporting_signal").sources = ToSet(m.sources)
    BY UnitOfType, EvidenceAssumption
<1> DEFINE u == UnitOf(m, content, "supporting_signal")
<1> HIDE DEF u
<1>2. <<u>> \in Seq(Unit) /\ <<u>> # <<>> /\ Among(<<u>>) = {u}
    BY <1>1 DEF Among, u
<1> QED BY <1>1, <1>2 DEF u

LEMMA StartedIsConsistent ==
    ASSUME NEW m \in Item
    PROVE  ConsistentWork(StartedWork(m), m)
<1>1. <<>> \in Seq(Unit) /\ Among(<<>>) = {} /\ m.content \in Text
    BY DEF Among, Item
<1>2. CASE m.content = {}
    <2>1. StartedWork(m) = Done(<<>>, FALSE)
        BY <1>2 DEF StartedWork
    <2> QED BY <1>1, <1>2, <2>1, DoneIsConsistent
<1>3. CASE m.content # {} /\ m.family = "research_knowledge_recall"
    <2> DEFINE units == <<UnitOf(m, m.content, "supporting_signal")>>
    <2>1. StartedWork(m) = Done(units, FALSE)
        BY <1>3 DEF StartedWork
    <2>2. /\ units \in Seq(Unit) /\ units # <<>>
          /\ \A u \in Among(units) : u.sources = ToSet(m.sources)
        BY <1>1, OneUnit
    <2> HIDE DEF units
    <2> QED BY <2>1, <2>2, DoneIsConsistent
<1>4. CASE m.content # {} /\ m.family # "research_knowledge_recall"
    <2>1. StartedWork(m) = [Done(<<>>, FALSE) EXCEPT !.step = "waiting"]
        BY <1>4 DEF StartedWork, Waiting
    <2>2. /\ Done(<<>>, FALSE) \in Work /\ Done(<<>>, FALSE).units = <<>>
          /\ ~Done(<<>>, FALSE).failed
        BY <1>1, DoneType
    <2>3. /\ StartedWork(m) \in Work /\ StartedWork(m).step = "waiting"
          /\ StartedWork(m).units = <<>> /\ ~StartedWork(m).failed
        BY <2>1, <2>2 DEF Work, WorkStep
    <2> QED BY <1>1, <2>3 DEF ConsistentWork
<1> QED BY <1>2, <1>3, <1>4

LEMMA WorkIsTyped ==
    ASSUME EvidenceInv, NEW i \in DOMAIN work
    PROVE  ConsistentWork(work[i], materials[i])
<1>1. work[i] \in Work
    BY DEF EvidenceInv, EvidenceTypeOK
<1> QED BY <1>1 DEF EvidenceInv, WorkIsConsistent, ConsistentWork

LEMMA MaterialsAreItems ==
    ASSUME EvidenceInv, NEW i \in DOMAIN work
    PROVE  i \in DOMAIN materials /\ materials[i] \in Item /\ materials # <<>>
BY DEF EvidenceInv, EvidenceTypeOK

\* A step of one coroutine that has not returned leaves the request unanswered.
LEMMA CoroutineStep ==
    ASSUME EvidenceInv, NEW i \in DOMAIN work, work[i].step # "done",
           NEW w, ConsistentWork(w, materials[i]), work' = [work EXCEPT ![i] = w],
           UNCHANGED <<extraction, materials, result, toolVars>>
    PROVE  EvidenceInv'
<1>1. materials # <<>> /\ result = None
    BY MaterialsAreItems DEF EvidenceInv
<1>2. UNCHANGED <<toolStep, acquisition, items, hits>>
    BY DEF toolVars
<1>3. /\ DOMAIN work' = DOMAIN work /\ work'[i] = w
      /\ \A j \in DOMAIN work \ {i} : work'[j] = work[j]
    OBVIOUS
<1>4. work' \in Seq(Work)
    <2>1. work \in Seq(Work) /\ i \in 1..Len(work) /\ w \in Work
        BY DEF EvidenceInv, EvidenceTypeOK, ConsistentWork
    <2> QED BY <2>1, ExceptSeq
<1>5. EvidenceTypeOK'
    BY <1>3, <1>4 DEF EvidenceInv, EvidenceTypeOK
<1>6. ASSUME NEW j \in DOMAIN work'
      PROVE  WorkIsConsistent(j)'
    <2>1. ConsistentWork(work'[j], materials[j])
        BY <1>3, WorkIsTyped
    <2> QED BY <2>1 DEF ConsistentWork, WorkIsConsistent
<1>7. HasItems' = HasItems
    BY <1>2 DEF HasItems
<1>8. materials # <<>> => HasItems' /\ items' # <<>> /\ materials' = DedupMaterials(items')
    BY <1>2, <1>7 DEF EvidenceInv
<1>9. result' = None
    BY <1>1
<1> HIDE DEF HasItems
<1> QED BY <1>1, <1>5, <1>6, <1>8, <1>9 DEF EvidenceInv

LEMMA SelectedIsText ==
    ASSUME NEW text \in Text, NEW content \in SelectedContents(text)
    PROVE  content \in Text
BY DEF SelectedContents, Text

LEMMA ModelUnitsAreOfMaterial ==
    ASSUME NEW m \in Item, NEW part \in Text, NEW units \in ModelUnits(m, part)
    PROVE  /\ units \in Seq(Unit)
           /\ \A u \in Among(units) : u.sources = ToSet(m.sources)
<1> DEFINE made == ModelUnit(m, part)
<1>1. \A u \in made : u \in Unit /\ u.sources = ToSet(m.sources)
    <2> TAKE u \in made
    <2>1. PICK content \in SUBSET part, type \in EvidenceType :
            u = UnitOf(m, content, type)
        BY DEF ModelUnit
    <2>2. content \in Text
        BY DEF Text
    <2> QED BY <2>1, <2>2, UnitOfType
<1>2. CASE units = <<>>
    BY <1>2 DEF Among
<1>3. CASE units # <<>>
    <2>1. PICK n \in 1..MaxUnits : units \in [1..n -> made]
        BY <1>3 DEF ModelUnits
    <2> HIDE DEF made
    <2>2. n \in Nat /\ units \in [1..n -> Unit]
        BY <1>1, <2>1, EvidenceAssumption
    <2>3. units \in Seq(Unit)
        BY <2>2, SeqDef
    <2>4. \A u \in Among(units) : u \in made
        BY <2>1 DEF Among
    <2> QED BY <1>1, <2>3, <2>4
<1> QED BY <1>2, <1>3

LEMMA StructureStep ==
    ASSUME EvidenceInv, NEW i \in DOMAIN work, StructureMaterial(i), UNCHANGED toolVars
    PROVE  EvidenceInv' /\ work[i].step # "done"
<1>1. /\ ConsistentWork(work[i], materials[i])
      /\ materials[i] \in Item
      /\ UNCHANGED <<extraction, materials, result, toolVars>>
    BY WorkIsTyped, MaterialsAreItems DEF StructureMaterial
<1>2. materials[i].content \in Text /\ work[i].selected \in Text
      /\ work[i].attempt \in 0..(MaxRetries + 1) /\ MaxRetries \in Nat
    BY <1>1, EvidenceAssumption DEF Item, ConsistentWork, Work
<1>3. <<>> \in Seq(Unit) /\ Among(<<>>) = {}
    BY DEF Among
<1>4. CASE TakeSlot(i)
    <2> DEFINE w == [work[i] EXCEPT !.step = "selecting"]
    <2>1. work' = [work EXCEPT ![i] = w] /\ work[i].step = "waiting"
        BY <1>4 DEF TakeSlot
    <2>2. ConsistentWork(w, materials[i])
        BY <1>1, <1>3, <2>1 DEF ConsistentWork, Work, WorkStep
    <2> HIDE DEF w
    <2> QED BY <1>1, <2>1, <2>2, CoroutineStep
<1>5. CASE PassThrough(i)
    <2>1. PICK content \in SelectedContents(materials[i].content) :
            work' = [work EXCEPT ![i] =
                        Done(<<UnitOf(materials[i], content, "supporting_signal")>>, FALSE)]
        BY <1>5 DEF PassThrough
    <2> DEFINE units == <<UnitOf(materials[i], content, "supporting_signal")>>
    <2>2. /\ units \in Seq(Unit) /\ units # <<>>
          /\ \A u \in Among(units) : u.sources = ToSet(materials[i].sources)
        BY <1>1, <1>2, SelectedIsText, OneUnit
    <2>3. work' = [work EXCEPT ![i] = Done(units, FALSE)]
        BY <2>1
    <2> HIDE DEF units
    <2>4. ConsistentWork(Done(units, FALSE), materials[i])
        BY <2>2, DoneIsConsistent
    <2>5. work[i].step = "selecting"
        BY <1>5 DEF PassThrough
    <2> QED BY <1>1, <2>3, <2>4, <2>5, CoroutineStep
<1>6. CASE CallModel(i)
    <2>1. PICK content \in SelectedContents(materials[i].content) :
            work' = [work EXCEPT ![i].step = "calling", ![i].selected = content,
                                 ![i].attempt = 1]
        BY <1>6 DEF CallModel
    <2> DEFINE w == [work[i] EXCEPT !.step = "calling", !.selected = content, !.attempt = 1]
    <2>2. work' = [work EXCEPT ![i] = w]
        BY <2>1
    <2>3. content \in Text /\ work[i].step = "selecting" /\ extraction
        BY <1>2, <1>6, SelectedIsText DEF CallModel
    <2>4. 1 \in 0..(MaxRetries + 1)
        BY <1>2
    <2>5. ConsistentWork(w, materials[i])
        BY <1>1, <1>3, <2>3, <2>4 DEF ConsistentWork, Work, WorkStep
    <2> HIDE DEF w
    <2> QED BY <1>1, <2>2, <2>3, <2>5, CoroutineStep
<1>7. CASE ModelAnswers(i)
    <2>1. PICK units \in ModelUnits(materials[i], work[i].selected) :
            work' = [work EXCEPT ![i] = Done(units, FALSE)]
        BY <1>7 DEF ModelAnswers
    <2>2. work[i].step = "calling" /\ extraction
        BY <1>1, <1>7 DEF ModelAnswers, ConsistentWork
    <2>3. ConsistentWork(Done(units, FALSE), materials[i])
        BY <1>1, <1>2, <2>2, ModelUnitsAreOfMaterial, DoneIsConsistent
    <2> QED BY <1>1, <2>1, <2>2, <2>3, CoroutineStep
<1>8. CASE RetryCall(i)
    <2> DEFINE w == [work[i] EXCEPT !.attempt = @ + 1]
    <2>1. work' = [work EXCEPT ![i] = w] /\ work[i].step = "calling"
        BY <1>8 DEF RetryCall
    <2>2. work[i].attempt + 1 \in 0..(MaxRetries + 1)
        BY <1>2, <1>8 DEF RetryCall, MayRetry
    <2>3. ConsistentWork(w, materials[i])
        BY <1>1, <1>3, <2>1, <2>2 DEF ConsistentWork, Work
    <2> HIDE DEF w
    <2> QED BY <1>1, <2>1, <2>3, CoroutineStep
<1>9. CASE ModelCallFails(i)
    <2>1. work' = [work EXCEPT ![i] = Done(<<>>, TRUE)] /\ work[i].step = "calling"
        BY <1>9 DEF ModelCallFails
    <2>2. ConsistentWork(Done(<<>>, TRUE), materials[i])
        BY <1>3, DoneIsConsistent
    <2> QED BY <1>1, <2>1, <2>2, CoroutineStep
<1> QED BY <1>4, <1>5, <1>6, <1>7, <1>8, <1>9 DEF StructureMaterial

LEMMA StartStep ==
    ASSUME ToolInv, EvidenceInv, StartStructuring, UNCHANGED toolVars
    PROVE  EvidenceInv' /\ materials' # <<>> /\ result = None /\ work = <<>>
<1>1. /\ materials = <<>> /\ HasItems /\ items # <<>>
      /\ materials' = DedupMaterials(items)
      /\ work' = [i \in DOMAIN materials' |-> StartedWork(materials'[i])]
      /\ UNCHANGED <<extraction, result, toolStep, acquisition, items>>
    BY DEF StartStructuring, HasItems, toolVars
<1>2. materials' \in Seq(Item) /\ materials' # <<>>
    BY <1>1, ItemsNameTheirSources, DedupKeepsSources
<1>3. result = None
    BY <1>1 DEF EvidenceInv
<1>4. \A i \in DOMAIN materials' : ConsistentWork(work'[i], materials'[i])
    <2> TAKE i \in DOMAIN materials'
    <2>1. materials'[i] \in Item
        BY <1>2
    <2> QED BY <1>1, <2>1, StartedIsConsistent
<1>5. work' \in Seq(Work) /\ DOMAIN work' = DOMAIN materials'
    <2>1. DOMAIN materials' = 1..Len(materials') /\ Len(materials') \in Nat
        BY <1>2
    <2>2. work' \in [1..Len(materials') -> Work]
        BY <1>1, <1>4, <2>1 DEF ConsistentWork
    <2> QED BY <2>1, <2>2, SeqDef
<1>6. EvidenceTypeOK'
    BY <1>1, <1>2, <1>5 DEF EvidenceInv, EvidenceTypeOK
<1>7. \A i \in DOMAIN work' : WorkIsConsistent(i)'
    BY <1>1, <1>4, <1>5 DEF ConsistentWork, WorkIsConsistent
<1>8. HasItems' /\ items' # <<>> /\ materials' = DedupMaterials(items')
    BY <1>1 DEF HasItems
<1>9. work = <<>>
    BY <1>1 DEF EvidenceInv, EvidenceTypeOK
<1> HIDE DEF HasItems
<1> QED BY <1>1, <1>2, <1>3, <1>6, <1>7, <1>8, <1>9 DEF EvidenceInv

-----------------------------------------------------------------------------
(* The answer of evidence processing.                                       *)

LEMMA ShortCircuitStep ==
    ASSUME EvidenceInv, ShortCircuit, UNCHANGED toolVars
    PROVE  EvidenceInv' /\ work = <<>>
<1>1. /\ toolStep = "returned" /\ (~HasItems \/ items = <<>>)
      /\ result' = [status |-> "no_result", units |-> <<>>]
      /\ UNCHANGED <<extraction, materials, work, toolStep, acquisition, items>>
    BY DEF ShortCircuit, HasItems, toolVars
<1>2. materials = <<>> /\ work = <<>>
    BY <1>1 DEF EvidenceInv, EvidenceTypeOK
<1>3. result' \in Result
    BY <1>1 DEF Result, ProcessingStatus
<1>4. EvidenceTypeOK'
    BY <1>1, <1>3 DEF EvidenceInv, EvidenceTypeOK
<1>5. DOMAIN work' = {} /\ materials' = <<>>
    BY <1>1, <1>2
<1>6. toolStep' = "returned" /\ (~HasItems' \/ items' = <<>>)
    BY <1>1 DEF HasItems
<1> HIDE DEF HasItems
<1> QED BY <1>1, <1>2, <1>4, <1>5, <1>6 DEF EvidenceInv

LEMMA StatusType ==
    ASSUME NEW output, NEW failures, NEW dropped, NEW input
    PROVE  ProcessingStatusOf(output, failures, dropped, input) \in ProcessingStatus
BY DEF ProcessingStatusOf, ProcessingStatus

LEMMA AnswerType ==
    ASSUME EvidenceInv
    PROVE  Answer \in Result
<1>1. StructuredUnits \in Seq(Unit)
    BY JoiningKeepsUnits DEF EvidenceInv, EvidenceTypeOK
<1>2. Consolidated(StructuredUnits) \in Seq(Unit)
    BY <1>1, ConsolidationKeepsEvidence
<1> QED BY <1>2, StatusType DEF Answer, Result

LEMMA AnswerStands == UNCHANGED <<work, items>> => Answer' = Answer
<1>1. work' = work => StructuredUnits' = StructuredUnits
    BY Zenon DEF StructuredUnits, FoldLeft, MapThenFoldSet
<1> QED BY <1>1 DEF Answer

LEMMA FinishStep ==
    ASSUME EvidenceInv, FinishProcessing, UNCHANGED toolVars
    PROVE  EvidenceInv' /\ result' = Answer
<1>1. /\ result = None /\ materials # <<>>
      /\ \A i \in DOMAIN work : work[i].step = "done"
      /\ result' = Answer
      /\ UNCHANGED <<extraction, materials, work, toolStep, acquisition, items>>
    BY DEF FinishProcessing, Answer, toolVars
<1>2. result' \in Result /\ result' = Answer'
    BY <1>1, AnswerType, AnswerStands
<1>3. EvidenceTypeOK'
    BY <1>1, <1>2 DEF EvidenceInv, EvidenceTypeOK
<1>4. \A i \in DOMAIN work' : WorkIsConsistent(i)'
    BY <1>1 DEF EvidenceInv, WorkIsConsistent
<1>5. HasItems' = HasItems
    BY <1>1 DEF HasItems
<1> HIDE DEF HasItems
<1> QED BY <1>1, <1>2, <1>3, <1>4, <1>5 DEF EvidenceInv

LEMMA EvidenceStandsStep ==
    ASSUME EvidenceInv, UNCHANGED <<extraction, materials, work, result>>,
           UNCHANGED <<toolStep, acquisition, items>>
    PROVE  EvidenceInv'
<1>1. EvidenceTypeOK'
    BY DEF EvidenceInv, EvidenceTypeOK
<1>2. \A i \in DOMAIN work' : WorkIsConsistent(i)'
    BY DEF EvidenceInv, WorkIsConsistent
<1>3. HasItems' = HasItems /\ Answer' = Answer
    BY AnswerStands DEF HasItems
<1> HIDE DEF HasItems, Answer
<1> QED BY <1>1, <1>2, <1>3 DEF EvidenceInv

\* Processing starts when the call has returned: a call that goes on finds nothing
\* processed.
LEMMA ToolGoesOn ==
    ASSUME EvidenceInv, ToolNext, UNCHANGED evidenceVars
    PROVE  EvidenceInv'
<1>1. toolStep # "returned"
    BY DEF ToolNext, SelectTool, NoTool, SearchRaises, SearchFindsNothing, SearchWeb,
           SearchPapers, SearchDocs, RecallKnowledge, SearchFinds, FetchWebPages, FetchPaper,
           FetchDocsPage, FetchNextPage, FetchDocsRaises, FetchEnds, AssembleWeb, AssemblePapers, AssembleDocs,
           AssembleKnowledge, Assemble
<1>2. materials = <<>> /\ result = None /\ UNCHANGED <<extraction, materials, work, result>>
    BY <1>1 DEF EvidenceInv, HasItems, evidenceVars
<1>3. EvidenceTypeOK'
    BY <1>2 DEF EvidenceInv, EvidenceTypeOK
<1>4. \A i \in DOMAIN work' : WorkIsConsistent(i)'
    BY <1>2 DEF EvidenceInv, WorkIsConsistent
<1> QED BY <1>2, <1>3, <1>4 DEF EvidenceInv

LEMMA EvidenceInitInv == EvidenceInit => EvidenceInv
<1> SUFFICES ASSUME EvidenceInit PROVE EvidenceInv
    OBVIOUS
<1>1. materials = <<>> /\ work = <<>> /\ result = None /\ extraction \in BOOLEAN
    BY DEF EvidenceInit
<1>2. materials \in Seq(Item) /\ work \in Seq(Work) /\ DOMAIN work = DOMAIN materials
      /\ DOMAIN work = {}
    BY <1>1
<1> QED BY <1>1, <1>2 DEF EvidenceInv, EvidenceTypeOK

LEMMA EvidenceInvStep ==
    ToolInv /\ EvidenceInv /\ EvidenceNext /\ UNCHANGED toolVars => EvidenceInv'
BY ShortCircuitStep, StartStep, StructureStep, FinishStep DEF EvidenceNext

LEMMA CountsSomething ==
    ASSUME NEW n \in Nat, NEW S \in SUBSET (1..n)
    PROVE  Cardinality(S) \in Nat /\ (Cardinality(S) > 0 <=> S # {})
<1>1. IsFiniteSet(S)
    <2>1. IsFiniteSet(1..n)
        BY FS_Interval, 1 \in Int, n \in Int
    <2> QED BY <2>1, FS_Subset
<1> QED BY <1>1, FS_CardinalityType, FS_EmptySet

\* The status of an answer tells whether there are units and whether a material failed.
LEMMA AnswerIsTruthful ==
    ASSUME EvidenceInv
    PROVE  /\ (Answer.units # <<>>) = (Answer.status \in {"success", "partial_success"})
           /\ Answer.status \in {"success", "no_result"} =>
                \A i \in DOMAIN work : ~work[i].failed
           /\ Answer.status = "failed" => \E i \in DOMAIN work : work[i].failed
<1> DEFINE units == Consolidated(StructuredUnits)
           failed == {i \in DOMAIN work : work[i].failed}
           empty == {i \in DOMAIN work : work[i].units = <<>>}
           status == ProcessingStatusOf(Len(units), Cardinality(failed),
                                        Cardinality(empty), Len(items))
<1>1. Answer.units = units /\ Answer.status = status
    BY DEF Answer
<1>2. Len(units) \in Nat /\ (Len(units) = 0 <=> units = <<>>)
    <2>1. units \in Seq(Unit)
        BY AnswerType, <1>1 DEF Result
    <2> HIDE DEF units
    <2> QED BY <2>1
<1>3. work \in Seq(Work)
    BY DEF EvidenceInv, EvidenceTypeOK
<1>4. DOMAIN work = 1..Len(work) /\ Len(work) \in Nat
    BY <1>3
<1>5. Cardinality(failed) \in Nat /\ (Cardinality(failed) > 0 <=> failed # {})
    <2>1. failed \in SUBSET (1..Len(work))
        BY <1>4
    <2> HIDE DEF failed
    <2> QED BY <1>4, <2>1, CountsSomething
<1>6. failed # {} <=> \E i \in DOMAIN work : work[i].failed
    OBVIOUS
<1> HIDE DEF units, failed, empty
<1>7. /\ status \in {"success", "partial_success"} <=> Len(units) # 0
      /\ status \in {"success", "no_result"} => ~(Cardinality(failed) > 0)
      /\ status = "failed" => Cardinality(failed) > 0
    BY DEF ProcessingStatusOf
<1> HIDE DEF status
<1> QED BY <1>1, <1>2, <1>5, <1>6, <1>7

LEMMA FoundSourcesAreNamed == ToolInv /\ EvidenceInv => FoundSourcesReachTheEvidence
<1> SUFFICES ASSUME ToolInv, EvidenceInv, result # None, result.status = "success",
                    NEW i \in DOMAIN hits, hits[i].snippet # {},
                    \A j \in DOMAIN work :
                        ~(/\ extraction
                          /\ SourceRef(materials[j]) = Head(hits[i].sources)
                          /\ work[j].units = <<>>)
             PROVE  \E j \in DOMAIN result.units :
                        Head(hits[i].sources) \in result.units[j].sources
    BY DEF FoundSourcesReachTheEvidence
<1> DEFINE source == Head(hits[i].sources)
<1>1. materials # <<>>
    BY DEF EvidenceInv
<1>2. /\ \A j \in DOMAIN work : work[j].step = "done"
      /\ result = Answer /\ HasItems /\ materials = DedupMaterials(items)
      /\ DOMAIN work = DOMAIN materials
    BY <1>1 DEF EvidenceInv, EvidenceTypeOK
<1>3. items \in Seq(Item) /\ SameDocSameSource(items) /\ ItemsStandForHits /\ HitsAreConsistent
    BY <1>2, ItemsNameTheirSources DEF ToolInv
<1>4. /\ i \in DOMAIN items /\ SourceRef(items[i]) = source /\ items[i].content # {}
    BY <1>3 DEF ItemsStandForHits, SourceRef
<1>5. PICK j \in DOMAIN materials :
        SourceRef(materials[j]) = source /\ materials[j].content # {}
    BY <1>2, <1>3, <1>4, DedupKeepsSources
<1>6. materials[j].sources # <<>> /\ materials[j].sources \in Seq(Doc)
    <2>1. PICK k \in DOMAIN items : materials[j] = items[k]
        BY <1>2, <1>3, DedupKeepsSources
    <2>2. items[k] \in Item
        BY <1>3, <2>1
    <2> QED BY <1>3, <2>1, <2>2 DEF ItemsStandForHits, HitsAreConsistent, Item
<1>7. source \in ToSet(materials[j].sources)
    BY <1>5, <1>6 DEF ToSet, SourceRef
<1>8. ~work[j].failed
    BY <1>2, <1>5, AnswerIsTruthful
<1>9. work[j].units # <<>>
    BY <1>2, <1>5, <1>8 DEF EvidenceInv, WorkIsConsistent
<1>10. work[j].units \in Seq(Unit)
    <2>1. work[j] \in Work
        BY <1>2 DEF EvidenceInv, EvidenceTypeOK
    <2> QED BY <2>1 DEF Work
<1> DEFINE u == work[j].units[1]
<1>11. u \in Among(work[j].units)
    BY <1>9, <1>10 DEF Among
<1> HIDE DEF u
<1>12. u.sources = ToSet(materials[j].sources)
    BY <1>2, <1>11 DEF EvidenceInv, WorkIsConsistent
<1>13. u \in Among(StructuredUnits) /\ StructuredUnits \in Seq(Unit)
    BY <1>2, <1>11, JoiningKeepsUnits DEF UnitsOfMaterials, EvidenceInv, EvidenceTypeOK
<1>14. PICK f \in Among(Consolidated(StructuredUnits)) : Covers(f, u)
    BY <1>13, ConsolidationKeepsEvidence
<1>15. source \in f.sources
    BY <1>7, <1>12, <1>14 DEF Covers
<1>16. result.units = Consolidated(StructuredUnits)
    BY <1>2 DEF Answer
<1>17. PICK k \in DOMAIN result.units : f = result.units[k]
    BY <1>14, <1>16 DEF Among
<1> QED BY <1>15, <1>17

-----------------------------------------------------------------------------
(* The promise of EvidenceStage.                                            *)

DecisionOf(w) ==
    IF w.step = "done" THEN [units |-> w.units, failed |-> w.failed] ELSE None

DecisionsOf(of) == [i \in DOMAIN of |-> DecisionOf(of[i])]

LEMMA DecisionsFollowWork ==
    Decisions = DecisionsOf(work) /\ Decisions' = DecisionsOf(work')
BY DEF Decisions, DecisionsOf, DecisionOf

LEMMA DecidedWhenDone ==
    ASSUME NEW w \in Work
    PROVE  /\ w.step = "done" =>
                DecisionOf(w) # None /\ DecisionOf(w).units = w.units
                                     /\ DecisionOf(w).failed = w.failed
           /\ w.step # "done" => DecisionOf(w) = None
<1>1. [units |-> w.units, failed |-> w.failed] \in Decision
    BY DEF Work, Decision
<1> QED BY <1>1, NoneAssumption DEF DecisionOf

LEMMA DecisionsOfWork ==
    ASSUME NEW of \in Seq(Work)
    PROVE  /\ DOMAIN DecisionsOf(of) = DOMAIN of
           /\ \A i \in DOMAIN of : of[i] \in Work /\ DecisionsOf(of)[i] = DecisionOf(of[i])
BY DEF DecisionsOf

\* A coroutine that returns decides its material; any other step of it decides nothing.
LEMMA StructureDecides ==
    ASSUME EvidenceInv, EvidenceInv', NEW i \in DOMAIN work, StructureMaterial(i),
           work[i].step # "done"
    PROVE  Promise!Decide \/ UNCHANGED Promise!vars
<1> DEFINE former == DecisionsOf(work)
           latter == DecisionsOf(work')
<1>1. result' = result /\ work \in Seq(Work) /\ work' \in Seq(Work)
    BY DEF StructureMaterial, EvidenceInv, EvidenceTypeOK
<1>2. /\ DOMAIN work' = DOMAIN work
      /\ \A j \in DOMAIN work \ {i} : work'[j] = work[j]
    BY DEF StructureMaterial, TakeSlot, PassThrough, CallModel, ModelAnswers, RetryCall,
           ModelCallFails
<1>3. /\ DOMAIN former = DOMAIN work /\ DOMAIN latter = DOMAIN work
      /\ \A j \in DOMAIN work :
            former[j] = DecisionOf(work[j]) /\ latter[j] = DecisionOf(work'[j])
    BY <1>1, <1>2, DecisionsOfWork
<1>4. work[i] \in Work /\ work'[i] \in Work
    BY <1>1, <1>2
<1>5. former[i] = None /\ \A j \in DOMAIN work \ {i} : latter[j] = former[j]
    BY <1>2, <1>3, <1>4, DecidedWhenDone
<1>6. Decisions = former /\ Decisions' = latter
    BY DecisionsFollowWork
<1>7. CASE work'[i].step = "done"
    <2>1. latter[i] # None
        BY <1>3, <1>4, <1>7, DecidedWhenDone
    <2> HIDE DEF former, latter
    <2> QED BY <1>1, <1>3, <1>5, <1>6, <2>1 DEF Promise!Decide
<1>8. CASE work'[i].step # "done"
    <2>1. latter[i] = None
        BY <1>3, <1>4, <1>8, DecidedWhenDone
    <2>2. latter = former
        <3>1. \A j \in DOMAIN work : latter[j] = former[j]
            <4> HIDE DEF former, latter
            <4> QED BY <1>5, <2>1
        <3>2. /\ latter = [j \in DOMAIN latter |-> latter[j]]
              /\ former = [j \in DOMAIN former |-> former[j]]
            BY DEF DecisionsOf
        <3> HIDE DEF former, latter
        <3> QED BY <1>3, <3>1, <3>2
    <2> HIDE DEF former, latter
    <2> QED BY <1>1, <1>6, <2>2 DEF Promise!vars
<1> QED BY <1>7, <1>8

LEMMA StartAccepts ==
    ASSUME ToolInv, EvidenceInv, EvidenceInv', StartStructuring, UNCHANGED toolVars
    PROVE  Promise!Accept
<1>1. materials' # <<>> /\ result = None /\ work = <<>> /\ result' = result
    BY StartStep DEF StartStructuring
<1>2. work' \in Seq(Work) /\ work' # <<>>
    BY <1>1 DEF EvidenceInv, EvidenceTypeOK
<1>3. DOMAIN work' # {}
    <2>1. Len(work') \in Nat \ {0} /\ DOMAIN work' = 1..Len(work')
        BY <1>2, EmptySeq
    <2> QED BY <2>1
<1>4. DOMAIN DecisionsOf(work') # {}
    BY <1>3 DEF DecisionsOf
<1>5. DecisionsOf(work) = <<>>
    BY <1>1 DEF DecisionsOf
<1>6. DecisionsOf(work') # <<>>
    BY <1>4
<1> QED BY <1>1, <1>5, <1>6, DecisionsFollowWork DEF Promise!Accept

LEMMA ShortCircuitAnswers ==
    ASSUME EvidenceInv, ShortCircuit, UNCHANGED toolVars
    PROVE  Promise!Answer
<1>1. /\ work = <<>> /\ work' = work /\ result = None
      /\ result' = [status |-> "no_result", units |-> <<>>]
    BY ShortCircuitStep DEF ShortCircuit
<1>2. Decisions = <<>> /\ Decisions' = Decisions /\ DOMAIN Decisions = {}
    BY <1>1, DecisionsFollowWork DEF DecisionsOf
<1>3. result' # None
    <2>1. <<>> \in Seq(Unit) /\ "no_result" \in ProcessingStatus
        BY DEF ProcessingStatus
    <2>2. result' \in Result
        BY <1>1, <2>1 DEF Result
    <2> QED BY <2>2, NoneAssumption
<1>4. Promise!Units = {} /\ Promise!AnswerUnits(result') = {} /\ ~Promise!Failed
    BY <1>1, <1>2 DEF Promise!Units, Promise!AnswerUnits, Promise!Failed
<1>5. Promise!KeepsUnits(result') /\ Promise!IsGrounded(result')
    BY <1>4 DEF Promise!KeepsUnits, Promise!IsGrounded
<1>6. Promise!StatusIsTruthful(result')
    BY <1>1, <1>4 DEF Promise!StatusIsTruthful
<1> QED BY <1>1, <1>2, <1>3, <1>5, <1>6 DEF Promise!Answer

LEMMA FinishAnswers ==
    ASSUME EvidenceInv, FinishProcessing, UNCHANGED toolVars
    PROVE  Promise!Answer
<1> DEFINE units == Consolidated(StructuredUnits)
           found == Among(StructuredUnits)
<1>1. /\ \A i \in DOMAIN work : work[i].step = "done"
      /\ result = None /\ result' = Answer /\ work' = work
      /\ work \in Seq(Work)
    BY FinishStep DEF FinishProcessing, EvidenceInv, EvidenceTypeOK
<1>2. result' # None
    BY <1>1, AnswerType, NoneAssumption
<1>3. Decisions = DecisionsOf(work) /\ Decisions' = Decisions
    BY <1>1, DecisionsFollowWork
<1>4. DOMAIN Decisions = DOMAIN work
    BY <1>1, <1>3, DecisionsOfWork
<1>5. ASSUME NEW i \in DOMAIN work
      PROVE  /\ Decisions[i] # None
             /\ Decisions[i].units = work[i].units
             /\ Decisions[i].failed = work[i].failed
    <2>1. work[i] \in Work /\ work[i].step = "done" /\ Decisions[i] = DecisionOf(work[i])
        BY <1>1, <1>3, DecisionsOfWork
    <2> QED BY <2>1, DecidedWhenDone
<1>6. Promise!Units = found
    <2>1. Promise!Units = UNION {Among(Decisions[i].units) : i \in DOMAIN Decisions}
        BY DEF Promise!Units, Among
    <2>2. UnitsOfMaterials = UNION {Among(Decisions[i].units) : i \in DOMAIN Decisions}
        BY <1>4, <1>5 DEF UnitsOfMaterials
    <2>3. UnitsOfMaterials = found
        BY <1>1, JoiningKeepsUnits
    <2> QED BY <2>1, <2>2, <2>3
<1>7. Promise!AnswerUnits(result') = Among(units)
    BY <1>1 DEF Promise!AnswerUnits, Among, Answer
<1>8. /\ \A u \in found : \E f \in Among(units) : Covers(f, u)
      /\ \A f \in Among(units) : GroundedIn(f, found)
    BY <1>1, JoiningKeepsUnits, ConsolidationKeepsEvidence
<1> HIDE DEF units, found
<1>9. Promise!KeepsUnits(result')
    BY <1>6, <1>7, <1>8 DEF Promise!KeepsUnits, Covers
<1>10. Promise!IsGrounded(result')
    BY <1>6, <1>7, <1>8 DEF Promise!IsGrounded, GroundedIn
<1>11. Promise!Failed <=> \E i \in DOMAIN work : work[i].failed
    BY <1>4, <1>5 DEF Promise!Failed
<1>12. Promise!StatusIsTruthful(result')
    BY <1>1, <1>11, AnswerIsTruthful DEF Promise!StatusIsTruthful
<1> QED BY <1>1, <1>2, <1>3, <1>4, <1>5, <1>9, <1>10, <1>12 DEF Promise!Answer

-----------------------------------------------------------------------------
(* Retrieval.                                                               *)

RetrievalInv == ToolInv /\ EvidenceInv /\ LockInv /\ RegistryInv

LEMMA RetrievalInitInv == MCInit => RetrievalInv
BY ToolInitInv, EvidenceInitInv, ClientInitInv, RegistryInitInv DEF MCInit, RetrievalInv

LEMMA RetrievalInvStep == RetrievalInv /\ [MCNext]_mcvars => RetrievalInv'
<1> SUFFICES ASSUME RetrievalInv, [MCNext]_mcvars PROVE RetrievalInv'
    OBVIOUS
<1>1. /\ UNCHANGED toolVars => ToolInv'
      /\ UNCHANGED clientVars => LockInv'
      /\ UNCHANGED registryVars => RegistryInv'
    BY ToolInvStep, ClientInvStep, RegistryInvStep DEF RetrievalInv
<1>2. UNCHANGED toolVars /\ UNCHANGED evidenceVars => EvidenceInv'
    BY EvidenceStandsStep DEF RetrievalInv, toolVars, evidenceVars
<1>3. CASE RetrievalStep
    <2>1. UNCHANGED clientVars /\ UNCHANGED registryVars
        BY <1>3 DEF RetrievalStep
    <2>2. CASE ToolNext /\ UNCHANGED evidenceVars
        BY <1>1, <2>1, <2>2, ToolInvStep, ToolGoesOn DEF RetrievalInv
    <2>3. CASE EvidenceNext /\ UNCHANGED toolVars
        BY <1>1, <2>1, <2>3, EvidenceInvStep DEF RetrievalInv
    <2> QED BY <1>3, <2>2, <2>3 DEF RetrievalStep
<1>4. CASE ClientsStep
    BY <1>1, <1>2, <1>4, ClientInvStep DEF ClientsStep, RetrievalInv
<1>5. CASE PoolsStep
    BY <1>1, <1>2, <1>5, RegistryInvStep DEF PoolsStep, RetrievalInv
<1>6. CASE UNCHANGED mcvars
    BY <1>1, <1>2, <1>6 DEF mcvars, RetrievalInv
<1> QED BY <1>3, <1>4, <1>5, <1>6 DEF MCNext

LEMMA RetrievalCorrect == MCSpec => []RetrievalInv
BY RetrievalInitInv, RetrievalInvStep, PTL DEF MCSpec

\* Every variable of a retrieval and of the objects it shares keeps its type, for any
\* documents, answers of the providers, slots, retries, callers and databases.
THEOREM RetrievalTypes == MCSpec => []RetrievalTypeOK
<1>1. RetrievalInv => RetrievalTypeOK
    BY DEF RetrievalInv, ToolInv, EvidenceInv, LockInv, RegistryInv, RetrievalTypeOK
<1> QED BY <1>1, RetrievalCorrect, PTL

\* A source found with some text is named by the evidence of a successful answer
\* unless the model dropped it, whatever was found, fetched, removed or merged.
THEOREM FoundSourcesNamed == MCSpec => []FoundSourcesReachTheEvidence
<1>1. RetrievalInv => FoundSourcesReachTheEvidence
    BY FoundSourcesAreNamed DEF RetrievalInv
<1> QED BY <1>1, RetrievalCorrect, PTL

\* The search client spaces requests and the registry shares pools, whatever a
\* retrieval does besides.
THEOREM RetrievalSpacesAndShares == MCSpec => SearchesAreSpaced /\ []PoolsAreShared
<1>1. RetrievalInv /\ [MCNext]_mcvars => [SpacedStep]_clientVars
    <2> SUFFICES ASSUME RetrievalInv, [MCNext]_mcvars PROVE [SpacedStep]_clientVars
        OBVIOUS
    <2>1. CASE ClientsStep
        BY <2>1, StepIsSpaced DEF ClientsStep, RetrievalInv
    <2>2. CASE ~ClientsStep
        BY <2>2 DEF MCNext, RetrievalStep, PoolsStep, mcvars
    <2> QED BY <2>1, <2>2
<1>2. RetrievalInv => PoolsAreShared
    BY DEF RetrievalInv, RegistryInv
<1>3. MCSpec => [][SpacedStep]_clientVars /\ []PoolsAreShared
    BY <1>1, <1>2, RetrievalCorrect, PTL DEF MCSpec
<1> QED BY <1>3 DEF SearchesAreSpaced, SpacedStep

LEMMA PromiseInit == MCInit => Promise!Init
<1> SUFFICES ASSUME MCInit PROVE Promise!Init
    OBVIOUS
<1>1. work = <<>> /\ result = None
    BY DEF MCInit, EvidenceInit
<1>2. Decisions = <<>>
    BY <1>1, DecisionsFollowWork DEF DecisionsOf
<1> QED BY <1>1, <1>2 DEF Promise!Init

LEMMA PromiseStep ==
    RetrievalInv /\ RetrievalInv' /\ [MCNext]_mcvars => [Promise!Next]_(Promise!vars)
<1> SUFFICES ASSUME RetrievalInv, RetrievalInv', [MCNext]_mcvars
             PROVE  Promise!Next \/ UNCHANGED Promise!vars
    OBVIOUS
<1> USE DEF RetrievalInv
<1>1. UNCHANGED evidenceVars => UNCHANGED Promise!vars
    BY DecisionsFollowWork DEF evidenceVars, Promise!vars
<1>2. CASE EvidenceNext /\ UNCHANGED toolVars
    <2>1. CASE ShortCircuit
        BY <1>2, <2>1, ShortCircuitAnswers DEF Promise!Next
    <2>2. CASE StartStructuring
        BY <1>2, <2>2, StartAccepts DEF Promise!Next
    <2>3. ASSUME NEW i \in DOMAIN work, StructureMaterial(i)
          PROVE  Promise!Next \/ UNCHANGED Promise!vars
        BY <1>2, <2>3, StructureStep, StructureDecides DEF Promise!Next
    <2>4. CASE FinishProcessing
        BY <1>2, <2>4, FinishAnswers DEF Promise!Next
    <2> QED BY <1>2, <2>1, <2>2, <2>3, <2>4 DEF EvidenceNext
<1> QED BY <1>1, <1>2 DEF MCNext, RetrievalStep, ClientsStep, PoolsStep, mcvars

\* Evidence processing implements the abstract stage but for its liveness: every step
\* accepts, decides one material, answers as promised, or changes nothing the stage
\* knows of.
THEOREM KeepsThePromise == MCSpec => Promise!SafetySpec
<1>1. RetrievalInv /\ RetrievalInv' /\ [MCNext]_mcvars => [Promise!Next]_(Promise!vars)
    BY PromiseStep
<1> QED BY <1>1, PromiseInit, RetrievalCorrect, PTL DEF MCSpec, Promise!SafetySpec
=============================================================================
