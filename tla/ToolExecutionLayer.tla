------------------------- MODULE ToolExecutionLayer -------------------------
(***************************************************************************)
(* One bounded request of the Tool Execution Layer: select a retrieval     *)
(* family, obtain a query, run the family, evaluate the outcome, and retry *)
(* the family or fall back to another one until the evaluator or a guard   *)
(* stops the request.                                                      *)
(*                                                                         *)
(* Three services take part: ToolExecutionLayerService (the loop and its   *)
(* run state), FamilySelectionService and                                  *)
(* RequestCompletionEvaluationService.  The run state is local to one call *)
(* of execute, so one request is the whole state of this module.           *)
(***************************************************************************)
EXTENDS Integers, Sequences, FiniteSets

CONSTANTS
    Family,         \* the retrieval families (enum FamilyName)
    Recall,         \* research_knowledge_recall, the one memory family
    Registered,     \* families whose service was given to the constructor
    MultiTool,      \* families that offer more than one tool
    Request,        \* the requests the layer may be given
    NoFamily        \* stands for Python's None

Mode == {"memory", "external", "any"}
Policy == {"no_fallback", "within_same_family", "broader"}

Reason == {"none", "transient", "tool_error", "unusable", "permanent", "unknown"}
\* transient: timeout, rate_limited, server_error; unusable: malformed_response,
\* tool_unavailable; permanent: auth_error, invalid_request.

RequestShape ==
    [mode: Mode, available: SUBSET Family, allowed: SUBSET Family,
     preferred: SUBSET Family, blocked: SUBSET Family, policy: Policy,
     budget: Nat, provided: BOOLEAN, owner: BOOLEAN]

ASSUME RecallAssumption == Recall \in Family
ASSUME RegisteredAssumption == Registered \subseteq Family
ASSUME RequestAssumption == Request \subseteq RequestShape
ASSUME NoFamilyAssumption == NoFamily \notin Family

VARIABLES
    request,            \* the normalized request, fixed during the call
    pc,                 \* "prepare", "run", "evaluate" or "done"
    selected,           \* the family of the current attempt
    blocked,            \* state.blocked_families
    retries,            \* state.retry_counts_by_family
    retryTotal,         \* state.retry_count
    recoveryCount,      \* state.recovery_attempt_count
    fallbackApplied,    \* state.fallback_applied
    retryContext,       \* state.retry_context, its family
    outcome,            \* state.latest_family_result
    attempts,           \* state.attempts
    exhausted,          \* state.recovery_exhausted_reason
    verdict             \* execution_status of the result, "none" while running

vars == <<request, pc, selected, blocked, retries, retryTotal, recoveryCount,
          fallbackApplied, retryContext, outcome, attempts, exhausted, verdict>>

budgets == <<retries, retryTotal, recoveryCount, fallbackApplied>>

Outcome ==
    [status: {"success", "partial", "no_result"}, reason: {"none"}, alternative: BOOLEAN]
        \cup [status: {"failed"}, reason: Reason \ {"none"}, alternative: BOOLEAN]

NoOutcome == [status |-> "none", reason |-> "none", alternative |-> FALSE]

-----------------------------------------------------------------------------
(* Family selection.  An empty list means "no restriction" to both filters. *)

EffectiveAvailable ==
    IF request.available = {} THEN Registered ELSE request.available \cap Registered

Scope ==
    CASE request.mode = "memory"   -> {Recall}
      [] request.mode = "external" -> Family \ {Recall}
      [] request.mode = "any"      -> Family

\* Deviation: a filter that restricts nothing.
Unfiltered(families, filter) == families

Filtered(families, filter) ==
    IF filter = {} THEN families ELSE families \cap filter

\* Deviation: the families the caller allowed are not consulted.
CandidatesWhateverAllowed ==
    Filtered(Scope, EffectiveAvailable) \ (request.blocked \cup blocked)

Candidates ==
    Filtered(Filtered(Scope, EffectiveAvailable), request.allowed)
        \ (request.blocked \cup blocked)

\* Preferred candidates come before every other one; the scores that order the
\* rest, and the order among preferred families, are left open.
Leading ==
    IF request.preferred \cap Candidates # {}
      THEN request.preferred \cap Candidates
      ELSE Candidates

-----------------------------------------------------------------------------
(* The completion evaluator: a pure function of the request, the counters   *)
(* and the latest outcome.                                                  *)

SameFamilyFallback ==
    request.policy = "within_same_family" /\ outcome.alternative

\* Deviation: the family that just ran counts as its own alternative.
FallbackToItself ==
    /\ request.policy = "broader"
    /\ Filtered(Filtered(Family, EffectiveAvailable), request.allowed)
         \ (request.blocked \cup blocked) # {}

CrossFamilyFallback ==
    /\ request.policy = "broader"
    /\ Filtered(Filtered(Family, EffectiveAvailable), request.allowed)
         \ (request.blocked \cup blocked \cup {selected}) # {}

FallbackAvailable == SameFamilyFallback \/ CrossFamilyFallback

RetryAvailable == retries[selected] < request.budget

Fallback ==
    [action |-> "fallback",
     hint   |-> IF SameFamilyFallback THEN "within_same_family" ELSE "broader"]
Retry == [action |-> "retry", hint |-> "retry"]
Stop  == [action |-> "stop",  hint |-> "stop"]

RetryThenFallback ==
    IF RetryAvailable THEN Retry ELSE IF FallbackAvailable THEN Fallback ELSE Stop
FallbackThenRetry ==
    IF FallbackAvailable THEN Fallback ELSE IF RetryAvailable THEN Retry ELSE Stop
FallbackOnly ==
    IF FallbackAvailable THEN Fallback ELSE Stop

\* Deviation: a partial result is not good enough to stop.
EvaluationBeyondPartial ==
    CASE outcome.status = "success"                     -> Stop
      [] outcome.status \in {"partial", "no_result"}    -> FallbackOnly
      [] outcome.reason \in {"transient", "unknown"}    -> RetryThenFallback
      [] outcome.reason = "tool_error"                  -> FallbackThenRetry
      [] outcome.reason = "unusable"                    -> FallbackOnly
      [] OTHER                                          -> Stop

Evaluation ==
    CASE outcome.status \in {"success", "partial"}     -> Stop
      [] outcome.status = "no_result"                  -> FallbackOnly
      [] outcome.reason \in {"transient", "unknown"}   -> RetryThenFallback
      [] outcome.reason = "tool_error"                 -> FallbackThenRetry
      [] outcome.reason = "unusable"                   -> FallbackOnly
      [] OTHER                                         -> Stop

-----------------------------------------------------------------------------
(* The loop of execute.                                                     *)

Init ==
    /\ request \in Request
    /\ pc = "prepare"
    /\ selected = NoFamily
    /\ blocked = request.blocked
    /\ retries = [f \in Family |-> 0]
    /\ retryTotal = 0
    /\ recoveryCount = 0
    /\ fallbackApplied = FALSE
    /\ retryContext = NoFamily
    /\ outcome = NoOutcome
    /\ attempts = <<>>
    /\ exhausted = "none"
    /\ verdict = "none"

\* _validate_attempt_ready: a service, a usable query, and an owner for recall.
Ready(f, queryOk) ==
    /\ f \in Registered
    /\ queryOk
    /\ f = Recall => request.owner

\* Selection, query generation and validation of a fresh attempt.  A provided
\* query is always usable; a generated one may not be.
SelectFamily(f, queryOk) ==
    /\ pc = "prepare"
    /\ retryContext = NoFamily
    /\ f \in Leading
    /\ request.provided => queryOk
    /\ selected' = f
    /\ IF Ready(f, queryOk)
         THEN pc' = "run" /\ verdict' = verdict
         ELSE pc' = "done" /\ verdict' = "failed"
    /\ UNCHANGED <<request, blocked, budgets, retryContext, outcome, attempts, exhausted>>

NoFamilySelected ==
    /\ pc = "prepare"
    /\ retryContext = NoFamily
    /\ Candidates = {}
    /\ pc' = "done"
    /\ verdict' = "failed"
    /\ UNCHANGED <<request, selected, blocked, budgets, retryContext, outcome, attempts, exhausted>>

\* A scheduled retry reuses the family and its query; it skips selection.
ResumeRetry ==
    /\ pc = "prepare"
    /\ retryContext # NoFamily
    /\ selected' = retryContext
    /\ retryContext' = NoFamily
    /\ IF Ready(retryContext, TRUE)
         THEN pc' = "run" /\ verdict' = verdict
         ELSE pc' = "done" /\ verdict' = "failed"
    /\ UNCHANGED <<request, blocked, budgets, outcome, attempts, exhausted>>

\* The family service answers, or raises and yields a synthesized tool_error
\* that names no candidate tool.
RunFamily(res) ==
    /\ pc = "run"
    /\ res.alternative => selected \in MultiTool
    /\ outcome' = res
    /\ pc' = "evaluate"
    /\ UNCHANGED <<request, selected, blocked, budgets, retryContext, attempts, exhausted, verdict>>

\* Deviation: an attempt that is retried leaves no trace.
RecordedUnlessRetried(decision) ==
    IF decision.action = "retry" THEN attempts
    ELSE Append(attempts, [family |-> selected, status |-> outcome.status,
                           action |-> decision.action])

Recorded(decision) ==
    Append(attempts, [family |-> selected, status |-> outcome.status,
                      action |-> decision.action])

\* Deviation: the loop counts the budget one short of the evaluator.
RetryExecutableOnceLess ==
    Evaluation.action = "retry" /\ retries[selected] + 1 < request.budget

RetryExecutable ==
    Evaluation.action = "retry" /\ retries[selected] < request.budget

\* Deviation: more than one fallback per request.
FallbackExecutableAgain == Evaluation.hint = "broader"

FallbackExecutable == Evaluation.hint = "broader" /\ ~fallbackApplied

\* Deviation: the family that is left may be selected again.
BlockedAsBefore(decision) == blocked

\* A broader fallback abandons the family even when it cannot be executed.
BlockedAfter(decision) ==
    IF decision.hint = "broader" THEN blocked \cup {selected} ELSE blocked

ExhaustedReason(decision) ==
    CASE decision.action = "stop"              -> "none"
      [] decision.action = "retry"             -> "retry_budget_exhausted"
      [] decision.hint = "broader"             -> "fallback_already_applied"
      [] decision.hint = "within_same_family"  -> "same_family_fallback_not_executable"

ScheduleRetry ==
    /\ pc = "evaluate"
    /\ RetryExecutable
    /\ attempts' = Recorded(Evaluation)
    /\ retries' = [retries EXCEPT ![selected] = @ + 1]
    /\ retryTotal' = retryTotal + 1
    /\ recoveryCount' = recoveryCount + 1
    /\ retryContext' = selected
    /\ pc' = "prepare"
    /\ UNCHANGED <<request, selected, blocked, fallbackApplied, outcome, exhausted, verdict>>

ScheduleFallback ==
    /\ pc = "evaluate"
    /\ FallbackExecutable
    /\ attempts' = Recorded(Evaluation)
    /\ blocked' = BlockedAfter(Evaluation)
    /\ fallbackApplied' = TRUE
    /\ recoveryCount' = recoveryCount + 1
    /\ pc' = "prepare"
    /\ UNCHANGED <<request, selected, retries, retryTotal, retryContext, outcome, exhausted, verdict>>

CompleteRequest ==
    /\ pc = "evaluate"
    /\ ~RetryExecutable
    /\ ~FallbackExecutable
    /\ attempts' = Recorded(Evaluation)
    /\ blocked' = BlockedAfter(Evaluation)
    /\ exhausted' = ExhaustedReason(Evaluation)
    /\ verdict' = "completed"
    /\ pc' = "done"
    /\ UNCHANGED <<request, selected, budgets, retryContext, outcome>>

Next ==
    \/ \E f \in Family, queryOk \in BOOLEAN : SelectFamily(f, queryOk)
    \/ NoFamilySelected
    \/ ResumeRetry
    \/ \E res \in Outcome : RunFamily(res)
    \/ ScheduleRetry
    \/ ScheduleFallback
    \/ CompleteRequest

\* The loop is one coroutine: every await in it either returns or raises and is
\* caught, so the request keeps moving.
Spec == Init /\ [][Next]_vars /\ WF_vars(Next)

-----------------------------------------------------------------------------
(* Properties.                                                              *)

Usable == {"success", "partial"}

Attempt ==
    [family: Family, status: {"success", "partial", "no_result", "failed"},
     action: {"stop", "retry", "fallback"}]

\* Every variable has its type; a family is chosen whenever one is run, and the
\* call has a result exactly when the loop has been left.
TypeOK ==
    /\ request \in Request
    /\ pc \in {"prepare", "run", "evaluate", "done"}
    /\ selected \in Family \cup {NoFamily}
    /\ blocked \subseteq Family
    /\ retries \in [Family -> Nat]
    /\ retryTotal \in Nat
    /\ recoveryCount \in Nat
    /\ fallbackApplied \in BOOLEAN
    /\ retryContext \in Family \cup {NoFamily}
    /\ outcome \in Outcome \cup {NoOutcome}
    /\ attempts \in Seq(Attempt)
    /\ exhausted \in {"none", "retry_budget_exhausted", "fallback_already_applied",
                       "same_family_fallback_not_executable"}
    /\ verdict \in {"none", "completed", "failed"}
    /\ pc \in {"run", "evaluate"} => selected \in Family
    /\ pc = "evaluate" => outcome \in Outcome
    /\ retryContext # NoFamily => pc = "prepare"
    /\ verdict = "none" <=> pc # "done"

\* The counters reported in execution_summary agree with each other and with the
\* attempt trace: every scheduled recovery is followed by exactly one attempt,
\* except the fallback that finds no family to run.
RecoveryIsAccounted ==
    /\ recoveryCount = retryTotal + (IF fallbackApplied THEN 1 ELSE 0)
    /\ Len(attempts) = recoveryCount + (IF verdict = "completed" THEN 1 ELSE 0)

\* A request runs at most two families, each at most retry_budget + 1 times: the
\* bound that keeps one research iteration finite whatever the tools answer.
AttemptsAreBounded ==
    /\ recoveryCount <= 2 * request.budget + 1
    /\ Len(attempts) <= 2 * (request.budget + 1)

\* A family that is run satisfies every hard constraint of the request, also
\* after a fallback has widened the search; a preference never overrides one.
RunsRespectConstraints ==
    pc \in {"run", "evaluate"} =>
        /\ selected \in Registered \cap Scope
        /\ selected \notin request.blocked
        /\ request.allowed # {} => selected \in request.allowed
        /\ selected = Recall => request.owner

\* Evaluator and loop agree on the retry budget: a retry the evaluator asks for
\* is run, on the same family, and is never what the request ends on.
PromisedRetryRuns ==
    \A i \in 1..Len(attempts) :
        attempts[i].action = "retry" =>
            /\ i < Len(attempts) => attempts[i + 1].family = attempts[i].family
            /\ pc = "done" => i < Len(attempts)

\* Items that were acquired reach the caller: no recovery discards a usable
\* result by running something else after it.
UsableResultIsReturned ==
    pc = "done" /\ (\E i \in 1..Len(attempts) : attempts[i].status \in Usable)
        => verdict = "completed" /\ outcome.status \in Usable

\* A fallback the evaluator promises finds a family: of the requests that
\* Research Executor builds, none fails once its first family has run.
FallbackFindsFamily ==
    verdict = "failed" => attempts = <<>>

\* docs/research-runtime-lld.md 5663-5665: retry_budget limits the total number
\* of recovery actions of the request.
RecoveryWithinRetryBudget == recoveryCount <= request.budget

\* domain/models/tool_execution_layer/tool_execution_layer_request.py 91-98: the
\* layer intersects available_families with the injected services and gives the
\* result to selection; only an empty list stands for "every injected family".
RunsOnlyAvailable ==
    pc \in {"run", "evaluate"} /\ request.available # {}
        => selected \in request.available

\* How often each family has been run, and the family of the latest run.
AttemptsOf(f) == {i \in 1..Len(attempts) : attempts[i].family = f}
RunCount ==
    [f \in Family |->
        Cardinality(AttemptsOf(f)) + (IF pc = "evaluate" /\ selected = f THEN 1 ELSE 0)]
LatestFamily ==
    IF pc = "evaluate" THEN selected
    ELSE IF attempts = <<>> THEN NoFamily
    ELSE attempts[Len(attempts)].family

\* The layer implements the abstract promise of FamilyAcquisition: it never goes
\* back to a family it has abandoned, and answers whatever the tools answer.
Acquisition ==
    INSTANCE FamilyAcquisition WITH
        budget   <- request.budget,
        runs     <- RunCount,
        current  <- LatestFamily,
        answered <- (pc = "done")

ImplementsAcquisition == Acquisition!Spec
=============================================================================
