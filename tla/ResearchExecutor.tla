-------------------------- MODULE ResearchExecutor --------------------------
(***************************************************************************)
(* One research stage: ResearchExecutorService.execute and the             *)
(* collaborators it drives.  Each iteration assesses the research state,   *)
(* may acquire material through the Tool Execution Layer and turn it into  *)
(* evidence, links the evidence to a coverage target, refines the findings *)
(* and decides whether to continue.  Any step that awaits a model or a     *)
(* tool may raise.                                                         *)
(*                                                                         *)
(* The evidence an iteration produces is one element, its index: the       *)
(* executor scopes evidence ids by iteration.  Findings and caveats are    *)
(* present or absent.                                                      *)
(***************************************************************************)
EXTENDS Integers, Sequences, FiniteSets

CONSTANTS
    Target,         \* coverage targets of the stage
    StageInput,     \* the stage inputs considered
    None

Status == {"completed", "partial_success", "no_result", "failed"}

\* families: "none" declared, only "unusable" ones (recall without an owner),
\* or "some" usable.  tight: the latency budget is at most one second.
StageInputShape ==
    [budget: Nat, families: {"none", "unusable", "some"}, tight: BOOLEAN,
     findings: BOOLEAN]

\* The decision of an assessment.  actionable: neither the gap nor the evidence need
\* is a "none" value; solid: findings are stable and support is strong enough.
Need == [refine: BOOLEAN, actionable: BOOLEAN, solid: BOOLEAN, target: Target]

\* What the stage returns.
StageResult ==
    [status: Status, iterations: Nat,
     questions: SUBSET {"tel", "evidence", "degraded", "budget", "caveat"},
     error: {"none", "tel", "evidence", "rationale"}]

ASSUME TargetAssumption == Target # {}
ASSUME StageInputAssumption == StageInput \subseteq StageInputShape
ASSUME NoneAssumption == None \notin Need /\ None \notin StageResult

VARIABLES
    input,          \* the stage input
    step,           \* the step of the iteration, "build", "returned" or "raised"
    executed,       \* executed_iteration_count
    index,          \* iteration_index of the current iteration
    outcome,        \* outcome of the latest iteration
    source,         \* outcome_decision_source
    need,           \* the assessment decision of run_state, or None
    tel,            \* tool_execution_result of the current iteration
    ep,             \* evidence_processing_result of the current iteration
    telLog,         \* run_state.tool_execution_results
    epLog,          \* run_state.evidence_processing_results
    evidence,       \* run_state.processed_evidence_units
    coverage,       \* retrieved_evidence_keys of each coverage target
    findings,       \* run_state.intermediate_findings is not empty
    caveats,        \* run_state.finding_caveats is not empty
    result          \* the ResearchStageResult, or None

material == <<tel, ep, telLog, epLog, evidence>>
control == <<executed, index, outcome, source>>
vars == <<input, step, control, need, material, coverage, findings, caveats, result>>

-----------------------------------------------------------------------------
(* Shared readings of the budget and of the current iteration.              *)

MaxIterations == IF input.budget < 1 THEN 1 ELSE input.budget

RemainingAfterCurrent == IF index > MaxIterations THEN 0 ELSE MaxIterations - index

PressureHigh == RemainingAfterCurrent <= 0 \/ input.tight

TelFailed(t) == t \in {"no_result", "failed"}

NewEvidence == ep \in {"success", "partial_success"}

HasUsableOutput == evidence # {} \/ findings

-----------------------------------------------------------------------------
(* Outcome evaluation.                                                      *)

\* The rules that decide without a model, in the order they are tried.
ShortCircuit ==
    IF ~need.actionable \/ (need.refine /\ need.solid) THEN "stop"
    ELSE IF \/ ep = "failed"
            \/ TelFailed(tel) /\ ~NewEvidence /\ PressureHigh
            \/ input.families = "none" /\ ~NewEvidence
      THEN "degrade"
    ELSE "undecided"

\* What the model says of the iteration.  resolved: gap resolved and minimal
\* uncertainty; failed: acquisition failed and the gap did not advance; idle: no
\* meaningful gain and no advance; advancing: anything else.
Proposal ==
    [outcome: {"continue", "stop", "degrade"},
     gain: {"resolved", "failed", "idle", "advancing"}]

\* Deviation: the last iteration may ask for another one.
GuardedWithoutBudget(p) ==
    IF p.gain = "resolved" THEN "stop"
    ELSE IF p.gain = "failed" /\ PressureHigh THEN "degrade"
    ELSE p.outcome

Guarded(p) ==
    IF p.gain = "resolved" THEN "stop"
    ELSE IF p.gain = "failed" /\ PressureHigh THEN "degrade"
    ELSE IF p.outcome = "continue" /\ RemainingAfterCurrent <= 0
      THEN IF p.gain \in {"failed", "idle"} THEN "degrade" ELSE "stop"
    ELSE p.outcome

-----------------------------------------------------------------------------
(* The public result.                                                       *)

InLog(log, statuses) == \E i \in 1..Len(log) : log[i] \in statuses

\* Deviation: evidence processing that failed leaves no open question.
OpenQuestionsWithoutEvidence ==
    {q \in {"tel", "degraded", "budget", "caveat"} :
        \/ q = "tel"      /\ InLog(telLog, {"no_result", "failed"})
        \/ q = "degraded" /\ outcome = "degrade"
        \/ q = "budget"   /\ outcome = "continue" /\ executed >= MaxIterations
        \/ q = "caveat"   /\ caveats}

OpenQuestions ==
    {q \in {"tel", "evidence", "degraded", "budget", "caveat"} :
        \/ q = "tel"      /\ InLog(telLog, {"no_result", "failed"})
        \/ q = "evidence" /\ InLog(epLog, {"no_result", "failed"})
        \/ q = "degraded" /\ outcome = "degrade"
        \/ q = "budget"   /\ outcome = "continue" /\ executed >= MaxIterations
        \/ q = "caveat"   /\ caveats}

HardFailure == InLog(telLog, {"failed"}) \/ InLog(epLog, {"failed"})

ResearchStatus ==
    IF HasUsableOutput
      THEN IF outcome = "degrade" \/ OpenQuestions # {} THEN "partial_success" ELSE "completed"
      ELSE IF outcome = "degrade" \/ HardFailure THEN "failed" ELSE "no_result"

ErrorInfo ==
    IF ResearchStatus # "failed" THEN "none"
    ELSE IF InLog(telLog, {"failed"}) THEN "tel"
    ELSE IF InLog(epLog, {"failed"}) THEN "evidence"
    ELSE IF outcome = "degrade" THEN "rationale"
    ELSE "none"

-----------------------------------------------------------------------------
(* The steps.                                                               *)

Init ==
    /\ input \in StageInput
    /\ step = "assess"
    /\ executed = 0
    /\ index = 1
    /\ outcome = "continue"
    /\ source = "none"
    /\ need = None
    /\ tel = "none" /\ ep = "none"
    /\ telLog = <<>> /\ epLog = <<>>
    /\ evidence = {}
    /\ coverage = [t \in Target |-> {}]
    /\ findings = input.findings
    /\ caveats = FALSE
    /\ result = None

\* Deviation: the coverage snapshot of the model drops the links.
CoverageForgotten == [t \in Target |-> {}]

\* The coverage snapshot of the model replaces the map; the links to evidence
\* that is still known are carried over from the previous map.
AssessedCoverage == [t \in Target |-> coverage[t] \cap evidence]

\* An acquisition must name an available family.
Assess(n) ==
    /\ step = "assess"
    /\ ~n.refine => input.families = "some"
    /\ need' = n
    /\ coverage' = AssessedCoverage
    /\ step' = IF n.refine THEN "coverage" ELSE "acquire"
    /\ UNCHANGED <<input, control, material, findings, caveats, result>>

Acquire(status) ==
    /\ step = "acquire"
    /\ tel' = status
    /\ telLog' = Append(telLog, status)
    /\ step' = "process"
    /\ UNCHANGED <<input, control, need, ep, epLog, evidence, coverage, findings, caveats, result>>

\* Evidence Processing answers no_result at once for failed or empty material.
Process(status) ==
    /\ step = "process"
    /\ TelFailed(tel) => status = "no_result"
    /\ ep' = status
    /\ epLog' = Append(epLog, status)
    /\ evidence' = IF status \in {"success", "partial_success"}
                     THEN evidence \cup {index} ELSE evidence
    /\ step' = "coverage"
    /\ UNCHANGED <<input, control, need, tel, telLog, coverage, findings, caveats, result>>

RecordCoverage ==
    /\ step = "coverage"
    /\ coverage' = IF NewEvidence
                     THEN [coverage EXCEPT ![need.target] = @ \cup {index}]
                     ELSE coverage
    /\ step' = "refine"
    /\ UNCHANGED <<input, control, need, material, findings, caveats, result>>

\* The model's findings and caveats replace the earlier ones.
Refine(found, doubted) ==
    /\ step = "refine"
    /\ findings' = found
    /\ caveats' = doubted
    /\ step' = "evaluate"
    /\ UNCHANGED <<input, control, need, material, coverage, result>>

\* The end of an iteration: the loop runs again or the result is built.  A new
\* iteration starts from a fresh iteration state.
Conclude(decided, by) ==
    /\ outcome' = decided
    /\ source' = by
    /\ executed' = executed + 1
    /\ IF decided = "continue" /\ executed + 1 < MaxIterations
         THEN /\ step' = "assess"
              /\ index' = executed + 2
              /\ tel' = "none" /\ ep' = "none"
         ELSE /\ step' = "build"
              /\ UNCHANGED <<index, tel, ep>>
    /\ UNCHANGED <<input, need, telLog, epLog, evidence, coverage, findings, caveats, result>>

EvaluateByRule ==
    /\ step = "evaluate"
    /\ ShortCircuit # "undecided"
    /\ Conclude(ShortCircuit, "rule")

EvaluateByModel(p) ==
    /\ step = "evaluate"
    /\ ShortCircuit = "undecided"
    /\ Conclude(Guarded(p), "model")

MayRaise ==
    \/ step \in {"assess", "acquire", "process", "refine"}
    \/ step = "evaluate" /\ ShortCircuit = "undecided"

\* Deviation: an evaluation that raises is preceded by another refinement.
StepRaisesAndRefines ==
    /\ MayRaise
    /\ IF step = "evaluate"
         THEN step' = "refine" /\ UNCHANGED <<outcome, source>>
         ELSE step' = "raised" /\ UNCHANGED <<outcome, source>>
    /\ UNCHANGED <<input, executed, index, need, material, coverage, findings, caveats, result>>

\* A step raises: the stage fails when it has nothing to return, and is degraded
\* otherwise.  A rule decides, and coverage is recorded, without awaiting anything.
StepRaises ==
    /\ MayRaise
    /\ IF HasUsableOutput
         THEN step' = "build" /\ outcome' = "degrade" /\ source' = "failure"
         ELSE step' = "raised" /\ UNCHANGED <<outcome, source>>
    /\ UNCHANGED <<input, executed, index, need, material, coverage, findings, caveats, result>>

Build ==
    /\ step = "build"
    /\ result' = [status |-> ResearchStatus, questions |-> OpenQuestions,
                  iterations |-> executed, error |-> ErrorInfo]
    /\ step' = "returned"
    /\ UNCHANGED <<input, control, need, material, coverage, findings, caveats>>

Next ==
    \/ \E n \in Need : Assess(n)
    \/ \E s \in {"acquired", "no_result", "failed"} : Acquire(s)
    \/ \E s \in {"success", "partial_success", "no_result", "failed"} : Process(s)
    \/ RecordCoverage
    \/ \E found, doubted \in BOOLEAN : Refine(found, doubted)
    \/ EvaluateByRule
    \/ \E p \in Proposal : EvaluateByModel(p)
    \/ StepRaises
    \/ Build

\* The stage is one coroutine whose awaits all return or raise.
Spec == Init /\ [][Next]_vars /\ WF_vars(Next)

-----------------------------------------------------------------------------
(* Properties.                                                              *)

\* Every variable has its type.  A step that reads the assessment has one, and a
\* result exists exactly when the stage has returned.
TypeOK ==
    /\ input \in StageInput
    /\ step \in {"assess", "acquire", "process", "coverage", "refine", "evaluate",
                 "build", "returned", "raised"}
    /\ executed \in Nat /\ index \in Nat \ {0}
    /\ outcome \in {"continue", "stop", "degrade"}
    /\ source \in {"none", "rule", "model", "failure"}
    /\ need \in Need \cup {None}
    /\ tel \in {"none", "acquired", "no_result", "failed"}
    /\ ep \in {"none", "success", "partial_success", "no_result", "failed"}
    /\ telLog \in Seq({"acquired", "no_result", "failed"})
    /\ epLog \in Seq({"success", "partial_success", "no_result", "failed"})
    /\ evidence \subseteq Nat
    /\ coverage \in [Target -> SUBSET Nat]
    /\ findings \in BOOLEAN /\ caveats \in BOOLEAN
    /\ result \in StageResult \cup {None}
    /\ step \in {"acquire", "process", "coverage", "refine", "evaluate"} => need \in Need
    /\ result # None <=> step = "returned"

\* The stage never runs, nor pays a tool request for, more iterations than its
\* budget, the interrupted iteration included.
BudgetIsRespected ==
    /\ executed <= MaxIterations
    /\ index <= MaxIterations
    /\ Len(telLog) <= index
    /\ Len(epLog) <= Len(telLog)

\* The loop is left by a stop or degrade decision, never by running out of
\* iterations while the latest decision still asks for another one.
EndsOnADecision ==
    step \in {"build", "returned"} => outcome \in {"stop", "degrade"}

\* Guardrail and loop count iterations in different ways and still agree: the last
\* iteration the budget pays for is one that decides to stop.
LoopEndsInBudget == BudgetIsRespected /\ EndsOnADecision

\* An interrupted stage returns what it had as a partial success that names the
\* interruption, and does not count the interrupted iteration.
InterruptionIsReported ==
    step = "returned" /\ source = "failure" =>
        /\ result.status = "partial_success"
        /\ "degraded" \in result.questions
        /\ result.iterations < index

\* A stage that reports completed acquired nothing in vain: it decided to stop,
\* every acquisition of every iteration gave evidence, and it has output.
CompletedIsClean ==
    step = "returned" /\ result.status = "completed" =>
        /\ outcome = "stop"
        /\ HasUsableOutput
        /\ \A i \in 1..Len(telLog) : telLog[i] = "acquired"
        /\ \A i \in 1..Len(epLog) : epLog[i] \in {"success", "partial_success"}

\* Evidence and findings, once there, are never lost to an exception nor reported
\* as an empty or failed stage, and a failed stage says what failed.
StatusMatchesOutput ==
    /\ step = "raised" => ~HasUsableOutput
    /\ step = "returned" =>
        /\ HasUsableOutput => result.status \in {"completed", "partial_success"}
        /\ result.status = "failed" => result.error # "none"

\* What the stage reports is what happened, however it ended and whichever of
\* its iterations failed (ResearchStageResultBuilder).
ReportIsTruthful == CompletedIsClean /\ StatusMatchesOutput /\ InterruptionIsReported

\* Every evidence unit is linked to exactly one coverage target once its iteration
\* has recorded coverage, whatever assessments follow.
EvidenceIsLinked ==
    \A e \in evidence :
        (e # index \/ step \in {"refine", "evaluate", "build", "returned"}) =>
            \E t \in Target :
                e \in coverage[t] /\ \A u \in Target \ {t} : e \notin coverage[u]

\* The stage ends.
StageEnds == <>(step \in {"returned", "raised"})
=============================================================================
