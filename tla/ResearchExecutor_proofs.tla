----------------------- MODULE ResearchExecutor_proofs -----------------------
(***************************************************************************)
(* Proofs about ResearchExecutor, for any coverage targets and any stage   *)
(* inputs, so for any budget: type correctness, the budget, the way the    *)
(* loop ends, the truth of the report and the links of evidence to         *)
(* coverage targets.                                                       *)
(*                                                                         *)
(* None of them is inductive.  StageInv adds what each step of the         *)
(* iteration may rely on: where the iteration counters and the logs stand  *)
(* (Counters), how the loop was left (Ending), which evidence the current  *)
(* iteration has produced and linked (Links), and that a result states     *)
(* what the final state says (Reported).                                   *)
(***************************************************************************)
EXTENDS ResearchExecutor, TLAPS

Running == {"assess", "acquire", "process", "coverage", "refine", "evaluate"}

Counters ==
    /\ step \in Running \cup {"raised"} => executed = index - 1
    /\ step \in {"build", "returned"} =>
         executed = IF source = "failure" THEN index - 1 ELSE index
    /\ Len(telLog) <= IF step \in {"assess", "acquire"} THEN index - 1 ELSE index
    /\ Len(epLog) <= Len(telLog)
    /\ step = "process" => Len(epLog) < Len(telLog)

Ending ==
    /\ step \in Running => outcome = "continue" /\ source # "failure"
    /\ source = "failure" => outcome = "degrade" /\ HasUsableOutput
    /\ step = "raised" => ~HasUsableOutput

Links ==
    /\ \A e \in evidence : e <= index
    /\ \A t \in Target : \A e \in coverage[t] : e <= index
    /\ step \in {"assess", "acquire", "process"} => index \notin evidence
    /\ step \in {"assess", "acquire", "process"} => ep = "none"
    /\ step = "coverage" => (NewEvidence <=> index \in evidence)
    /\ step \in {"assess", "acquire", "process", "coverage"} =>
         \A t \in Target : index \notin coverage[t]

Reported ==
    step = "returned" =>
        result = [status |-> ResearchStatus, questions |-> OpenQuestions,
                  iterations |-> executed, error |-> ErrorInfo]

StageInv ==
    /\ TypeOK
    /\ BudgetIsRespected /\ Counters
    /\ EndsOnADecision /\ Ending
    /\ EvidenceIsLinked /\ Links
    /\ Reported

-----------------------------------------------------------------------------
(* Facts about the operators. *)

LEMMA Budget ==
    ASSUME TypeOK
    PROVE  /\ input.budget \in Nat /\ input.findings \in BOOLEAN
           /\ MaxIterations \in Nat /\ MaxIterations >= 1
           /\ RemainingAfterCurrent \in Nat
           /\ index < MaxIterations <=> RemainingAfterCurrent > 0
<1>1. input.budget \in Nat /\ input.findings \in BOOLEAN
    BY StageInputAssumption DEF TypeOK, StageInputShape
<1>2. MaxIterations \in Nat /\ MaxIterations >= 1
    BY <1>1 DEF MaxIterations
<1>3. index \in Nat
    BY DEF TypeOK
<1>4. RemainingAfterCurrent \in Nat /\ (index < MaxIterations <=> RemainingAfterCurrent > 0)
    BY <1>2, <1>3 DEF RemainingAfterCurrent
<1> QED BY <1>1, <1>2, <1>4

\* A rule never asks for another iteration.
LEMMA RuleDecides ==
    ShortCircuit # "undecided" => ShortCircuit \in {"stop", "degrade"}
BY DEF ShortCircuit

\* The model asks for another iteration only within the budget.
LEMMA GuardDecides ==
    ASSUME TypeOK, NEW p \in Proposal
    PROVE  /\ Guarded(p) \in {"continue", "stop", "degrade"}
           /\ Guarded(p) = "continue" => index < MaxIterations
<1>1. p.outcome \in {"continue", "stop", "degrade"}
    BY DEF Proposal
<1> QED BY <1>1, Budget DEF Guarded

LEMMA ReportTypes ==
    /\ ResearchStatus \in Status
    /\ ErrorInfo \in {"none", "tel", "evidence", "rationale"}
    /\ OpenQuestions \subseteq {"tel", "evidence", "degraded", "budget", "caveat"}
BY DEF ResearchStatus, ErrorInfo, OpenQuestions, Status

\* What one entry more does to the length of a log.
LEMMA LogGrows ==
    ASSUME NEW S, NEW log \in Seq(S), NEW s \in S
    PROVE  Append(log, s) \in Seq(S) /\ Len(Append(log, s)) = Len(log) + 1
OBVIOUS

\* The decision a stage takes at the end of an iteration.
Decides(decided, by) ==
    /\ step = "evaluate"
    /\ decided \in {"continue", "stop", "degrade"}
    /\ decided = "continue" => index < MaxIterations
    /\ by \in {"rule", "model"}
    /\ Conclude(decided, by)

LEMMA EvaluationDecides ==
    ASSUME TypeOK, EvaluateByRule \/ \E p \in Proposal : EvaluateByModel(p)
    PROVE  \E decided, by : Decides(decided, by)
<1>1. CASE EvaluateByRule
    <2>1. Decides(ShortCircuit, "rule")
        BY <1>1, RuleDecides DEF EvaluateByRule, Decides
    <2> QED BY <2>1
<1>2. ASSUME NEW p \in Proposal, EvaluateByModel(p) PROVE Decides(Guarded(p), "model")
    BY <1>2, GuardDecides DEF EvaluateByModel, Decides
<1> QED BY <1>1, <1>2

-----------------------------------------------------------------------------
(* Type correctness. *)

LEMMA InitType == Init => TypeOK
<1> SUFFICES ASSUME Init PROVE TypeOK
    OBVIOUS
<1>1. input.findings \in BOOLEAN
    BY StageInputAssumption DEF Init, StageInputShape
<1>2. coverage \in [Target -> SUBSET Nat] /\ evidence \subseteq Nat
    BY DEF Init
<1>3. /\ telLog \in Seq({"acquired", "no_result", "failed"})
      /\ epLog \in Seq({"success", "partial_success", "no_result", "failed"})
    BY DEF Init
<1>4. findings \in BOOLEAN /\ caveats \in BOOLEAN
    BY <1>1 DEF Init
<1>5. /\ input \in StageInput /\ step = "assess" /\ executed \in Nat /\ index \in Nat \ {0}
      /\ outcome = "continue" /\ source = "none" /\ tel = "none" /\ ep = "none"
      /\ need = None /\ result = None
    BY DEF Init
<1> QED BY <1>2, <1>3, <1>4, <1>5 DEF TypeOK

LEMMA NextType == TypeOK /\ [Next]_vars => TypeOK'
<1> SUFFICES ASSUME TypeOK, [Next]_vars PROVE TypeOK'
    OBVIOUS
<1> USE DEF TypeOK, control, material
<1>1. ASSUME NEW n \in Need, Assess(n) PROVE TypeOK'
    <2>1. AssessedCoverage \in [Target -> SUBSET Nat]
        BY DEF AssessedCoverage
    <2> QED BY <1>1, <2>1 DEF Assess
<1>2. ASSUME NEW s \in {"acquired", "no_result", "failed"}, Acquire(s) PROVE TypeOK'
    BY <1>2, LogGrows DEF Acquire
<1>3. ASSUME NEW s \in {"success", "partial_success", "no_result", "failed"}, Process(s)
      PROVE  TypeOK'
    <2>1. evidence' \subseteq Nat
        BY <1>3 DEF Process
    <2> QED BY <1>3, <2>1, LogGrows DEF Process
<1>4. CASE RecordCoverage
    <2>1. need.target \in Target
        BY <1>4 DEF RecordCoverage, Need
    <2>2. coverage' \in [Target -> SUBSET Nat]
        BY <1>4, <2>1 DEF RecordCoverage
    <2> QED BY <1>4, <2>2 DEF RecordCoverage
<1>5. ASSUME NEW f \in BOOLEAN, NEW d \in BOOLEAN, Refine(f, d) PROVE TypeOK'
    BY <1>5 DEF Refine
<1>6. ASSUME NEW decided, NEW by, Decides(decided, by) PROVE TypeOK'
    <2>1. executed' = executed + 1 /\ executed' \in Nat
        BY <1>6 DEF Decides, Conclude
    <2>2. index' \in Nat \ {0}
        BY <1>6 DEF Decides, Conclude
    <2>3. /\ tel' \in {"none", "acquired", "no_result", "failed"}
          /\ ep' \in {"none", "success", "partial_success", "no_result", "failed"}
        BY <1>6 DEF Decides, Conclude
    <2>4. step' \in {"assess", "build"}
        BY <1>6 DEF Decides, Conclude
    <2> QED BY <1>6, <2>1, <2>2, <2>3, <2>4 DEF Decides, Conclude
<1>7. CASE StepRaises
    <2>1. step' \in {"build", "raised"} /\ result = None
        BY <1>7 DEF StepRaises, MayRaise
    <2> QED BY <1>7, <2>1 DEF StepRaises
<1>8. CASE Build
    <2> DEFINE r == [status |-> ResearchStatus, questions |-> OpenQuestions,
                     iterations |-> executed, error |-> ErrorInfo]
    <2>1. r \in StageResult
        BY ReportTypes DEF StageResult
    <2>2. result' = r /\ step' = "returned"
        BY <1>8 DEF Build
    <2> HIDE DEF r
    <2>3. result' \in StageResult /\ result' # None
        BY <2>1, <2>2, NoneAssumption
    <2> QED BY <1>8, <2>2, <2>3 DEF Build
<1>9. CASE UNCHANGED vars
    BY <1>9 DEF vars
<1> QED BY <1>1, <1>2, <1>3, <1>4, <1>5, <1>6, <1>7, <1>8, <1>9, EvaluationDecides DEF Next

\* Every reachable state is well typed, for all values of the constants.
THEOREM TypeCorrect == Spec => []TypeOK
BY InitType, NextType, PTL DEF Spec

-----------------------------------------------------------------------------
(* The invariant holds at the start and is kept by every step. *)

LEMMA InitInv == Init => StageInv
<1> SUFFICES ASSUME Init PROVE StageInv
    OBVIOUS
<1>1. TypeOK
    BY InitType
<1>2. step = "assess" /\ executed = 0 /\ index = 1 /\ outcome = "continue" /\ source = "none"
      /\ ep = "none" /\ evidence = {} /\ telLog = <<>> /\ epLog = <<>>
      /\ coverage = [t \in Target |-> {}]
    BY DEF Init
<1>3. BudgetIsRespected /\ Counters
    BY <1>1, <1>2, Budget DEF BudgetIsRespected, Counters, Running
<1>4. EndsOnADecision /\ Ending /\ EvidenceIsLinked /\ Links /\ Reported
    BY <1>2 DEF EndsOnADecision, Ending, EvidenceIsLinked, Links, Reported, Running
<1> QED BY <1>1, <1>3, <1>4 DEF StageInv

LEMMA CountersStep ==
    ASSUME StageInv, TypeOK', Next
    PROVE  (BudgetIsRespected /\ Counters)'
<1> USE DEF StageInv, TypeOK, control, material, BudgetIsRespected, Counters, Running
<1>1. ASSUME UNCHANGED <<input, executed, index, source, telLog, epLog>>,
             step \in Running, step' \in Running,
             step' \notin {"assess", "acquire", "process"}
      PROVE  (BudgetIsRespected /\ Counters)'
    BY <1>1 DEF MaxIterations
<1>2. ASSUME NEW n \in Need, Assess(n) PROVE (BudgetIsRespected /\ Counters)'
    BY <1>2 DEF Assess, MaxIterations
<1>3. ASSUME NEW s \in {"acquired", "no_result", "failed"}, Acquire(s)
      PROVE  (BudgetIsRespected /\ Counters)'
    <2>1. Len(telLog') = Len(telLog) + 1
        BY <1>3, LogGrows DEF Acquire
    <2>2. step = "acquire" /\ step' = "process"
          /\ UNCHANGED <<input, executed, index, source, outcome, epLog>>
        BY <1>3 DEF Acquire
    <2> QED BY <2>1, <2>2 DEF MaxIterations
<1>4. ASSUME NEW s \in {"success", "partial_success", "no_result", "failed"}, Process(s)
      PROVE  (BudgetIsRespected /\ Counters)'
    <2>1. Len(epLog') = Len(epLog) + 1
        BY <1>4, LogGrows DEF Process
    <2>2. step = "process" /\ step' = "coverage"
          /\ UNCHANGED <<input, executed, index, source, outcome, telLog>>
        BY <1>4 DEF Process
    <2> QED BY <2>1, <2>2 DEF MaxIterations
<1>5. CASE RecordCoverage
    BY <1>1, <1>5 DEF RecordCoverage
<1>6. ASSUME NEW f \in BOOLEAN, NEW d \in BOOLEAN, Refine(f, d)
      PROVE  (BudgetIsRespected /\ Counters)'
    BY <1>1, <1>6 DEF Refine
<1>7. ASSUME NEW decided, NEW by, Decides(decided, by)
      PROVE  (BudgetIsRespected /\ Counters)'
    <2>1. step = "evaluate" /\ executed = index - 1 /\ executed' = executed + 1
          /\ source' # "failure" /\ UNCHANGED <<input, telLog, epLog>>
        BY <1>7 DEF Decides, Conclude
    <2>2. \/ step' = "assess" /\ index' = executed + 2 /\ executed + 1 < MaxIterations
          \/ step' = "build" /\ index' = index
        BY <1>7 DEF Decides, Conclude
    <2>3. MaxIterations' = MaxIterations /\ MaxIterations \in Nat
        BY <2>1, Budget DEF MaxIterations
    <2> HIDE DEF BudgetIsRespected, Counters
    <2>4. index <= MaxIterations /\ executed <= MaxIterations /\ Len(telLog) <= index
          /\ Len(epLog) <= Len(telLog)
        BY DEF BudgetIsRespected
    <2>5. Len(telLog) \in Nat /\ Len(epLog) \in Nat
        OBVIOUS
    <2>6. executed \in Nat /\ index \in Nat
        OBVIOUS
    <2>7. CASE step' = "assess"
        <3>1. index' = index + 1 /\ executed' = index' - 1 /\ index' <= MaxIterations
            BY <2>1, <2>2, <2>6, <2>7, <2>3
        <3>2. BudgetIsRespected'
            BY <2>1, <2>3, <2>4, <2>5, <2>6, <3>1 DEF BudgetIsRespected
        <3> QED BY <2>1, <2>4, <2>5, <2>6, <2>7, <3>1, <3>2 DEF Counters
    <2>8. CASE step' = "build"
        <3>1. index' = index /\ executed' = index
            BY <2>1, <2>2, <2>6, <2>8
        <3>2. BudgetIsRespected'
            BY <2>1, <2>3, <2>4, <2>5, <2>6, <3>1 DEF BudgetIsRespected
        <3> QED BY <2>1, <2>4, <2>5, <2>6, <2>8, <3>1, <3>2 DEF Counters
    <2> QED BY <2>2, <2>7, <2>8
<1>8. CASE StepRaises
    <2>1. /\ step \in Running
          /\ \/ step' = "build" /\ source' = "failure"
             \/ step' = "raised" /\ source' = source
          /\ UNCHANGED <<input, executed, index, telLog, epLog>>
        BY <1>8 DEF StepRaises, MayRaise
    <2> QED BY <2>1 DEF MaxIterations
<1>9. CASE Build
    BY <1>9 DEF Build, MaxIterations
<1> QED BY <1>2, <1>3, <1>4, <1>5, <1>6, <1>7, <1>8, <1>9, EvaluationDecides DEF Next

LEMMA EndingStep ==
    ASSUME StageInv, TypeOK', Next
    PROVE  (EndsOnADecision /\ Ending)'
<1> USE DEF StageInv, control, material, EndsOnADecision, Ending, Running
<1>1. ASSUME UNCHANGED <<outcome, source>>, step \in Running, step' \in Running
      PROVE  (EndsOnADecision /\ Ending)'
    BY <1>1
<1>2. ASSUME NEW n \in Need, Assess(n) PROVE (EndsOnADecision /\ Ending)'
    BY <1>1, <1>2 DEF Assess
<1>3. ASSUME NEW s, Acquire(s) PROVE (EndsOnADecision /\ Ending)'
    BY <1>1, <1>3 DEF Acquire
<1>4. ASSUME NEW s, Process(s) PROVE (EndsOnADecision /\ Ending)'
    BY <1>1, <1>4 DEF Process
<1>5. CASE RecordCoverage
    BY <1>1, <1>5 DEF RecordCoverage
<1>6. ASSUME NEW f, NEW d, Refine(f, d) PROVE (EndsOnADecision /\ Ending)'
    BY <1>1, <1>6 DEF Refine
<1>7. ASSUME NEW decided, NEW by, Decides(decided, by) PROVE (EndsOnADecision /\ Ending)'
    <2>1. outcome' = decided /\ source' # "failure"
        BY <1>7 DEF Decides, Conclude
    <2>2. CASE decided = "continue"
        \* executed + 1 is index: the budget lets the loop run again.
        <3>1. executed + 1 < MaxIterations
            BY <1>7, <2>2 DEF Decides, Counters, TypeOK
        <3>2. step' = "assess"
            BY <1>7, <2>2, <3>1 DEF Decides, Conclude
        <3> QED BY <2>1, <2>2, <3>2
    <2>3. CASE decided # "continue"
        <3>1. step' = "build"
            BY <1>7, <2>3 DEF Decides, Conclude
        <3> QED BY <1>7, <2>1, <2>3, <3>1 DEF Decides
    <2> QED BY <2>2, <2>3
<1>8. CASE StepRaises
    <2>1. HasUsableOutput' = HasUsableOutput /\ step \in Running
        BY <1>8 DEF StepRaises, MayRaise, HasUsableOutput
    <2>2. CASE HasUsableOutput
        BY <1>8, <2>1, <2>2 DEF StepRaises
    <2>3. CASE ~HasUsableOutput
        BY <1>8, <2>1, <2>3 DEF StepRaises
    <2> QED BY <2>2, <2>3
<1>9. CASE Build
    BY <1>9 DEF Build, HasUsableOutput
<1> QED BY <1>2, <1>3, <1>4, <1>5, <1>6, <1>7, <1>8, <1>9, EvaluationDecides DEF Next

LEMMA LinksStep ==
    ASSUME StageInv, TypeOK', Next
    PROVE  (EvidenceIsLinked /\ Links)'
<1> USE DEF StageInv, TypeOK, control, material, EvidenceIsLinked, Links
<1>1. ASSUME NEW n \in Need, Assess(n) PROVE (EvidenceIsLinked /\ Links)'
    <2>1. coverage' = [t \in Target |-> coverage[t] \cap evidence]
          /\ step = "assess" /\ step' \in {"coverage", "acquire"}
          /\ UNCHANGED <<evidence, index, ep>>
        BY <1>1 DEF Assess, AssessedCoverage
    <2>2. \A t \in Target : coverage'[t] = coverage[t] \cap evidence
        BY <2>1
    <2>3. EvidenceIsLinked'
        BY <2>1, <2>2
    <2>4. ~NewEvidence'
        BY <2>1 DEF NewEvidence
    <2>5. Links'
        BY <2>1, <2>2, <2>4
    <2> QED BY <2>3, <2>5
<1>2. ASSUME NEW s, Acquire(s) PROVE (EvidenceIsLinked /\ Links)'
    BY <1>2 DEF Acquire, NewEvidence
<1>3. ASSUME NEW s, Process(s) PROVE (EvidenceIsLinked /\ Links)'
    <2>1. step = "process" /\ step' = "coverage" /\ ep' = s /\ UNCHANGED <<coverage, index>>
        BY <1>3 DEF Process
    <2>2. \/ evidence' = evidence \cup {index} /\ NewEvidence'
          \/ evidence' = evidence /\ ~NewEvidence'
        BY <1>3 DEF Process, NewEvidence
    <2> QED BY <2>1, <2>2
<1>4. CASE RecordCoverage
    <2>1. step = "coverage" /\ step' = "refine" /\ UNCHANGED <<evidence, index, ep>>
          /\ need.target \in Target
        BY <1>4 DEF RecordCoverage, Need
    <2>2. CASE NewEvidence
        <3>1. coverage' = [coverage EXCEPT ![need.target] = @ \cup {index}]
            BY <1>4, <2>2 DEF RecordCoverage
        <3>2. ASSUME NEW t \in Target
              PROVE  coverage'[t] = IF t = need.target THEN coverage[t] \cup {index}
                                                       ELSE coverage[t]
            BY <2>1, <3>1
        <3>3. EvidenceIsLinked'
            <4> SUFFICES ASSUME NEW e \in evidence
                         PROVE  \E t \in Target :
                                  /\ e \in coverage'[t]
                                  /\ \A u \in Target \ {t} : e \notin coverage'[u]
                BY <2>1
            <4>1. CASE e = index
                BY <2>1, <3>2, <4>1
            <4>2. CASE e # index
                <5>1. PICK t \in Target :
                        e \in coverage[t] /\ \A u \in Target \ {t} : e \notin coverage[u]
                    BY <4>2
                <5> QED BY <3>2, <4>2, <5>1
            <4> QED BY <4>1, <4>2
        <3>4. ASSUME NEW t \in Target, NEW e \in coverage'[t] PROVE e <= index
            <4>1. e \in coverage[t] \/ e = index
                BY <3>2
            <4> QED BY <4>1
        <3>5. Links'
            BY <2>1, <3>4
        <3> QED BY <3>3, <3>5
    <2>3. CASE ~NewEvidence
        <3>1. coverage' = coverage
            BY <1>4, <2>3 DEF RecordCoverage
        <3> QED BY <2>1, <2>3, <3>1
    <2> QED BY <2>2, <2>3
<1>5. ASSUME NEW f, NEW d, Refine(f, d) PROVE (EvidenceIsLinked /\ Links)'
    BY <1>5 DEF Refine
<1>6. ASSUME NEW decided, NEW by, Decides(decided, by) PROVE (EvidenceIsLinked /\ Links)'
    <2>1. step = "evaluate" /\ UNCHANGED <<evidence, coverage>>
        BY <1>6 DEF Decides, Conclude
    <2>2. \A e \in evidence : \E t \in Target :
            e \in coverage[t] /\ \A u \in Target \ {t} : e \notin coverage[u]
        BY <2>1
    <2>3. EvidenceIsLinked'
        BY <2>1, <2>2
    <2>4. \/ step' = "build" /\ index' = index
          \/ step' = "assess" /\ index' = index + 1 /\ ep' = "none"
        <3>1. executed = index - 1
            BY <2>1 DEF Counters, Running
        <3> QED BY <1>6, <3>1 DEF Decides, Conclude
    <2>5. Links'
        BY <2>1, <2>4
    <2> QED BY <2>3, <2>5
<1>7. CASE StepRaises
    <2>1. UNCHANGED <<evidence, coverage, index>>
          /\ step \in {"assess", "acquire", "process", "refine", "evaluate"}
          /\ step' \in {"build", "raised"}
        BY <1>7 DEF StepRaises, MayRaise
    <2> QED BY <2>1
<1>8. CASE Build
    BY <1>8 DEF Build
<1> QED BY <1>1, <1>2, <1>3, <1>4, <1>5, <1>6, <1>7, <1>8, EvaluationDecides DEF Next

\* The report depends on the variables it is read from only.
LEMMA ReportKept ==
    ASSUME UNCHANGED <<input, outcome, executed, telLog, epLog, evidence, findings, caveats>>
    PROVE  UNCHANGED <<ResearchStatus, OpenQuestions, ErrorInfo>>
<1>1. /\ InLog(telLog, {"no_result", "failed"})' = InLog(telLog, {"no_result", "failed"})
      /\ InLog(epLog, {"no_result", "failed"})' = InLog(epLog, {"no_result", "failed"})
      /\ InLog(telLog, {"failed"})' = InLog(telLog, {"failed"})
      /\ InLog(epLog, {"failed"})' = InLog(epLog, {"failed"})
    BY DEF InLog
<1>2. OpenQuestions' = OpenQuestions
    BY <1>1 DEF OpenQuestions, MaxIterations
<1>3. HasUsableOutput' = HasUsableOutput /\ HardFailure' = HardFailure
    BY <1>1 DEF HasUsableOutput, HardFailure
<1>4. ResearchStatus' = ResearchStatus
    BY <1>2, <1>3 DEF ResearchStatus
<1>5. ErrorInfo' = ErrorInfo
    BY <1>1, <1>4 DEF ErrorInfo
<1> QED BY <1>2, <1>4, <1>5

\* The result is built from a state that no later step changes.
LEMMA ReportedStep ==
    ASSUME TypeOK, Next
    PROVE  Reported'
<1>1. step # "returned"
    BY EvaluationDecides
    DEF Next, Assess, Acquire, Process, RecordCoverage, Refine, Decides, StepRaises, MayRaise, Build
<1>2. CASE Build
    BY <1>2, ReportKept DEF Build, control, material, Reported
<1>3. CASE ~Build
    <2>1. step' # "returned"
        BY <1>1, <1>3, EvaluationDecides
        DEF Next, Assess, Acquire, Process, RecordCoverage, Refine, Decides, Conclude,
            StepRaises, MayRaise
    <2> QED BY <2>1 DEF Reported
<1> QED BY <1>2, <1>3

LEMMA InvStep == StageInv /\ [Next]_vars => StageInv'
<1> SUFFICES ASSUME StageInv, [Next]_vars PROVE StageInv'
    OBVIOUS
<1>1. TypeOK'
    BY NextType DEF StageInv
<1>2. CASE Next
    BY <1>1, <1>2, CountersStep, EndingStep, LinksStep, ReportedStep DEF StageInv
<1>3. CASE UNCHANGED vars
    <2> USE <1>1, <1>3 DEF vars, control, material, StageInv
    <2>1. (BudgetIsRespected /\ Counters)'
        BY DEF BudgetIsRespected, Counters, MaxIterations
    <2>2. (EndsOnADecision /\ Ending)'
        BY DEF EndsOnADecision, Ending, HasUsableOutput
    <2>3. (EvidenceIsLinked /\ Links)'
        BY DEF EvidenceIsLinked, Links, NewEvidence
    <2>4. Reported'
        BY ReportKept DEF Reported
    <2> QED BY <2>1, <2>2, <2>3, <2>4
<1> QED BY <1>2, <1>3

LEMMA StageCorrect == Spec => []StageInv
BY InitInv, InvStep, PTL DEF Spec

-----------------------------------------------------------------------------
(* The theorems. *)

\* The stage never runs more iterations, nor pays for more tool requests, than its
\* budget, and its loop is left by a stop or a degrade decision, for any budget,
\* whatever the model proposes and whichever steps raise.
THEOREM LoopCorrect == Spec => []LoopEndsInBudget
<1>1. StageInv => LoopEndsInBudget
    BY DEF StageInv, LoopEndsInBudget
<1> QED BY <1>1, StageCorrect, PTL

\* Evidence is linked to exactly one target, whatever later assessments replace.
THEOREM LinksCorrect == Spec => []EvidenceIsLinked
<1>1. StageInv => EvidenceIsLinked
    BY DEF StageInv
<1> QED BY <1>1, StageCorrect, PTL

\* What the fields of a returned result say.
LEMMA ResultFields ==
    ASSUME StageInv, step = "returned"
    PROVE  /\ result.status = ResearchStatus /\ result.questions = OpenQuestions
           /\ result.iterations = executed /\ result.error = ErrorInfo
           /\ outcome \in {"stop", "degrade"}
BY DEF StageInv, Reported, EndsOnADecision

LEMMA InterruptionReported == StageInv => InterruptionIsReported
<1> SUFFICES ASSUME StageInv, step = "returned", source = "failure"
             PROVE  /\ result.status = "partial_success"
                    /\ "degraded" \in result.questions
                    /\ result.iterations < index
    BY DEF InterruptionIsReported
<1>1. outcome = "degrade" /\ HasUsableOutput
    BY DEF StageInv, Ending
<1>2. ResearchStatus = "partial_success" /\ "degraded" \in OpenQuestions
    BY <1>1 DEF ResearchStatus, OpenQuestions
<1>3. executed = index - 1 /\ index \in Nat
    BY DEF StageInv, Counters, TypeOK
<1> QED BY <1>2, <1>3, ResultFields

LEMMA CompletedReported == StageInv => CompletedIsClean
<1> SUFFICES ASSUME StageInv, step = "returned", result.status = "completed"
             PROVE  /\ outcome = "stop"
                    /\ HasUsableOutput
                    /\ \A i \in 1..Len(telLog) : telLog[i] = "acquired"
                    /\ \A i \in 1..Len(epLog) : epLog[i] \in {"success", "partial_success"}
    BY DEF CompletedIsClean
<1>1. ResearchStatus = "completed" /\ outcome \in {"stop", "degrade"}
    BY ResultFields
<1>2. outcome = "stop" /\ HasUsableOutput /\ OpenQuestions = {}
    BY <1>1 DEF ResearchStatus
<1>3. ~InLog(telLog, {"no_result", "failed"}) /\ ~InLog(epLog, {"no_result", "failed"})
    BY <1>2 DEF OpenQuestions
<1>4. ASSUME NEW i \in 1..Len(telLog) PROVE telLog[i] = "acquired"
    <2>1. telLog[i] \in {"acquired", "no_result", "failed"}
        BY DEF StageInv, TypeOK
    <2> QED BY <1>3, <2>1 DEF InLog
<1>5. ASSUME NEW i \in 1..Len(epLog) PROVE epLog[i] \in {"success", "partial_success"}
    <2>1. epLog[i] \in {"success", "partial_success", "no_result", "failed"}
        BY DEF StageInv, TypeOK
    <2> QED BY <1>3, <2>1 DEF InLog
<1> QED BY <1>2, <1>4, <1>5

LEMMA StatusReported == StageInv => StatusMatchesOutput
<1> SUFFICES ASSUME StageInv PROVE StatusMatchesOutput
    OBVIOUS
<1>1. step = "raised" => ~HasUsableOutput
    BY DEF StageInv, Ending
<1>2. HasUsableOutput => ResearchStatus \in {"completed", "partial_success"}
        \/ outcome \notin {"stop", "degrade"}
    BY DEF ResearchStatus
<1>3. ResearchStatus = "failed" => ErrorInfo # "none"
    <2>1. ResearchStatus = "failed" => outcome = "degrade" \/ HardFailure
        BY DEF ResearchStatus
    <2> QED BY <2>1 DEF ErrorInfo, HardFailure
<1> QED BY <1>1, <1>2, <1>3, ResultFields DEF StatusMatchesOutput

\* However a stage ends, its result is true of what happened: completed means that
\* nothing failed, output is never hidden, failures say what failed, and an
\* interruption is named.
THEOREM ReportCorrect == Spec => []ReportIsTruthful
<1>1. StageInv => ReportIsTruthful
    BY InterruptionReported, CompletedReported, StatusReported DEF ReportIsTruthful
<1> QED BY <1>1, StageCorrect, PTL
=============================================================================
