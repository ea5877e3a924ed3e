------------------------------ MODULE Pipeline ------------------------------
(***************************************************************************)
(* ResearchActionPipeline.run: the fixed stages of a request, from intake  *)
(* to the response, over the memory that outlives it.  Requests of a user  *)
(* interleave at every await; a stage that raises ends its request with an *)
(* error, and a crash or a cancelled task ends it without one.             *)
(*                                                                         *)
(* The research stage is the Research Executor's (module ResearchExecutor) *)
(* and only its result appears here: a status, the sources of the adopted  *)
(* evidence and the questions left open.  Of long-term memory the research *)
(* knowledge is written; the other memory types have modules of their own. *)
(* Routing and planning write fields of the request only and never raise:  *)
(* they are left out.                                                      *)
(***************************************************************************)
EXTENDS KnowledgeMemory, SessionContinuity

CONSTANTS
    Query,          \* the requests callers may make
    Unreliable,     \* the fixed summary of a run whose research failed
    RunFailure,     \* the fixed open question of a research stage that raised
    MaxRaised       \* bound on the new questions one research stage raises

TaskType == {"topic_exploration", "comparison", "recommendation",
             "action_planning", "tracking"}

\* Task types whose context load recalls research knowledge.
RecallTask == {"topic_exploration", "comparison", "recommendation"}

Turn == [request: Request, summary: Summary, repeats: BOOLEAN]
QueryShape == [scope: Scope, session: Session]
ResearchStatus == {"completed", "partial_success", "no_result", "failed"}

Answer == [summary: Summary, citations: SUBSET Request,
           recommendation: Summary \cup {NoMemory}]

ASSUME QueryAssumption == Query \subseteq QueryShape /\ None \notin Query
ASSUME FixedTextAssumption == Unreliable \in Summary /\ RunFailure \in Question
ASSUME RaisedAssumption == MaxRaised \in Nat

VARIABLES
    stage,          \* of each request: the next stage, or how it ended
    query,          \* of each request: what was asked, None before intake
    task,           \* of each request: its task type
    support,        \* of each request: the knowledge rows loaded as support
    open,           \* of each request: open questions
    readSession,    \* of each request: whether the context load read its session
    research,       \* of each request: the status of its research stage
    evidence,       \* of each request: the sources of the adopted evidence
    answer,         \* of each request: the conclusion, or None
    loaded,         \* of each request: the session memory its update loaded
    history         \* the requests recorded in the conversation history

runVars == <<stage, query, task, support, open, readSession, research,
             evidence, answer, loaded, history>>
vars == <<knowledgeVars, sessionVars, runVars>>

Stage == {"intake", "interpretation", "session_load", "knowledge_load",
          "research", "conclusion", "distillation", "lookup", "resolution", "store",
          "assembly", "continuity_load", "continuity_save", "recording"}
Ended == {"answered", "raised", "crashed"}

\* r is at a stage and moves to the next.
Moves(r, from, to) == stage[r] = from /\ stage' = [stage EXCEPT ![r] = to]

\* The execution context of r is dropped with its request.  What was asked, what
\* research found and how it ended are kept as history.
DropContext(r) ==
    /\ task' = [task EXCEPT ![r] = "topic_exploration"]
    /\ support' = [support EXCEPT ![r] = {}]
    /\ open' = [open EXCEPT ![r] = <<>>]
    /\ readSession' = [readSession EXCEPT ![r] = FALSE]
    /\ answer' = [answer EXCEPT ![r] = None]
    /\ loaded' = [loaded EXCEPT ![r] = NoMemory]

-----------------------------------------------------------------------------
(* Intake, interpretation and context load.                                 *)

Init ==
    /\ KnowledgeInit
    /\ SessionInit
    /\ stage = [r \in Request |-> "intake"]
    /\ query = [r \in Request |-> None]
    /\ task = [r \in Request |-> "topic_exploration"]
    /\ support = [r \in Request |-> {}]
    /\ open = [r \in Request |-> <<>>]
    /\ readSession = [r \in Request |-> FALSE]
    /\ research = [r \in Request |-> "no_result"]
    /\ evidence = [r \in Request |-> {}]
    /\ answer = [r \in Request |-> None]
    /\ loaded = [r \in Request |-> NoMemory]
    /\ history = {}

Intake(r, q) ==
    /\ Moves(r, "intake", "interpretation")
    /\ query' = [query EXCEPT ![r] = q]
    /\ UNCHANGED <<knowledgeVars, sessionVars, task, support, open, readSession,
                   research, evidence, answer, loaded, history>>

\* The model's task type, or the one the query's keywords give.
Interpret(r) ==
    /\ Moves(r, "interpretation", "session_load")
    /\ \E t \in TaskType : task' = [task EXCEPT ![r] = t]
    /\ UNCHANGED <<knowledgeVars, sessionVars, query, support, open, readSession,
                   research, evidence, answer, loaded, history>>

\* The run takes over the session's open questions.  A failed read is logged
\* and the load goes on without the session.
LoadSession(r) ==
    /\ Moves(r, "session_load", "knowledge_load")
    /\ \/ /\ readSession' = [readSession EXCEPT ![r] = TRUE]
          /\ open' = [open EXCEPT ![r] = Existing(sessions[query[r].session]).questions]
       \/ UNCHANGED <<readSession, open>>
    /\ UNCHANGED <<knowledgeVars, sessionVars, query, task, support,
                   research, evidence, answer, loaded, history>>

\* Knowledge near the query is recalled for some task types; a failed embedding
\* or recall leaves the support empty.
LoadKnowledge(r) ==
    /\ Moves(r, "knowledge_load", "research")
    /\ \/ /\ task[r] \in RecallTask
          /\ \E text \in Text : \E found \in Recall(query[r].scope, text) :
              support' = [support EXCEPT ![r] = found]
       \/ UNCHANGED support
    /\ UNCHANGED <<knowledgeVars, sessionVars, query, task, open, readSession,
                   research, evidence, answer, loaded, history>>

-----------------------------------------------------------------------------
(* Research and conclusion.                                                 *)

\* What the run's retrieval may find: sources of its own and, through the
\* recall family, those of the knowledge it may see.
Retrievable(r) ==
    {r} \cup UNION {knowledge[k].sources : k \in Visible(query[r].scope)}

\* A stage reports a list of questions without repetition.  Those that are open
\* already are skipped, so these lists are what may be left of it.
NewQuestions(r) ==
    {list \in UpTo(Question \ {RunFailure}, MaxRaised) :
        /\ \A i \in DOMAIN list : ~Contains(open[r], list[i])
        /\ \A i, j \in DOMAIN list : list[i] = list[j] => i = j}

\* Of a list that is not empty nothing is left only if a question was open.
SomeQuestions(r) ==
    {list \in NewQuestions(r) :
        list # <<>> \/ \E i \in DOMAIN open[r] : open[r][i] # RunFailure}

\* Whatever the status, what is new is appended to the open questions.
ResearchEnds(r, status, sources, raised) ==
    /\ Moves(r, "research", "conclusion")
    /\ research' = [research EXCEPT ![r] = status]
    /\ evidence' = [evidence EXCEPT ![r] = sources]
    /\ open' = [open EXCEPT ![r] = @ \o raised]
    /\ UNCHANGED <<knowledgeVars, sessionVars, query, task, support, readSession,
                   answer, loaded, history>>

\* The stage reports material: it is completed when it leaves no question and a
\* partial success otherwise.
Research(r) ==
    /\ stage[r] = "research"
    /\ \E sources \in SUBSET Retrievable(r) :
        \/ ResearchEnds(r, "completed", sources, <<>>)
        \/ \E raised \in SomeQuestions(r) :
            ResearchEnds(r, "partial_success", sources, raised)

\* It found nothing, or failed: there is no source to cite.  A failure always
\* leaves a question: of a tool, of the processing or of the degraded iteration.
ResearchWithoutOutput(r) ==
    /\ stage[r] = "research"
    /\ \/ \E raised \in NewQuestions(r) : ResearchEnds(r, "no_result", {}, raised)
       \/ \E raised \in SomeQuestions(r) : ResearchEnds(r, "failed", {}, raised)

\* The executor raises: the pipeline goes on with a failed result and one fixed
\* question.
ResearchRaises(r) ==
    ResearchEnds(r, "failed", {}, IF Contains(open[r], RunFailure) THEN <<>> ELSE <<RunFailure>>)

Concludes(r, conclusion) ==
    /\ Moves(r, "conclusion", "distillation")
    /\ answer' = [answer EXCEPT ![r] = conclusion]
    /\ UNCHANGED <<knowledgeVars, sessionVars, query, task, support, open,
                   readSession, research, evidence, loaded, history>>

ConcludeFailure(r) ==
    /\ research[r] = "failed"
    /\ Concludes(r, [summary |-> Unreliable, citations |-> {},
                     recommendation |-> NoMemory])

\* Citations the model made up are dropped.
FilteredCitations(cited, r) == cited \cap evidence[r]

ConcludeByModel(r) ==
    /\ research[r] # "failed"
    /\ \E text \in Summary \ {Unreliable}, cited \in SUBSET Request,
          recommendation \in Summary \cup {NoMemory} :
        Concludes(r, [summary |-> text, citations |-> FilteredCitations(cited, r),
                      recommendation |-> recommendation])

Raises(r, from) ==
    /\ Moves(r, from, "raised")
    /\ DropContext(r)
    /\ UNCHANGED <<knowledgeVars, sessionVars, query, research, evidence, history>>

\* The model call or its validation fails: so does the request.
ConclusionRaises(r) == research[r] # "failed" /\ Raises(r, "conclusion")

-----------------------------------------------------------------------------
(* Memory write-back: whatever fails, the request goes on.                  *)

unchangedByWriteBack ==
    <<sessionVars, query, task, support, open, readSession, research,
      evidence, answer, loaded, history>>

\* The model proposes a list of what is worth keeping, which is persisted one by
\* one; this is its next candidate.  The sources it lists are looked up among
\* those of the run.
Distill(r) ==
    /\ Moves(r, "distillation", "lookup")
    /\ \E content \in Content, listed \in SUBSET evidence[r] :
        candidate' = [candidate EXCEPT ![r] = [content |-> content, sources |-> listed]]
    /\ UNCHANGED <<knowledge, clock, recalled, shaped, unchangedByWriteBack>>

\* The list is at its end, or the distillation raised.
DistillNothing(r) ==
    /\ Moves(r, "distillation", "assembly")
    /\ UNCHANGED <<knowledgeVars, unchangedByWriteBack>>

Lookup(r) ==
    /\ Moves(r, "lookup", "resolution")
    /\ LookupKnowledge(r, query[r].scope)
    /\ UNCHANGED unchangedByWriteBack

ResolveToCreate(r) ==
    /\ Moves(r, "resolution", "store")
    /\ ResolveKnowledgeToCreate(r, query[r].scope)
    /\ UNCHANGED unchangedByWriteBack

ResolveToNoWrite(r) ==
    /\ Moves(r, "resolution", "distillation")
    /\ ResolveKnowledgeToNoWrite(r)
    /\ UNCHANGED unchangedByWriteBack

Store(r) ==
    /\ Moves(r, "store", "distillation")
    /\ StoreKnowledge(r)
    /\ UNCHANGED unchangedByWriteBack

\* A candidate that fails is reported; the next is taken.
WriteBackFails(r) ==
    /\ stage[r] \in {"lookup", "resolution", "store"}
    /\ stage' = [stage EXCEPT ![r] = "distillation"]
    /\ KnowledgeNotWritten(r)
    /\ UNCHANGED unchangedByWriteBack

-----------------------------------------------------------------------------
(* Output: the response, the session's continuity and the history.          *)

\* The response is assembled first.
Assemble(r) ==
    /\ Moves(r, "assembly", "continuity_load")
    /\ UNCHANGED <<knowledgeVars, sessionVars, query, task, support, open, readSession,
                   research, evidence, answer, loaded, history>>

\* Deviation: the response is assembled last.
RaisesLast(r) == Raises(r, "recording")

\* A response that cannot be assembled fails the request, before its turn has
\* reached the session or the history.
AssemblyRaises(r) == Raises(r, "assembly")

\* A failed load skips the update.
LoadContinuity(r) ==
    /\ \/ /\ Moves(r, "continuity_load", "continuity_save")
          /\ loaded' = [loaded EXCEPT ![r] = sessions[query[r].session]]
       \/ /\ Moves(r, "continuity_load", "recording")
          /\ UNCHANGED loaded
    /\ UNCHANGED <<knowledgeVars, sessionVars, query, task, support, open, readSession,
                   research, evidence, answer, history>>

\* What the run contributes to its session.
TurnOf(r) ==
    [summary |-> answer[r].summary, questions |-> open[r],
     recommendation |-> answer[r].recommendation]

SaveContinuity(r) ==
    /\ Moves(r, "continuity_save", "recording")
    /\ \/ SaveSession(query[r].session, r, loaded[r], TurnOf(r))
       \/ UNCHANGED sessionVars
    /\ loaded' = [loaded EXCEPT ![r] = NoMemory]
    /\ UNCHANGED <<knowledgeVars, query, task, support, open, readSession,
                   research, evidence, answer, history>>

\* The history write may fail without failing the request.
RecordTurn(r) ==
    /\ Moves(r, "recording", "answered")
    /\ history' \in {history, history \cup {r}}
    /\ DropContext(r)
    /\ UNCHANGED <<knowledgeVars, sessionVars, query, research, evidence>>

-----------------------------------------------------------------------------
(* The process or the task of a request dies.                               *)

Crash(r) ==
    /\ stage[r] \notin Ended
    /\ stage' = [stage EXCEPT ![r] = "crashed"]
    /\ ForgetCandidate(r)
    /\ DropContext(r)
    /\ UNCHANGED <<knowledge, clock, sessionVars, query, research, evidence, history>>

Step(r) ==
    \/ \E q \in Query : Intake(r, q)
    \/ Raises(r, "intake")
    \/ Interpret(r)
    \/ LoadSession(r)
    \/ LoadKnowledge(r)
    \/ Research(r)
    \/ ResearchWithoutOutput(r)
    \/ ResearchRaises(r)
    \/ ConcludeFailure(r)
    \/ ConcludeByModel(r)
    \/ ConclusionRaises(r)
    \/ Distill(r)
    \/ DistillNothing(r)
    \/ Lookup(r)
    \/ ResolveToCreate(r)
    \/ ResolveToNoWrite(r)
    \/ Store(r)
    \/ WriteBackFails(r)
    \/ Assemble(r)
    \/ AssemblyRaises(r)
    \/ LoadContinuity(r)
    \/ SaveContinuity(r)
    \/ RecordTurn(r)
    \/ Crash(r)

Expire(s) == ExpireSession(s) /\ UNCHANGED <<knowledgeVars, runVars>>

Next == (\E r \in Request : Step(r)) \/ (\E s \in Session : Expire(s))

Spec == Init /\ [][Next]_vars

-----------------------------------------------------------------------------
(* Properties.                                                              *)

\* Every variable has its type.
TypeOK ==
    /\ KnowledgeTypeOK
    /\ SessionTypeOK
    /\ stage \in [Request -> Stage \cup Ended]
    /\ query \in [Request -> Query \cup {None}]
    /\ task \in [Request -> TaskType]
    /\ support \in [Request -> SUBSET KnowledgeId]
    /\ open \in [Request -> Seq(Question)]
    /\ readSession \in [Request -> BOOLEAN]
    /\ research \in [Request -> ResearchStatus]
    /\ evidence \in [Request -> SUBSET Request]
    /\ answer \in [Request -> Answer \cup {None}]
    /\ loaded \in [Request -> SessionMemory \cup {NoMemory}]
    /\ history \subseteq Request
    /\ turnLog \in [Session -> Seq(Turn)]

\* Source s was found by a run whose knowledge the given user and project see.
FoundFor(s, user, project) ==
    /\ query[s] # None
    /\ query[s].scope.user = user
    /\ query[s].scope.project \in {None, project}

\* Nothing a request is given or answers with stems from another user's run or
\* another project's, however many times knowledge was recalled, adopted as
\* evidence and stored again on the way.
KnowledgeStaysInScope ==
    /\ \A k \in Rows : \A s \in knowledge[k].sources :
        FoundFor(s, knowledge[k].owner, knowledge[k].project)
    /\ \A r \in Request : query[r] # None =>
        LET seen == evidence[r] \cup (UNION {knowledge[k].sources : k \in support[r]})
                      \cup (IF answer[r] = None THEN {} ELSE answer[r].citations)
        IN \A s \in seen : FoundFor(s, query[r].scope.user, query[r].scope.project)

\* Every source a stored unit names was found by the retrieval of a run whose
\* research did not fail: knowledge passed on from run to run keeps its ground.
StoredKnowledgeIsGrounded ==
    \A k \in Rows :
        /\ knowledge[k].sources # {}
        /\ \A s \in knowledge[k].sources :
            s \in evidence[s] /\ research[s] \in {"completed", "partial_success"}

\* A request that ended in an error left no turn in its session and none in the
\* history (_output assembles the response first).
RaisedRequestsLeaveNoTurn ==
    \A r \in Request : stage[r] = "raised" =>
        /\ r \notin history
        /\ \A s \in Session : \A i \in DOMAIN turnLog[s] : turnLog[s][i].request # r

IsPrefixOf(short, long) ==
    Len(short) <= Len(long) /\ \A i \in DOMAIN short : long[i] = short[i]

\* A turn that read its session passes the session's open questions on, in their
\* places; what is new comes after them and is cut first.  It holds of runs that
\* do not overlap.
QuestionsAreCarried ==
    \A r \in Request :
        LET asked == query[r].session IN
        /\ stage[r] = "continuity_save" /\ stage'[r] = "recording"
        /\ readSession[r]
        /\ turnLog'[asked] # turnLog[asked]
        => IsPrefixOf(Existing(sessions[asked]).questions, sessions'[asked].questions)
=============================================================================
