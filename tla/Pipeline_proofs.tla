---------------------------- MODULE Pipeline_proofs ----------------------------
(***************************************************************************)
(* Proofs about the pipeline and what its requests share: knowledge,       *)
(* sessions, and the pages a caller reads while they write.  The requests, *)
(* sessions, texts and bounds are any.                                     *)
(*                                                                         *)
(* None of the properties is inductive.  What each adds, in this order:    *)
(*   ContextInv    what a request holds at which stage;                    *)
(*   SourcesInv    sources a request holds or is about to insert are as    *)
(*                 well scoped and grounded as stored ones, and a pending  *)
(*                 insert has an identifier of its own;                    *)
(*   TurnsInv      a request has no turn before it saves or records one;   *)
(*   WindowInv     the window of a session contains its last turn, at the  *)
(*                 end of it unless it was there before;                   *)
(*   SerialInv     while no other request moves, the session a request has *)
(*                 loaded is the stored one, and the questions it holds    *)
(*                 begin with those of the session;                        *)
(*   LookupInv     while no other request moves, what a request has        *)
(*                 recalled is all there is of its text and scope;         *)
(*   ListingInv    units of a listing stand before its cursor if listed,   *)
(*                 and after it otherwise.                                 *)
(* Serial results are about SerialSpec, the steps of one request while the *)
(* others are idle, and are then carried over to the scenarios of          *)
(* MCPipeline.                                                             *)
(***************************************************************************)
EXTENDS MCPipeline, TLAPS, FiniteSetTheorems, SequenceTheorems, WellFoundedInduction

-----------------------------------------------------------------------------
(* Session values. *)

LEMMA AppendEntries ==
    ASSUME NEW S, NEW seq \in Seq(S), NEW v
    PROVE  /\ Len(Append(seq, v)) = Len(seq) + 1
           /\ Append(seq, v)[Len(seq) + 1] = v
           /\ DOMAIN Append(seq, v) = 1..(Len(seq) + 1)
           /\ \A i \in DOMAIN Append(seq, v) :
                Append(seq, v)[i] = v \/ (i \in DOMAIN seq /\ Append(seq, v)[i] = seq[i])
<1>1. seq \in Seq(S \cup {v})
    OBVIOUS
<1>2. Len(seq) \in Nat /\ DOMAIN seq = 1..Len(seq)
    OBVIOUS
<1> QED BY <1>1, <1>2, AppendProperties

LEMMA AppendNewType ==
    ASSUME NEW S, NEW seq \in Seq(S), NEW v \in S
    PROVE  AppendNew(seq, v) \in Seq(S)
BY DEF AppendNew

\* A stored list is a sequence no longer than its bound.
LEMMA UpToIsSeq ==
    ASSUME NEW S, NEW n \in Nat, NEW seq \in UpTo(S, n)
    PROVE  seq \in Seq(S) /\ Len(seq) <= n
<1>1. PICK k \in 0..n : seq \in [1..k -> S]
    BY DEF UpTo
<1>2. k \in Nat /\ k <= n
    OBVIOUS
<1>3. seq \in Seq(S) /\ Len(seq) = k
    BY <1>1, <1>2
<1> QED BY <1>2, <1>3

LEMMA SeqIsUpTo ==
    ASSUME NEW S, NEW n \in Nat, NEW seq \in Seq(S), Len(seq) <= n
    PROVE  seq \in UpTo(S, n)
<1>1. seq \in [1..Len(seq) -> S] /\ Len(seq) \in 0..n
    BY LenProperties
<1> QED BY <1>1 DEF UpTo

LEMMA LastTurnsType ==
    ASSUME NEW turns \in Seq(Summary)
    PROVE  LastTurns(turns) \in UpTo(Summary, MaxTurns)
<1> DEFINE from == IF Len(turns) > MaxTurns THEN Len(turns) - MaxTurns + 1 ELSE 1
<1>1. Len(turns) \in Nat /\ MaxTurns \in Nat
    BY BoundsAssumption, LenProperties
<1>2. from \in Int /\ from >= 1
    BY <1>1
<1>3. \A i \in from..Len(turns) : turns[i] \in Summary
    BY <1>1, <1>2, ElementOfSeq
<1>4. /\ SubSeq(turns, from, Len(turns)) \in Seq(Summary)
      /\ Len(SubSeq(turns, from, Len(turns)))
           = IF from <= Len(turns) THEN Len(turns) - from + 1 ELSE 0
    BY <1>1, <1>2, <1>3, SubSeqProperties
<1>5. Len(SubSeq(turns, from, Len(turns))) <= MaxTurns
    BY <1>1, <1>4
<1>6. LastTurns(turns) = SubSeq(turns, from, Len(turns))
    BY DEF LastTurns
<1> QED BY <1>1, <1>4, <1>5, <1>6, SeqIsUpTo

LEMMA BoundedQuestionsType ==
    ASSUME NEW questions \in Seq(Question)
    PROVE  BoundedQuestions(questions) \in UpTo(Question, MaxQuestions)
<1> DEFINE to == IF Len(questions) > MaxQuestions THEN MaxQuestions ELSE Len(questions)
<1>1. Len(questions) \in Nat /\ MaxQuestions \in Nat
    BY BoundsAssumption, LenProperties
<1>2. to \in Nat /\ to <= Len(questions) /\ to <= MaxQuestions
    BY <1>1
<1>3. \A i \in 1..to : questions[i] \in Question
    BY <1>1, <1>2, ElementOfSeq
<1>4. /\ SubSeq(questions, 1, to) \in Seq(Question)
      /\ Len(SubSeq(questions, 1, to)) = IF 1 <= to THEN to - 1 + 1 ELSE 0
    BY <1>1, <1>2, <1>3, SubSeqProperties
<1>5. Len(SubSeq(questions, 1, to)) <= MaxQuestions
    BY <1>1, <1>2, <1>4
<1>6. BoundedQuestions(questions) = SubSeq(questions, 1, to)
    BY DEF BoundedQuestions
<1> QED BY <1>1, <1>4, <1>5, <1>6, SeqIsUpTo

LEMMA ExistingType ==
    ASSUME NEW memory \in SessionMemory \cup {NoMemory}
    PROVE  Existing(memory) \in SessionMemory
<1>1. \A S : \A n \in Nat : <<>> \in UpTo(S, n)
    <2> SUFFICES ASSUME NEW S, NEW n \in Nat PROVE <<>> \in UpTo(S, n)
        OBVIOUS
    <2>1. <<>> \in [1..0 -> S]
        OBVIOUS
    <2> QED BY <2>1 DEF UpTo
<1> QED BY <1>1, BoundsAssumption DEF Existing, EmptyMemory, SessionMemory

LEMMA UpdatedType ==
    ASSUME NEW memory \in SessionMemory \cup {NoMemory},
           NEW turn, turn.summary \in Summary, turn.questions \in Seq(Question),
           turn.recommendation \in Summary \cup {NoMemory}
    PROVE  Updated(memory, turn) \in SessionMemory
<1>1. /\ Existing(memory).turns \in UpTo(Summary, MaxTurns)
      /\ Existing(memory).recommendation \in Summary \cup {NoMemory}
    BY ExistingType DEF SessionMemory
<1>2. Existing(memory).turns \in Seq(Summary)
    BY <1>1, UpToIsSeq, BoundsAssumption
<1>3. LastTurns(AppendNew(Existing(memory).turns, turn.summary)) \in UpTo(Summary, MaxTurns)
    BY <1>2, AppendNewType, LastTurnsType
<1>4. BoundedQuestions(turn.questions) \in UpTo(Question, MaxQuestions)
    BY BoundedQuestionsType
<1> QED BY <1>1, <1>3, <1>4 DEF Updated, SessionMemory

-----------------------------------------------------------------------------
(* Types, and what the stage of a request says of its fields. *)

BeforeResearch == {"intake", "interpretation", "session_load", "knowledge_load", "research"}

Concluded == {"distillation", "lookup", "resolution", "store", "assembly",
              "continuity_load", "continuity_save", "recording"}

WritingBack == {"lookup", "resolution", "store"}

StagesAreOrdered ==
    \A r \in Request :
        /\ stage[r] = "intake" => query[r] = None
        /\ stage[r] \in Stage \ {"intake"} => query[r] # None
        /\ stage[r] \in BeforeResearch => evidence[r] = {}
        /\ stage[r] \in BeforeResearch \ {"research"} => support[r] = {}
        /\ stage[r] \in Concluded => answer[r] \in Answer
        /\ stage[r] \notin Concluded => answer[r] = None
        /\ stage[r] \in WritingBack => candidate[r] \in Candidate
        /\ stage[r] \notin WritingBack => candidate[r] = None
        /\ stage[r] # "store" => shaped[r] = None

ContextInv == TypeOK /\ StagesAreOrdered

LEMMA ContextInit == Init => ContextInv
<1> SUFFICES ASSUME Init PROVE ContextInv
    OBVIOUS
<1>1. 0 \in 0..MaxClock
    BY LimitAssumption
<1>2. <<>> \in Seq(Question) /\ <<>> \in Seq(Turn)
    OBVIOUS
<1> QED BY <1>1, <1>2 DEF Init, KnowledgeInit, SessionInit, ContextInv, TypeOK, KnowledgeTypeOK,
        SessionTypeOK, StagesAreOrdered, Stage, Ended, TaskType, ResearchStatus,
        BeforeResearch, Concluded, WritingBack

\* A request that has been taken in asks within a scope and a session.
LEMMA QueryIsTyped ==
    ASSUME TypeOK, NEW r \in Request, query[r] # None
    PROVE  query[r] \in Query /\ query[r].scope \in Scope /\ query[r].session \in Session
BY QueryAssumption DEF TypeOK, QueryShape

\* A recall returns rows its scope may see.
LEMMA RecallIsVisible ==
    ASSUME NEW scope, NEW text, NEW found \in Recall(scope, text)
    PROVE  found \subseteq Visible(scope) /\ Visible(scope) \subseteq Rows /\ Rows \subseteq KnowledgeId
BY DEF Recall, Visible, Rows

\* The questions a research stage raises.
LEMMA RaisedQuestions ==
    ASSUME NEW r
    PROVE  /\ NewQuestions(r) \subseteq Seq(Question)
           /\ SomeQuestions(r) \subseteq Seq(Question)
           /\ <<>> \in Seq(Question) /\ <<RunFailure>> \in Seq(Question)
<1>1. \A list \in UpTo(Question \ {RunFailure}, MaxRaised) : list \in Seq(Question \ {RunFailure})
    BY UpToIsSeq, RaisedAssumption
<1>2. \A list \in Seq(Question \ {RunFailure}) : list \in Seq(Question)
    OBVIOUS
<1>3. <<>> \in Seq(Question) /\ <<RunFailure>> \in Seq(Question)
    BY FixedTextAssumption
<1> QED BY <1>1, <1>2, <1>3 DEF NewQuestions, SomeQuestions

\* The end of the research stage, whichever way it ends.
LEMMA ResearchContext ==
    ASSUME ContextInv, NEW r \in Request,
           NEW status \in ResearchStatus, NEW sources \in SUBSET Request,
           NEW raised \in Seq(Question), ResearchEnds(r, status, sources, raised)
    PROVE  ContextInv'
<1>1. open' \in [Request -> Seq(Question)]
    <2>1. open[r] \o raised \in Seq(Question)
        BY ConcatProperties DEF ContextInv, TypeOK
    <2> QED BY <2>1 DEF ContextInv, TypeOK, ResearchEnds
<1> QED BY <1>1 DEF ContextInv, TypeOK, KnowledgeTypeOK, SessionTypeOK, StagesAreOrdered, Stage,
        Ended, BeforeResearch, Concluded, WritingBack, Moves, ResearchEnds,
        knowledgeVars, sessionVars

LEMMA RetrievableIsTyped ==
    ASSUME TypeOK, NEW r \in Request
    PROVE  Retrievable(r) \subseteq Request
<1>1. \A k \in Rows : knowledge[k] \in Row
    BY DEF TypeOK, KnowledgeTypeOK, Rows
<1>2. \A k \in Rows : knowledge[k].sources \subseteq Request
    BY <1>1 DEF Row
<1> QED BY <1>2 DEF Retrievable, Visible

LEMMA ContextStep ==
    ASSUME ContextInv, NEW r \in Request, Step(r)
    PROVE  ContextInv'
<1> USE DEF ContextInv, TypeOK, KnowledgeTypeOK, SessionTypeOK, StagesAreOrdered, Stage, Ended,
        TaskType, ResearchStatus, BeforeResearch, Concluded, WritingBack, Moves,
        vars, knowledgeVars, sessionVars, runVars, unchangedByWriteBack
<1>1. ASSUME NEW q \in Query, Intake(r, q) PROVE ContextInv'
    BY <1>1, QueryAssumption DEF Intake
<1>2. ASSUME Raises(r, "intake") PROVE ContextInv'
    BY <1>2 DEF Raises, DropContext
<1>3. ASSUME Interpret(r) PROVE ContextInv'
    BY <1>3 DEF Interpret
<1>4. ASSUME LoadSession(r) PROVE ContextInv'
    <2>1. query[r].session \in Session
        BY <1>4, QueryIsTyped DEF LoadSession
    <2>2. Existing(sessions[query[r].session]).questions \in UpTo(Question, MaxQuestions)
        BY <2>1, ExistingType DEF SessionMemory
    <2>3. Existing(sessions[query[r].session]).questions \in Seq(Question)
        BY <2>2, UpToIsSeq, BoundsAssumption
    <2> QED BY <1>4, <2>3 DEF LoadSession
<1>5. ASSUME LoadKnowledge(r) PROVE ContextInv'
    <2>1. CASE UNCHANGED support
        BY <1>5, <2>1 DEF LoadKnowledge
    <2>2. CASE support' # support
        <3>1. PICK text \in Text : \E found \in Recall(query[r].scope, text) :
                support' = [support EXCEPT ![r] = found]
            BY <1>5, <2>2 DEF LoadKnowledge
        <3>2. PICK found \in Recall(query[r].scope, text) : support' = [support EXCEPT ![r] = found]
            BY <3>1
        <3>3. found \in SUBSET KnowledgeId
            BY RecallIsVisible
        <3> QED BY <1>5, <3>2, <3>3 DEF LoadKnowledge
    <2> QED BY <2>1, <2>2
<1>6. ASSUME Research(r) PROVE ContextInv'
    <2>1. Retrievable(r) \subseteq Request
        BY RetrievableIsTyped
    <2> QED BY <1>6, <2>1, RaisedQuestions, ResearchContext DEF Research
<1>7. ASSUME ResearchWithoutOutput(r) PROVE ContextInv'
    BY <1>7, RaisedQuestions, ResearchContext DEF ResearchWithoutOutput
<1>8. ASSUME ResearchRaises(r) PROVE ContextInv'
    BY <1>8, RaisedQuestions, ResearchContext DEF ResearchRaises
<1>9. ASSUME ConcludeFailure(r) PROVE ContextInv'
    BY <1>9, FixedTextAssumption DEF ConcludeFailure, Concludes, Answer
<1>10. ASSUME ConcludeByModel(r) PROVE ContextInv'
    BY <1>10 DEF ConcludeByModel, Concludes, Answer, FilteredCitations
<1>11. ASSUME ConclusionRaises(r) PROVE ContextInv'
    BY <1>11 DEF ConclusionRaises, Raises, DropContext
<1>12. ASSUME Distill(r) PROVE ContextInv'
    BY <1>12 DEF Distill, Candidate
<1>13. ASSUME DistillNothing(r) PROVE ContextInv'
    BY <1>13 DEF DistillNothing
<1>14. ASSUME Lookup(r) PROVE ContextInv'
    BY <1>14 DEF Lookup, LookupKnowledge, Recall, Visible, Rows
<1>15. ASSUME ResolveToCreate(r) PROVE ContextInv'
    <2> DEFINE scope == query[r].scope
    <2>1. candidate[r] \in Candidate /\ scope \in Scope
        BY <1>15, QueryIsTyped DEF ResolveToCreate
    <2>2. PICK k \in FreshIds, now \in {clock, clock + 1} :
            /\ now <= MaxClock
            /\ clock' = now
            /\ shaped' = [shaped EXCEPT ![r] = [id |-> k, row |-> ShapedRow(r, scope, now)]]
        BY <1>15 DEF ResolveToCreate, ResolveKnowledgeToCreate
    <2>3. now \in 0..MaxClock /\ k \in KnowledgeId
        BY <2>2, LimitAssumption DEF FreshIds
    <2>4. ShapedRow(r, scope, now) \in Row
        BY <2>1, <2>3 DEF ShapedRow, Row, Candidate, Scope
    <2>5. shaped' \in [Request -> [id: KnowledgeId, row: Row] \cup {None}]
        BY <2>2, <2>3, <2>4
    <2> QED BY <1>15, <2>2, <2>3, <2>5 DEF ResolveToCreate, ResolveKnowledgeToCreate
<1>16. ASSUME ResolveToNoWrite(r) PROVE ContextInv'
    BY <1>16 DEF ResolveToNoWrite, ResolveKnowledgeToNoWrite, ForgetCandidate
<1>17. ASSUME Store(r) PROVE ContextInv'
    BY <1>17 DEF Store, StoreKnowledge, ForgetCandidate
<1>18. ASSUME WriteBackFails(r) PROVE ContextInv'
    BY <1>18 DEF WriteBackFails, KnowledgeNotWritten, ForgetCandidate
<1>19. ASSUME Assemble(r) PROVE ContextInv'
    BY <1>19 DEF Assemble
<1>20. ASSUME AssemblyRaises(r) PROVE ContextInv'
    BY <1>20 DEF AssemblyRaises, Raises, DropContext
<1>21. ASSUME LoadContinuity(r) PROVE ContextInv'
    <2>1. query[r].session \in Session
        BY <1>21, QueryIsTyped DEF LoadContinuity
    <2>2. loaded' \in [Request -> SessionMemory \cup {NoMemory}]
        <3>1. loaded' = loaded \/ loaded' = [loaded EXCEPT ![r] = sessions[query[r].session]]
            BY <1>21 DEF LoadContinuity
        <3>2. sessions[query[r].session] \in SessionMemory \cup {NoMemory}
            BY <2>1
        <3> QED BY <3>1, <3>2
    <2>3. PICK to \in {"continuity_save", "recording"} : Moves(r, "continuity_load", to)
        BY <1>21 DEF LoadContinuity
    <2>4. UNCHANGED <<knowledgeVars, sessionVars, query, task, support, open, readSession, research,
                      evidence, answer, history>>
        BY <1>21 DEF LoadContinuity
    <2> QED BY <2>2, <2>3, <2>4
<1>22. ASSUME SaveContinuity(r) PROVE ContextInv'
    <2>1. query[r].session \in Session
        BY <1>22, QueryIsTyped DEF SaveContinuity
    <2>2. answer[r] \in Answer
        BY <1>22 DEF SaveContinuity
    <2>3. /\ TurnOf(r).summary \in Summary /\ TurnOf(r).questions \in Seq(Question)
          /\ TurnOf(r).recommendation \in Summary \cup {NoMemory}
        BY <2>2 DEF TurnOf, Answer
    <2>4. Updated(loaded[r], TurnOf(r)) \in SessionMemory
        BY <2>3, UpdatedType
    <2>5. sessions' \in [Session -> SessionMemory \cup {NoMemory}]
        BY <1>22, <2>4 DEF SaveContinuity, SaveSession
    <2>6. turnLog' \in [Session -> Seq(Turn)]
        <3> DEFINE entry == [request |-> r, summary |-> TurnOf(r).summary,
                repeats |-> Contains(Existing(loaded[r]).turns, TurnOf(r).summary)]
        <3>1. entry \in Turn
            BY <2>3 DEF Turn, Contains
        <3> HIDE DEF entry
        <3>2. CASE turnLog' = [turnLog EXCEPT ![query[r].session] = Append(@, entry)]
            BY <2>1, <3>1, <3>2
        <3> QED BY <1>22, <3>2 DEF SaveContinuity, SaveSession, entry
    <2> QED BY <1>22, <2>5, <2>6 DEF SaveContinuity
<1>23. ASSUME RecordTurn(r) PROVE ContextInv'
    BY <1>23 DEF RecordTurn, DropContext
<1>24. ASSUME Crash(r) PROVE ContextInv'
    BY <1>24 DEF Crash, ForgetCandidate, DropContext
<1> QED BY <1>1, <1>2, <1>3, <1>4, <1>5, <1>6, <1>7, <1>8, <1>9, <1>10, <1>11, <1>12,
          <1>13, <1>14, <1>15, <1>16, <1>17, <1>18, <1>19, <1>20, <1>21, <1>22, <1>23, <1>24 DEF Step

LEMMA ContextNext == ContextInv /\ [Next]_vars => ContextInv'
<1> SUFFICES ASSUME ContextInv, [Next]_vars PROVE ContextInv'
    OBVIOUS
<1>1. CASE \E r \in Request : Step(r)
    BY <1>1, ContextStep
<1>2. ASSUME NEW s \in Session, Expire(s) PROVE ContextInv'
    <2>1. <<>> \in Seq(Turn)
        OBVIOUS
    <2> QED BY <1>2, <2>1 DEF Expire, ExpireSession, ContextInv, TypeOK, KnowledgeTypeOK, SessionTypeOK,
            StagesAreOrdered, knowledgeVars, runVars
<1>3. CASE UNCHANGED vars
    BY <1>3 DEF ContextInv, TypeOK, KnowledgeTypeOK, SessionTypeOK, StagesAreOrdered,
        vars, knowledgeVars, sessionVars, runVars
<1> QED BY <1>1, <1>2, <1>3 DEF Next

LEMMA ContextInvariant == Spec => []ContextInv
BY ContextInit, ContextNext, PTL DEF Spec

\* Every variable of the pipeline has its type, for any requests, sessions and
\* knowledge (ResearchActionPipeline.run and the stores it calls).
THEOREM PipelineTypes == Spec => []TypeOK
<1>1. ContextInv => TypeOK
    BY DEF ContextInv
<1> QED BY <1>1, ContextInvariant, PTL

-----------------------------------------------------------------------------
(* Knowledge: scope and ground.  What is stored, recalled, found, concluded  *)
(* and proposed for storage stems from runs of the same scope whose research *)
(* did not fail.  Rows are never overwritten: the identifier of a pending    *)
(* insert is free and no other insert has it.                                *)

Grounded(s) == s \in evidence[s] /\ research[s] \in {"completed", "partial_success"}

RowIsSound(row) ==
    /\ row.sources # {}
    /\ \A s \in row.sources : Grounded(s) /\ FoundFor(s, row.owner, row.project)

RowsAreSound == \A k \in Rows : RowIsSound(knowledge[k])

RunsAreSound ==
    \A r \in Request :
        /\ \A s \in evidence[r] :
            /\ query[r] # None
            /\ Grounded(s)
            /\ FoundFor(s, query[r].scope.user, query[r].scope.project)
        /\ query[r] # None => support[r] \subseteq Visible(query[r].scope)
        /\ answer[r] # None => answer[r].citations \subseteq evidence[r]
        /\ candidate[r] # None => candidate[r].sources \subseteq evidence[r]
        /\ stage[r] \in {"resolution", "store"} => candidate[r].sources # {}

InsertsAreSound ==
    \A r \in Request : shaped[r] # None =>
        /\ query[r] # None
        /\ shaped[r].row.owner = query[r].scope.user
        /\ shaped[r].row.project = query[r].scope.project
        /\ shaped[r].row.sources # {}
        /\ shaped[r].row.sources \subseteq evidence[r]
        /\ knowledge[shaped[r].id] = None
        /\ \A x \in Request \ {r} : shaped[x] # None => shaped[x].id # shaped[r].id

SourcesInv == RowsAreSound /\ RunsAreSound /\ InsertsAreSound

LEMMA SourcesInit == Init => SourcesInv
BY DEF Init, KnowledgeInit, SessionInit, SourcesInv, RowsAreSound, RunsAreSound, InsertsAreSound, Rows

\* What was found for a user and a project was found for whoever sees the project.
LEMMA FoundForWider ==
    ASSUME NEW s, NEW u, NEW p, NEW q, FoundFor(s, u, p), p \in {None, q}
    PROVE  FoundFor(s, u, q)
BY DEF FoundFor

\* The sources of a row that a run sees are grounded and in its scope.
LEMMA VisibleSources ==
    ASSUME RowsAreSound, NEW scope, NEW k \in Visible(scope), NEW s \in knowledge[k].sources
    PROVE  Grounded(s) /\ FoundFor(s, scope.user, scope.project)
<1>1. /\ k \in Rows /\ knowledge[k].owner = scope.user
      /\ knowledge[k].project \in {None, scope.project}
    BY DEF Visible
<1> QED BY <1>1, FoundForWider DEF RowsAreSound, RowIsSound

\* Steps that drop what a run holds, or leave it, and touch nothing else that
\* the invariant speaks of.
Drops ==
    /\ UNCHANGED <<knowledge, query, evidence, research>>
    /\ \A x \in Request :
        /\ support'[x] \in {support[x], {}}
        /\ answer'[x] \in {answer[x], None}
        /\ candidate'[x] \in {candidate[x], None}
        /\ shaped'[x] \in {shaped[x], None}
        /\ stage'[x] \in {"resolution", "store"} =>
            /\ stage[x] \in {"resolution", "store"}
            /\ candidate'[x] = candidate[x]

LEMMA DropsKeepSources ==
    ASSUME SourcesInv, Drops
    PROVE  SourcesInv'
<1>1. RowsAreSound'
    BY DEF SourcesInv, RowsAreSound, RowIsSound, Rows, Grounded, FoundFor, Drops
<1>2. RunsAreSound'
    BY DEF SourcesInv, RunsAreSound, Grounded, FoundFor, Visible, Rows, Drops
<1>3. InsertsAreSound'
    BY DEF SourcesInv, InsertsAreSound, Drops
<1> QED BY <1>1, <1>2, <1>3 DEF SourcesInv

\* The end of the research stage: what was retrieved is the run's own or stems
\* from rows it sees.
LEMMA ResearchKeepsSources ==
    ASSUME ContextInv, SourcesInv, NEW r \in Request,
           NEW status \in ResearchStatus, NEW sources \in SUBSET Retrievable(r),
           sources # {} => status \in {"completed", "partial_success"},
           NEW raised, ResearchEnds(r, status, sources, raised)
    PROVE  SourcesInv'
<1> USE DEF SourcesInv
<1>1. /\ stage[r] = "research" /\ query[r] # None /\ evidence[r] = {}
      /\ stage' = [stage EXCEPT ![r] = "conclusion"]
      /\ evidence' = [evidence EXCEPT ![r] = sources]
      /\ research' = [research EXCEPT ![r] = status]
      /\ UNCHANGED <<knowledge, candidate, recalled, shaped, query, support, answer>>
    BY DEF ContextInv, StagesAreOrdered, Stage, BeforeResearch, ResearchEnds, Moves, knowledgeVars
<1>2. \A s : Grounded(s) => s # r /\ Grounded(s)'
    BY <1>1 DEF Grounded, ContextInv, TypeOK
<1>3. \A s, u, p : FoundFor(s, u, p)' <=> FoundFor(s, u, p)
    BY <1>1 DEF FoundFor
<1>4. RowsAreSound'
    BY <1>1, <1>2, <1>3 DEF RowsAreSound, RowIsSound, Rows
<1>5. \A s \in sources :
        Grounded(s)' /\ FoundFor(s, query[r].scope.user, query[r].scope.project)
    <2> SUFFICES ASSUME NEW s \in sources
                 PROVE Grounded(s)' /\ FoundFor(s, query[r].scope.user, query[r].scope.project)
        OBVIOUS
    <2>1. CASE s = r
        BY <2>1, <1>1 DEF Grounded, FoundFor, ContextInv, TypeOK
    <2>2. ASSUME NEW k \in Visible(query[r].scope), s \in knowledge[k].sources
          PROVE  Grounded(s)' /\ FoundFor(s, query[r].scope.user, query[r].scope.project)
        BY <2>2, <1>2, VisibleSources
    <2> QED BY <2>1, <2>2 DEF Retrievable
<1>6. RunsAreSound'
    <2> SUFFICES ASSUME NEW x \in Request
                 PROVE  /\ \A s \in evidence'[x] :
                            /\ query[x] # None
                            /\ Grounded(s)'
                            /\ FoundFor(s, query[x].scope.user, query[x].scope.project)
                        /\ query[x] # None => support[x] \subseteq Visible(query[x].scope)
                        /\ answer[x] # None => answer[x].citations \subseteq evidence'[x]
                        /\ candidate[x] # None => candidate[x].sources \subseteq evidence'[x]
                        /\ stage'[x] \in {"resolution", "store"} => candidate[x].sources # {}
        BY <1>1, <1>3 DEF RunsAreSound, Visible, Rows
    <2>1. CASE x = r
        BY <2>1, <1>1, <1>5 DEF RunsAreSound, ContextInv, TypeOK, StagesAreOrdered, Concluded, WritingBack
    <2>2. CASE x # r
        BY <2>2, <1>1, <1>2 DEF RunsAreSound, ContextInv, TypeOK
    <2> QED BY <2>1, <2>2
<1>7. InsertsAreSound'
    BY <1>1 DEF InsertsAreSound, ContextInv, TypeOK, StagesAreOrdered
<1> QED BY <1>4, <1>6, <1>7

LEMMA SourcesStep ==
    ASSUME ContextInv, SourcesInv, NEW r \in Request, Step(r)
    PROVE  SourcesInv'
<1> USE DEF Moves, knowledgeVars, sessionVars, unchangedByWriteBack
<1>0. /\ stage \in [Request -> Stage \cup Ended]
      /\ support \in [Request -> SUBSET KnowledgeId]
      /\ answer \in [Request -> Answer \cup {None}]
      /\ candidate \in [Request -> Candidate \cup {None}]
      /\ shaped \in [Request -> [id: KnowledgeId, row: Row] \cup {None}]
    BY DEF ContextInv, TypeOK, KnowledgeTypeOK
<1>1. ASSUME NEW q \in Query, Intake(r, q) PROVE SourcesInv'
    <2>1. /\ stage[r] = "intake" /\ query[r] = None
          /\ stage' = [stage EXCEPT ![r] = "interpretation"]
          /\ query' = [query EXCEPT ![r] = q]
          /\ UNCHANGED <<knowledgeVars, support, research, evidence, answer>>
        BY <1>1 DEF Intake, ContextInv, StagesAreOrdered
    <2>2. support[r] = {}
        BY <2>1 DEF ContextInv, StagesAreOrdered, BeforeResearch
    <2>3. \A s, u, p : FoundFor(s, u, p) => FoundFor(s, u, p)'
        BY <2>1 DEF FoundFor, ContextInv, TypeOK
    <2>4. RowsAreSound'
        BY <2>1, <2>3 DEF SourcesInv, RowsAreSound, RowIsSound, Rows, Grounded
    <2>5. RunsAreSound'
        BY <2>1, <2>2, <2>3, <1>0 DEF SourcesInv, RunsAreSound, Grounded, Visible, Rows,
            ContextInv, TypeOK, StagesAreOrdered, BeforeResearch
    <2>6. InsertsAreSound'
        BY <2>1 DEF SourcesInv, InsertsAreSound, ContextInv, TypeOK
    <2> QED BY <2>4, <2>5, <2>6 DEF SourcesInv
<1>2. ASSUME Raises(r, "intake") PROVE Drops
    BY <1>0, <1>2 DEF Raises, DropContext, Drops
<1>3. ASSUME Interpret(r) PROVE Drops
    BY <1>0, <1>3 DEF Interpret, Drops
<1>4. ASSUME LoadSession(r) PROVE Drops
    BY <1>0, <1>4 DEF LoadSession, Drops
<1>5. ASSUME LoadKnowledge(r) PROVE SourcesInv'
    <2>1. /\ stage[r] = "knowledge_load" /\ stage' = [stage EXCEPT ![r] = "research"]
          /\ UNCHANGED <<knowledgeVars, query, research, evidence, answer>>
        BY <1>5 DEF LoadKnowledge
    <2>2. support' = support \/ \E found \in SUBSET Visible(query[r].scope) :
            support' = [support EXCEPT ![r] = found]
        BY <1>5, RecallIsVisible DEF LoadKnowledge
    <2>3. RowsAreSound'
        BY <2>1 DEF SourcesInv, RowsAreSound, RowIsSound, Rows, Grounded, FoundFor
    <2>4. RunsAreSound'
        BY <2>1, <2>2, <1>0 DEF SourcesInv, RunsAreSound, Grounded, FoundFor, Visible, Rows
    <2>5. InsertsAreSound'
        BY <2>1 DEF SourcesInv, InsertsAreSound
    <2> QED BY <2>3, <2>4, <2>5 DEF SourcesInv
<1>6. ASSUME Research(r) PROVE SourcesInv'
    BY <1>6, ResearchKeepsSources DEF Research, ResearchStatus
<1>7. ASSUME ResearchWithoutOutput(r) PROVE SourcesInv'
    BY <1>7, ResearchKeepsSources DEF ResearchWithoutOutput, ResearchStatus
<1>8. ASSUME ResearchRaises(r) PROVE SourcesInv'
    BY <1>8, ResearchKeepsSources DEF ResearchRaises, ResearchStatus
<1>9. ASSUME NEW conclusion, conclusion.citations \subseteq evidence[r], Concludes(r, conclusion)
      PROVE  SourcesInv'
    <2>1. /\ stage[r] = "conclusion" /\ stage' = [stage EXCEPT ![r] = "distillation"]
          /\ answer' = [answer EXCEPT ![r] = conclusion]
          /\ UNCHANGED <<knowledgeVars, query, support, research, evidence>>
        BY <1>9 DEF Concludes
    <2>2. RowsAreSound'
        BY <2>1 DEF SourcesInv, RowsAreSound, RowIsSound, Rows, Grounded, FoundFor
    <2>3. RunsAreSound'
        BY <2>1, <1>0, <1>9 DEF SourcesInv, RunsAreSound, Grounded, FoundFor, Visible, Rows
    <2>4. InsertsAreSound'
        BY <2>1 DEF SourcesInv, InsertsAreSound
    <2> QED BY <2>2, <2>3, <2>4 DEF SourcesInv
<1>10. ASSUME ConcludeFailure(r) PROVE SourcesInv'
    BY <1>10, <1>9 DEF ConcludeFailure
<1>11. ASSUME ConcludeByModel(r) PROVE SourcesInv'
    BY <1>11, <1>9 DEF ConcludeByModel, FilteredCitations
<1>12. ASSUME ConclusionRaises(r) PROVE Drops
    BY <1>0, <1>12 DEF ConclusionRaises, Raises, DropContext, Drops
<1>13. ASSUME Distill(r) PROVE SourcesInv'
    <2>1. /\ stage[r] = "distillation" /\ stage' = [stage EXCEPT ![r] = "lookup"]
          /\ UNCHANGED <<knowledge, shaped, query, support, research, evidence, answer>>
        BY <1>13 DEF Distill
    <2>2. PICK listed \in SUBSET evidence[r], content \in Content :
            candidate' = [candidate EXCEPT ![r] = [content |-> content, sources |-> listed]]
        BY <1>13 DEF Distill
    <2>3. RowsAreSound'
        BY <2>1 DEF SourcesInv, RowsAreSound, RowIsSound, Rows, Grounded, FoundFor
    <2>4. RunsAreSound'
        BY <2>1, <2>2, <1>0 DEF SourcesInv, RunsAreSound, Grounded, FoundFor, Visible, Rows
    <2>5. InsertsAreSound'
        BY <2>1 DEF SourcesInv, InsertsAreSound
    <2> QED BY <2>3, <2>4, <2>5 DEF SourcesInv
<1>14. ASSUME DistillNothing(r) PROVE Drops
    BY <1>0, <1>14 DEF DistillNothing, Drops
<1>15. ASSUME Lookup(r) PROVE SourcesInv'
    <2>1. /\ stage[r] = "lookup" /\ stage' = [stage EXCEPT ![r] = "resolution"]
          /\ candidate[r].sources # {}
          /\ UNCHANGED <<knowledge, candidate, shaped, query, support, research, evidence, answer>>
        BY <1>15 DEF Lookup, LookupKnowledge, Admitted
    <2>2. RowsAreSound'
        BY <2>1 DEF SourcesInv, RowsAreSound, RowIsSound, Rows, Grounded, FoundFor
    <2>3. RunsAreSound'
        BY <2>1, <1>0 DEF SourcesInv, RunsAreSound, Grounded, FoundFor, Visible, Rows
    <2>4. InsertsAreSound'
        BY <2>1 DEF SourcesInv, InsertsAreSound
    <2> QED BY <2>2, <2>3, <2>4 DEF SourcesInv
<1>16. ASSUME ResolveToCreate(r) PROVE SourcesInv'
    <2>1. /\ stage[r] = "resolution" /\ stage' = [stage EXCEPT ![r] = "store"]
          /\ query[r] # None /\ candidate[r] \in Candidate
          /\ UNCHANGED <<knowledge, candidate, query, support, research, evidence, answer>>
        BY <1>16 DEF ResolveToCreate, ResolveKnowledgeToCreate, ContextInv, StagesAreOrdered,
            Stage, WritingBack
    <2>2. PICK k \in FreshIds, now \in {clock, clock + 1} :
            shaped' = [shaped EXCEPT ![r] = [id |-> k, row |-> ShapedRow(r, query[r].scope, now)]]
        BY <1>16 DEF ResolveToCreate, ResolveKnowledgeToCreate
    <2>3. /\ knowledge[k] = None
          /\ \A x \in Request : shaped[x] # None => shaped[x].id # k
        BY <2>2 DEF FreshIds
    <2>4. RowsAreSound'
        BY <2>1 DEF SourcesInv, RowsAreSound, RowIsSound, Rows, Grounded, FoundFor
    <2>5. RunsAreSound'
        BY <2>1, <1>0 DEF SourcesInv, RunsAreSound, Grounded, FoundFor, Visible, Rows
    <2>6. candidate[r].sources # {} /\ candidate[r].sources \subseteq evidence[r]
        BY <2>1, NoneAssumption DEF SourcesInv, RunsAreSound
    <2>7. InsertsAreSound'
        BY <2>1, <2>2, <2>3, <2>6, <1>0 DEF SourcesInv, InsertsAreSound, ShapedRow
    <2> QED BY <2>4, <2>5, <2>7 DEF SourcesInv
<1>17. ASSUME ResolveToNoWrite(r) PROVE Drops
    BY <1>0, <1>17 DEF ResolveToNoWrite, ResolveKnowledgeToNoWrite, ForgetCandidate, Drops
<1>18. ASSUME Store(r) PROVE SourcesInv'
    <2>1. /\ stage[r] = "store" /\ stage' = [stage EXCEPT ![r] = "distillation"] /\ shaped[r] # None
          /\ knowledge' = [knowledge EXCEPT ![shaped[r].id] = shaped[r].row]
          /\ candidate' = [candidate EXCEPT ![r] = None]
          /\ shaped' = [shaped EXCEPT ![r] = None]
          /\ UNCHANGED <<query, support, research, evidence, answer>>
        BY <1>18 DEF Store, StoreKnowledge, ForgetCandidate
    <2>2. /\ knowledge \in [KnowledgeId -> Row \cup {None}]
          /\ shaped[r].id \in KnowledgeId /\ shaped[r].row \in Row
        BY <2>1, <1>0 DEF ContextInv, TypeOK, KnowledgeTypeOK
    <2>3. knowledge[shaped[r].id] = None
        BY <2>1 DEF SourcesInv, InsertsAreSound
    <2>4. RowIsSound(shaped[r].row)
        BY <2>1 DEF SourcesInv, InsertsAreSound, RunsAreSound, RowIsSound
    <2>5. RowsAreSound'
        BY <2>1, <2>2, <2>4 DEF SourcesInv, RowsAreSound, RowIsSound, Rows, Grounded, FoundFor
    <2>6. \A scope : Visible(scope) \subseteq Visible(scope)'
        BY <2>1, <2>2, <2>3 DEF Visible, Rows
    <2>7. RunsAreSound'
        BY <2>1, <2>6, <1>0 DEF SourcesInv, RunsAreSound, Grounded, FoundFor
    <2>8. InsertsAreSound'
        BY <2>1, <2>2, <1>0 DEF SourcesInv, InsertsAreSound
    <2> QED BY <2>5, <2>7, <2>8 DEF SourcesInv
<1>19. ASSUME WriteBackFails(r) PROVE Drops
    BY <1>0, <1>19 DEF WriteBackFails, KnowledgeNotWritten, ForgetCandidate, Drops
<1>20. ASSUME Assemble(r) PROVE Drops
    BY <1>0, <1>20 DEF Assemble, Drops
<1>21. ASSUME AssemblyRaises(r) PROVE Drops
    BY <1>0, <1>21 DEF AssemblyRaises, Raises, DropContext, Drops
<1>22. ASSUME LoadContinuity(r) PROVE Drops
    BY <1>0, <1>22 DEF LoadContinuity, Drops
<1>23. ASSUME SaveContinuity(r) PROVE Drops
    BY <1>0, <1>23 DEF SaveContinuity, Drops
<1>24. ASSUME RecordTurn(r) PROVE Drops
    BY <1>0, <1>24 DEF RecordTurn, DropContext, Drops
<1>25. ASSUME Crash(r) PROVE Drops
    BY <1>0, <1>25 DEF Crash, ForgetCandidate, DropContext, Drops
<1> QED BY <1>1, <1>2, <1>3, <1>4, <1>5, <1>6, <1>7, <1>8, <1>10, <1>11, <1>12, <1>13, <1>14,
          <1>15, <1>16, <1>17, <1>18, <1>19, <1>20, <1>21, <1>22, <1>23, <1>24, <1>25,
          DropsKeepSources DEF Step

LEMMA SourcesNext == ContextInv /\ SourcesInv /\ [Next]_vars => SourcesInv'
<1> SUFFICES ASSUME ContextInv, SourcesInv, [Next]_vars PROVE SourcesInv'
    OBVIOUS
<1>1. CASE \E r \in Request : Step(r)
    BY <1>1, SourcesStep
<1>2. CASE (\E s \in Session : Expire(s)) \/ UNCHANGED vars
    <2>1. UNCHANGED <<knowledgeVars, runVars>>
        BY <1>2 DEF Expire, vars
    <2>2. Drops
        BY <2>1 DEF Drops, knowledgeVars, runVars
    <2> QED BY <2>2, DropsKeepSources
<1> QED BY <1>1, <1>2 DEF Next

LEMMA SourcesInvariant == Spec => [](ContextInv /\ SourcesInv)
BY ContextInit, ContextNext, SourcesInit, SourcesNext, PTL DEF Spec

\* Nothing a request is given or answers with stems from another user's run or
\* from a run of another project, however many times knowledge was recalled,
\* adopted as evidence and stored again (list_relevant_knowledge,
\* _persist_research_knowledge).
THEOREM KnowledgeStaysInScopeAlways == Spec => []KnowledgeStaysInScope
<1>1. ContextInv /\ SourcesInv => KnowledgeStaysInScope
    <2> SUFFICES ASSUME ContextInv, SourcesInv PROVE KnowledgeStaysInScope
        OBVIOUS
    <2>1. \A k \in Rows : \A s \in knowledge[k].sources :
            FoundFor(s, knowledge[k].owner, knowledge[k].project)
        BY DEF SourcesInv, RowsAreSound, RowIsSound
    <2>2. ASSUME NEW r \in Request, query[r] # None
          PROVE  \A s \in evidence[r] \cup (UNION {knowledge[k].sources : k \in support[r]})
                            \cup (IF answer[r] = None THEN {} ELSE answer[r].citations) :
                     FoundFor(s, query[r].scope.user, query[r].scope.project)
        <3> DEFINE recalledSources == UNION {knowledge[k].sources : k \in support[r]}
                   cited == IF answer[r] = None THEN {} ELSE answer[r].citations
        <3>1. \A s \in evidence[r] : FoundFor(s, query[r].scope.user, query[r].scope.project)
            BY <2>2 DEF SourcesInv, RunsAreSound
        <3>2. cited \subseteq evidence[r]
            BY <2>2 DEF SourcesInv, RunsAreSound
        <3>3. \A s \in recalledSources : FoundFor(s, query[r].scope.user, query[r].scope.project)
            <4> SUFFICES ASSUME NEW k \in support[r], NEW s \in knowledge[k].sources
                         PROVE  FoundFor(s, query[r].scope.user, query[r].scope.project)
                OBVIOUS
            <4>1. k \in Visible(query[r].scope)
                BY <2>2 DEF SourcesInv, RunsAreSound
            <4> QED BY <4>1, VisibleSources DEF SourcesInv
        <3> HIDE DEF recalledSources, cited
        <3>4. \A s \in evidence[r] \cup recalledSources \cup cited :
                FoundFor(s, query[r].scope.user, query[r].scope.project)
            BY <3>1, <3>2, <3>3
        <3> QED BY <3>4 DEF recalledSources, cited
    <2> QED BY <2>1, <2>2 DEF KnowledgeStaysInScope
<1> QED BY <1>1, SourcesInvariant, PTL

\* Every source that a stored unit names was found by the retrieval of a run
\* whose research did not fail, however often knowledge was passed on.
THEOREM StoredKnowledgeIsGroundedAlways == Spec => []StoredKnowledgeIsGrounded
<1>1. SourcesInv => StoredKnowledgeIsGrounded
    BY DEF SourcesInv, RowsAreSound, RowIsSound, Grounded, StoredKnowledgeIsGrounded
<1> QED BY <1>1, SourcesInvariant, PTL

-----------------------------------------------------------------------------
(* Turns of raised requests.  A request reaches the history in its last step *)
(* and its session in the step before; neither can raise.                    *)

Recorded == {"answered", "crashed"}

LoggedTurn(r) == \E s \in Session : \E i \in DOMAIN turnLog[s] : turnLog[s][i].request = r

TurnsInv ==
    \A r \in Request :
        /\ stage[r] \notin Recorded => r \notin history
        /\ stage[r] \notin Recorded \cup {"recording"} => ~LoggedTurn(r)

LEMMA TurnsInit == Init => TurnsInv
BY DEF Init, SessionInit, TurnsInv, LoggedTurn

\* Steps that write neither the session nor the history, and end no request
\* that is not recording well.
LeavesTurns(r) ==
    /\ UNCHANGED <<history, turnLog>>
    /\ \E to : stage' = [stage EXCEPT ![r] = to]
    /\ stage[r] \in Recorded \cup {"recording"} => stage'[r] \in Recorded

LEMMA TurnsStep ==
    ASSUME ContextInv, TurnsInv, NEW r \in Request, Step(r)
    PROVE  TurnsInv'
<1> USE DEF Moves, sessionVars
<1>0. stage \in [Request -> Stage \cup Ended]
    BY DEF ContextInv, TypeOK
<1>1. ASSUME NEW q \in Query, Intake(r, q) PROVE LeavesTurns(r)
    BY <1>0, <1>1 DEF Intake, LeavesTurns, Recorded
<1>2. ASSUME Raises(r, "intake") PROVE LeavesTurns(r)
    BY <1>0, <1>2 DEF Raises, LeavesTurns, Recorded
<1>3. ASSUME Interpret(r) PROVE LeavesTurns(r)
    BY <1>0, <1>3 DEF Interpret, LeavesTurns, Recorded
<1>4. ASSUME LoadSession(r) PROVE LeavesTurns(r)
    BY <1>0, <1>4 DEF LoadSession, LeavesTurns, Recorded
<1>5. ASSUME LoadKnowledge(r) PROVE LeavesTurns(r)
    BY <1>0, <1>5 DEF LoadKnowledge, LeavesTurns, Recorded
<1>6. ASSUME Research(r) \/ ResearchWithoutOutput(r) \/ ResearchRaises(r) PROVE LeavesTurns(r)
    BY <1>0, <1>6 DEF Research, ResearchWithoutOutput, ResearchRaises, ResearchEnds,
        LeavesTurns, Recorded
<1>7. ASSUME ConcludeFailure(r) \/ ConcludeByModel(r) PROVE LeavesTurns(r)
    BY <1>0, <1>7 DEF ConcludeFailure, ConcludeByModel, Concludes, LeavesTurns, Recorded
<1>8. ASSUME ConclusionRaises(r) \/ AssemblyRaises(r) PROVE LeavesTurns(r)
    BY <1>0, <1>8 DEF ConclusionRaises, AssemblyRaises, Raises, LeavesTurns, Recorded
<1>9. ASSUME Distill(r) \/ DistillNothing(r) PROVE LeavesTurns(r)
    BY <1>0, <1>9 DEF Distill, DistillNothing, unchangedByWriteBack, LeavesTurns, Recorded
<1>10. ASSUME Lookup(r) \/ ResolveToCreate(r) \/ ResolveToNoWrite(r) PROVE LeavesTurns(r)
    BY <1>0, <1>10 DEF Lookup, ResolveToCreate, ResolveToNoWrite, unchangedByWriteBack,
        LeavesTurns, Recorded
<1>11. ASSUME Store(r) \/ WriteBackFails(r) PROVE LeavesTurns(r)
    BY <1>0, <1>11 DEF Store, WriteBackFails, unchangedByWriteBack, LeavesTurns, Recorded
<1>12. ASSUME Assemble(r) \/ LoadContinuity(r) PROVE LeavesTurns(r)
    BY <1>0, <1>12 DEF Assemble, LoadContinuity, LeavesTurns, Recorded
<1>13. ASSUME Crash(r) PROVE LeavesTurns(r)
    BY <1>0, <1>13 DEF Crash, LeavesTurns, Recorded
<1>14. ASSUME LeavesTurns(r) PROVE TurnsInv'
    BY <1>0, <1>14 DEF LeavesTurns, TurnsInv, LoggedTurn
<1>15. ASSUME SaveContinuity(r) PROVE TurnsInv'
    <2>1. /\ stage[r] = "continuity_save" /\ stage' = [stage EXCEPT ![r] = "recording"]
          /\ UNCHANGED <<query, history>>
        BY <1>15 DEF SaveContinuity
    <2>2. query[r].session \in Session
        BY <2>1, QueryIsTyped DEF ContextInv, StagesAreOrdered, Stage
    <2>3. \A x \in Request \ {r} : LoggedTurn(x)' => LoggedTurn(x)
        <3> DEFINE asked == query[r].session
                   entry == [request |-> r, summary |-> TurnOf(r).summary,
                             repeats |-> Contains(Existing(loaded[r]).turns, TurnOf(r).summary)]
        <3>1. CASE UNCHANGED turnLog
            BY <3>1 DEF LoggedTurn
        <3>2. CASE turnLog' = [turnLog EXCEPT ![asked] = Append(@, entry)]
            <4>1. turnLog \in [Session -> Seq(Turn)]
                BY DEF ContextInv, TypeOK
            <4>2. entry.request = r
                OBVIOUS
            <4> HIDE DEF entry
            <4>3. turnLog'[asked] = Append(turnLog[asked], entry)
                BY <2>2, <3>2, <4>1
            <4>4. \A s \in Session \ {asked} : turnLog'[s] = turnLog[s]
                BY <3>2, <4>1
            <4>5. \A i \in DOMAIN turnLog'[asked] :
                    turnLog'[asked][i] = entry
                    \/ (i \in DOMAIN turnLog[asked] /\ turnLog'[asked][i] = turnLog[asked][i])
                <5>1. turnLog[asked] \in Seq(Turn)
                    BY <2>2, <4>1
                <5>2. \A i \in DOMAIN Append(turnLog[asked], entry) :
                        Append(turnLog[asked], entry)[i] = entry
                        \/ /\ i \in DOMAIN turnLog[asked]
                           /\ Append(turnLog[asked], entry)[i] = turnLog[asked][i]
                    BY <5>1, AppendEntries
                <5> QED BY <5>2, <4>3
            <4> QED BY <2>2, <4>2, <4>4, <4>5 DEF LoggedTurn
        <3> QED BY <1>15, <3>1, <3>2 DEF SaveContinuity, SaveSession
    <2> QED BY <1>0, <2>1, <2>3 DEF TurnsInv, Recorded
<1>16. ASSUME RecordTurn(r) PROVE TurnsInv'
    BY <1>0, <1>16 DEF RecordTurn, TurnsInv, LoggedTurn, Recorded
<1> QED BY <1>1, <1>2, <1>3, <1>4, <1>5, <1>6, <1>7, <1>8, <1>9, <1>10, <1>11, <1>12, <1>13,
          <1>14, <1>15, <1>16 DEF Step

LEMMA TurnsNext == ContextInv /\ TurnsInv /\ [Next]_vars => TurnsInv'
<1> SUFFICES ASSUME ContextInv, TurnsInv, [Next]_vars PROVE TurnsInv'
    OBVIOUS
<1>1. CASE \E r \in Request : Step(r)
    BY <1>1, TurnsStep
<1>2. ASSUME NEW s \in Session, Expire(s) PROVE TurnsInv'
    BY <1>2 DEF Expire, ExpireSession, runVars, TurnsInv, LoggedTurn, ContextInv, TypeOK
<1>3. CASE UNCHANGED vars
    BY <1>3 DEF vars, sessionVars, runVars, TurnsInv, LoggedTurn
<1> QED BY <1>1, <1>2, <1>3 DEF Next

LEMMA TurnsInvariant == Spec => [](ContextInv /\ TurnsInv)
BY ContextInit, ContextNext, TurnsInit, TurnsNext, PTL DEF Spec

\* A request that ended in an error has left no turn in its session and none in
\* the history (_output, run).
THEOREM RaisedRequestsNeverLeaveATurn == Spec => []RaisedRequestsLeaveNoTurn
<1>1. TurnsInv => RaisedRequestsLeaveNoTurn
    BY DEF TurnsInv, LoggedTurn, Recorded, RaisedRequestsLeaveNoTurn
<1> QED BY <1>1, TurnsInvariant, PTL

-----------------------------------------------------------------------------
(* Sessions: what a saved turn leaves in the window.                         *)

EndsWith(seq, v) == Len(seq) > 0 /\ seq[Len(seq)] = v

\* The window keeps its last entries: the last one, and the one before it when
\* it has room for two.
LEMMA LastTurnsEnd ==
    ASSUME NEW turns \in Seq(Summary), turns # <<>>
    PROVE  /\ EndsWith(LastTurns(turns), turns[Len(turns)])
           /\ MaxTurns > 1 /\ Len(turns) > 1 => Contains(LastTurns(turns), turns[Len(turns) - 1])
<1> DEFINE from == IF Len(turns) > MaxTurns THEN Len(turns) - MaxTurns + 1 ELSE 1
           kept == SubSeq(turns, from, Len(turns))
<1>1. Len(turns) \in Nat /\ Len(turns) > 0 /\ MaxTurns \in Nat \ {0}
    BY BoundsAssumption, LenProperties, EmptySeq
<1>2. from \in Int /\ from >= 1 /\ from <= Len(turns)
    BY <1>1
<1>3. \A i \in from..Len(turns) : turns[i] \in Summary
    BY <1>1, <1>2, ElementOfSeq
<1>4. /\ kept \in Seq(Summary)
      /\ Len(kept) = Len(turns) - from + 1
      /\ \A i \in 1..(Len(turns) - from + 1) : kept[i] = turns[from + i - 1]
    <2> HIDE DEF from
    <2>1. Len(turns) \in Int
        BY <1>1
    <2> QED BY <2>1, <1>2, <1>3, SubSeqProperties
<1>5. LastTurns(turns) = kept
    BY DEF LastTurns
<1> HIDE DEF kept
<1>6. EndsWith(kept, turns[Len(turns)])
    <2> HIDE DEF from
    <2>1. Len(kept) \in 1..(Len(turns) - from + 1) /\ from + Len(kept) - 1 = Len(turns)
        BY <1>1, <1>2, <1>4
    <2>2. kept[Len(kept)] = turns[Len(turns)]
        BY <1>4, <2>1
    <2> QED BY <2>1, <2>2 DEF EndsWith
<1>7. ASSUME MaxTurns > 1, Len(turns) > 1 PROVE Contains(kept, turns[Len(turns) - 1])
    <2> DEFINE at == Len(turns) - from
    <2>1. at \in 1..Len(kept) /\ from + at - 1 = Len(turns) - 1
        BY <1>1, <1>2, <1>4, <1>7
    <2>2. kept[at] = turns[Len(turns) - 1]
        BY <1>4, <2>1
    <2>3. DOMAIN kept = 1..Len(kept)
        BY <1>4
    <2> QED BY <2>1, <2>2, <2>3 DEF Contains
<1> QED BY <1>5, <1>6, <1>7

\* A window within its bound is kept whole.
LEMMA LastTurnsWhole ==
    ASSUME NEW turns \in Seq(Summary), Len(turns) <= MaxTurns
    PROVE  LastTurns(turns) = turns
<1>1. ~(Len(turns) > MaxTurns)
    BY BoundsAssumption, LenProperties
<1>2. LastTurns(turns) = SubSeq(turns, 1, Len(turns))
    BY <1>1 DEF LastTurns
<1> QED BY <1>2, SubSeqFull

\* The turn of an update is in the window, at its end if it was not there; so is
\* the turn that was at the end before.
LEMMA UpdatedWindow ==
    ASSUME NEW memory \in SessionMemory \cup {NoMemory},
           NEW turn, turn.summary \in Summary
    PROVE  LET old == Existing(memory).turns
               new == Updated(memory, turn).turns
           IN /\ Contains(new, turn.summary)
              /\ ~Contains(old, turn.summary) => EndsWith(new, turn.summary)
              /\ MaxTurns > 1 => \A v : EndsWith(old, v) => Contains(new, v)
<1> DEFINE old == Existing(memory).turns
           new == Updated(memory, turn).turns
<1>1. old \in UpTo(Summary, MaxTurns)
    BY ExistingType DEF SessionMemory
<1>2. old \in Seq(Summary) /\ Len(old) <= MaxTurns
    BY <1>1, UpToIsSeq, BoundsAssumption
<1>3. new = LastTurns(AppendNew(old, turn.summary))
    BY DEF Updated
<1> HIDE DEF old, new
<1>4. CASE Contains(old, turn.summary)
    <2>1. new = old
        BY <1>2, <1>3, <1>4, LastTurnsWhole DEF AppendNew
    <2>2. \A v : EndsWith(old, v) => Contains(old, v)
        <3>1. Len(old) > 0 => Len(old) \in DOMAIN old
            BY <1>2
        <3> QED BY <3>1 DEF EndsWith, Contains
    <2> QED BY <1>4, <2>1, <2>2 DEF old, new
<1>5. CASE ~Contains(old, turn.summary)
    <2> DEFINE longer == Append(old, turn.summary)
    <2>1. new = LastTurns(longer)
        BY <1>3, <1>5 DEF AppendNew
    <2>2. /\ longer \in Seq(Summary) /\ longer # <<>> /\ Len(longer) = Len(old) + 1
          /\ longer[Len(longer)] = turn.summary
          /\ \A i \in 1..Len(old) : longer[i] = old[i]
        BY <1>2, AppendProperties
    <2> HIDE DEF longer
    <2>3. EndsWith(new, turn.summary)
        BY <2>1, <2>2, LastTurnsEnd
    <2>4. \A i \in 1..Len(new) : i \in DOMAIN new
        <3>1. new \in UpTo(Summary, MaxTurns)
            BY <2>1, <2>2, LastTurnsType
        <3>2. new \in Seq(Summary)
            BY <3>1, UpToIsSeq, BoundsAssumption
        <3> QED BY <3>2
    <2>5. Contains(new, turn.summary)
        <3>1. Len(new) \in 1..Len(new)
            <4>1. new \in Seq(Summary)
                BY <2>1, <2>2, LastTurnsType, UpToIsSeq, BoundsAssumption
            <4> QED BY <2>3, <4>1 DEF EndsWith
        <3> QED BY <2>3, <2>4, <3>1 DEF EndsWith, Contains
    <2>6. ASSUME MaxTurns > 1, NEW v, EndsWith(old, v) PROVE Contains(new, v)
        <3>1. Len(old) \in 1..Len(old) /\ Len(longer) > 1 /\ Len(longer) - 1 = Len(old)
            BY <1>2, <2>2, <2>6 DEF EndsWith
        <3>2. longer[Len(longer) - 1] = v
            BY <2>2, <2>6, <3>1 DEF EndsWith
        <3> QED BY <2>1, <2>2, <2>6, <3>1, <3>2, LastTurnsEnd
    <2> QED BY <1>5, <2>3, <2>5, <2>6 DEF old, new
<1> QED BY <1>4, <1>5

LastEntry(s) == turnLog[s][Len(turnLog[s])]

\* The last turn saved to a session is in its window, and at the end of it if it
\* was not there before.
WindowInv ==
    \A s \in Session : turnLog[s] # <<>> =>
        /\ sessions[s] # NoMemory
        /\ Contains(sessions[s].turns, LastEntry(s).summary)
        /\ ~LastEntry(s).repeats => EndsWith(sessions[s].turns, LastEntry(s).summary)

\* What a save leaves behind.
LEMMA SaveShape ==
    ASSUME ContextInv, NEW r \in Request, SaveContinuity(r), ~UNCHANGED sessionVars
    PROVE  \E asked \in Session, entry \in Turn, new \in SessionMemory :
            /\ asked = query[r].session
            /\ new = Updated(loaded[r], TurnOf(r))
            /\ sessions' = [sessions EXCEPT ![asked] = new]
            /\ turnLog' = [turnLog EXCEPT ![asked] = Append(@, entry)]
            /\ entry.repeats <=> Contains(Existing(loaded[r]).turns, entry.summary)
            /\ TurnOf(r).summary = entry.summary
            /\ loaded[r] \in SessionMemory \cup {NoMemory}
<1> DEFINE asked == query[r].session
           repeats == Contains(Existing(loaded[r]).turns, answer[r].summary)
           entry == [request |-> r, summary |-> answer[r].summary, repeats |-> repeats]
           new == Updated(loaded[r], TurnOf(r))
<1>1. stage[r] = "continuity_save" /\ answer[r] \in Answer /\ query[r] # None
    BY DEF SaveContinuity, Moves, ContextInv, StagesAreOrdered, Stage, Concluded
<1>2. asked \in Session
    BY <1>1, QueryIsTyped DEF ContextInv
<1>3. /\ TurnOf(r).summary = answer[r].summary
      /\ TurnOf(r).summary \in Summary /\ TurnOf(r).questions \in Seq(Question)
      /\ TurnOf(r).recommendation \in Summary \cup {NoMemory}
    BY <1>1 DEF TurnOf, Answer, ContextInv, TypeOK
<1>4. loaded[r] \in SessionMemory \cup {NoMemory}
    BY DEF ContextInv, TypeOK
<1>5. new \in SessionMemory
    BY <1>3, <1>4, UpdatedType
<1>6. /\ sessions' = [sessions EXCEPT ![asked] = new]
      /\ turnLog' = [turnLog EXCEPT ![asked] = Append(@, entry)]
    BY <1>3 DEF SaveContinuity, SaveSession
<1>7. /\ entry \in Turn /\ TurnOf(r).summary = entry.summary
      /\ entry.repeats <=> Contains(Existing(loaded[r]).turns, entry.summary)
    BY <1>3 DEF Turn, Contains
<1> HIDE DEF entry, new, asked
<1>8. asked = query[r].session /\ new = Updated(loaded[r], TurnOf(r))
    BY DEF asked, new
<1> QED BY <1>2, <1>4, <1>5, <1>6, <1>7, <1>8

\* The logs after a save.
LEMMA SavedLog ==
    ASSUME ContextInv, NEW asked \in Session, NEW entry,
           turnLog' = [turnLog EXCEPT ![asked] = Append(@, entry)]
    PROVE  /\ turnLog'[asked] # <<>>
           /\ Len(turnLog'[asked]) = Len(turnLog[asked]) + 1
           /\ LastEntry(asked)' = entry
           /\ turnLog[asked] # <<>> =>
                turnLog'[asked][Len(turnLog'[asked]) - 1] = LastEntry(asked)
           /\ \A s \in Session \ {asked} : turnLog'[s] = turnLog[s]
<1>1. turnLog \in [Session -> Seq(Turn)]
    BY DEF ContextInv, TypeOK
<1> DEFINE log == turnLog[asked]
<1>2. turnLog'[asked] = Append(log, entry) /\ \A s \in Session \ {asked} : turnLog'[s] = turnLog[s]
    BY <1>1
<1>3. log \in Seq(Turn)
    BY <1>1
<1>4. log \in Seq(Turn \cup {entry})
    <2> HIDE DEF log
    <2> QED BY <1>3
<1> HIDE DEF log
<1>5. /\ Append(log, entry) # <<>>
      /\ Len(Append(log, entry)) = Len(log) + 1
      /\ \A i \in 1..Len(log) : Append(log, entry)[i] = log[i]
      /\ Append(log, entry)[Len(log) + 1] = entry
    BY <1>4, AppendProperties
<1>6. log # <<>> => Len(log) \in 1..Len(log) /\ Len(log) + 1 - 1 = Len(log)
    BY <1>3, EmptySeq, LenProperties
<1> QED BY <1>2, <1>5, <1>6 DEF LastEntry, log

\* Only the save and the expiry write a session.
LEMMA SessionFrame ==
    ASSUME NEW r, Step(r)
    PROVE  SaveContinuity(r) \/ UNCHANGED sessionVars
BY DEF Step, Intake, Raises, Interpret, LoadSession, LoadKnowledge, Research, ResearchEnds,
       ResearchWithoutOutput, ResearchRaises, ConcludeFailure, ConcludeByModel, Concludes,
       ConclusionRaises, Distill, DistillNothing, Lookup, ResolveToCreate, ResolveToNoWrite,
       Store, WriteBackFails, Assemble, AssemblyRaises, LoadContinuity, RecordTurn, Crash,
       unchangedByWriteBack

LEMMA WindowInit == Init => WindowInv
BY DEF Init, SessionInit, WindowInv

LEMMA WindowNext == ContextInv /\ WindowInv /\ [Next]_vars => WindowInv'
<1> SUFFICES ASSUME ContextInv, WindowInv, [Next]_vars PROVE WindowInv'
    OBVIOUS
<1>1. ASSUME UNCHANGED sessionVars PROVE WindowInv'
    BY <1>1 DEF WindowInv, LastEntry, sessionVars
<1>2. ASSUME NEW r \in Request, SaveContinuity(r), ~UNCHANGED sessionVars PROVE WindowInv'
    <2>1. PICK asked \in Session, entry \in Turn, new \in SessionMemory :
            /\ asked = query[r].session
            /\ new = Updated(loaded[r], TurnOf(r))
            /\ sessions' = [sessions EXCEPT ![asked] = new]
            /\ turnLog' = [turnLog EXCEPT ![asked] = Append(@, entry)]
            /\ entry.repeats <=> Contains(Existing(loaded[r]).turns, entry.summary)
            /\ TurnOf(r).summary = entry.summary
            /\ loaded[r] \in SessionMemory \cup {NoMemory}
        BY <1>2, SaveShape
    <2>2. /\ Contains(new.turns, entry.summary)
          /\ ~entry.repeats => EndsWith(new.turns, entry.summary)
        <3>1. entry.summary \in Summary
            BY <2>1 DEF Turn
        <3> QED BY <2>1, <3>1, UpdatedWindow
    <2>3. new # NoMemory
        BY <2>1, NoMemoryAssumption
    <2>6. sessions \in [Session -> SessionMemory \cup {NoMemory}]
        BY DEF ContextInv, TypeOK, SessionTypeOK
    <2>7. LastEntry(asked)' = entry /\ \A s \in Session \ {asked} : turnLog'[s] = turnLog[s]
        BY <2>1, SavedLog
    <2>8. sessions'[asked] = new /\ \A s \in Session \ {asked} : sessions'[s] = sessions[s]
        BY <2>1, <2>6
    <2> SUFFICES ASSUME NEW s \in Session, turnLog'[s] # <<>>
                 PROVE  /\ sessions'[s] # NoMemory
                        /\ Contains(sessions'[s].turns, LastEntry(s)'.summary)
                        /\ ~LastEntry(s)'.repeats =>
                                EndsWith(sessions'[s].turns, LastEntry(s)'.summary)
        BY DEF WindowInv
    <2>9. CASE s = asked
        BY <2>2, <2>3, <2>7, <2>8, <2>9
    <2>10. CASE s # asked
        BY <2>7, <2>8, <2>10 DEF WindowInv, LastEntry
    <2> QED BY <2>9, <2>10
<1>3. ASSUME NEW s \in Session, Expire(s) PROVE WindowInv'
    BY <1>3 DEF Expire, ExpireSession, WindowInv, LastEntry, ContextInv, TypeOK, SessionTypeOK
<1> QED BY <1>1, <1>2, <1>3, SessionFrame DEF Next, vars

LEMMA WindowInvariant == Spec => [](ContextInv /\ WindowInv)
BY ContextInit, ContextNext, WindowInit, WindowNext, PTL DEF Spec

\* The last turn saved to a session is remembered, whoever else saved meanwhile
\* (_update_session_memory).
THEOREM LastTurnIsAlwaysKept == Spec => []LastTurnIsKept
<1>1. WindowInv => LastTurnIsKept
    BY DEF WindowInv, LastEntry, LastTurnIsKept
<1> QED BY <1>1, WindowInvariant, PTL

-----------------------------------------------------------------------------
(* Sessions of requests that do not overlap.                                 *)

Idle == {"intake"} \cup Ended

\* No other request is on its way.
Apart(x) == \A r \in Request \ {x} : stage[r] \in Idle

SerialNext == (\E x \in Request : Apart(x) /\ Step(x)) \/ (\E s \in Session : Expire(s))

SerialSpec == Init /\ [][SerialNext]_vars

BeforeSession == {"intake", "interpretation", "session_load"}

\* The stages of a run that has its session's questions.
Answering == Stage \ (BeforeSession \cup {"recording"})

\* What a step does to the session fields of a run.
TakesOver(x) ==
    \/ readSession'[x] = FALSE
    \/ /\ stage[x] \in BeforeSession /\ stage'[x] \in BeforeSession
       /\ readSession'[x] = readSession[x]
    \/ LoadSession(x)
    \/ /\ stage[x] \in Answering /\ stage'[x] \notin BeforeSession
       /\ query'[x] = query[x] /\ readSession'[x] = readSession[x]
       /\ open'[x] = open[x] \/ \E raised \in Seq(Question) : open'[x] = open[x] \o raised

\* A step of a run leaves the fields of the others alone.
OnlyOf(x) ==
    \A r \in Request \ {x} :
        /\ stage'[r] = stage[r] /\ query'[r] = query[r] /\ open'[r] = open[r]
        /\ readSession'[r] = readSession[r] /\ loaded'[r] = loaded[r]

LocalStep(x) ==
    /\ OnlyOf(x)
    /\ TakesOver(x)
    /\ stage'[x] = "continuity_save" => LoadContinuity(x)

LEMMA StepIsLocal ==
    ASSUME ContextInv, NEW x \in Request, Step(x)
    PROVE  LocalStep(x)
<1> USE DEF Moves, knowledgeVars, sessionVars, unchangedByWriteBack, OnlyOf, TakesOver, LocalStep,
        BeforeSession, Answering, Stage
<1>0. /\ stage \in [Request -> Stage \cup Ended]
      /\ query \in [Request -> Query \cup {None}]
      /\ open \in [Request -> Seq(Question)]
      /\ readSession \in [Request -> BOOLEAN]
      /\ loaded \in [Request -> SessionMemory \cup {NoMemory}]
    BY DEF ContextInv, TypeOK
<1>1. ASSUME NEW q \in Query, Intake(x, q) PROVE LocalStep(x)
    BY <1>0, <1>1 DEF Intake
<1>2. ASSUME NEW from, from # "continuity_save", Raises(x, from) PROVE LocalStep(x)
    BY <1>0, <1>2 DEF Raises, DropContext
<1>3. ASSUME Interpret(x) PROVE LocalStep(x)
    BY <1>0, <1>3 DEF Interpret
<1>4. ASSUME LoadSession(x) PROVE LocalStep(x)
    <2>1. OnlyOf(x)
        <3>1. readSession' = readSession \/ readSession' = [readSession EXCEPT ![x] = TRUE]
            BY <1>4 DEF LoadSession
        <3>2. open' = open \/ \E v : open' = [open EXCEPT ![x] = v]
            BY <1>4 DEF LoadSession
        <3> QED BY <1>0, <1>4, <3>1, <3>2 DEF LoadSession
    <2> QED BY <1>0, <1>4, <2>1 DEF LoadSession
<1>5. ASSUME LoadKnowledge(x) PROVE LocalStep(x)
    BY <1>0, <1>5 DEF LoadKnowledge
<1>6. ASSUME NEW status, NEW sources, NEW raised \in Seq(Question),
             ResearchEnds(x, status, sources, raised)
      PROVE  LocalStep(x)
    BY <1>0, <1>6 DEF ResearchEnds
<1>7. ASSUME Research(x) \/ ResearchWithoutOutput(x) \/ ResearchRaises(x) PROVE LocalStep(x)
    BY <1>6, <1>7, RaisedQuestions DEF Research, ResearchWithoutOutput, ResearchRaises
<1>8. ASSUME ConcludeFailure(x) \/ ConcludeByModel(x) PROVE LocalStep(x)
    BY <1>0, <1>8 DEF ConcludeFailure, ConcludeByModel, Concludes
<1>9. ASSUME ConclusionRaises(x) \/ AssemblyRaises(x) PROVE LocalStep(x)
    BY <1>2, <1>9 DEF ConclusionRaises, AssemblyRaises
<1>10. ASSUME Distill(x) \/ DistillNothing(x) PROVE LocalStep(x)
    BY <1>0, <1>10 DEF Distill, DistillNothing
<1>11. ASSUME Lookup(x) \/ ResolveToCreate(x) \/ ResolveToNoWrite(x) PROVE LocalStep(x)
    BY <1>0, <1>11 DEF Lookup, ResolveToCreate, ResolveToNoWrite
<1>12. ASSUME Store(x) PROVE LocalStep(x)
    BY <1>0, <1>12 DEF Store
<1>13. ASSUME WriteBackFails(x) PROVE LocalStep(x)
    BY <1>0, <1>13 DEF WriteBackFails
<1>14. ASSUME Assemble(x) PROVE LocalStep(x)
    BY <1>0, <1>14 DEF Assemble
<1>15. ASSUME LoadContinuity(x) PROVE LocalStep(x)
    <2>1. loaded' = loaded \/ \E v : loaded' = [loaded EXCEPT ![x] = v]
        BY <1>15 DEF LoadContinuity
    <2>2. /\ stage[x] = "continuity_load"
          /\ \E to \in {"continuity_save", "recording"} : stage' = [stage EXCEPT ![x] = to]
        BY <1>15 DEF LoadContinuity
    <2>3. UNCHANGED <<query, open, readSession>>
        BY <1>15 DEF LoadContinuity
    <2> QED BY <1>0, <1>15, <2>1, <2>2, <2>3
<1>16. ASSUME SaveContinuity(x) PROVE LocalStep(x)
    BY <1>0, <1>16 DEF SaveContinuity
<1>17. ASSUME RecordTurn(x) PROVE LocalStep(x)
    BY <1>0, <1>17 DEF RecordTurn, DropContext
<1>18. ASSUME Crash(x) PROVE LocalStep(x)
    BY <1>0, <1>18 DEF Crash, DropContext
<1> QED BY <1>1, <1>2, <1>3, <1>4, <1>5, <1>7, <1>8, <1>9, <1>10, <1>11, <1>12, <1>13, <1>14,
          <1>15, <1>16, <1>17, <1>18 DEF Step

\* Prefixes of question lists.
LEMMA PrefixAppended ==
    ASSUME NEW short \in Seq(Question), NEW long \in Seq(Question), NEW raised \in Seq(Question),
           IsPrefixOf(short, long)
    PROVE  IsPrefixOf(short, long \o raised)
<1>1. /\ DOMAIN short = 1..Len(short) /\ Len(short) \in Nat /\ Len(long) \in Nat
      /\ Len(short) <= Len(long) /\ \A i \in DOMAIN short : long[i] = short[i]
    BY DEF IsPrefixOf
<1>2. /\ Len(long \o raised) = Len(long) + Len(raised) /\ Len(raised) \in Nat
      /\ \A i \in 1..Len(long) : (long \o raised)[i] = long[i]
    BY <1>1, ConcatProperties
<1>3. \A i \in DOMAIN short : i \in 1..Len(long)
    BY <1>1
<1> QED BY <1>1, <1>2, <1>3 DEF IsPrefixOf

LEMMA PrefixBounded ==
    ASSUME NEW short \in Seq(Question), NEW long \in Seq(Question),
           Len(short) <= MaxQuestions, IsPrefixOf(short, long)
    PROVE  IsPrefixOf(short, BoundedQuestions(long))
<1> DEFINE to == IF Len(long) > MaxQuestions THEN MaxQuestions ELSE Len(long)
<1>1. /\ DOMAIN short = 1..Len(short) /\ Len(short) \in Nat /\ Len(long) \in Nat
      /\ Len(short) <= Len(long) /\ \A i \in DOMAIN short : long[i] = short[i]
      /\ MaxQuestions \in Nat
    BY BoundsAssumption DEF IsPrefixOf
<1>2. to \in Int /\ 0 <= to /\ to <= Len(long) /\ Len(short) <= to
    BY <1>1
<1>3. \A i \in 1..to : long[i] \in Question
    BY <1>1, <1>2, ElementOfSeq
<1> HIDE DEF to
<1>4. /\ Len(SubSeq(long, 1, to)) = IF 1 <= to THEN to - 1 + 1 ELSE 0
      /\ \A i \in 1..(to - 1 + 1) : SubSeq(long, 1, to)[i] = long[1 + i - 1]
    BY <1>2, <1>3, SubSeqProperties
<1>5. Len(SubSeq(long, 1, to)) = to
    BY <1>2, <1>4
<1>6. \A i \in DOMAIN short : SubSeq(long, 1, to)[i] = long[i]
    BY <1>1, <1>2, <1>4
<1>7. BoundedQuestions(long) = SubSeq(long, 1, to)
    BY DEF BoundedQuestions, to
<1> QED BY <1>1, <1>2, <1>5, <1>6, <1>7 DEF IsPrefixOf

\* The questions of a stored memory.
LEMMA StoredQuestions ==
    ASSUME ContextInv, NEW s \in Session
    PROVE  /\ Existing(sessions[s]).questions \in Seq(Question)
           /\ Len(Existing(sessions[s]).questions) <= MaxQuestions
<1>1. sessions[s] \in SessionMemory \cup {NoMemory}
    BY DEF ContextInv, TypeOK, SessionTypeOK
<1>2. Existing(sessions[s]).questions \in UpTo(Question, MaxQuestions)
    BY <1>1, ExistingType DEF SessionMemory
<1> QED BY <1>2, UpToIsSeq, BoundsAssumption

\* The memory a run has loaded is the stored one until it saves, unless that one
\* has expired.
LoadsAreCurrent ==
    \A r \in Request : stage[r] = "continuity_save" =>
        \/ turnLog[query[r].session] = <<>>
        \/ loaded[r] = sessions[query[r].session]

\* The open questions of a run that read its session begin with the session's.
QuestionsInv ==
    \A r \in Request :
        /\ stage[r] \in BeforeSession => ~readSession[r]
        /\ stage[r] \in Answering /\ readSession[r] =>
            IsPrefixOf(Existing(sessions[query[r].session]).questions, open[r])

SerialInv == LoadsAreCurrent /\ QuestionsInv

LEMMA SerialInit == Init => SerialInv
BY DEF Init, SerialInv, LoadsAreCurrent, QuestionsInv, BeforeSession, Answering, Stage

LEMMA SerialStep ==
    ASSUME ContextInv, SerialInv, NEW x \in Request, Step(x), Apart(x) \/ UNCHANGED sessionVars
    PROVE  SerialInv'
<1>1. OnlyOf(x) /\ TakesOver(x) /\ (stage'[x] = "continuity_save" => LoadContinuity(x))
    BY StepIsLocal DEF LocalStep
<1>2. ASSUME NEW r \in Request \ {x}
      PROVE  /\ stage[r] \in Idle \/ UNCHANGED sessionVars
             /\ stage'[r] = stage[r] /\ query'[r] = query[r] /\ open'[r] = open[r]
             /\ readSession'[r] = readSession[r] /\ loaded'[r] = loaded[r]
    BY <1>1, <1>2 DEF Apart, OnlyOf
<1>3. LoadsAreCurrent'
    <2> SUFFICES ASSUME NEW r \in Request, stage'[r] = "continuity_save"
                 PROVE  \/ turnLog'[query'[r].session] = <<>>
                        \/ loaded'[r] = sessions'[query'[r].session]
        BY DEF LoadsAreCurrent
    <2>1. CASE r # x
        <3>1. UNCHANGED sessionVars
            BY <1>2, <2>1 DEF Idle, Ended
        <3> QED BY <1>2, <2>1, <3>1 DEF SerialInv, LoadsAreCurrent, sessionVars
    <2>2. CASE r = x
        <3>1. /\ stage[x] = "continuity_load" /\ UNCHANGED <<sessionVars, query>>
              /\ \/ loaded' = [loaded EXCEPT ![x] = sessions[query[x].session]]
                 \/ stage' = [stage EXCEPT ![x] = "recording"]
            BY <1>1, <2>2 DEF LoadContinuity, Moves
        <3> QED BY <2>2, <3>1 DEF ContextInv, TypeOK, sessionVars
    <2> QED BY <2>1, <2>2
<1>4. QuestionsInv'
    <2> DEFINE carried(r) == IsPrefixOf(Existing(sessions[query[r].session]).questions, open[r])
    <2> SUFFICES ASSUME NEW r \in Request
                 PROVE  /\ stage'[r] \in BeforeSession => ~readSession'[r]
                        /\ stage'[r] \in Answering /\ readSession'[r] => carried(r)'
        BY DEF QuestionsInv
    <2>1. CASE r # x
        <3>1. stage[r] \in Answering => UNCHANGED sessionVars
            BY <1>2, <2>1 DEF Idle, Ended, Answering, Stage, BeforeSession
        <3> QED BY <1>2, <2>1, <3>1 DEF SerialInv, QuestionsInv, sessionVars
    <2>2. CASE r = x
        <3>1. CASE readSession'[x] = FALSE
            BY <2>2, <3>1
        <3>2. CASE /\ stage[x] \in BeforeSession /\ stage'[x] \in BeforeSession
                   /\ readSession'[x] = readSession[x]
            BY <2>2, <3>2 DEF SerialInv, QuestionsInv, Answering
        <3>3. CASE LoadSession(x)
            <4>1. /\ stage[x] = "session_load" /\ stage'[x] = "knowledge_load"
                  /\ UNCHANGED <<sessionVars, query>>
                BY <3>3 DEF LoadSession, Moves, ContextInv, TypeOK
            <4>2. CASE UNCHANGED readSession
                BY <2>2, <4>1, <4>2 DEF SerialInv, QuestionsInv, BeforeSession
            <4>3. CASE open' = [open EXCEPT ![x] = Existing(sessions[query[x].session]).questions]
                <5>1. open'[x] = Existing(sessions[query[x].session]).questions
                    BY <4>3 DEF ContextInv, TypeOK
                <5>2. carried(x)'
                    BY <4>1, <5>1 DEF IsPrefixOf, sessionVars
                <5> QED BY <2>2, <4>1, <5>2 DEF BeforeSession
            <4> QED BY <3>3, <4>2, <4>3 DEF LoadSession
        <3>4. CASE /\ stage[x] \in Answering /\ stage'[x] \notin BeforeSession
                   /\ query'[x] = query[x] /\ readSession'[x] = readSession[x]
                   /\ open'[x] = open[x] \/ \E raised \in Seq(Question) : open'[x] = open[x] \o raised
            <4>1. stage'[x] \in Answering => UNCHANGED sessionVars
                BY SessionFrame DEF SaveContinuity, Moves, Answering, Stage, ContextInv, TypeOK
            <4>3. stage'[x] \in Answering /\ readSession'[x] => carried(x)'
                <5> SUFFICES ASSUME stage'[x] \in Answering, readSession'[x] PROVE carried(x)'
                    OBVIOUS
                <5> DEFINE stored == Existing(sessions[query[x].session]).questions
                <5>1. carried(x) /\ UNCHANGED sessionVars
                    BY <3>4, <4>1 DEF SerialInv, QuestionsInv
                <5>2. query[x].session \in Session
                    BY <3>4, QueryIsTyped DEF ContextInv, StagesAreOrdered, Answering, BeforeSession
                <5>3. stored \in Seq(Question) /\ open[x] \in Seq(Question)
                    BY <5>2, StoredQuestions DEF ContextInv, TypeOK
                <5>4. IsPrefixOf(stored, open'[x])
                    BY <3>4, <5>1, <5>3, PrefixAppended
                <5> QED BY <3>4, <5>1, <5>4 DEF sessionVars
            <4> QED BY <2>2, <3>4, <4>3
        <3> QED BY <1>1, <3>1, <3>2, <3>3, <3>4 DEF TakesOver
    <2> QED BY <2>1, <2>2
<1> QED BY <1>3, <1>4 DEF SerialInv

\* A session that expires has no questions and no turns.
LEMMA ExpiryKeepsSerial ==
    ASSUME ContextInv, SerialInv, NEW s \in Session, Expire(s)
    PROVE  SerialInv'
<1>1. /\ sessions' = [sessions EXCEPT ![s] = NoMemory]
      /\ turnLog' = [turnLog EXCEPT ![s] = <<>>]
      /\ UNCHANGED <<stage, query, open, readSession, loaded>>
    BY DEF Expire, ExpireSession, runVars
<1>2. /\ sessions \in [Session -> SessionMemory \cup {NoMemory}]
      /\ turnLog \in [Session -> Seq(Turn)]
    BY DEF ContextInv, TypeOK, SessionTypeOK
<1>3. LoadsAreCurrent'
    <2> SUFFICES ASSUME NEW r \in Request, stage[r] = "continuity_save"
                 PROVE  \/ turnLog'[query[r].session] = <<>>
                        \/ loaded[r] = sessions'[query[r].session]
        BY <1>1 DEF LoadsAreCurrent
    <2>1. query[r].session \in Session
        BY QueryIsTyped DEF ContextInv, StagesAreOrdered, Stage
    <2> QED BY <1>1, <1>2, <2>1 DEF SerialInv, LoadsAreCurrent
<1>4. QuestionsInv'
    <2> SUFFICES ASSUME NEW r \in Request, stage[r] \in Answering, readSession[r]
                 PROVE  IsPrefixOf(Existing(sessions'[query[r].session]).questions, open[r])
        BY <1>1 DEF SerialInv, QuestionsInv
    <2>1. query[r].session \in Session /\ open[r] \in Seq(Question)
        BY QueryIsTyped DEF ContextInv, TypeOK, StagesAreOrdered, Answering, BeforeSession
    <2>2. CASE query[r].session = s
        <3>1. Existing(sessions'[query[r].session]).questions = <<>>
            BY <1>1, <1>2, <2>1, <2>2 DEF Existing, EmptyMemory
        <3>2. IsPrefixOf(<<>>, open[r])
            BY <2>1, LenProperties DEF IsPrefixOf
        <3> QED BY <3>1, <3>2
    <2>3. CASE query[r].session # s
        BY <1>1, <1>2, <2>1, <2>3 DEF SerialInv, QuestionsInv
    <2> QED BY <2>2, <2>3
<1> QED BY <1>3, <1>4 DEF SerialInv

LEMMA SerialStutter ==
    ASSUME SerialInv, UNCHANGED vars
    PROVE  SerialInv'
BY DEF SerialInv, LoadsAreCurrent, QuestionsInv, vars, sessionVars, runVars

\* A save of the memory that is stored keeps the turn before in the window.
LEMMA TurnBeforeStep ==
    ASSUME MaxTurns > 1, ContextInv, WindowInv, LoadsAreCurrent, TurnBeforeIsKept, [Next]_vars
    PROVE  TurnBeforeIsKept'
<1>0. /\ sessions \in [Session -> SessionMemory \cup {NoMemory}]
      /\ turnLog \in [Session -> Seq(Turn)]
    BY DEF ContextInv, TypeOK, SessionTypeOK
<1>1. ASSUME UNCHANGED sessionVars PROVE TurnBeforeIsKept'
    BY <1>1 DEF TurnBeforeIsKept, sessionVars
<1>2. ASSUME NEW s \in Session, Expire(s) PROVE TurnBeforeIsKept'
    <2>1. Len(<<>>) = 0
        OBVIOUS
    <2> QED BY <1>0, <1>2, <2>1 DEF Expire, ExpireSession, TurnBeforeIsKept
<1>3. ASSUME NEW r \in Request, SaveContinuity(r), ~UNCHANGED sessionVars PROVE TurnBeforeIsKept'
    <2>1. PICK asked \in Session, entry \in Turn, new \in SessionMemory :
            /\ asked = query[r].session
            /\ new = Updated(loaded[r], TurnOf(r))
            /\ sessions' = [sessions EXCEPT ![asked] = new]
            /\ turnLog' = [turnLog EXCEPT ![asked] = Append(@, entry)]
            /\ entry.repeats <=> Contains(Existing(loaded[r]).turns, entry.summary)
            /\ TurnOf(r).summary = entry.summary
            /\ loaded[r] \in SessionMemory \cup {NoMemory}
        BY <1>3, SaveShape
    <2>2. /\ turnLog'[asked] # <<>> /\ Len(turnLog'[asked]) = Len(turnLog[asked]) + 1
          /\ turnLog[asked] # <<>> =>
                turnLog'[asked][Len(turnLog'[asked]) - 1] = LastEntry(asked)
          /\ \A s \in Session \ {asked} : turnLog'[s] = turnLog[s]
        BY <2>1, SavedLog
    <2>3. sessions'[asked] = new /\ \A s \in Session \ {asked} : sessions'[s] = sessions[s]
        BY <1>0, <2>1
    <2> SUFFICES ASSUME NEW s \in Session, Len(turnLog'[s]) > 1,
                        NEW before, before = turnLog'[s][Len(turnLog'[s]) - 1], ~before.repeats
                 PROVE  Contains(sessions'[s].turns, before.summary)
        BY DEF TurnBeforeIsKept
    <2>4. CASE s # asked
        BY <2>2, <2>3, <2>4 DEF TurnBeforeIsKept
    <2>5. CASE s = asked
        <3>1. turnLog[asked] # <<>>
            <4>1. Len(<<>>) = 0
                OBVIOUS
            <4> QED BY <2>2, <2>5, <4>1
        <3>2. before = LastEntry(asked)
            BY <2>2, <2>5, <3>1
        <3>3. sessions[asked] # NoMemory /\ EndsWith(sessions[asked].turns, before.summary)
            BY <3>1, <3>2 DEF WindowInv
        <3>4. loaded[r] = sessions[asked]
            BY <1>3, <2>1, <3>1 DEF LoadsAreCurrent, SaveContinuity, Moves
        <3>5. EndsWith(Existing(loaded[r]).turns, before.summary)
            BY <3>3, <3>4 DEF Existing
        <3>6. Contains(new.turns, before.summary)
            <4>1. TurnOf(r).summary \in Summary
                BY <2>1 DEF Turn
            <4> QED BY <2>1, <3>5, <4>1, UpdatedWindow
        <3> QED BY <2>3, <2>5, <3>6
    <2> QED BY <2>4, <2>5
<1> QED BY <1>1, <1>2, <1>3, SessionFrame DEF Next, vars

\* A save by a run that read its session passes the questions on.
LEMMA SavesCarryQuestions ==
    ASSUME ContextInv, QuestionsInv, [Next]_vars
    PROVE  QuestionsAreCarried
<1> SUFFICES ASSUME NEW r \in Request,
                    stage[r] = "continuity_save", stage'[r] = "recording", readSession[r],
                    turnLog'[query[r].session] # turnLog[query[r].session]
             PROVE  IsPrefixOf(Existing(sessions[query[r].session]).questions,
                               sessions'[query[r].session].questions)
    BY DEF QuestionsAreCarried
<1>1. SaveContinuity(r) /\ ~UNCHANGED sessionVars
    <2>1. ~UNCHANGED stage
        OBVIOUS
    <2>2. PICK x \in Request : Step(x)
        BY <2>1 DEF Next, Expire, vars, runVars
    <2>3. x = r
        BY <2>2, StepIsLocal DEF LocalStep, OnlyOf
    <2>4. ~UNCHANGED sessionVars
        BY DEF sessionVars
    <2> QED BY <2>2, <2>3, <2>4, SessionFrame
<1>2. PICK asked \in Session, entry \in Turn, new \in SessionMemory :
        /\ asked = query[r].session
        /\ new = Updated(loaded[r], TurnOf(r))
        /\ sessions' = [sessions EXCEPT ![asked] = new]
        /\ turnLog' = [turnLog EXCEPT ![asked] = Append(@, entry)]
        /\ entry.repeats <=> Contains(Existing(loaded[r]).turns, entry.summary)
        /\ TurnOf(r).summary = entry.summary
        /\ loaded[r] \in SessionMemory \cup {NoMemory}
    BY <1>1, SaveShape
<1>3. sessions'[asked].questions = BoundedQuestions(open[r])
    BY <1>2 DEF ContextInv, TypeOK, SessionTypeOK, Updated, TurnOf
<1>4. IsPrefixOf(Existing(sessions[asked]).questions, open[r])
    BY <1>2 DEF QuestionsInv, Answering, Stage, BeforeSession
<1>5. open[r] \in Seq(Question)
    BY DEF ContextInv, TypeOK
<1>6. IsPrefixOf(Existing(sessions[asked]).questions, BoundedQuestions(open[r]))
    BY <1>4, <1>5, StoredQuestions, PrefixBounded
<1> QED BY <1>2, <1>3, <1>6

LEMMA SerialNextKeeps ==
    ASSUME ContextInv, SerialInv, [SerialNext]_vars
    PROVE  SerialInv' /\ [Next]_vars
BY SerialStep, ExpiryKeepsSerial, SerialStutter DEF SerialNext, Next

LEMMA SerialInvariant == SerialSpec => [](ContextInv /\ WindowInv /\ SerialInv)
BY ContextInit, ContextNext, WindowInit, WindowNext, SerialInit, SerialNextKeeps, PTL DEF SerialSpec

\* Of requests that do not overlap, the turn before the last is remembered too,
\* as the window has room for two (_MAX_RECENT_TURN_SUMMARIES).
THEOREM SerialTurnsAreKept ==
    ASSUME MaxTurns > 1
    PROVE  SerialSpec => []TurnBeforeIsKept
<1>1. Init => TurnBeforeIsKept
    <2>1. Len(<<>>) = 0
        OBVIOUS
    <2> QED BY <2>1 DEF Init, SessionInit, TurnBeforeIsKept
<1>2. ContextInv /\ WindowInv /\ SerialInv /\ TurnBeforeIsKept /\ [SerialNext]_vars
        => TurnBeforeIsKept'
    BY TurnBeforeStep, SerialNextKeeps DEF SerialInv
<1> QED BY <1>1, <1>2, SerialInvariant, PTL DEF SerialSpec

\* Requests that do not overlap never lose an open question of the session they
\* read, and never move it (_load_session_memory, _bound_session_memory).
THEOREM SerialQuestionsAreCarried == SerialSpec => [][QuestionsAreCarried]_vars
<1>1. ContextInv /\ SerialInv /\ [SerialNext]_vars => QuestionsAreCarried
    BY SavesCarryQuestions, SerialNextKeeps DEF SerialInv
<1> QED BY <1>1, SerialInvariant, PTL DEF SerialSpec

-----------------------------------------------------------------------------
(* The scenarios of the model-checking module are behaviours of the pipeline. *)

LEMMA ScenarioSteps ==
    ASSUME [MCNext]_mcvars
    PROVE  [Next]_vars /\ UNCHANGED <<scenario, serial>>
<1>1. ASSUME NEW r \in Request, RequestStep(r) PROVE Next /\ UNCHANGED <<scenario, serial>>
    BY <1>1 DEF RequestStep, Next
<1>2. CASE SessionExpires
    BY <1>2 DEF SessionExpires, Next
<1>3. CASE CallerBrowses
    BY <1>3 DEF CallerBrowses, BrowsingNext, OpenListing, NextPage, vars
<1>4. CASE UNCHANGED mcvars
    BY <1>4 DEF mcvars
<1> QED BY <1>1, <1>2, <1>3, <1>4 DEF MCNext

LEMMA ScenariosRefine == MCSpec => Spec
<1>1. MCInit => Init
    BY DEF MCInit
<1>2. [MCNext]_mcvars => [Next]_vars
    BY ScenarioSteps
<1> QED BY <1>1, <1>2, PTL DEF MCSpec, Spec

ScenarioInv ==
    /\ serial => scenario # "browsing"
    /\ serial => SerialInv

LEMMA ScenarioInit == MCInit => ScenarioInv
BY SerialInit DEF MCInit, ScenarioInv

\* In a serial scenario a request moves while the others are idle, or, in those
\* about knowledge, without touching a session.
LEMMA SerialScenarioStep ==
    ASSUME ScenarioInv, serial, NEW x \in Request, RequestStep(x)
    PROVE  Step(x) /\ (Apart(x) \/ UNCHANGED sessionVars)
<1>1. Step(x) /\ Takes(x) /\ (scenario # "session" => KnowledgeScenario(x))
    BY DEF RequestStep
<1>2. CASE scenario = "session"
    BY <1>1, <1>2 DEF Takes, Done, Apart, Idle, Ended
<1>3. CASE scenario # "session"
    BY <1>1, <1>3 DEF KnowledgeScenario
<1> QED BY <1>1, <1>2, <1>3

LEMMA ScenarioNext == ContextInv /\ ScenarioInv /\ [MCNext]_mcvars => ScenarioInv'
<1> SUFFICES ASSUME ContextInv, ScenarioInv, [MCNext]_mcvars PROVE ScenarioInv'
    OBVIOUS
<1>1. UNCHANGED <<scenario, serial>>
    BY ScenarioSteps
<1>2. ASSUME serial PROVE SerialInv'
    <2>1. SerialInv
        BY <1>2 DEF ScenarioInv
    <2>2. ASSUME NEW x \in Request, RequestStep(x) PROVE SerialInv'
        BY <1>2, <2>1, <2>2, SerialScenarioStep, SerialStep
    <2>3. CASE SessionExpires
        BY <2>1, <2>3, ExpiryKeepsSerial DEF SessionExpires
    <2>4. CASE CallerBrowses
        BY <2>1, <2>4, SerialStutter DEF CallerBrowses, BrowsingNext, OpenListing, NextPage, vars
    <2>5. CASE UNCHANGED mcvars
        BY <2>1, <2>5, SerialStutter DEF mcvars
    <2> QED BY <2>2, <2>3, <2>4, <2>5 DEF MCNext
<1> QED BY <1>1, <1>2 DEF ScenarioInv

LEMMA ScenarioInvariant == MCSpec => [](ContextInv /\ WindowInv /\ ScenarioInv)
<1>1. MCInit => Init
    BY DEF MCInit
<1>2. [MCNext]_mcvars => [Next]_vars
    BY ScenarioSteps
<1> QED BY <1>1, <1>2, ContextInit, ContextNext, WindowInit, WindowNext, ScenarioInit, ScenarioNext,
          PTL DEF MCSpec

\* Every session remembers the last turn saved to it, and the one before it in
\* the scenarios whose requests follow one another.
THEOREM RecentTurnsAreAlwaysRemembered ==
    ASSUME MaxTurns > 1
    PROVE  MCSpec => []RecentTurnsAreRemembered
<1> DEFINE Kept == serial => TurnBeforeIsKept
<1>1. MCInit => Kept
    <2>1. Len(<<>>) = 0
        OBVIOUS
    <2> QED BY <2>1 DEF MCInit, Init, SessionInit, TurnBeforeIsKept
<1>2. ContextInv /\ WindowInv /\ ScenarioInv /\ Kept /\ [MCNext]_mcvars => Kept'
    BY ScenarioSteps, TurnBeforeStep DEF ScenarioInv, SerialInv
<1>3. WindowInv /\ Kept => RecentTurnsAreRemembered
    BY DEF WindowInv, LastEntry, LastTurnIsKept, RecentTurnsAreRemembered
<1> QED BY <1>1, <1>2, <1>3, ScenarioInvariant, PTL DEF MCSpec

\* The open questions of a session are carried through the turns of requests that
\* follow one another.
THEOREM SerialTurnsAlwaysCarryQuestions == MCSpec => SerialTurnsCarryQuestions
<1>1. ContextInv /\ ScenarioInv /\ [MCNext]_mcvars => [serial => QuestionsAreCarried]_mcvars
    BY ScenarioSteps, SavesCarryQuestions DEF ScenarioInv, SerialInv
<1> QED BY <1>1, ScenarioInvariant, PTL DEF MCSpec, SerialTurnsCarryQuestions

-----------------------------------------------------------------------------
(* Stored once.  Of requests that do not overlap, no row is inserted between *)
(* the lookup of a candidate and its own insert, so the recall the candidate *)
(* was compared with is one of the table it is inserted into.                *)

Comparing == {"resolution", "store"}

RecallsAreCurrent ==
    \A r \in Request :
        /\ stage[r] \in Comparing =>
            recalled[r] \in Recall(query[r].scope, candidate[r].content.text)
        /\ stage[r] = "store" =>
            /\ ~ExactDuplicate(r)
            /\ shaped[r].row.content = candidate[r].content

\* The table is finite.
LookupInv == IsFiniteSet(Rows) /\ RecallsAreCurrent

LEMMA LookupInit == Init => LookupInv
<1> SUFFICES ASSUME Init PROVE LookupInv
    OBVIOUS
<1>1. Rows = {}
    BY DEF Init, KnowledgeInit, Rows
<1> QED BY <1>1, FS_EmptySet DEF Init, LookupInv, RecallsAreCurrent, Comparing

\* What a step of a run does to the table and its own comparison.
ComparesOrNot(x) ==
    \/ Lookup(x) \/ ResolveToCreate(x) \/ Store(x)
    \/ UNCHANGED knowledge /\ stage'[x] \notin Comparing

LEMMA StepCompares ==
    ASSUME ContextInv, NEW x \in Request, Step(x)
    PROVE  ComparesOrNot(x)
<1> USE DEF Moves, knowledgeVars, Comparing, ComparesOrNot
<1>0. stage \in [Request -> Stage \cup Ended]
    BY DEF ContextInv, TypeOK
<1>1. ASSUME (\E q \in Query : Intake(x, q)) \/ Interpret(x) \/ LoadSession(x) \/ LoadKnowledge(x)
      PROVE  ComparesOrNot(x)
    BY <1>0, <1>1 DEF Intake, Interpret, LoadSession, LoadKnowledge
<1>2. ASSUME Research(x) \/ ResearchWithoutOutput(x) \/ ResearchRaises(x) PROVE ComparesOrNot(x)
    BY <1>0, <1>2 DEF Research, ResearchWithoutOutput, ResearchRaises, ResearchEnds
<1>3. ASSUME ConcludeFailure(x) \/ ConcludeByModel(x) PROVE ComparesOrNot(x)
    BY <1>0, <1>3 DEF ConcludeFailure, ConcludeByModel, Concludes
<1>4. ASSUME Raises(x, "intake") \/ ConclusionRaises(x) \/ AssemblyRaises(x) PROVE ComparesOrNot(x)
    BY <1>0, <1>4 DEF Raises, ConclusionRaises, AssemblyRaises
<1>5. ASSUME Distill(x) \/ DistillNothing(x) \/ ResolveToNoWrite(x) \/ WriteBackFails(x)
      PROVE  ComparesOrNot(x)
    BY <1>0, <1>5 DEF Distill, DistillNothing, ResolveToNoWrite, ResolveKnowledgeToNoWrite,
        WriteBackFails, KnowledgeNotWritten
<1>6. ASSUME Assemble(x) \/ LoadContinuity(x) \/ SaveContinuity(x) PROVE ComparesOrNot(x)
    BY <1>0, <1>6 DEF Assemble, LoadContinuity, SaveContinuity
<1>7. ASSUME RecordTurn(x) \/ Crash(x) PROVE ComparesOrNot(x)
    BY <1>0, <1>7 DEF RecordTurn, Crash
<1> QED BY <1>1, <1>2, <1>3, <1>4, <1>5, <1>6, <1>7 DEF Step

LEMMA LookupStep ==
    ASSUME ContextInv, LookupInv, NEW x \in Request, Step(x),
           \A r \in Request \ {x} : stage[r] \notin Comparing
    PROVE  LookupInv'
<1>1. \A r \in Request \ {x} : stage'[r] \notin Comparing
    BY StepIsLocal DEF LocalStep, OnlyOf
<1>2. /\ candidate \in [Request -> Candidate \cup {None}]
      /\ recalled \in [Request -> SUBSET KnowledgeId]
      /\ shaped \in [Request -> [id: KnowledgeId, row: Row] \cup {None}]
      /\ knowledge \in [KnowledgeId -> Row \cup {None}]
      /\ stage \in [Request -> Stage \cup Ended]
    BY DEF ContextInv, TypeOK, KnowledgeTypeOK
<1>3. CASE Lookup(x)
    <2>1. /\ UNCHANGED <<knowledge, candidate, query>>
          /\ stage'[x] = "resolution"
          /\ recalled'[x] \in Recall(query[x].scope, candidate[x].content.text)
        BY <1>2, <1>3 DEF Lookup, LookupKnowledge, Moves, unchangedByWriteBack
    <2>2. \A scope, text : Recall(scope, text)' = Recall(scope, text)
        BY <2>1 DEF Recall, Visible, Rows
    <2> QED BY <1>1, <2>1, <2>2 DEF LookupInv, RecallsAreCurrent, Rows, Comparing
<1>4. CASE ResolveToCreate(x)
    <2>1. /\ UNCHANGED <<knowledge, candidate, recalled, query>>
          /\ stage[x] = "resolution" /\ stage'[x] = "store"
          /\ ~ExactDuplicate(x)
        BY <1>2, <1>4 DEF ResolveToCreate, ResolveKnowledgeToCreate, Moves, unchangedByWriteBack
    <2>2. PICK k \in FreshIds, now \in {clock, clock + 1} :
            shaped' = [shaped EXCEPT ![x] = [id |-> k, row |-> ShapedRow(x, query[x].scope, now)]]
        BY <1>4 DEF ResolveToCreate, ResolveKnowledgeToCreate
    <2>3. shaped'[x] = [id |-> k, row |-> ShapedRow(x, query[x].scope, now)]
        BY <1>2, <2>2
    <2>5. shaped'[x].row.content = candidate[x].content
        BY <2>3 DEF ShapedRow
    <2>6. \A scope, text : Recall(scope, text)' = Recall(scope, text)
        BY <2>1 DEF Recall, Visible, Rows
    <2> QED BY <1>1, <2>1, <2>5, <2>6 DEF LookupInv, RecallsAreCurrent, Rows, Comparing,
                ExactDuplicate
<1>5. CASE Store(x)
    <2>1. stage'[x] = "distillation" /\ knowledge' = [knowledge EXCEPT ![shaped[x].id] = shaped[x].row]
        BY <1>2, <1>5 DEF Store, StoreKnowledge, Moves
    <2>2. Rows' \subseteq Rows \cup {shaped[x].id}
        BY <1>2, <2>1 DEF Rows
    <2>3. IsFiniteSet(Rows')
        BY <2>2, FS_AddElement, FS_Subset DEF LookupInv
    <2> QED BY <1>1, <2>1, <2>3 DEF LookupInv, RecallsAreCurrent, Comparing
<1>6. CASE UNCHANGED knowledge /\ stage'[x] \notin Comparing
    BY <1>1, <1>6 DEF LookupInv, RecallsAreCurrent, Rows, Comparing
<1> QED BY <1>3, <1>4, <1>5, <1>6, StepCompares DEF ComparesOrNot

LEMMA LookupStutter ==
    ASSUME LookupInv, UNCHANGED <<knowledgeVars, runVars>>
    PROVE  LookupInv'
BY DEF LookupInv, RecallsAreCurrent, Recall, Visible, Rows, ExactDuplicate, knowledgeVars, runVars

\* The rows of one owner and text.
SameText(k) ==
    {l \in Rows : /\ knowledge[l].owner = knowledge[k].owner
                  /\ knowledge[l].content.text = knowledge[k].content.text}

\* A duplicate of a row that is about to be inserted would be among the rows the
\* candidate was compared with, if a recall can hold all rows of its text.
LEMMA InsertsAreNew ==
    ASSUME ContextInv, SourcesInv, LookupInv, Uncrowded, NEW r \in Request, stage[r] = "store",
           shaped[r] # None, NEW l \in Rows, knowledge[l].owner = shaped[r].row.owner,
           knowledge[l].project = shaped[r].row.project
    PROVE  knowledge[l].content # shaped[r].row.content
<1> DEFINE scope == query[r].scope
           found == recalled[r]
           text == candidate[r].content.text
<1> SUFFICES ASSUME knowledge[l].content = shaped[r].row.content PROVE FALSE
    OBVIOUS
<1>1. /\ found \in Recall(scope, text) /\ ~ExactDuplicate(r)
      /\ shaped[r].row.content = candidate[r].content
    BY DEF LookupInv, RecallsAreCurrent, Comparing
<1>2. shaped[r].row.owner = scope.user /\ shaped[r].row.project = scope.project
    BY <1>1 DEF SourcesInv, InsertsAreSound
<1>3. l \in Visible(scope)
    BY <1>2 DEF Visible
<1>4. l \notin found
    BY <1>1 DEF ExactDuplicate
<1>5. /\ found \subseteq Visible(scope) /\ Cardinality(found) = RecallLimit
      /\ \A k \in found : knowledge[k].content.text = text
    BY <1>1, <1>3, <1>4 DEF Recall
<1>6. found \cup {l} \subseteq SameText(l)
    BY <1>1, <1>2, <1>5 DEF Visible, SameText
<1>7. IsFiniteSet(Rows) /\ SameText(l) \subseteq Rows
    BY DEF LookupInv, SameText
<1>8. IsFiniteSet(SameText(l))
    BY <1>7, FS_Subset
<1>9. IsFiniteSet(found)
    BY <1>6, <1>8, FS_Subset
<1>10. Cardinality(found \cup {l}) = RecallLimit + 1
    BY <1>4, <1>5, <1>9, FS_AddElement
<1>11. Cardinality(found \cup {l}) <= Cardinality(SameText(l))
    BY <1>6, <1>8, FS_Subset
<1>12. Cardinality(SameText(l)) \in Nat /\ RecallLimit \in Nat
    BY <1>8, FS_CardinalityType, LimitAssumption
<1>13. Cardinality(SameText(l)) <= RecallLimit
    BY DEF Uncrowded, SameText
<1> QED BY <1>10, <1>11, <1>12, <1>13

\* Rows are added, never changed: what crowds a text now crowds it later.
LEMMA CrowdedForGood ==
    ASSUME ContextInv, SourcesInv, LookupInv, NEW x \in Request, Store(x), Uncrowded', IsFiniteSet(Rows')
    PROVE  Uncrowded
<1> SUFFICES ASSUME NEW k \in Rows PROVE Cardinality(SameText(k)) <= RecallLimit
    BY DEF Uncrowded, SameText
<1>1. /\ knowledge' = [knowledge EXCEPT ![shaped[x].id] = shaped[x].row]
      /\ knowledge[shaped[x].id] = None
    BY DEF Store, StoreKnowledge, SourcesInv, InsertsAreSound
<1>2. \A l \in Rows : l \in Rows' /\ knowledge'[l] = knowledge[l]
    BY <1>1 DEF Rows, ContextInv, TypeOK, KnowledgeTypeOK
<1>3. SameText(k) \subseteq SameText(k)' /\ SameText(k)' \subseteq Rows'
    BY <1>2 DEF SameText
<1>4. IsFiniteSet(SameText(k)')
    BY <1>3, FS_Subset
<1>5. Cardinality(SameText(k)) <= Cardinality(SameText(k)')
    BY <1>3, <1>4, FS_Subset
<1>6. Cardinality(SameText(k)') <= RecallLimit
    BY <1>2 DEF Uncrowded, SameText
<1>7. Cardinality(SameText(k)) \in Nat /\ Cardinality(SameText(k)') \in Nat /\ RecallLimit \in Nat
    BY <1>3, <1>4, FS_Subset, FS_CardinalityType, LimitAssumption
<1> QED BY <1>5, <1>6, <1>7

StoredOnce == Uncrowded => KnowledgeIsStoredOnce

LEMMA StoredOnceStep ==
    ASSUME ContextInv, SourcesInv, LookupInv, StoredOnce, NEW x \in Request, Step(x),
           \A r \in Request \ {x} : stage[r] \notin Comparing
    PROVE  StoredOnce'
<1>1. CASE UNCHANGED knowledge
    BY <1>1 DEF StoredOnce, Uncrowded, KnowledgeIsStoredOnce, Rows
<1>2. CASE Store(x)
    <2> SUFFICES ASSUME Uncrowded' PROVE KnowledgeIsStoredOnce'
        BY DEF StoredOnce
    <2>1. Uncrowded
        BY <1>2, LookupStep, CrowdedForGood DEF LookupInv
    <2>2. /\ knowledge' = [knowledge EXCEPT ![shaped[x].id] = shaped[x].row]
          /\ stage[x] = "store" /\ shaped[x] # None
        BY <1>2 DEF Store, StoreKnowledge, Moves
    <2>3. /\ knowledge \in [KnowledgeId -> Row \cup {None}]
          /\ shaped[x].id \in KnowledgeId
        BY <2>2 DEF ContextInv, TypeOK, KnowledgeTypeOK
    <2>4. \A l \in Rows :
            /\ knowledge[l].owner = shaped[x].row.owner
            /\ knowledge[l].project = shaped[x].row.project
            => knowledge[l].content # shaped[x].row.content
        BY <2>1, <2>2, InsertsAreNew
    <2>5. KnowledgeIsStoredOnce
        BY <2>1 DEF StoredOnce
    <2>6. /\ \A l \in Rows' \ {shaped[x].id} : l \in Rows /\ knowledge'[l] = knowledge[l]
          /\ knowledge'[shaped[x].id] = shaped[x].row
        BY <2>2, <2>3 DEF Rows
    <2> QED BY <2>4, <2>5, <2>6 DEF KnowledgeIsStoredOnce
<1> QED BY <1>1, <1>2, StepCompares DEF ComparesOrNot, Lookup, LookupKnowledge, ResolveToCreate,
          ResolveKnowledgeToCreate

\* An idle request compares nothing.
LEMMA ApartCompares ==
    ASSUME NEW x \in Request, Apart(x)
    PROVE  \A r \in Request \ {x} : stage[r] \notin Comparing
BY DEF Apart, Idle, Ended, Comparing

\* Requests that do not overlap, retries of failed or crashed ones included,
\* store the same knowledge once per scope, as long as a recall can hold all rows
\* of its text (_lookup_existing_records, _resolve_knowledge).
THEOREM SerialRequestsStoreOnce == SerialSpec => []StoredOnce
<1>1. Init => LookupInv /\ StoredOnce
    <2>1. Init => Rows = {}
        BY DEF Init, KnowledgeInit, Rows
    <2> QED BY <2>1, LookupInit DEF StoredOnce, KnowledgeIsStoredOnce
<1>2. ContextInv /\ SourcesInv /\ LookupInv /\ StoredOnce /\ [SerialNext]_vars
        => LookupInv' /\ StoredOnce'
    <2> SUFFICES ASSUME ContextInv, SourcesInv, LookupInv, StoredOnce, [SerialNext]_vars
                 PROVE  LookupInv' /\ StoredOnce'
        OBVIOUS
    <2>1. ASSUME NEW x \in Request, Apart(x), Step(x) PROVE LookupInv' /\ StoredOnce'
        BY <2>1, ApartCompares, LookupStep, StoredOnceStep
    <2>2. CASE UNCHANGED <<knowledgeVars, runVars>>
        BY <2>2, LookupStutter DEF StoredOnce, Uncrowded, KnowledgeIsStoredOnce, Rows, knowledgeVars
    <2> QED BY <2>1, <2>2 DEF SerialNext, Expire, vars
<1>3. [SerialNext]_vars => [Next]_vars
    BY DEF SerialNext, Next
<1> QED BY <1>1, <1>2, <1>3, ContextInit, ContextNext, SourcesInit, SourcesNext, PTL DEF SerialSpec

\* The same of the serial scenarios, where a request that is at its output is done.
THEOREM SerialScenariosStoreOnce == MCSpec => []SerialRequestsStoreKnowledgeOnce
<1> DEFINE Once == (serial => scenario # "browsing") /\ (serial => LookupInv /\ StoredOnce)
<1>1. MCInit => Once
    <2>1. MCInit => Rows = {}
        BY DEF MCInit, Init, KnowledgeInit, Rows
    <2> QED BY <2>1, LookupInit DEF MCInit, StoredOnce, KnowledgeIsStoredOnce
<1>2. ContextInv /\ SourcesInv /\ Once /\ [MCNext]_mcvars => Once'
    <2> SUFFICES ASSUME ContextInv, SourcesInv, Once, serial, [MCNext]_mcvars
                 PROVE  LookupInv' /\ StoredOnce'
        BY ScenarioSteps
    <2>1. ASSUME NEW x \in Request, RequestStep(x) PROVE LookupInv' /\ StoredOnce'
        <3>1. Step(x) /\ \A r \in Request \ {x} : stage[r] = "intake" \/ Done(r)
            BY <2>1 DEF RequestStep, Takes
        <3>2. \A r \in Request \ {x} : stage[r] \notin Comparing
            BY <3>1 DEF Done, Ended, Comparing
        <3> QED BY <3>1, <3>2, LookupStep, StoredOnceStep
    <2>2. CASE UNCHANGED <<knowledgeVars, runVars>>
        BY <2>2, LookupStutter DEF StoredOnce, Uncrowded, KnowledgeIsStoredOnce, Rows, knowledgeVars
    <2> QED BY <2>1, <2>2 DEF MCNext, SessionExpires, Expire, CallerBrowses, BrowsingNext,
            OpenListing, NextPage, mcvars, vars
<1>3. Once => SerialRequestsStoreKnowledgeOnce
    BY DEF StoredOnce, SerialRequestsStoreKnowledgeOnce
<1>4. MCSpec => [](ContextInv /\ SourcesInv)
    BY ScenariosRefine, SourcesInvariant, PTL
<1> QED BY <1>1, <1>2, <1>3, <1>4, PTL DEF MCSpec

-----------------------------------------------------------------------------
(* Pages.  A finite set under a strict total order has a first element; a    *)
(* page is the rows with fewer than PageSize rows before them.               *)

LEMMA LeastNumber ==
    ASSUME NEW T \in SUBSET Nat, T # {}
    PROVE  \E n \in T : \A m \in T : n <= m
<1> DEFINE R == OpToRel(<, Nat)
<1>1. IsWellFoundedOn(R, Nat)
    BY NatLessThanWellFounded
<1>2. \A m, n \in Nat : m < n => <<m, n>> \in R
    BY DEF OpToRel
<1> HIDE DEF R
<1>3. PICK n \in T : \A m \in T : ~(<<m, n>> \in R)
    BY <1>1, WFMin
<1>4. \A m \in T : ~(m < n)
    BY <1>2, <1>3
<1> QED BY <1>4

LEMMA FirstElement ==
    ASSUME NEW S, IsFiniteSet(S), S # {}, NEW R,
           \A x, y \in S : x = y \/ <<x, y>> \in R \/ <<y, x>> \in R,
           \A x \in S : <<x, x>> \notin R,
           \A x, y, z \in S : <<x, y>> \in R /\ <<y, z>> \in R => <<x, z>> \in R
    PROVE  \E m \in S : \A j \in S \ {m} : <<m, j>> \in R
<1> DEFINE Before(x) == {y \in S : <<y, x>> \in R}
           rank == [x \in S |-> Cardinality(Before(x))]
           ranks == {rank[x] : x \in S}
<1>1. \A x \in S : Before(x) \subseteq S /\ IsFiniteSet(Before(x)) /\ Cardinality(Before(x)) \in Nat
    BY FS_Subset, FS_CardinalityType
<1>2. PICK n \in ranks : \A k \in ranks : n <= k
    <2>1. \A x \in S : rank[x] \in Nat
        BY <1>1
    <2>2. ranks \in SUBSET Nat /\ ranks # {}
        <3> HIDE DEF rank
        <3> QED BY <2>1
    <2> HIDE DEF ranks
    <2> QED BY <2>2, LeastNumber
<1>3. PICK m \in S : \A x \in S : Cardinality(Before(m)) <= Cardinality(Before(x))
    <2>1. PICK m \in S : n = rank[m]
        <3> HIDE DEF rank
        <3> QED BY <1>2
    <2>2. \A x \in S : rank[m] <= rank[x]
        <3> HIDE DEF rank
        <3> QED BY <1>2, <2>1
    <2>3. \A x \in S : rank[x] = Cardinality(Before(x))
        <3> HIDE DEF Before
        <3> QED OBVIOUS
    <2> HIDE DEF Before, rank
    <2> QED BY <2>2, <2>3
<1>4. ASSUME NEW j \in S \ {m}, <<m, j>> \notin R PROVE FALSE
    <2>1. <<j, m>> \in R
        BY <1>4
    <2>2. Before(j) \subseteq Before(m) /\ j \in Before(m) /\ j \notin Before(j)
        BY <2>1
    <2>3. Cardinality(Before(j)) <= Cardinality(Before(m)) /\ Cardinality(Before(j)) # Cardinality(Before(m))
        <3> HIDE DEF Before
        <3> QED BY <1>1, <2>2, FS_Subset
    <2>4. Cardinality(Before(j)) \in Nat /\ Cardinality(Before(m)) \in Nat
          /\ Cardinality(Before(m)) <= Cardinality(Before(j))
        BY <1>1, <1>3
    <2> HIDE DEF Before
    <2> QED BY <2>3, <2>4
<1> QED BY <1>4

\* The keys of the table in the order of a listing.
KeyOrder == {p \in Rows \X Rows : Precedes(Key(p[1]), Key(p[2]))}

LEMMA KeyOrderIsTotal ==
    ASSUME ContextInv
    PROVE  /\ \A x, y \in Rows : <<x, y>> \in KeyOrder <=> Precedes(Key(x), Key(y))
           /\ \A x, y \in Rows : Precedes(Key(y), Key(x)) <=> After(Key(x), Key(y))
           /\ \A x, y \in Rows : x = y \/ <<x, y>> \in KeyOrder \/ <<y, x>> \in KeyOrder
           /\ \A x \in Rows : <<x, x>> \notin KeyOrder
           /\ \A x, y, z \in Rows : <<x, y>> \in KeyOrder /\ <<y, z>> \in KeyOrder => <<x, z>> \in KeyOrder
<1>1. \A x \in Rows : x \in Nat /\ knowledge[x].updated \in Nat
    <2>1. \A x \in Rows : knowledge[x] \in Row
        BY DEF ContextInv, TypeOK, KnowledgeTypeOK, Rows
    <2> QED BY <2>1, KnowledgeIdAssumption, LimitAssumption DEF Rows, Row
<1>2. \A x, y \in Rows : <<x, y>> \in KeyOrder <=> Precedes(Key(x), Key(y))
    BY DEF KeyOrder
<1>3. \A x, y \in Rows : Precedes(Key(x), Key(y)) <=>
        \/ knowledge[x].updated > knowledge[y].updated
        \/ knowledge[x].updated = knowledge[y].updated /\ x > y
    BY DEF Precedes, Key
<1>4. \A x, y \in Rows : After(Key(x), Key(y)) <=>
        \/ knowledge[x].updated < knowledge[y].updated
        \/ knowledge[x].updated = knowledge[y].updated /\ x < y
    BY DEF After, Key
<1> QED BY <1>1, <1>2, <1>3, <1>4

\* A page that leaves rows over has a last one: all its other rows come before
\* that one, and all rows left over after it.
LEMMA PageHasLast ==
    ASSUME ContextInv, IsFiniteSet(Rows), NEW l, Page(l) # Remaining(l)
    PROVE  LET last == LastKey(Page(l))
           IN /\ last \in Page(l)
              /\ \A j \in Page(l) \ {last} : <<j, last>> \in KeyOrder
              /\ \A k \in Remaining(l) \ Page(l) : <<last, k>> \in KeyOrder
<1> DEFINE R == Remaining(l)
           page == Page(l)
           Before(k) == {j \in R : Precedes(Key(j), Key(k))}
           last == LastKey(page)
<1>1. R \subseteq Rows /\ page \subseteq R /\ IsFiniteSet(R)
    <2>1. R \subseteq Rows /\ page \subseteq R
        BY DEF Remaining, Collection, Page
    <2> QED BY <2>1, FS_Subset
<1>2. \A k \in R : k \in page <=> Cardinality(Before(k)) < PageSize
    BY DEF Page
<1>3. \A k \in R : IsFiniteSet(Before(k)) /\ Cardinality(Before(k)) \in Nat
    BY <1>1, FS_Subset, FS_CardinalityType
<1>4. \A j, k \in R : j \in Before(k) <=> <<j, k>> \in KeyOrder
    BY <1>1, KeyOrderIsTotal
<1> HIDE DEF R, page, Before
<1>5. R # {}
    BY <1>1 DEF R, page
<1>6. PICK top \in R : \A j \in R \ {top} : <<top, j>> \in KeyOrder
    <2>1. /\ \A x, y \in R : x = y \/ <<x, y>> \in KeyOrder \/ <<y, x>> \in KeyOrder
          /\ \A x \in R : <<x, x>> \notin KeyOrder
          /\ \A x, y, z \in R :
                <<x, y>> \in KeyOrder /\ <<y, z>> \in KeyOrder => <<x, z>> \in KeyOrder
        BY <1>1, KeyOrderIsTotal
    <2> QED BY <1>1, <1>5, <2>1, FirstElement
<1>7. top \in page
    <2>1. Before(top) = {}
        <3> SUFFICES ASSUME NEW j \in Before(top) PROVE FALSE
            OBVIOUS
        <3>1. j \in R /\ <<j, top>> \in KeyOrder
            BY <1>4 DEF Before
        <3>2. <<top, top>> \in KeyOrder
            BY <1>1, <1>6, <3>1, KeyOrderIsTotal
        <3> QED BY <1>1, <3>2, KeyOrderIsTotal
    <2> QED BY <1>2, <2>1, FS_EmptySet, PageSizeAssumption
<1>8. PICK k \in page : \A j \in page \ {k} : <<j, k>> \in KeyOrder
    <2> DEFINE Back == {p \in Rows \X Rows : <<p[2], p[1]>> \in KeyOrder}
    <2>1. \A x, y \in Rows : <<x, y>> \in Back <=> <<y, x>> \in KeyOrder
        OBVIOUS
    <2>2. page \subseteq Rows /\ IsFiniteSet(page) /\ page # {}
        BY <1>1, <1>7, FS_Subset
    <2> HIDE DEF Back
    <2>3. /\ \A x, y \in page : x = y \/ <<x, y>> \in Back \/ <<y, x>> \in Back
          /\ \A x \in page : <<x, x>> \notin Back
          /\ \A x, y, z \in page : <<x, y>> \in Back /\ <<y, z>> \in Back => <<x, z>> \in Back
        BY <2>1, <2>2, KeyOrderIsTotal
    <2>4. PICK k \in page : \A j \in page \ {k} : <<k, j>> \in Back
        BY <2>2, <2>3, FirstElement
    <2> QED BY <2>1, <2>2, <2>4
<1>9. last \in page /\ \A j \in page \ {last} : <<j, last>> \in KeyOrder
    <2>1. \A j \in page \ {k} : Precedes(Key(j), Key(k))
        BY <1>1, <1>8, KeyOrderIsTotal
    <2>2. last \in page /\ \A j \in page \ {last} : Precedes(Key(j), Key(last))
        BY <2>1 DEF LastKey
    <2> QED BY <1>1, <2>2, KeyOrderIsTotal
<1>10. ASSUME NEW x \in R \ page PROVE <<last, x>> \in KeyOrder
    <2> SUFFICES ASSUME <<last, x>> \notin KeyOrder PROVE FALSE
        OBVIOUS
    <2>1. last \in R /\ x # last
        BY <1>1, <1>9
    <2>2. <<x, last>> \in KeyOrder
        BY <1>1, <2>1, KeyOrderIsTotal
    <2>3. Before(x) \subseteq Before(last)
        <3> SUFFICES ASSUME NEW j \in Before(x) PROVE j \in Before(last)
            OBVIOUS
        <3>1. j \in R /\ <<j, x>> \in KeyOrder
            BY <1>4 DEF Before
        <3>2. <<j, last>> \in KeyOrder
            BY <1>1, <2>1, <2>2, <3>1, KeyOrderIsTotal
        <3> QED BY <1>4, <2>1, <3>1, <3>2
    <2>4. Cardinality(Before(x)) <= Cardinality(Before(last))
        BY <1>3, <2>1, <2>3, FS_Subset
    <2>5. Cardinality(Before(last)) < PageSize /\ ~(Cardinality(Before(x)) < PageSize)
        BY <1>2, <1>9, <2>1
    <2> QED BY <1>3, <2>1, <2>4, <2>5, PageSizeAssumption
<1> QED BY <1>9, <1>10 DEF R, page

\* What holds of a listing that has a page to come: nothing it has listed is still
\* ahead, and what was there at first is listed or ahead.
Sound(l) ==
    /\ l.listed \cap Remaining(l) = {}
    /\ l.first \subseteq l.listed \cup Remaining(l)

ListingInv ==
    listing # None =>
        /\ listing \in Listing
        /\ listing.twice = {} /\ listing.listed \subseteq Rows /\ listing.first \subseteq Rows
        /\ listing.complete => listing.first \subseteq listing.listed
        /\ ~listing.complete => Sound(listing)

\* A delivered page keeps a listing sound.
LEMMA DeliveredIsSound ==
    ASSUME ContextInv, IsFiniteSet(Rows), NEW l \in Listing,
           l.twice = {}, l.listed \subseteq Rows, l.first \subseteq Rows, Sound(l)
    PROVE  LET m == Delivered(l)
           IN /\ m \in Listing
              /\ m.twice = {} /\ m.listed \subseteq Rows /\ m.first \subseteq Rows
              /\ m.complete => m.first \subseteq m.listed
              /\ ~m.complete => Sound(m)
<1> DEFINE m == Delivered(l)
           R == Remaining(l)
           page == Page(l)
           last == LastKey(page)
<1>1. R \subseteq Rows /\ page \subseteq R /\ Rows \subseteq KnowledgeId
    BY DEF Remaining, Collection, Page, Rows
<1>0. m = [l EXCEPT !.twice = @ \cup (l.listed \cap page), !.listed = @ \cup page,
                    !.cursor = IF page = R THEN None ELSE Key(last), !.complete = (page = R)]
    BY Zenon DEF Delivered
<1>2. /\ m.user = l.user /\ m.project = l.project /\ m.scopes = l.scopes
      /\ m.twice = l.twice \cup (l.listed \cap page)
      /\ m.listed = l.listed \cup page
      /\ m.first = l.first
      /\ m.complete = (page = R)
      /\ m.cursor = IF page = R THEN None ELSE Key(last)
    <2> HIDE DEF m, last, R, page
    <2> QED BY <1>0 DEF Listing
<1>3. page # R => Key(last) \in Cursor
    <2> SUFFICES ASSUME page # R PROVE Key(last) \in Cursor
        OBVIOUS
    <2>1. last \in Rows
        BY <1>1, PageHasLast
    <2>2. knowledge[last] \in Row
        BY <2>1 DEF ContextInv, TypeOK, KnowledgeTypeOK, Rows
    <2> QED BY <1>1, <2>1, <2>2 DEF Key, Cursor, Row
<1>4. m \in Listing
    <2>1. m = [user |-> l.user, project |-> l.project, scopes |-> l.scopes, cursor |-> m.cursor,
               listed |-> m.listed, twice |-> m.twice, first |-> m.first, complete |-> m.complete]
        <3> HIDE DEF m, last, R, page
        <3> QED BY <1>0 DEF Listing
    <2>2. m.cursor \in Cursor \cup {None}
        BY <1>2, <1>3
    <2>3. /\ m.listed \subseteq KnowledgeId /\ m.twice \subseteq KnowledgeId
          /\ m.first \subseteq KnowledgeId /\ m.complete \in BOOLEAN
        <3> HIDE DEF m, page, R
        <3> QED BY <1>1, <1>2
    <2> HIDE DEF m
    <2> QED BY <2>1, <2>2, <2>3 DEF Listing
<1>5. m.twice = {} /\ m.listed \subseteq Rows /\ m.first \subseteq Rows
    <2> HIDE DEF m, page
    <2> QED BY <1>1, <1>2 DEF Sound
<1>6. m.complete => m.first \subseteq m.listed
    <2> HIDE DEF m, page
    <2> QED BY <1>1, <1>2 DEF Sound
<1>7. ASSUME ~m.complete PROVE Sound(m)
    <2>1. page # R /\ m.cursor = Key(last) /\ m.cursor # None
        <3> HIDE DEF m, page, R, last
        <3> QED BY <1>2, <1>3, <1>7, PageSizeAssumption
    <2>2. /\ last \in page
          /\ \A j \in page \ {last} : <<j, last>> \in KeyOrder
          /\ \A k \in R \ page : <<last, k>> \in KeyOrder
        BY <2>1, PageHasLast
    <2>3. Collection(m) = Collection(l)
        BY <1>2 DEF Collection
    <2>4. \A k : k \in Remaining(m) <=> k \in Collection(l) /\ After(Key(k), Key(last))
        <3> HIDE DEF m, last
        <3> QED BY <2>1, <2>3 DEF Remaining
    <2>5. \A k \in Rows : k \in Remaining(m) <=> k \in Collection(l) /\ <<last, k>> \in KeyOrder
        BY <1>1, <2>2, <2>4, KeyOrderIsTotal
    <2>6. Remaining(m) \subseteq R \ page
        <3> SUFFICES ASSUME NEW k \in Remaining(m) PROVE k \in R /\ k \notin page
            OBVIOUS
        <3>1. k \in Rows /\ k \in Collection(l)
            BY <2>4 DEF Collection
        <3>2. <<last, k>> \in KeyOrder
            BY <2>5, <3>1
        <3>3. k \notin page
            <4> SUFFICES ASSUME k \in page PROVE FALSE
                OBVIOUS
            <4>1. <<last, last>> \in KeyOrder
                BY <1>1, <2>2, <3>1, <3>2, KeyOrderIsTotal
            <4> QED BY <1>1, <2>2, <4>1, KeyOrderIsTotal
        <3>4. k \in R
            <4>1. CASE l.cursor = None
                BY <3>1, <4>1 DEF Remaining
            <4>2. CASE l.cursor # None
                <5>1. l.cursor \in Cursor
                    BY <4>2 DEF Listing
                <5>2. After(Key(last), l.cursor)
                    BY <1>1, <2>2, <4>2 DEF Remaining
                <5>3. After(Key(k), Key(last))
                    BY <2>4
                <5>4. After(Key(k), l.cursor)
                    <6> HIDE DEF last
                    <6>1. /\ k \in Nat /\ last \in Nat /\ knowledge[k] \in Row /\ knowledge[last] \in Row
                        BY <1>1, <2>2, <3>1, KnowledgeIdAssumption
                        DEF ContextInv, TypeOK, KnowledgeTypeOK, Rows
                    <6>2. /\ l.cursor.updated \in Nat /\ l.cursor.id \in Nat
                          /\ knowledge[k].updated \in Nat /\ knowledge[last].updated \in Nat
                        <7>1. \A row \in Row : row.updated \in Nat
                            BY LimitAssumption DEF Row
                        <7>2. \A c \in Cursor : c.updated \in 0..MaxClock /\ c.id \in KnowledgeId
                            BY DEF Cursor
                        <7>3. l.cursor.updated \in 0..MaxClock /\ l.cursor.id \in KnowledgeId
                            BY <5>1, <7>2
                        <7>4. l.cursor.updated \in Nat /\ l.cursor.id \in Nat
                            BY <7>3, LimitAssumption, KnowledgeIdAssumption
                        <7> QED BY <6>1, <7>1, <7>4
                    <6> QED BY <5>2, <5>3, <6>1, <6>2 DEF After, Key
                <5> QED BY <3>1, <5>4 DEF Remaining
            <4> QED BY <4>1, <4>2
        <3> QED BY <3>3, <3>4
    <2>7. R \ page \subseteq Remaining(m)
        <3>1. R \subseteq Collection(l)
            BY DEF Remaining
        <3> QED BY <1>1, <2>2, <2>5, <3>1
    <2> HIDE DEF m, R, page
    <2> QED BY <1>2, <2>6, <2>7 DEF Sound, R
<1> QED BY <1>4, <1>5, <1>6, <1>7

\* Rows are added, never changed.
LEMMA RowsOnlyGrow ==
    ASSUME ContextInv, SourcesInv, [Next]_vars
    PROVE  /\ \A k \in Rows : k \in Rows' /\ knowledge'[k] = knowledge[k]
           /\ IsFiniteSet(Rows) => IsFiniteSet(Rows')
<1>1. CASE UNCHANGED knowledge
    BY <1>1 DEF Rows
<1>2. ASSUME NEW x \in Request, Store(x)
      PROVE  /\ \A k \in Rows : k \in Rows' /\ knowledge'[k] = knowledge[k]
             /\ IsFiniteSet(Rows) => IsFiniteSet(Rows')
    <2>1. /\ knowledge' = [knowledge EXCEPT ![shaped[x].id] = shaped[x].row]
          /\ knowledge[shaped[x].id] = None
        BY <1>2 DEF Store, StoreKnowledge, SourcesInv, InsertsAreSound
    <2>2. knowledge \in [KnowledgeId -> Row \cup {None}]
        BY DEF ContextInv, TypeOK, KnowledgeTypeOK
    <2>3. Rows' \subseteq Rows \cup {shaped[x].id}
        BY <2>1, <2>2 DEF Rows
    <2>4. IsFiniteSet(Rows) => IsFiniteSet(Rows')
        BY <2>3, FS_AddElement, FS_Subset
    <2> QED BY <2>1, <2>2, <2>4 DEF Rows
<1>3. (\E x \in Request : Store(x)) \/ UNCHANGED knowledge
    BY StepCompares DEF ComparesOrNot, Lookup, LookupKnowledge, ResolveToCreate,
        ResolveKnowledgeToCreate, Next, Expire, vars, knowledgeVars
<1> QED BY <1>1, <1>2, <1>3

\* A caller browses while requests of any kind run.
BrowsedNext ==
    \/ Next /\ UNCHANGED listing
    \/ BrowsingNext /\ UNCHANGED <<sessionVars, runVars>>

BrowsedSpec == Init /\ BrowsingInit /\ [][BrowsedNext]_<<vars, listing>>

\* Rows that are inserted between two pages are ahead or missed; none is listed
\* that was listed before.
LEMMA InsertsKeepListing ==
    ASSUME ContextInv, ListingInv, UNCHANGED listing,
           \A k \in Rows : k \in Rows' /\ knowledge'[k] = knowledge[k]
    PROVE  ListingInv'
<1> SUFFICES ASSUME listing # None, ~listing.complete, Sound(listing) PROVE Sound(listing)'
    BY DEF ListingInv
<1>1. listing.listed \subseteq Rows /\ listing.first \subseteq Rows
    BY DEF ListingInv
<1>2. \A k \in Rows : k \in Remaining(listing)' <=> k \in Remaining(listing)
    BY DEF Remaining, Collection, Key
<1> QED BY <1>1, <1>2 DEF Sound

LEMMA OpenedIsSound ==
    ASSUME NEW u \in User, NEW p \in Project, NEW scopes \in SUBSET Visibility
    PROVE  LET l == Opened(u, p, scopes)
           IN /\ l \in Listing
              /\ l.twice = {} /\ l.listed \subseteq Rows /\ l.first \subseteq Rows
              /\ Sound(l)
<1> DEFINE l == Opened(u, p, scopes)
           empty == [user |-> u, project |-> p, scopes |-> scopes,
                     cursor |-> None, listed |-> {}, twice |-> {}, first |-> {}, complete |-> FALSE]
<1>1. Collection(empty) \subseteq Rows /\ Rows \subseteq KnowledgeId
    BY DEF Collection, Rows
<1>2. l = [user |-> u, project |-> p, scopes |-> scopes, cursor |-> None, listed |-> {},
           twice |-> {}, first |-> Collection(empty), complete |-> FALSE]
    <2>1. l = [empty EXCEPT !.first = Collection(empty)]
        BY Zenon DEF Opened
    <2> DEFINE there == Collection(empty)
    <2> HIDE DEF there, l
    <2>2. l = [empty EXCEPT !.first = there]
        BY <2>1 DEF there
    <2> QED BY <2>2 DEF there
<1>3. Collection(l) = Collection(empty)
    BY <1>2 DEF Collection
<1>4. l \in Listing
    <2> HIDE DEF l, empty
    <2> QED BY <1>1, <1>2 DEF Listing
<1>5. Remaining(l) = Collection(empty)
    <2> HIDE DEF l, empty
    <2> QED BY <1>2, <1>3 DEF Remaining
<1> HIDE DEF l, empty
<1>6. /\ l.twice = {} /\ l.listed \subseteq Rows /\ l.first \subseteq Rows /\ Sound(l)
    BY <1>1, <1>2, <1>5 DEF Sound
<1> QED BY <1>4, <1>6 DEF l

LEMMA BrowsingKeepsListing ==
    ASSUME ContextInv, IsFiniteSet(Rows), ListingInv, BrowsingNext
    PROVE  ListingInv'
<1>0. Rows' = Rows /\ UNCHANGED knowledge
    BY DEF BrowsingNext, OpenListing, NextPage, knowledgeVars, Rows
<1>1. ASSUME NEW l \in Listing, l.twice = {}, l.listed \subseteq Rows, l.first \subseteq Rows,
             Sound(l), listing' = Delivered(l)
      PROVE  ListingInv'
    <2> DEFINE m == Delivered(l)
    <2>1. /\ m \in Listing
          /\ m.twice = {} /\ m.listed \subseteq Rows /\ m.first \subseteq Rows
          /\ m.complete => m.first \subseteq m.listed
          /\ ~m.complete => Sound(m)
        BY <1>1, DeliveredIsSound
    <2>2. Sound(listing)' <=> Sound(m)
        BY <1>0, <1>1 DEF Sound, Remaining, Collection, Key
    <2> HIDE DEF m
    <2>3. listing' = m
        BY <1>1 DEF m
    <2> QED BY <1>0, <2>1, <2>2, <2>3 DEF ListingInv
<1>2. ASSUME NEW u \in User, NEW p \in Project, NEW scopes \in SUBSET Visibility,
             OpenListing(u, p, scopes)
      PROVE  ListingInv'
    BY <1>1, <1>2, OpenedIsSound DEF OpenListing
<1>3. CASE NextPage
    BY <1>1, <1>3 DEF NextPage, ListingInv
<1> QED BY <1>2, <1>3 DEF BrowsingNext

RowsAreFinite == IsFiniteSet(Rows)

\* A caller who reads the units of a project to the last page has seen every unit
\* that was there at the first, and none twice, whatever requests insert
\* meanwhile (list_knowledge_units).
THEOREM ListingsAreExact == BrowsedSpec => []ListingIsExact
<1>1. Init /\ BrowsingInit => RowsAreFinite /\ ListingInv
    <2>1. Init => Rows = {}
        BY DEF Init, KnowledgeInit, Rows
    <2> QED BY <2>1, FS_EmptySet DEF BrowsingInit, ListingInv, RowsAreFinite
<1>2. [BrowsedNext]_<<vars, listing>> => [Next]_vars
    BY DEF BrowsedNext, BrowsingNext, OpenListing, NextPage, vars
<1>3. ContextInv /\ SourcesInv /\ RowsAreFinite /\ ListingInv /\ [BrowsedNext]_<<vars, listing>>
        => RowsAreFinite' /\ ListingInv'
    <2> SUFFICES ASSUME ContextInv, SourcesInv, RowsAreFinite, ListingInv,
                        [BrowsedNext]_<<vars, listing>>
                 PROVE  RowsAreFinite' /\ ListingInv'
        OBVIOUS
    <2>1. RowsAreFinite' /\ \A k \in Rows : k \in Rows' /\ knowledge'[k] = knowledge[k]
        BY <1>2, RowsOnlyGrow DEF RowsAreFinite
    <2>2. CASE UNCHANGED listing
        BY <2>1, <2>2, InsertsKeepListing
    <2>3. CASE BrowsingNext
        BY <2>1, <2>3, BrowsingKeepsListing DEF RowsAreFinite
    <2> QED BY <2>1, <2>2, <2>3 DEF BrowsedNext
<1>4. ListingInv => ListingIsExact
    BY DEF ListingInv, ListingIsExact
<1> QED BY <1>1, <1>2, <1>3, <1>4, ContextInit, ContextNext, SourcesInit, SourcesNext, PTL DEF BrowsedSpec

\* The scenarios of the model-checking module are browsed requests.
LEMMA ScenariosAreBrowsed == MCSpec => BrowsedSpec
<1>1. MCInit => Init /\ BrowsingInit
    BY DEF MCInit
<1>2. [MCNext]_mcvars => [BrowsedNext]_<<vars, listing>>
    BY DEF MCNext, RequestStep, SessionExpires, CallerBrowses, mcvars, BrowsedNext, Next
<1> QED BY <1>1, <1>2, PTL DEF MCSpec, BrowsedSpec

=============================================================================
