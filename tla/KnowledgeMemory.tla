-------------------------- MODULE KnowledgeMemory --------------------------
(***************************************************************************)
(* Research Knowledge Memory: the research_knowledge table, what a request *)
(* can recall from it, and how MemoryPersistenceService stores a candidate *)
(* of a request: embed and recall, relate the candidate to the rows that   *)
(* came back, shape a new row, insert it.  Each is an await, so requests   *)
(* interleave between them, and nothing ties the insert to the recall.     *)
(*                                                                         *)
(* A source is named by the request whose retrieval found it.  A text      *)
(* stands for title and summary, which the embedding is made of; a detail  *)
(* for the other fields an exact duplicate must agree in.                  *)
(***************************************************************************)
EXTENDS Integers, FiniteSets

CONSTANTS
    Request,        \* pipeline runs
    User, Project,
    Text, Detail,   \* what a knowledge unit says
    KnowledgeId,    \* identifiers new rows may get
    RecallLimit,    \* rows a recall returns (_RESEARCH_KNOWLEDGE_RECALL_LIMIT)
    MaxClock,       \* bound on the time stamps
    None            \* no project, row or candidate

Content == [text: Text, detail: Detail]
Candidate == [content: Content, sources: SUBSET Request]
Scope == [user: User, project: Project \cup {None}]
Row == [owner: User, project: Project \cup {None}, content: Content,
        sources: SUBSET Request, writer: Request, updated: 0..MaxClock]

ASSUME KnowledgeIdAssumption == KnowledgeId \subseteq Nat
ASSUME LimitAssumption == RecallLimit \in Nat /\ MaxClock \in Nat
ASSUME NoneAssumption ==
    None \notin Project /\ None \notin Row /\ None \notin Candidate

VARIABLES
    knowledge,      \* the table: a row or None for every identifier
    clock,          \* the wall clock writers stamp their rows with
    candidate,      \* of each request: the candidate it has distilled, or None
    recalled,       \* of each request: the rows its lookup returned
    shaped          \* of each request: the identifier and row to insert, or None

knowledgeVars == <<knowledge, clock, candidate, recalled, shaped>>

-----------------------------------------------------------------------------
(* The store's read path.                                                   *)

Rows == {k \in KnowledgeId : knowledge[k] # None}

\* Deviation: the recall of a project's run reads other projects' rows too.
VisibleToOwner(scope) == {k \in Rows : knowledge[k].owner = scope.user}

\* The recall filters.  A row's visibility is "project" exactly when it has a
\* project, so the visibility list says no more than the project filter.
Visible(scope) ==
    {k \in Rows :
        /\ knowledge[k].owner = scope.user
        /\ knowledge[k].project \in {None, scope.project}}

\* Deviation: rows come back in no order of distance.
RecallAny(scope, text) ==
    {found \in SUBSET Visible(scope) : Cardinality(found) <= RecallLimit}

\* Rows of the same text have the same embedding and come first; the distances
\* of the others are arbitrary.
Recall(scope, text) ==
    {found \in SUBSET Visible(scope) :
        /\ \/ found = Visible(scope) /\ Cardinality(found) <= RecallLimit
           \/ Cardinality(found) = RecallLimit
        /\ \A k \in found, l \in Visible(scope) \ found :
            knowledge[l].content.text = text => knowledge[k].content.text = text}

-----------------------------------------------------------------------------
(* One candidate of request r, acting for a user and project.               *)

\* Deviation: a candidate without sources is admitted.
AdmitAll(c) == c # None

\* Write admission: research knowledge needs at least one source.
Admitted(c) == c # None /\ c.sources # {}

\* The lookup of the candidate's neighbours; embedding or recall may raise.
LookupKnowledge(r, scope) ==
    /\ Admitted(candidate[r])
    /\ \E found \in Recall(scope, candidate[r].content.text) :
        recalled' = [recalled EXCEPT ![r] = found]
    /\ UNCHANGED <<knowledge, clock, candidate, shaped>>

\* A row whose fields all agree decides the candidate without the model.
ExactDuplicate(r) ==
    \E k \in recalled[r] : knowledge[k].content = candidate[r].content

\* Identifiers are generated: no row and no pending insert has a fresh one.
FreshIds ==
    {k \in KnowledgeId : knowledge[k] = None /\
        \A r \in Request : shaped[r] = None \/ shaped[r].id # k}

\* A new row of the run's own scope, stamped before it is inserted.
ShapedRow(r, scope, now) ==
    [owner |-> scope.user, project |-> scope.project,
     content |-> candidate[r].content, sources |-> candidate[r].sources,
     writer |-> r, updated |-> now]

\* No match, by rule when nothing was recalled or by the model otherwise: the
\* row is shaped.
ResolveKnowledgeToCreate(r, scope) ==
    /\ ~ExactDuplicate(r)
    /\ \E k \in FreshIds, now \in {clock, clock + 1} :
        /\ now <= MaxClock
        /\ clock' = now
        /\ shaped' = [shaped EXCEPT ![r] = [id |-> k, row |-> ShapedRow(r, scope, now)]]
    /\ UNCHANGED <<knowledge, candidate, recalled>>

\* The candidate is done with.
ForgetCandidate(r) ==
    /\ candidate' = [candidate EXCEPT ![r] = None]
    /\ recalled' = [recalled EXCEPT ![r] = {}]
    /\ shaped' = [shaped EXCEPT ![r] = None]

\* An exact duplicate, or the model relates the candidate to a recalled row: as
\* its duplicate, in conflict with it, or as a change, which is not written.
ResolveKnowledgeToNoWrite(r) ==
    /\ recalled[r] # {}
    /\ ForgetCandidate(r)
    /\ UNCHANGED <<knowledge, clock>>

\* upsert_knowledge_unit under a fresh identifier.
StoreKnowledge(r) ==
    /\ shaped[r] # None
    /\ knowledge' = [knowledge EXCEPT ![shaped[r].id] = shaped[r].row]
    /\ ForgetCandidate(r)
    /\ UNCHANGED clock

\* Admission, embedding, recall, the model or the insert fails: the item is
\* reported as not written and the run goes on.
KnowledgeNotWritten(r) ==
    /\ ForgetCandidate(r)
    /\ UNCHANGED <<knowledge, clock>>

KnowledgeInit ==
    /\ knowledge = [k \in KnowledgeId |-> None]
    /\ clock = 0
    /\ candidate = [r \in Request |-> None]
    /\ recalled = [r \in Request |-> {}]
    /\ shaped = [r \in Request |-> None]

-----------------------------------------------------------------------------
(* Properties.                                                              *)

\* Every variable has its type.
KnowledgeTypeOK ==
    /\ knowledge \in [KnowledgeId -> Row \cup {None}]
    /\ clock \in 0..MaxClock
    /\ candidate \in [Request -> Candidate \cup {None}]
    /\ recalled \in [Request -> SUBSET KnowledgeId]
    /\ shaped \in [Request -> [id: KnowledgeId, row: Row] \cup {None}]

\* Rows of one scope and text fit in a recall: beyond that, an exact duplicate
\* may not be among the rows the resolver sees.
Uncrowded ==
    \A k \in Rows :
        Cardinality({l \in Rows : /\ knowledge[l].owner = knowledge[k].owner
                                  /\ knowledge[l].content.text = knowledge[k].content.text})
          <= RecallLimit

\* The same knowledge is never stored twice for the same scope.
KnowledgeIsStoredOnce ==
    \A k, l \in Rows :
        /\ knowledge[k].owner = knowledge[l].owner
        /\ knowledge[k].project = knowledge[l].project
        /\ knowledge[k].content = knowledge[l].content
        => k = l
=============================================================================
