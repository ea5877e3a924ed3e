----------------------------- MODULE MCPipeline -----------------------------
(***************************************************************************)
(* Requests of two projects over shared memory, in three scenarios that    *)
(* say what they are about: the session they continue, the knowledge they  *)
(* store, or a caller who browses that knowledge while it is written.  In  *)
(* the first two, requests may follow one another (serial) or overlap.     *)
(***************************************************************************)
EXTENDS Pipeline, KnowledgeBrowsing

CONSTANTS r1, r2, r3, user, other, atlas, zephyr, session, topic, brief, full

VARIABLES scenario, serial

mcvars == <<vars, listing, scenario, serial>>

OfferedQueries ==
    {[scope |-> [user |-> user, project |-> x], session |-> session] :
        x \in {atlas, zephyr, None}}
    \cup {[scope |-> [user |-> other, project |-> None], session |-> session]}

\* Requests are interchangeable: they start in one order.
Earlier(r) == CASE r = r1 -> {} [] r = r2 -> {r1} [] OTHER -> {r1, r2}

\* In the scenarios about knowledge a request is done once it reaches the
\* assembly of its response, or has stored a unit for the caller to browse.
Done(r) ==
    \/ stage[r] \in Ended
    \/ scenario # "session" /\ stage[r] = "assembly"
    \/ scenario = "browsing" /\ \E k \in Rows : knowledge[k].writer = r

\* Overlapping requests are two.  Those of the browsing scenario overlap between
\* the stamp of a row and its insert only.
Takes(r) ==
    /\ ~Done(r)
    /\ stage[r] = "intake" => \A x \in Earlier(r) : stage[x] # "intake"
    /\ \A x \in Request \ {r} :
        \/ stage[x] = "intake" \/ Done(x)
        \/ ~serial /\ scenario # "browsing"
        \/ scenario = "browsing" /\ "store" \in {stage[x], stage[r]}
    /\ scenario = "browsing" \/ serial \/ r # r3

\* What the environment of a scenario does: in the first, no knowledge is found
\* worth keeping; in the others, sessions are empty and answers alike.
SessionScenario(r) ==
    /\ query'[r] \in {None, [scope |-> [user |-> user, project |-> atlas], session |-> session]}
    /\ task'[r] = "topic_exploration"
    /\ evidence'[r] = {}
    /\ stage'[r] # "lookup"
    /\ stage'[r] = "conclusion" =>
        /\ research'[r] \in {"failed", IF serial THEN "no_result" ELSE "partial_success"}
        /\ ~serial => Len(open'[r]) <= Len(open[r]) + 1
    /\ answer'[r] # None =>
        /\ answer'[r].citations = {}
        /\ answer'[r].recommendation \in {NoMemory, answer'[r].summary}
    /\ serial =>
        /\ stage'[r] = "answered" => r \in history'
        /\ stage'[r] \in {"raised", "crashed"} => stage[r] \in {"assembly", "recording"}

KnowledgeScenario(r) ==
    /\ UNCHANGED <<sessionVars, history>>
    /\ task'[r] \in {"topic_exploration", "tracking"}
    /\ readSession'[r] = FALSE
    /\ research'[r] \in {"no_result", "completed", "failed"}
    /\ open'[r] = (IF research'[r] = "failed" /\ stage'[r] \notin Ended
                    THEN <<RunFailure>> ELSE <<>>)
    /\ stage'[r] = "raised" => stage[r] = "conclusion"
    /\ stage'[r] = "crashed" => stage[r] \in {"resolution", "store"}
    /\ answer'[r] # None =>
        answer'[r] = [summary |-> IF research[r] = "failed" THEN Unreliable ELSE brief,
                      citations |-> evidence[r], recommendation |-> NoMemory]
    /\ stage'[r] = "lookup" /\ ~serial => \A k \in Rows : knowledge[k].writer # r
    /\ scenario = "knowledge" =>
        /\ clock' = 0
        /\ shaped'[r] # None => \A k \in FreshIds : shaped[r] = None => shaped'[r].id <= k
        /\ serial =>
            /\ task'[r] = (IF stage[r] = "intake" THEN "topic_exploration" ELSE "tracking")
            /\ stage'[r] = "conclusion" => evidence'[r] \in {{}, {r}, Retrievable(r)}
            /\ candidate'[r] # None => candidate'[r].sources \in {{}, evidence[r]}
    /\ scenario = "browsing" =>
        /\ stage'[r] \notin {"raised", "crashed"}
        /\ query'[r].scope.user = user /\ query'[r].scope.project # zephyr
        /\ stage'[r] = "conclusion" => research'[r] = "completed" /\ evidence'[r] = {r}
        /\ stage'[r] = "distillation" => stage[r] = "conclusion" \/ knowledge' # knowledge
        /\ stage'[r] # "assembly"
        /\ candidate'[r] # None => candidate'[r].sources = {r}
        /\ task'[r] = (IF stage[r] = "intake" THEN "topic_exploration" ELSE "tracking")
        /\ research'[r] \in {"no_result", "completed"}
        /\ candidate'[r] # None => candidate'[r].content.detail = brief

MCInit ==
    /\ Init
    /\ BrowsingInit
    /\ scenario \in {"session", "knowledge", "browsing"}
    /\ serial \in BOOLEAN
    /\ scenario = "browsing" => ~serial

RequestStep(r) ==
    /\ Takes(r)
    /\ Step(r)
    /\ scenario = "session" => SessionScenario(r)
    /\ scenario # "session" => KnowledgeScenario(r)
    /\ UNCHANGED <<listing, scenario, serial>>

SessionExpires ==
    /\ scenario = "session"
    /\ \E x \in Session : Expire(x)
    /\ UNCHANGED <<listing, scenario, serial>>

CallerBrowses ==
    /\ scenario = "browsing"
    /\ BrowsingNext
    /\ UNCHANGED <<sessionVars, runVars, scenario, serial>>

MCNext == (\E r \in Request : RequestStep(r)) \/ SessionExpires \/ CallerBrowses

MCSpec == MCInit /\ [][MCNext]_mcvars

\* Requests that follow one another, retries of failed or crashed ones included,
\* store the same knowledge once per scope, as long as a recall can hold all
\* rows of its text (_lookup_existing_records, _resolve_knowledge).
SerialRequestsStoreKnowledgeOnce == serial /\ Uncrowded => KnowledgeIsStoredOnce

\* The last turn saved to a session is remembered; when requests follow one
\* another, so is the turn before (_update_session_memory).
RecentTurnsAreRemembered == LastTurnIsKept /\ (serial => TurnBeforeIsKept)

\* Requests that follow one another never lose an open question of the session
\* they read, and never move it (_load_session_memory, _bound_session_memory).
SerialTurnsCarryQuestions == [][serial => QuestionsAreCarried]_mcvars
=============================================================================
