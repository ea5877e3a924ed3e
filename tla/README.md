# A verification project for the vertical AI research action agent

The program answers a research request with a pipeline of asynchronous services: it reads
memory, plans, runs a bounded research stage over retrieval tools, writes memory back,
records the conversation and returns an answer.  All of it runs on asyncio.  Inside one
process every request is a coroutine, several processes may serve the same database, and
no lock, version number or queue relates two requests.  What can go wrong is therefore in
two places: in the *bounded loops* of one request, whose bounds are the interplay of
counters kept by different services, and in the *stores* that overlapping requests share.

The TLA+ modules here are written from the code under `src/app`; each definition's lines
are in `PROJECT.json` under `map`.  TLC checks them on small instances, and TLAPS proves
part of what TLC checks for every instance.

## 1. The system

### Components, state, operations

| component | state it keeps | operations | module |
|---|---|---|---|
| Pipeline (`orchestration`) | execution context of one request | `run` and its stages | `Pipeline` |
| Session continuity | Redis value per session, expiring | `load`, `update` | `SessionContinuity`, part of `Pipeline` |
| Research knowledge store | table with embeddings and scopes | recall, insert, paged listing | `KnowledgeMemory`, part of `Pipeline`; `KnowledgeBrowsing` |
| Tool Execution Layer (`services/tool_execution_layer`) | run state of one request: blocked families, retry counters, fallback flag, retry context, attempt trace | `execute`: select a family, get a query, run, evaluate, retry / fall back / complete | `ToolExecutionLayer`, `ExecutorAcquisition`; promise in `FamilyAcquisition` |
| Research Executor (`services/executor`) | run state of one stage: iteration count, results and evidence of all iterations, coverage map, findings, outcome | `execute`: assess, acquire, process, cover, refine, evaluate; build the result | `ResearchExecutor` |
| Source families, tools, clients (`services/families`, `services/tools`, `adapters/*_search`, `*_fetch`) | none; the arXiv client keeps a lock and two times for all requests | `run`: choose a tool, search, select, fetch, normalize | `SourceFamilies`, `ArxivSearchClient` |
| Evidence processing (`services/evidence`) | none between calls; a semaphore and a gather inside one | `process`: deduplicate, structure concurrently, consolidate | `EvidenceProcessing`; promise in `EvidenceStage` |
| Memory persistence (`services/memory/memory_persistence_service.py`, `semantic_resolver_service.py`, `_action_state.py`) | the candidate being handled and the rows read for it | `persist`: per candidate look up, resolve, shape, write | the runs of the store modules |
| Action memory store | table `action_memory` | `list_active_actions`, `upsert_action`, pages, counts | `ActionMemory`, `MemoryBrowsing` |
| Decision and policy stores | tables `decision_memory`, `preference_policy_memory` | the lookups, supersede-then-insert transaction, pages, counts | `SupersessionMemory` over `VersionChain`; `MemoryBrowsing` |
| Project profile store | table `project_profile_memory`, unique index on the active row | `load_active_profile`, `upsert_profile` (three statements) | `ProfileMemory` over `VersionChain` |
| Conversation history | tables `conversation_sessions`, `message_log` | `record_completed_run`, `list_sessions`, `list_session_messages` | `ConversationHistory` |
| Intake, interpretation, conclusion, response, memory loading, distillation | fields of the execution context | one call each | stages of `Pipeline` |
| Pool registry (`postgres_pool_registry.py`) | one pool per DSN, a lock, a closed flag | `get_pool`, `close` | `PoolRegistry` |
| Routing and decomposition, query generation, projects, readiness, API, bootstrap, frontend | none of their own | single calls, I/O, wiring | not modelled (section 7) |

### Interactions

The pipeline calls the services one after another and hands them one mutable running state.
The Research Executor calls the Tool Execution Layer once per acquiring iteration with a
request it projects from its assessment, then evidence processing with the result.  After
the stage, the pipeline concludes, distils candidates and calls `persist`, which handles action,
decision, policy, knowledge and profile candidates one at a time; then it assembles the response,
updates the session and records the turn, in this order, and a failure of the last two is
swallowed.  Requests meet in the stores: two runs of one project write the same action,
decision, policy and profile rows; a run recalls knowledge that others stored and stores it again
as its own; two runs of one session write the same session row and Redis key; and readers page
through all of it while runs write.  Inside one process they also meet in the arXiv client and in
the registry that hands out connection pools.

### What is hard

- *Counters in several places.*  The completion evaluator and the request loop decide on the
  same retry budget separately; the guardrail reads the remaining budget from an index, the
  stage loop from a count.
- *An exception at any await.*  Every step of a stage, every candidate of a batch and every
  statement of a conversation record may raise, and the code goes on with what it has.
- *Read, think, write.*  Between the read of a stored row and the write that depends on it
  lies a call of a language model, that is, seconds in which other requests act.
- *READ COMMITTED.*  The profile transaction's first UPDATE may wait for another transaction
  and then not see the row that has become active; transactions may deadlock.
- *Mutable sort keys.*  Sessions and memories are listed by `updated_at`, which runs change while a
  reader is between two pages, and which is taken before the write it stamps.
- *Knowledge that travels.*  Stored knowledge is recalled, adopted as evidence, and stored again:
  whatever a filter lets through once is passed on for good.
- *Merging.*  Between a hit of a search and the evidence of the answer, duplicates are
  removed, long texts cut and units merged, concurrently and with failures in between.
- *Shared clients.*  A wait is computed, or a pool found missing, at one moment and trusted at another.

`hazards` in `PROJECT.json` lists them line by line with the properties that cover each.

### What makes each component correct

- *Tool Execution Layer*: work per request is bounded, whatever tools answer; hard constraints
  hold in every attempt, also after a fallback; what the evaluator promises the loop does;
  a usable result is returned and not retried away.
- *Research Executor*: the iteration budget holds; the stage ends on a decision; partial work
  survives an exception; the status says what happened; evidence stays linked to what it covers.
- *Retrieval*: a source that was found is named by the evidence that results, and no source is
  named for what it says no part of; a provider's rate is respected by all requests together.
- *Pool registry*: the stores of one database share one pool, and none is left open at the end.
- *Memory*: an action moves forward only and is stored once; a replaced decision, policy or
  profile stays reachable from its history, in its own scope; one profile is active; batches end;
  knowledge stays in its scope and has a ground.
- *Sessions*: the last turns are remembered, and an open question is not lost to a cut.
- *Conversation and browsing*: a message belongs to a session of the same owner; a session never
  claims what is not stored; pages neither repeat nor lose entries; counts match pages.
- *Pipeline*: a request that fails leaves no turn behind, whatever it stored before.

## 2. The modules

**`ToolExecutionLayer`** is one call of `ToolExecutionLayerService.execute`.  `pc` is the place in
the loop: `SelectFamily`, `NoFamilySelected` and `ResumeRetry` are the preparation of an attempt,
`RunFamily` the family service's answer or exception, and `ScheduleRetry`, `ScheduleFallback` and
`CompleteRequest` the three ways the evaluation ends.  `Evaluation` is
`RequestCompletionEvaluationService`, a pure function of request, counters and outcome;
`Candidates` and `Leading` are `FamilySelectionService`.  An empty family list means "no
restriction" there, and it does here.  The scores that order non-preferred families are left
open, as are texts of queries and results.

**`FamilyAcquisition`** states what such a call promises its caller and knows nothing of policies,
evaluations or hints: at most two families, each at most `budget + 1` times, never back to the
first, exactly one answer.  `ToolExecutionLayer` implements it: property `ImplementsAcquisition`
maps `runs` to the number of attempts on a family, `current` to the selected family while it has
been run, `answered` to `pc = "done"`.

**`ExecutorAcquisition`** restricts the requests to those `ResearchMaterialAcquirer` projects from
an assessment: provided query, budget 1, recall alone for memory, everything else for external.

**`ResearchExecutor`** is one stage.  `step` walks through the iteration; every awaiting step has a
success action with all answers a model or service may give, and shares `StepRaises`.
`ShortCircuit` holds the rules of the outcome evaluator in their order, `Guarded` the guardrail
over a model's proposal, both as chains of conditions of which the first that holds decides.
Evidence is represented by the iteration that found it: what the properties tell apart is which
iteration's evidence is linked to which coverage target.

**`ActionMemory`**, **`SupersessionMemory`**, **`ProfileMemory`** are the three ways `persist` writes a
table.  A run is a sequence of candidates; each goes through `lookup`, `resolve` and `write`, and
any other run may act in between.  A run that raises reports the candidate and starts the next
(`CandidateFails`); as it may do so with its write done or not, a crash of the process is among
these behaviours.  Identifiers are generated by the program and unique, hence `FreshIds`.  The
action store writes whole rows by identifier; decisions and policies retire the old row and
insert the new one in one transaction, which is one action.  The profile transaction is not one
action: its statements wait on row locks and on the unique index of other open transactions, and
what its first `UPDATE` saw when it started matters, so `ProfileMemory` looks inside it.
`WaitsFor` and `AbortDeadlock` are PostgreSQL's, whose server is not in the repository, as the
statements in the store use it.

**`VersionChain`** has what the last two share: rows that supersede one another, the effect of a
replacement, and the shape a history must keep.

**`ConversationHistory`** has runs that record a turn with three statements (`EnsureSession`,
`AppendMessages`, `RecordActivity`), any of which may be the last to happen, and one reader that
pages through sessions or the messages of one.  Times come from the clocks of the processes that
run the turns, so they are numbers that order nothing but the answer after its question.
The cursor is the position of the last entry of a page; its encoding is left out, the check that
it belongs to this listing being implied by the reader's using its own cursor.

**`MemoryBrowsing`** is the API's view of a project: the summary, whose four counts are gathered as
separate queries, and the pages of actions, decisions or policies, while `Writer`s insert rows,
transition actions in place and replace versions.  A writer takes its time stamp first
(`StartWrite`) and its statement takes effect later (`CommitWrite`).

**`Pipeline`** is `ResearchActionPipeline.run`: `stage` walks through the fixed stages of a request,
and each action is one stage with all its outcomes, including the exceptions that end the request
(`ConclusionRaises`, `AssemblyRaises`), those that are swallowed (`ResearchRaises`, `WriteBackFails`,
a failed load or save) and `Crash`, which can happen between any two.  A source is represented by
the request whose retrieval found it, so a stored unit, a recalled one and a citation all show
where they come from.  The research stage appears by its result, whose statuses are those of
`ResearchExecutor` and whose open questions are appended whatever the status: none when it is
completed, at least one (unless it was open before) when it is a partial success or failed
(`NewQuestions`, `SomeQuestions`).  Write-back is a loop: `Distill` takes the next candidate of a list of any
length, every way a candidate ends leads back to it, and `DistillNothing` is the end of the list.
The pipeline extends two modules that have no behaviour of their own:

- **`KnowledgeMemory`**: the knowledge table.  `Visible` is the scope filter of the store, `Recall` any
  choice of `RecallLimit` visible rows, or all if there are fewer (nearness is left open, but rows of
  the same text come first), `Admitted` the validation of candidates, `StoreKnowledge` the
  insert with the time stamp taken when the row was shaped.
- **`SessionContinuity`**: the Redis value.  `Updated` folds a turn into it: summaries keep the last
  `MaxTurns`, questions the first `MaxQuestions`, as the code cuts them at opposite ends.

**`KnowledgeBrowsing`** pages through the units of a project while the requests of `Pipeline` insert
them.

**`SourceFamilies`** is one call of a family: tool, search, selection, fetch (the web in one batch,
papers and docs one after another; of the latter an error the client did not raise itself fails the
call, `FetchDocsRaises`), normalization.  Fetches of the web and of papers are looked up by document, those of
docs by the place of the entry (`FetchesOf`).  A text is the finite set of statements it makes:
containment and length of strings become inclusion and cardinality.  Provider adapters appear by
what they let through (`WebHit`, `PaperHit`, `DocsHit`, `KnowledgeHit`).

**`EvidenceProcessing`** extends it with what becomes of the items: `DedupMaterials`, one coroutine
per material (`TakeSlot` to `ModelCallFails`, with the client's retries) and `Consolidated`.
**`EvidenceStage`** is what that promises: every material is decided once, the answer follows from
the decisions alone, keeps every unit with all its sources, names no source for what it does not
say a part of, and the status is truthful (`SafetySpec`); and an accepted request is answered (`Spec`).  `EvidenceProcessing` implements it (`ImplementsEvidenceStage`).

**`ArxivSearchClient`** is the client all requests of a process share: a lock around wait and
request, and two times, of the last request and of the end of a cooldown.  The clock advances
freely (`Tick`); a search may be cancelled wherever it awaits.

**`PoolRegistry`** is the other object of this kind: `get_pool` looks without the lock (`GetPool`), again
under it (`TakeLock`), and holds it while the pool is created; `close` takes over all pools under the
lock and closes them afterwards.  A pool is named by the call that created it.  The lock is first come
first served in the code and anybody's in the model.  The task that runs `close` is not cancelled.

Names ending a comment "Deviation:" mark operators no specification uses.  Each is the definition
below it with a plausible mistake, and `mutants` in `PROJECT.json` says which property notices it.

## 3. The runs

| run | instance | distinct states | shows |
|---|---|---|---|
| `tel` | 4 families (one unregistered, one with several tools); every mode, policy, owner; budgets 0 and 2 | 190 thousand | bounds, constraints, promised retries, usable results; refinement of `FamilyAcquisition` |
| `executor_requests` | every request the executor can build over the 4 families | 7 thousand | a promised fallback finds a family; only available families run |
| `executor` | budgets 0 to 3, two targets, all stage inputs | 533 thousand | budget, decision, report and links of a stage; termination |
| `retrieval` | 4 families, 3 documents, 3 statements, 2 fetches, 2 slots, 1 retry; 3 searches on the client, interval 2, cooldown up to 3; 4 calls for 2 pools | 210 thousand | found sources reach the evidence, refinement of `EvidenceStage`; searches are spaced; pools are shared |
| `pipeline` | 3 requests of 2 users, 2 projects and none, 1 session, 3 units, up to 2 questions at a time, page size 1 | 1.0 million | scope and ground of knowledge, failed requests, sessions, browsing |
| `actions` | 2 runs, 2 candidates each, 2 titles, 3 identifiers; 2 writers and a caller over 5 rows, page size 2 | 136 thousand | stored once and forward only without overlap; listings and counts while runs write |
| `supersession` | 3 runs in 2 scopes, 2 candidates each, 2 stored rows | 39 thousand | nothing dropped, scopes separate; linear versions without overlap |
| `profile` | 3 runs, 1 candidate each, with and without a stored profile | 21 thousand | one active profile, connected history, progress in spite of deadlocks |
| `conversation` | 3 runs (up to 2 users, 2 projects), 2 sessions, times 1 to 3, page size 1 | 449 thousand | ownership, activity, pages |
| `retry_budget_doc`, `actions_lifecycle_doc`, `supersession_doc` | as above | | the three findings of section 6 |

*Serial and overlapping.*  Some properties hold only of runs that do not overlap, others of all.
The MC modules of the three memory tables add a variable `serial`, chosen at the start and never
changed: when it is true, a run handles a candidate only while no other run is in the middle of
one.  One run of TLC then checks, for instance, that without overlap versions form lines
(`SerialVersionsAreLinear`) and that with it nothing is dropped (`NothingIsDropped`).

*Scenarios.*  `MCActionMemory`, `MCPipeline` and `MCRetrieval` put components side by side that
would multiply each other's states without meeting.  A variable `scenario`, chosen at the start,
says which one moves; in `MCPipeline` it also fixes inputs the scenario is not about (the sessions of
requests whose knowledge is examined are empty, and the other way round).  The modules themselves
are not restricted.  Every action of `Pipeline` is taken in one of its scenarios, and requests that
overlap do so in all three.

*Bounds.*  All bounds are constants of the modules: budgets, `BatchSize`, page sizes and the limits the
program has itself (`RecallLimit`, `MaxTurns`, `MaxQuestions`, `MaxResults`, `MaxFetches`, `Slots`,
`MaxRetries`), the numbers of runs, rows and identifiers, and, as bounds of the models only, the ends
of their clocks (`MaxClock`, `MaxTime`, `LastTime`) and the new questions one research stage may raise
(`MaxRaised`).

- Retry budgets 0 and 2 have no retry, a first and a last one; a fallback is possible once, so two
  families that run and a third that could, with one more that is unregistered, are all a request
  can distinguish.
- Three iterations are the first, a middle and the last one; budget 0 is clamped to 1 by the code.
- Two overlapping runs suffice for every race of read and write; a deadlock of profile transactions
  takes a third that retires the row two others have read, which is why that run has three.  A
  second candidate matters in the tables whose lookup finds what the run wrote before, and to show
  that a failed candidate leaves nothing behind.
- In `pipeline`, a unit that reaches a third request has been recalled, adopted and stored by a second
  one, which is the shortest way for knowledge to travel; two projects, a request without one and one of
  another user are all the scopes there are.  A serial request may store all three units, an overlapping or
  browsing one stores a single unit and an overlapping one raises a single question.  Two summaries and questions are kept, so a third is cut; a recall
  of two rows can miss one of three.  Overlapping requests are two.
- In `retrieval`, three documents, one of which repeats a part of another and one of which restricts
  it, give every relation of two materials and a third that meets the result of a merge; two slots
  make a third coroutine wait; a second failure is the last one.  Of four calls for two pools, two can
  meet in each lock, or three in one while a fourth asks for the other.  Times up to 8 leave room for three
  requests with a cooldown between.
- A page of one entry puts a boundary between any two (of two, in `actions`, also inside a group of
  equal stamps); three times with ties show both comparisons.
  More runs would only add entries.

*Deadlock* checking is off in every configuration, since every modelled call ends: a request, a
stage, a batch, a listing.

## 4. Fairness

- `ToolExecutionLayer`, `ResearchExecutor`: `WF_vars(Next)`.  The call is one coroutine; each await
  in it returns or raises, and no other process can disable its next step.  (Family services and
  model clients have timeouts of their own, so an await that never returns is not among what the
  code allows for.)
- `FamilyAcquisition`: weak fairness of `Answer`, the promise itself.
- `ProfileMemory`: weak fairness of each run's `Progress`, its next statement, and of
  `AbortDeadlock`: PostgreSQL detects a cycle of waiting transactions and aborts one.  Nothing is
  assumed of `CandidateFails`, so `BatchesFinish` does not lean on failures.
- `MCRetrieval`: weak fairness of `RetrievalStep`: every search, fetch and model call has a timeout in
  its client, and its coroutine goes on with the answer or the failure.  The promise of
  `EvidenceStage` that an accepted request is answered rests on it.  `Tick` is not fair: no property
  of the client needs time to pass.
- The other modules state no liveness.  Runs of the tables end after finitely many steps by their
  `remaining` counters, which a run with fairness would only restate; that a request of `Pipeline` ends
  depends on the length of the list the distiller proposes, which the model leaves open.

## 5. What is proved

TLAPS checks these for every value of the constants: any families, requests, budgets, rows, texts,
page sizes, numbers of runs and sessions.  The assumptions are the `ASSUME`s of the component modules,
which TLC evaluates in every run, and two that single theorems state: `MaxTurns > 1` (the code keeps
two) and `ExecutorAsks`.

All properties of the passing runs but liveness are proved.

**`ToolExecutionLayer_proofs`**: `TypeCorrect`, `RecoveryAccounting`, `AttemptBound`,
`ConstraintsRespected`, `RetriesRun`, `UsableReturned`, `ImplementsAcquisitionSafely`.
`AttemptsAreBounded` says that a request makes at most `2(B + 1)` attempts, but the code counts
retries per family, in a map that grows with each family selected.  The inductive invariant is
`TypeOK`, `RecoveryIsAccounted` and three facts: `RetriesAreConfined` (before the fallback only the
selected family has been retried, after it one abandoned family besides, which is blocked),
`RetriesAreSplit` (the total is the sum of these two counters) and `SelectionIsLegal`.  Each counter
is at most `B` because a retry is scheduled only below it, the total at most `2B`, and one fallback
and one final attempt make `2B + 2`.  The trace properties add that the counters agree with the
trace: a retry at its end means the loop is about to run the family that is selected, and a usable
attempt at its end means that it stops.  For the refinement, the number of attempts on a family is the
cardinality of a set of positions of the trace, which an attempt extends by one position, so no
induction over the trace is needed; `AttemptsAreCounted` relates it to the retry counters.  The theorem
is about `SafetySpec`, the initial states and steps of `FamilyAcquisition`.

`FallbacksFindFamilies` and `OnlyAvailableRun` are about the requests Research Executor builds
(`ExecutorAsks`: requests are among `ExecutorRequests`, and every family has its service, as
`retrieval_provider` wires them).  The evaluator promises a fallback if *any* family is left, selection
looks for one in the scope of the mode; `FallbackLeavesCandidates` shows that for projected requests the
two agree, because in memory mode no fallback is allowed, and in external mode the allowed families are
the ones in scope.  `ProjectedFields` says that the projection leaves no restriction empty, which selection
would read as none.

The same module holds the proofs about the two objects all requests of a process share.  Of the
search client `ClientTypeCorrect` and `SpacingCorrect`, for any number of searches, interval and clock:
the wait is computed when the lock is taken; `LockInv` says that it is still right when it is used, as the
two times it was computed from change only while the lock is held, and that a cooldown that was
promised never shrinks.  Of the registry `RegistryTypeCorrect` and `PoolsShared`: `CreatesAlone` says
that while a pool is being created its DSN stays without one and the registry open,
`ListedPoolsAreOpen` that what is handed out has not been closed.

Its last part is about a retrieval, from the hits of a search to the answer: `RetrievalTypes`,
`FoundSourcesNamed` and `KeepsThePromise`, for any documents, statements, limits, slots and retries, and
whatever providers and the model answer.  The components themselves assume that texts are finite, that the
rows of one recall are different rows, and that `None` is no answer.

- *Folds.*  Materials and units are folds over sequences, and neither provers nor library can apply
  induction to them as a scheme.  `FoldLeft` takes its value from a function, chosen by its
  equation, on sets of positions.  That there is such a function (`IterationExists`) makes the values on the first
  1, 2, ... positions follow from one another (`Iterates`), and `IntervalInduction` turns a claim about
  all of them into one about the least position at which it would fail.  `DedupKeepsSources`,
  `ConsolidationKeepsEvidence` and `JoiningKeepsUnits` are what the three folds preserve of *every* sequence.
  Deduplication compares and replaces in place, so what it preserves is not that an item stays but that
  its source stays with some text; consolidation may merge a unit several times, so coverage must be
  transitive (`CoversIsTransitive`) and grounding is relative to all units seen so far.
- *The tool and its family.*  `ToolInv`: the items handed on correspond to the hits one to one, in order, with
  their sources, and a hit with a snippet keeps some text whether its page was fetched, failed or was
  not selected.
- *The coroutines.*  `EvidenceInv`: materials are what deduplication makes of the items; the units a coroutine
  keeps name exactly the sources of its material, and without a model only a material that says nothing
  yields none (`WorkIsConsistent`); and
  the answer, once there, is a function of what the coroutines decided (`Answer`), in whatever order
  they did and however often they retried.
- `KeepsThePromise` follows step by step: `StartStructuring` maps to `Accept`, the end of a coroutine to `Decide`,
  `FinishProcessing` and `ShortCircuit` to `Answer`, every other step of the tool, the slots, the client and the registry
  to a stutter.  It is about `SafetySpec`, the initial states and steps of `EvidenceStage`.

`RetrievalSpacesAndShares` repeats the results on the client and the registry beside a retrieval, which is
what the run explores.

**`ResearchExecutor_proofs`**: `TypeCorrect`, `LoopCorrect`, `LinksCorrect`,
`ReportCorrect`, for any targets, needs and budgets.  `StageInv` adds to the properties what each
step may rely on: where counters and logs stand (`Counters`), how the loop was left (`Ending`),
which evidence the current iteration has produced and linked (`Links`), and that a result says
what the final state says (`Reported`).

**`ActionMemory_proofs`**: `TypeCorrect` for any interleaving.  For runs that do not overlap
(`SerialSpec`), `SerialMovesForward` and, when the candidates agree with the stored fields
(`CandidatesAgree`), `SerialStoresOnce`.  `SoleInv` says why overlap matters: as long as no other run
writes, what a run has read is still the table, so a transition that was legal when it was decided is
legal when it is written.  `SerialRunsAlwaysStoreOnce` and `SerialRunsAlwaysMoveForward` say the same of the
serial scenarios among those TLC explores.

The last part of the module is about `MemoryBrowsing`: `UntouchedRowsAreAlwaysListedOnce` and
`SummaryAlwaysCountsTheListing`, for any tables and page size and any number of writers.  `BrowsingInv` divides
the rows that have not been written to since the listing began at the cursor: `Sound` says that those
listed stand before it and the rest behind.  A page is defined by counting the rows before a
row; that such a page has a last row, with the others before it and all rows left over behind it, is
`PageHasLast`, which rests on a lemma about finite sets under a strict order (`FirstElement`).  A write may move a
row across the cursor, but then it is among the written ones.  `ListedAndCounted` relates pages and
counts as long as nothing is written.

**`VersionChain_proofs`** has lemmas on one replacement, used by both table proofs.  The central one:
if new row `n` is inserted and existing rows are retired in its favour, then every superseded row
still leads to an active one.  A set of superseded rows closed under "superseded by" cannot contain
a row of that transaction, as `n` is active, so it was closed before.

**`SupersessionMemory_proofs`**: `TypeCorrect`, `NothingDropped`, `ScopesSeparate`,
`SerialVersionsLinear`.  The invariant adds `PendingIsFresh`: rows of pending writes do not exist and
no two writes share one.  It holds for any interleaving and any failures, although versions may fork
(section 6).  `ScopesSeparate` needs that what a run is about to replace is of its own scope and
still there (`ReadsAndWritesInScope`), and that a link back leads to an existing row
(`BackLinksExist`), without which a new row could be taken for the predecessor of an old one.
`SerialVersionsLinear` is about `SerialSpec`, where what a run has read is also still *active*
(`ReadIsCurrent`); that is exactly what fails when runs overlap.
`SerialRunsAlwaysKeepLines` carries it over to the serial scenarios.

**`ProfileMemory_proofs`**: `TypeCorrect`, `OneActiveProfile`, `HistoryIsConnected`.  The invariant adds
`NewIsFresh`, `ReadRowsExist` and `CommitIsReady`: a transaction that has passed its insert has locked
the active row and is alone in that.  This is where the unique index enters: the insert waits for
other transactions' index entries and fails if an active row would remain.
`SerialRunsAlwaysPatchCurrent` is about serial runs: what a run has read stays the active row until it commits
(`ReadIsCurrent`), so both `UPDATE`s find it and `PatchedFromCurrent` holds.

**`ConversationHistory_proofs`**: `TypeCorrect`, `MessagesFit`, `ActivityStored`, `NoRepetition`,
`NothingSkipped`: all five properties of the module.  The writers' half of the invariant says what a
run in progress relies on (`UnwrittenTurns`, `OpenTurns`).  The reader's half, `OpeningIsKept` and
`CursorDivides`, divides the entries at the cursor: what was shown is not below it, and what was
neither shown nor moved is.  `PageDivides` shows that a page re-establishes this, `GrowthKeepsReader`
that writers cannot break it, because they only add entries and only move them up.  The second
would fail if activity could move a session back, which is what the `GREATEST` of
`record_message_activity` prevents.

**`Pipeline_proofs`** is about the pipeline with the knowledge table, the session values and the listing of
units.  None of its properties is inductive; each has an invariant of its own:

- `PipelineTypes`.  `ContextInv` adds which stages a request may hold a candidate, a shaped row, an answer
  and a loaded session in (`StagesAreOrdered`).
- `KnowledgeStaysInScopeAlways`, `StoredKnowledgeIsGroundedAlways`.  `SourcesInv` says of rows, of what
  requests hold and of pending inserts that their sources were found for a user and a project that
  may see them, by a research stage that did not fail; and that no two pending inserts and no stored
  row share an identifier.  What makes it inductive is `FoundForWider`: knowledge of the user is seen from every
  project of the user, and is stored again for a project only, never the other way round.
- `RaisedRequestsNeverLeaveATurn`.  `TurnsInv`: before a request saves or records its turn there is none
  of it.  As the response is assembled first, no later stage raises.
- `LastTurnIsAlwaysKept`.  `WindowInv` is stronger than the property: the last turn *ends* the window unless it
  was there before, since a window that is full drops its first entry.
- `SerialTurnsAreKept`, `SerialQuestionsAreCarried`: of `SerialSpec`, in which a request moves only while the
  others have not begun or have ended.  `SerialInv`: the session a request has loaded is the stored one, or that has
  expired; its own questions begin with the stored ones.
- `SerialRequestsStoreOnce`.  `LookupInv`: what a request has recalled is still what a recall would
  find.  While a recall can hold all rows of a text, a row it does not find does not exist.
- `ListingsAreExact`, for any requests, overlapping or not.  `ListingInv` divides the units that were there at the
  first page at the cursor, as in `MemoryBrowsing`; inserts may come before or behind it, but existing
  units never move.

`RecentTurnsAreAlwaysRemembered`, `SerialTurnsAlwaysCarryQuestions` and `SerialScenariosStoreOnce` are these
results for the scenarios of `MCPipeline`, whose restrictions of the environment are then just more
behaviours left out.

**Model-checked only:** liveness, that is `StageEnds`, `BatchesFinish`, and the fairness parts of
`ImplementsAcquisition` and `ImplementsEvidenceStage`.  They need `ENABLED`, which is beyond the prover.

Type invariants of the other component modules are proved and not among the runs' properties.

## 6. Where the code and its documents disagree

The `findings` of `PROJECT.json`, each with a run whose property TLC violates:

1. **`retry_budget` is per family.**  `docs/research-runtime-lld.md:5663-5665` calls it the total number
   of recovery actions of a request; the code allows `2B + 1` (`tool_execution_layer_service.py:420`).
   What the code does guarantee is `AttemptsAreBounded`, which is proved.
2. **A finished action can be reopened.**  Run 1 reads an action that is `todo`, run 2 moves it to
   `done`, run 1 writes `in_progress`: `upsert_action` overwrites whatever is there
   (`postgres_action_memory_store.py:136`).  `docs/context-memory-storage-lld.md:3744, 4023-4027`
   require legal transitions.
3. **A decision can have two active successors.**  The supersede `UPDATE` has no condition on the old
   row's status (`postgres_decision_memory_store.py:238`, likewise for policies);
   `docs/context-memory-storage-lld.md:3745` requires clear relations between versions.

Observed on the way, by the same mechanism or outside the modelled callers, and not listed as
findings:

- Open questions of a session are only ever added and cut; nothing removes a resolved one, which
  `context-memory-storage-lld.md:2391-2401, 2435` requires.  `QuestionsAreCarried` states what the code
  does instead.
- When the session cannot be read at the start of a request but can at its end, the save replaces its
  open questions by those of the run (`session_continuity_manager_service.py:78`): the property is
  about turns that did read them.  Overlapping turns of a session overwrite each other.
- When the session expires between the load and the save of an update, the save brings its old window
  back (`session_continuity_manager_service.py:31`), so a summary that was in that window keeps its old
  place and may be the next to fall out.  `TurnBeforeIsKept` therefore excludes a turn that repeated a
  summary of the window it loaded; without this it holds in small instances only, which the proof showed.
- Duplicate materials and equal units are matched with the first that fits, and a replacement is not
  compared again, so the result may depend on the order and contain two that would now match
  (`research-runtime-lld.md:6428-6470, 6905-6920` describe rules, not this).  A material that is removed
  as a duplicate takes its sources beyond the first along; `FoundSourcesReachTheEvidence` is about the
  first.
- Which of two texts is longer is decided on the raw content (`evidence_processing_service.py:368-377,
  711`), containment on the normalized one.  The texts of the model are normalized already, so a text that is
  longer by blanks only, and takes the place of one it does not add to, is not among its behaviours; what
  it says would be the same.
- The outcome evaluator reads the raw available families (`iteration_outcome_evaluator.py:185`), the assessor those without
  recall when there is no owner.  With recall alone and no owner, no acquisition is possible and the stage
  refines until its budget ends.  No document says it stops earlier, and the properties of the loop
  only say that it ends within its budget, so none of them notices.
- Consolidation lets a text grow a little with each merge, so a source may end up named for a text
  that says more than it does; `IsGrounded` asks that it say a part.
- A row that is *written* between two pages may be listed twice or not at all; the summary is four
  counts of four moments.  The properties are about rows left alone.

And, shorter: overlapping runs can both store one action (`OneActiveRowPerTitle` holds of serial runs
only; `context-memory-storage-lld.md:3927, 4033-4034`); a profile can be patched from a row that is
no longer current (`PatchedFromCurrent` holds of serial runs only); an intersection of available and
registered families that is empty reads as "no restriction" in the request loop, which the requests
of the executor with all four services never meet (`RunsOnlyAvailable`;
`tool_execution_layer_request.py:91-98`); `last_message_at` stays behind the latest message when a
run fails between its second and third statement (`context-memory-storage-lld.md:7739`), so
`ActivityIsStored` is stated in the direction that does hold.

## 7. What is not modelled, and why

- Contents: queries, prompts, evidence, answers, profile fields, policy texts; parsing of model
  payloads beyond accepting or raising.  The models let a language model answer anything its
  validators accept.
- Time inside a request: the layer passes no elapsed time to its evaluator, so the timeout branch of
  the completion evaluator cannot be reached; counters bound the request.
- HTTP payloads, readiness probes, API schemas, wiring, frontend: I/O or stateless mapping.
- Routing and decomposition, query generation, the retrieval history: they write texts that later
  prompts read, and nothing the properties tell apart depends on them.
- The loads of actions, decisions, policies and profile into the context of a request, which only feed
  prompts; their write-back is in modules of its own, which start from the candidates.
- `list_project_messages`, which nothing calls, and the encodings of cursors.
- In `EvidenceProcessing`, the handler around the whole call: nothing inside it raises, as each
  material's failure is caught where it happens; in particular, selection without embeddings cannot
  fail.

## 8. Plan

Done: the request loop and its contract, the stage loop, retrieval and evidence processing, the memory
tables that write-back versions, overwrites or extends, the session value, conversation history, the
paged listings, the shared clients, and the pipeline over them; and proofs of all their properties but
liveness.  What would come next is a composition of `ResearchExecutor` with `FamilyAcquisition` and
`EvidenceStage` in place of the answers it now leaves open.

## 9. Running it

`tlc -config X.cfg M` for the module and configuration of each entry of `runs`; `tlapm M.tla` for each
`*_proofs` module.
