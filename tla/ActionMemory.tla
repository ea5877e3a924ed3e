---------------------------- MODULE ActionMemory ----------------------------
(***************************************************************************)
(* Action Memory: runs that write back action candidates to the            *)
(* action_memory table.  MemoryPersistenceService.persist handles the      *)
(* candidates of a run one after another; for each it reads the active     *)
(* rows of the project, lets SemanticResolverService relate the candidate  *)
(* to them, decides, and writes a whole row.  Other runs of the same       *)
(* project interleave between these awaits, and nothing ties the write to  *)
(* the rows that were read.                                                *)
(*                                                                         *)
(* Every candidate names its action; of the other business fields only     *)
(* whether they agree with the stored rows matters ("patch").              *)
(***************************************************************************)
EXTENDS Integers, FiniteSets

CONSTANTS
    Run,            \* concurrent runs of one user and project
    ActionId,       \* identifiers new rows may get
    Title,          \* action titles
    Candidate,      \* the candidates a run may hand in
    BatchSize,      \* candidates per run
    None            \* no status, no row, no decision

ActionStatus == {"todo", "in_progress", "blocked", "done", "cancelled"}

CandidateShape == [title: Title, status: ActionStatus \cup {None}, patch: BOOLEAN]

ASSUME CandidateAssumption == Candidate \subseteq CandidateShape
Row == [title: Title, status: ActionStatus]

\* A write to come: the identifier and the whole row.
Pending == [id: ActionId, row: Row]

ASSUME BatchAssumption == BatchSize \in Nat
ASSUME NoneAssumption == None \notin ActionStatus \cup Row \cup Candidate \cup Pending

VARIABLES
    table,          \* action_memory: a row or None for every identifier
    phase,          \* of each run: "lookup", "resolve", "write"
    remaining,      \* candidates each run still has to handle, this one included
    candidate,      \* the candidate a run is handling
    snapshot,       \* existing_records of that candidate
    decision        \* the row to write and its identifier, or None

vars == <<table, phase, remaining, candidate, snapshot, decision>>

-----------------------------------------------------------------------------
(* The lifecycle rules and the store's read path.                           *)

\* Deviation: a blocked action may go back to todo.
ReopeningTransitions(status) ==
    CASE status = "todo"        -> {"in_progress", "blocked", "done", "cancelled"}
      [] status = "in_progress" -> {"blocked", "done", "cancelled"}
      [] status = "blocked"     -> {"todo", "in_progress", "done", "cancelled"}
      [] OTHER                  -> {}

AllowedTransitions(status) ==
    CASE status = "todo"        -> {"in_progress", "blocked", "done", "cancelled"}
      [] status = "in_progress" -> {"blocked", "done", "cancelled"}
      [] status = "blocked"     -> {"in_progress", "done", "cancelled"}
      [] OTHER                  -> {}

IsLegal(current, next) == next \in AllowedTransitions(current)

\* Rows in a final status are archived when written; the lookup lists neither
\* archived rows nor rows in a final status.
IsActive(row) == row # None /\ row.status \notin {"done", "cancelled"}

ActiveRows == {a \in ActionId : IsActive(table[a])}

-----------------------------------------------------------------------------
(* Semantic resolution of candidate c against the rows that were read.      *)

Resolution(relation, a) == [relation |-> relation, match |-> a]

Match(relation, a, c, rows) ==
    IF relation # "state_transition" \/
       (c.status # None /\ IsLegal(rows[a].status, c.status))
      THEN Resolution(relation, a)
      ELSE Resolution("conflict", a)

\* Deviation: a candidate without a status is not compared by title.
SameTitleAndStatus(c, rows) ==
    {a \in DOMAIN rows : rows[a].title = c.title /\ c.status # None}

SameTitle(c, rows) == {a \in DOMAIN rows : rows[a].title = c.title}

\* A row of the same title whose other fields agree is decided by rule.
ByRule(c, rows) ==
    {IF c.status \in {None, rows[a].status}
       THEN Resolution("duplicate", a)
       ELSE Match("state_transition", a, c, rows) : a \in SameTitle(c, rows)}

\* Otherwise the model relates the candidate to no row or to one of those read,
\* and a transition it proposes is checked again.
ByModel(c, rows) ==
    {Resolution("no_match", None)} \cup
    {Match(relation, a, c, rows) :
        relation \in {"duplicate", "changed", "state_transition", "conflict"},
        a \in DOMAIN rows}

Resolutions(c, rows) ==
    CASE DOMAIN rows = {}                      -> {Resolution("no_match", None)}
      [] ~c.patch /\ SameTitle(c, rows) # {}   -> ByRule(c, rows)
      [] OTHER                                 -> ByModel(c, rows)

\* The row a create or a status transition writes.
CreatedRow(c) ==
    [title |-> c.title, status |-> IF c.status = None THEN "todo" ELSE c.status]
TransitionedRow(c) == [title |-> c.title, status |-> c.status]

-----------------------------------------------------------------------------
(* The steps of one run.                                                    *)

Init ==
    /\ table = [a \in ActionId |-> None]
    /\ phase = [r \in Run |-> "lookup"]
    /\ remaining = [r \in Run |-> BatchSize]
    /\ candidate = [r \in Run |-> None]
    /\ snapshot = [r \in Run |-> <<>>]
    /\ decision = [r \in Run |-> None]

\* The candidate is done with: an item is reported and the next one starts.
NextCandidate(r) ==
    /\ phase' = [phase EXCEPT ![r] = "lookup"]
    /\ remaining' = [remaining EXCEPT ![r] = @ - 1]
    /\ candidate' = [candidate EXCEPT ![r] = None]
    /\ snapshot' = [snapshot EXCEPT ![r] = <<>>]
    /\ decision' = [decision EXCEPT ![r] = None]

Lookup(r, c) ==
    /\ phase[r] = "lookup"
    /\ remaining[r] > 0
    /\ candidate' = [candidate EXCEPT ![r] = c]
    /\ snapshot' = [snapshot EXCEPT ![r] = [a \in ActiveRows |-> table[a]]]
    /\ phase' = [phase EXCEPT ![r] = "resolve"]
    /\ UNCHANGED <<table, remaining, decision>>

Decide(r, a, row) ==
    /\ decision' = [decision EXCEPT ![r] = [id |-> a, row |-> row]]
    /\ phase' = [phase EXCEPT ![r] = "write"]
    /\ UNCHANGED <<table, remaining, candidate, snapshot>>

\* Identifiers are generated: no row and no pending write has a fresh one.
FreshIds ==
    {a \in ActionId : table[a] = None /\
        \A r \in Run : decision[r] = None \/ decision[r].id # a}

ResolveToCreate(r) ==
    /\ phase[r] = "resolve"
    /\ \E v \in Resolutions(candidate[r], snapshot[r]) : v.relation = "no_match"
    /\ \E a \in FreshIds : Decide(r, a, CreatedRow(candidate[r]))

\* The decision checks the transition once more against the row that was read.
ResolveToTransition(r) ==
    /\ phase[r] = "resolve"
    /\ \E v \in Resolutions(candidate[r], snapshot[r]) :
        /\ v.relation = "state_transition"
        /\ IsLegal(snapshot[r][v.match].status, candidate[r].status)
        /\ Decide(r, v.match, TransitionedRow(candidate[r]))

ResolveToNoWrite(r) ==
    /\ phase[r] = "resolve"
    /\ \E v \in Resolutions(candidate[r], snapshot[r]) :
        v.relation \in {"duplicate", "changed", "conflict"}
    /\ NextCandidate(r)
    /\ UNCHANGED table

\* upsert_action overwrites the row whatever it holds now.  The write may also
\* be reported as failed after it took effect: the next candidate starts alike.
Write(r) ==
    /\ phase[r] = "write"
    /\ table' = [table EXCEPT ![decision[r].id] = decision[r].row]
    /\ NextCandidate(r)

\* Lookup, model call or write raises: the candidate is reported as failed.
CandidateFails(r) ==
    /\ remaining[r] > 0
    /\ NextCandidate(r)
    /\ UNCHANGED table

Step(r) ==
    \/ \E c \in Candidate : Lookup(r, c)
    \/ ResolveToCreate(r)
    \/ ResolveToTransition(r)
    \/ ResolveToNoWrite(r)
    \/ Write(r)
    \/ CandidateFails(r)

Next == \E r \in Run : Step(r)

Spec == Init /\ [][Next]_vars

-----------------------------------------------------------------------------
(* Properties.                                                              *)

\* Every variable has its type; a pending write belongs to the write phase.
TypeOK ==
    /\ table \in [ActionId -> Row \cup {None}]
    /\ phase \in [Run -> {"lookup", "resolve", "write"}]
    /\ remaining \in [Run -> 0..BatchSize]
    /\ candidate \in [Run -> Candidate \cup {None}]
    /\ decision \in [Run -> Pending \cup {None}]
    /\ DOMAIN snapshot = Run
    /\ \A r \in Run :
        /\ DOMAIN snapshot[r] \subseteq ActionId
        /\ \A a \in DOMAIN snapshot[r] : snapshot[r][a] \in Row
        /\ phase[r] # "lookup" => candidate[r] # None /\ remaining[r] > 0
        /\ phase[r] = "write" <=> decision[r] # None

Changed(a) == table[a] # None /\ table'[a] # table[a]

MovesForward ==
    \A a \in ActionId : Changed(a) =>
        IsActive(table[a]) /\ table'[a] # None /\
        (table'[a].status = "todo" => table[a].status = "todo")

\* A stored action only moves forward: a finished or cancelled action is never
\* reopened, and none goes back to todo (context-memory-storage-lld.md 3744).
\* It holds of runs that do not overlap.
LifecycleMovesForward == [][MovesForward]_vars

\* A second active row for the same action is never created when candidates
\* agree with the stored fields.  It holds of runs that do not overlap.
OneActiveRowPerTitle ==
    \A a, b \in ActiveRows : table[a].title = table[b].title => a = b
=============================================================================
