------------------------- MODULE SupersessionMemory -------------------------
(***************************************************************************)
(* Decision and Preference/Policy Memory: runs that write back candidates  *)
(* whose new version supersedes a stored one.  As with actions, the        *)
(* candidates of a run are handled one after another, each by a lookup, a  *)
(* semantic resolution and a write; the write is one transaction that      *)
(* retires the old row by its identifier and inserts the new one.          *)
(*                                                                         *)
(* A run writes in its own scope (its project, or the user when it has     *)
(* none) and also reads the rows of the shared scopes: those of the user   *)
(* and of the system, for policies; none, for decisions.                   *)
(***************************************************************************)
EXTENDS Integers, FiniteSets, VersionChain

CONSTANTS
    Run,            \* concurrent runs of one user
    Scope,          \* owner scopes: projects, the user, the system
    Shared,         \* scopes every run reads
    ScopeOf,        \* the scope each run writes in
    Seed,           \* the scope of each row stored before the runs start
    BatchSize       \* candidates per run

ASSUME SharedAssumption == Shared \subseteq Scope /\ None \notin Scope
ASSUME ScopeOfAssumption == ScopeOf \in [Run -> Scope]
ASSUME SeedAssumption == DOMAIN Seed \subseteq RecordId /\ \A a \in DOMAIN Seed : Seed[a] \in Scope
ASSUME BatchAssumption == BatchSize \in Nat

\* A write to come: the identifier of the new row and the row it supersedes.
Pending == [id: RecordId, supersedes: RecordId \cup {None}]

ASSUME PendingAssumption == None \notin Pending

VARIABLES
    table,          \* the memory table: a row or None for every identifier
    owner,          \* the owner scope of every row, None without a row
    phase,          \* of each run: "lookup", "resolve", "write"
    remaining,      \* candidates each run still has to handle, this one included
    snapshot,       \* existing_records of the candidate at hand
    decision        \* the identifier and the predecessor of the row to write

vars == <<table, owner, phase, remaining, snapshot, decision>>

-----------------------------------------------------------------------------

Init ==
    /\ table = [a \in RecordId |-> IF a \in DOMAIN Seed THEN NewVersion(None) ELSE None]
    /\ owner = [a \in RecordId |-> IF a \in DOMAIN Seed THEN Seed[a] ELSE None]
    /\ phase = [r \in Run |-> "lookup"]
    /\ remaining = [r \in Run |-> BatchSize]
    /\ snapshot = [r \in Run |-> {}]
    /\ decision = [r \in Run |-> None]

NextCandidate(r) ==
    /\ phase' = [phase EXCEPT ![r] = "lookup"]
    /\ remaining' = [remaining EXCEPT ![r] = @ - 1]
    /\ snapshot' = [snapshot EXCEPT ![r] = {}]
    /\ decision' = [decision EXCEPT ![r] = None]

\* Deviation: superseded rows are listed too.
ListedWhateverStatus(r) == {a \in Rows(table) : owner[a] \in Shared \cup {ScopeOf[r]}}

\* list_active_decisions, list_applicable_policies.
Listed(r) == {a \in ActiveIn(table) : owner[a] \in Shared \cup {ScopeOf[r]}}

Lookup(r) ==
    /\ phase[r] = "lookup"
    /\ remaining[r] > 0
    /\ snapshot' = [snapshot EXCEPT ![r] = Listed(r)]
    /\ phase' = [phase EXCEPT ![r] = "resolve"]
    /\ UNCHANGED <<table, owner, remaining, decision>>

\* Deviation: a shared rule is compared, and replaced, like one of the run's own.
EligibleWhateverScope(r) == snapshot[r]

\* The rows a candidate is compared with.  A row's scope never changes.
Eligible(r) == {a \in snapshot[r] : owner[a] = ScopeOf[r]}

\* Identifiers are generated: no row and no pending write has a fresh one.
FreshIds ==
    {a \in RecordId \ Rows(table) :
        \A r \in Run : decision[r] = None \/ decision[r].id # a}

Decide(r, old) ==
    /\ \E a \in FreshIds :
        decision' = [decision EXCEPT ![r] = [id |-> a, supersedes |-> old]]
    /\ phase' = [phase EXCEPT ![r] = "write"]
    /\ UNCHANGED <<table, owner, remaining, snapshot>>

\* The candidate matches no row.
ResolveToCreate(r) ==
    /\ phase[r] = "resolve"
    /\ Decide(r, None)

\* "changed" with fields to patch: append_supersede of a decision, replace of a
\* policy.  Which row the model matches is left open.
ResolveToSupersede(r) ==
    /\ phase[r] = "resolve"
    /\ \E a \in Eligible(r) : Decide(r, a)

\* "duplicate", "conflict", or "changed" without a field to patch.
ResolveToNoWrite(r) ==
    /\ phase[r] = "resolve"
    /\ Eligible(r) # {}
    /\ NextCandidate(r)
    /\ UNCHANGED <<table, owner>>

\* The UPDATE of the transaction also requires the owner scope.
RowsRetired(r) ==
    {a \in Rows(table) : a = decision[r].supersedes /\ owner[a] = ScopeOf[r]}

TableAfter(r) ==
    Replaced(table, decision[r].id, decision[r].supersedes, RowsRetired(r))

\* Two transactions that retire the same row wait for each other on that row
\* only, and the UPDATE does not look at its status: they take effect in turn.
Write(r) ==
    /\ phase[r] = "write"
    /\ table' = TableAfter(r)
    /\ owner' = [owner EXCEPT ![decision[r].id] = ScopeOf[r]]
    /\ NextCandidate(r)

\* Deviation: no transaction, so the UPDATE outlives an INSERT that fails.
CandidateFailsHalfway(r) ==
    /\ remaining[r] > 0
    /\ table' = IF phase[r] = "write"
                  THEN [a \in RecordId |-> IF a \in RowsRetired(r)
                           THEN Retired(table[a], decision[r].id) ELSE table[a]]
                  ELSE table
    /\ NextCandidate(r)
    /\ UNCHANGED owner

\* Lookup, model call or transaction raises: the candidate is reported as failed.
CandidateFails(r) ==
    /\ remaining[r] > 0
    /\ NextCandidate(r)
    /\ UNCHANGED <<table, owner>>

Step(r) ==
    \/ Lookup(r)
    \/ ResolveToCreate(r)
    \/ ResolveToSupersede(r)
    \/ ResolveToNoWrite(r)
    \/ Write(r)
    \/ CandidateFails(r)

Next == \E r \in Run : Step(r)

Spec == Init /\ [][Next]_vars

-----------------------------------------------------------------------------
(* Properties.                                                              *)

\* Every variable has its type; a row has an owner exactly when it exists, and a
\* write is pending exactly in the write phase.
TypeOK ==
    /\ table \in [RecordId -> VersionRow \cup {None}]
    /\ owner \in [RecordId -> Scope \cup {None}]
    /\ phase \in [Run -> {"lookup", "resolve", "write"}]
    /\ remaining \in [Run -> 0..BatchSize]
    /\ snapshot \in [Run -> SUBSET RecordId]
    /\ decision \in [Run -> Pending \cup {None}]
    /\ \A r \in Run :
        /\ phase[r] = "write" <=> decision[r] # None
        /\ phase[r] # "lookup" => remaining[r] > 0
    /\ \A a \in RecordId : table[a] = None <=> owner[a] = None

\* However runs overlap and fail, knowledge is replaced and never dropped: from
\* every superseded row the links lead to an active one.
NothingIsDropped == EveryVersionLeadsToActive(table)

\* The rows of pending writes do not exist yet, and no two writes share one.
PendingIsFresh ==
    \A r \in Run : decision[r] # None =>
        /\ table[decision[r].id] = None
        /\ \A s \in Run \ {r} : decision[s] # None => decision[s].id # decision[r].id

\* Every link joins rows of one scope: a run never replaces a rule of the user, of
\* the system or of another project, although it reads some of them.
ScopesStaySeparate ==
    \A a, b \in Rows(table) :
        table[b].supersedes = a \/ table[a].supersededBy = b => owner[a] = owner[b]

\* After a replacement the relation between old and new version is clear
\* (docs/context-memory-storage-lld.md 3745): both rows state it, so no row has
\* two successors.  It holds of runs that do not overlap.
VersionsAreLinear == LinksAgree(table)
=============================================================================
