---------------------------- MODULE ProfileMemory ----------------------------
(***************************************************************************)
(* Project Profile Memory: runs of one project that replace its profile.   *)
(* upsert_profile is one transaction of three statements (retire the       *)
(* active row, retire the row that was read, insert the new one) under     *)
(* PostgreSQL's READ COMMITTED isolation, with a unique index on the       *)
(* active row of a project.  Statements wait on the rows and index entries *)
(* of other transactions, so this module looks inside the transaction.     *)
(***************************************************************************)
EXTENDS Integers, FiniteSets, VersionChain

CONSTANTS
    Run,            \* concurrent runs of one user and project
    Seed,           \* the profile that may be stored before, in a set, or {}
    BatchSize       \* profile candidates per run

ASSUME SeedAssumption == Seed \subseteq RecordId /\ \A a, b \in Seed : a = b
ASSUME BatchAssumption == BatchSize \in Nat

VARIABLES
    table,          \* the committed rows: a row or None for every identifier
    phase,          \* what each run does next
    remaining,      \* candidates each run still has to handle, this one included
    matched,        \* the active profile the candidate was compared with, or None
    new,            \* the identifier of the row to insert, or None
    seen,           \* the row the first UPDATE found active when it started
    retired         \* rows the open transaction has updated, and so locked

vars == <<table, phase, remaining, matched, new, seen, retired>>

-----------------------------------------------------------------------------

Init ==
    /\ \E stored \in SUBSET Seed :
        table = [a \in RecordId |-> IF a \in stored THEN NewVersion(None) ELSE None]
    /\ phase = [r \in Run |-> "lookup"]
    /\ remaining = [r \in Run |-> BatchSize]
    /\ matched = [r \in Run |-> None]
    /\ new = [r \in Run |-> None]
    /\ seen = [r \in Run |-> None]
    /\ retired = [r \in Run |-> {}]

\* The candidate is done with, and its transaction, if any, is over.
NextCandidate(r) ==
    /\ phase' = [phase EXCEPT ![r] = "lookup"]
    /\ remaining' = [remaining EXCEPT ![r] = @ - 1]
    /\ matched' = [matched EXCEPT ![r] = None]
    /\ new' = [new EXCEPT ![r] = None]
    /\ seen' = [seen EXCEPT ![r] = None]
    /\ retired' = [retired EXCEPT ![r] = {}]

\* load_active_profile.
Lookup(r) ==
    /\ phase[r] = "lookup"
    /\ remaining[r] > 0
    /\ \E a \in RecordId \cup {None} :
        /\ IF ActiveIn(table) = {} THEN a = None ELSE a \in ActiveIn(table)
        /\ matched' = [matched EXCEPT ![r] = a]
    /\ phase' = [phase EXCEPT ![r] = "resolve"]
    /\ UNCHANGED <<table, remaining, new, seen, retired>>

\* "duplicate", or no field to patch: only a stored profile allows either.
ResolveToNoWrite(r) ==
    /\ phase[r] = "resolve"
    /\ matched[r] # None
    /\ NextCandidate(r)
    /\ UNCHANGED table

FreshIds == {a \in RecordId \ Rows(table) : \A r \in Run : new[r] # a}

\* Create without a profile, replace with one.
ResolveToWrite(r) ==
    /\ phase[r] = "resolve"
    /\ \E a \in FreshIds : new' = [new EXCEPT ![r] = a]
    /\ phase' = [phase EXCEPT ![r] = "retire active"]
    /\ UNCHANGED <<table, remaining, matched, seen, retired>>

AfterFirstUpdate(r) == IF matched[r] = None THEN "insert" ELSE "retire matched"

\* The first UPDATE starts: the rows it looks at are those committed by now.
RetireActiveStarts(r) ==
    /\ phase[r] = "retire active"
    /\ \E a \in RecordId \cup {None} :
        /\ IF ActiveIn(table) = {} THEN a = None ELSE a \in ActiveIn(table)
        /\ seen' = [seen EXCEPT ![r] = a]
        /\ phase' = [phase EXCEPT ![r] = IF a = None THEN AfterFirstUpdate(r) ELSE "lock active"]
    /\ UNCHANGED <<table, remaining, matched, new, retired>>

Holders(r, a) == {s \in Run \ {r} : a \in retired[s]}

\* It has the lock on the row it saw, and updates it if it is still active.
RetireActiveEnds(r) ==
    /\ phase[r] = "lock active"
    /\ Holders(r, seen[r]) = {}
    /\ retired' = [retired EXCEPT ![r] =
                     IF table[seen[r]].active THEN @ \cup {seen[r]} ELSE @]
    /\ phase' = [phase EXCEPT ![r] = AfterFirstUpdate(r)]
    /\ UNCHANGED <<table, remaining, matched, new, seen>>

\* The second UPDATE takes the row that was read, whatever its status.
RetireMatched(r) ==
    /\ phase[r] = "retire matched"
    /\ Holders(r, matched[r]) = {}
    /\ retired' = [retired EXCEPT ![r] = @ \cup {matched[r]}]
    /\ phase' = [phase EXCEPT ![r] = "insert"]
    /\ UNCHANGED <<table, remaining, matched, new, seen>>

\* Open transactions that have changed an entry of the unique index: they have
\* inserted a row, or retired one that is active.
IndexHolders(r) ==
    {s \in Run \ {r} : phase[s] = "commit" \/ retired[s] \cap ActiveIn(table) # {}}

\* Deviation: the table has no unique index.
NoViolation(r) == FALSE

UniqueViolation(r) == ActiveIn(table) \ retired[r] # {}

InsertSucceeds(r) ==
    /\ phase[r] = "insert"
    /\ IndexHolders(r) = {}
    /\ ~UniqueViolation(r)
    /\ phase' = [phase EXCEPT ![r] = "commit"]
    /\ UNCHANGED <<table, remaining, matched, new, seen, retired>>

\* Deviation: the candidate is reported as failed, but its transaction stays open.
InsertLeavesTransactionOpen(r) ==
    /\ phase[r] = "insert"
    /\ IndexHolders(r) = {}
    /\ UniqueViolation(r)
    /\ phase' = [phase EXCEPT ![r] = "lookup"]
    /\ remaining' = [remaining EXCEPT ![r] = @ - 1]
    /\ matched' = [matched EXCEPT ![r] = None]
    /\ new' = [new EXCEPT ![r] = None]
    /\ seen' = [seen EXCEPT ![r] = None]
    /\ UNCHANGED <<table, retired>>

\* The transaction is rolled back and the candidate reported as failed.
InsertViolatesIndex(r) ==
    /\ phase[r] = "insert"
    /\ IndexHolders(r) = {}
    /\ UniqueViolation(r)
    /\ NextCandidate(r)
    /\ UNCHANGED table

\* Deviation: retired rows name the row that was read as their successor.
TableLinkedToMatched(r) ==
    [a \in RecordId |->
        IF a = new[r] THEN NewVersion(matched[r])
        ELSE IF a \in retired[r] THEN Retired(table[a], matched[r])
        ELSE table[a]]

TableAfter(r) == Replaced(table, new[r], matched[r], retired[r])

Commit(r) ==
    /\ phase[r] = "commit"
    /\ table' = TableAfter(r)
    /\ NextCandidate(r)

\* Lookup, resolution or a statement raises; a transaction is rolled back.
CandidateFails(r) ==
    /\ remaining[r] > 0
    /\ NextCandidate(r)
    /\ UNCHANGED table

\* The transactions r waits for.
WaitsFor(r) ==
    CASE phase[r] = "lock active"    -> Holders(r, seen[r])
      [] phase[r] = "retire matched" -> Holders(r, matched[r])
      [] phase[r] = "insert"         -> IndexHolders(r)
      [] OTHER                       -> {}

Deadlocked ==
    UNION {S \in SUBSET Run : \A r \in S : WaitsFor(r) \cap S # {}}

\* PostgreSQL aborts one of the transactions that wait for each other.
AbortDeadlock(r) ==
    /\ r \in Deadlocked
    /\ NextCandidate(r)
    /\ UNCHANGED table

Progress(r) ==
    \/ Lookup(r)
    \/ ResolveToNoWrite(r)
    \/ ResolveToWrite(r)
    \/ RetireActiveStarts(r)
    \/ RetireActiveEnds(r)
    \/ RetireMatched(r)
    \/ InsertSucceeds(r)
    \/ InsertViolatesIndex(r)
    \/ Commit(r)

Next == \E r \in Run : Progress(r) \/ CandidateFails(r) \/ AbortDeadlock(r)

\* A run whose statement need not wait goes on, and the database breaks a
\* deadlock; that a candidate fails for another reason is not relied upon.
Spec ==
    /\ Init /\ [][Next]_vars
    /\ \A r \in Run : WF_vars(Progress(r))
    /\ WF_vars(\E r \in Run : AbortDeadlock(r))

-----------------------------------------------------------------------------
(* Properties.                                                              *)

\* Every variable has its type, and locks belong to open transactions.
TypeOK ==
    /\ table \in [RecordId -> VersionRow \cup {None}]
    /\ phase \in [Run -> {"lookup", "resolve", "retire active", "lock active",
                          "retire matched", "insert", "commit"}]
    /\ remaining \in [Run -> 0..BatchSize]
    /\ matched \in [Run -> RecordId \cup {None}]
    /\ new \in [Run -> RecordId \cup {None}]
    /\ seen \in [Run -> RecordId \cup {None}]
    /\ retired \in [Run -> SUBSET RecordId]
    /\ \A r \in Run :
        /\ retired[r] \subseteq Rows(table)
        /\ new[r] = None <=> phase[r] \in {"lookup", "resolve"}
        /\ new[r] = None => retired[r] = {}
        /\ phase[r] # "lookup" => remaining[r] > 0

\* A project that has ever had a profile has exactly one active profile at every
\* moment, whatever transactions are open, fail or are aborted.
ExactlyOneActive == Rows(table) # {} => Cardinality(ActiveIn(table)) = 1

\* The rows that are to be inserted do not exist yet.
NewIsFresh ==
    \A r \in Run : new[r] # None =>
        table[new[r]] = None /\ \A s \in Run \ {r} : new[s] # new[r]

\* The rows a run has read exist, whatever has become of them.
ReadRowsExist ==
    \A r \in Run :
        /\ matched[r] # None => matched[r] \in Rows(table)
        /\ phase[r] = "retire matched" => matched[r] # None
        /\ phase[r] = "lock active" => seen[r] \in Rows(table)

\* A run that is about to commit is alone in that, and has locked the active row.
CommitIsReady ==
    \A r \in Run : phase[r] = "commit" =>
        /\ ActiveIn(table) \subseteq retired[r]
        /\ \A s \in Run \ {r} : phase[s] # "commit"

\* From every superseded profile the links lead to the active one, also when a
\* transaction redirects the link of a row another run had retired.
HistoryLeadsToActive == EveryVersionLeadsToActive(table)

\* After a replacement the relation between old and new version is clear
\* (docs/context-memory-storage-lld.md 3745): the profile that becomes active was
\* patched from the one it replaces.  It holds of runs that do not overlap.
PatchedFromCurrent == LinksAgree(table)

\* Every run gets through its candidates, although transactions wait for each
\* other and may deadlock.
BatchesFinish == \A r \in Run : <>(remaining[r] = 0)
=============================================================================
