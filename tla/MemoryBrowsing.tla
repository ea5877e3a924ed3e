--------------------------- MODULE MemoryBrowsing ---------------------------
(***************************************************************************)
(* What a caller sees of a project's decisions, actions and policies: the  *)
(* summary of all collections, counted by one query each, and the pages of *)
(* one of them, while runs write.  A run takes the time of a write before  *)
(* it awaits the store, so rows appear with stamps older than pages that   *)
(* were read; an action is written in place and moves in the order, a new  *)
(* version of a decision or policy retires the old one.                    *)
(*                                                                         *)
(* A cursor made for another collection or other statuses is refused, and  *)
(* a page the store does not deliver is asked for again: neither changes   *)
(* anything.  The rows of research knowledge are those of the project; its *)
(* pages are in module KnowledgeBrowsing.                                  *)
(***************************************************************************)
EXTENDS Naturals, FiniteSets

CONSTANTS
    RowId,          \* identifiers, numbers for their order
    Writer,         \* runs that write a row each
    FirstRows,      \* the tables a caller may find, functions on some of RowId
    PageLimit,      \* the caller's limit
    LastTime        \* bound of the model: how far the clock runs

Collection == {"decisions", "actions", "policies", "research_knowledge"}
Final == {"done", "cancelled"}
ActionState == {"todo", "in_progress", "blocked"} \cup Final
DefaultStates == ActionState \ Final

\* The owner of a row: this project, another one of the user, the user, everyone,
\* or somebody else.  state is that of an action, active tells whether a row of
\* another collection is the current version.
Owner == {"project", "other_project", "user", "global", "other_user"}
StoredRow == [collection: Collection, owner: Owner, state: ActionState,
              active: BOOLEAN, updated: 1..LastTime]

ASSUME BrowsingAssumption ==
    /\ RowId \subseteq Nat /\ PageLimit \in Nat \ {0} /\ LastTime \in Nat \ {0, 1}
    /\ \A table \in FirstRows :
        /\ DOMAIN table \subseteq RowId /\ IsFiniteSet(DOMAIN table)
        /\ \A i \in DOMAIN table : table[i] \in StoredRow

VARIABLES
    rows,           \* the stored rows
    time,           \* the clock of the runs
    writing,        \* of each writer: "shaping", "awaiting" the store or "done"
    pending,        \* of each writer: the writes it awaits, at most one
    listing,        \* what the caller listed so far
    counted,        \* the summary: the collections counted so far, with their counts
    written         \* history: rows written since the caller began

browsingVars == <<rows, time, writing, pending, listing, counted, written>>

Update == [id: RowId, row: StoredRow, retired: SUBSET RowId]

Listing ==
    [step: {"closed", "open", "complete"}, collection: Collection,
     states: SUBSET ActionState,
     cursor: SUBSET [updated: 1..LastTime, id: RowId],
     first: SUBSET RowId, listed: SUBSET RowId, twice: SUBSET RowId]

NotOpened ==
    [step |-> "closed", collection |-> "actions", states |-> {}, cursor |-> {},
     first |-> {}, listed |-> {}, twice |-> {}]

MemoryBrowsingInit ==
    /\ rows \in FirstRows
    /\ time = LastTime - 1
    /\ writing = [w \in Writer |-> "shaping"]
    /\ pending = [w \in Writer |-> {}]
    /\ listing = NotOpened
    /\ counted = [c \in {} |-> 0]
    /\ written = {}

-----------------------------------------------------------------------------
(* The collections.                                                         *)

\* Whose rows a collection of the project holds: the policies of the user and the
\* global ones apply to it too.
VisibleOwners(c) == IF c = "policies" THEN {"project", "user", "global"} ELSE {"project"}

\* Rows in a final status are archived, and listed when their status is asked for.
Shown(c, states) ==
    {i \in DOMAIN rows :
        /\ rows[i].collection = c
        /\ rows[i].owner \in VisibleOwners(c)
        /\ IF c = "actions" THEN rows[i].state \in states ELSE rows[i].active}

\* Deviation: retired versions are counted.
CountedWithVersions(c) ==
    {i \in DOMAIN rows :
        /\ rows[i].collection = c
        /\ rows[i].owner \in VisibleOwners(c)
        /\ c = "actions" => rows[i].state \in DefaultStates}

\* The rows that the summary counts: each store repeats its listing's conditions.
Counted(c) ==
    {i \in DOMAIN rows :
        /\ rows[i].collection = c
        /\ rows[i].owner \in VisibleOwners(c)
        /\ IF c = "actions" THEN rows[i].state \in DefaultStates ELSE rows[i].active}

-----------------------------------------------------------------------------
(* The runs.                                                                *)

Stamped(i, state) == [rows[i] EXCEPT !.updated = time, !.state = state, !.active = TRUE]

\* An identifier that no row and no pending write has.
Fresh ==
    LET free == (RowId \ DOMAIN rows) \ {u.id : u \in UNION {pending[w] : w \in Writer}}
    IN {i \in free : \A j \in free : i <= j}

\* A new row, a new state of an action, or a new version of another row.
Creations ==
    {[id |-> i, row |-> Stamped(j, "todo"), retired |-> {}] :
        i \in Fresh, j \in {k \in DOMAIN rows : rows[k].active}}

Transitions ==
    {u \in {[id |-> i, row |-> Stamped(i, state), retired |-> {}] :
            i \in Shown("actions", DefaultStates), state \in {"in_progress", "done"}} :
        u.row.state # rows[u.id].state}

NewVersions ==
    {[id |-> i, row |-> Stamped(j, "todo"), retired |-> {j}] :
        i \in Fresh,
        j \in {k \in DOMAIN rows :
                rows[k].active /\ rows[k].collection \in {"decisions", "policies"}}}

\* The row is shaped with the current time and the write awaited.
StartWrite(w) ==
    /\ writing[w] = "shaping"
    /\ writing' = [writing EXCEPT ![w] = "awaiting"]
    /\ \E u \in Creations \cup Transitions \cup NewVersions :
        pending' = [pending EXCEPT ![w] = {u}]
    /\ UNCHANGED <<rows, time, listing, counted, written>>

\* One transaction: the old version is retired with the same stamp.
CommitWrite(w) ==
    /\ \E u \in pending[w] :
        /\ rows' = [i \in DOMAIN rows \cup {u.id} |->
                        IF i = u.id THEN u.row
                        ELSE IF i \in u.retired
                        THEN [rows[i] EXCEPT !.active = FALSE, !.updated = u.row.updated]
                        ELSE rows[i]]
        /\ written' = IF listing = NotOpened /\ DOMAIN counted = {} THEN {}
                      ELSE written \cup {u.id} \cup u.retired
    /\ writing' = [writing EXCEPT ![w] = "done"]
    /\ pending' = [pending EXCEPT ![w] = {}]
    /\ UNCHANGED <<time, listing, counted>>

PassTime ==
    /\ time < LastTime
    /\ time' = time + 1
    /\ UNCHANGED <<rows, writing, pending, listing, counted, written>>

-----------------------------------------------------------------------------
(* The caller.                                                              *)

RowKey(i) == [updated |-> rows[i].updated, id |-> i]

\* The order of a listing: newest first, the greater id first among equal times.
Earlier(a, b) == a.updated > b.updated \/ (a.updated = b.updated /\ a.id > b.id)

\* Deviation: rows of the cursor's time are taken to be listed.
OlderThanCursor(key, cursor) == \A c \in cursor : key.updated < c.updated

\* The keyset condition; without a cursor every row is on the first page.
Beyond(key, cursor) ==
    \A c \in cursor :
        \/ key.updated < c.updated
        \/ key.updated = c.updated /\ key.id < c.id

\* The next page of a listing.  One row more than the page is asked for to see
\* whether there is another.
Turned(l) ==
    LET left == {i \in Shown(l.collection, l.states) : Beyond(RowKey(i), l.cursor)}
        page == {i \in left : Cardinality({j \in left : Earlier(RowKey(j), RowKey(i))})
                                < PageLimit}
        last == {RowKey(i) : i \in {k \in page :
                    \A j \in page \ {k} : Earlier(RowKey(j), RowKey(k))}}
    IN [l EXCEPT !.step = IF page = left THEN "complete" ELSE "open",
                 !.cursor = IF page = left THEN {} ELSE last,
                 !.listed = @ \cup page,
                 !.twice = @ \cup (l.listed \cap page)]

ListRows(c, states) ==
    /\ listing = NotOpened
    /\ states # {}
    /\ listing' = Turned([NotOpened EXCEPT !.collection = c, !.states = states,
                                           !.first = Shown(c, states)])
    /\ UNCHANGED <<rows, time, writing, pending, counted, written>>

ListActions(states) == ListRows("actions", states)
ListDecisions == ListRows("decisions", DefaultStates)
ListPolicies == ListRows("policies", DefaultStates)

TurnPage ==
    /\ listing.step = "open"
    /\ listing' = Turned(listing)
    /\ UNCHANGED <<rows, time, writing, pending, counted, written>>

\* The four counts are gathered, in any order and with writes in between.
Summarize(c) ==
    /\ c \notin DOMAIN counted
    /\ counted' = [d \in DOMAIN counted \cup {c} |->
                    IF d = c THEN Cardinality(Counted(c)) ELSE counted[d]]
    /\ UNCHANGED <<rows, time, writing, pending, listing, written>>

BrowseNext ==
    \/ \E w \in Writer : StartWrite(w) \/ CommitWrite(w)
    \/ PassTime
    \/ \E states \in {DefaultStates, Final, ActionState} : ListActions(states)
    \/ ListDecisions
    \/ ListPolicies
    \/ TurnPage
    \/ \E c \in Collection : Summarize(c)

BrowsingTypeOK ==
    /\ DOMAIN rows \subseteq RowId
    /\ \A i \in DOMAIN rows : rows[i] \in StoredRow
    /\ time \in 1..LastTime
    /\ writing \in [Writer -> {"shaping", "awaiting", "done"}]
    /\ pending \in [Writer -> SUBSET Update]
    /\ listing \in Listing
    /\ DOMAIN counted \subseteq Collection
    /\ written \subseteq RowId

-----------------------------------------------------------------------------
(* Properties.                                                              *)

\* However many rows are written between the pages, with whatever stamps, a row
\* that was not written meanwhile is listed once: a caller who reads to the last
\* page misses none that was there at the first, and no row comes twice that was
\* not written (list_actions, list_active_decisions, list_policies).
UntouchedRowsAreListedOnce ==
    /\ listing.twice \subseteq written
    /\ listing.step = "complete" => listing.first \ written \subseteq listing.listed

\* The summary counts what the pages show: when nothing was written meanwhile, a
\* listing of what the summary counts is as long as it says.
SummaryCountsTheListing ==
    (/\ listing.step = "complete"
     /\ listing.states = DefaultStates
     /\ listing.collection \in DOMAIN counted
     /\ written = {})
    => counted[listing.collection] = Cardinality(listing.listed)
=============================================================================
