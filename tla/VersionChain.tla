---------------------------- MODULE VersionChain ----------------------------
(***************************************************************************)
(* Tables whose rows replace one another, as project profiles, decisions   *)
(* and policies do: a row is active or superseded, names the row it        *)
(* supersedes and the row that superseded it.  An identifier without a row *)
(* maps to None, as does a link that is null.                              *)
(***************************************************************************)
EXTENDS FiniteSets

CONSTANTS
    RecordId,       \* identifiers rows may get
    None            \* no row, a null link

VersionRow == [active: BOOLEAN, supersedes: RecordId \cup {None},
               supersededBy: RecordId \cup {None}]

ASSUME NoneAssumption == None \notin RecordId /\ None \notin VersionRow

Rows(t) == {a \in RecordId : t[a] # None}

ActiveIn(t) == {a \in Rows(t) : t[a].active}

NewVersion(old) == [active |-> TRUE, supersedes |-> old, supersededBy |-> None]

\* The UPDATE of a supersede query: whatever the status of the old row is.
Retired(row, new) == [row EXCEPT !.active = FALSE, !.supersededBy = new]

\* The table after one transaction: the row new, patched from old, is inserted and
\* the rows of gone are retired in its favour.
Replaced(t, new, old, gone) ==
    [a \in RecordId |->
        IF a = new THEN NewVersion(old)
        ELSE IF a \in gone THEN Retired(t[a], new)
        ELSE t[a]]

-----------------------------------------------------------------------------

\* A superseded row names the row that superseded it, and that row exists.
ForwardLinks(t) ==
    \A a \in Rows(t) :
        /\ t[a].active <=> t[a].supersededBy = None
        /\ ~t[a].active => t[a].supersededBy \in Rows(t)

\* No set of superseded rows is closed under "superseded by": whoever follows
\* these links from a superseded row arrives at an active one.
NoLoops(t) ==
    \A S \in SUBSET (Rows(t) \ ActiveIn(t)) :
        S # {} => \E a \in S : t[a].supersededBy \notin S

EveryVersionLeadsToActive(t) == ForwardLinks(t) /\ NoLoops(t)

\* Both ends of a replacement agree on it, so versions form lines, not trees.
LinksAgree(t) ==
    \A a, b \in Rows(t) :
        /\ t[b].supersedes = a => t[a].supersededBy = b
        /\ t[a].supersededBy = b => t[b].supersedes = a
=============================================================================
