------------------------- MODULE KnowledgeBrowsing -------------------------
(***************************************************************************)
(* Browsing Research Knowledge Memory: a caller pages through the units of *)
(* a project while runs insert new ones.  Pages follow the keyset          *)
(* (updated_at, knowledge_id), newest first, and the cursor of a page is   *)
(* the key of its last row; a page the store failed to deliver is asked    *)
(* for again with the same cursor.  A query whose cursor was made for      *)
(* other visibility scopes is refused and changes nothing.                 *)
(***************************************************************************)
EXTENDS KnowledgeMemory

CONSTANTS PageSize      \* the caller's limit

Cursor == [updated: 0..MaxClock, id: KnowledgeId]

ASSUME PageSizeAssumption == PageSize \in Nat \ {0} /\ None \notin Cursor

VARIABLES
    listing         \* what the caller asked for and got so far, or None

Visibility == {"user", "project"}

Listing ==
    [user: User, project: Project, scopes: SUBSET Visibility,
     cursor: Cursor \cup {None},
     listed: SUBSET KnowledgeId, twice: SUBSET KnowledgeId,
     first: SUBSET KnowledgeId, complete: BOOLEAN]

\* The collection: the project's own units, the user's units, or both.
Collection(l) ==
    {k \in Rows :
        /\ knowledge[k].owner = l.user
        /\ \/ "project" \in l.scopes /\ knowledge[k].project = l.project
           \/ "user" \in l.scopes /\ knowledge[k].project = None}

Key(k) == [updated |-> knowledge[k].updated, id |-> k]

\* The order of the rows: newest first, the greater id first among equal times.
Precedes(key, other) ==
    \/ key.updated > other.updated
    \/ key.updated = other.updated /\ key.id > other.id

\* Deviation: rows of the cursor's time are taken to be listed.
OlderThan(key, cursor) == key.updated < cursor.updated

\* A row of this key comes after the cursor.
After(key, cursor) ==
    \/ key.updated < cursor.updated
    \/ key.updated = cursor.updated /\ key.id < cursor.id

\* The rows after the cursor, and the first PageSize of them.
Remaining(l) ==
    {k \in Collection(l) : l.cursor = None \/ After(Key(k), l.cursor)}

Page(l) ==
    {k \in Remaining(l) :
        Cardinality({j \in Remaining(l) : Precedes(Key(j), Key(k))}) < PageSize}

LastKey(page) == CHOOSE k \in page : \A j \in page \ {k} : Precedes(Key(j), Key(k))

\* The store is asked for one row more than the page to see whether it is the last.
Delivered(l) ==
    [l EXCEPT !.twice = @ \cup (l.listed \cap Page(l)),
              !.listed = @ \cup Page(l),
              !.cursor = IF Page(l) = Remaining(l) THEN None ELSE Key(LastKey(Page(l))),
              !.complete = (Page(l) = Remaining(l))]

Opened(user, project, scopes) ==
    LET empty == [user |-> user, project |-> project, scopes |-> scopes,
                  cursor |-> None, listed |-> {}, twice |-> {}, first |-> {},
                  complete |-> FALSE]
    IN [empty EXCEPT !.first = Collection(empty)]

\* The first page, and the next.
OpenListing(user, project, scopes) ==
    /\ listing = None
    /\ scopes # {}
    /\ listing' = Delivered(Opened(user, project, scopes))
    /\ UNCHANGED knowledgeVars

NextPage ==
    /\ listing # None
    /\ ~listing.complete
    /\ listing' = Delivered(listing)
    /\ UNCHANGED knowledgeVars

BrowsingInit == listing = None

BrowsingNext ==
    \/ \E user \in User, project \in Project, scopes \in SUBSET Visibility :
        OpenListing(user, project, scopes)
    \/ NextPage

-----------------------------------------------------------------------------
(* Properties.                                                              *)

\* A caller who reads to the last page has seen every unit that was there at the
\* first, and none twice, whatever was inserted meanwhile, stamped before or
\* after the pages already read (list_knowledge_units).
ListingIsExact ==
    listing # None =>
        /\ listing.twice = {}
        /\ listing.complete => listing.first \subseteq listing.listed
=============================================================================
