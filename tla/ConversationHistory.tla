------------------------- MODULE ConversationHistory -------------------------
(***************************************************************************)
(* Conversation history: completed runs that record their turn, and a      *)
(* reader that pages through it.  record_completed_run ensures the session *)
(* row, appends the two messages of the turn in one transaction and then   *)
(* notes the activity on the session: three awaits, between which other    *)
(* runs of the same session act and after each of which the rest may be    *)
(* lost, since the pipeline swallows the failure.                          *)
(*                                                                         *)
(* Both listings are keyset pages in descending order, sessions by the     *)
(* mutable updated_at and messages by created_at, ties broken by the       *)
(* identifier.  Times are taken from the clock of the process that runs    *)
(* the turn, so they order the writes in no particular way.                *)
(***************************************************************************)
EXTENDS Integers, Sequences, FiniteSets

CONSTANTS
    Run,            \* completed runs, numbered
    Session,        \* session identifiers, numbered
    User, Project,
    Turns,          \* the turns each run may have to record
    Limit,          \* entries per page
    None            \* no row, no cursor, no activity yet

Scope == [user: User, project: Project]
TurnShape == [session: Session, scope: Scope, asked: Nat, answered: Nat]

ASSUME NumbersAssumption == Run \subseteq Nat /\ Session \subseteq Nat
ASSUME LimitAssumption == Limit \in Nat \ {0}

\* assistant_created_at is at least a microsecond later than user_created_at.
ASSUME TurnsAssumption ==
    /\ Turns \in [Run -> SUBSET TurnShape]
    /\ \A r \in Run : \A t \in Turns[r] : t.asked < t.answered

VARIABLES
    sessions,       \* conversation_sessions: a row or None
    messages,       \* message_log: a row or None
    phase,          \* what each run does next
    turn,           \* the turn each run records
    query,          \* what the reader lists
    status,         \* "idle", "paging", "ended" or "missing"
    cursor,         \* the position after which the next page starts
    pages,          \* the pages so far, each the set of its entries
    opening         \* the entries, with their times, when the listing began

writers == <<sessions, messages, phase, turn>>
reader == <<query, status, cursor, pages, opening>>
vars == <<writers, reader>>

SessionRow == [scope: Scope, updated: Nat, last: Nat \cup {None}]
MessageRow == [session: Session, scope: Scope, at: Nat]

Question(r) == 2 * r
Answer(r)   == 2 * r + 1
MessageId   == {Question(r) : r \in Run} \cup {Answer(r) : r \in Run}

Query ==
    [collection: {"sessions"}, user: User, session: {None}]
        \cup [collection: {"messages"}, user: User, session: Session]

Position == [at: Nat, id: Session \cup MessageId]

ASSUME NoneAssumption ==
    /\ None \notin Nat /\ None \notin TurnShape /\ None \notin Position
    /\ None \notin SessionRow /\ None \notin MessageRow

-----------------------------------------------------------------------------
(* Recording a turn.                                                        *)

\* Deviation: a session is noted as active before its first message.
NewSessionWithActivity(t) == [scope |-> t.scope, updated |-> t.asked, last |-> t.asked]

NewSession(t) == [scope |-> t.scope, updated |-> t.asked, last |-> None]

\* Deviation: the project of the session is not compared.
UserMatches(row, t) == row.scope.user = t.scope.user

ScopeMatches(row, t) == row.scope = t.scope

\* INSERT ... ON CONFLICT DO NOTHING, or the row that was there first; a row of
\* another user or project makes the recording fail.
EnsureSession(r, t) ==
    /\ phase[r] = "ensure"
    /\ sessions[t.session] # None => ScopeMatches(sessions[t.session], t)
    /\ sessions' = IF sessions[t.session] = None
                     THEN [sessions EXCEPT ![t.session] = NewSession(t)]
                     ELSE sessions
    /\ turn' = [turn EXCEPT ![r] = t]
    /\ phase' = [phase EXCEPT ![r] = "append"]
    /\ UNCHANGED <<messages, reader>>

Message(t, time) == [session |-> t.session, scope |-> t.scope, at |-> time]

AppendMessages(r) ==
    /\ phase[r] = "append"
    /\ messages' = [messages EXCEPT
                       ![Question(r)] = Message(turn[r], turn[r].asked),
                       ![Answer(r)]   = Message(turn[r], turn[r].answered)]
    /\ phase' = [phase EXCEPT ![r] = "activity"]
    /\ UNCHANGED <<sessions, turn, reader>>

Later(a, b) == IF a = None \/ a < b THEN b ELSE a

\* Deviation: the activity that is noted last counts as the latest.
TouchedLast(row, time) == [row EXCEPT !.last = time, !.updated = time]

Touched(row, time) ==
    [row EXCEPT !.last = Later(row.last, time), !.updated = Later(row.updated, time)]

Ends(r) ==
    /\ phase' = [phase EXCEPT ![r] = "done"]
    /\ turn' = [turn EXCEPT ![r] = None]

RecordActivity(r) ==
    /\ phase[r] = "activity"
    /\ sessions' = [sessions EXCEPT ![turn[r].session] = Touched(@, turn[r].answered)]
    /\ Ends(r)
    /\ UNCHANGED <<messages, reader>>

\* A statement raises, or the process dies: nothing is rolled back or retried.
RecordingFails(r) ==
    /\ phase[r] # "done"
    /\ Ends(r)
    /\ UNCHANGED <<sessions, messages, reader>>

-----------------------------------------------------------------------------
(* Listing.                                                                 *)

\* The entries a query ranges over, with the time that orders them.
Entries(q) ==
    IF q.collection = "sessions"
      THEN [s \in {x \in Session : sessions[x] # None /\ sessions[x].scope.user = q.user}
              |-> sessions[s].updated]
      ELSE [m \in {x \in MessageId : /\ messages[x] # None
                                     /\ messages[x].session = q.session
                                     /\ messages[x].scope.user = q.user}
              |-> messages[m].at]

\* Deviation: the identifier is left out of the comparison.
EarlierThan(a, b) == a.at < b.at

Below(a, b) == a.at < b.at \/ (a.at = b.at /\ a.id < b.id)

At(entries, e) == [at |-> entries[e], id |-> e]

Eligible(entries) ==
    {e \in DOMAIN entries : cursor = None \/ Below(At(entries, e), cursor)}

\* The first Limit eligible entries.
IsPage(page, entries) ==
    /\ page \subseteq Eligible(entries)
    /\ Cardinality(page) <= Limit
    /\ page # Eligible(entries) => Cardinality(page) = Limit
    /\ \A e \in page, d \in Eligible(entries) \ page :
          At(entries, d).at < At(entries, e).at
            \/ (At(entries, d).at = At(entries, e).at /\ d < e)

\* The position of the last entry of a page that is not the last one.
NextCursor(page, entries) ==
    IF page = Eligible(entries) THEN {None}
    ELSE {At(entries, e) : e \in {x \in page : \A d \in page : d = x
              \/ Below(At(entries, x), At(entries, d))}}

ListPage(q) ==
    LET entries == Entries(q)
    IN  \E page \in SUBSET DOMAIN entries :
            /\ IsPage(page, entries)
            /\ pages' = Append(pages, page)
            /\ status' = IF page = Eligible(entries) THEN "ended" ELSE "paging"
            /\ cursor' \in NextCursor(page, entries)

\* Messages are listed of a session that exists and belongs to the user.
Found(q) ==
    q.collection = "messages" =>
        sessions[q.session] # None /\ sessions[q.session].scope.user = q.user

FirstPage(q) ==
    /\ status = "idle"
    /\ query' = q
    /\ IF Found(q) THEN ListPage(q) /\ opening' = Entries(q)
       ELSE status' = "missing" /\ UNCHANGED <<cursor, pages, opening>>
    /\ UNCHANGED writers

NextPage ==
    /\ status = "paging"
    /\ ListPage(query)
    /\ UNCHANGED <<query, opening, writers>>

-----------------------------------------------------------------------------

Init ==
    /\ sessions = [s \in Session |-> None]
    /\ messages = [m \in MessageId |-> None]
    /\ phase = [r \in Run |-> "ensure"]
    /\ turn = [r \in Run |-> None]
    /\ query = None
    /\ status = "idle"
    /\ cursor = None
    /\ pages = <<>>
    /\ opening = <<>>

Next ==
    \/ \E r \in Run :
        \/ \E t \in Turns[r] : EnsureSession(r, t)
        \/ AppendMessages(r)
        \/ RecordActivity(r)
        \/ RecordingFails(r)
    \/ \E q \in Query : FirstPage(q)
    \/ NextPage

Spec == Init /\ [][Next]_vars

-----------------------------------------------------------------------------
(* Properties.                                                              *)

\* Every variable has its type; a cursor exists exactly while there are pages to
\* come, and a run that writes has a turn and a session to write to.
TypeOK ==
    /\ sessions \in [Session -> SessionRow \cup {None}]
    /\ messages \in [MessageId -> MessageRow \cup {None}]
    /\ phase \in [Run -> {"ensure", "append", "activity", "done"}]
    /\ turn \in [Run -> TurnShape \cup {None}]
    /\ query \in Query \cup {None}
    /\ status \in {"idle", "paging", "ended", "missing"}
    /\ cursor # None => cursor \in Position
    /\ cursor # None <=> status = "paging"
    /\ pages \in Seq(SUBSET (Session \cup MessageId))
    /\ \A r \in Run : phase[r] \in {"append", "activity"} =>
        turn[r] # None /\ sessions[turn[r].session] # None

\* A message belongs to an existing session of the same user and project, also
\* when two runs race to create the session; question and answer are stored
\* together.
MessagesFitTheirSession ==
    /\ \A m \in MessageId : messages[m] # None =>
        /\ sessions[messages[m].session] # None
        /\ sessions[messages[m].session].scope = messages[m].scope
    /\ \A r \in Run : messages[Question(r)] = None <=> messages[Answer(r)] = None

\* A session never claims activity that its messages do not show, in whatever
\* order the runs of the session finish, and it never looks older than it is.
ActivityIsStored ==
    \A s \in Session : sessions[s] # None /\ sessions[s].last # None =>
        /\ sessions[s].last <= sessions[s].updated
        /\ \E m \in MessageId : messages[m] # None /\
              messages[m].session = s /\ messages[m].at = sessions[s].last

\* A listing shows nothing twice, although sessions move while it is paged.
NothingListedTwice ==
    \A i, j \in 1..Len(pages) : i # j => pages[i] \cap pages[j] = {}

\* A listing that has ended has shown every entry that was there when it began
\* and has not moved since: only a session with new activity can be skipped.
UntouchedEntriesAreListed ==
    status = "ended" =>
        \A e \in DOMAIN opening :
            Entries(query)[e] = opening[e] => \E i \in 1..Len(pages) : e \in pages[i]
=============================================================================
