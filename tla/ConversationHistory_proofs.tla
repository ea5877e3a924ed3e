---------------------- MODULE ConversationHistory_proofs ----------------------
(***************************************************************************)
(* Proofs about ConversationHistory for any runs, sessions, turns and page *)
(* size: what is recorded is consistent however runs interleave and fail,  *)
(* and a listing repeats nothing and skips only what has moved.            *)
(*                                                                         *)
(* The writers' half of the invariant says what a run in progress may rely *)
(* on.  The reader's half says where the entries stand that were shown or  *)
(* are still to come, relative to the cursor; writers preserve it because  *)
(* they only add entries and only move them up.                            *)
(***************************************************************************)
EXTENDS ConversationHistory, TLAPS

\* A run that has not appended its messages has none.
UnwrittenTurns ==
    \A r \in Run : phase[r] \in {"ensure", "append"} =>
        messages[Question(r)] = None /\ messages[Answer(r)] = None

\* The session of a turn in progress has its scope; once appended, the answer is
\* stored.
OpenTurns ==
    /\ \A r \in Run : phase[r] \in {"append", "activity"} =>
        /\ turn[r] \in TurnShape
        /\ sessions[turn[r].session] # None
        /\ sessions[turn[r].session].scope = turn[r].scope
    /\ \A r \in Run : phase[r] = "activity" =>
        /\ messages[Answer(r)] # None
        /\ messages[Answer(r)].session = turn[r].session
        /\ messages[Answer(r)].at = turn[r].answered

Shown(e) == \E i \in 1..Len(pages) : e \in pages[i]

\* What was there when the listing began is still there, and has only moved up.
OpeningIsKept ==
    status \in {"paging", "ended"} =>
        /\ query \in Query
        /\ \A e \in DOMAIN opening :
            /\ e \in DOMAIN Entries(query)
            /\ opening[e] \in Nat
            /\ opening[e] <= Entries(query)[e]

\* While there are pages to come, what was shown is not below the cursor, and what
\* was neither shown nor moved is.
CursorDivides ==
    /\ status = "idle" => pages = <<>> /\ cursor = None
    /\ status = "paging" =>
        /\ \A e : Shown(e) =>
            e \in DOMAIN Entries(query) /\ ~Below(At(Entries(query), e), cursor)
        /\ \A e \in DOMAIN opening : Entries(query)[e] = opening[e] =>
            Shown(e) \/ Below(At(Entries(query), e), cursor)

WInv ==
    /\ UnwrittenTurns
    /\ OpenTurns
    /\ MessagesFitTheirSession
    /\ ActivityIsStored

RInv ==
    /\ OpeningIsKept
    /\ CursorDivides
    /\ NothingListedTwice
    /\ UntouchedEntriesAreListed

IInv == TypeOK /\ WInv /\ RInv

-----------------------------------------------------------------------------
(* Lemmas about entries and their order.                                    *)

LEMMA Identifiers ==
    /\ Session \cup MessageId \subseteq Nat
    /\ \A r \in Run : Question(r) \in MessageId /\ Answer(r) \in MessageId
    /\ \A r, s \in Run : Question(r) # Answer(s)
    /\ \A r, s \in Run : r # s => Question(r) # Question(s) /\ Answer(r) # Answer(s)
<1> USE NumbersAssumption DEF Question, Answer
<1>1. \A r \in Run : r \in Nat /\ Question(r) \in Nat /\ Answer(r) \in Nat
  OBVIOUS
<1>2. \A r \in Run : Question(r) \in MessageId /\ Answer(r) \in MessageId
  BY DEF MessageId
<1>3. \A r, s \in Run : 2 * r # 2 * s + 1
  <2> SUFFICES ASSUME NEW r \in Run, NEW s \in Run PROVE 2 * r # 2 * s + 1
    OBVIOUS
  <2>1. r \in Int /\ s \in Int
    BY <1>1
  <2> QED  BY <2>1
<1>4. MessageId \subseteq Nat
  BY <1>1 DEF MessageId
<1> QED  BY <1>1, <1>2, <1>3, <1>4

LEMMA BelowIsStrict ==
    ASSUME NEW a \in Position, NEW b \in Position
    PROVE  ~(Below(a, b) /\ Below(b, a)) /\ ~Below(a, a)
BY Identifiers DEF Position, Below

LEMMA BelowIsTransitive ==
    ASSUME NEW a \in Position, NEW b \in Position, NEW c \in Position,
           Below(a, b), Below(b, c)
    PROVE  Below(a, c)
<1>1. /\ a.at \in Nat /\ b.at \in Nat /\ c.at \in Nat
      /\ a.id \in Nat /\ b.id \in Nat /\ c.id \in Nat
  BY Identifiers DEF Position
<1> QED  BY <1>1 DEF Below

\* Entries are numbered and have a position in the order.
EntriesAreTyped ==
    \A q \in Query :
        /\ DOMAIN Entries(q) \subseteq Session \cup MessageId
        /\ \A e \in DOMAIN Entries(q) :
            Entries(q)[e] \in Nat /\ At(Entries(q), e) \in Position

LEMMA EntriesTyped == TypeOK => EntriesAreTyped
<1> SUFFICES ASSUME TypeOK, NEW q \in Query
             PROVE  /\ DOMAIN Entries(q) \subseteq Session \cup MessageId
                    /\ \A e \in DOMAIN Entries(q) :
                          Entries(q)[e] \in Nat /\ At(Entries(q), e) \in Position
  BY DEF EntriesAreTyped
<1>1. DOMAIN Entries(q) \subseteq Session \cup MessageId
  BY DEF Entries
<1>2. ASSUME NEW e \in DOMAIN Entries(q) PROVE Entries(q)[e] \in Nat
  <2>1. CASE q.collection = "sessions"
    <3>1. e \in Session /\ sessions[e] # None /\ Entries(q)[e] = sessions[e].updated
      BY <2>1 DEF Entries
    <3> QED  BY <3>1 DEF TypeOK, SessionRow
  <2>2. CASE q.collection # "sessions"
    <3>1. e \in MessageId /\ messages[e] # None /\ Entries(q)[e] = messages[e].at
      BY <2>2 DEF Entries
    <3> QED  BY <3>1 DEF TypeOK, MessageRow
  <2> QED  BY <2>1, <2>2
<1> QED  BY <1>1, <1>2 DEF At, Position

-----------------------------------------------------------------------------
(* Writers.                                                                 *)

\* What a writer does to the tables: rows are added, sessions move up, messages
\* stay.
Grows ==
    /\ \A s \in Session : sessions[s] # None =>
        /\ sessions'[s] # None
        /\ sessions'[s].scope = sessions[s].scope
        /\ sessions[s].updated <= sessions'[s].updated
    /\ \A m \in MessageId : messages[m] # None => messages'[m] = messages[m]

LEMMA EntriesGrow ==
    ASSUME TypeOK, Grows, NEW q \in Query
    PROVE  \A e \in DOMAIN Entries(q) :
              e \in DOMAIN Entries(q)' /\ Entries(q)[e] <= Entries(q)'[e]
<1> SUFFICES ASSUME NEW e \in DOMAIN Entries(q)
             PROVE  e \in DOMAIN Entries(q)' /\ Entries(q)[e] <= Entries(q)'[e]
  OBVIOUS
<1>1. CASE q.collection = "sessions"
  <2>1. /\ e \in Session /\ sessions[e] # None /\ sessions[e].scope.user = q.user
        /\ Entries(q)[e] = sessions[e].updated
    BY <1>1 DEF Entries
  <2>2. sessions'[e] # None /\ sessions'[e].scope.user = q.user
    BY <2>1 DEF Grows
  <2>3. e \in DOMAIN Entries(q)' /\ Entries(q)'[e] = sessions'[e].updated
    BY <1>1, <2>1, <2>2 DEF Entries
  <2> QED  BY <2>1, <2>3 DEF Grows
<1>2. CASE q.collection # "sessions"
  <2>1. /\ e \in MessageId /\ messages[e] # None /\ messages[e].session = q.session
        /\ messages[e].scope.user = q.user
        /\ Entries(q)[e] = messages[e].at
    BY <1>2 DEF Entries
  <2>2. messages'[e] = messages[e]
    BY <2>1 DEF Grows
  <2>3. e \in DOMAIN Entries(q)' /\ Entries(q)'[e] = messages[e].at
    BY <1>2, <2>1, <2>2 DEF Entries
  <2>4. messages[e].at \in Nat
    BY <2>1 DEF TypeOK, MessageRow
  <2> QED  BY <2>1, <2>3, <2>4
<1> QED  BY <1>1, <1>2

\* The reader's half survives every step that leaves the reader alone and lets the
\* tables grow.
LEMMA GrowthKeepsReader ==
    ASSUME TypeOK, TypeOK', RInv, Grows, UNCHANGED reader
    PROVE  RInv'
<1> USE DEF reader
<1>1. NothingListedTwice'
  BY DEF RInv, NothingListedTwice
<1>2. \A e : Shown(e)' <=> Shown(e)
  BY DEF Shown
<1>3. CASE status \notin {"paging", "ended"}
  BY <1>1, <1>2, <1>3 DEF RInv, OpeningIsKept, CursorDivides, UntouchedEntriesAreListed
<1>4. CASE status \in {"paging", "ended"}
  <2> DEFINE old == Entries(query)
             now == Entries(query)'
  <2>1. query \in Query
    BY <1>4 DEF RInv, OpeningIsKept
  <2>2. \A e \in DOMAIN old : e \in DOMAIN now /\ old[e] <= now[e]
    <3>1. PICK q \in Query : q = query
      BY <2>1
    <3>2. \A e \in DOMAIN Entries(q) :
              e \in DOMAIN Entries(q)' /\ Entries(q)[e] <= Entries(q)'[e]
      BY <3>1, EntriesGrow
    <3>3. old = Entries(q) /\ now = Entries(q)'
      BY <3>1 DEF Entries
    <3> QED  BY <3>2, <3>3
  <2>3. \A e \in DOMAIN old : old[e] \in Nat /\ now[e] \in Nat
          /\ At(old, e) \in Position /\ At(now, e) \in Position
    <3>1. EntriesAreTyped /\ EntriesAreTyped'
      BY EntriesTyped, PTL
    <3>2. query' = query
      OBVIOUS
    <3> QED  BY <2>1, <2>2, <3>1, <3>2 DEF EntriesAreTyped
  <2>4. \A e \in DOMAIN opening :
          /\ e \in DOMAIN old /\ opening[e] \in Nat /\ opening[e] <= old[e]
    BY <1>4 DEF RInv, OpeningIsKept
  <2> HIDE DEF old, now
  <2>5. \A e \in DOMAIN opening : e \in DOMAIN now /\ opening[e] <= now[e]
    BY <2>2, <2>3, <2>4
  <2>6. OpeningIsKept'
    BY <2>1, <2>4, <2>5 DEF OpeningIsKept, now
  <2>7. \A e \in DOMAIN opening : now[e] = opening[e] => old[e] = opening[e]
    BY <2>2, <2>3, <2>4
  <2>8. UntouchedEntriesAreListed'
    BY <2>7 DEF UntouchedEntriesAreListed, RInv, old, now
  <2>9. ASSUME status = "paging" PROVE cursor \in Position
    BY <2>9 DEF TypeOK
  <2>10. ASSUME status = "paging", NEW e, Shown(e)
         PROVE  e \in DOMAIN now /\ ~Below(At(now, e), cursor)
    <3>1. e \in DOMAIN old /\ ~Below(At(old, e), cursor)
      BY <2>10 DEF RInv, CursorDivides, old
    <3>2. e \in DOMAIN now /\ old[e] <= now[e] /\ old[e] \in Nat /\ now[e] \in Nat /\ e \in Nat
      BY <2>2, <2>3, <3>1, Identifiers DEF At, Position
    <3>3. cursor.at \in Nat /\ cursor.id \in Nat
      BY <2>9, <2>10, Identifiers DEF Position
    <3> QED  BY <3>1, <3>2, <3>3 DEF Below, At
  <2>11. ASSUME status = "paging", NEW e \in DOMAIN opening, now[e] = opening[e]
         PROVE  Shown(e) \/ Below(At(now, e), cursor)
    <3>1. old[e] = now[e]
      BY <2>7, <2>11
    <3>2. Shown(e) \/ Below(At(old, e), cursor)
      BY <2>7, <2>11 DEF RInv, CursorDivides, old
    <3> QED  BY <3>1, <3>2 DEF At
  <2>12. CursorDivides'
    BY <1>2, <1>4, <2>10, <2>11 DEF CursorDivides, now
  <2> QED  BY <1>1, <2>6, <2>8, <2>12 DEF RInv
<1> QED  BY <1>3, <1>4

-----------------------------------------------------------------------------
(* The steps of a writer keep what is recorded consistent, and let it grow. *)

LEMMA EnsureSessionInv ==
    ASSUME TypeOK, WInv, NEW r \in Run, NEW t \in Turns[r], EnsureSession(r, t)
    PROVE  TypeOK' /\ WInv' /\ Grows
<1> USE DEF EnsureSession, TypeOK
<1>1. t \in TurnShape /\ t.session \in Session /\ t.scope \in Scope /\ t.asked \in Nat
  <2>1. t \in TurnShape
    BY TurnsAssumption
  <2> QED  BY <2>1 DEF TurnShape
<1>2. NewSession(t) \in SessionRow /\ NewSession(t) # None /\ NewSession(t).last = None
        /\ NewSession(t).scope = t.scope
  BY <1>1, NoneAssumption DEF NewSession, SessionRow
<1>3. /\ sessions' \in [Session -> SessionRow \cup {None}]
      /\ sessions'[t.session] # None /\ sessions'[t.session].scope = t.scope
      /\ \A s \in Session : sessions[s] # None => sessions'[s] = sessions[s]
      /\ \A s \in Session : sessions[s] = None /\ sessions'[s] # None => sessions'[s].last = None
  BY <1>1, <1>2 DEF ScopeMatches
<1>4. Grows
  <2>1. \A s \in Session : sessions[s] # None => sessions[s].updated \in Nat
    BY DEF SessionRow
  <2> QED  BY <1>3, <2>1 DEF Grows
<1>5. /\ phase' \in [Run -> {"ensure", "append", "activity", "done"}]
      /\ turn' \in [Run -> TurnShape \cup {None}]
      /\ phase'[r] = "append" /\ turn'[r] = t
      /\ \A s \in Run \ {r} : phase'[s] = phase[s] /\ turn'[s] = turn[s]
  BY <1>1
<1>6. ASSUME NEW s \in Run, phase'[s] \in {"append", "activity"}
      PROVE  /\ turn'[s] \in TurnShape
             /\ sessions'[turn'[s].session] # None
             /\ sessions'[turn'[s].session].scope = turn'[s].scope
  <2>1. CASE s = r
    BY <1>1, <1>3, <1>5, <2>1
  <2>2. CASE s # r
    <3>1. /\ turn[s] \in TurnShape /\ sessions[turn[s].session] # None
          /\ sessions[turn[s].session].scope = turn[s].scope
      BY <1>5, <1>6, <2>2 DEF WInv, OpenTurns
    <3> QED  BY <1>3, <1>5, <2>2, <3>1 DEF TurnShape
  <2> QED  BY <2>1, <2>2
<1>7. TypeOK'
  BY <1>3, <1>5, <1>6, NoneAssumption DEF reader
<1>8. OpenTurns'
  BY <1>5, <1>6 DEF WInv, OpenTurns
<1>9. UnwrittenTurns'
  BY <1>5 DEF WInv, UnwrittenTurns
<1>10. MessagesFitTheirSession'
  <2>1. \A m \in MessageId : messages[m] # None => messages[m].session \in Session
    BY DEF MessageRow
  <2> QED  BY <1>3, <2>1 DEF WInv, MessagesFitTheirSession
<1>11. ActivityIsStored'
  BY <1>3 DEF WInv, ActivityIsStored
<1> QED  BY <1>4, <1>7, <1>8, <1>9, <1>10, <1>11 DEF WInv

LEMMA AppendMessagesInv ==
    ASSUME TypeOK, WInv, NEW r \in Run, AppendMessages(r)
    PROVE  TypeOK' /\ WInv' /\ Grows
<1> USE DEF AppendMessages, TypeOK
<1> DEFINE t == turn[r]
           q == Question(r)
           a == Answer(r)
<1>1. /\ t \in TurnShape /\ t.session \in Session /\ t.scope \in Scope
      /\ t.asked \in Nat /\ t.answered \in Nat
      /\ sessions[t.session] # None /\ sessions[t.session].scope = t.scope
  BY DEF WInv, OpenTurns, TurnShape
<1>2. q \in MessageId /\ a \in MessageId /\ q # a /\ messages[q] = None /\ messages[a] = None
  BY Identifiers DEF WInv, UnwrittenTurns
<1>3. \A s \in Run \ {r} : {Question(s), Answer(s)} \cap {q, a} = {}
  BY Identifiers
<1>4. /\ Message(t, t.asked) \in MessageRow /\ Message(t, t.answered) \in MessageRow
      /\ Message(t, t.asked) # None /\ Message(t, t.answered) # None
  BY <1>1, NoneAssumption DEF Message, MessageRow
<1>5. /\ messages' \in [MessageId -> MessageRow \cup {None}]
      /\ messages'[q] = Message(t, t.asked) /\ messages'[a] = Message(t, t.answered)
      /\ \A m \in MessageId \ {q, a} : messages'[m] = messages[m]
      /\ \A m \in MessageId : messages[m] # None => messages'[m] = messages[m]
  BY <1>2, <1>4
<1>6. /\ phase' \in [Run -> {"ensure", "append", "activity", "done"}]
      /\ phase'[r] = "activity"
      /\ \A s \in Run \ {r} : phase'[s] = phase[s]
      /\ sessions' = sessions /\ turn' = turn /\ UNCHANGED reader
  OBVIOUS
<1> HIDE DEF t, q, a, AppendMessages
<1>7. Grows
  <2>1. \A s \in Session : sessions[s] # None => sessions[s].updated \in Nat
    BY DEF SessionRow
  <2> QED  BY <1>5, <1>6, <2>1 DEF Grows
<1>8. TypeOK'
  <2>1. \A s \in Run : phase'[s] \in {"append", "activity"} =>
          turn'[s] # None /\ sessions'[turn'[s].session] # None
    BY <1>1, <1>6, NoneAssumption DEF t
  <2> QED  BY <1>5, <1>6, <2>1 DEF reader
<1>9. OpenTurns'
  <2>1. ASSUME NEW s \in Run, phase'[s] \in {"append", "activity"}
        PROVE  /\ turn'[s] \in TurnShape
               /\ sessions'[turn'[s].session] # None
               /\ sessions'[turn'[s].session].scope = turn'[s].scope
    BY <1>1, <1>6, <2>1 DEF WInv, OpenTurns, t
  <2>2. ASSUME NEW s \in Run, phase'[s] = "activity"
        PROVE  /\ messages'[Answer(s)] # None
               /\ messages'[Answer(s)].session = turn'[s].session
               /\ messages'[Answer(s)].at = turn'[s].answered
    <3>1. CASE s = r
      BY <1>4, <1>5, <1>6, <3>1 DEF a, t, Message
    <3>2. CASE s # r
      <4>1. messages'[Answer(s)] = messages[Answer(s)]
        BY <1>3, <1>5, <3>2, Identifiers
      <4> QED  BY <1>6, <2>2, <3>2, <4>1 DEF WInv, OpenTurns
    <3> QED  BY <3>1, <3>2
  <2> QED  BY <2>1, <2>2 DEF OpenTurns
<1>10. UnwrittenTurns'
  <2>1. ASSUME NEW s \in Run, phase'[s] \in {"ensure", "append"}
        PROVE  messages'[Question(s)] = None /\ messages'[Answer(s)] = None
    <3>1. s # r /\ phase[s] \in {"ensure", "append"}
      BY <1>6, <2>1
    <3>2. /\ messages'[Question(s)] = messages[Question(s)]
          /\ messages'[Answer(s)] = messages[Answer(s)]
      BY <1>3, <1>5, <3>1, Identifiers
    <3> QED  BY <3>1, <3>2 DEF WInv, UnwrittenTurns
  <2> QED  BY <2>1 DEF UnwrittenTurns
<1>11. MessagesFitTheirSession'
  <2>1. ASSUME NEW m \in MessageId, messages'[m] # None
        PROVE  /\ sessions[messages'[m].session] # None
               /\ sessions[messages'[m].session].scope = messages'[m].scope
    <3>1. CASE m \in {q, a}
      BY <1>1, <1>5, <3>1 DEF Message
    <3>2. CASE m \notin {q, a}
      BY <1>5, <2>1, <3>2 DEF WInv, MessagesFitTheirSession
    <3> QED  BY <3>1, <3>2
  <2>2. ASSUME NEW s \in Run
        PROVE  messages'[Question(s)] = None <=> messages'[Answer(s)] = None
    <3>1. CASE s = r
      BY <1>4, <1>5, <3>1 DEF q, a
    <3>2. CASE s # r
      <4>1. /\ messages'[Question(s)] = messages[Question(s)]
            /\ messages'[Answer(s)] = messages[Answer(s)]
        BY <1>3, <1>5, <3>2, Identifiers
      <4> QED  BY <4>1 DEF WInv, MessagesFitTheirSession
    <3> QED  BY <3>1, <3>2
  <2> QED  BY <1>6, <2>1, <2>2 DEF MessagesFitTheirSession
<1>12. ActivityIsStored'
  BY <1>5, <1>6 DEF WInv, ActivityIsStored
<1> QED  BY <1>7, <1>8, <1>9, <1>10, <1>11, <1>12 DEF WInv

\* Moving two times to a later one keeps their order.
LEMMA LaterOfBoth ==
    ASSUME NEW x \in Nat, NEW updated \in Nat, NEW last \in Nat \cup {None}
    PROVE  /\ Later(updated, x) \in Nat /\ Later(last, x) \in Nat
           /\ updated <= Later(updated, x) /\ x <= Later(updated, x)
           /\ Later(last, x) \in {last, x}
           /\ last # None /\ last <= updated => Later(last, x) <= Later(updated, x)
           /\ last = None => Later(last, x) = x
<1>1. /\ Later(updated, x) \in Nat /\ Later(updated, x) \in {updated, x}
      /\ updated <= Later(updated, x) /\ x <= Later(updated, x)
  BY NoneAssumption DEF Later
<1>2. CASE last = None
  BY <1>1, <1>2 DEF Later
<1>3. CASE last \in Nat
  <2>1. Later(last, x) \in Nat /\ Later(last, x) \in {last, x}
    BY <1>3, NoneAssumption DEF Later
  <2>2. last <= updated => Later(last, x) <= Later(updated, x)
    BY <1>1, <1>3, <2>1
  <2> QED  BY <1>1, <1>3, <2>1, <2>2, NoneAssumption
<1> QED  BY <1>2, <1>3

LEMMA TouchedRow ==
    ASSUME NEW row \in SessionRow, NEW x \in Nat
    PROVE  /\ Touched(row, x) \in SessionRow
           /\ Touched(row, x).scope = row.scope
           /\ Touched(row, x).updated = Later(row.updated, x)
           /\ Touched(row, x).last = Later(row.last, x)
<1>1. row.updated \in Nat /\ row.last \in Nat \cup {None}
  BY DEF SessionRow
<1>2. Later(row.updated, x) \in Nat /\ Later(row.last, x) \in Nat
  BY <1>1, LaterOfBoth
<1> QED  BY <1>2 DEF SessionRow, Touched

LEMMA RecordActivityInv ==
    ASSUME TypeOK, WInv, NEW r \in Run, RecordActivity(r)
    PROVE  TypeOK' /\ WInv' /\ Grows
<1> USE DEF RecordActivity, Ends, TypeOK
<1> DEFINE t == turn[r]
           row == sessions[t.session]
           new == Touched(row, t.answered)
           a == Answer(r)
<1>1. /\ t \in TurnShape /\ row # None /\ row.scope = t.scope
      /\ a \in MessageId /\ messages[a] # None
      /\ messages[a].session = t.session /\ messages[a].at = t.answered
  BY Identifiers DEF WInv, OpenTurns
<1>2. t.session \in Session /\ t.answered \in Nat
  BY <1>1 DEF TurnShape
<1>3. row \in SessionRow
  BY <1>1, <1>2
<1>4. /\ row.updated \in Nat /\ row.scope \in Scope
      /\ row.last \in Nat \cup {None}
  BY <1>3 DEF SessionRow
<1>5. /\ new \in SessionRow /\ new.scope = row.scope
      /\ new.updated = Later(row.updated, t.answered)
      /\ new.last = Later(row.last, t.answered)
  BY <1>2, <1>3, TouchedRow
<1>6. /\ Later(row.updated, t.answered) \in Nat /\ Later(row.last, t.answered) \in Nat
      /\ row.updated <= Later(row.updated, t.answered)
      /\ t.answered <= Later(row.updated, t.answered)
      /\ Later(row.last, t.answered) \in {row.last, t.answered}
      /\ row.last # None /\ row.last <= row.updated
           => Later(row.last, t.answered) <= Later(row.updated, t.answered)
      /\ row.last = None => Later(row.last, t.answered) = t.answered
  BY <1>2, <1>4, LaterOfBoth
<1>7. new \in SessionRow /\ new # None
  BY <1>5, NoneAssumption
<1>8. /\ sessions' \in [Session -> SessionRow \cup {None}]
      /\ sessions'[t.session] = new
      /\ \A s \in Session \ {t.session} : sessions'[s] = sessions[s]
      /\ \A s \in Session : sessions[s] # None =>
            sessions'[s] # None /\ sessions'[s].scope = sessions[s].scope
  BY <1>2, <1>5, <1>7
<1>9. /\ phase' \in [Run -> {"ensure", "append", "activity", "done"}]
      /\ turn' \in [Run -> TurnShape \cup {None}]
      /\ phase'[r] = "done"
      /\ \A s \in Run \ {r} : phase'[s] = phase[s] /\ turn'[s] = turn[s]
      /\ messages' = messages /\ UNCHANGED reader
  OBVIOUS
<1> HIDE DEF t, row, new, a, RecordActivity, Ends
<1>10. Grows
  <2>1. \A s \in Session : sessions[s] # None => sessions[s].updated \in Nat
    BY DEF SessionRow
  <2>2. row.updated <= new.updated
    BY <1>5, <1>6
  <2> QED  BY <1>2, <1>8, <1>9, <2>1, <2>2 DEF Grows, row
<1>11. OpenTurns'
  <2>1. ASSUME NEW s \in Run, phase'[s] \in {"append", "activity"}
        PROVE  /\ turn'[s] = turn[s] /\ phase'[s] = phase[s]
               /\ turn'[s] \in TurnShape
               /\ sessions'[turn'[s].session] # None
               /\ sessions'[turn'[s].session].scope = turn'[s].scope
    <3>1. turn'[s] = turn[s] /\ phase'[s] = phase[s]
      BY <1>9, <2>1
    <3>2. /\ turn[s] \in TurnShape /\ sessions[turn[s].session] # None
          /\ sessions[turn[s].session].scope = turn[s].scope
      BY <2>1, <3>1 DEF WInv, OpenTurns
    <3> QED  BY <1>8, <3>1, <3>2 DEF TurnShape
  <2> QED  BY <1>9, <2>1 DEF WInv, OpenTurns
<1>12. TypeOK'
  BY <1>8, <1>9, <1>11, NoneAssumption DEF reader, OpenTurns
<1>13. UnwrittenTurns'
  BY <1>9 DEF WInv, UnwrittenTurns
<1>14. MessagesFitTheirSession'
  <2>1. \A m \in MessageId : messages[m] # None => messages[m].session \in Session
    BY DEF MessageRow
  <2> QED  BY <1>8, <1>9, <2>1 DEF WInv, MessagesFitTheirSession
<1>15. ActivityIsStored'
  <2>1. ASSUME NEW s \in Session, sessions'[s] # None, sessions'[s].last # None
        PROVE  /\ sessions'[s].last <= sessions'[s].updated
               /\ \E m \in MessageId : messages[m] # None /\
                     messages[m].session = s /\ messages[m].at = sessions'[s].last
    <3>1. CASE s # t.session
      BY <1>8, <2>1, <3>1 DEF WInv, ActivityIsStored
    <3>2. CASE s = t.session
      <4>1. row.last # None =>
              /\ row.last <= row.updated
              /\ \E m \in MessageId : messages[m] # None /\
                    messages[m].session = s /\ messages[m].at = row.last
        BY <1>1, <1>2, <3>2 DEF WInv, ActivityIsStored, row
      <4>2. new.last = Later(row.last, t.answered) /\ new.updated = Later(row.updated, t.answered)
        BY <1>5
      <4>3. new.last <= new.updated
        BY <1>6, <4>1, <4>2
      <4>4. CASE new.last = t.answered
        BY <1>1, <1>8, <3>2, <4>3, <4>4
      <4>5. CASE row.last # None /\ new.last = row.last
        BY <1>8, <3>2, <4>1, <4>3, <4>5
      <4> QED  BY <1>6, <4>2, <4>4, <4>5
    <3> QED  BY <3>1, <3>2
  <2> QED  BY <1>9, <2>1 DEF ActivityIsStored
<1> QED  BY <1>10, <1>11, <1>12, <1>13, <1>14, <1>15 DEF WInv

LEMMA RecordingFailsInv ==
    ASSUME TypeOK, WInv, NEW r \in Run, RecordingFails(r)
    PROVE  TypeOK' /\ WInv' /\ Grows
<1> USE DEF TypeOK
<1>1. /\ phase' \in [Run -> {"ensure", "append", "activity", "done"}]
      /\ turn' \in [Run -> TurnShape \cup {None}]
      /\ phase'[r] = "done"
      /\ \A s \in Run \ {r} : phase'[s] = phase[s] /\ turn'[s] = turn[s]
      /\ sessions' = sessions /\ messages' = messages /\ UNCHANGED reader
  BY DEF RecordingFails, Ends
<1>2. Grows
  <2>1. \A s \in Session : sessions[s] # None => sessions[s].updated \in Nat
    BY DEF SessionRow
  <2> QED  BY <1>1, <2>1 DEF Grows
<1>3. TypeOK'
  BY <1>1 DEF reader
<1>4. OpenTurns' /\ UnwrittenTurns'
  BY <1>1 DEF WInv, OpenTurns, UnwrittenTurns
<1>5. MessagesFitTheirSession' /\ ActivityIsStored'
  BY <1>1 DEF WInv, MessagesFitTheirSession, ActivityIsStored
<1> QED  BY <1>2, <1>3, <1>4, <1>5 DEF WInv

-----------------------------------------------------------------------------
(* The steps of the reader.                                                 *)

\* A page comes before everything that is left, and the cursor is its last entry.
LEMMA PageDivides ==
    ASSUME TypeOK, NEW q \in Query, NEW page \in SUBSET DOMAIN Entries(q),
           IsPage(page, Entries(q)), cursor' \in NextCursor(page, Entries(q)),
           status' = IF page = Eligible(Entries(q)) THEN "ended" ELSE "paging"
    PROVE  /\ page \subseteq Eligible(Entries(q))
           /\ status' = "ended" => cursor' = None /\ page = Eligible(Entries(q))
           /\ status' = "paging" =>
                /\ cursor' \in Position
                /\ \E x \in page : cursor' = At(Entries(q), x)
                /\ \A e \in page : ~Below(At(Entries(q), e), cursor')
                /\ \A e \in Eligible(Entries(q)) \ page : Below(At(Entries(q), e), cursor')
           /\ status' \in {"ended", "paging"}
<1> DEFINE E == Entries(q)
<1>1. page \subseteq Eligible(E)
  BY DEF IsPage
<1>2. Eligible(E) \subseteq DOMAIN E
  BY DEF Eligible
<1>3. ASSUME page # Eligible(E)
      PROVE  /\ cursor' \in Position
             /\ \E x \in page : cursor' = At(E, x)
             /\ \A e \in page : ~Below(At(E, e), cursor')
             /\ \A e \in Eligible(E) \ page : Below(At(E, e), cursor')
  <2>1. PICK x \in page : /\ cursor' = At(E, x)
                          /\ \A d \in page : d = x \/ Below(At(E, x), At(E, d))
    BY <1>3 DEF NextCursor
  <2>2. \A e \in DOMAIN E : At(E, e) \in Position
    BY EntriesTyped DEF EntriesAreTyped
  <2>3. cursor' \in Position
    BY <2>1, <2>2
  <2>4. \A e \in page : ~Below(At(E, e), cursor')
    BY <2>1, <2>2, BelowIsStrict
  <2>5. ASSUME NEW e \in Eligible(E) \ page
        PROVE  Below(At(E, e), At(E, x))
    <3>1. E[e] < E[x] \/ (E[e] = E[x] /\ e < x)
      BY <2>1, <2>2, <2>5 DEF IsPage, At
    <3> QED  BY <3>1 DEF Below, At
  <2> QED  BY <2>1, <2>3, <2>4, <2>5
<1> QED  BY <1>1, <1>3 DEF NextCursor

\* A further page preserves the reader's half, whatever it lists: what was shown is
\* not eligible, and what was neither shown nor moved is.
LEMMA PageInv ==
    ASSUME TypeOK, NEW q \in Query, UNCHANGED writers, query' = q, ListPage(q),
           NothingListedTwice,
           \A e : Shown(e) => e \in DOMAIN Entries(q) \ Eligible(Entries(q)),
           cursor = None => pages = <<>>,
           \A e \in DOMAIN opening' :
              /\ e \in DOMAIN Entries(q) /\ opening'[e] \in Nat
              /\ opening'[e] <= Entries(q)[e]
              /\ Entries(q)[e] = opening'[e] => Shown(e) \/ e \in Eligible(Entries(q))
    PROVE  TypeOK' /\ RInv'
<1> DEFINE E == Entries(q)
<1> USE DEF writers
<1>1. PICK page \in SUBSET DOMAIN E :
        /\ IsPage(page, E)
        /\ pages' = Append(pages, page)
        /\ status' = IF page = Eligible(E) THEN "ended" ELSE "paging"
        /\ cursor' \in NextCursor(page, E)
  BY DEF ListPage
<1>2. /\ page \subseteq Eligible(E)
      /\ status' = "ended" => cursor' = None /\ page = Eligible(E)
      /\ status' = "paging" =>
           /\ cursor' \in Position
           /\ \E x \in page : cursor' = At(E, x)
           /\ \A e \in page : ~Below(At(E, e), cursor')
           /\ \A e \in Eligible(E) \ page : Below(At(E, e), cursor')
      /\ status' \in {"ended", "paging"}
  BY <1>1, PageDivides
<1>3. Entries(query)' = E
  BY DEF Entries
<1>4. /\ DOMAIN E \subseteq Session \cup MessageId
      /\ \A e \in DOMAIN E : E[e] \in Nat /\ At(E, e) \in Position
  BY EntriesTyped DEF EntriesAreTyped
<1>5. /\ pages \in Seq(SUBSET (Session \cup MessageId))
      /\ pages' \in Seq(SUBSET (Session \cup MessageId))
      /\ Len(pages) \in Nat /\ Len(pages') = Len(pages) + 1
      /\ \A i \in 1..Len(pages) : pages'[i] = pages[i]
      /\ pages'[Len(pages) + 1] = page
  BY <1>1, <1>4 DEF TypeOK
<1>6. \A e : Shown(e)' <=> Shown(e) \/ e \in page
  <2>1. ASSUME NEW e, Shown(e) PROVE Shown(e)'
    BY <1>5, <2>1 DEF Shown
  <2>2. ASSUME NEW e, e \in page PROVE Shown(e)'
    BY <1>5, <2>2 DEF Shown
  <2>3. ASSUME NEW e, Shown(e)' PROVE Shown(e) \/ e \in page
    BY <1>5, <2>3 DEF Shown
  <2> QED  BY <2>1, <2>2, <2>3
<1> HIDE DEF E
<1>7. TypeOK'
  BY <1>2, <1>5, NoneAssumption DEF TypeOK
<1>8. NothingListedTwice'
  <2>1. \A i \in 1..Len(pages) : pages[i] \cap page = {}
    BY <1>2 DEF Shown, E
  <2> QED  BY <1>5, <2>1 DEF NothingListedTwice
<1>9. OpeningIsKept'
  BY <1>3 DEF OpeningIsKept, E
<1>10. UntouchedEntriesAreListed'
  <2> SUFFICES ASSUME status' = "ended", NEW e \in DOMAIN opening', E[e] = opening'[e]
               PROVE  Shown(e)'
    BY <1>3 DEF UntouchedEntriesAreListed, Shown
  <2> QED  BY <1>2, <1>6 DEF E
<1>11. CursorDivides'
  <2> SUFFICES ASSUME status' = "paging"
               PROVE  /\ \A e : Shown(e)' => e \in DOMAIN E /\ ~Below(At(E, e), cursor')
                      /\ \A e \in DOMAIN opening' : E[e] = opening'[e] =>
                            Shown(e)' \/ Below(At(E, e), cursor')
    BY <1>2, <1>3 DEF CursorDivides
  <2>1. ASSUME NEW e, Shown(e)' PROVE e \in DOMAIN E /\ ~Below(At(E, e), cursor')
    <3>1. CASE e \in page
      BY <1>2, <3>1
    <3>2. CASE Shown(e)
      <4>1. e \in DOMAIN E /\ e \notin Eligible(E)
        BY <3>2 DEF E
      <4>2. cursor # None /\ cursor \in Position
        <5>1. pages # <<>>
          BY <3>2 DEF Shown
        <5> QED  BY <5>1 DEF TypeOK
      <4>3. ~Below(At(E, e), cursor)
        BY <4>1, <4>2 DEF Eligible
      <4>4. PICK x \in page : cursor' = At(E, x)
        BY <1>2
      <4>5. At(E, x) \in Position /\ Below(At(E, x), cursor)
        BY <1>2, <1>4, <4>2, <4>4 DEF Eligible
      <4> QED  BY <1>4, <4>1, <4>2, <4>3, <4>4, <4>5, BelowIsTransitive
    <3> QED  BY <1>6, <2>1, <3>1, <3>2
  <2>2. ASSUME NEW e \in DOMAIN opening', E[e] = opening'[e]
        PROVE  Shown(e)' \/ Below(At(E, e), cursor')
    BY <1>2, <1>6, <2>2 DEF E
  <2> QED  BY <2>1, <2>2
<1> QED  BY <1>7, <1>8, <1>9, <1>10, <1>11 DEF RInv

LEMMA FirstPageInv ==
    ASSUME TypeOK, RInv, NEW q \in Query, FirstPage(q)
    PROVE  TypeOK' /\ RInv'
<1>1. pages = <<>> /\ cursor = None /\ UNCHANGED writers /\ query' = q
  BY DEF FirstPage, RInv, CursorDivides
<1>2. CASE Found(q)
  <2>1. ListPage(q) /\ opening' = Entries(q)
    BY <1>2 DEF FirstPage
  <2>2. \A e : ~Shown(e)
    BY <1>1 DEF Shown
  <2>3. \A e \in DOMAIN Entries(q) : Entries(q)[e] \in Nat /\ e \in Eligible(Entries(q))
    BY <1>1, EntriesTyped DEF EntriesAreTyped, Eligible
  <2>4. NothingListedTwice
    BY DEF RInv
  <2> QED  BY <1>1, <2>1, <2>2, <2>3, <2>4, PageInv
<1>3. CASE ~Found(q)
  <2>1. status' = "missing" /\ cursor' = None /\ UNCHANGED <<pages, opening>>
    BY <1>1, <1>3 DEF FirstPage
  <2>2. TypeOK'
    BY <1>1, <2>1 DEF TypeOK, writers
  <2> QED
    BY <2>1, <2>2 DEF RInv, OpeningIsKept, CursorDivides, NothingListedTwice,
                      UntouchedEntriesAreListed
<1> QED  BY <1>2, <1>3

LEMMA NextPageInv ==
    ASSUME TypeOK, RInv, NextPage
    PROVE  TypeOK' /\ RInv'
<1>1. /\ status = "paging" /\ ListPage(query) /\ query' = query
      /\ opening' = opening /\ UNCHANGED writers
  BY DEF NextPage
<1>2. query \in Query /\ cursor # None /\ NothingListedTwice
  BY <1>1 DEF RInv, OpeningIsKept, TypeOK
<1>3. \A e : Shown(e) => e \in DOMAIN Entries(query) \ Eligible(Entries(query))
  BY <1>1, <1>2 DEF RInv, CursorDivides, Eligible
<1>4. \A e \in DOMAIN opening :
        /\ e \in DOMAIN Entries(query) /\ opening[e] \in Nat
        /\ opening[e] <= Entries(query)[e]
        /\ Entries(query)[e] = opening[e] => Shown(e) \/ e \in Eligible(Entries(query))
  BY <1>1, <1>2 DEF RInv, OpeningIsKept, CursorDivides, Eligible
<1> QED  BY <1>1, <1>2, <1>3, <1>4, PageInv

-----------------------------------------------------------------------------

LEMMA InitInv == Init => IInv
<1> SUFFICES ASSUME Init PROVE IInv
  OBVIOUS
<1> USE DEF Init
<1>1. TypeOK
  BY DEF TypeOK
<1>2. WInv
  BY Identifiers DEF WInv, UnwrittenTurns, OpenTurns, MessagesFitTheirSession, ActivityIsStored
<1>3. RInv
  BY DEF RInv, OpeningIsKept, CursorDivides, Shown, NothingListedTwice,
         UntouchedEntriesAreListed
<1> QED  BY <1>1, <1>2, <1>3 DEF IInv

LEMMA NextInv == IInv /\ [Next]_vars => IInv'
<1> SUFFICES ASSUME IInv, [Next]_vars PROVE IInv'
  OBVIOUS
<1> USE DEF IInv
<1>1. ASSUME TypeOK' /\ WInv' /\ Grows, UNCHANGED reader PROVE IInv'
  BY <1>1, GrowthKeepsReader
<1>2. ASSUME NEW r \in Run, NEW t \in Turns[r], EnsureSession(r, t) PROVE IInv'
  BY <1>1, <1>2, EnsureSessionInv DEF EnsureSession, reader
<1>3. ASSUME NEW r \in Run, AppendMessages(r) PROVE IInv'
  BY <1>1, <1>3, AppendMessagesInv DEF AppendMessages, reader
<1>4. ASSUME NEW r \in Run, RecordActivity(r) PROVE IInv'
  BY <1>1, <1>4, RecordActivityInv DEF RecordActivity, reader
<1>5. ASSUME NEW r \in Run, RecordingFails(r) PROVE IInv'
  BY <1>1, <1>5, RecordingFailsInv DEF RecordingFails, reader
<1>6. ASSUME UNCHANGED writers PROVE WInv'
  BY <1>6 DEF writers, WInv, UnwrittenTurns, OpenTurns, MessagesFitTheirSession,
              ActivityIsStored
<1>7. ASSUME NEW q \in Query, FirstPage(q) PROVE IInv'
  BY <1>6, <1>7, FirstPageInv DEF FirstPage
<1>8. CASE NextPage
  BY <1>6, <1>8, NextPageInv DEF NextPage
<1>9. CASE UNCHANGED vars
  <2>1. UNCHANGED writers /\ UNCHANGED reader
    BY <1>9 DEF vars
  <2>2. Grows
    <3>1. \A s \in Session : sessions[s] # None => sessions[s].updated \in Nat
      BY DEF TypeOK, SessionRow
    <3> QED  BY <2>1, <3>1 DEF Grows, writers
  <2>3. TypeOK'
    BY <2>1 DEF TypeOK, writers, reader
  <2> QED  BY <1>1, <1>6, <2>1, <2>2, <2>3
<1> QED  BY <1>2, <1>3, <1>4, <1>5, <1>7, <1>8, <1>9 DEF Next

\* Every reachable state is well typed, for all values of the constants.
THEOREM TypeCorrect == Spec => []TypeOK
<1>1. IInv => TypeOK
  BY DEF IInv
<1> QED  BY InitInv, NextInv, <1>1, PTL DEF Spec

\* Messages belong to an existing session of their user and project, also when runs
\* of different owners race to create it; no turn is stored in half.
THEOREM MessagesFit == Spec => []MessagesFitTheirSession
<1>1. IInv => MessagesFitTheirSession
  BY DEF IInv, WInv
<1> QED  BY InitInv, NextInv, <1>1, PTL DEF Spec

\* The activity of a session is that of a stored message, whichever runs fail and
\* in whatever order they finish.
THEOREM ActivityStored == Spec => []ActivityIsStored
<1>1. IInv => ActivityIsStored
  BY DEF IInv, WInv
<1> QED  BY InitInv, NextInv, <1>1, PTL DEF Spec

\* A listing of any length and page size repeats nothing, whatever is recorded
\* while it is paged.
THEOREM NoRepetition == Spec => []NothingListedTwice
<1>1. IInv => NothingListedTwice
  BY DEF IInv, RInv
<1> QED  BY InitInv, NextInv, <1>1, PTL DEF Spec

\* A listing that has ended has shown everything that has not moved since it began.
THEOREM NothingSkipped == Spec => []UntouchedEntriesAreListed
<1>1. IInv => UntouchedEntriesAreListed
  BY DEF IInv, RInv
<1> QED  BY InitInv, NextInv, <1>1, PTL DEF Spec
=============================================================================
