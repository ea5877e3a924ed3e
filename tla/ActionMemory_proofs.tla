------------------------- MODULE ActionMemory_proofs -------------------------
(***************************************************************************)
(* Proofs about ActionMemory, for any actions, titles, candidates, batch   *)
(* size and number of runs: its variables keep their types.  And for one   *)
(* run at a time: a stored action only moves forward, and an action is     *)
(* stored once when the candidates agree with the stored fields.  The same *)
(* is shown of the serial scenarios of MCActionMemory.                     *)
(*                                                                         *)
(* The second part rests on SoleInv: as long as no other run writes, what  *)
(* a run has read is still the table, and what it is about to write is     *)
(* right for the row it will find there.                                   *)
(*                                                                         *)
(* The last part is about MemoryBrowsing, for any tables, page size and    *)
(* number of writers.  BrowsingInv divides the rows nobody has written to  *)
(* since the listing began: those listed stand before the cursor, the      *)
(* others after it.  A page is defined by counting, so that it has a last  *)
(* row, before which the rest of it stands and behind which all other rows *)
(* do, takes a lemma about finite sets (FirstElement).                     *)
(***************************************************************************)
EXTENDS MCActionMemory, FiniteSetTheorems, WellFoundedInduction, TLAPS

-----------------------------------------------------------------------------
(* Type correctness. *)

\* Every resolution names a row that was read, or no row.
LEMMA ResolutionMatches ==
    ASSUME NEW c, NEW read, NEW v \in Resolutions(c, read)
    PROVE  v.relation = "no_match" \/ v.match \in DOMAIN read
<1>1. ASSUME NEW relation, NEW a \in DOMAIN read
      PROVE  Match(relation, a, c, read).match = a
    BY DEF Match, Resolution
<1>2. CASE v \in {Resolution("no_match", None)}
    BY <1>2 DEF Resolution
<1>3. CASE v \in ByRule(c, read)
    <2>1. PICK a \in SameTitle(c, read) :
            v = IF c.status \in {None, read[a].status}
                  THEN Resolution("duplicate", a)
                  ELSE Match("state_transition", a, c, read)
        BY <1>3 DEF ByRule
    <2>2. a \in DOMAIN read
        BY DEF SameTitle
    <2>3. v.match = a
        BY <1>1, <2>1, <2>2 DEF Resolution
    <2> QED BY <2>2, <2>3
<1>4. CASE v \in ByModel(c, read)
    <2>1. CASE v = Resolution("no_match", None)
        BY <2>1 DEF Resolution
    <2>2. CASE v # Resolution("no_match", None)
        <3>1. PICK relation \in {"duplicate", "changed", "state_transition", "conflict"},
                   a \in DOMAIN read : v = Match(relation, a, c, read)
            BY <1>4, <2>2 DEF ByModel
        <3> QED BY <1>1, <3>1
    <2> QED BY <2>1, <2>2
<1> QED BY <1>2, <1>3, <1>4 DEF Resolutions

LEMMA RowTypes ==
    ASSUME NEW c \in Candidate
    PROVE  /\ CreatedRow(c) \in Row
           /\ \A current : IsLegal(current, c.status) => TransitionedRow(c) \in Row
<1>1. c.title \in Title /\ c.status \in ActionStatus \cup {None}
    BY CandidateAssumption DEF CandidateShape
<1>2. CreatedRow(c) \in Row
    BY <1>1 DEF CreatedRow, Row, ActionStatus
<1>3. ASSUME NEW current, IsLegal(current, c.status)
      PROVE  TransitionedRow(c) \in Row
    BY <1>1, <1>3 DEF TransitionedRow, Row, IsLegal, AllowedTransitions, ActionStatus
<1> QED BY <1>2, <1>3

\* A legal successor is an action status, and never todo.
LEMMA LegalStatus ==
    ASSUME NEW current, NEW next, IsLegal(current, next)
    PROVE  next \in ActionStatus \ {"todo"} /\ current \notin {"done", "cancelled"}
BY DEF IsLegal, AllowedTransitions, ActionStatus

LEMMA InitType == Init => TypeOK
<1> SUFFICES ASSUME Init PROVE TypeOK
    OBVIOUS
<1> QED BY BatchAssumption DEF Init, TypeOK

\* What NextCandidate leaves well typed when the table stays a table.
LEMMA NextCandidateType ==
    ASSUME TypeOK, NEW r \in Run, remaining[r] > 0, NextCandidate(r),
           table' \in [ActionId -> Row \cup {None}]
    PROVE  TypeOK'
<1> USE DEF NextCandidate, TypeOK
<1>1. remaining' \in [Run -> 0..BatchSize]
    BY BatchAssumption
<1>2. /\ phase' \in [Run -> {"lookup", "resolve", "write"}]
      /\ candidate' \in [Run -> Candidate \cup {None}]
      /\ decision' \in [Run -> Pending \cup {None}]
      /\ DOMAIN snapshot' = Run
    OBVIOUS
<1>3. ASSUME NEW s \in Run
      PROVE  /\ DOMAIN snapshot'[s] \subseteq ActionId
             /\ \A a \in DOMAIN snapshot'[s] : snapshot'[s][a] \in Row
             /\ phase'[s] # "lookup" => candidate'[s] # None /\ remaining'[s] > 0
             /\ phase'[s] = "write" <=> decision'[s] # None
    <2>1. CASE s = r
        BY <2>1
    <2>2. CASE s # r
        BY <2>2
    <2> QED BY <2>1, <2>2
<1> QED BY <1>1, <1>2, <1>3

LEMMA DecideType ==
    ASSUME TypeOK, NEW r \in Run, NEW a \in ActionId, NEW row \in Row,
           phase[r] = "resolve", Decide(r, a, row)
    PROVE  TypeOK'
<1> USE DEF TypeOK
<1>1. [id |-> a, row |-> row] \in Pending
    BY DEF Pending
<1>2. /\ decision' = [decision EXCEPT ![r] = [id |-> a, row |-> row]]
      /\ phase' = [phase EXCEPT ![r] = "write"]
      /\ UNCHANGED <<table, remaining, candidate, snapshot>>
    BY DEF Decide
<1>3. /\ decision' \in [Run -> Pending \cup {None}]
      /\ phase' \in [Run -> {"lookup", "resolve", "write"}]
    BY <1>1, <1>2
<1>4. ASSUME NEW s \in Run
      PROVE  /\ phase'[s] # "lookup" => candidate'[s] # None /\ remaining'[s] > 0
             /\ phase'[s] = "write" <=> decision'[s] # None
    BY <1>1, <1>2, NoneAssumption
<1> QED BY <1>2, <1>3, <1>4

LEMMA LookupType ==
    ASSUME TypeOK, NEW r \in Run, NEW c \in Candidate, Lookup(r, c)
    PROVE  TypeOK'
<1> USE DEF TypeOK
<1> DEFINE read == [a \in ActiveRows |-> table[a]]
<1>1. DOMAIN read \subseteq ActionId /\ \A a \in DOMAIN read : read[a] \in Row
    BY DEF ActiveRows, IsActive
<1>2. /\ candidate' = [candidate EXCEPT ![r] = c]
      /\ snapshot' = [snapshot EXCEPT ![r] = read]
      /\ phase' = [phase EXCEPT ![r] = "resolve"]
      /\ phase[r] = "lookup" /\ remaining[r] > 0
      /\ UNCHANGED <<table, remaining, decision>>
    BY DEF Lookup
<1> HIDE DEF read
<1>3. /\ candidate' \in [Run -> Candidate \cup {None}]
      /\ phase' \in [Run -> {"lookup", "resolve", "write"}]
      /\ DOMAIN snapshot' = Run
    BY <1>2
<1>4. ASSUME NEW s \in Run
      PROVE  /\ DOMAIN snapshot'[s] \subseteq ActionId
             /\ \A a \in DOMAIN snapshot'[s] : snapshot'[s][a] \in Row
    BY <1>1, <1>2
<1>5. ASSUME NEW s \in Run
      PROVE  /\ phase'[s] # "lookup" => candidate'[s] # None /\ remaining'[s] > 0
             /\ phase'[s] = "write" <=> decision'[s] # None
    BY <1>2, NoneAssumption
<1> QED BY <1>2, <1>3, <1>4, <1>5

LEMMA CreateType ==
    ASSUME TypeOK, NEW r \in Run, ResolveToCreate(r)
    PROVE  TypeOK'
<1>1. PICK a \in FreshIds : Decide(r, a, CreatedRow(candidate[r]))
    BY DEF ResolveToCreate
<1>2. phase[r] = "resolve" /\ candidate[r] \in Candidate /\ a \in ActionId
    BY DEF ResolveToCreate, FreshIds, TypeOK
<1> QED BY <1>1, <1>2, RowTypes, DecideType

LEMMA TransitionType ==
    ASSUME TypeOK, NEW r \in Run, ResolveToTransition(r)
    PROVE  TypeOK'
<1>1. PICK v \in Resolutions(candidate[r], snapshot[r]) :
        /\ v.relation = "state_transition"
        /\ IsLegal(snapshot[r][v.match].status, candidate[r].status)
        /\ Decide(r, v.match, TransitionedRow(candidate[r]))
    BY DEF ResolveToTransition
<1>2. phase[r] = "resolve" /\ candidate[r] \in Candidate
    BY DEF ResolveToTransition, TypeOK
<1>3. v.match \in ActionId
    BY <1>1, ResolutionMatches DEF TypeOK
<1>4. TransitionedRow(candidate[r]) \in Row
    BY <1>1, <1>2, RowTypes
<1> QED BY <1>1, <1>2, <1>3, <1>4, DecideType

LEMMA NextType == TypeOK /\ [Next]_vars => TypeOK'
<1> SUFFICES ASSUME TypeOK, [Next]_vars PROVE TypeOK'
    OBVIOUS
<1>1. ASSUME NEW r \in Run, NEW c \in Candidate, Lookup(r, c) PROVE TypeOK'
    BY <1>1, LookupType
<1>2. ASSUME NEW r \in Run, ResolveToCreate(r) PROVE TypeOK'
    BY <1>2, CreateType
<1>3. ASSUME NEW r \in Run, ResolveToTransition(r) PROVE TypeOK'
    BY <1>3, TransitionType
<1>4. ASSUME NEW r \in Run, ResolveToNoWrite(r) PROVE TypeOK'
    <2>1. remaining[r] > 0 /\ NextCandidate(r) /\ table' = table
        BY <1>4 DEF ResolveToNoWrite, TypeOK
    <2> QED BY <2>1, NextCandidateType DEF TypeOK
<1>5. ASSUME NEW r \in Run, Write(r) PROVE TypeOK'
    <2>1. remaining[r] > 0 /\ NextCandidate(r) /\ decision[r] \in Pending
        BY <1>5 DEF Write, TypeOK
    <2>2. table' \in [ActionId -> Row \cup {None}]
        BY <1>5, <2>1 DEF Write, TypeOK, Pending
    <2> QED BY <2>1, <2>2, NextCandidateType
<1>6. ASSUME NEW r \in Run, CandidateFails(r) PROVE TypeOK'
    <2>1. remaining[r] > 0 /\ NextCandidate(r) /\ table' = table
        BY <1>6 DEF CandidateFails
    <2> QED BY <2>1, NextCandidateType DEF TypeOK
<1>7. CASE UNCHANGED vars
    BY <1>7 DEF vars, TypeOK
<1> QED BY <1>1, <1>2, <1>3, <1>4, <1>5, <1>6, <1>7 DEF Next, Step

\* Every reachable state is well typed, for all values of the constants.
THEOREM TypeCorrect == Spec => []TypeOK
BY InitType, NextType, PTL DEF Spec

-----------------------------------------------------------------------------
(* One run at a time. *)

\* No run starts a candidate while another handles one.
SerialNext == \E r \in Run : Step(r) /\ Alone(r)

SerialSpec == Init /\ [][SerialNext]_vars

\* The candidates agree with the stored rows in all other fields: all of them, or
\* those that are being resolved.
CandidatesAgree == \A c \in Candidate : ~c.patch
ResolvedAgree == \A r \in Run : phase[r] = "resolve" => ~candidate[r].patch

OneAtATime == \A r, s \in Run : phase[r] # "lookup" /\ phase[s] # "lookup" => r = s

ReadIsCurrent ==
    \A r \in Run : phase[r] = "resolve" => snapshot[r] = [a \in ActiveRows |-> table[a]]

WriteIsLegal ==
    \A r \in Run : phase[r] = "write" =>
        \/ table[decision[r].id] = None
        \/ /\ IsActive(table[decision[r].id])
           /\ IsLegal(table[decision[r].id].status, decision[r].row.status)

WriteIsOfNewTitle ==
    \A r \in Run : phase[r] = "write" =>
        \A b \in ActiveRows \ {decision[r].id} : table[b].title # decision[r].row.title

SoleInv == TypeOK /\ OneAtATime /\ ReadIsCurrent /\ WriteIsLegal

StoreOnceInv == SoleInv /\ OneActiveRowPerTitle /\ WriteIsOfNewTitle

LEMMA TypeIsInductive == TypeOK /\ SerialNext => TypeOK'
BY NextType DEF SerialNext, Next

\* The steps of a run change its own phase only, so the others stay idle.
LEMMA OthersStayIdle ==
    ASSUME TypeOK, NEW r \in Run, Step(r), Alone(r)
    PROVE  \A s \in Run \ {r} : phase'[s] = "lookup"
<1>1. \E p : phase' = [phase EXCEPT ![r] = p]
    BY DEF Step, Lookup, ResolveToCreate, ResolveToTransition, ResolveToNoWrite, Write,
           CandidateFails, NextCandidate, Decide
<1> QED BY <1>1 DEF Alone, TypeOK

\* A created row gets an identifier no row has; nothing is known of its title here.
LEMMA CreateIsLegal ==
    ASSUME TypeOK, NEW r \in Run, ResolveToCreate(r)
    PROVE  /\ table' = table /\ phase'[r] = "write"
           /\ decision'[r] \in Pending
           /\ table[decision'[r].id] = None
           /\ decision'[r].row = CreatedRow(candidate[r])
<1>1. PICK a \in FreshIds : Decide(r, a, CreatedRow(candidate[r]))
    BY DEF ResolveToCreate
<1>2. CreatedRow(candidate[r]) \in Row /\ a \in ActionId /\ table[a] = None
    <2>1. candidate[r] \in Candidate
        BY DEF ResolveToCreate, TypeOK
    <2> QED BY <2>1, RowTypes DEF FreshIds
<1>3. /\ table' = table
      /\ decision' = [decision EXCEPT ![r] = [id |-> a, row |-> CreatedRow(candidate[r])]]
      /\ phase' = [phase EXCEPT ![r] = "write"]
    BY <1>1 DEF Decide
<1>4. /\ phase'[r] = "write"
      /\ decision'[r] = [id |-> a, row |-> CreatedRow(candidate[r])]
    BY <1>3 DEF TypeOK
<1> QED BY <1>2, <1>3, <1>4 DEF Pending

\* A transition is for a row that was read, and legal from what was read.
LEMMA TransitionIsLegal ==
    ASSUME SoleInv, NEW r \in Run, ResolveToTransition(r)
    PROVE  /\ table' = table /\ phase'[r] = "write"
           /\ decision'[r] \in Pending
           /\ decision'[r].id \in ActiveRows
           /\ IsLegal(table[decision'[r].id].status, decision'[r].row.status)
           /\ decision'[r].row = TransitionedRow(candidate[r])
           /\ \E v \in Resolutions(candidate[r], snapshot[r]) :
                v.relation = "state_transition" /\ v.match = decision'[r].id
<1> USE DEF SoleInv
<1>1. PICK v \in Resolutions(candidate[r], snapshot[r]) :
        /\ v.relation = "state_transition"
        /\ IsLegal(snapshot[r][v.match].status, candidate[r].status)
        /\ Decide(r, v.match, TransitionedRow(candidate[r]))
    BY DEF ResolveToTransition
<1>2. candidate[r] \in Candidate /\ snapshot[r] = [a \in ActiveRows |-> table[a]]
    BY DEF ResolveToTransition, TypeOK, ReadIsCurrent
<1>3. v.match \in DOMAIN snapshot[r]
    BY <1>1, ResolutionMatches
<1>4. v.match \in ActiveRows /\ snapshot[r][v.match] = table[v.match]
    BY <1>2, <1>3
<1>5. TransitionedRow(candidate[r]) \in Row
    BY <1>1, <1>2, RowTypes
<1>6. /\ table' = table
      /\ decision' = [decision EXCEPT ![r] =
                        [id |-> v.match, row |-> TransitionedRow(candidate[r])]]
      /\ phase' = [phase EXCEPT ![r] = "write"]
    BY <1>1 DEF Decide
<1>7. /\ phase'[r] = "write"
      /\ decision'[r] = [id |-> v.match, row |-> TransitionedRow(candidate[r])]
    BY <1>6 DEF TypeOK
<1>8. TransitionedRow(candidate[r]).status = candidate[r].status
    BY DEF TransitionedRow
<1> QED BY <1>1, <1>4, <1>5, <1>6, <1>7, <1>8 DEF Pending, ActiveRows

LEMMA SoleInit == Init => SoleInv
BY InitType DEF Init, SoleInv, OneAtATime, ReadIsCurrent, WriteIsLegal

LEMMA SoleStep == SoleInv /\ [SerialNext]_vars => SoleInv'
<1> SUFFICES ASSUME SoleInv, [SerialNext]_vars PROVE SoleInv'
    OBVIOUS
<1>1. CASE UNCHANGED vars
    BY <1>1 DEF vars, SoleInv, TypeOK, OneAtATime, ReadIsCurrent, WriteIsLegal, ActiveRows
<1>2. ASSUME NEW r \in Run, Step(r), Alone(r) PROVE SoleInv'
    <2>1. TypeOK'
        BY <1>2, TypeIsInductive DEF SoleInv, SerialNext
    <2>2. \A s \in Run \ {r} : phase'[s] = "lookup"
        BY <1>2, OthersStayIdle DEF SoleInv
    <2>3. OneAtATime'
        BY <2>2 DEF OneAtATime
    <2>4. SUFFICES /\ phase'[r] = "resolve" =>
                        snapshot'[r] = [a \in ActiveRows |-> table[a]]'
                   /\ phase'[r] = "write" =>
                        \/ table'[decision'[r].id] = None
                        \/ /\ IsActive(table'[decision'[r].id])
                           /\ IsLegal(table'[decision'[r].id].status, decision'[r].row.status)
        BY <2>1, <2>2, <2>3 DEF SoleInv, ReadIsCurrent, WriteIsLegal
    <2>5. ASSUME NEW c \in Candidate, Lookup(r, c)
          PROVE  /\ phase'[r] = "resolve" /\ table' = table
                 /\ snapshot'[r] = [a \in ActiveRows |-> table[a]]
        BY <2>5 DEF Lookup, SoleInv, TypeOK
    <2>6. CASE ResolveToCreate(r)
        BY <2>6, CreateIsLegal DEF SoleInv
    <2>7. CASE ResolveToTransition(r)
        BY <2>7, TransitionIsLegal DEF SoleInv, ActiveRows
    <2>8. CASE NextCandidate(r)
        BY <2>8 DEF NextCandidate, SoleInv, TypeOK
    <2> QED BY <1>2, <2>5, <2>6, <2>7, <2>8 DEF Step, ResolveToNoWrite, Write, CandidateFails,
                                               ActiveRows
<1> QED BY <1>1, <1>2 DEF SerialNext

\* What a write of the run does to the table.
LEMMA WriteEffect ==
    ASSUME TypeOK, NEW r \in Run, Write(r)
    PROVE  /\ decision[r] \in Pending
           /\ table' = [table EXCEPT ![decision[r].id] = decision[r].row]
           /\ phase[r] = "write" /\ phase'[r] = "lookup"
BY DEF Write, NextCandidate, TypeOK

\* Every other step leaves the table alone.
LEMMA OnlyWritesWrite ==
    ASSUME NEW r \in Run, Step(r), ~Write(r)
    PROVE  table' = table
BY DEF Step, Lookup, ResolveToCreate, ResolveToTransition, ResolveToNoWrite, CandidateFails, Decide

LEMMA StepMovesForward == SoleInv /\ [SerialNext]_vars => [MovesForward]_vars
<1> SUFFICES ASSUME SoleInv, NEW r \in Run, Step(r), NEW a \in ActionId, Changed(a)
             PROVE  /\ IsActive(table[a]) /\ table'[a] # None
                    /\ table'[a].status = "todo" => table[a].status = "todo"
    BY DEF SerialNext, MovesForward
<1> USE DEF SoleInv
<1>1. Write(r)
    BY OnlyWritesWrite DEF Changed
<1>2. /\ decision[r] \in Pending /\ phase[r] = "write"
      /\ table' = [table EXCEPT ![decision[r].id] = decision[r].row]
    BY <1>1, WriteEffect
<1>3. a = decision[r].id /\ table[a] # None /\ table'[a] = decision[r].row
    BY <1>2 DEF Changed, TypeOK
<1>4. IsActive(table[a]) /\ IsLegal(table[a].status, table'[a].status)
    BY <1>2, <1>3 DEF WriteIsLegal
<1>5. table'[a] \in Row
    BY <1>2, <1>3 DEF Pending
<1> QED BY <1>4, <1>5, LegalStatus, NoneAssumption

\* Runs that do not overlap never reopen an action nor send it back to todo,
\* whatever they hand in and however a step of theirs fails.
THEOREM SerialMovesForward == SerialSpec => LifecycleMovesForward
<1>1. SerialSpec => []SoleInv
    BY SoleInit, SoleStep, PTL DEF SerialSpec
<1>2. SerialSpec => [][MovesForward]_vars
    BY <1>1, StepMovesForward, PTL DEF SerialSpec
<1> QED BY <1>2 DEF LifecycleMovesForward

-----------------------------------------------------------------------------
(* An action is stored once. *)

\* A candidate that agrees with the fields is created only when no row read has
\* its title, and moves only a row of its title when there is one.
LEMMA TitleDecides ==
    ASSUME NEW c, ~c.patch, NEW read, NEW v \in Resolutions(c, read)
    PROVE  /\ v.relation = "no_match" => SameTitle(c, read) = {}
           /\ v.relation # "no_match" =>
                v.match \in SameTitle(c, read) \/ SameTitle(c, read) = {}
<1>1. CASE SameTitle(c, read) = {}
    BY <1>1
<1>2. CASE SameTitle(c, read) # {}
    <2>1. DOMAIN read # {}
        BY <1>2 DEF SameTitle
    <2>2. v \in ByRule(c, read)
        BY <1>2, <2>1 DEF Resolutions
    <2>3. PICK a \in SameTitle(c, read) :
            v = IF c.status \in {None, read[a].status}
                  THEN Resolution("duplicate", a)
                  ELSE Match("state_transition", a, c, read)
        BY <2>2 DEF ByRule
    <2> QED BY <2>3 DEF Match, Resolution
<1> QED BY <1>1, <1>2

LEMMA NewTitle ==
    ASSUME ResolvedAgree, StoreOnceInv, NEW r \in Run,
           ResolveToCreate(r) \/ ResolveToTransition(r)
    PROVE  \A b \in ActiveRows \ {decision'[r].id} : table[b].title # decision'[r].row.title
<1> DEFINE c == candidate[r]
           read == snapshot[r]
<1> USE DEF StoreOnceInv, SoleInv
<1>1. ~c.patch /\ read = [a \in ActiveRows |-> table[a]]
    BY DEF ResolveToCreate, ResolveToTransition, ResolvedAgree, ReadIsCurrent
<1>2. SameTitle(c, read) = {a \in ActiveRows : table[a].title = c.title}
    BY <1>1 DEF SameTitle
<1>3. CASE ResolveToCreate(r)
    <2>1. SameTitle(c, read) = {}
        <3>1. PICK v \in Resolutions(c, read) : v.relation = "no_match"
            BY <1>3 DEF ResolveToCreate
        <3> QED BY <1>1, <3>1, TitleDecides
    <2>2. decision'[r].row.title = c.title
        <3>1. decision'[r].row = CreatedRow(c)
            BY <1>3, CreateIsLegal
        <3>2. CreatedRow(c).title = c.title
            BY DEF CreatedRow
        <3> QED BY <3>1, <3>2
    <2> QED BY <1>2, <2>1, <2>2
<1>4. CASE ResolveToTransition(r)
    <2>1. PICK v \in Resolutions(c, read) :
            v.relation = "state_transition" /\ v.match = decision'[r].id
        BY <1>4, TransitionIsLegal
    <2>2. v.match \in SameTitle(c, read) \/ SameTitle(c, read) = {}
        BY <1>1, <2>1, TitleDecides
    <2>3. decision'[r].row.title = c.title
        <3>1. decision'[r].row = TransitionedRow(c)
            BY <1>4, TransitionIsLegal
        <3>2. TransitionedRow(c).title = c.title
            BY DEF TransitionedRow
        <3> QED BY <3>1, <3>2
    <2> QED BY <1>2, <2>1, <2>2, <2>3 DEF OneActiveRowPerTitle
<1> QED BY <1>3, <1>4

LEMMA StoreOnceStep ==
    ASSUME StoreOnceInv, ResolvedAgree, [SerialNext]_vars
    PROVE  StoreOnceInv'
<1>1. SoleInv'
    BY SoleStep DEF StoreOnceInv
<1>2. CASE UNCHANGED vars
    BY <1>1, <1>2 DEF vars, StoreOnceInv, OneActiveRowPerTitle, WriteIsOfNewTitle, ActiveRows
<1>3. ASSUME NEW r \in Run, Step(r), Alone(r) PROVE StoreOnceInv'
    <2> USE DEF StoreOnceInv, SoleInv
    <2>1. \A s \in Run \ {r} : phase'[s] = "lookup"
        BY <1>3, OthersStayIdle
    <2>2. CASE Write(r)
        <3>1. /\ decision[r] \in Pending /\ phase[r] = "write" /\ phase'[r] = "lookup"
              /\ table' = [table EXCEPT ![decision[r].id] = decision[r].row]
            BY <2>2, WriteEffect
        <3>2. ASSUME NEW b \in ActiveRows', b # decision[r].id
              PROVE  b \in ActiveRows /\ table'[b] = table[b]
                     /\ table[b].title # decision[r].row.title
            BY <3>1, <3>2 DEF ActiveRows, WriteIsOfNewTitle, TypeOK
        <3>3. decision[r].id \in ActiveRows' => table'[decision[r].id] = decision[r].row
            BY <3>1 DEF TypeOK, Pending
        <3>4. OneActiveRowPerTitle'
            BY <3>2, <3>3 DEF OneActiveRowPerTitle
        <3> QED BY <1>1, <2>1, <3>1, <3>4 DEF WriteIsOfNewTitle
    <2>3. CASE ~Write(r)
        <3>1. table' = table
            BY <1>3, <2>3, OnlyWritesWrite
        <3>2. OneActiveRowPerTitle'
            BY <3>1 DEF OneActiveRowPerTitle, ActiveRows
        <3>3. phase'[r] = "write" => ResolveToCreate(r) \/ ResolveToTransition(r)
            BY <1>3, <2>3 DEF Step, Lookup, ResolveToNoWrite, CandidateFails, NextCandidate, TypeOK
        <3>4. WriteIsOfNewTitle'
            BY <2>1, <3>1, <3>3, NewTitle DEF WriteIsOfNewTitle, ActiveRows
        <3> QED BY <1>1, <3>2, <3>4
    <2> QED BY <2>2, <2>3
<1> QED BY <1>2, <1>3 DEF SerialNext

LEMMA StoreOnceInit == Init => StoreOnceInv
BY SoleInit DEF Init, StoreOnceInv, OneActiveRowPerTitle, WriteIsOfNewTitle, ActiveRows, IsActive

\* Runs that do not overlap, with candidates that agree with the stored fields, keep
\* at most one active row of a title.
THEOREM SerialStoresOnce ==
    ASSUME CandidatesAgree PROVE SerialSpec => []OneActiveRowPerTitle
<1>1. TypeOK => ResolvedAgree
    BY CandidateAssumption DEF TypeOK, ResolvedAgree, CandidatesAgree
<1>2. StoreOnceInv /\ [SerialNext]_vars => StoreOnceInv'
    BY <1>1, StoreOnceStep DEF StoreOnceInv, SoleInv
<1>3. StoreOnceInv => OneActiveRowPerTitle
    BY DEF StoreOnceInv
<1> QED BY <1>2, <1>3, StoreOnceInit, PTL DEF SerialSpec

-----------------------------------------------------------------------------
(* The scenarios of the model-checking module.                              *)

\* In a serial scenario only candidates that agree with the stored fields are
\* offered, although others exist.
SerialScenario == serial => StoreOnceInv /\ ResolvedAgree

LEMMA OfferedAgree ==
    ASSUME TypeOK, NEW r \in Run, Step(r), Alone(r),
           candidate'[r] # None => ~candidate'[r].patch, ResolvedAgree
    PROVE  ResolvedAgree'
<1>1. \A s \in Run \ {r} : phase'[s] = "lookup"
    BY OthersStayIdle
<1>2. phase'[r] = "resolve" => \E c \in Candidate : Lookup(r, c)
    BY DEF Step, ResolveToCreate, ResolveToTransition, Decide, ResolveToNoWrite, Write,
       CandidateFails, NextCandidate, TypeOK
<1>3. phase'[r] = "resolve" => candidate'[r] # None
    BY <1>2, CandidateAssumption, NoneAssumption DEF Lookup, TypeOK
<1> QED BY <1>1, <1>3 DEF ResolvedAgree

LEMMA ScenarioStep ==
    ASSUME SerialScenario, [MCNext]_mcvars
    PROVE  SerialScenario' /\ (serial => [MovesForward]_mcvars)
<1>1. CASE UNCHANGED vars
    <2>1. StoreOnceInv /\ ResolvedAgree => StoreOnceInv' /\ ResolvedAgree'
        <3>1. ResolvedAgree => ResolvedAgree'
            BY <1>1 DEF vars, ResolvedAgree
        <3> QED BY <1>1, <3>1, StoreOnceStep
    <2>2. ASSUME NEW a \in ActionId PROVE ~Changed(a)
        BY <1>1 DEF vars, Changed
    <2> QED
        BY <2>1, <2>2 DEF SerialScenario, serial, MCNext, RunStep, BrowsingStep, mcvars, MovesForward
<1>2. CASE RunStep /\ serial
    <2>1. PICK r \in Run : /\ Step(r) /\ Alone(r)
                           /\ candidate'[r] # None => ~candidate'[r].patch
        BY <1>2 DEF RunStep, Offered
    <2>2. [SerialNext]_vars
        BY <2>1 DEF SerialNext
    <2>3. StoreOnceInv' /\ ResolvedAgree'
        BY <1>2, <2>1, <2>2, StoreOnceStep, OfferedAgree DEF SerialScenario, StoreOnceInv, SoleInv
    <2>4. [MovesForward]_vars
        BY <1>2, <2>2, StepMovesForward DEF SerialScenario, StoreOnceInv
    <2> QED BY <1>2, <2>3, <2>4 DEF SerialScenario, RunStep, mcvars
<1>3. CASE RunStep /\ ~serial
    BY <1>3 DEF RunStep, SerialScenario, serial
<1> QED BY <1>1, <1>2, <1>3 DEF MCNext, BrowsingStep, mcvars

LEMMA ScenariosCorrect == MCSpec => []SerialScenario
<1>1. MCInit => SerialScenario
    BY StoreOnceInit DEF MCInit, SerialScenario, ResolvedAgree, Init
<1>2. SerialScenario /\ [MCNext]_mcvars => SerialScenario'
    BY ScenarioStep
<1> QED BY <1>1, <1>2, PTL DEF MCSpec

\* Among all scenarios, the serial ones store an action once, for any number of runs
\* and any size of a batch (_resolve_action).
THEOREM SerialRunsAlwaysStoreOnce == MCSpec => []SerialRunsStoreOnce
<1>1. SerialScenario => SerialRunsStoreOnce
    BY DEF SerialScenario, StoreOnceInv, SerialRunsStoreOnce
<1> QED BY <1>1, ScenariosCorrect, PTL

\* And they never reopen an action nor send it back to todo.
THEOREM SerialRunsAlwaysMoveForward == MCSpec => SerialRunsMoveForward
<1>1. SerialScenario /\ [MCNext]_mcvars => [serial => MovesForward]_mcvars
    BY ScenarioStep
<1>2. MCSpec => [][serial => MovesForward]_mcvars
    BY <1>1, ScenariosCorrect, PTL DEF MCSpec
<1> QED BY <1>2 DEF SerialRunsMoveForward

-----------------------------------------------------------------------------
(* MemoryBrowsing.  A finite set under a strict total order has a first      *)
(* element; a page is the rows with fewer than PageLimit rows before them.   *)

LEMMA LeastNumber ==
    ASSUME NEW T \in SUBSET Nat, T # {}
    PROVE  \E n \in T : \A m \in T : n <= m
<1> DEFINE R == OpToRel(<, Nat)
<1>1. IsWellFoundedOn(R, Nat)
    BY NatLessThanWellFounded
<1>2. \A m, n \in Nat : m < n => <<m, n>> \in R
    BY DEF OpToRel
<1> HIDE DEF R
<1>3. PICK n \in T : \A m \in T : ~(<<m, n>> \in R)
    BY <1>1, WFMin
<1>4. \A m \in T : ~(m < n)
    BY <1>2, <1>3
<1> QED BY <1>4

LEMMA FirstElement ==
    ASSUME NEW S, IsFiniteSet(S), S # {}, NEW R,
           \A a, b \in S : a = b \/ <<a, b>> \in R \/ <<b, a>> \in R,
           \A a \in S : <<a, a>> \notin R,
           \A a, b, c \in S : <<a, b>> \in R /\ <<b, c>> \in R => <<a, c>> \in R
    PROVE  \E m \in S : \A j \in S \ {m} : <<m, j>> \in R
<1> DEFINE Before(a) == {b \in S : <<b, a>> \in R}
           rank == [a \in S |-> Cardinality(Before(a))]
           ranks == {rank[a] : a \in S}
<1>1. \A a \in S : Before(a) \subseteq S /\ IsFiniteSet(Before(a)) /\ Cardinality(Before(a)) \in Nat
    BY FS_Subset, FS_CardinalityType
<1>2. PICK n \in ranks : \A k \in ranks : n <= k
    <2>1. \A a \in S : rank[a] \in Nat
        BY <1>1
    <2>2. ranks \in SUBSET Nat /\ ranks # {}
        <3> HIDE DEF rank
        <3> QED BY <2>1
    <2> HIDE DEF ranks
    <2> QED BY <2>2, LeastNumber
<1>3. PICK m \in S : \A a \in S : Cardinality(Before(m)) <= Cardinality(Before(a))
    <2>1. PICK m \in S : n = rank[m]
        <3> HIDE DEF rank
        <3> QED BY <1>2
    <2>2. \A a \in S : rank[m] <= rank[a]
        <3> HIDE DEF rank
        <3> QED BY <1>2, <2>1
    <2>3. \A a \in S : rank[a] = Cardinality(Before(a))
        <3> HIDE DEF Before
        <3> QED OBVIOUS
    <2> HIDE DEF Before, rank
    <2> QED BY <2>2, <2>3
<1>4. ASSUME NEW j \in S \ {m}, <<m, j>> \notin R PROVE FALSE
    <2>1. <<j, m>> \in R
        BY <1>4
    <2>2. Before(j) \subseteq Before(m) /\ j \in Before(m) /\ j \notin Before(j)
        BY <2>1
    <2>3. Cardinality(Before(j)) <= Cardinality(Before(m)) /\ Cardinality(Before(j)) # Cardinality(Before(m))
        <3> HIDE DEF Before
        <3> QED BY <1>1, <2>2, FS_Subset
    <2>4. Cardinality(Before(j)) \in Nat /\ Cardinality(Before(m)) \in Nat
          /\ Cardinality(Before(m)) <= Cardinality(Before(j))
        BY <1>1, <1>3
    <2> HIDE DEF Before
    <2> QED BY <2>3, <2>4
<1> QED BY <1>4

\* The rows of the tables in the order of a listing.
RowOrder == {p \in (DOMAIN rows) \X (DOMAIN rows) : Earlier(RowKey(p[1]), RowKey(p[2]))}

LEMMA RowNumbers ==
    ASSUME BrowsingTypeOK
    PROVE  \A i \in DOMAIN rows : rows[i].updated \in Nat /\ i \in Nat
<1>1. \A i \in DOMAIN rows : i \in Nat /\ rows[i] \in StoredRow
    BY BrowsingAssumption DEF BrowsingTypeOK
<1>2. \A row \in StoredRow : row.updated \in 1..LastTime
    BY DEF StoredRow
<1> QED BY <1>1, <1>2, BrowsingAssumption

LEMMA RowOrderIsTotal ==
    ASSUME BrowsingTypeOK
    PROVE  LET D == DOMAIN rows
           IN /\ \A a, b \in D : <<a, b>> \in RowOrder <=> Earlier(RowKey(a), RowKey(b))
              /\ \A a, b \in D : a = b \/ <<a, b>> \in RowOrder \/ <<b, a>> \in RowOrder
              /\ \A a \in D : <<a, a>> \notin RowOrder
              /\ \A a, b, c \in D :
                    <<a, b>> \in RowOrder /\ <<b, c>> \in RowOrder => <<a, c>> \in RowOrder
<1> DEFINE D == DOMAIN rows
<1>1. \A a \in D : a \in Nat /\ rows[a].updated \in Nat
    BY RowNumbers
<1>2. \A a, b \in D : <<a, b>> \in RowOrder <=> Earlier(RowKey(a), RowKey(b))
    BY DEF RowOrder
<1>3. \A a, b \in D : Earlier(RowKey(a), RowKey(b)) <=>
        \/ rows[a].updated > rows[b].updated
        \/ rows[a].updated = rows[b].updated /\ a > b
    BY DEF Earlier, RowKey
<1> HIDE DEF D
<1>4. /\ \A a, b \in D : a = b \/ <<a, b>> \in RowOrder \/ <<b, a>> \in RowOrder
      /\ \A a \in D : <<a, a>> \notin RowOrder
      /\ \A a, b, c \in D :
            <<a, b>> \in RowOrder /\ <<b, c>> \in RowOrder => <<a, c>> \in RowOrder
    BY <1>1, <1>2, <1>3
<1> QED BY <1>2, <1>4 DEF D

\* What is left of a listing, and its next page.
Ahead(l) == {i \in Shown(l.collection, l.states) : Beyond(RowKey(i), l.cursor)}
NextPage(l) ==
    {i \in Ahead(l) : Cardinality({j \in Ahead(l) : Earlier(RowKey(j), RowKey(i))}) < PageLimit}
IsLast(k, page) == k \in page /\ \A j \in page \ {k} : Earlier(RowKey(j), RowKey(k))

LEMMA TurnedFields ==
    ASSUME NEW l \in Listing
    PROVE  LET m == Turned(l) IN
           /\ m = [step |-> m.step, collection |-> l.collection, states |-> l.states,
                   cursor |-> m.cursor, first |-> l.first, listed |-> m.listed, twice |-> m.twice]
           /\ m.step = IF NextPage(l) = Ahead(l) THEN "complete" ELSE "open"
           /\ m.cursor = IF NextPage(l) = Ahead(l) THEN {}
                         ELSE {RowKey(i) : i \in {k \in NextPage(l) : IsLast(k, NextPage(l))}}
           /\ m.listed = l.listed \cup NextPage(l)
           /\ m.twice = l.twice \cup (l.listed \cap NextPage(l))
<1> DEFINE m == Turned(l)
           left == Ahead(l)
           page == NextPage(l)
           ends == {RowKey(i) : i \in {k \in page : \A j \in page \ {k} : Earlier(RowKey(j), RowKey(k))}}
<1>1. m = [l EXCEPT !.step = IF page = left THEN "complete" ELSE "open",
                    !.cursor = IF page = left THEN {} ELSE ends,
                    !.listed = @ \cup page,
                    !.twice = @ \cup (l.listed \cap page)]
    BY Zenon DEF Turned, Ahead, NextPage
<1>2. ends = {RowKey(i) : i \in {k \in page : IsLast(k, page)}}
    BY DEF IsLast
<1> HIDE DEF m, left, page, ends
<1>3. /\ m = [step |-> m.step, collection |-> l.collection, states |-> l.states,
              cursor |-> m.cursor, first |-> l.first, listed |-> m.listed, twice |-> m.twice]
      /\ m.step = (IF page = left THEN "complete" ELSE "open")
      /\ m.cursor = (IF page = left THEN {} ELSE ends)
      /\ m.listed = l.listed \cup page
      /\ m.twice = l.twice \cup (l.listed \cap page)
    BY <1>1 DEF Listing
<1> QED BY <1>2, <1>3 DEF m, left, page

\* A page that leaves rows over has one last row: all its other rows come before
\* that one, and all rows left over after it.
LEMMA PageHasLast ==
    ASSUME BrowsingTypeOK, IsFiniteSet(DOMAIN rows), NEW l, NextPage(l) # Ahead(l)
    PROVE  \E k \in NextPage(l) :
              /\ \A j \in NextPage(l) : IsLast(j, NextPage(l)) <=> j = k
              /\ \A j \in NextPage(l) \ {k} : <<j, k>> \in RowOrder
              /\ \A j \in Ahead(l) \ NextPage(l) : <<k, j>> \in RowOrder
<1> DEFINE R == Ahead(l)
           page == NextPage(l)
           Before(k) == {j \in R : Earlier(RowKey(j), RowKey(k))}
<1>1. R \subseteq DOMAIN rows /\ page \subseteq R /\ IsFiniteSet(R)
    <2>1. R \subseteq DOMAIN rows /\ page \subseteq R
        BY DEF Ahead, Shown, NextPage
    <2> QED BY <2>1, FS_Subset
<1>2. \A k \in R : k \in page <=> Cardinality(Before(k)) < PageLimit
    BY DEF NextPage
<1>3. \A k \in R : IsFiniteSet(Before(k)) /\ Cardinality(Before(k)) \in Nat
    BY <1>1, FS_Subset, FS_CardinalityType
<1>4. \A j, k \in R : j \in Before(k) <=> <<j, k>> \in RowOrder
    BY <1>1, RowOrderIsTotal
<1>5. R # {}
    BY <1>1
<1> HIDE DEF R, page, Before
<1>6. PICK top \in R : \A j \in R \ {top} : <<top, j>> \in RowOrder
    <2>1. /\ \A a, b \in R : a = b \/ <<a, b>> \in RowOrder \/ <<b, a>> \in RowOrder
          /\ \A a \in R : <<a, a>> \notin RowOrder
          /\ \A a, b, c \in R :
                <<a, b>> \in RowOrder /\ <<b, c>> \in RowOrder => <<a, c>> \in RowOrder
        BY <1>1, RowOrderIsTotal
    <2> QED BY <1>1, <1>5, <2>1, FirstElement
<1>7. top \in page
    <2>1. ASSUME NEW j \in Before(top) PROVE FALSE
        <3>1. j \in R /\ <<j, top>> \in RowOrder
            BY <1>4, <2>1 DEF Before
        <3>2. <<top, top>> \in RowOrder
            BY <1>1, <1>6, <3>1, RowOrderIsTotal
        <3> QED BY <1>1, <3>2, RowOrderIsTotal
    <2>2. Before(top) = {}
        BY <2>1
    <2> QED BY <1>2, <2>2, FS_EmptySet, BrowsingAssumption
<1>8. PICK k \in page : \A j \in page \ {k} : <<j, k>> \in RowOrder
    <2> DEFINE Back == {p \in (DOMAIN rows) \X (DOMAIN rows) : <<p[2], p[1]>> \in RowOrder}
    <2>1. \A a, b \in DOMAIN rows : <<a, b>> \in Back <=> <<b, a>> \in RowOrder
        OBVIOUS
    <2>2. page \subseteq DOMAIN rows /\ IsFiniteSet(page) /\ page # {}
        BY <1>1, <1>7, FS_Subset
    <2> HIDE DEF Back
    <2>3. /\ \A a, b \in page : a = b \/ <<a, b>> \in Back \/ <<b, a>> \in Back
          /\ \A a \in page : <<a, a>> \notin Back
          /\ \A a, b, c \in page : <<a, b>> \in Back /\ <<b, c>> \in Back => <<a, c>> \in Back
        BY <2>1, <2>2, RowOrderIsTotal
    <2>4. PICK k \in page : \A j \in page \ {k} : <<k, j>> \in Back
        BY <2>2, <2>3, FirstElement
    <2> QED BY <2>1, <2>2, <2>4
<1>9. \A j \in page : IsLast(j, page) <=> j = k
    <2>1. \A j \in page : IsLast(j, page) <=> \A i \in page \ {j} : <<i, j>> \in RowOrder
        BY <1>1, RowOrderIsTotal DEF IsLast
    <2>2. ASSUME NEW j \in page, j # k, <<k, j>> \in RowOrder PROVE FALSE
        <3>1. <<k, k>> \in RowOrder
            BY <1>1, <1>8, <2>2, RowOrderIsTotal
        <3> QED BY <1>1, <3>1, RowOrderIsTotal
    <2> QED BY <1>8, <2>1, <2>2
<1>10. ASSUME NEW i \in R \ page, <<k, i>> \notin RowOrder PROVE FALSE
    <2>1. k \in R /\ i # k
        BY <1>1, <1>10
    <2>2. <<i, k>> \in RowOrder
        BY <1>1, <1>10, <2>1, RowOrderIsTotal
    <2>3. Before(i) \subseteq Before(k)
        <3>1. ASSUME NEW j \in Before(i) PROVE j \in Before(k)
            <4>1. j \in R /\ <<j, i>> \in RowOrder
                BY <1>4, <3>1 DEF Before
            <4>2. <<j, k>> \in RowOrder
                BY <1>1, <2>1, <2>2, <4>1, RowOrderIsTotal
            <4> QED BY <1>4, <2>1, <4>1, <4>2
        <3> QED BY <3>1
    <2>4. Cardinality(Before(i)) <= Cardinality(Before(k))
        BY <1>3, <2>1, <2>3, FS_Subset
    <2>5. Cardinality(Before(k)) < PageLimit /\ ~(Cardinality(Before(i)) < PageLimit)
        BY <1>2, <1>8, <2>1
    <2> QED BY <1>3, <2>1, <2>4, <2>5, BrowsingAssumption
<1> QED BY <1>8, <1>9, <1>10 DEF R, page

\* What holds of a listing with a page to come: nothing unwritten that it has listed
\* is still ahead, and what was there at first and is unwritten is listed or ahead.
Sound(l) ==
    /\ l.listed \cap Ahead(l) \subseteq written
    /\ l.first \subseteq l.listed \cup Ahead(l) \cup written

LEMMA TurnedIsTyped ==
    ASSUME BrowsingTypeOK, IsFiniteSet(DOMAIN rows), NEW l \in Listing
    PROVE  Turned(l) \in Listing /\ Turned(l).step \in {"open", "complete"}
<1> DEFINE m == Turned(l)
<1>1. /\ m = [step |-> m.step, collection |-> l.collection, states |-> l.states,
              cursor |-> m.cursor, first |-> l.first, listed |-> m.listed, twice |-> m.twice]
      /\ m.step = IF NextPage(l) = Ahead(l) THEN "complete" ELSE "open"
      /\ m.cursor = IF NextPage(l) = Ahead(l) THEN {}
                    ELSE {RowKey(i) : i \in {k \in NextPage(l) : IsLast(k, NextPage(l))}}
      /\ m.listed = l.listed \cup NextPage(l)
      /\ m.twice = l.twice \cup (l.listed \cap NextPage(l))
    BY TurnedFields
<1> HIDE DEF m
<1>2. NextPage(l) \subseteq DOMAIN rows /\ DOMAIN rows \subseteq RowId
    BY DEF NextPage, Ahead, Shown, BrowsingTypeOK
<1>3. \A i \in DOMAIN rows : RowKey(i) \in [updated: 1..LastTime, id: RowId]
    BY DEF BrowsingTypeOK, StoredRow, RowKey
<1>4. m.cursor \subseteq [updated: 1..LastTime, id: RowId]
    BY <1>1, <1>2, <1>3
<1>5. /\ l.collection \in Collection /\ l.states \subseteq ActionState
      /\ l.first \subseteq RowId /\ l.listed \subseteq RowId /\ l.twice \subseteq RowId
    BY DEF Listing
<1>6. m.listed \subseteq RowId /\ m.twice \subseteq RowId
    BY <1>1, <1>2, <1>5
<1>7. m.step \in {"open", "complete"}
    BY <1>1
<1>8. m \in Listing
    BY <1>1, <1>4, <1>5, <1>6, <1>7 DEF Listing
<1> QED BY <1>7, <1>8 DEF m

\* Turning a page of a sound listing ends it exactly or leaves it sound.
LEMMA TurnedIsSound ==
    ASSUME BrowsingTypeOK, IsFiniteSet(DOMAIN rows), NEW l \in Listing, Sound(l),
           l.twice \subseteq written
    PROVE  LET m == Turned(l) IN
           /\ m.twice \subseteq written
           /\ m.step = "complete" => m.first \subseteq m.listed \cup written
           /\ m.step = "open" => Sound(m)
<1> DEFINE m == Turned(l)
           R == Ahead(l)
           page == NextPage(l)
<1>1. /\ m.collection = l.collection /\ m.states = l.states /\ m.first = l.first
      /\ m.step = (IF page = R THEN "complete" ELSE "open")
      /\ m.cursor = (IF page = R THEN {} ELSE {RowKey(i) : i \in {k \in page : IsLast(k, page)}})
      /\ m.listed = l.listed \cup page
      /\ m.twice = l.twice \cup (l.listed \cap page)
    <2> HIDE DEF m, R, page
    <2> QED BY TurnedFields DEF m, R, page
<1>2. page \subseteq R /\ R \subseteq DOMAIN rows /\ R \subseteq Shown(l.collection, l.states)
    BY DEF NextPage, Ahead, Shown
<1>3. /\ l.listed \cap R \subseteq written
      /\ l.first \subseteq l.listed \cup R \cup written
    BY DEF Sound
<1>4. m.twice \subseteq written
    <2> HIDE DEF m, R, page
    <2> QED BY <1>1, <1>2, <1>3
<1>5. m.step = "complete" => m.first \subseteq m.listed \cup written
    <2> HIDE DEF m, R, page
    <2> QED BY <1>1, <1>3
<1>6. ASSUME page # R PROVE Sound(m)
    <2>1. PICK k \in page : /\ \A j \in page : IsLast(j, page) <=> j = k
                            /\ \A j \in page \ {k} : <<j, k>> \in RowOrder
                            /\ \A j \in R \ page : <<k, j>> \in RowOrder
        BY <1>6, PageHasLast
    <2>2. m.cursor = {RowKey(k)}
        <3> HIDE DEF m, R, page
        <3> QED BY <1>1, <1>6, <2>1
    <2>3. \A i \in DOMAIN rows : Beyond(RowKey(i), m.cursor) <=> Earlier(RowKey(k), RowKey(i))
        <3>1. \A i \in DOMAIN rows : rows[i].updated \in Nat /\ i \in Nat
            BY RowNumbers
        <3> HIDE DEF m
        <3> QED BY <1>2, <2>1, <2>2, <3>1 DEF Beyond, Earlier, RowKey
    <2>4. \A i : i \in Ahead(m) <=>
            i \in Shown(l.collection, l.states) /\ <<k, i>> \in RowOrder
        <3>1. Shown(m.collection, m.states) = Shown(l.collection, l.states)
            BY <1>1
        <3>2. \A i \in Shown(l.collection, l.states) : i \in DOMAIN rows
            BY DEF Shown
        <3> HIDE DEF m
        <3> QED BY <1>2, <2>1, <2>3, <3>1, <3>2, RowOrderIsTotal DEF Ahead
    <2>5. ASSUME NEW i \in Ahead(m) PROVE i \in R /\ i \notin page
        <3>1. i \in Shown(l.collection, l.states) /\ <<k, i>> \in RowOrder /\ i \in DOMAIN rows
            BY <2>4 DEF Shown
        <3>2. i \notin page
            <4>1. k \in DOMAIN rows
                BY <1>2, <2>1
            <4> SUFFICES ASSUME i \in page PROVE FALSE
                OBVIOUS
            <4>2. <<i, k>> \in RowOrder \/ i = k
                BY <2>1
            <4>3. <<k, k>> \in RowOrder
                BY <3>1, <4>1, <4>2, RowOrderIsTotal
            <4> QED BY <4>1, <4>3, RowOrderIsTotal
        <3>3. Beyond(RowKey(k), l.cursor) /\ Earlier(RowKey(k), RowKey(i)) /\ k \in DOMAIN rows
            BY <1>2, <2>1, <3>1, RowOrderIsTotal DEF NextPage, Ahead
        <3>4. ASSUME NEW c \in l.cursor
              PROVE  \/ rows[i].updated < c.updated
                     \/ rows[i].updated = c.updated /\ i < c.id
            <4>1. c \in [updated: 1..LastTime, id: RowId]
                BY DEF Listing
            <4>2. rows[i] \in StoredRow /\ rows[k] \in StoredRow /\ i \in RowId /\ k \in RowId
                BY <3>1, <3>3 DEF BrowsingTypeOK
            <4>3. /\ rows[i].updated \in 1..LastTime /\ rows[k].updated \in 1..LastTime
                  /\ c.updated \in 1..LastTime /\ c.id \in RowId
                BY <4>1, <4>2 DEF StoredRow
            <4>4. /\ rows[i].updated \in Nat /\ rows[k].updated \in Nat
                  /\ c.updated \in Nat /\ c.id \in Nat /\ i \in Nat /\ k \in Nat
                BY <4>2, <4>3, BrowsingAssumption
            <4>5. rows[k].updated < c.updated \/ (rows[k].updated = c.updated /\ k < c.id)
                BY <3>3 DEF Beyond, RowKey
            <4>6. rows[k].updated > rows[i].updated \/ (rows[k].updated = rows[i].updated /\ k > i)
                BY <3>3 DEF Earlier, RowKey
            <4> QED BY <4>4, <4>5, <4>6
        <3>5. Beyond(RowKey(i), l.cursor)
            BY <3>4 DEF Beyond, RowKey
        <3> QED BY <3>1, <3>2, <3>5 DEF Ahead
    <2>6. R \ page \subseteq Ahead(m)
        BY <1>2, <2>1, <2>4
    <2> HIDE DEF m, R, page
    <2> QED BY <1>1, <1>3, <2>5, <2>6 DEF Sound
<1>7. m.step = "open" => page # R
    <2> HIDE DEF m, R, page
    <2> QED BY <1>1
<1> QED BY <1>4, <1>5, <1>6, <1>7

LEMMA StampedRow ==
    ASSUME BrowsingTypeOK, NEW i \in DOMAIN rows, NEW state \in ActionState
    PROVE  Stamped(i, state) \in StoredRow
<1>1. rows[i] \in StoredRow /\ time \in 1..LastTime
    BY DEF BrowsingTypeOK
<1> QED BY <1>1 DEF Stamped, StoredRow

LEMMA WritesAreTyped ==
    ASSUME BrowsingTypeOK
    PROVE  Creations \cup Transitions \cup NewVersions \subseteq Update
<1>1. Fresh \subseteq RowId /\ DOMAIN rows \subseteq RowId
    BY DEF Fresh, BrowsingTypeOK
<1>2. "todo" \in ActionState /\ {"in_progress", "done"} \subseteq ActionState
    BY DEF ActionState, Final
<1>3. ASSUME NEW i \in RowId, NEW j \in DOMAIN rows, NEW state \in ActionState,
             NEW gone \in SUBSET RowId
      PROVE  [id |-> i, row |-> Stamped(j, state), retired |-> gone] \in Update
    BY StampedRow DEF Update
<1>4. Creations \subseteq Update
    BY <1>1, <1>2, <1>3 DEF Creations
<1>5. Transitions \subseteq Update
    <2>1. Shown("actions", DefaultStates) \subseteq DOMAIN rows
        BY DEF Shown
    <2> QED BY <1>1, <1>2, <1>3, <2>1 DEF Transitions
<1>6. NewVersions \subseteq Update
    BY <1>1, <1>2, <1>3 DEF NewVersions
<1> QED BY <1>4, <1>5, <1>6

\* The table after a write.
LEMMA CommitEffect ==
    ASSUME BrowsingTypeOK, NEW w \in Writer, CommitWrite(w)
    PROVE  \E u \in Update :
              /\ u \in pending[w]
              /\ DOMAIN rows' = DOMAIN rows \cup {u.id}
              /\ \A i \in DOMAIN rows' : rows'[i] \in StoredRow
              /\ \A i \in DOMAIN rows \ ({u.id} \cup u.retired) : rows'[i] = rows[i]
              /\ listing # NotOpened \/ DOMAIN counted # {} =>
                    written' = written \cup {u.id} \cup u.retired
              /\ written' \subseteq RowId
<1>1. PICK u \in pending[w] :
        /\ rows' = [i \in DOMAIN rows \cup {u.id} |->
                        IF i = u.id THEN u.row
                        ELSE IF i \in u.retired
                        THEN [rows[i] EXCEPT !.active = FALSE, !.updated = u.row.updated]
                        ELSE rows[i]]
        /\ written' = IF listing = NotOpened /\ DOMAIN counted = {} THEN {}
                      ELSE written \cup {u.id} \cup u.retired
    BY DEF CommitWrite
<1>2. u \in Update /\ u.id \in RowId /\ u.row \in StoredRow /\ u.retired \subseteq RowId
    BY DEF BrowsingTypeOK, Update
<1>3. ASSUME NEW i \in DOMAIN rows
      PROVE  [rows[i] EXCEPT !.active = FALSE, !.updated = u.row.updated] \in StoredRow
    <2>1. rows[i] \in StoredRow /\ u.row.updated \in 1..LastTime
        BY <1>2 DEF BrowsingTypeOK, StoredRow
    <2> QED BY <2>1 DEF StoredRow
<1>4. \A i \in DOMAIN rows : rows[i] \in StoredRow
    BY DEF BrowsingTypeOK
<1>5. \A i \in DOMAIN rows' : rows'[i] \in StoredRow
    BY <1>1, <1>2, <1>3, <1>4
<1>6. written' \subseteq RowId
    BY <1>1, <1>2 DEF BrowsingTypeOK
<1> QED BY <1>1, <1>2, <1>5, <1>6

LEMMA BrowsingInitTyped == MemoryBrowsingInit => BrowsingTypeOK /\ IsFiniteSet(DOMAIN rows)
<1> SUFFICES ASSUME MemoryBrowsingInit PROVE BrowsingTypeOK /\ IsFiniteSet(DOMAIN rows)
    OBVIOUS
<1>1. /\ DOMAIN rows \subseteq RowId /\ IsFiniteSet(DOMAIN rows)
      /\ \A i \in DOMAIN rows : rows[i] \in StoredRow
    BY BrowsingAssumption DEF MemoryBrowsingInit
<1>2. time \in 1..LastTime
    BY BrowsingAssumption DEF MemoryBrowsingInit
<1>3. listing \in Listing
    BY DEF MemoryBrowsingInit, NotOpened, Listing, Collection
<1>4. DOMAIN counted = {} /\ written = {}
    BY DEF MemoryBrowsingInit
<1>5. writing \in [Writer -> {"shaping", "awaiting", "done"}] /\ pending \in [Writer -> SUBSET Update]
    BY DEF MemoryBrowsingInit
<1> QED BY <1>1, <1>2, <1>3, <1>4, <1>5 DEF BrowsingTypeOK

\* A listing begins with everything ahead.
Opened(c, states) ==
    [NotOpened EXCEPT !.collection = c, !.states = states, !.first = Shown(c, states)]

LEMMA OpenedIsSound ==
    ASSUME BrowsingTypeOK, NEW c \in Collection, NEW states \in SUBSET ActionState
    PROVE  LET l == Opened(c, states)
           IN /\ l \in Listing /\ Sound(l) /\ l.twice = {} /\ l.listed = {}
              /\ l.collection = c /\ l.states = states /\ l.first = Shown(c, states)
<1> DEFINE l == Opened(c, states)
<1>1. Shown(c, states) \subseteq RowId
    BY DEF Shown, BrowsingTypeOK
<1>2. l = [step |-> "closed", collection |-> c, states |-> states, cursor |-> {},
           first |-> Shown(c, states), listed |-> {}, twice |-> {}]
    <2> DEFINE there == Shown(c, states)
               empty == [step |-> "closed", collection |-> "actions", states |-> {},
                         cursor |-> {}, first |-> {}, listed |-> {}, twice |-> {}]
    <2>1. l = [empty EXCEPT !.collection = c, !.states = states, !.first = there]
        BY Zenon DEF Opened, NotOpened
    <2> HIDE DEF there, l
    <2> QED BY <2>1 DEF there
<1>3. l \in Listing
    <2> HIDE DEF l
    <2> QED BY <1>1, <1>2 DEF Listing
<1>4. Ahead(l) = Shown(c, states)
    <2> HIDE DEF l
    <2> QED BY <1>2 DEF Ahead, Beyond
<1>5. Sound(l)
    <2> HIDE DEF l
    <2> QED BY <1>2, <1>4 DEF Sound
<1> HIDE DEF l
<1> QED BY <1>2, <1>3, <1>5 DEF l

\* A step of the caller that reads a page.
Reads(l) ==
    /\ l \in Listing /\ Sound(l) /\ l.twice \subseteq written
    /\ listing' = Turned(l)
    /\ UNCHANGED <<rows, written, counted>>
    /\ \/ l = listing /\ listing.step = "open"
       \/ l.listed = {} /\ l.first = Shown(l.collection, l.states)

LEMMA TypedStep ==
    ASSUME BrowsingTypeOK, IsFiniteSet(DOMAIN rows), [BrowseNext]_browsingVars,
           listing.step = "open" => Sound(listing), listing.twice \subseteq written
    PROVE  /\ BrowsingTypeOK' /\ IsFiniteSet(DOMAIN rows')
           /\ \/ UNCHANGED <<rows, listing, counted, written>>
              \/ \E w \in Writer : CommitWrite(w)
              \/ \E c \in Collection : Summarize(c)
              \/ \E l \in Listing : Reads(l)
<1>1. CASE UNCHANGED browsingVars
    BY <1>1 DEF browsingVars, BrowsingTypeOK
<1>2. ASSUME NEW w \in Writer, StartWrite(w)
      PROVE  /\ BrowsingTypeOK' /\ IsFiniteSet(DOMAIN rows')
             /\ UNCHANGED <<rows, listing, counted, written>>
    BY <1>2, WritesAreTyped DEF StartWrite, BrowsingTypeOK
<1>3. ASSUME NEW w \in Writer, CommitWrite(w)
      PROVE  BrowsingTypeOK' /\ IsFiniteSet(DOMAIN rows')
    <2>1. PICK u \in Update :
              /\ DOMAIN rows' = DOMAIN rows \cup {u.id}
              /\ \A i \in DOMAIN rows' : rows'[i] \in StoredRow
              /\ written' \subseteq RowId
        BY <1>3, CommitEffect
    <2>2. u.id \in RowId
        BY DEF Update
    <2>3. IsFiniteSet(DOMAIN rows')
        BY <2>1, FS_AddElement
    <2>4. /\ writing' \in [Writer -> {"shaping", "awaiting", "done"}]
          /\ pending' \in [Writer -> SUBSET Update]
          /\ UNCHANGED <<time, listing, counted>>
        BY <1>3 DEF CommitWrite, BrowsingTypeOK
    <2>5. DOMAIN rows' \subseteq RowId
        BY <2>1, <2>2 DEF BrowsingTypeOK
    <2> QED BY <2>1, <2>3, <2>4, <2>5 DEF BrowsingTypeOK
<1>4. CASE PassTime
    <2>1. time' \in 1..LastTime
        BY <1>4, BrowsingAssumption DEF PassTime, BrowsingTypeOK
    <2> QED BY <1>4, <2>1 DEF PassTime, BrowsingTypeOK
<1>5. ASSUME NEW l \in Listing, listing' = Turned(l),
             UNCHANGED <<rows, time, writing, pending, counted, written>>
      PROVE  BrowsingTypeOK' /\ IsFiniteSet(DOMAIN rows')
    BY <1>5, TurnedIsTyped DEF BrowsingTypeOK
<1>6. ASSUME NEW c \in Collection, NEW states \in SUBSET ActionState, ListRows(c, states)
      PROVE  BrowsingTypeOK' /\ IsFiniteSet(DOMAIN rows') /\ \E l \in Listing : Reads(l)
    <2> DEFINE l == Opened(c, states)
    <2>1. /\ l \in Listing /\ Sound(l) /\ l.twice = {} /\ l.listed = {}
          /\ l.first = Shown(l.collection, l.states)
        BY OpenedIsSound
    <2>2. listing' = Turned(l) /\ UNCHANGED <<rows, time, writing, pending, counted, written>>
        BY <1>6, Zenon DEF ListRows, Opened
    <2> HIDE DEF l
    <2>3. Reads(l)
        BY <2>1, <2>2 DEF Reads
    <2> QED BY <1>5, <2>1, <2>2, <2>3
<1>7. CASE TurnPage
    <2>1. Reads(listing)
        BY <1>7 DEF TurnPage, Reads, BrowsingTypeOK
    <2> QED BY <1>5, <1>7, <2>1 DEF TurnPage, BrowsingTypeOK
<1>8. ASSUME NEW c \in Collection, Summarize(c)
      PROVE  BrowsingTypeOK' /\ IsFiniteSet(DOMAIN rows')
    BY <1>8 DEF Summarize, BrowsingTypeOK
<1>9. /\ {"actions", "decisions", "policies"} \subseteq Collection
      /\ {DefaultStates, Final, ActionState} \subseteq SUBSET ActionState
    BY DEF Collection, DefaultStates, Final, ActionState
<1> QED BY <1>1, <1>2, <1>3, <1>4, <1>6, <1>7, <1>8, <1>9
        DEF BrowseNext, ListActions, ListDecisions, ListPolicies, PassTime, browsingVars

ListedAndCounted ==
    /\ listing.step # "closed" /\ written = {} =>
         LET shown == Shown(listing.collection, listing.states)
         IN listing.first = shown /\ listing.listed \subseteq shown
    /\ written = {} => \A c \in DOMAIN counted : counted[c] = Cardinality(Counted(c))

BrowsingInv ==
    /\ BrowsingTypeOK
    /\ IsFiniteSet(DOMAIN rows)
    /\ listing.twice \subseteq written
    /\ listing.step = "complete" => listing.first \subseteq listing.listed \cup written
    /\ listing.step = "open" => Sound(listing)
    /\ ListedAndCounted

\* Until something is written, a listing shows the table as it was at first, and so
\* does a count.  A write is noted from the first page or the first count on.
LEMMA CommitKeepsBrowsing ==
    ASSUME BrowsingInv, BrowsingTypeOK', IsFiniteSet(DOMAIN rows'),
           NEW w \in Writer, CommitWrite(w)
    PROVE  BrowsingInv'
<1>1. UNCHANGED <<listing, counted>>
    BY DEF CommitWrite
<1>2. CASE listing = NotOpened /\ DOMAIN counted = {}
    <2>1. listing.step = "closed" /\ listing.twice = {}
        BY <1>2 DEF NotOpened
    <2> QED BY <1>1, <1>2, <2>1 DEF BrowsingInv, ListedAndCounted
<1>3. CASE listing # NotOpened \/ DOMAIN counted # {}
    <2>1. PICK u \in Update :
              /\ DOMAIN rows' = DOMAIN rows \cup {u.id}
              /\ \A i \in DOMAIN rows \ ({u.id} \cup u.retired) : rows'[i] = rows[i]
              /\ written' = written \cup {u.id} \cup u.retired
        BY <1>3, CommitEffect DEF BrowsingInv
    <2>2. written \subseteq written' /\ written' # {}
        BY <2>1
    <2>3. ASSUME NEW i, i \notin written'
          PROVE  i \in Ahead(listing)' <=> i \in Ahead(listing)
        <3>1. /\ i \in DOMAIN rows' <=> i \in DOMAIN rows
              /\ i \in DOMAIN rows => rows'[i] = rows[i]
            BY <2>1, <2>3
        <3> QED BY <1>1, <3>1 DEF Ahead, Shown, RowKey
    <2>4. listing.step = "open" => Sound(listing)'
        BY <1>1, <2>2, <2>3 DEF BrowsingInv, Sound
    <2> QED BY <1>1, <2>2, <2>4 DEF BrowsingInv, ListedAndCounted
<1> QED BY <1>2, <1>3

LEMMA SummaryKeepsBrowsing ==
    ASSUME BrowsingInv, BrowsingTypeOK', IsFiniteSet(DOMAIN rows'),
           NEW c \in Collection, Summarize(c)
    PROVE  BrowsingInv'
<1>1. /\ UNCHANGED <<rows, listing, written>>
      /\ DOMAIN counted' = DOMAIN counted \cup {c}
      /\ counted'[c] = Cardinality(Counted(c))
      /\ \A d \in DOMAIN counted : counted'[d] = counted[d]
    BY DEF Summarize
<1>2. \A d : Counted(d)' = Counted(d)
    BY <1>1 DEF Counted
<1>3. ListedAndCounted'
    BY <1>1, <1>2 DEF BrowsingInv, ListedAndCounted, Shown
<1>4. Sound(listing)' <=> Sound(listing)
    BY <1>1 DEF Sound, Ahead, Shown, RowKey
<1> QED BY <1>1, <1>3, <1>4 DEF BrowsingInv

LEMMA ReadsKeepBrowsing ==
    ASSUME BrowsingInv, BrowsingTypeOK', IsFiniteSet(DOMAIN rows'),
           NEW l \in Listing, Reads(l)
    PROVE  BrowsingInv'
<1> DEFINE m == Turned(l)
<1>1. /\ m.twice \subseteq written
      /\ m.step = "complete" => m.first \subseteq m.listed \cup written
      /\ m.step = "open" => Sound(m)
    BY TurnedIsSound DEF Reads, BrowsingInv
<1>2. /\ m.collection = l.collection /\ m.states = l.states /\ m.first = l.first
      /\ m.listed = l.listed \cup NextPage(l)
    <2>1. /\ m = [step |-> m.step, collection |-> l.collection, states |-> l.states,
                  cursor |-> m.cursor, first |-> l.first, listed |-> m.listed, twice |-> m.twice]
          /\ m.listed = l.listed \cup NextPage(l)
        BY TurnedFields
    <2> HIDE DEF m
    <2> QED BY <2>1
<1>3. NextPage(l) \subseteq Shown(l.collection, l.states)
    BY DEF NextPage, Ahead
<1>4. listing' = m /\ UNCHANGED <<rows, written, counted>>
    BY DEF Reads
<1> HIDE DEF m
<1>5. Sound(listing)' <=> Sound(m)
    BY <1>4 DEF Sound, Ahead, Shown, RowKey
<1>6. ListedAndCounted'
    <2>1. \A d, states : Shown(d, states)' = Shown(d, states) /\ Counted(d)' = Counted(d)
        BY <1>4 DEF Shown, Counted
    <2>2. written = {} => /\ l.first = Shown(l.collection, l.states)
                          /\ l.listed \subseteq Shown(l.collection, l.states)
        BY DEF Reads, BrowsingInv, ListedAndCounted
    <2> QED BY <1>2, <1>3, <1>4, <2>1, <2>2 DEF BrowsingInv, ListedAndCounted
<1> QED BY <1>1, <1>4, <1>5, <1>6 DEF BrowsingInv

LEMMA BrowsingStepInv == BrowsingInv /\ [BrowseNext]_browsingVars => BrowsingInv'
<1> SUFFICES ASSUME BrowsingInv, [BrowseNext]_browsingVars PROVE BrowsingInv'
    OBVIOUS
<1>1. /\ BrowsingTypeOK' /\ IsFiniteSet(DOMAIN rows')
      /\ \/ UNCHANGED <<rows, listing, counted, written>>
         \/ \E w \in Writer : CommitWrite(w)
         \/ \E c \in Collection : Summarize(c)
         \/ \E l \in Listing : Reads(l)
    BY TypedStep DEF BrowsingInv
<1>2. CASE UNCHANGED <<rows, listing, counted, written>>
    <2>1. Sound(listing)' <=> Sound(listing)
        BY <1>2 DEF Sound, Ahead, Shown, RowKey
    <2>2. ListedAndCounted'
        BY <1>2 DEF BrowsingInv, ListedAndCounted, Shown, Counted
    <2> QED BY <1>1, <1>2, <2>1, <2>2 DEF BrowsingInv
<1> QED BY <1>1, <1>2, CommitKeepsBrowsing, SummaryKeepsBrowsing, ReadsKeepBrowsing

\* A caller browses while runs write.
BrowseSpec == MemoryBrowsingInit /\ [][BrowseNext]_browsingVars

LEMMA BrowsingCorrect == BrowseSpec => []BrowsingInv
<1>1. MemoryBrowsingInit => BrowsingInv
    <2> SUFFICES ASSUME MemoryBrowsingInit PROVE BrowsingInv
        OBVIOUS
    <2>1. listing.step = "closed" /\ listing.twice = {} /\ DOMAIN counted = {}
        BY DEF MemoryBrowsingInit, NotOpened
    <2> QED BY <2>1, BrowsingInitTyped DEF BrowsingInv, ListedAndCounted
<1> QED BY <1>1, BrowsingStepInv, PTL DEF BrowseSpec

\* However many runs write between the pages, with whatever stamps and for any size of
\* a page, a row that was not written meanwhile is listed once (list_actions,
\* list_active_decisions, list_policies).
THEOREM UntouchedRowsAreAlwaysListedOnce == BrowseSpec => []UntouchedRowsAreListedOnce
<1>1. BrowsingInv => UntouchedRowsAreListedOnce
    BY DEF BrowsingInv, UntouchedRowsAreListedOnce
<1> QED BY <1>1, BrowsingCorrect, PTL

\* As long as nothing is written, a listing that was read to its last page is as long
\* as the summary says.
THEOREM SummaryAlwaysCountsTheListing == BrowseSpec => []SummaryCountsTheListing
<1>1. BrowsingInv => SummaryCountsTheListing
    <2> SUFFICES ASSUME BrowsingInv, listing.step = "complete",
                        listing.states = DefaultStates,
                        listing.collection \in DOMAIN counted, written = {}
                 PROVE  counted[listing.collection] = Cardinality(listing.listed)
        BY DEF SummaryCountsTheListing
    <2>1. listing.listed = Shown(listing.collection, DefaultStates)
        BY DEF BrowsingInv, ListedAndCounted
    <2>2. Counted(listing.collection) = Shown(listing.collection, DefaultStates)
        BY DEF Counted, Shown
    <2> QED BY <2>1, <2>2 DEF BrowsingInv, ListedAndCounted
<1> QED BY <1>1, BrowsingCorrect, PTL

\* The scenarios of the model-checking module browse as BrowseSpec does.
LEMMA ScenariosBrowse == MCSpec => BrowseSpec
<1>1. [MCNext]_mcvars => [BrowseNext]_browsingVars
    BY DEF MCNext, RunStep, BrowsingStep, mcvars
<1>2. MCInit => MemoryBrowsingInit
    BY DEF MCInit
<1> QED BY <1>1, <1>2, PTL DEF MCSpec, BrowseSpec
=============================================================================
