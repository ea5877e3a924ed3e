---------------------- MODULE SupersessionMemory_proofs ----------------------
(***************************************************************************)
(* Type correctness of SupersessionMemory, NothingIsDropped and            *)
(* ScopesStaySeparate, for any number of runs, rows, scopes and            *)
(* candidates, and VersionsAreLinear for runs that do not overlap.  The    *)
(* invariant adds that pending writes have identifiers of their own that   *)
(* no row uses: it is what makes every write a replacement in the sense of *)
(* VersionChain.                                                           *)
(***************************************************************************)
EXTENDS MCSupersessionMemory, VersionChain_proofs

IInv == TypeOK /\ PendingIsFresh /\ NothingIsDropped

LEMMA InitInv == Init => IInv
<1> SUFFICES ASSUME Init PROVE IInv
  OBVIOUS
<1> USE DEF Init
<1>1. DOMAIN Seed \subseteq RecordId
  BY SeedAssumption
<1>2. /\ table \in Table
      /\ EveryVersionLeadsToActive(table)
      /\ Rows(table) = DOMAIN Seed
  BY <1>1, FreshLeadsToActive
<1>3. TypeOK
  <2>1. owner \in [RecordId -> Scope \cup {None}]
    BY SeedAssumption
  <2>2. ASSUME NEW a \in RecordId PROVE table[a] = None <=> owner[a] = None
    BY <1>2, <2>2, SeedAssumption, SharedAssumption DEF Rows
  <2>3. remaining \in [Run -> 0..BatchSize]
    BY BatchAssumption
  <2> QED  BY <1>2, <2>1, <2>2, <2>3 DEF TypeOK, Table
<1>4. PendingIsFresh
  BY DEF PendingIsFresh
<1> QED  BY <1>2, <1>3, <1>4 DEF IInv, NothingIsDropped

\* What NextCandidate preserves when the table keeps every row it has.
LEMMA NextCandidateInv ==
    ASSUME IInv, NEW r \in Run, remaining[r] > 0, NextCandidate(r),
           table' \in Table, EveryVersionLeadsToActive(table'),
           owner' \in [RecordId -> Scope \cup {None}],
           \A a \in RecordId : table'[a] = None <=> owner'[a] = None,
           \A s \in Run \ {r} : decision[s] # None => table'[decision[s].id] = None
    PROVE  IInv'
<1> USE DEF NextCandidate, IInv, TypeOK
<1>1. remaining' \in [Run -> 0..BatchSize]
  BY BatchAssumption
<1>2. /\ phase' \in [Run -> {"lookup", "resolve", "write"}]
      /\ snapshot' \in [Run -> SUBSET RecordId]
      /\ decision' \in [Run -> Pending \cup {None}]
  OBVIOUS
<1>3. ASSUME NEW s \in Run
      PROVE  /\ phase'[s] = "write" <=> decision'[s] # None
             /\ phase'[s] # "lookup" => remaining'[s] > 0
  OBVIOUS
<1>4. PendingIsFresh'
  BY DEF PendingIsFresh
<1> QED  BY <1>1, <1>2, <1>3, <1>4 DEF Table, NothingIsDropped

LEMMA DecideInv ==
    ASSUME IInv, NEW r \in Run, NEW old \in RecordId \cup {None},
           phase[r] = "resolve", Decide(r, old)
    PROVE  IInv'
<1> USE DEF IInv, TypeOK
<1>1. PICK a \in FreshIds :
        decision' = [decision EXCEPT ![r] = [id |-> a, supersedes |-> old]]
  BY DEF Decide
<1>2. a \in RecordId /\ table[a] = None
        /\ \A s \in Run : decision[s] = None \/ decision[s].id # a
  BY DEF FreshIds, Rows
<1>3. /\ phase' = [phase EXCEPT ![r] = "write"]
      /\ UNCHANGED <<table, owner, remaining, snapshot>>
  BY DEF Decide
<1>4. [id |-> a, supersedes |-> old] \in Pending
  BY <1>2 DEF Pending
<1>5. TypeOK'
  <2>1. decision' \in [Run -> Pending \cup {None}]
    BY <1>1, <1>4
  <2>2. phase' \in [Run -> {"lookup", "resolve", "write"}]
    BY <1>3
  <2>3. ASSUME NEW s \in Run
        PROVE  /\ phase'[s] = "write" <=> decision'[s] # None
               /\ phase'[s] # "lookup" => remaining'[s] > 0
    BY <1>1, <1>3, <1>4, PendingAssumption
  <2> QED  BY <1>3, <2>1, <2>2, <2>3
<1>6. PendingIsFresh'
  BY <1>1, <1>2, <1>3 DEF PendingIsFresh
<1>7. NothingIsDropped'
  BY <1>3 DEF NothingIsDropped
<1> QED  BY <1>5, <1>6, <1>7

\* The write of a run is a replacement of its pending row.
LEMMA WriteInv ==
    ASSUME IInv, NEW r \in Run, Write(r)
    PROVE  IInv'
<1> DEFINE id == decision[r].id
           old == decision[r].supersedes
           gone == RowsRetired(r)
<1>1. /\ id \in RecordId \ Rows(table)
      /\ old \in RecordId \cup {None}
      /\ gone \in SUBSET Rows(table)
      /\ table \in Table
      /\ remaining[r] > 0
      /\ decision[r] # None
  <2>1. decision[r] # None /\ decision[r] \in Pending /\ remaining[r] > 0
    BY DEF Write, IInv, TypeOK
  <2>2. table[id] = None
    BY <2>1 DEF IInv, PendingIsFresh
  <2> QED  BY <2>1, <2>2 DEF Pending, Rows, RowsRetired, IInv, TypeOK, Table
<1>2. table' = Replaced(table, id, old, gone)
  BY DEF Write, TableAfter
<1>3. table' \in Table /\ Rows(table') = Rows(table) \cup {id}
  BY <1>1, <1>2, ReplacedType
<1>4. EveryVersionLeadsToActive(table')
  BY <1>1, <1>2, ReplacedLeadsToActive DEF IInv, NothingIsDropped
<1>5. owner' = [owner EXCEPT ![id] = ScopeOf[r]] /\ ScopeOf[r] \in Scope
  BY ScopeOfAssumption DEF Write
<1>6. owner' \in [RecordId -> Scope \cup {None}]
  BY <1>5 DEF IInv, TypeOK
<1>7. ASSUME NEW a \in RecordId
      PROVE  table'[a] = None <=> owner'[a] = None
  BY <1>1, <1>3, <1>5, SharedAssumption DEF IInv, TypeOK, Rows
<1>8. ASSUME NEW s \in Run \ {r}, decision[s] # None
      PROVE  table'[decision[s].id] = None
  <2>1. decision[s].id \in RecordId /\ decision[s].id # id /\ table[decision[s].id] = None
    BY <1>1, <1>8 DEF IInv, TypeOK, Pending, PendingIsFresh
  <2> QED  BY <2>1, <1>3 DEF Rows
<1>9. NextCandidate(r)
  BY DEF Write
<1> QED  BY <1>1, <1>3, <1>4, <1>6, <1>7, <1>8, <1>9, NextCandidateInv

\* A candidate that ends without a write changes no row.
LEMMA NoWriteInv ==
    ASSUME IInv, NEW r \in Run, remaining[r] > 0, NextCandidate(r),
           UNCHANGED <<table, owner>>
    PROVE  IInv'
<1>1. table' \in Table /\ EveryVersionLeadsToActive(table')
  BY DEF IInv, TypeOK, NothingIsDropped, Table
<1>2. /\ owner' \in [RecordId -> Scope \cup {None}]
      /\ \A a \in RecordId : table'[a] = None <=> owner'[a] = None
  BY DEF IInv, TypeOK
<1>3. \A s \in Run \ {r} : decision[s] # None => table'[decision[s].id] = None
  BY DEF IInv, PendingIsFresh
<1> QED  BY <1>1, <1>2, <1>3, NextCandidateInv

LEMMA LookupInv ==
    ASSUME IInv, NEW r \in Run, Lookup(r)
    PROVE  IInv'
<1> USE DEF Lookup, IInv, TypeOK
<1>1. Listed(r) \in SUBSET RecordId
  BY DEF Listed, ActiveIn, Rows
<1>2. TypeOK'
  BY <1>1
<1>3. PendingIsFresh' /\ NothingIsDropped'
  BY DEF PendingIsFresh, NothingIsDropped
<1> QED  BY <1>2, <1>3

LEMMA NextInv == IInv /\ [Next]_vars => IInv'
<1> SUFFICES ASSUME IInv, [Next]_vars PROVE IInv'
  OBVIOUS
<1>1. ASSUME NEW r \in Run, Lookup(r) PROVE IInv'
  BY <1>1, LookupInv
<1>2. ASSUME NEW r \in Run, ResolveToCreate(r) PROVE IInv'
  BY <1>2, DecideInv DEF ResolveToCreate
<1>3. ASSUME NEW r \in Run, ResolveToSupersede(r) PROVE IInv'
  <2>1. PICK a \in Eligible(r) : Decide(r, a)
    BY <1>3 DEF ResolveToSupersede
  <2>2. a \in RecordId
    BY DEF Eligible, IInv, TypeOK
  <2> QED  BY <1>3, <2>1, <2>2, DecideInv DEF ResolveToSupersede
<1>4. ASSUME NEW r \in Run, ResolveToNoWrite(r) PROVE IInv'
  <2>1. remaining[r] > 0
    BY <1>4 DEF ResolveToNoWrite, IInv, TypeOK
  <2> QED  BY <1>4, <2>1, NoWriteInv DEF ResolveToNoWrite
<1>5. ASSUME NEW r \in Run, Write(r) PROVE IInv'
  BY <1>5, WriteInv
<1>6. ASSUME NEW r \in Run, CandidateFails(r) PROVE IInv'
  BY <1>6, NoWriteInv DEF CandidateFails
<1>7. CASE UNCHANGED vars
  BY <1>7 DEF vars, IInv, TypeOK, PendingIsFresh, NothingIsDropped
<1> QED  BY <1>1, <1>2, <1>3, <1>4, <1>5, <1>6, <1>7 DEF Next, Step

\* Every reachable state is well typed, for all values of the constants.
THEOREM TypeCorrect == Spec => []TypeOK
<1>1. IInv => TypeOK
  BY DEF IInv
<1> QED  BY InitInv, NextInv, <1>1, PTL DEF Spec

\* Knowledge is replaced and never dropped, however many runs of whatever scopes
\* overlap: the links of a superseded row lead to an active one.
THEOREM NothingDropped == Spec => []NothingIsDropped
<1>1. IInv => NothingIsDropped
  BY DEF IInv
<1> QED  BY InitInv, NextInv, <1>1, PTL DEF Spec

-----------------------------------------------------------------------------
(* Scopes. *)

\* What a run has read exists, and what it is about to replace is of its own scope.
\* A row stays and keeps its scope, so neither becomes false while the run waits.
ReadsAndWritesInScope ==
    \A r \in Run :
        /\ snapshot[r] \subseteq Rows(table)
        /\ decision[r] # None /\ decision[r].supersedes # None =>
             decision[r].supersedes \in Rows(table)
               /\ owner[decision[r].supersedes] = ScopeOf[r]

ScopeInv == IInv /\ ReadsAndWritesInScope /\ BackLinksExist(table) /\ ScopesStaySeparate

\* What one write does to the table and the owners.
LEMMA WriteEffect ==
    ASSUME ScopeInv, NEW r \in Run, Write(r)
    PROVE  LET new == decision[r].id
               old == decision[r].supersedes
               gone == {old} \cap Rows(table)
           IN  /\ decision[r] # None
               /\ new \in RecordId \ Rows(table) /\ old \in Rows(table) \cup {None}
               /\ old # None => owner[old] = ScopeOf[r]
               /\ table' = Replaced(table, new, old, gone)
               /\ table' \in Table /\ Rows(table') = Rows(table) \cup {new}
               /\ owner' = [owner EXCEPT ![new] = ScopeOf[r]]
<1> DEFINE new == decision[r].id
           old == decision[r].supersedes
           gone == {old} \cap Rows(table)
<1>1. decision[r] # None /\ decision[r] \in Pending /\ table \in Table
  BY DEF Write, ScopeInv, IInv, TypeOK, Table
<1>2. new \in RecordId \ Rows(table) /\ old \in RecordId \cup {None}
  BY <1>1 DEF ScopeInv, IInv, PendingIsFresh, Rows, Pending
<1>3. /\ old \in Rows(table) \cup {None}
      /\ old # None => owner[old] = ScopeOf[r]
  BY <1>1 DEF ScopeInv, ReadsAndWritesInScope
<1>4. None \notin Rows(table)
  BY NoneAssumption DEF Rows
<1>5. RowsRetired(r) = gone
  BY <1>3, <1>4 DEF RowsRetired
<1>6. table' = Replaced(table, new, old, gone) /\ owner' = [owner EXCEPT ![new] = ScopeOf[r]]
  BY <1>5 DEF Write, TableAfter
<1>7. table' \in Table /\ Rows(table') = Rows(table) \cup {new}
  BY <1>1, <1>2, <1>6, ReplacedType
<1> QED  BY <1>1, <1>2, <1>3, <1>6, <1>7

LEMMA WriteSeparate ==
    ASSUME ScopeInv, NEW r \in Run, Write(r)
    PROVE  ScopesStaySeparate' /\ BackLinksExist(table')
<1> DEFINE new == decision[r].id
           old == decision[r].supersedes
           gone == {old} \cap Rows(table)
<1>1. /\ new \in RecordId \ Rows(table) /\ old \in Rows(table) \cup {None}
      /\ old # None => owner[old] = ScopeOf[r]
      /\ table' = Replaced(table, new, old, gone)
      /\ Rows(table') = Rows(table) \cup {new} /\ table \in Table
      /\ owner' = [owner EXCEPT ![new] = ScopeOf[r]] /\ owner \in [RecordId -> Scope \cup {None}]
  BY WriteEffect DEF ScopeInv, IInv, TypeOK, Table
<1>2. BackLinksExist(table')
  BY <1>1, ReplacedBackLinks DEF ScopeInv
<1>3. /\ table'[new].supersedes = old /\ table'[new].supersededBy = None
      /\ owner'[new] = ScopeOf[r]
  BY <1>1 DEF Replaced, NewVersion
<1>4. ASSUME NEW a \in Rows(table)
      PROVE  /\ a # None /\ a # new /\ owner'[a] = owner[a]
             /\ table'[a].supersedes = table[a].supersedes
             /\ table'[a].supersededBy = IF a = old THEN new ELSE table[a].supersededBy
  <2>1. a \in RecordId /\ a # new /\ table[a] \in VersionRow
    BY <1>1 DEF Rows, Table
  <2>2. table'[a] = IF a = old THEN Retired(table[a], new) ELSE table[a]
    BY <1>1, <2>1 DEF Replaced
  <2> QED  BY <1>1, <2>1, <2>2, NoneAssumption DEF Retired, VersionRow
<1>5. None \notin Rows(table) /\ new # None
  BY <1>1, NoneAssumption DEF Rows
<1>6. ASSUME NEW b \in Rows(table)
      PROVE  /\ table[b].supersedes \in Rows(table) \cup {None}
             /\ table[b].supersededBy \in Rows(table) \cup {None}
  BY <1>6 DEF ScopeInv, BackLinksExist, IInv, NothingIsDropped, EveryVersionLeadsToActive,
              ForwardLinks
<1> HIDE DEF new, old
<1>7. ASSUME NEW a \in Rows(table'), NEW b \in Rows(table'),
             table'[b].supersedes = a \/ table'[a].supersededBy = b
      PROVE  owner'[a] = owner'[b]
  <2>1. CASE a \in Rows(table) /\ b \in Rows(table)
    <3>1. CASE table[b].supersedes = a \/ table[a].supersededBy = b
      <4>1. owner[a] = owner[b]
        BY <2>1, <3>1 DEF ScopeInv, ScopesStaySeparate
      <4> QED  BY <1>4, <2>1, <4>1
    <3>2. CASE ~(table[b].supersedes = a \/ table[a].supersededBy = b)
      BY <1>4, <1>7, <2>1, <3>2
    <3> QED  BY <3>1, <3>2
  <2>2. CASE a \in Rows(table) /\ b = new
    <3>1. CASE table'[new].supersedes = a
      <4>1. a = old /\ old # None
        BY <1>3, <1>5, <2>2, <3>1
      <4> QED  BY <1>1, <1>3, <1>4, <2>2, <4>1
    <3>2. CASE table'[a].supersededBy = new
      <4>1. a = old
        BY <1>1, <1>4, <1>5, <1>6, <2>2, <3>2
      <4> QED  BY <1>1, <1>3, <1>4, <2>2, <4>1
    <3> QED  BY <1>7, <2>2, <3>1, <3>2
  <2>3. CASE a = new
    BY <1>1, <1>3, <1>4, <1>5, <1>6, <1>7, <2>3
  <2> QED  BY <1>1, <2>1, <2>2, <2>3
<1>8. ScopesStaySeparate'
  BY <1>7 DEF ScopesStaySeparate
<1> QED  BY <1>2, <1>8

LEMMA ScopeInit == Init => ScopeInv
<1> SUFFICES ASSUME Init PROVE ScopeInv
  OBVIOUS
<1>1. IInv
  BY InitInv
<1>2. \A a \in Rows(table) : table[a].supersedes = None /\ table[a].supersededBy = None
  BY DEF Init, Rows, NewVersion
<1>3. None \notin Rows(table)
  BY NoneAssumption DEF Rows
<1>4. BackLinksExist(table) /\ ScopesStaySeparate
  BY <1>2, <1>3 DEF BackLinksExist, ScopesStaySeparate
<1>5. ReadsAndWritesInScope
  BY DEF Init, ReadsAndWritesInScope
<1> QED  BY <1>1, <1>4, <1>5 DEF ScopeInv

LEMMA ReadsStep ==
    ASSUME ScopeInv, NEW r \in Run, Step(r)
    PROVE  ReadsAndWritesInScope'
<1> USE DEF ScopeInv, IInv, TypeOK
<1>1. /\ Rows(table) \subseteq Rows(table')
      /\ \A a \in Rows(table) : owner'[a] = owner[a]
  <2>1. CASE Write(r)
    <3> DEFINE new == decision[r].id
    <3>1. /\ new \notin Rows(table) /\ Rows(table') = Rows(table) \cup {new}
          /\ owner' = [owner EXCEPT ![new] = ScopeOf[r]]
      <4> HIDE DEF ScopeInv, IInv, TypeOK
      <4> QED  BY <2>1, WriteEffect
    <3> HIDE DEF new
    <3>2. \A a \in Rows(table) : a \in RecordId /\ a # new
      BY <3>1 DEF Rows
    <3> QED  BY <3>1, <3>2
  <2>2. CASE ~Write(r)
    <3>1. table' = table /\ owner' = owner
      BY <2>2 DEF Step, Lookup, ResolveToCreate, ResolveToSupersede, Decide,
                  ResolveToNoWrite, CandidateFails
    <3> QED  BY <3>1 DEF Rows
  <2> QED  BY <2>1, <2>2
<1>2. \A s \in Run \ {r} : snapshot'[s] = snapshot[s] /\ decision'[s] = decision[s]
  BY DEF Step, Lookup, ResolveToCreate, ResolveToSupersede, Decide,
         ResolveToNoWrite, Write, CandidateFails, NextCandidate
<1>3. ASSUME NEW s \in Run \ {r}
      PROVE  /\ snapshot'[s] \subseteq Rows(table')
             /\ decision'[s] # None /\ decision'[s].supersedes # None =>
                  decision'[s].supersedes \in Rows(table')
                    /\ owner'[decision'[s].supersedes] = ScopeOf[s]
  BY <1>1, <1>2 DEF ReadsAndWritesInScope
<1>4. snapshot'[r] \subseteq Rows(table')
  <2>1. CASE Lookup(r)
    <3>1. snapshot'[r] = Listed(r)
      BY <2>1 DEF Lookup
    <3> QED  BY <1>1, <3>1 DEF Listed, ActiveIn
  <2>2. CASE ~Lookup(r)
    <3>1. snapshot'[r] \in {snapshot[r], {}}
      BY <2>2 DEF Step, ResolveToCreate, ResolveToSupersede, Decide,
                  ResolveToNoWrite, Write, CandidateFails, NextCandidate
    <3> QED  BY <1>1, <3>1 DEF ReadsAndWritesInScope
  <2> QED  BY <2>1, <2>2
<1>5. ASSUME decision'[r] # None, decision'[r].supersedes # None
      PROVE  /\ decision'[r].supersedes \in Rows(table')
             /\ owner'[decision'[r].supersedes] = ScopeOf[r]
  <2>1. ASSUME NEW old, Decide(r, old) PROVE decision'[r].supersedes = old
    BY <2>1 DEF Decide
  <2>2. CASE ResolveToCreate(r)
    BY <1>5, <2>1, <2>2 DEF ResolveToCreate
  <2>3. CASE ResolveToSupersede(r)
    <3>1. PICK a \in Eligible(r) : Decide(r, a)
      BY <2>3 DEF ResolveToSupersede
    <3>2. a \in Rows(table) /\ owner[a] = ScopeOf[r]
      BY DEF Eligible, ReadsAndWritesInScope
    <3>3. decision'[r].supersedes = a
      BY <2>1, <3>1
    <3> QED  BY <1>1, <3>2, <3>3
  <2>4. CASE NextCandidate(r)
    BY <1>5, <2>4 DEF NextCandidate
  <2>5. CASE Lookup(r)
    BY <1>1, <1>5, <2>5 DEF Lookup, ReadsAndWritesInScope
  <2> QED  BY <2>2, <2>3, <2>4, <2>5 DEF Step, ResolveToNoWrite, Write, CandidateFails
<1> QED  BY <1>3, <1>4, <1>5 DEF ReadsAndWritesInScope

LEMMA ScopeStep == ScopeInv /\ [Next]_vars => ScopeInv'
<1> SUFFICES ASSUME ScopeInv, [Next]_vars PROVE ScopeInv'
  OBVIOUS
<1>1. IInv'
  BY NextInv DEF ScopeInv
<1>2. ASSUME NEW r \in Run, Step(r) PROVE ScopeInv'
  <2>1. ReadsAndWritesInScope'
    BY <1>2, ReadsStep
  <2>2. CASE Write(r)
    BY <1>1, <2>1, <2>2, WriteSeparate DEF ScopeInv
  <2>3. CASE ~Write(r)
    <3>1. table' = table /\ owner' = owner
      BY <1>2, <2>3 DEF Step, Lookup, ResolveToCreate, ResolveToSupersede, Decide,
                        ResolveToNoWrite, CandidateFails
    <3> QED  BY <1>1, <2>1, <3>1 DEF ScopeInv, ScopesStaySeparate
  <2> QED  BY <2>2, <2>3
<1>3. CASE UNCHANGED vars
  BY <1>1, <1>3 DEF vars, ScopeInv, ScopesStaySeparate, ReadsAndWritesInScope
<1> QED  BY <1>2, <1>3 DEF Next

LEMMA ScopeCorrect == Spec => []ScopeInv
BY ScopeInit, ScopeStep, PTL DEF Spec

\* Links never cross scopes: a run that reads the rules of the user or the system
\* replaces none of them, whatever else runs.
THEOREM ScopesSeparate == Spec => []ScopesStaySeparate
<1>1. ScopeInv => ScopesStaySeparate
  BY DEF ScopeInv
<1> QED  BY <1>1, ScopeCorrect, PTL

-----------------------------------------------------------------------------
(* One run at a time: versions form lines.                                  *)

SerialNext == \E r \in Run : Step(r) /\ Alone(r)

SerialSpec == Init /\ [][SerialNext]_vars

\* Nobody else wrote since the lookup: what a run read, and what it is about to
\* replace, is still active.
ReadIsCurrent ==
    \A r \in Run :
        /\ phase[r] = "resolve" => snapshot[r] \subseteq ActiveIn(table)
        /\ decision[r] # None /\ decision[r].supersedes # None =>
             decision[r].supersedes \in ActiveIn(table)

LineInv == ScopeInv /\ ReadIsCurrent /\ VersionsAreLinear

LEMMA LineInit == Init => LineInv
<1> SUFFICES ASSUME Init PROVE LineInv
  OBVIOUS
<1>1. ScopeInv
  BY ScopeInit
<1>2. ReadIsCurrent
  BY DEF Init, ReadIsCurrent
<1>3. \A a \in Rows(table) : table[a].supersedes = None /\ table[a].supersededBy = None
  BY DEF Init, Rows, NewVersion
<1>4. None \notin Rows(table)
  BY NoneAssumption DEF Rows
<1>5. VersionsAreLinear
  BY <1>3, <1>4 DEF VersionsAreLinear, LinksAgree
<1> QED  BY <1>1, <1>2, <1>5 DEF LineInv

\* Of the other runs, which wait for their next lookup, nothing changes.
LEMMA OthersWait ==
    ASSUME LineInv, NEW r \in Run, Step(r), Alone(r), NEW s \in Run \ {r}
    PROVE  phase'[s] = "lookup" /\ decision'[s] = None
<1>1. phase[s] = "lookup" /\ decision[s] = None
  BY DEF LineInv, ScopeInv, IInv, TypeOK, Alone
<1>2. phase'[s] = phase[s] /\ decision'[s] = decision[s]
  BY DEF LineInv, ScopeInv, IInv, TypeOK, Step, Lookup, ResolveToCreate, ResolveToSupersede,
         Decide, ResolveToNoWrite, Write, CandidateFails, NextCandidate
<1> QED  BY <1>1, <1>2

LEMMA CurrentStep ==
    ASSUME LineInv, NEW r \in Run, Step(r), Alone(r)
    PROVE  ReadIsCurrent'
<1> USE DEF LineInv, ScopeInv, IInv, TypeOK
<1>1. ASSUME phase'[r] = "resolve"
      PROVE  snapshot'[r] \subseteq ActiveIn(table')
  <2>1. Lookup(r)
    BY <1>1 DEF Step, ResolveToCreate, ResolveToSupersede, Decide,
                ResolveToNoWrite, Write, CandidateFails, NextCandidate
  <2>2. snapshot'[r] = Listed(r) /\ table' = table
    BY <2>1 DEF Lookup
  <2> QED  BY <2>2 DEF Listed
<1>2. ASSUME decision'[r] # None, decision'[r].supersedes # None
      PROVE  decision'[r].supersedes \in ActiveIn(table')
  <2>1. ASSUME NEW old, Decide(r, old)
        PROVE  decision'[r].supersedes = old /\ table' = table
    BY <2>1 DEF Decide
  <2>2. CASE ResolveToCreate(r)
    BY <1>2, <2>1, <2>2 DEF ResolveToCreate
  <2>3. CASE ResolveToSupersede(r)
    <3>1. PICK a \in Eligible(r) : Decide(r, a)
      BY <2>3 DEF ResolveToSupersede
    <3>2. a \in ActiveIn(table)
      BY <2>3 DEF Eligible, ReadIsCurrent, ResolveToSupersede
    <3> QED  BY <2>1, <3>1, <3>2
  <2>4. CASE NextCandidate(r)
    BY <1>2, <2>4 DEF NextCandidate
  <2>5. CASE Lookup(r)
    BY <1>2, <2>5 DEF Lookup
  <2> QED  BY <2>2, <2>3, <2>4, <2>5 DEF Step, ResolveToNoWrite, Write, CandidateFails
<1>3. ASSUME NEW s \in Run \ {r}
      PROVE  phase'[s] = "lookup" /\ decision'[s] = None
  <2> HIDE DEF LineInv, ScopeInv, IInv, TypeOK
  <2> QED  BY OthersWait
<1> QED  BY <1>1, <1>2, <1>3 DEF ReadIsCurrent

LEMMA LineStep == LineInv /\ [SerialNext]_vars => LineInv'
<1> SUFFICES ASSUME LineInv, [SerialNext]_vars PROVE LineInv'
  OBVIOUS
<1>1. ScopeInv'
  BY ScopeStep DEF LineInv, SerialNext, Next
<1>2. ASSUME NEW r \in Run, Step(r), Alone(r) PROVE LineInv'
  <2>1. ReadIsCurrent'
    BY <1>2, CurrentStep
  <2>2. CASE Write(r)
    <3> DEFINE new == decision[r].id
               old == decision[r].supersedes
    <3>1. /\ new \in RecordId \ Rows(table) /\ decision[r] # None
          /\ table' = Replaced(table, new, old, {old} \cap Rows(table))
      BY <2>2, WriteEffect DEF LineInv
    <3>2. old \in ActiveIn(table) \cup {None}
      BY <3>1 DEF LineInv, ReadIsCurrent
    <3>3. /\ table \in Table /\ ForwardLinks(table) /\ BackLinksExist(table)
          /\ LinksAgree(table)
      BY DEF LineInv, ScopeInv, IInv, TypeOK, Table, NothingIsDropped,
             EveryVersionLeadsToActive, VersionsAreLinear
    <3> HIDE DEF new, old
    <3>4. LinksAgree(table')
      BY <3>1, <3>2, <3>3, ReplacedLinksAgree
    <3> QED  BY <1>1, <2>1, <3>4 DEF LineInv, VersionsAreLinear
  <2>3. CASE ~Write(r)
    <3>1. table' = table
      BY <1>2, <2>3 DEF Step, Lookup, ResolveToCreate, ResolveToSupersede, Decide,
                        ResolveToNoWrite, CandidateFails
    <3> QED  BY <1>1, <2>1, <3>1 DEF LineInv, VersionsAreLinear
  <2> QED  BY <2>2, <2>3
<1>3. CASE UNCHANGED vars
  BY <1>1, <1>3 DEF vars, LineInv, ReadIsCurrent, VersionsAreLinear
<1> QED  BY <1>2, <1>3 DEF SerialNext

\* Runs that do not overlap leave versions in lines: the row a new version names
\* names it back, however often candidates fail in between.
THEOREM SerialVersionsLinear == SerialSpec => []VersionsAreLinear
<1>1. LineInv => VersionsAreLinear
  BY DEF LineInv
<1> QED  BY <1>1, LineInit, LineStep, PTL DEF SerialSpec

\* Among all scenarios of the model-checking module the serial ones keep their versions
\* in lines, for any scopes, rows and number of runs.
THEOREM SerialRunsAlwaysKeepLines == MCSpec => []SerialVersionsAreLinear
<1> DEFINE Lines == serial => LineInv
<1>1. MCInit => Lines
  BY LineInit DEF MCInit
<1>2. Lines /\ [MCNext]_<<vars, serial>> => Lines'
  <2> SUFFICES ASSUME Lines, [MCNext]_<<vars, serial>>, serial' PROVE LineInv'
    OBVIOUS
  <2>1. serial /\ LineInv
    BY DEF MCNext
  <2>2. [SerialNext]_vars
    BY <2>1 DEF MCNext, SerialNext
  <2> QED  BY <2>1, <2>2, LineStep
<1>3. Lines => SerialVersionsAreLinear
  BY DEF LineInv, SerialVersionsAreLinear
<1> QED  BY <1>1, <1>2, <1>3, PTL DEF MCSpec
=============================================================================
