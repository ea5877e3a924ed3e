------------------------ MODULE ProfileMemory_proofs ------------------------
(***************************************************************************)
(* A project keeps exactly one active profile and a history that leads to  *)
(* it, for any number of runs and candidates.  Neither UPDATE guarantees   *)
(* that alone: the first may find its row retired, the second takes a row  *)
(* whatever its status.  The argument is about the unique index: whoever   *)
(* passes it (CommitIsReady) has locked the active row and is the only     *)
(* transaction that can commit.                                            *)
(*                                                                         *)
(* When candidates do not overlap, a profile is also patched from the one  *)
(* it replaces: what was read stays active until the commit, which is what *)
(* ReadIsCurrent says.                                                     *)
(***************************************************************************)
EXTENDS MCProfileMemory, VersionChain_proofs, FiniteSetTheorems

OneActive == Rows(table) # {} => \E a \in RecordId : ActiveIn(table) = {a}

IInv == /\ TypeOK /\ NewIsFresh /\ ReadRowsExist /\ CommitIsReady
        /\ OneActive /\ HistoryLeadsToActive

LEMMA InitInv == Init => IInv
<1> SUFFICES ASSUME Init PROVE IInv
  OBVIOUS
<1> USE DEF Init
<1>0. PICK stored \in SUBSET Seed :
        table = [a \in RecordId |-> IF a \in stored THEN NewVersion(None) ELSE None]
  OBVIOUS
<1>1. /\ table \in Table
      /\ EveryVersionLeadsToActive(table)
      /\ Rows(table) = stored /\ ActiveIn(table) = stored
  BY <1>0, SeedAssumption, FreshLeadsToActive
<1>2. remaining \in [Run -> 0..BatchSize]
  BY BatchAssumption
<1>3. TypeOK
  BY <1>1, <1>2 DEF TypeOK, Table
<1>4. OneActive
  <2> SUFFICES ASSUME stored # {} PROVE \E a \in RecordId : stored = {a}
    BY <1>1 DEF OneActive
  <2>1. PICK a \in stored : TRUE
    OBVIOUS
  <2>2. stored = {a}
    BY <2>1, SeedAssumption
  <2> QED  BY <2>2, SeedAssumption
<1>5. NewIsFresh /\ ReadRowsExist /\ CommitIsReady
  BY DEF NewIsFresh, ReadRowsExist, CommitIsReady
<1> QED  BY <1>1, <1>3, <1>4, <1>5 DEF IInv, HistoryLeadsToActive

\* A candidate ends, after a commit or without one: the run holds nothing any more.
LEMMA NextCandidateInv ==
    ASSUME IInv, NEW r \in Run, remaining[r] > 0, NextCandidate(r),
           table' \in Table, Rows(table) \subseteq Rows(table'),
           EveryVersionLeadsToActive(table'), OneActive',
           \A s \in Run \ {r} :
               /\ new[s] # None => table'[new[s]] = None
               /\ phase[s] = "commit" => ActiveIn(table') = ActiveIn(table)
    PROVE  IInv'
<1>0. remaining' \in [Run -> 0..BatchSize]
  <2>1. remaining \in [Run -> 0..BatchSize]
    BY DEF IInv, TypeOK
  <2>2. remaining' = [remaining EXCEPT ![r] = remaining[r] - 1]
    BY DEF NextCandidate
  <2> QED  BY <2>1, <2>2, BatchAssumption
<1> USE DEF NextCandidate, IInv
<1>1. TypeOK'
  <2> USE DEF TypeOK
  <2>2. ASSUME NEW s \in Run
        PROVE  /\ retired'[s] \subseteq Rows(table')
               /\ new'[s] = None <=> phase'[s] \in {"lookup", "resolve"}
               /\ new'[s] = None => retired'[s] = {}
               /\ phase'[s] # "lookup" => remaining'[s] > 0
    <3>1. CASE s = r
      BY <3>1
    <3>2. CASE s # r
      <4>1. /\ phase'[s] = phase[s] /\ remaining'[s] = remaining[s]
            /\ new'[s] = new[s] /\ retired'[s] = retired[s]
        BY <3>2
      <4> QED  BY <4>1
    <3> QED  BY <3>1, <3>2
  <2>3. /\ phase' \in [Run -> {"lookup", "resolve", "retire active", "lock active",
                               "retire matched", "insert", "commit"}]
        /\ matched' \in [Run -> RecordId \cup {None}]
        /\ new' \in [Run -> RecordId \cup {None}]
        /\ seen' \in [Run -> RecordId \cup {None}]
        /\ retired' \in [Run -> SUBSET RecordId]
    OBVIOUS
  <2> QED  BY <1>0, <2>2, <2>3 DEF Table
<1> USE DEF TypeOK
<1>2. NewIsFresh'
  BY DEF NewIsFresh
<1>3. ReadRowsExist'
  BY DEF ReadRowsExist
<1>4. CommitIsReady'
  BY DEF CommitIsReady
<1> QED  BY <1>1, <1>2, <1>3, <1>4 DEF HistoryLeadsToActive

\* A candidate that ends without a commit leaves the table alone.
LEMMA NoWriteInv ==
    ASSUME IInv, NEW r \in Run, remaining[r] > 0, NextCandidate(r), UNCHANGED table
    PROVE  IInv'
<1>1. table' \in Table /\ EveryVersionLeadsToActive(table')
  BY DEF IInv, TypeOK, Table, HistoryLeadsToActive
<1>2. OneActive'
  BY DEF IInv, OneActive
<1>3. \A s \in Run \ {r} : new[s] # None => table'[new[s]] = None
  BY DEF IInv, NewIsFresh
<1> QED  BY <1>1, <1>2, <1>3, NextCandidateInv

\* A commit replaces the only active row, which it has retired, by its own.
LEMMA CommitInv ==
    ASSUME IInv, NEW r \in Run, Commit(r)
    PROVE  IInv'
<1>1. /\ new[r] # None /\ new[r] \in RecordId \ Rows(table)
      /\ matched[r] \in RecordId \cup {None}
      /\ retired[r] \in SUBSET Rows(table)
      /\ remaining[r] > 0
      /\ table \in Table
  BY DEF Commit, IInv, TypeOK, NewIsFresh, Rows, Table
<1>2. ActiveIn(table) \subseteq retired[r] /\ \A s \in Run \ {r} : phase[s] # "commit"
  BY DEF Commit, IInv, CommitIsReady
<1>3. table' = Replaced(table, new[r], matched[r], retired[r])
  BY DEF Commit, TableAfter
<1>4. /\ table' \in Table
      /\ Rows(table') = Rows(table) \cup {new[r]}
      /\ ActiveIn(table') = (ActiveIn(table) \ retired[r]) \cup {new[r]}
  <2> DEFINE n == new[r]
             o == matched[r]
             g == retired[r]
  <2>1. /\ n \in RecordId \ Rows(table) /\ o \in RecordId \cup {None}
        /\ g \in SUBSET Rows(table) /\ table \in Table
    BY <1>1
  <2>2. table' = Replaced(table, n, o, g)
    BY <1>3
  <2> HIDE DEF n, o, g
  <2>3. /\ Replaced(table, n, o, g) \in Table
        /\ Rows(Replaced(table, n, o, g)) = Rows(table) \cup {n}
        /\ ActiveIn(Replaced(table, n, o, g)) = (ActiveIn(table) \ g) \cup {n}
    BY <2>1, ReplacedType
  <2>4. /\ table' \in Table /\ Rows(table') = Rows(table) \cup {n}
        /\ ActiveIn(table') = (ActiveIn(table) \ g) \cup {n}
    BY <2>2, <2>3
  <2> QED  BY <2>4 DEF n, o, g
<1>5. EveryVersionLeadsToActive(table')
  BY <1>1, <1>3, ReplacedLeadsToActive DEF IInv, HistoryLeadsToActive
<1>6. OneActive'
  <2>1. ActiveIn(table') = {new[r]}
    BY <1>2, <1>4
  <2> QED  BY <1>1, <2>1 DEF OneActive
<1>7. ASSUME NEW s \in Run \ {r}, new[s] # None
      PROVE  table'[new[s]] = None
  <2>1. new[s] \in RecordId /\ new[s] # new[r] /\ table[new[s]] = None
    BY <1>1, <1>7 DEF IInv, TypeOK, NewIsFresh
  <2> QED  BY <2>1, <1>4 DEF Rows
<1>8. NextCandidate(r)
  BY DEF Commit
<1> QED  BY <1>1, <1>2, <1>4, <1>5, <1>6, <1>7, <1>8, NextCandidateInv

\* A step inside a transaction, or before it: run r goes on to phase p, and leaves
\* the table and every other run alone.
Inner(r, p, m, n, w, g) ==
    /\ phase[r] # "commit" /\ remaining[r] > 0
    /\ UNCHANGED <<table, remaining>>
    /\ p \in {"resolve", "retire active", "lock active", "retire matched", "insert", "commit"}
    /\ phase' = [phase EXCEPT ![r] = p]
    /\ m \in Rows(table) \cup {None} /\ matched' = [matched EXCEPT ![r] = m]
    /\ n \in RecordId \cup {None} /\ new' = [new EXCEPT ![r] = n]
    /\ w \in RecordId \cup {None} /\ seen' = [seen EXCEPT ![r] = w]
    /\ g \in SUBSET Rows(table) /\ retired' = [retired EXCEPT ![r] = g]
    /\ n = None <=> p = "resolve"
    /\ n = None => g = {}
    /\ n # None => table[n] = None /\ \A s \in Run \ {r} : new[s] # n
    /\ p = "retire matched" => m # None
    /\ p = "lock active" => w \in Rows(table)
    /\ p = "commit" =>
         ActiveIn(table) \subseteq g /\ \A s \in Run \ {r} : phase[s] # "commit"

LEMMA InnerInv ==
    ASSUME IInv, NEW r \in Run, NEW p, NEW m, NEW n, NEW w, NEW g,
           Inner(r, p, m, n, w, g)
    PROVE  IInv'
<1> USE DEF IInv, TypeOK, Inner
<1>1. /\ m \in RecordId \cup {None}
      /\ g \in SUBSET RecordId
  BY DEF Rows
<1>2. /\ phase' \in [Run -> {"lookup", "resolve", "retire active", "lock active",
                             "retire matched", "insert", "commit"}]
      /\ matched' \in [Run -> RecordId \cup {None}]
      /\ new' \in [Run -> RecordId \cup {None}]
      /\ seen' \in [Run -> RecordId \cup {None}]
      /\ retired' \in [Run -> SUBSET RecordId]
  BY <1>1
<1>3. ASSUME NEW s \in Run
      PROVE  /\ retired'[s] \subseteq Rows(table')
             /\ new'[s] = None <=> phase'[s] \in {"lookup", "resolve"}
             /\ new'[s] = None => retired'[s] = {}
             /\ phase'[s] # "lookup" => remaining'[s] > 0
  <2>1. CASE s = r
    BY <2>1
  <2>2. CASE s # r
    <3>1. phase'[s] = phase[s] /\ new'[s] = new[s] /\ retired'[s] = retired[s]
      BY <2>2
    <3> QED  BY <3>1
  <2> QED  BY <2>1, <2>2
<1>4. TypeOK'
  BY <1>2, <1>3
<1>5. NewIsFresh'
  BY DEF NewIsFresh
<1>6. ReadRowsExist'
  BY DEF ReadRowsExist
<1>7. CommitIsReady'
  BY DEF CommitIsReady
<1>8. OneActive' /\ HistoryLeadsToActive'
  BY DEF OneActive, HistoryLeadsToActive
<1> QED  BY <1>4, <1>5, <1>6, <1>7, <1>8

\* What a run that has begun a transaction brings to its next step.
LEMMA OpenTransaction ==
    ASSUME IInv, NEW r \in Run, phase[r] \notin {"lookup", "resolve"}
    PROVE  /\ remaining[r] > 0
           /\ matched[r] \in Rows(table) \cup {None}
           /\ new[r] \in RecordId /\ new[r] # None /\ table[new[r]] = None
           /\ \A s \in Run \ {r} : new[s] # new[r]
           /\ seen[r] \in RecordId \cup {None}
           /\ retired[r] \in SUBSET Rows(table)
  BY DEF IInv, TypeOK, NewIsFresh, ReadRowsExist

LEMMA LookupInv ==
    ASSUME IInv, NEW r \in Run, Lookup(r)
    PROVE  IInv'
<1>1. PICK a \in Rows(table) \cup {None} : matched' = [matched EXCEPT ![r] = a]
  BY DEF Lookup, ActiveIn
<1>2. Inner(r, "resolve", a, None, seen[r], {})
  BY <1>1 DEF Inner, Lookup, IInv, TypeOK
<1> QED  BY <1>2, InnerInv

LEMMA ResolveToWriteInv ==
    ASSUME IInv, NEW r \in Run, ResolveToWrite(r)
    PROVE  IInv'
<1>1. PICK a \in FreshIds : new' = [new EXCEPT ![r] = a]
  BY DEF ResolveToWrite
<1>2. a \in RecordId /\ a # None /\ table[a] = None /\ \A s \in Run : new[s] # a
  BY NoneAssumption DEF FreshIds, Rows
<1>3. Inner(r, "retire active", matched[r], a, seen[r], {})
  BY <1>1, <1>2 DEF Inner, ResolveToWrite, IInv, TypeOK, ReadRowsExist
<1> QED  BY <1>3, InnerInv

LEMMA AfterFirstUpdateType ==
    ASSUME NEW r \in Run
    PROVE  /\ AfterFirstUpdate(r) \in {"retire matched", "insert"}
           /\ AfterFirstUpdate(r) = "retire matched" => matched[r] # None
  BY DEF AfterFirstUpdate

LEMMA RetireActiveStartsInv ==
    ASSUME IInv, NEW r \in Run, RetireActiveStarts(r)
    PROVE  IInv'
<1>1. PICK a \in RecordId \cup {None} :
        /\ IF ActiveIn(table) = {} THEN a = None ELSE a \in ActiveIn(table)
        /\ seen' = [seen EXCEPT ![r] = a]
        /\ phase' = [phase EXCEPT ![r] = IF a = None THEN AfterFirstUpdate(r) ELSE "lock active"]
  BY DEF RetireActiveStarts
<1>2. a # None => a \in Rows(table)
  BY <1>1 DEF ActiveIn
<1> DEFINE p == IF a = None THEN AfterFirstUpdate(r) ELSE "lock active"
<1>3. /\ p \in {"lock active", "retire matched", "insert"}
      /\ p = "retire matched" => matched[r] # None
      /\ p = "lock active" => a \in Rows(table)
  BY <1>2, AfterFirstUpdateType
<1>4. phase' = [phase EXCEPT ![r] = p] /\ phase[r] = "retire active"
  BY <1>1 DEF RetireActiveStarts
<1> HIDE DEF p
<1>5. Inner(r, p, matched[r], new[r], a, retired[r])
  BY <1>1, <1>3, <1>4, OpenTransaction DEF Inner, RetireActiveStarts, IInv, TypeOK
<1> QED  BY <1>5, InnerInv

LEMMA RetireActiveEndsInv ==
    ASSUME IInv, NEW r \in Run, RetireActiveEnds(r)
    PROVE  IInv'
<1> DEFINE g == IF table[seen[r]].active THEN retired[r] \cup {seen[r]} ELSE retired[r]
           p == AfterFirstUpdate(r)
<1>1. seen[r] \in Rows(table)
  BY DEF RetireActiveEnds, IInv, ReadRowsExist
<1>2. g \in SUBSET Rows(table) /\ retired' = [retired EXCEPT ![r] = g]
  BY <1>1, OpenTransaction DEF RetireActiveEnds
<1>3. /\ p \in {"retire matched", "insert"}
      /\ p = "retire matched" => matched[r] # None
      /\ phase' = [phase EXCEPT ![r] = p]
  BY AfterFirstUpdateType DEF RetireActiveEnds
<1> HIDE DEF g, p
<1>4. Inner(r, p, matched[r], new[r], seen[r], g)
  BY <1>2, <1>3, OpenTransaction DEF Inner, RetireActiveEnds, IInv, TypeOK
<1> QED  BY <1>4, InnerInv

LEMMA RetireMatchedInv ==
    ASSUME IInv, NEW r \in Run, RetireMatched(r)
    PROVE  IInv'
<1>1. matched[r] \in Rows(table)
  BY DEF RetireMatched, IInv, ReadRowsExist
<1>2. Inner(r, "insert", matched[r], new[r], seen[r], retired[r] \cup {matched[r]})
  BY <1>1, OpenTransaction DEF Inner, RetireMatched, IInv, TypeOK
<1> QED  BY <1>2, InnerInv

\* The unique index lets a transaction pass only when it has retired the active
\* row and no other one has passed.
LEMMA InsertSucceedsInv ==
    ASSUME IInv, NEW r \in Run, InsertSucceeds(r)
    PROVE  IInv'
<1>1. ActiveIn(table) \subseteq retired[r] /\ \A s \in Run \ {r} : phase[s] # "commit"
  BY DEF InsertSucceeds, IndexHolders, UniqueViolation
<1>2. Inner(r, "commit", matched[r], new[r], seen[r], retired[r])
  BY <1>1, OpenTransaction DEF Inner, InsertSucceeds, IInv, TypeOK
<1> QED  BY <1>2, InnerInv

LEMMA NextInv == IInv /\ [Next]_vars => IInv'
<1> SUFFICES ASSUME IInv, [Next]_vars PROVE IInv'
  OBVIOUS
<1>1. ASSUME NEW r \in Run, Progress(r) PROVE IInv'
  <2>1. CASE ResolveToNoWrite(r) \/ InsertViolatesIndex(r)
    <3>1. remaining[r] > 0
      BY <2>1 DEF ResolveToNoWrite, InsertViolatesIndex, IInv, TypeOK
    <3> QED  BY <2>1, <3>1, NoWriteInv DEF ResolveToNoWrite, InsertViolatesIndex
  <2> QED
    BY <1>1, <2>1, LookupInv, ResolveToWriteInv, RetireActiveStartsInv, RetireActiveEndsInv,
       RetireMatchedInv, InsertSucceedsInv, CommitInv DEF Progress
<1>2. ASSUME NEW r \in Run, CandidateFails(r) PROVE IInv'
  BY <1>2, NoWriteInv DEF CandidateFails
<1>3. ASSUME NEW r \in Run, AbortDeadlock(r) PROVE IInv'
  <2>1. remaining[r] > 0
    <3>1. phase[r] # "lookup"
      BY <1>3 DEF AbortDeadlock, Deadlocked, WaitsFor
    <3> QED  BY <3>1 DEF IInv, TypeOK
  <2> QED  BY <1>3, <2>1, NoWriteInv DEF AbortDeadlock
<1>4. CASE UNCHANGED vars
  BY <1>4 DEF vars, IInv, TypeOK, NewIsFresh, ReadRowsExist, CommitIsReady, OneActive,
              HistoryLeadsToActive
<1> QED  BY <1>1, <1>2, <1>3, <1>4 DEF Next

LEMMA OneActiveCardinality == OneActive => ExactlyOneActive
<1> SUFFICES ASSUME OneActive, Rows(table) # {}
             PROVE  Cardinality(ActiveIn(table)) = 1
  BY DEF ExactlyOneActive
<1> QED  BY FS_Singleton DEF OneActive

\* Every reachable state is well typed, for all values of the constants.
THEOREM TypeCorrect == Spec => []TypeOK
<1>1. IInv => TypeOK
  BY DEF IInv
<1> QED  BY InitInv, NextInv, <1>1, PTL DEF Spec

\* Once a project has a profile it has exactly one active profile for ever, however
\* many runs replace it at the same time.
THEOREM OneActiveProfile == Spec => []ExactlyOneActive
<1>1. IInv => ExactlyOneActive
  BY OneActiveCardinality DEF IInv
<1> QED  BY InitInv, NextInv, <1>1, PTL DEF Spec

\* From every profile a project ever had the links lead to the active one.
THEOREM HistoryIsConnected == Spec => []HistoryLeadsToActive
<1>1. IInv => HistoryLeadsToActive
  BY DEF IInv
<1> QED  BY InitInv, NextInv, <1>1, PTL DEF Spec

-----------------------------------------------------------------------------
(* One run at a time.  What a run read stays the active profile until it     *)
(* commits, so both UPDATEs find the same row.                               *)

ReadIsCurrent ==
    \A r \in Run : phase[r] # "lookup" =>
        /\ ActiveIn(table) = {matched[r]} \ {None}
        /\ retired[r] \subseteq ActiveIn(table)
        /\ phase[r] = "lock active" => seen[r] \in ActiveIn(table)

PatchInv == IInv /\ BackLinksExist(table) /\ PatchedFromCurrent /\ ReadIsCurrent

LEMMA PatchInit == Init => PatchInv
<1> SUFFICES ASSUME Init PROVE PatchInv
  OBVIOUS
<1>1. \A a \in Rows(table) : table[a].supersedes = None /\ table[a].supersededBy = None
  BY DEF Init, Rows, NewVersion
<1>2. None \notin Rows(table)
  BY NoneAssumption DEF Rows
<1>3. BackLinksExist(table) /\ PatchedFromCurrent
  BY <1>1, <1>2 DEF BackLinksExist, PatchedFromCurrent, LinksAgree
<1> QED  BY <1>3, InitInv DEF PatchInv, ReadIsCurrent, Init

\* A candidate that ends without a commit disturbs nobody's reading.
LEMMA EndedPatch ==
    ASSUME PatchInv, IInv', NEW r \in Run, NextCandidate(r), UNCHANGED table
    PROVE  PatchInv'
<1>1. ASSUME NEW s \in Run, phase'[s] # "lookup"
      PROVE  /\ phase'[s] = phase[s] /\ matched'[s] = matched[s]
             /\ retired'[s] = retired[s] /\ seen'[s] = seen[s]
  BY <1>1 DEF NextCandidate, PatchInv, IInv, TypeOK
<1>2. ReadIsCurrent'
  BY <1>1 DEF ReadIsCurrent, PatchInv
<1> QED  BY <1>2 DEF PatchInv, PatchedFromCurrent

\* A commit of the only run that is at work replaces the row it was patched from.
LEMMA CommittedPatch ==
    ASSUME PatchInv, IInv', NEW r \in Run, Commit(r),
           \A s \in Run \ {r} : phase[s] = "lookup"
    PROVE  PatchInv'
<1> DEFINE n == new[r]
           old == matched[r]
<1>1. /\ n \in RecordId \ Rows(table) /\ table \in Table
      /\ phase[r] = "commit"
      /\ table' = Replaced(table, n, old, retired[r])
  <2>1. phase[r] = "commit" /\ table' = Replaced(table, n, old, retired[r])
    BY DEF Commit, TableAfter
  <2>2. n \in RecordId /\ n # None /\ table[n] = None
    BY <2>1, OpenTransaction DEF PatchInv
  <2>3. table \in Table
    BY DEF PatchInv, IInv, TypeOK, Table
  <2> QED  BY <2>1, <2>2, <2>3 DEF Rows
<1>2. /\ ActiveIn(table) = {old} \ {None}
      /\ retired[r] = ActiveIn(table)
  BY <1>1 DEF PatchInv, ReadIsCurrent, IInv, CommitIsReady
<1>3. None \notin Rows(table) /\ ActiveIn(table) \subseteq Rows(table)
  BY NoneAssumption DEF Rows, ActiveIn
<1>4. old \in ActiveIn(table) \cup {None} /\ retired[r] = {old} \cap Rows(table)
  BY <1>2, <1>3
<1>5. old \in Rows(table) \cup {None} /\ retired[r] \in SUBSET Rows(table)
  BY <1>3, <1>4
<1>6. ForwardLinks(table) /\ BackLinksExist(table) /\ LinksAgree(table)
  BY DEF PatchInv, IInv, HistoryLeadsToActive, EveryVersionLeadsToActive, PatchedFromCurrent
<1>7. PICK gone \in SUBSET Rows(table) : gone = retired[r]
  BY <1>5
<1> HIDE DEF n, old
<1>8. BackLinksExist(table')
  BY <1>1, <1>5, <1>6, <1>7, ReplacedBackLinks
<1>9. LinksAgree(table')
  BY <1>1, <1>4, <1>6, ReplacedLinksAgree
<1>10. \A s \in Run : phase'[s] = "lookup"
  BY DEF Commit, NextCandidate, PatchInv, IInv, TypeOK
<1> QED  BY <1>8, <1>9, <1>10 DEF PatchInv, PatchedFromCurrent, ReadIsCurrent

LEMMA WorkingPatch ==
    ASSUME PatchInv, IInv', NEW r \in Run, Progress(r),
           \A s \in Run \ {r} : phase[s] = "lookup"
    PROVE  PatchInv'
<1> USE DEF PatchInv
<1>10. TypeOK /\ ReadRowsExist /\ OneActive
  BY DEF IInv
<1>1. CASE Commit(r)
  BY <1>1, CommittedPatch
<1>2. CASE ResolveToNoWrite(r) \/ InsertViolatesIndex(r)
  BY <1>2, EndedPatch DEF ResolveToNoWrite, InsertViolatesIndex
<1>3. ASSUME NEW p, NEW m, NEW w, NEW g, UNCHANGED table,
             phase' = [phase EXCEPT ![r] = p], matched' = [matched EXCEPT ![r] = m],
             seen' = [seen EXCEPT ![r] = w], retired' = [retired EXCEPT ![r] = g],
             ActiveIn(table) = {m} \ {None}, g \subseteq ActiveIn(table),
             p = "lock active" => w \in ActiveIn(table)
      PROVE  PatchInv'
  <2>1. \A s \in Run \ {r} : phase'[s] = "lookup"
    BY <1>10, <1>3 DEF TypeOK
  <2>2. /\ phase'[r] = p /\ matched'[r] = m /\ seen'[r] = w /\ retired'[r] = g
    BY <1>10, <1>3 DEF TypeOK
  <2>3. ReadIsCurrent'
    BY <1>3, <2>1, <2>2 DEF ReadIsCurrent
  <2> QED  BY <1>3, <2>3 DEF PatchedFromCurrent
<1>0. ASSUME phase[r] # "lookup"
      PROVE  /\ ActiveIn(table) = {matched[r]} \ {None} /\ retired[r] \subseteq ActiveIn(table)
             /\ phase[r] = "lock active" => seen[r] \in ActiveIn(table)
             /\ matched' = matched => matched' = [matched EXCEPT ![r] = matched[r]]
             /\ seen' = seen => seen' = [seen EXCEPT ![r] = seen[r]]
             /\ retired' = retired => retired' = [retired EXCEPT ![r] = retired[r]]
  <2>1. /\ ActiveIn(table) = {matched[r]} \ {None} /\ retired[r] \subseteq ActiveIn(table)
        /\ phase[r] = "lock active" => seen[r] \in ActiveIn(table)
    BY <1>0 DEF ReadIsCurrent
  <2> QED  BY <1>10, <2>1 DEF TypeOK
<1>4. CASE Lookup(r)
  <2>1. PICK a \in RecordId \cup {None} :
          /\ IF ActiveIn(table) = {} THEN a = None ELSE a \in ActiveIn(table)
          /\ matched' = [matched EXCEPT ![r] = a]
    BY <1>4 DEF Lookup
  <2>2. ActiveIn(table) \subseteq Rows(table) /\ None \notin ActiveIn(table)
    BY NoneAssumption DEF ActiveIn, Rows
  <2>3. ActiveIn(table) = {a} \ {None}
    <3>1. CASE ActiveIn(table) = {}
      BY <2>1, <3>1
    <3>2. CASE ActiveIn(table) # {}
      <4>1. PICK b \in RecordId : ActiveIn(table) = {b}
        BY <1>10, <2>2, <3>2 DEF OneActive
      <4> QED  BY <2>1, <2>2, <4>1
    <3> QED  BY <3>1, <3>2
  <2>4. retired[r] = {} /\ phase' = [phase EXCEPT ![r] = "resolve"]
    BY <1>10, <1>4 DEF Lookup, TypeOK
  <2>5. seen' = [seen EXCEPT ![r] = seen[r]] /\ retired' = [retired EXCEPT ![r] = {}]
    BY <1>10, <1>4, <2>4 DEF Lookup, TypeOK
  <2>6. UNCHANGED table
    BY <1>4 DEF Lookup
  <2> QED  BY <1>3, <2>1, <2>3, <2>4, <2>5, <2>6
<1>5. CASE ResolveToWrite(r)
  <2>1. phase[r] = "resolve" /\ phase' = [phase EXCEPT ![r] = "retire active"]
        /\ UNCHANGED <<table, matched, seen, retired>>
    BY <1>5 DEF ResolveToWrite
  <2> QED  BY <1>0, <1>3, <2>1
<1>6. CASE RetireActiveStarts(r)
  <2>1. PICK a \in RecordId \cup {None} :
          /\ IF ActiveIn(table) = {} THEN a = None ELSE a \in ActiveIn(table)
          /\ seen' = [seen EXCEPT ![r] = a]
          /\ phase' = [phase EXCEPT ![r] = IF a = None THEN AfterFirstUpdate(r) ELSE "lock active"]
    BY <1>6 DEF RetireActiveStarts
  <2> DEFINE p == IF a = None THEN AfterFirstUpdate(r) ELSE "lock active"
  <2>2. p = "lock active" => a \in ActiveIn(table)
    BY <2>1 DEF AfterFirstUpdate
  <2>3. phase' = [phase EXCEPT ![r] = p] /\ phase[r] = "retire active"
        /\ UNCHANGED <<table, matched, retired>>
    BY <1>6, <2>1 DEF RetireActiveStarts
  <2> HIDE DEF p
  <2> QED  BY <1>0, <1>3, <2>1, <2>2, <2>3
<1>7. CASE RetireActiveEnds(r)
  <2> DEFINE g == IF table[seen[r]].active THEN retired[r] \cup {seen[r]} ELSE retired[r]
             p == AfterFirstUpdate(r)
  <2>1. phase[r] = "lock active" /\ UNCHANGED <<table, matched, seen>>
        /\ retired' = [retired EXCEPT ![r] = g] /\ phase' = [phase EXCEPT ![r] = p]
    BY <1>7 DEF RetireActiveEnds
  <2>2. g \subseteq ActiveIn(table) /\ p # "lock active"
    BY <1>0, <2>1 DEF AfterFirstUpdate
  <2> HIDE DEF g, p
  <2> QED  BY <1>0, <1>3, <2>1, <2>2
<1>8. CASE RetireMatched(r)
  <2> DEFINE g == retired[r] \cup {matched[r]}
  <2>1. phase[r] = "retire matched" /\ UNCHANGED <<table, matched, seen>>
        /\ retired' = [retired EXCEPT ![r] = g] /\ phase' = [phase EXCEPT ![r] = "insert"]
    BY <1>8 DEF RetireMatched
  <2>2. g \subseteq ActiveIn(table)
    BY <1>10, <1>0, <2>1 DEF ReadRowsExist
  <2> HIDE DEF g
  <2> QED  BY <1>0, <1>3, <2>1, <2>2
<1>9. CASE InsertSucceeds(r)
  <2>1. phase[r] = "insert" /\ phase' = [phase EXCEPT ![r] = "commit"]
        /\ UNCHANGED <<table, matched, seen, retired>>
    BY <1>9 DEF InsertSucceeds
  <2> QED  BY <1>0, <1>3, <2>1
<1> QED
  BY <1>1, <1>2, <1>4, <1>5, <1>6, <1>7, <1>8, <1>9 DEF Progress

\* Among all scenarios of the model-checking module, with any number of runs, those
\* whose candidates do not overlap patch every new profile from the one it replaces,
\* however their statements fail.
THEOREM SerialRunsAlwaysPatchCurrent == MCSpec => []SerialRunsPatchCurrent
<1> DEFINE Patched == IInv /\ (serial => PatchInv)
<1>1. MCInit => Patched
  BY InitInv, PatchInit DEF MCInit
<1>2. Patched /\ [MCNext]_<<vars, serial>> => Patched'
  <2> SUFFICES ASSUME Patched, [MCNext]_<<vars, serial>> PROVE Patched'
    OBVIOUS
  <2>1. serial' = serial /\ [Next]_vars
    BY DEF MCNext, MCProgress, Next
  <2>2. IInv'
    BY <2>1, NextInv
  <2>3. ASSUME serial PROVE PatchInv'
    <3>1. ASSUME NEW r \in Run, Progress(r), Alone(r) PROVE PatchInv'
      BY <2>2, <2>3, <3>1, WorkingPatch DEF Alone
    <3>2. ASSUME NEW r \in Run, NextCandidate(r), UNCHANGED table PROVE PatchInv'
      BY <2>2, <2>3, <3>2, EndedPatch
    <3>3. CASE UNCHANGED vars
      BY <2>2, <2>3, <3>3 DEF vars, PatchInv, PatchedFromCurrent, ReadIsCurrent
    <3> QED
      BY <3>1, <3>2, <3>3 DEF MCNext, MCProgress, CandidateFails, AbortDeadlock
  <2> QED  BY <2>1, <2>2, <2>3
<1>3. Patched => SerialRunsPatchCurrent
  BY DEF PatchInv, SerialRunsPatchCurrent
<1> QED  BY <1>1, <1>2, <1>3, PTL DEF MCSpec
=============================================================================
